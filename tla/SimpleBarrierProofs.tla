------------------------- MODULE SimpleBarrierProofs -------------------------
(***************************************************************************)
(* Theorems about SimpleBarrier, for any number of threads and of calls.   *)
(***************************************************************************)
EXTENDS SimpleBarrier, TLAPS

(* The master is a thread, and the phase of a thread is a bit.             *)
LEMMA Master0 == 0 \in ID /\ Waiter \subseteq ID /\ ID \subseteq Nat
BY MAXAssumption DEF ID, Waiter

LEMMA PhaseType ==
  ASSUME TypeOK, NEW t \in ID
  PROVE  Phase(t) \in Bit /\ Other(Phase(t)) \in Bit /\ Other(Phase(t)) # Phase(t)
BY DEF TypeOK, Bit, Phase, Other

LEMMA InitInv == Init => IInv
<1> SUFFICES ASSUME Init PROVE IInv
  OBVIOUS
<1>1. TypeOK
  BY MAXAssumption DEF Init, TypeOK, Bit, PC
<1>2. Control /\ Lockstep /\ Flags /\ Counts
  BY Master0 DEF Init, Control, Lockstep, InStep, Flags, Counts, CountOf, Bit, PC, Waiter,
                 Collected, LastPhase, Phase, Other
<1> QED
  BY <1>1, <1>2 DEF IInv

(* Every action preserves the types. *)
LEMMA TypeStep == TypeOK /\ Control /\ [Next]_vars => TypeOK'
<1> SUFFICES ASSUME TypeOK, Control, [Next]_vars PROVE TypeOK'
  OBVIOUS
<1> USE Master0 DEF TypeOK, Bit, PC
<1>1. ASSUME NEW t \in ID, Enter(t) PROVE TypeOK'
  BY <1>1 DEF Enter, AfterLoopTest
<1>2. CASE AwaitCount
  BY <1>2 DEF AwaitCount
<1>3. CASE ClearCount
  BY <1>3 DEF ClearCount, AfterLoopTest, Control, Other, Phase
<1>4. CASE ResetFlag
  BY <1>4 DEF ResetFlag, Other, Phase
<1>5. CASE SetFlag
  BY <1>5 DEF SetFlag, Leave, Phase
<1>6. ASSUME NEW t \in ID, SetCount(t) PROVE TypeOK'
  BY <1>6 DEF SetCount, Phase
<1>7. ASSUME NEW t \in ID, AwaitFlag(t) PROVE TypeOK'
  BY <1>7 DEF AwaitFlag, Leave
<1>8. CASE UNCHANGED vars
  BY <1>8 DEF vars
<1> QED
  BY <1>1, <1>2, <1>3, <1>4, <1>5, <1>6, <1>7, <1>8 DEF Next, Step, Master, Spin

(* Every action preserves the rest of the inductive invariant: one step    *)
(* per action, and under it one per conjunct.  What concerns a waiter is   *)
(* shown of an arbitrary waiter u.                                         *)
LEMMA InductiveStep == IInv /\ [Next]_vars => IInv'
<1> SUFFICES ASSUME IInv, [Next]_vars PROVE IInv'
  OBVIOUS
<1> USE Master0
<1>t. TypeOK /\ Control /\ Flags /\ TypeOK'
  BY TypeStep DEF IInv
<1>w. ASSUME NEW u \in Waiter PROVE InStep(u) /\ CountOf(u) /\ u \in ID /\ u # 0
  BY DEF IInv, Lockstep, Counts, Waiter
<1> SUFFICES /\ Control' /\ Flags'
             /\ \A u \in Waiter : InStep(u)' /\ CountOf(u)'
  BY <1>t DEF IInv, Lockstep, Counts
<1> USE DEF TypeOK, Bit, PC, Phase, Other, Collected, LastPhase
<1>1. ASSUME NEW t \in ID, Enter(t)
      PROVE  Control' /\ Flags' /\ \A u \in Waiter : InStep(u)' /\ CountOf(u)'
  <2>1. Control'
    BY <1>1, <1>t, MAXAssumption DEF Enter, AfterLoopTest, Control, ID, Waiter
  <2>2. Flags'
    BY <1>1, <1>t DEF Enter, AfterLoopTest, Control, Flags
  <2>3. ASSUME NEW u \in Waiter PROVE InStep(u)' /\ CountOf(u)'
    <3>0. u \in Nat /\ u >= 1
      BY DEF Waiter, ID
    <3>1. ~Collected(u)' \/ t # 0
      BY <1>1, <3>0, <1>t, MAXAssumption DEF Enter, AfterLoopTest, Waiter, ID
    <3>2. CASE t = 0
      BY <1>1, <1>t, <1>w, <3>0, <3>1, <3>2, MAXAssumption DEF Enter, AfterLoopTest, Control, InStep, CountOf
    <3>3. CASE t = u
      BY <1>1, <1>t, <1>w, <3>3 DEF Enter, Control, InStep, CountOf
    <3>4. CASE t # 0 /\ t # u
      BY <1>1, <1>t, <1>w, <3>4 DEF Enter, Control, InStep, CountOf
    <3> QED
      BY <3>2, <3>3, <3>4
  <2> QED
    BY <2>1, <2>2, <2>3
<1>2. CASE AwaitCount
  <2>1. Control'
    BY <1>2, <1>t DEF AwaitCount, Control, ID, Waiter
  <2>2. Flags'
    BY <1>2, <1>t DEF AwaitCount, Control, Flags
  <2>3. ASSUME NEW u \in Waiter PROVE InStep(u)'
    BY <1>2, <1>t, <1>w DEF AwaitCount, Control, InStep, CountOf, Waiter, ID
  <2>4. ASSUME NEW u \in Waiter PROVE CountOf(u)'
    BY <1>2, <1>t, <1>w DEF AwaitCount, Control, InStep, CountOf, Waiter, ID
  <2> QED
    BY <2>1, <2>2, <2>3, <2>4
<1>3. CASE ClearCount
  <2>0. /\ i \in Waiter /\ i \in Nat /\ i + 1 > i
        /\ pc[i] = "await_flag" /\ calls[i] = calls[0]
        /\ i + 1 < MAX => i + 1 \in Waiter
    BY <1>3, <1>t, <1>w, MAXAssumption DEF ClearCount, Control, InStep, Waiter, ID
  <2>1. pc' = [pc EXCEPT ![0] = IF i + 1 < MAX THEN "await_count" ELSE "reset_flag"]
    BY <1>3 DEF ClearCount, AfterLoopTest
  <2>2. Control'
    BY <1>3, <1>t, <1>w, <2>0, <2>1 DEF ClearCount, Control
  <2>3. Flags'
    BY <1>3, <1>t, <2>1 DEF ClearCount, Control, Flags
  <2>4. ASSUME NEW u \in Waiter PROVE InStep(u)' /\ CountOf(u)'
    <3>0. u \in Nat /\ u < MAX
      BY MAXAssumption DEF Waiter, ID
    <3>1. Collected(u)' <=> (Collected(u) \/ u = i)
      BY <1>3, <1>t, <2>0, <2>1, <3>0, MAXAssumption DEF ClearCount
    <3>2. pc'[u] = pc[u] /\ ~(pc'[0] = "clear_count") /\ pc'[0] # "out"
      BY <1>t, <1>w, <2>1
    <3>3. InStep(u)'
      BY <1>3, <1>w, <2>0, <3>1, <3>2 DEF ClearCount, InStep
    <3>4. CASE u = i
      <4>1. TURN[u] = TURN[0] /\ TURN[u] \in Bit
        BY <1>t, <1>w, <2>0, <3>4 DEF InStep
      <4>2. /\ COUNT'[1 - TURN[0]][u] = COUNT[1 - TURN[0]][u] \/ TURN[0] = 1 - TURN[0]
            /\ COUNT'[1 - (1 - TURN[0])][u] = 0
        BY <1>3, <1>t, <1>w, <3>4 DEF ClearCount
      <4>3. CountOf(u)'
        BY <1>3, <1>w, <3>1, <3>2, <3>4, <4>1, <4>2 DEF ClearCount, CountOf
      <4> QED
        BY <3>3, <4>3
    <3>5. CASE u # i
      <4>1. \A p \in Bit : COUNT'[p][u] = COUNT[p][u]
        BY <1>3, <1>t, <1>w, <2>0, <3>5 DEF ClearCount
      <4>2. CountOf(u)'
        BY <1>3, <1>t, <1>w, <3>1, <3>2, <3>5, <4>1 DEF ClearCount, CountOf
      <4> QED
        BY <3>3, <4>2
    <3> QED
      BY <3>3, <3>4, <3>5
  <2> QED
    BY <2>2, <2>3, <2>4
<1>4. CASE ResetFlag
  <2>1. Control'
    BY <1>4, <1>t DEF ResetFlag, Control, ID, Waiter
  <2>2. Flags'
    BY <1>4, <1>t DEF ResetFlag, Control, Flags
  <2>3. ASSUME NEW u \in Waiter PROVE InStep(u)'
    BY <1>4, <1>t, <1>w DEF ResetFlag, Control, InStep, CountOf, Waiter, ID
  <2>4. ASSUME NEW u \in Waiter PROVE CountOf(u)'
    BY <1>4, <1>t, <1>w DEF ResetFlag, Control, InStep, CountOf, Waiter, ID
  <2> QED
    BY <2>1, <2>2, <2>3, <2>4
<1>5. CASE SetFlag
  <2>1. Control'
    BY <1>5, <1>t DEF SetFlag, Leave, Control, ID, Waiter
  <2>2. Flags'
    BY <1>5, <1>t DEF SetFlag, Leave, Control, Flags
  <2>3. ASSUME NEW u \in Waiter PROVE InStep(u)'
    BY <1>5, <1>t, <1>w DEF SetFlag, Leave, Control, InStep, CountOf, Waiter, ID
  <2>4. ASSUME NEW u \in Waiter PROVE CountOf(u)'
    BY <1>5, <1>t, <1>w DEF SetFlag, Leave, Control, InStep, CountOf, Waiter, ID
  <2> QED
    BY <2>1, <2>2, <2>3, <2>4
<1>6. ASSUME NEW t \in ID, SetCount(t)
      PROVE  Control' /\ Flags' /\ \A u \in Waiter : InStep(u)' /\ CountOf(u)'
  <2>0. t \in Waiter /\ pc[t] = "set_count"
    BY <1>6, <1>t DEF SetCount, Control, Waiter
  <2>1. Control'
    BY <1>6, <1>t, <2>0 DEF SetCount, Control, ID, Waiter
  <2>2. Flags'
    BY <1>6, <1>t, <2>0 DEF SetCount, Control, Flags
  <2>3. ASSUME NEW u \in Waiter PROVE InStep(u)'
    BY <1>6, <1>t, <1>w, <2>0 DEF SetCount, Control, InStep, CountOf, Waiter, ID
  <2>4. ASSUME NEW u \in Waiter PROVE CountOf(u)'
    <3>1. ~Collected(t) /\ calls[t] > 0
      BY <1>6, <1>t, <1>w, <2>0 DEF Control, InStep
    <3>2. CASE u = t
      BY <1>6, <1>t, <1>w, <2>0, <3>1, <3>2 DEF SetCount, CountOf
    <3>3. CASE u # t
      BY <1>6, <1>t, <1>w, <2>0, <3>3 DEF SetCount, CountOf
    <3> QED
      BY <3>2, <3>3
  <2> QED
    BY <2>1, <2>2, <2>3, <2>4
<1>7. ASSUME NEW t \in ID, AwaitFlag(t)
      PROVE  Control' /\ Flags' /\ \A u \in Waiter : InStep(u)' /\ CountOf(u)'
  <2>0. t \in Waiter /\ pc[t] = "await_flag"
    BY <1>7, <1>t DEF AwaitFlag, Control, Waiter
  <2>i. returns[t] < returns[0] /\ calls[t] = returns[0] /\ ~Collected(t)
    BY <1>7, <1>t, <1>w, <2>0 DEF AwaitFlag, Control, InStep, Flags
  <2>1. Control'
    BY <1>7, <1>t, <2>0, <2>i DEF AwaitFlag, Leave, Control, ID, Waiter
  <2>2. Flags'
    BY <1>7, <1>t, <2>0, <2>i DEF AwaitFlag, Leave, Control, Flags
  <2>3. ASSUME NEW u \in Waiter PROVE InStep(u)'
    BY <1>7, <1>t, <1>w, <2>0, <2>i DEF AwaitFlag, Leave, Control, InStep, CountOf, Waiter, ID
  <2>4. ASSUME NEW u \in Waiter PROVE CountOf(u)'
    BY <1>7, <1>t, <1>w, <2>0, <2>i DEF AwaitFlag, Leave, Control, InStep, CountOf, Waiter, ID
  <2> QED
    BY <2>1, <2>2, <2>3, <2>4
<1>8. CASE UNCHANGED vars
  BY <1>8, <1>t, <1>w DEF vars, Control, InStep, Flags, CountOf
<1> QED
  BY <1>1, <1>2, <1>3, <1>4, <1>5, <1>6, <1>7, <1>8 DEF Next, Step, Master, Spin

(* The types of SIMPLE_BARRIER's words and the whole inductive invariant   *)
(* hold in every reachable state.                                          *)
THEOREM Invariance == Spec => []IInv
BY InitInv, InductiveStep, PTL DEF Spec

(* FLAG, COUNT and TURN of SIMPLE_BARRIER keep their types.                *)
THEOREM TypeCorrect == Spec => []TypeOK
<1>1. IInv => TypeOK
  BY DEF IInv
<1> QED
  BY <1>1, Invariance, PTL

LEMMA InvSeparates == IInv => Separation
<1> SUFFICES ASSUME IInv, NEW t \in ID, NEW u \in ID PROVE returns[t] <= calls[u]
  BY DEF Separation
<1>1. returns[t] <= returns[0]
  BY Master0 DEF IInv, TypeOK, Lockstep, InStep, Waiter
<1>2. returns[0] <= calls[u]
  BY Master0 DEF IInv, TypeOK, Control, Lockstep, InStep, Waiter
<1> QED
  BY <1>1, <1>2, Master0 DEF IInv, TypeOK

(* SIMPLE_BARRIER separates rounds: no thread returns from its n-th call   *)
(* before every thread has made its n-th call.                             *)
THEOREM SeparationHolds == Spec => []Separation
BY Invariance, InvSeparates, PTL

(* An announced waiter stays counted until it is released.                 *)
THEOREM ArrivalKeptHolds == Spec => []ArrivalKept
<1>1. IInv => ArrivalKept
  <2> SUFFICES ASSUME IInv, NEW t \in Waiter, pc[t] = "await_flag"
               PROVE  COUNT[Phase(t)][t] = 1
    BY DEF ArrivalKept
  <2>1. calls[t] = returns[t] + 1 /\ returns[t] \in Nat
    BY Master0 DEF IInv, TypeOK, Control
  <2> QED
    BY <2>1 DEF IInv, Counts, CountOf
<1> QED
  BY <1>1, Invariance, PTL

(* The master never takes a release word down under a thread that waits    *)
(* on it.                                                                  *)
THEOREM NoLostReleaseHolds == Spec => NoLostRelease
<1> DEFINE A == \A p \in Bit : (FLAG[p] = 1 /\ FLAG'[p] = 0)
                  => \A t \in Waiter : ~(pc[t] = "await_flag" /\ Phase(t) = p)
<1>1. IInv /\ [Next]_vars => [A]_vars
  <2> SUFFICES ASSUME IInv, Next PROVE A
    BY DEF NoLostRelease
  <2> USE Master0 DEF IInv, TypeOK
  <2>1. CASE ResetFlag
    BY <2>1 DEF ResetFlag, Control, Lockstep, InStep, Flags, Collected, Phase, Other, LastPhase, Waiter, Bit
  <2>2. CASE SetFlag
    BY <2>2 DEF SetFlag, Phase, Bit
  <2>3. CASE UNCHANGED FLAG
    BY <2>3
  <2> QED
    BY <2>1, <2>2, <2>3 DEF Next, Step, Master, Spin, Enter, AwaitCount, ClearCount, SetCount, AwaitFlag, vars
<1> QED
  BY <1>1, Invariance, PTL DEF Spec, NoLostRelease

(* A thread that calls the barrier finds the words of its phase clean.     *)
THEOREM CleanEntryHolds == Spec => CleanEntry
<1> DEFINE A == \A t \in ID : (pc[t] = "out" /\ pc'[t] # "out")
                  => /\ FLAG[Phase(t)'] = 0
                     /\ t # 0 => COUNT[Phase(t)'][t] = 0
<1>1. IInv /\ [Next]_vars => [A]_vars
  <2> SUFFICES ASSUME IInv, Next, NEW t \in ID, pc[t] = "out", pc'[t] # "out"
               PROVE  FLAG[Phase(t)'] = 0 /\ (t # 0 => COUNT[Phase(t)'][t] = 0)
    OBVIOUS
  <2> USE Master0 DEF IInv, TypeOK
  <2>1. Enter(t)
    BY DEF Next, Step, Master, Spin, vars, Enter, AwaitCount, ClearCount, ResetFlag, SetFlag,
           SetCount, AwaitFlag, Leave
  <2> QED
    BY <2>1 DEF Enter, Control, Lockstep, InStep, Flags, Counts, CountOf, Phase, Other, LastPhase, Waiter, Bit
<1> QED
  BY <1>1, Invariance, PTL DEF Spec, CleanEntry

(* SIMPLE_BARRIER implements the abstract barrier: entering maps to Call,  *)
(* the master's release and a waiter's last load map to Return, and every  *)
(* other access to a stuttering step.                                      *)
THEOREM Implementation == Spec => ImplementsBarrier
<1>1. Init => Abstract!Init
  BY DEF Init, Abstract!Init
<1>2. IInv /\ [Next]_vars => [Abstract!Next]_(Abstract!barrierVars)
  <2> SUFFICES ASSUME IInv, [Next]_vars
               PROVE  Abstract!Next \/ UNCHANGED <<calls, returns>>
    BY DEF Abstract!barrierVars
  <2> USE Master0 DEF IInv, TypeOK
  <2>1. ASSUME NEW t \in ID, Enter(t) PROVE Abstract!Call(t)
    BY <2>1 DEF Enter, Control, Abstract!Call, Abstract!Outside
  <2>2. CASE SetFlag
    <3>1. \A u \in Waiter : calls[u] = calls[0]
      BY <2>2 DEF SetFlag, Lockstep, InStep, Collected
    <3>2. \A u \in ID : calls[u] >= calls[0]
      BY <3>1 DEF Waiter
    <3> QED
      BY <2>2, <3>2 DEF SetFlag, Leave, Control, Abstract!Return, Abstract!Outside, Abstract!Next
  <2>3. ASSUME NEW t \in ID, AwaitFlag(t) PROVE Abstract!Return(t)
    <3>1. t \in Waiter
      BY <2>3 DEF AwaitFlag, Control, Waiter
    <3>2. calls[t] <= returns[0]
      BY <2>3, <3>1 DEF AwaitFlag, Control, Lockstep, InStep, Flags, Phase, Other, LastPhase, Collected, Bit, Waiter
    <3>3. \A u \in ID : calls[u] >= calls[t]
      <4>1. returns[0] <= calls[0]
        BY DEF Control
      <4>2. \A u \in Waiter : returns[0] <= calls[u]
        BY DEF Lockstep, InStep
      <4> QED
        BY <3>2, <4>1, <4>2 DEF Waiter, ID
    <3> QED
      BY <2>3, <3>3 DEF AwaitFlag, Leave, Control, Abstract!Return, Abstract!Outside
  <2> QED
    BY <2>1, <2>2, <2>3 DEF Next, Step, Master, Spin, AwaitCount, ClearCount, ResetFlag, SetCount, vars, Abstract!Next
<1> QED
  BY <1>1, <1>2, Invariance, PTL DEF Spec, ImplementsBarrier, Abstract!Spec

-----------------------------------------------------------------------------
(* Why the calls return.  Three facts hold in every state, whatever the    *)
(* scheduler does: somebody can go on, who can go on stays able to, and    *)
(* there is an end to going on.  That the calls do return follows when     *)
(* every thread that stays able to go on goes on, which is the fairness of *)
(* FairSpec.                                                               *)

(* The guard of Spin: the word that t waits for is still down.             *)
Waits(t) ==
  \/ t = 0 /\ pc[t] = "await_count" /\ COUNT[Phase(t)][i] = 0
  \/ pc[t] = "await_flag" /\ FLAG[Phase(t)] = 0
Finished(t) == pc[t] = "out" /\ calls[t] = Rounds

(* The guard of some step of t that is not a turn of a wait loop holds. *)
Ready(t) == ~Waits(t) /\ ~Finished(t)

Bounded == i \in 1 .. MAX /\ \A t \in ID : calls[t] <= Rounds

LEMMA BoundedInit == Init => Bounded
BY MAXAssumption, CallsAssumption DEF Init, Bounded

LEMMA BoundedStep == IInv /\ Bounded /\ [Next]_vars => Bounded'
<1> SUFFICES ASSUME IInv, Bounded, [Next]_vars PROVE Bounded'
  OBVIOUS
<1> USE MAXAssumption, CallsAssumption DEF Bounded
<1>t. TypeOK /\ Control
  BY DEF IInv
<1>1. ASSUME NEW x \in ID, Enter(x) PROVE Bounded'
  <2>1. ASSUME NEW t \in ID PROVE calls'[t] <= Rounds
    BY <1>1, <1>t DEF Enter, TypeOK
  <2>2. i' \in 1 .. MAX
    BY <1>1 DEF Enter
  <2> QED
    BY <2>1, <2>2
<1>2. CASE ClearCount
  BY <1>2, <1>t DEF ClearCount, Control, Waiter, ID
<1>3. CASE UNCHANGED <<i, calls>>
  BY <1>3
<1> QED
  BY <1>1, <1>2, <1>3 DEF Next, Step, Master, Spin, AwaitCount, ResetFlag, SetFlag, SetCount, AwaitFlag, vars

LEMMA SomeoneMoves == IInv /\ Bounded => Done \/ \E t \in ID : Ready(t)
<1> SUFFICES ASSUME IInv, Bounded, \A t \in ID : ~Ready(t) PROVE Done
  OBVIOUS
<1> USE Master0, CallsAssumption DEF Phase, Other, Bit
<1>t. TypeOK /\ Control /\ Flags
  BY DEF IInv
<1>w. ASSUME NEW t \in Waiter
      PROVE  /\ InStep(t) /\ CountOf(t) /\ t \in ID /\ t # 0
             /\ pc[t] \in {"out", "set_count", "await_flag"}
             /\ calls[t] \in Nat /\ returns[t] \in Nat /\ calls[t] <= Rounds
             /\ TURN[t] \in {0, 1} /\ TURN[0] \in {0, 1}
             /\ calls[t] = IF pc[t] = "out" THEN returns[t] ELSE returns[t] + 1
             /\ calls[0] \in Nat /\ returns[0] \in Nat
             /\ calls[0] = IF pc[0] = "out" THEN returns[0] ELSE returns[0] + 1
             /\ calls[0] <= Rounds
  BY <1>t DEF IInv, Lockstep, Counts, Control, TypeOK, Bounded, Waiter
<1>1. pc[0] # "await_count"
  <2> SUFFICES ASSUME pc[0] = "await_count" PROVE FALSE
    OBVIOUS
  <2>1. i \in Waiter
    BY <1>t DEF Control
  <2>2. COUNT[Phase(0)][i] = 0
    BY DEF Ready, Finished, Waits
  <2>3. ~Finished(i)
    BY <1>w, <2>1 DEF Finished, InStep
  <2>4. pc[i] = "await_flag" /\ FLAG[Phase(i)] = 0
    BY <1>w, <2>1, <2>3 DEF Ready, Waits
  <2>5. COUNT[Phase(i)][i] = 1 /\ calls[i] > 0
    BY <1>w, <2>1, <2>4 DEF CountOf
  <2>6. CASE calls[i] = calls[0]
    BY <1>w, <2>1, <2>2, <2>5, <2>6 DEF InStep
  <2>7. CASE calls[i] # calls[0]
    <3>1. calls[i] = returns[0] /\ Phase(i) = Other(Phase(0)) /\ Phase(i) \in Bit
      BY <1>w, <2>1, <2>4, <2>7 DEF InStep
    <3>2. FLAG[Phase(i)] = 1
      BY <1>t, <1>w, <2>1, <2>5, <3>1 DEF Flags, LastPhase
    <3> QED
      BY <2>4, <3>2
  <2> QED
    BY <2>6, <2>7
<1>2. Finished(0)
  BY <1>1, <1>t DEF Ready, Waits, Control
<1>3. ASSUME NEW t \in Waiter PROVE Finished(t)
  <2> SUFFICES ASSUME ~Finished(t) PROVE FALSE
    OBVIOUS
  <2>1. pc[t] = "await_flag" /\ FLAG[Phase(t)] = 0
    BY <1>w DEF Ready, Waits
  <2>2. calls[t] = calls[0] /\ returns[0] = calls[0] /\ calls[t] > 0
    BY <1>2, <1>w, <2>1 DEF Finished, InStep
  <2>3. Phase(t) = Phase(0) /\ Phase(t) \in Bit
    BY <1>w, <2>2 DEF InStep
  <2>4. FLAG[Phase(t)] = 1
    BY <1>2, <1>t, <1>w, <2>2, <2>3 DEF Flags, LastPhase, Finished
  <2> QED
    BY <2>1, <2>4
<1> QED
  BY <1>2, <1>3 DEF Done, Finished, Waiter

(* As long as a thread has calls left to make or to return from, the wait  *)
(* loops do not hold every thread: the master never waits for a waiter     *)
(* that waits for the master, and nobody waits for a thread that has made  *)
(* its last call.                                                          *)
THEOREM SomeoneReady == Spec => [](Done \/ \E t \in ID : Ready(t))
<1>1. Init => IInv /\ Bounded
  BY InitInv, BoundedInit
<1>2. (IInv /\ Bounded) /\ [Next]_vars => (IInv /\ Bounded)'
  BY InductiveStep, BoundedStep
<1> QED
  BY <1>1, <1>2, SomeoneMoves, PTL DEF Spec

(* Where a thread is: the loop variable is the master's. *)
At(t) == <<pc[t], calls[t], IF t = 0 THEN i ELSE 0>>

(* A thread that can go on can do so until it does. *)
ReadyStays == [][\A t \in ID : Ready(t) /\ UNCHANGED At(t) => Ready(t)']_vars

(* A wait loop whose word has come up is left: the word stays up until the *)
(* thread has read it, however late it reads.                              *)
THEOREM ReadyStaysHolds == Spec => ReadyStays
<1> DEFINE A == \A t \in ID : Ready(t) /\ UNCHANGED At(t) => Ready(t)'
<1>1. IInv /\ [Next]_vars => [A]_vars
  <2> SUFFICES ASSUME IInv, Next, NEW t \in ID, Ready(t), UNCHANGED At(t)
               PROVE  Ready(t)'
    OBVIOUS
  <2> USE Master0
  <2>t. TypeOK /\ Control
    BY DEF IInv
  <2>a. pc'[t] = pc[t] /\ calls'[t] = calls[t] /\ (t = 0 => i' = i)
    BY DEF At
  <2>f. ~Finished(t)'
    BY <2>a DEF Ready, Finished
  <2>p. TURN'[t] = TURN[t] /\ Phase(t)' = Phase(t)
    <3>1. ASSUME NEW x \in ID, Enter(x) PROVE TURN'[t] = TURN[t]
      <4>1. x # t
        BY <2>t, <2>a, <3>1 DEF Enter, TypeOK
      <4> QED
        BY <2>t, <3>1, <4>1 DEF Enter, TypeOK
    <3>2. TURN'[t] = TURN[t]
      BY <3>1 DEF Next, Step, Master, Spin, vars, AwaitCount, ClearCount, ResetFlag, SetFlag, SetCount, AwaitFlag
    <3> QED
      BY <3>2 DEF Phase
  <2>1. CASE t = 0 /\ pc[t] = "await_count"
    <3>1. COUNT[Phase(t)][i] # 0 /\ i \in Waiter
      BY <2>1, <2>t DEF Ready, Waits, Control
    <3>2. COUNT'[Phase(t)][i] # 0
      <4>1. ASSUME NEW x \in ID, SetCount(x) PROVE COUNT'[Phase(t)][i] # 0
        <5>1. COUNT \in [Bit -> [ID -> Bit]] /\ i \in ID /\ Phase(t) \in Bit /\ Phase(x) \in Bit
          BY <2>t, <3>1, PhaseType DEF TypeOK
        <5>2. COUNT' = [COUNT EXCEPT ![Phase(x)][x] = 1]
          BY <4>1 DEF SetCount
        <5>3. COUNT'[Phase(t)][i] \in {1, COUNT[Phase(t)][i]}
          BY <5>1, <5>2
        <5> QED
          BY <3>1, <5>3
      <4>2. CASE COUNT' = COUNT
        BY <3>1, <4>2
      <4>3. ~ClearCount
        BY <2>1 DEF ClearCount
      <4> QED
        BY <4>1, <4>2, <4>3 DEF Next, Step, Master, Spin, vars, Enter, AwaitCount, ResetFlag, SetFlag, AwaitFlag
    <3> QED
      BY <2>1, <2>a, <2>f, <2>p, <3>2 DEF Ready, Waits
  <2>2. CASE pc[t] = "await_flag"
    <3>1. FLAG[Phase(t)] # 0 /\ t \in Waiter /\ InStep(t)
      BY <2>2, <2>t DEF Ready, Waits, Control, IInv, Lockstep, Waiter
    <3>2. FLAG'[Phase(t)] # 0
      <4>1. CASE ResetFlag
        <5>1. TURN[t] = TURN[0] /\ TURN[0] \in Bit
          BY <2>t, <3>1, <4>1 DEF ResetFlag, InStep, Collected, TypeOK
        <5>2. Phase(t) # Other(Phase(0))
          BY <5>1 DEF Phase, Other, Bit
        <5> QED
          BY <2>t, <3>1, <4>1, <5>2 DEF ResetFlag, TypeOK
      <4>2. CASE SetFlag
        BY <2>t, <3>1, <4>2, PhaseType DEF SetFlag, TypeOK
      <4>3. CASE FLAG' = FLAG
        BY <3>1, <4>3
      <4> QED
        BY <4>1, <4>2, <4>3 DEF Next, Step, Master, Spin, vars, Enter, AwaitCount, ClearCount, SetCount, AwaitFlag
    <3> QED
      BY <2>2, <2>a, <2>f, <2>p, <3>2 DEF Ready, Waits
  <2>3. CASE ~(t = 0 /\ pc[t] = "await_count") /\ pc[t] # "await_flag"
    BY <2>3, <2>a, <2>f DEF Ready, Waits
  <2> QED
    BY <2>1, <2>2, <2>3
<1> QED
  BY <1>1, Invariance, PTL DEF Spec, ReadyStays

(* How far a thread is in its call: the master's loop makes two accesses   *)
(* for every waiter.                                                       *)
Length == 2 * MAX + 4
Offset(t) ==
  CASE pc[t] = "await_count" -> 2 * i
    [] pc[t] = "clear_count" -> 2 * i + 1
    [] pc[t] = "reset_flag"  -> 2 * MAX + 2
    [] pc[t] = "set_flag"    -> 2 * MAX + 3
    [] pc[t] = "set_count"   -> 1
    [] pc[t] = "await_flag"  -> 2
    [] OTHER                 -> Length
Spent(t) == calls[t] * Length + Offset(t)

(* Every change of the state takes one thread onward, and none back.       *)
Spends == [][\E t \in ID : Spent(t) < Spent(t)' /\ \A u \in ID \ {t} : Spent(u)' = Spent(u)]_vars

LEMMA Times ==
  ASSUME NEW a \in Nat, NEW b \in Nat, NEW c \in Nat
  PROVE  /\ a * c \in Nat /\ (a + 1) * c = a * c + c
         /\ a <= b => a * c <= b * c
<1>1. a * c \in Nat /\ (a + 1) * c = a * c + c
  OBVIOUS
<1>2. ASSUME a <= b PROVE a * c <= b * c
  <2>1. PICK d \in Nat : b = a + d
    BY <1>2, b - a \in Nat
  <2>2. b * c = a * c + d * c /\ d * c \in Nat /\ a * c \in Nat
    BY <2>1
  <2> QED
    BY <2>2
<1> QED
  BY <1>1, <1>2

LEMMA LengthType == Length \in Nat /\ Length = 2 * MAX + 4 /\ MAX \in Nat /\ MAX >= 1
BY MAXAssumption DEF Length

LEMMA SpentType ==
  ASSUME TypeOK, Bounded, NEW t \in ID
  PROVE  Spent(t) \in 0 .. (Rounds + 1) * Length
<1>1. calls[t] \in Nat /\ calls[t] <= Rounds /\ Rounds \in Nat
  BY CallsAssumption DEF TypeOK, Bounded
<1>2. /\ calls[t] * Length \in Nat /\ calls[t] * Length <= Rounds * Length
      /\ (Rounds + 1) * Length = Rounds * Length + Length /\ Rounds * Length \in Nat
  BY <1>1, LengthType, Times
<1>3. Offset(t) \in 0 .. Length
  BY LengthType DEF Offset, Bounded
<1> QED
  BY <1>2, <1>3, LengthType DEF Spent

(* A step that is not a turn of a wait loop takes its thread onward, and   *)
(* leaves the others where they are.                                       *)
LEMMA StepSpends ==
  ASSUME IInv, Bounded, NEW x \in ID, Step(x), ~Spin(x)
  PROVE  Spent(x) < Spent(x)' /\ \A u \in ID \ {x} : Spent(u)' = Spent(u)
<1> USE Master0
<1>t. TypeOK /\ Control /\ calls[x] \in Nat /\ i \in Nat /\ i <= MAX /\ i >= 1
  BY MAXAssumption DEF IInv, TypeOK, Bounded
<1>l. /\ calls[x] * Length \in Nat /\ (calls[x] + 1) * Length = calls[x] * Length + Length
      /\ Length \in Nat /\ Length = 2 * MAX + 4 /\ MAX \in Nat
  BY <1>t, LengthType, Times
<1>0. ASSUME NEW u \in ID, u # x PROVE Spent(u)' = Spent(u)
  <2>1. pc'[u] = pc[u] /\ calls'[u] = calls[u]
    BY <1>t, <1>0 DEF TypeOK, Step, Master, Spin, Enter, AwaitCount, ClearCount, ResetFlag, SetFlag,
       SetCount, AwaitFlag, Leave
  <2>2. i' = i \/ x = 0
    BY DEF Step, Master, Spin, vars, Enter, AwaitCount, ClearCount, ResetFlag, SetFlag, SetCount, AwaitFlag
  <2>3. x = 0 => pc[u] \notin {"await_count", "clear_count"}
    BY <1>t, <1>0 DEF Control, Waiter
  <2>4. Offset(u)' = Offset(u)
    BY <2>1, <2>2, <2>3, <1>t, <1>0 DEF Offset, Control, Waiter, Length
  <2> QED
    BY <2>1, <2>4 DEF Spent, Length
<1>1. CASE Enter(x)
  <2>1. calls'[x] = calls[x] + 1 /\ pc[x] = "out"
    BY <1>1, <1>t DEF Enter, TypeOK
  <2>2. Offset(x) = Length
    BY <2>1 DEF Offset
  <2>3. Offset(x)' \in Nat /\ Offset(x)' > 0
    BY <1>1, <1>t, <1>l DEF Enter, AfterLoopTest, TypeOK, Offset
  <2>4. Spent(x)' = (calls[x] + 1) * Length + Offset(x)'
    BY <2>1 DEF Spent, Length
  <2> QED
    BY <1>l, <2>2, <2>3, <2>4, <1>0 DEF Spent
<1>2. CASE ~Enter(x)
  <2>1. calls'[x] = calls[x]
    BY <1>2 DEF Step, Master, Spin, vars, AwaitCount, ClearCount, ResetFlag, SetFlag, SetCount, AwaitFlag
  <2>2. Offset(x) \in Nat /\ Offset(x)' \in Nat /\ Offset(x) < Offset(x)'
    <3>1. CASE x = 0 /\ (AwaitCount \/ ClearCount)
      BY <3>1, <1>t, <1>l DEF AwaitCount, ClearCount, AfterLoopTest, Offset, TypeOK
    <3>2. CASE x = 0 /\ (ResetFlag \/ SetFlag)
      BY <3>2, <1>t, <1>l DEF ResetFlag, SetFlag, Leave, Offset, TypeOK
    <3>3. CASE SetCount(x) \/ AwaitFlag(x)
      BY <3>3, <1>t, <1>l DEF SetCount, AwaitFlag, Leave, Offset, TypeOK
    <3> QED
      BY <1>2, <3>1, <3>2, <3>3 DEF Step, Master
  <2>3. Spent(x)' = calls[x] * Length + Offset(x)'
    BY <2>1 DEF Spent, Length
  <2> QED
    BY <1>l, <2>2, <2>3, <1>0 DEF Spent
<1> QED
  BY <1>1, <1>2

(* A barrier call is finite but for its wait loops: every step that is not *)
(* a turn of one spends from a budget that MAX and the number of calls fix *)
(* in advance.                                                             *)
THEOREM BudgetHolds == Spec => Spends /\ [](\A t \in ID : Spent(t) \in 0 .. (Rounds + 1) * Length)
<1> DEFINE B == \A t \in ID : Spent(t) \in 0 .. (Rounds + 1) * Length
           A == \E t \in ID : Spent(t) < Spent(t)' /\ \A u \in ID \ {t} : Spent(u)' = Spent(u)
<1>1. Init => IInv /\ Bounded
  BY InitInv, BoundedInit
<1>2. (IInv /\ Bounded) /\ [Next]_vars => (IInv /\ Bounded)'
  BY InductiveStep, BoundedStep
<1>3. IInv /\ Bounded => B
  BY SpentType DEF IInv
<1>4. IInv /\ Bounded /\ [Next]_vars => [A]_vars
  <2> SUFFICES ASSUME IInv, Bounded, Next, vars' # vars PROVE A
    BY DEF vars
  <2>1. PICK x \in ID : Step(x) /\ ~Spin(x)
    BY DEF Next, Spin
  <2> QED
    BY <2>1, StepSpends
<1> QED
  BY <1>1, <1>2, <1>3, <1>4, PTL DEF Spec, Spends

=============================================================================
