---------------------------- MODULE SimpleBarrier ----------------------------
(***************************************************************************)
(* SIMPLE_BARRIER of cpu/intel/xeon_phi/barriers.h: a centralised          *)
(* two-phase barrier.  Thread 0 is the master: it collects one COUNT word  *)
(* per waiter and then raises FLAG.  Every thread alternates between two   *)
(* sets of words (phase 0 and phase 1, chosen by its private TURN bit), so *)
(* that the words of one phase are cleared while the other is in use.      *)
(*                                                                         *)
(* One action is one access to a shared word: a volatile load or store of  *)
(* FLAG or COUNT.  TURN[ID] is read and written by thread ID alone, so its *)
(* accesses are part of the action that enters the barrier.                *)
(***************************************************************************)
EXTENDS Naturals

CONSTANTS
  MAX,        \* number of threads, the MAX argument of SIMPLE_BARRIER
  Rounds      \* calls of SIMPLE_BARRIER each thread makes

ASSUME MAXAssumption == MAX \in Nat \ {0}
ASSUME CallsAssumption == Rounds \in Nat

VARIABLES
  TURN,       \* TURN[ID]: phase bit of thread ID
  FLAG,       \* FLAG[p]: release word of phase p
  COUNT,      \* COUNT[p][ID]: arrival word of thread ID in phase p
  pc,         \* pc[ID]: the access thread ID performs next
  i,          \* the master's loop variable
  calls,      \* history: calls of the barrier thread ID has begun
  returns     \* history: calls of the barrier thread ID has returned from

vars == <<TURN, FLAG, COUNT, pc, i, calls, returns>>

ID      == 0 .. MAX - 1
Waiter  == ID \ {0}
Bit     == {0, 1}

(* TURN is flipped on entry: a call that finds 0 runs phase 0 with TURN 1. *)
Phase(t) == 1 - TURN[t]
Other(p) == 1 - p

Init ==
  /\ TURN    = [t \in ID |-> 0]
  /\ FLAG    = [p \in Bit |-> 0]
  /\ COUNT   = [p \in Bit |-> [t \in ID |-> 0]]
  /\ pc      = [t \in ID |-> "out"]
  /\ i       = 1
  /\ calls   = [t \in ID |-> 0]
  /\ returns = [t \in ID |-> 0]

(* The master's next access once its loop variable is j. *)
AfterLoopTest(j) == IF j < MAX THEN "await_count" ELSE "reset_flag"

Leave(t) ==
  /\ pc' = [pc EXCEPT ![t] = "out"]
  /\ returns' = [returns EXCEPT ![t] = @ + 1]

Enter_TurnNotWrapped(t) ==
  /\ pc[t] = "out"
  /\ calls[t] < Rounds
  /\ TURN' = [TURN EXCEPT ![t] = @ + 1]
  /\ calls' = [calls EXCEPT ![t] = @ + 1]
  /\ pc' = [pc EXCEPT ![t] = IF t = 0 THEN AfterLoopTest(1) ELSE "set_count"]
  /\ i' = IF t = 0 THEN 1 ELSE i
  /\ UNCHANGED <<FLAG, COUNT, returns>>

Enter(t) ==
  /\ pc[t] = "out"
  /\ calls[t] < Rounds
  /\ TURN' = [TURN EXCEPT ![t] = 1 - @]
  /\ calls' = [calls EXCEPT ![t] = @ + 1]
  /\ pc' = [pc EXCEPT ![t] = IF t = 0 THEN AfterLoopTest(1) ELSE "set_count"]
  /\ i' = IF t = 0 THEN 1 ELSE i
  /\ UNCHANGED <<FLAG, COUNT, returns>>

AwaitCount_DoesNotWait ==
  /\ pc[0] = "await_count"
  /\ pc' = [pc EXCEPT ![0] = "clear_count"]
  /\ UNCHANGED <<TURN, FLAG, COUNT, i, calls, returns>>

(* while (COUNT_p[i] == 0) DELAY; -- the load that ends the loop. *)
AwaitCount ==
  /\ pc[0] = "await_count"
  /\ COUNT[Phase(0)][i] # 0
  /\ pc' = [pc EXCEPT ![0] = "clear_count"]
  /\ UNCHANGED <<TURN, FLAG, COUNT, i, calls, returns>>

(* COUNT_{1-p}[i] = 0; i++ *)
ClearCount ==
  /\ pc[0] = "clear_count"
  /\ COUNT' = [COUNT EXCEPT ![Other(Phase(0))][i] = 0]
  /\ i' = i + 1
  /\ pc' = [pc EXCEPT ![0] = AfterLoopTest(i + 1)]
  /\ UNCHANGED <<TURN, FLAG, calls, returns>>

ResetFlag_Missing ==
  /\ pc[0] = "reset_flag"
  /\ pc' = [pc EXCEPT ![0] = "set_flag"]
  /\ UNCHANGED <<TURN, FLAG, COUNT, i, calls, returns>>

(* FLAG_{1-p} = 0 *)
ResetFlag ==
  /\ pc[0] = "reset_flag"
  /\ FLAG' = [FLAG EXCEPT ![Other(Phase(0))] = 0]
  /\ pc' = [pc EXCEPT ![0] = "set_flag"]
  /\ UNCHANGED <<TURN, COUNT, i, calls, returns>>

(* FLAG_p = 1, the master's last access. *)
SetFlag ==
  /\ pc[0] = "set_flag"
  /\ FLAG' = [FLAG EXCEPT ![Phase(0)] = 1]
  /\ Leave(0)
  /\ UNCHANGED <<TURN, COUNT, i, calls>>

SetCount_OtherPhase(t) ==
  /\ pc[t] = "set_count"
  /\ COUNT' = [COUNT EXCEPT ![Other(Phase(t))][t] = 1]
  /\ pc' = [pc EXCEPT ![t] = "await_flag"]
  /\ UNCHANGED <<TURN, FLAG, i, calls, returns>>

(* COUNT_p[ID] = 1 *)
SetCount(t) ==
  /\ pc[t] = "set_count"
  /\ COUNT' = [COUNT EXCEPT ![Phase(t)][t] = 1]
  /\ pc' = [pc EXCEPT ![t] = "await_flag"]
  /\ UNCHANGED <<TURN, FLAG, i, calls, returns>>

(* while (FLAG_p == 0) DELAY; -- the load that ends the loop. *)
AwaitFlag(t) ==
  /\ pc[t] = "await_flag"
  /\ FLAG[Phase(t)] # 0
  /\ Leave(t)
  /\ UNCHANGED <<TURN, FLAG, COUNT, i, calls>>

(* A load of a wait loop that finds the word still 0: the thread spins.    *)
Spin(t) ==
  /\ \/ t = 0 /\ pc[t] = "await_count" /\ COUNT[Phase(t)][i] = 0
     \/ pc[t] = "await_flag" /\ FLAG[Phase(t)] = 0
  /\ UNCHANGED vars

Master == AwaitCount \/ ClearCount \/ ResetFlag \/ SetFlag

Step(t) ==
  \/ Enter(t)
  \/ t = 0 /\ Master
  \/ t # 0 /\ (SetCount(t) \/ AwaitFlag(t))
  \/ Spin(t)

(* Every thread has made its calls: the parallel region joins.             *)
Done == \A t \in ID : pc[t] = "out" /\ calls[t] = Rounds

Next == (\E t \in ID : Step(t)) \/ (Done /\ UNCHANGED vars)

Spec == Init /\ [][Next]_vars

(* Each thread has a hardware context of its own and never blocks in the   *)
(* kernel between its calls, so it keeps taking its enabled step.          *)
FairSpec == Spec /\ \A t \in ID : WF_vars(Step(t))

-----------------------------------------------------------------------------

PC == {"out", "await_count", "clear_count", "reset_flag", "set_flag",
       "set_count", "await_flag"}

(* Types of the words and of the threads' local state. *)
TypeOK ==
  /\ TURN \in [ID -> Bit]
  /\ FLAG \in [Bit -> Bit]
  /\ COUNT \in [Bit -> [ID -> Bit]]
  /\ pc \in [ID -> PC]
  /\ i \in Nat
  /\ calls \in [ID -> Nat]
  /\ returns \in [ID -> Nat]

(* The master has collected waiter t in the round it is running. *)
Collected(t) ==
  \/ pc[0] \in {"reset_flag", "set_flag"}
  \/ pc[0] \in {"await_count", "clear_count"} /\ t < i

(* Phase of the last round the master has completed. *)
LastPhase == IF pc[0] = "out" THEN Phase(0) ELSE Other(Phase(0))

(* The two counters of a thread differ exactly while it is inside.         *)
Control ==
  /\ pc[0] \in PC \ {"set_count", "await_flag"}
  /\ \A t \in Waiter : pc[t] \in {"out", "set_count", "await_flag"}
  /\ \A t \in ID : calls[t] = IF pc[t] = "out" THEN returns[t] ELSE returns[t] + 1
  /\ pc[0] \in {"await_count", "clear_count"} => i \in Waiter

(* A waiter runs in lockstep with the master's completed rounds.           *)
InStep(t) ==
  /\ returns[t] <= returns[0] /\ returns[0] <= calls[t]
  /\ calls[t] = returns[0] => pc[t] # "set_count"
  /\ TURN[t] = IF calls[t] = calls[0] THEN TURN[0] ELSE 1 - TURN[0]
  /\ Collected(t) \/ (pc[0] = "clear_count" /\ t = i)
       => pc[t] = "await_flag" /\ calls[t] = calls[0]

Lockstep == \A t \in Waiter : InStep(t)

(* At most one release word is up: that of the last completed round.       *)
Flags ==
  \A p \in Bit :
    FLAG[p] = IF p = LastPhase /\ returns[0] > 0 /\ pc[0] # "set_flag" THEN 1 ELSE 0

(* A waiter's arrival word is up from its arrival until the master         *)
(* collects it one round later.                                            *)
CountOf(t) ==
  /\ COUNT[Phase(t)][t] = IF pc[t] = "set_count" \/ calls[t] = 0 THEN 0 ELSE 1
  /\ COUNT[Other(Phase(t))][t] =
       IF calls[t] > returns[0] /\ returns[0] > 0 /\ ~Collected(t) THEN 1 ELSE 0

Counts == \A t \in Waiter : CountOf(t)

(* The inductive invariant: how the words, the program counters and the    *)
(* round numbers of the threads hang together in every state.              *)
IInv == TypeOK /\ Control /\ Lockstep /\ Flags /\ Counts

(* No thread gets out of its n-th call before every thread has made its    *)
(* n-th call, the one thing SIMPLE_BARRIER exists for.                     *)
Separation == \A t, u \in ID : returns[t] <= calls[u]

(* A waiter that has announced itself and has not been released yet is     *)
(* still counted when the master comes to look: neither the master's       *)
(* clearing of the other phase nor an earlier round erases an arrival.     *)
ArrivalKept ==
  \A t \in Waiter :
    (pc[t] = "await_flag" /\ FLAG[Phase(t)] = 0) => COUNT[Phase(t)][t] = 1

(* The master takes a release word down only when nobody waits on it: a    *)
(* slow waiter never misses its release.                                   *)
NoLostRelease ==
  [][\A p \in Bit :
       (FLAG[p] = 1 /\ FLAG'[p] = 0)
         => \A t \in Waiter : ~(pc[t] = "await_flag" /\ Phase(t) = p)]_vars

(* A thread that calls the barrier finds the words of its phase clean: its *)
(* own arrival word and the release word are both down, however far ahead  *)
(* or behind the other threads are, so a stale 1 of two rounds ago is      *)
(* never taken for this round's.                                           *)
CleanEntry ==
  [][\A t \in ID :
       (pc[t] = "out" /\ pc'[t] # "out")
         => /\ FLAG[Phase(t)'] = 0
            /\ t # 0 => COUNT[Phase(t)'][t] = 0]_vars

(* Every call returns. *)
CallsReturn == \A t \in ID : (pc[t] # "out") ~> (pc[t] = "out")

(* The barrier implements the abstract one. *)
Abstract == INSTANCE PhasedBarrier WITH Threads <- ID
ImplementsBarrier == Abstract!Spec

=============================================================================
