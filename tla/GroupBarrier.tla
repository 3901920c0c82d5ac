---------------------------- MODULE GroupBarrier -----------------------------
(***************************************************************************)
(* TREE_BARRIER and USER_BARRIER of cpu/intel/xeon_phi/barriers.h.  Both   *)
(* run one algorithm on two sets of words (phase 0 and phase 1):           *)
(*   - at each level the threads form groups; a group's master collects    *)
(*     the COUNT word of every other member and climbs to the next level,  *)
(*     the other members announce themselves and wait for the FLAG of      *)
(*     their group;                                                        *)
(*   - the thread that reaches the top (ID 0) raises the FLAGs of its      *)
(*     groups from the top level down, and so does every released master.  *)
(* They differ in how a thread finds its group.  TREE_BARRIER computes it  *)
(* from the digits of the ID, USER_BARRIER reads tables; here it is the    *)
(* tables of module GroupTree, of which the algorithm needs no more than   *)
(* that they are those of a tree.                                          *)
(*                                                                         *)
(* One action is one load or store of a shared word.  TURN[ID] is touched  *)
(* by thread ID alone, so its accesses belong to the action that enters.   *)
(* CHILD is always ID + SET * STRIDE and is not a variable of its own.     *)
(***************************************************************************)
EXTENDS GroupTree

CONSTANT
  Rounds      \* calls of the barrier each thread makes

Bit == {0, 1}

ASSUME SizeAssumption == MAX \in Nat \ {0} /\ TOP \in Nat \ {0} /\ Rounds \in Nat
ASSUME TableAssumption == IsTable
ASSUME TreeAssumption == IsTree

VARIABLES
  TURN,       \* TURN[ID]: phase bit of thread ID
  FLAG,       \* FLAG[p][l][ID]: release word of the group ID is master of
  COUNT,      \* COUNT[p][l][ID]: arrival word of thread ID at level l
  pc,         \* pc[ID]: where thread ID is in the barrier
  LEVEL,      \* LEVEL[ID]: the thread's local LEVEL
  SET,        \* SET[ID]: the thread's local SET
  calls,      \* history: calls of the barrier thread ID has begun
  returns     \* history: calls of the barrier thread ID has returned from

words == <<TURN, FLAG, COUNT>>
locals == <<pc, LEVEL, SET>>
history == <<calls, returns>>
vars == <<words, locals, history>>

Phase(t) == 1 - TURN[t]
Other(p) == 1 - p

WAITER(t) == MASTER[LEVEL[t]][t] # t
CHILD(t) == t + SET[t] * STRIDE[LEVEL[t]]
(* Mutant: the group loop stops one member short. *)
MoreChildren_OneShort(t) == SET[t] + 1 < SETSIZE[LEVEL[t]] /\ CHILD(t) < MAX

MoreChildren(t) == SET[t] < SETSIZE[LEVEL[t]] /\ CHILD(t) < MAX

Init ==
  /\ TURN    = [t \in ID |-> 0]
  /\ FLAG    = [p \in Bit |-> [l \in Level |-> [t \in ID |-> 0]]]
  /\ COUNT   = [p \in Bit |-> [l \in Level |-> [t \in ID |-> 0]]]
  /\ pc      = [t \in ID |-> "out"]
  /\ LEVEL   = [t \in ID |-> 0]
  /\ SET     = [t \in ID |-> 1]
  /\ calls   = [t \in ID |-> 0]
  /\ returns = [t \in ID |-> 0]

Goto(t, label) == pc' = [pc EXCEPT ![t] = label]

(* A new iteration of while (1) at level l. *)
EnterLevel(t, l) ==
  /\ LEVEL' = [LEVEL EXCEPT ![t] = l]
  /\ SET' = [SET EXCEPT ![t] = 1]

(* Mutant: while (LEVEL > 1), the groups of level 0 are not released. *)
ReleaseBelow_SkipsLevel0(t, l) ==
  \/ /\ l > 1
     /\ LEVEL' = [LEVEL EXCEPT ![t] = l - 1]
     /\ Goto(t, "reset_flag")
     /\ UNCHANGED returns
  \/ /\ l <= 1
     /\ Goto(t, "out")
     /\ returns' = [returns EXCEPT ![t] = @ + 1]
     /\ UNCHANGED LEVEL

(* while (LEVEL > 0) { LEVEL--; ... } with LEVEL = l, and the return.      *)
ReleaseBelow(t, l) ==
  \/ /\ l > 0
     /\ LEVEL' = [LEVEL EXCEPT ![t] = l - 1]
     /\ Goto(t, "reset_flag")
     /\ UNCHANGED returns
  \/ /\ l = 0
     /\ Goto(t, "out")
     /\ returns' = [returns EXCEPT ![t] = @ + 1]
     /\ UNCHANGED LEVEL

Enter(t) ==
  /\ pc[t] = "out"
  /\ calls[t] < Rounds
  /\ TURN' = [TURN EXCEPT ![t] = 1 - @]
  /\ calls' = [calls EXCEPT ![t] = @ + 1]
  /\ Goto(t, "gather")
  /\ EnterLevel(t, 0)
  /\ UNCHANGED <<FLAG, COUNT, returns>>

(* A member that is not the master announces itself:                       *)
(* COUNT_p[LEVEL][ID] = 1.                                                 *)
SetCount(t) ==
  /\ pc[t] = "gather" /\ WAITER(t)
  /\ COUNT' = [COUNT EXCEPT ![Phase(t)][LEVEL[t]][t] = 1]
  /\ Goto(t, "await_flag")
  /\ UNCHANGED <<TURN, FLAG, LEVEL, SET, history>>

(* while (FLAG_p[LEVEL][MASTER] == 0) DELAY; -- the load that ends the     *)
(* loop; the thread goes on to release the groups it is master of.         *)
AwaitFlag(t) ==
  /\ pc[t] = "await_flag"
  /\ FLAG[Phase(t)][LEVEL[t]][MASTER[LEVEL[t]][t]] # 0
  /\ ReleaseBelow(t, LEVEL[t])
  /\ UNCHANGED <<words, SET, calls>>

(* Mutant: the master does not wait for the arrival. *)
AwaitCount_DoesNotWait(t) ==
  /\ pc[t] = "gather" /\ ~WAITER(t) /\ MoreChildren(t)
  /\ Goto(t, "clear_count")
  /\ UNCHANGED <<words, LEVEL, SET, history>>

(* while (COUNT_p[LEVEL][CHILD] == 0) DELAY; -- the load that ends the     *)
(* loop.                                                                   *)
AwaitCount(t) ==
  /\ pc[t] = "gather" /\ ~WAITER(t) /\ MoreChildren(t)
  /\ COUNT[Phase(t)][LEVEL[t]][CHILD(t)] # 0
  /\ Goto(t, "clear_count")
  /\ UNCHANGED <<words, LEVEL, SET, history>>

(* Mutant: the arrival word of the running phase is cleared. *)
ClearCount_SamePhase(t) ==
  /\ pc[t] = "clear_count"
  /\ COUNT' = [COUNT EXCEPT ![Phase(t)][LEVEL[t]][CHILD(t)] = 0]
  /\ SET' = [SET EXCEPT ![t] = @ + 1]
  /\ Goto(t, "gather")
  /\ UNCHANGED <<TURN, FLAG, LEVEL, history>>

(* COUNT_{1-p}[LEVEL][CHILD] = 0; CHILD += STRIDE; SET++                   *)
ClearCount(t) ==
  /\ pc[t] = "clear_count"
  /\ COUNT' = [COUNT EXCEPT ![Other(Phase(t))][LEVEL[t]][CHILD(t)] = 0]
  /\ SET' = [SET EXCEPT ![t] = @ + 1]
  /\ Goto(t, "gather")
  /\ UNCHANGED <<TURN, FLAG, LEVEL, history>>

(* Mutant: the climb does not end at the top. *)
Climb_PastTop(t) ==
  /\ pc[t] = "gather" /\ ~WAITER(t) /\ ~MoreChildren(t)
  /\ EnterLevel(t, LEVEL[t] + 1)
  /\ UNCHANGED <<words, pc, history>>

(* The group is complete: LEVEL++, and at the top the release begins.  No  *)
(* shared access.                                                          *)
Climb(t) ==
  /\ pc[t] = "gather" /\ ~WAITER(t) /\ ~MoreChildren(t)
  /\ \/ LEVEL[t] + 1 < TOP /\ EnterLevel(t, LEVEL[t] + 1) /\ UNCHANGED <<pc, returns>>
     \/ LEVEL[t] + 1 = TOP /\ ReleaseBelow(t, TOP) /\ UNCHANGED SET
  /\ UNCHANGED <<words, calls>>

(* FLAG_{1-p}[LEVEL][ID] = 0                                               *)
ResetFlag(t) ==
  /\ pc[t] = "reset_flag"
  /\ FLAG' = [FLAG EXCEPT ![Other(Phase(t))][LEVEL[t]][t] = 0]
  /\ Goto(t, "set_flag")
  /\ UNCHANGED <<TURN, COUNT, LEVEL, SET, history>>

(* FLAG_p[LEVEL][ID] = 1                                                   *)
SetFlag(t) ==
  /\ pc[t] = "set_flag"
  /\ FLAG' = [FLAG EXCEPT ![Phase(t)][LEVEL[t]][t] = 1]
  /\ ReleaseBelow(t, LEVEL[t])
  /\ UNCHANGED <<TURN, COUNT, SET, calls>>

(* A load of a wait loop that finds the word still 0: the thread spins.    *)
Spin(t) ==
  /\ \/ /\ pc[t] = "gather" /\ ~WAITER(t) /\ MoreChildren(t)
        /\ COUNT[Phase(t)][LEVEL[t]][CHILD(t)] = 0
     \/ /\ pc[t] = "await_flag"
        /\ FLAG[Phase(t)][LEVEL[t]][MASTER[LEVEL[t]][t]] = 0
  /\ UNCHANGED vars

Step(t) ==
  \/ Enter(t)
  \/ SetCount(t) \/ AwaitFlag(t)
  \/ AwaitCount(t) \/ ClearCount(t) \/ Climb(t)
  \/ ResetFlag(t) \/ SetFlag(t)
  \/ Spin(t)

(* Every thread has made its calls: the parallel region joins.             *)
Done == \A t \in ID : pc[t] = "out" /\ calls[t] = Rounds

Next == (\E t \in ID : Step(t)) \/ (Done /\ UNCHANGED vars)

Spec == Init /\ [][Next]_vars

(* Each thread has a hardware context of its own and keeps taking its      *)
(* enabled step.                                                           *)
FairSpec == Spec /\ \A t \in ID : WF_vars(Step(t))

-----------------------------------------------------------------------------

PC == {"out", "gather", "await_flag", "clear_count", "reset_flag", "set_flag"}

(* Types of the words and of the threads' local state.  LEVEL \in Level    *)
(* says that no access is outside the first dimension of the arrays.       *)
TypeOK ==
  /\ TURN \in [ID -> Bit]
  /\ FLAG \in [Bit -> [Level -> [ID -> Bit]]]
  /\ COUNT \in [Bit -> [Level -> [ID -> Bit]]]
  /\ pc \in [ID -> PC]
  /\ LEVEL \in [ID -> Level]
  /\ SET \in [ID -> Nat \ {0}]
  /\ calls \in [ID -> Nat]
  /\ returns \in [ID -> Nat]

Climbing(t) == pc[t] \in {"gather", "clear_count"}
Releasing(t) == pc[t] \in {"reset_flag", "set_flag"}

(* A thread's counters, and where its level can be.                        *)
ControlOf(t) ==
  /\ calls[t] = IF pc[t] = "out" THEN returns[t] ELSE returns[t] + 1
  /\ Climbing(t) => LEVEL[t] <= WaitLevel(t)
  /\ pc[t] = "clear_count" => LEVEL[t] < WaitLevel(t) /\ MoreChildren(t)
  /\ pc[t] = "await_flag" => LEVEL[t] = WaitLevel(t)
  /\ Releasing(t) => LEVEL[t] < WaitLevel(t)
Control == \A t \in ID : ControlOf(t)

(* The master of t has t's arrival of the round it is in and has not yet   *)
(* begun to release t.                                                     *)
Collected(t) ==
  LET m == Parent(t)
      l == WaitLevel(t)
  IN \/ Climbing(m) /\ (LEVEL[m] > l \/ (LEVEL[m] = l /\ SET[m] > Place(t)))
     \/ pc[m] = "await_flag"
     \/ Releasing(m) /\ LEVEL[m] >= l

(* The master of t has read t's arrival and clears the word of the other   *)
(* phase next.                                                             *)
Collecting(t) ==
  LET m == Parent(t)
  IN pc[m] = "clear_count" /\ LEVEL[m] = WaitLevel(t) /\ SET[m] = Place(t)

(* Rounds in which the master of t has released t.                         *)
Releases(t) ==
  LET m == Parent(t)
  IN IF Releasing(m) /\ LEVEL[m] < WaitLevel(t) THEN calls[m] ELSE returns[m]

(* A member runs in lockstep with its releases.                            *)
InStep(t) ==
  /\ calls[t] \in {Releases(t), Releases(t) + 1}
  /\ Climbing(t) => calls[t] # Releases(t)
  /\ pc[t] = "out" \/ Releasing(t) => calls[t] = Releases(t)
  /\ TURN[t] = IF calls[t] = calls[Parent(t)] THEN TURN[Parent(t)] ELSE 1 - TURN[Parent(t)]
  /\ Collected(t) \/ Collecting(t)
       => pc[t] = "await_flag" /\ calls[t] = calls[Parent(t)]

(* The release word t waits on is up in the phase of its last release.     *)
FlagOf(t) ==
  LET m == Parent(t)
      l == WaitLevel(t)
      last == IF Releases(t) = calls[m] THEN Phase(m) ELSE Other(Phase(m))
  IN \A p \in Bit :
       FLAG[p][l][m] =
         IF /\ p = last /\ Releases(t) > 0
            /\ ~(pc[m] = "set_flag" /\ LEVEL[m] = l)
         THEN 1 ELSE 0

(* The arrival word of t is up from its arrival until its master collects  *)
(* it one round later.                                                     *)
CountOf(t) ==
  /\ COUNT[Phase(t)][WaitLevel(t)][t] = IF Climbing(t) \/ calls[t] = 0 THEN 0 ELSE 1
  /\ COUNT[Other(Phase(t))][WaitLevel(t)][t] =
       IF calls[t] > Releases(t) /\ Releases(t) > 0 /\ ~Collected(t) THEN 1 ELSE 0

(* The inductive invariant relates each thread with its master only.       *)
Linked(t) == InStep(t) /\ FlagOf(t) /\ CountOf(t)

IInv ==
  /\ TypeOK
  /\ Control
  /\ \A t \in Child : Linked(t)

(* No thread gets out of its n-th call before every thread has made its    *)
(* n-th call, although no thread looks beyond its own groups.              *)
Separation == \A t, u \in ID : returns[t] <= calls[u]

(* A thread that waits at a level has an announced arrival there for as    *)
(* long as it waits: no master clears it under it, not even one that is    *)
(* already a call ahead.                                                   *)
ArrivalKept ==
  \A t \in ID : pc[t] = "await_flag" => COUNT[Phase(t)][LEVEL[t]][t] = 1

(* A master takes a release word down only when nobody waits on it.        *)
NoLostRelease ==
  [][\A p \in Bit, l \in Level, m \in ID :
       (FLAG[p][l][m] = 1 /\ FLAG'[p][l][m] = 0)
         => \A t \in ID : ~(/\ pc[t] = "await_flag" /\ Phase(t) = p
                            /\ LEVEL[t] = l /\ MASTER[l][t] = m)]_vars

(* A thread that is about to announce itself or to collect its group in a  *)
(* level finds the words of the phase clean: the release word it will wait *)
(* on is down, and its own arrival word is.                                *)
CleanArrival ==
  \A t \in ID :
    (pc[t] = "gather" /\ WAITER(t))
      => /\ COUNT[Phase(t)][LEVEL[t]][t] = 0
         /\ FLAG[Phase(t)][LEVEL[t]][MASTER[LEVEL[t]][t]] = 0

(* Every call returns. *)
CallsReturn == \A t \in ID : (pc[t] # "out") ~> (pc[t] = "out")

(* The barrier implements the abstract one. *)
Abstract == INSTANCE PhasedBarrier WITH Threads <- ID
ImplementsBarrier == Abstract!Spec

=============================================================================
