---------------------------- MODULE PhasedBarrier ----------------------------
(***************************************************************************)
(* What a reusable barrier promises its callers, whatever it is built of.  *)
(*                                                                         *)
(* bench.c calls Barrier(tid) on every thread before and after the work of *)
(* a run, so the n-th call of one thread meets the n-th call of every      *)
(* other one.  The state is two counters per thread: the calls it has made *)
(* and the calls that have returned.  A call returns only when every       *)
(* thread has made as many calls.  SimpleBarrier, GroupBarrier and         *)
(* GroupBarrierTSO are shown to implement this specification.              *)
(***************************************************************************)
EXTENDS Naturals

CONSTANTS
  Threads,    \* the callers: the tids 0 .. nthreads-1 of bench.c
  Rounds      \* calls each thread makes; bench.c makes 2 per run

VARIABLES
  calls,      \* calls[t]: calls of Barrier thread t has begun
  returns     \* returns[t]: calls of Barrier thread t has returned from

barrierVars == <<calls, returns>>

Outside(t) == calls[t] = returns[t]

Init ==
  /\ calls   = [t \in Threads |-> 0]
  /\ returns = [t \in Threads |-> 0]

(* A thread outside the barrier calls it. *)
Call(t) ==
  /\ Outside(t)
  /\ calls[t] < Rounds
  /\ calls' = [calls EXCEPT ![t] = @ + 1]
  /\ UNCHANGED returns

(* A call returns once every thread has made as many calls. *)
Return(t) ==
  /\ ~Outside(t)
  /\ \A u \in Threads : calls[u] >= calls[t]
  /\ returns' = [returns EXCEPT ![t] = @ + 1]
  /\ UNCHANGED calls

Next == \E t \in Threads : Call(t) \/ Return(t)

Spec == Init /\ [][Next]_barrierVars

=============================================================================
