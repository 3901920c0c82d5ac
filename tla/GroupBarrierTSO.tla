--------------------------- MODULE GroupBarrierTSO ---------------------------
(***************************************************************************)
(* TREE_BARRIER and USER_BARRIER on the memory the code runs on.  The      *)
(* words are volatile, so the compiler keeps the order of their accesses,  *)
(* but barriers.h has no fence and no locked instruction: on x86 a store   *)
(* waits in the store buffer of its core while later loads go ahead.  Each *)
(* thread has a FIFO buffer; its loads see its own pending stores first.   *)
(* GroupBarrier is the same algorithm with stores that take effect at      *)
(* once; Enter and Climb touch no shared word and are taken from there.    *)
(***************************************************************************)
EXTENDS GroupBarrier, Sequences

VARIABLE
  buffer      \* buffer[ID]: the stores of thread ID that are not in memory yet

tsoVars == <<vars, buffer>>

Flag(p, l, id)  == [array |-> "FLAG",  phase |-> p, level |-> l, id |-> id]
Count(p, l, id) == [array |-> "COUNT", phase |-> p, level |-> l, id |-> id]

Memory(word) ==
  IF word.array = "FLAG" THEN FLAG[word.phase][word.level][word.id]
                         ELSE COUNT[word.phase][word.level][word.id]

(* A load of word w by thread t returns v: the value of the thread's own   *)
(* youngest store to w if one is pending, and what is in memory otherwise. *)
Load(t, w, v) ==
  \/ /\ \A n \in DOMAIN buffer[t] : buffer[t][n].word # w
     /\ v = Memory(w)
  \/ \E n \in DOMAIN buffer[t] :
       /\ buffer[t][n].word = w /\ buffer[t][n].value = v
       /\ \A k \in DOMAIN buffer[t] : k > n => buffer[t][k].word # w

Store(t, w, v) == buffer' = [buffer EXCEPT ![t] = Append(@, [word |-> w, value |-> v])]

TSOInit == Init /\ buffer = [t \in ID |-> <<>>]

BufferSetCount(t) ==
  /\ pc[t] = "gather" /\ WAITER(t)
  /\ Store(t, Count(Phase(t), LEVEL[t], t), 1)
  /\ Goto(t, "await_flag")
  /\ UNCHANGED <<words, LEVEL, SET, history>>

LoadFlag(t) ==
  /\ pc[t] = "await_flag"
  /\ Load(t, Flag(Phase(t), LEVEL[t], MASTER[LEVEL[t]][t]), 1)
  /\ ReleaseBelow(t, LEVEL[t])
  /\ UNCHANGED <<words, SET, calls, buffer>>

LoadCount(t) ==
  /\ pc[t] = "gather" /\ ~WAITER(t) /\ MoreChildren(t)
  /\ Load(t, Count(Phase(t), LEVEL[t], CHILD(t)), 1)
  /\ Goto(t, "clear_count")
  /\ UNCHANGED <<words, LEVEL, SET, history, buffer>>

BufferClearCount(t) ==
  /\ pc[t] = "clear_count"
  /\ Store(t, Count(Other(Phase(t)), LEVEL[t], CHILD(t)), 0)
  /\ SET' = [SET EXCEPT ![t] = @ + 1]
  /\ Goto(t, "gather")
  /\ UNCHANGED <<words, LEVEL, history>>

BufferResetFlag(t) ==
  /\ pc[t] = "reset_flag"
  /\ Store(t, Flag(Other(Phase(t)), LEVEL[t], t), 0)
  /\ Goto(t, "set_flag")
  /\ UNCHANGED <<words, LEVEL, SET, history>>

BufferSetFlag(t) ==
  /\ pc[t] = "set_flag"
  /\ Store(t, Flag(Phase(t), LEVEL[t], t), 1)
  /\ ReleaseBelow(t, LEVEL[t])
  /\ UNCHANGED <<words, SET, calls>>

SpinTSO(t) ==
  /\ \/ /\ pc[t] = "gather" /\ ~WAITER(t) /\ MoreChildren(t)
        /\ Load(t, Count(Phase(t), LEVEL[t], CHILD(t)), 0)
     \/ /\ pc[t] = "await_flag"
        /\ Load(t, Flag(Phase(t), LEVEL[t], MASTER[LEVEL[t]][t]), 0)
  /\ UNCHANGED tsoVars

(* Store s reaches memory. *)
Commit(s) ==
  LET w == s.word
  IN  /\ \/ /\ w.array = "FLAG"
            /\ FLAG' = [FLAG EXCEPT ![w.phase][w.level][w.id] = s.value]
            /\ UNCHANGED COUNT
         \/ /\ w.array = "COUNT"
            /\ COUNT' = [COUNT EXCEPT ![w.phase][w.level][w.id] = s.value]
            /\ UNCHANGED FLAG
      /\ UNCHANGED <<TURN, locals, history>>

(* Mutant: a machine that does not keep the stores of a thread in order. *)
Drain_AnyOrder(t) ==
  \E n \in DOMAIN buffer[t] :
    /\ Commit(buffer[t][n])
    /\ buffer' = [buffer EXCEPT ![t] = SubSeq(@, 1, n - 1) \o SubSeq(@, n + 1, Len(@))]

(* The oldest store leaves the buffer. *)
Drain(t) ==
  /\ buffer[t] # <<>>
  /\ Commit(Head(buffer[t]))
  /\ buffer' = [buffer EXCEPT ![t] = Tail(@)]

StepTSO(t) ==
  \/ Enter(t) /\ UNCHANGED buffer
  \/ Climb(t) /\ UNCHANGED buffer
  \/ BufferSetCount(t) \/ LoadFlag(t)
  \/ LoadCount(t) \/ BufferClearCount(t)
  \/ BufferResetFlag(t) \/ BufferSetFlag(t)
  \/ SpinTSO(t)

TSONext ==
  \/ \E t \in ID : StepTSO(t) \/ Drain(t)
  \/ Done /\ UNCHANGED tsoVars

TSOSpec == TSOInit /\ [][TSONext]_tsoVars

(* A store reaches memory eventually. *)
TSOFairSpec == TSOSpec /\ \A t \in ID : WF_tsoVars(StepTSO(t)) /\ WF_tsoVars(Drain(t))

-----------------------------------------------------------------------------

Word == [array : {"FLAG", "COUNT"}, phase : Bit, level : Level, id : ID]

(* Types, and that every store that waits in a buffer is one to a word of  *)
(* the barrier, inside the arrays.                                         *)
TSOTypeOK ==
  /\ TypeOK
  /\ buffer \in [ID -> Seq([word : Word, value : Bit])]

(* When a thread announces itself, no clear of its arrival word is still   *)
(* on the way: a delayed clear would erase the arrival.                    *)
NoClearPending ==
  \A t \in ID : pc[t] = "await_flag" =>
    \A m \in ID \ {t} : \A n \in DOMAIN buffer[m] :
      buffer[m][n].word # Count(Phase(t), LEVEL[t], t)

(* The same for the release word a thread waits on: no lowering of it that *)
(* precedes the release it waits for is overtaken.                         *)
NoStaleLowering ==
  \A t \in ID : pc[t] = "await_flag" =>
    LET m == MASTER[LEVEL[t]][t]
        w == Flag(Phase(t), LEVEL[t], m)
    IN  \A n \in DOMAIN buffer[m] : buffer[m][n].word = w => buffer[m][n].value = 1

(* While a thread waits, nothing that is older than what it waits for is   *)
(* on its way to the words between it and its master.                      *)
NoStaleStore == NoClearPending /\ NoStaleLowering

(* The words as they are once the pending stores have reached memory: a    *)
(* release word is up if the last store to it is a raise, an arrival word  *)
(* if an arrival is pending or nothing is going to clear it.               *)
RaisedAfter(w, m, n) ==
  \A k \in DOMAIN buffer[m] : k > n /\ buffer[m][k].word = w => buffer[m][k].value = 1
Raised(p, l, m) ==
  LET w == Flag(p, l, m)
  IN  \/ FLAG[p][l][m] = 1 /\ RaisedAfter(w, m, 0)
      \/ \E n \in DOMAIN buffer[m] :
           buffer[m][n].word = w /\ buffer[m][n].value = 1 /\ RaisedAfter(w, m, n)

PendingCount(p, l, t, v) ==
  \E x \in ID : \E n \in DOMAIN buffer[x] :
    buffer[x][n].word = Count(p, l, t) /\ buffer[x][n].value = v

Announced(p, l, t) ==
  PendingCount(p, l, t, 1) \/ (COUNT[p][l][t] = 1 /\ ~PendingCount(p, l, t, 0))

SettledFlag ==
  [p \in Bit |-> [l \in Level |-> [m \in ID |-> IF Raised(p, l, m) THEN 1 ELSE 0]]]
SettledCount ==
  [p \in Bit |-> [l \in Level |-> [t \in ID |-> IF Announced(p, l, t) THEN 1 ELSE 0]]]

(* With buffers the barrier implements the one whose stores take effect at *)
(* once: no thread can tell the difference.                                *)
InOrder == INSTANCE GroupBarrier WITH FLAG <- SettledFlag, COUNT <- SettledCount
ImplementsInOrder == InOrder!Spec

-----------------------------------------------------------------------------
(* The inductive invariant: what can be in the buffers of a thread and its *)
(* master, given how the two stand to each other.                          *)

(* A thread stores to its own words, and its master clears its arrival.    *)
OwnStores ==
  \A x \in ID : \A n \in DOMAIN buffer[x] :
    LET w == buffer[x][n].word
    IN  \/ w.array = "FLAG" /\ w.id = x /\ w.level < WaitLevel(x)
        \/ /\ w.array = "COUNT" /\ w.id = x /\ buffer[x][n].value = 1
           /\ x \in Child /\ w.level = WaitLevel(x)
        \/ /\ w.array = "COUNT" /\ w.id \in Child /\ buffer[x][n].value = 0
           /\ Parent(w.id) = x /\ w.level = WaitLevel(w.id)

(* The master of t has released t, and t has not seen it yet.              *)
Unseen(t) == pc[t] = "await_flag" /\ calls[t] = Releases(t)

FlagTo(t, p) == Flag(p, WaitLevel(t), Parent(t))
CountFrom(t, p) == Count(p, WaitLevel(t), t)

(* A pending arrival is that of the running round; the master has not read *)
(* it, and memory does not show it.                                        *)
ArrivalPending(t) ==
  \A p \in Bit : \A n \in DOMAIN buffer[t] : buffer[t][n].word = CountFrom(t, p) =>
    /\ p = Phase(t) /\ pc[t] = "await_flag" /\ calls[t] # Releases(t)
    /\ ~Collected(t) /\ ~Collecting(t)
    /\ COUNT[p][WaitLevel(t)][t] = 0
    /\ \A k \in DOMAIN buffer[t] : buffer[t][k].word = CountFrom(t, p) => k = n

(* A pending clear is that of the other phase, by a master t waits for.    *)
ClearPending(t) ==
  \A p \in Bit : \A n \in DOMAIN buffer[Parent(t)] :
    buffer[Parent(t)][n].word = CountFrom(t, p) =>
      p = Other(Phase(t)) /\ (Unseen(t) \/ Collected(t))

(* A pending lowering is that of the other phase, ...                      *)
LoweringPending(t) ==
  \A p \in Bit : \A n \in DOMAIN buffer[Parent(t)] :
    buffer[Parent(t)][n].word = FlagTo(t, p) /\ buffer[Parent(t)][n].value = 0 =>
      /\ p = Other(Phase(t))
      /\ \/ Unseen(t)
         \/ pc[Parent(t)] = "set_flag" /\ LEVEL[Parent(t)] = WaitLevel(t) /\ Collected(t)

(* ... a pending raise is the one t waits for, and memory does not show it.*)
RaisePending(t) ==
  \A p \in Bit : \A n \in DOMAIN buffer[Parent(t)] :
    buffer[Parent(t)][n].word = FlagTo(t, p) /\ buffer[Parent(t)][n].value = 1 =>
      /\ p = Phase(t) /\ Unseen(t)
      /\ FLAG[p][WaitLevel(t)][Parent(t)] = 0
      /\ \A k \in DOMAIN buffer[Parent(t)] : buffer[Parent(t)][k].word = FlagTo(t, p) => k = n

(* Behind each pending clear or lowering of a round comes its raise, which *)
(* is why t cannot see the raise before the others are in memory.          *)
RaiseComesLast(t) ==
  Unseen(t) =>
    \A p \in Bit : \A n \in DOMAIN buffer[Parent(t)] :
      buffer[Parent(t)][n].word \in {CountFrom(t, p), FlagTo(t, p)} =>
        \E k \in DOMAIN buffer[Parent(t)] :
          /\ k >= n
          /\ buffer[Parent(t)][k].word = FlagTo(t, Phase(t))
          /\ buffer[Parent(t)][k].value = 1

LinkStores(t) ==
  /\ ArrivalPending(t) /\ ClearPending(t)
  /\ LoweringPending(t) /\ RaisePending(t) /\ RaiseComesLast(t)

TSOInv ==
  /\ TSOTypeOK
  /\ InOrder!IInv
  /\ OwnStores
  /\ \A t \in Child : LinkStores(t)

=============================================================================
