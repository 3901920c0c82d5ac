------------------------- MODULE GroupBarrierProofs --------------------------
(***************************************************************************)
(* Theorems about GroupBarrier, for any number of threads, any number of   *)
(* calls and any tables that form a tree (TreeAssumption), so for          *)
(* TREE_BARRIER and for USER_BARRIER alike.                                *)
(*                                                                         *)
(* WaitLevel, Parent and Place are never expanded: TreeTable is what the   *)
(* proofs know of the tree.                                                *)
(***************************************************************************)
EXTENDS GroupBarrier, TLAPS, WellFoundedInduction

LEMMA IDFacts == 0 \in ID /\ ID \subseteq Nat /\ Level \subseteq Nat /\ Child \subseteq ID
BY SizeAssumption DEF ID, Level, Child

LEMMA TableTypes ==
  /\ MASTER \in [Level -> [ID -> ID]]
  /\ STRIDE \in [Level -> Nat \ {0}]
  /\ SETSIZE \in [Level -> Nat \ {0}]
BY TableAssumption DEF IsTable

LEMMA TreeTable ==
  /\ WaitLevel(0) = TOP
  /\ \A t \in ID :
       /\ WaitLevel(t) \in 0 .. TOP
       /\ \A k \in 0 .. WaitLevel(t) - 1 : MASTER[k][t] = t
  /\ \A t \in Child :
       /\ WaitLevel(t) < TOP
       /\ Parent(t) # t
       /\ WaitLevel(t) < WaitLevel(Parent(t))
       /\ Place(t) \in 1 .. SETSIZE[WaitLevel(t)] - 1
       /\ t = Parent(t) + Place(t) * STRIDE[WaitLevel(t)]
  /\ \A m \in ID : \A l \in 0 .. WaitLevel(m) - 1 : \A k \in 1 .. SETSIZE[l] - 1 :
       LET c == m + k * STRIDE[l] IN
         c < MAX => WaitLevel(c) = l /\ Parent(c) = m /\ Place(c) = k
<1>1. ASSUME NEW t \in Child
      PROVE  /\ Place(t) \in 1 .. SETSIZE[WaitLevel(t)] - 1
             /\ t = Parent(t) + Place(t) * STRIDE[WaitLevel(t)]
  BY TreeAssumption DEF IsTree, Place
<1> QED
  BY <1>1, TreeAssumption DEF IsTree

LEMMA TreeFacts ==
  ASSUME NEW t \in Child
  PROVE  /\ t \in ID /\ t # 0
         /\ WaitLevel(t) \in Level
         /\ Parent(t) \in ID /\ Parent(t) # t
         /\ MASTER[WaitLevel(t)][t] = Parent(t)
         /\ WaitLevel(Parent(t)) \in 0 .. TOP
         /\ WaitLevel(t) < WaitLevel(Parent(t))
         /\ Place(t) \in Nat \ {0}
         /\ Place(t) < SETSIZE[WaitLevel(t)]
         /\ t = Parent(t) + Place(t) * STRIDE[WaitLevel(t)]
<1>1. WaitLevel(t) \in Level
  <2>1. WaitLevel(t) \in 0 .. TOP /\ WaitLevel(t) < TOP
    BY TreeTable, IDFacts
  <2> QED
    BY <2>1, SizeAssumption DEF Level
<1>2. Parent(t) \in ID
  BY <1>1, TableTypes, IDFacts DEF Parent
<1>3. SETSIZE[WaitLevel(t)] \in Nat \ {0}
  BY <1>1, TableTypes
<1>4. /\ Parent(t) # t
      /\ WaitLevel(t) < WaitLevel(Parent(t))
      /\ Place(t) \in 1 .. SETSIZE[WaitLevel(t)] - 1
      /\ t = Parent(t) + Place(t) * STRIDE[WaitLevel(t)]
  BY TreeTable
<1>5. WaitLevel(Parent(t)) \in 0 .. TOP
  BY <1>2, TreeTable
<1>6. Place(t) \in Nat \ {0} /\ Place(t) < SETSIZE[WaitLevel(t)]
  BY <1>3, <1>4
<1>7. MASTER[WaitLevel(t)][t] = Parent(t)
  BY DEF Parent
<1> QED
  BY <1>1, <1>2, <1>4, <1>5, <1>6, <1>7, IDFacts DEF Child

(* A thread whose level is below its wait level is the master there, and   *)
(* at its wait level it waits.                                             *)
LEMMA MasterBelow ==
  ASSUME NEW t \in ID, NEW l \in Level, l <= WaitLevel(t)
  PROVE  /\ MASTER[l][t] = t <=> l < WaitLevel(t)
         /\ l = WaitLevel(t) => t \in Child
<1>1. CASE l < WaitLevel(t)
  BY <1>1, TreeTable, SizeAssumption, IDFacts DEF Level
<1>2. CASE l = WaitLevel(t)
  <2>1. t # 0
    BY <1>2, TreeTable, SizeAssumption DEF Level
  <2>2. t \in Child
    BY <2>1 DEF Child
  <2> QED
    BY <1>2, <2>2, TreeFacts, IDFacts, SizeAssumption DEF Level
<1> QED
  BY <1>1, <1>2, TreeTable, IDFacts, SizeAssumption DEF Level

(* The member a master looks at in its group loop waits for this master at *)
(* this level.                                                             *)
LEMMA ChildFacts ==
  ASSUME TypeOK, NEW m \in ID, LEVEL[m] < WaitLevel(m), MoreChildren(m)
  PROVE  /\ CHILD(m) \in Child
         /\ Parent(CHILD(m)) = m
         /\ WaitLevel(CHILD(m)) = LEVEL[m]
         /\ Place(CHILD(m)) = SET[m]
<1>1. LEVEL[m] \in Level /\ SET[m] \in Nat \ {0} /\ m \in Nat
  BY IDFacts DEF TypeOK
<1>2. STRIDE[LEVEL[m]] \in Nat \ {0} /\ SETSIZE[LEVEL[m]] \in Nat \ {0}
  BY <1>1, TableTypes
<1>3. SET[m] \in 1 .. SETSIZE[LEVEL[m]] - 1
  BY <1>1, <1>2 DEF MoreChildren
<1>0. WaitLevel(m) \in 0 .. TOP
  BY TreeTable
<1>4. LEVEL[m] \in 0 .. WaitLevel(m) - 1
  BY <1>0, <1>1, SizeAssumption DEF Level
<1>5. SET[m] * STRIDE[LEVEL[m]] \in Nat \ {0}
  BY <1>1, <1>2
<1>6. CHILD(m) \in Nat \ {0} /\ CHILD(m) < MAX
  BY <1>1, <1>5 DEF CHILD, MoreChildren
<1>7. CHILD(m) \in Child
  BY <1>6, SizeAssumption DEF ID, Child
<1> QED
  BY <1>3, <1>4, <1>6, <1>7, TreeTable DEF CHILD

(* When the group loop ends, every member has been collected. *)
LEMMA LoopEnd ==
  ASSUME TypeOK, NEW t \in Child, LEVEL[Parent(t)] = WaitLevel(t),
         ~MoreChildren(Parent(t))
  PROVE  SET[Parent(t)] > Place(t)
<1> DEFINE m == Parent(t)
           s == STRIDE[WaitLevel(t)]
<1>0. t \in ID /\ m \in ID /\ WaitLevel(t) \in Level
  BY TreeFacts
<1>1. /\ SET[m] \in Nat /\ s \in Nat /\ m \in Nat /\ Place(t) \in Nat
      /\ t \in Nat /\ t < MAX /\ t = m + Place(t) * s /\ Place(t) < SETSIZE[WaitLevel(t)]
  <2>1. SET[m] \in Nat /\ s \in Nat
    BY <1>0, TableTypes DEF TypeOK
  <2>2. m \in Nat /\ t \in Nat /\ t < MAX
    BY <1>0, SizeAssumption DEF ID
  <2>3. Place(t) \in Nat /\ t = m + Place(t) * s /\ Place(t) < SETSIZE[WaitLevel(t)]
    BY TreeFacts
  <2> QED
    BY <2>1, <2>2, <2>3
<1>2. SUFFICES ASSUME SET[m] <= Place(t) PROVE FALSE
  BY <1>1
<1>3. SET[m] * s <= Place(t) * s
  BY <1>1, <1>2
<1>4. CHILD(m) < MAX
  BY <1>1, <1>3, SizeAssumption DEF CHILD
<1>5. SET[m] < SETSIZE[LEVEL[m]]
  BY <1>1, <1>2, TreeFacts, TableTypes
<1> QED
  BY <1>4, <1>5 DEF MoreChildren

(* A climbing thread is a waiter exactly at its wait level. *)
LEMMA WaiterFacts ==
  ASSUME TypeOK, Control, NEW x \in ID, Climbing(x) \/ pc[x] = "await_flag"
  PROVE  /\ WAITER(x) <=> LEVEL[x] = WaitLevel(x)
         /\ LEVEL[x] # WaitLevel(x) => LEVEL[x] < WaitLevel(x)
         /\ WAITER(x) => x \in Child /\ MASTER[LEVEL[x]][x] = Parent(x)
<1>1. LEVEL[x] \in Level /\ WaitLevel(x) \in 0 .. TOP /\ LEVEL[x] <= WaitLevel(x)
  BY TreeTable, SizeAssumption DEF TypeOK, Control, ControlOf, Climbing, Level
<1>2. MASTER[LEVEL[x]][x] = x <=> LEVEL[x] < WaitLevel(x)
  BY <1>1, MasterBelow
<1>3. WAITER(x) <=> LEVEL[x] = WaitLevel(x)
  BY <1>1, <1>2, SizeAssumption DEF WAITER, Level
<1>4. WAITER(x) => x \in Child
  BY <1>1, <1>3, MasterBelow
<1> QED
  BY <1>1, <1>3, <1>4, SizeAssumption DEF Parent, Level

LEMMA PhaseType ==
  ASSUME TypeOK, NEW t \in ID
  PROVE  Phase(t) \in Bit /\ Other(Phase(t)) \in Bit /\ Other(Phase(t)) # Phase(t)
<1>1. TURN[t] \in Bit
  BY DEF TypeOK
<1> QED
  BY <1>1 DEF Bit, Phase, Other

(* What links a thread with its master depends on the locals of the two    *)
(* and on the words between them.                                          *)
LEMMA Frame ==
  ASSUME NEW t \in Child, Linked(t),
         pc'[t] = pc[t], calls'[t] = calls[t], TURN'[t] = TURN[t],
         pc'[Parent(t)] = pc[Parent(t)], LEVEL'[Parent(t)] = LEVEL[Parent(t)],
         SET'[Parent(t)] = SET[Parent(t)], TURN'[Parent(t)] = TURN[Parent(t)],
         calls'[Parent(t)] = calls[Parent(t)], returns'[Parent(t)] = returns[Parent(t)],
         \A p \in Bit : FLAG'[p][WaitLevel(t)][Parent(t)] = FLAG[p][WaitLevel(t)][Parent(t)],
         TURN[t] \in Bit,
         \A p \in Bit : COUNT'[p][WaitLevel(t)][t] = COUNT[p][WaitLevel(t)][t]
  PROVE  Linked(t)'
<1> USE DEF Linked, Collected, Collecting, Releases, Climbing, Releasing, Phase, Other
<1>1. InStep(t)'
  BY DEF InStep
<1>2. FlagOf(t)'
  BY DEF FlagOf
<1>3. CountOf(t)'
  BY DEF CountOf, Bit
<1> QED
  BY <1>1, <1>2, <1>3

LEMMA InitInv == Init => IInv
<1> SUFFICES ASSUME Init PROVE IInv
  OBVIOUS
<1>1. TypeOK
  BY SizeAssumption, IDFacts DEF Init, TypeOK, Bit, PC, Level
<1>2. Control
  BY DEF Init, Control, ControlOf, Climbing, Releasing
<1>3. ASSUME NEW t \in Child PROVE Linked(t)
  <2>1. t \in ID /\ Parent(t) \in ID /\ WaitLevel(t) \in Level
    BY TreeFacts
  <2> QED
    BY <2>1 DEF Init, Linked, InStep, FlagOf, CountOf, Collected, Collecting, Releases,
           Climbing, Releasing, Phase, Other, Bit
<1> QED
  BY <1>1, <1>2, <1>3 DEF IInv

(* What each action says once WAITER and CHILD are read as the tree. *)
LEMMA AnnounceFacts ==
  ASSUME TypeOK, Control, NEW x \in ID, SetCount(x)
  PROVE  /\ x \in Child /\ LEVEL[x] = WaitLevel(x)
         /\ COUNT' = [COUNT EXCEPT ![Phase(x)][WaitLevel(x)][x] = 1]
BY WaiterFacts DEF SetCount, Climbing

LEMMA ReleasedFacts ==
  ASSUME TypeOK, Control, NEW x \in ID, AwaitFlag(x)
  PROVE  /\ x \in Child /\ LEVEL[x] = WaitLevel(x)
         /\ FLAG[Phase(x)][WaitLevel(x)][Parent(x)] # 0
         /\ ReleaseBelow(x, WaitLevel(x))
<1>1. pc[x] = "await_flag" /\ LEVEL[x] = WaitLevel(x)
  BY DEF AwaitFlag, Control, ControlOf
<1> QED
  BY <1>1, WaiterFacts DEF AwaitFlag

LEMMA CollectFacts ==
  ASSUME TypeOK, Control, NEW x \in ID, AwaitCount(x) \/ ClearCount(x)
  PROVE  /\ LEVEL[x] < WaitLevel(x)
         /\ CHILD(x) \in Child
         /\ Parent(CHILD(x)) = x
         /\ WaitLevel(CHILD(x)) = LEVEL[x]
         /\ Place(CHILD(x)) = SET[x]
<1>1. LEVEL[x] < WaitLevel(x) /\ MoreChildren(x)
  <2>1. CASE AwaitCount(x)
    BY <2>1, WaiterFacts DEF AwaitCount, Climbing
  <2>2. CASE ClearCount(x)
    BY <2>2 DEF ClearCount, Control, ControlOf
  <2> QED
    BY <2>1, <2>2
<1> QED
  BY <1>1, ChildFacts

LEMMA ClimbFacts ==
  ASSUME TypeOK, Control, NEW x \in ID, Climb(x)
  PROVE  /\ LEVEL[x] < WaitLevel(x)
         /\ WaitLevel(x) \in 0 .. TOP
         /\ LEVEL[x] + 1 = TOP => WaitLevel(x) = TOP
         /\ \A t \in Child : Parent(t) = x /\ LEVEL[x] = WaitLevel(t) => SET[x] > Place(t)
<1>1. pc[x] = "gather" /\ ~WAITER(x) /\ ~MoreChildren(x)
  BY DEF Climb
<1>2. LEVEL[x] < WaitLevel(x)
  BY <1>1, WaiterFacts DEF Climbing
<1>3. WaitLevel(x) \in 0 .. TOP /\ LEVEL[x] \in Level
  BY TreeTable DEF TypeOK
<1>4. \A t \in Child : Parent(t) = x /\ LEVEL[x] = WaitLevel(t) => SET[x] > Place(t)
  BY <1>1, LoopEnd
<1> QED
  BY <1>2, <1>3, <1>4, SizeAssumption DEF Level

(* The only member of a group that stands at a given place. *)
LEMMA SamePlace ==
  ASSUME TypeOK, NEW x \in ID, NEW t \in Child, Parent(t) = x,
         LEVEL[x] = WaitLevel(t), SET[x] = Place(t)
  PROVE  t = CHILD(x)
BY TreeFacts DEF CHILD

LEMMA TypeStep == TypeOK /\ Control /\ [Next]_vars => TypeOK'
<1> SUFFICES ASSUME TypeOK, Control, [Next]_vars PROVE TypeOK'
  OBVIOUS
<1>0. 0 \in Level /\ TOP - 1 \in Level /\ \A l \in Level : l > 0 => l - 1 \in Level
  BY SizeAssumption DEF Level
<1>r. ASSUME NEW x \in ID, NEW l \in (1 .. TOP) \cup Level, ReleaseBelow(x, l)
      PROVE  pc' \in [ID -> PC] /\ LEVEL' \in [ID -> Level] /\ returns' \in [ID -> Nat]
  <2>0. pc \in [ID -> PC] /\ LEVEL \in [ID -> Level] /\ returns \in [ID -> Nat]
    BY DEF TypeOK
  <2>1. l > 0 => l - 1 \in Level
    BY SizeAssumption DEF Level
  <2>2. CASE l > 0
    BY <1>r, <2>0, <2>1, <2>2 DEF ReleaseBelow, Goto, PC
  <2>3. CASE l = 0
    BY <1>r, <2>0, <2>3 DEF ReleaseBelow, Goto, PC
  <2> QED
    BY <1>r, <2>2, <2>3 DEF ReleaseBelow
<1>1. ASSUME NEW x \in ID, Enter(x) PROVE TypeOK'
  <2>1. TURN[x] \in Bit /\ calls[x] \in Nat
    BY DEF TypeOK
  <2>2. 1 - TURN[x] \in Bit /\ calls[x] + 1 \in Nat
    BY <2>1 DEF Bit
  <2>3. TURN' \in [ID -> Bit] /\ calls' \in [ID -> Nat]
    BY <1>1, <2>2 DEF Enter, TypeOK
  <2>4. pc' \in [ID -> PC] /\ LEVEL' \in [ID -> Level] /\ SET' \in [ID -> Nat \ {0}]
    BY <1>0, <1>1 DEF Enter, TypeOK, Goto, EnterLevel, PC
  <2> QED
    BY <1>1, <2>3, <2>4 DEF Enter, TypeOK
<1>2. ASSUME NEW x \in ID, SetCount(x) PROVE TypeOK'
  BY <1>2, PhaseType DEF SetCount, TypeOK, Goto, PC, Bit, history
<1>3. ASSUME NEW x \in ID, AwaitFlag(x) PROVE TypeOK'
  BY <1>r, <1>3 DEF AwaitFlag, TypeOK, words
<1>4. ASSUME NEW x \in ID, AwaitCount(x) PROVE TypeOK'
  BY <1>4 DEF AwaitCount, TypeOK, Goto, PC, words, history
<1>5. ASSUME NEW x \in ID, ClearCount(x) PROVE TypeOK'
  <2>1. CHILD(x) \in ID
    BY <1>5, CollectFacts, IDFacts
  <2>2. COUNT' \in [Bit -> [Level -> [ID -> Bit]]]
    BY <1>5, <2>1, PhaseType DEF ClearCount, TypeOK, Bit
  <2>3. SET[x] + 1 \in Nat \ {0}
    BY DEF TypeOK
  <2> QED
    BY <1>5, <2>2, <2>3 DEF ClearCount, TypeOK, Goto, PC, history
<1>6. ASSUME NEW x \in ID, Climb(x) PROVE TypeOK'
  <2>1. CASE LEVEL[x] + 1 < TOP /\ EnterLevel(x, LEVEL[x] + 1) /\ UNCHANGED <<pc, returns>>
    <3>1. LEVEL[x] + 1 \in Level
      <4>1. LEVEL[x] \in Level
        BY DEF TypeOK
      <4> QED
        BY <2>1, <4>1, SizeAssumption DEF Level
    <3> QED
      BY <1>6, <2>1, <3>1 DEF Climb, EnterLevel, TypeOK, words
  <2>2. CASE ReleaseBelow(x, TOP) /\ UNCHANGED SET
    <3>1. TOP \in (1 .. TOP) \cup Level
      BY SizeAssumption
    <3>2. pc' \in [ID -> PC] /\ LEVEL' \in [ID -> Level] /\ returns' \in [ID -> Nat]
      BY <2>2, <3>1, <1>r
    <3> QED
      BY <1>6, <2>2, <3>2 DEF Climb, TypeOK, words
  <2> QED
    BY <1>6, <2>1, <2>2 DEF Climb
<1>7. ASSUME NEW x \in ID, ResetFlag(x) PROVE TypeOK'
  BY <1>7, PhaseType DEF ResetFlag, TypeOK, Goto, PC, Bit, history
<1>8. ASSUME NEW x \in ID, SetFlag(x) PROVE TypeOK'
  <2>1. FLAG' \in [Bit -> [Level -> [ID -> Bit]]]
    BY <1>8, PhaseType DEF SetFlag, TypeOK, Bit
  <2> QED
    BY <1>r, <1>8, <2>1 DEF SetFlag, TypeOK
<1>9. CASE UNCHANGED vars
  BY <1>9 DEF vars, words, locals, history, TypeOK
<1> QED
  BY <1>1, <1>2, <1>3, <1>4, <1>5, <1>6, <1>7, <1>8, <1>9 DEF Next, Step, Spin

LEMMA LinkTypes ==
  ASSUME TypeOK, NEW t \in Child
  PROVE  /\ t \in ID /\ Parent(t) \in ID /\ Parent(t) # t
         /\ WaitLevel(t) \in Level /\ WaitLevel(t) \in Nat /\ Place(t) \in Nat \ {0}
         /\ calls[t] \in Nat /\ calls[Parent(t)] \in Nat /\ returns[Parent(t)] \in Nat
         /\ TURN[t] \in Bit /\ TURN[Parent(t)] \in Bit
         /\ pc[t] \in PC /\ pc[Parent(t)] \in PC
         /\ LEVEL[Parent(t)] \in Nat /\ SET[Parent(t)] \in Nat
         /\ WaitLevel(t) < WaitLevel(Parent(t)) /\ WaitLevel(Parent(t)) \in Nat
<1>1. /\ t \in ID /\ Parent(t) \in ID /\ Parent(t) # t
      /\ WaitLevel(t) \in Level /\ Place(t) \in Nat \ {0}
  BY TreeFacts
<1>2. LEVEL[Parent(t)] \in Level
  BY <1>1 DEF TypeOK
<1>3. WaitLevel(t) < WaitLevel(Parent(t)) /\ WaitLevel(Parent(t)) \in Nat
  BY TreeFacts, SizeAssumption
<1> QED
  BY <1>1, <1>2, <1>3, IDFacts DEF TypeOK

(* A store into one word of FLAG or COUNT. *)
LEMMA WordStore ==
  ASSUME NEW A \in [Bit -> [Level -> [ID -> Bit]]],
         NEW q \in Bit, NEW k \in Level, NEW y \in ID, NEW v,
         NEW p \in Bit, NEW l \in Level, NEW t \in ID
  PROVE  [A EXCEPT ![q][k][y] = v][p][l][t] =
           IF p = q /\ l = k /\ t = y THEN v ELSE A[p][l][t]
OBVIOUS

(* A thread that does not move keeps its control facts. *)
LEMMA ControlFrame ==
  ASSUME NEW t \in ID, ControlOf(t), pc'[t] = pc[t], LEVEL'[t] = LEVEL[t],
         SET'[t] = SET[t], calls'[t] = calls[t], returns'[t] = returns[t]
  PROVE  ControlOf(t)'
BY DEF ControlOf, Climbing, Releasing, MoreChildren, CHILD

(* Every action preserves the inductive invariant: one lemma per action.   *)
(* In each, Control is shown of an arbitrary thread, and Linked of an      *)
(* arbitrary child t, for t the thread that moves, for its master, and for *)
(* any other thread.                                                       *)
LEMMA EnterStep ==
  ASSUME IInv, TypeOK', NEW x \in ID, Enter(x)
  PROVE  Control' /\ \A t \in Child : Linked(t)'
<1>t. TypeOK /\ Control
  BY DEF IInv
<1>x. /\ pc[x] = "out" /\ pc'[x] = "gather" /\ LEVEL'[x] = 0 /\ SET'[x] = 1
      /\ calls'[x] = calls[x] + 1 /\ returns' = returns /\ TURN'[x] = 1 - TURN[x]
      /\ FLAG' = FLAG /\ COUNT' = COUNT
      /\ calls[x] = returns[x]
  BY <1>t DEF Enter, Goto, EnterLevel, TypeOK, Control, ControlOf
<1>o. ASSUME NEW y \in ID, y # x
      PROVE  /\ pc'[y] = pc[y] /\ LEVEL'[y] = LEVEL[y] /\ SET'[y] = SET[y]
             /\ calls'[y] = calls[y] /\ TURN'[y] = TURN[y]
  BY <1>t, <1>o DEF Enter, Goto, EnterLevel, TypeOK
<1>1. ASSUME NEW y \in ID PROVE ControlOf(y)'
  <2>1. CASE y = x
    <3>1. WaitLevel(x) \in 0 .. TOP
      BY TreeTable
    <3> QED
      BY <1>x, <2>1, <3>1, SizeAssumption DEF ControlOf, Climbing, Releasing
  <2>2. CASE y # x
    BY <1>t, <1>x, <1>o, <2>2, ControlFrame DEF Control
  <2> QED
    BY <2>1, <2>2
<1>2. ASSUME NEW t \in Child PROVE Linked(t)'
  <2>t. InStep(t) /\ FlagOf(t) /\ CountOf(t) /\ ControlOf(t) /\ ControlOf(Parent(t))
    BY TreeFacts DEF IInv, Linked, Control
  <2>l. /\ t \in ID /\ Parent(t) \in ID /\ Parent(t) # t
        /\ WaitLevel(t) \in Nat /\ Place(t) \in Nat \ {0}
        /\ calls[t] \in Nat /\ calls[Parent(t)] \in Nat /\ returns[Parent(t)] \in Nat
        /\ TURN[t] \in Bit /\ TURN[Parent(t)] \in Bit
    BY <1>t, LinkTypes
  <2> USE DEF Collected, Collecting, Releases, Climbing, Releasing, Phase, Other, Bit
  <2>1. CASE x = t
    <3>1. InStep(t)'
      BY <1>x, <1>o, <2>t, <2>l, <2>1 DEF InStep, ControlOf
    <3>2. FlagOf(t)'
      BY <1>x, <1>o, <2>t, <2>l, <2>1 DEF FlagOf
    <3>3. CountOf(t)'
      BY <1>x, <1>o, <2>t, <2>l, <2>1 DEF CountOf, InStep
    <3> QED
      BY <3>1, <3>2, <3>3 DEF Linked
  <2>2. CASE x = Parent(t)
    <3>1. InStep(t)'
      BY <1>x, <1>o, <2>t, <2>l, <2>2 DEF InStep
    <3>2. FlagOf(t)'
      BY <1>x, <1>o, <2>t, <2>l, <2>2 DEF FlagOf
    <3>3. CountOf(t)'
      BY <1>x, <1>o, <2>t, <2>l, <2>2 DEF CountOf, InStep
    <3> QED
      BY <3>1, <3>2, <3>3 DEF Linked
  <2>3. CASE x # t /\ x # Parent(t)
    BY <1>x, <1>o, <2>t, <2>l, <2>3, Frame DEF Linked
  <2> QED
    BY <2>1, <2>2, <2>3
<1> QED
  BY <1>1, <1>2 DEF Control

LEMMA SetCountStep ==
  ASSUME IInv, TypeOK', NEW x \in ID, SetCount(x)
  PROVE  Control' /\ \A t \in Child : Linked(t)'
<1>t. TypeOK /\ Control
  BY DEF IInv
<1>a. /\ x \in Child /\ LEVEL[x] = WaitLevel(x) /\ WaitLevel(x) \in Level
      /\ COUNT' = [COUNT EXCEPT ![Phase(x)][WaitLevel(x)][x] = 1]
  BY <1>t, AnnounceFacts, TreeFacts
<1>x. /\ pc[x] = "gather" /\ pc'[x] = "await_flag" /\ LEVEL' = LEVEL /\ SET' = SET
      /\ calls' = calls /\ returns' = returns /\ TURN' = TURN /\ FLAG' = FLAG
  BY <1>t DEF SetCount, Goto, history, TypeOK
<1>w. ASSUME NEW p \in Bit, NEW t \in Child
      PROVE  COUNT'[p][WaitLevel(t)][t] =
               IF t = x /\ p = Phase(x) THEN 1 ELSE COUNT[p][WaitLevel(t)][t]
  <2>1. COUNT \in [Bit -> [Level -> [ID -> Bit]]] /\ Phase(x) \in Bit
    BY <1>t, PhaseType DEF TypeOK
  <2>2. t \in ID /\ WaitLevel(t) \in Level
    BY TreeFacts
  <2> QED
    BY <1>a, <2>1, <2>2, WordStore
<1>o. ASSUME NEW y \in ID, y # x
      PROVE  /\ pc'[y] = pc[y] /\ LEVEL'[y] = LEVEL[y] /\ SET'[y] = SET[y]
             /\ calls'[y] = calls[y] /\ returns'[y] = returns[y] /\ TURN'[y] = TURN[y]
  BY <1>t, <1>o DEF SetCount, Goto, history, TypeOK
<1>1. ASSUME NEW y \in ID PROVE ControlOf(y)'
  <2>1. CASE y = x
    BY <1>t, <1>a, <1>x, <2>1 DEF Control, ControlOf, Climbing, Releasing
  <2>2. CASE y # x
    BY <1>t, <1>x, <1>o, <2>2, ControlFrame DEF Control
  <2> QED
    BY <2>1, <2>2
<1>2. ASSUME NEW t \in Child PROVE Linked(t)'
  <2>t. InStep(t) /\ FlagOf(t) /\ CountOf(t) /\ ControlOf(t) /\ ControlOf(Parent(t))
    BY TreeFacts DEF IInv, Linked, Control
  <2>l. /\ t \in ID /\ Parent(t) \in ID /\ Parent(t) # t
        /\ WaitLevel(t) \in Nat /\ Place(t) \in Nat \ {0}
        /\ calls[t] \in Nat /\ calls[Parent(t)] \in Nat /\ returns[Parent(t)] \in Nat
        /\ TURN[t] \in Bit /\ TURN[Parent(t)] \in Bit
        /\ LEVEL[Parent(t)] \in Nat /\ SET[Parent(t)] \in Nat
        /\ WaitLevel(t) < WaitLevel(Parent(t)) /\ WaitLevel(Parent(t)) \in Nat
    BY <1>t, LinkTypes
  <2> USE DEF Collected, Collecting, Releases, Climbing, Releasing, Phase, Other, Bit
  <2>1. CASE x = t
    <3>1. InStep(t)'
      BY <1>x, <1>o, <1>w, <2>t, <2>l, <2>1 DEF InStep, ControlOf
    <3>2. FlagOf(t)'
      BY <1>x, <1>o, <1>w, <2>t, <2>l, <2>1 DEF FlagOf
    <3>3. CountOf(t)'
      BY <1>x, <1>o, <1>w, <2>t, <2>l, <2>1 DEF CountOf, InStep, ControlOf
    <3> QED
      BY <3>1, <3>2, <3>3 DEF Linked
  <2>2. CASE x = Parent(t)
    <3>1. InStep(t)'
      BY <1>x, <1>o, <1>a, <1>w, <2>t, <2>l, <2>2 DEF InStep, ControlOf
    <3>2. FlagOf(t)'
      BY <1>x, <1>o, <1>a, <1>w, <2>t, <2>l, <2>2 DEF FlagOf, ControlOf
    <3>3. CountOf(t)'
      BY <1>x, <1>o, <1>a, <1>w, <2>t, <2>l, <2>2 DEF CountOf, InStep, ControlOf
    <3> QED
      BY <3>1, <3>2, <3>3 DEF Linked
  <2>3. CASE x # t /\ x # Parent(t)
    BY <1>x, <1>o, <1>w, <2>t, <2>l, <2>3, Frame DEF Linked
  <2> QED
    BY <2>1, <2>2, <2>3
<1> QED
  BY <1>1, <1>2 DEF Control

LEMMA AwaitFlagStep ==
  ASSUME IInv, TypeOK', NEW x \in ID, AwaitFlag(x)
  PROVE  Control' /\ \A t \in Child : Linked(t)'
<1>t. TypeOK /\ Control
  BY DEF IInv
<1>a. /\ x \in Child /\ LEVEL[x] = WaitLevel(x)
      /\ FLAG[Phase(x)][WaitLevel(x)][Parent(x)] # 0
      /\ WaitLevel(x) \in Nat /\ returns[x] \in Nat
  BY <1>t, ReleasedFacts, LinkTypes DEF TypeOK
<1>x. /\ pc[x] = "await_flag" /\ SET' = SET /\ calls' = calls /\ TURN' = TURN
      /\ FLAG' = FLAG /\ COUNT' = COUNT
      /\ \/ /\ WaitLevel(x) > 0 /\ LEVEL'[x] = WaitLevel(x) - 1 /\ pc'[x] = "reset_flag"
            /\ returns'[x] = returns[x]
         \/ /\ WaitLevel(x) = 0 /\ LEVEL'[x] = LEVEL[x] /\ pc'[x] = "out"
            /\ returns'[x] = returns[x] + 1
  BY <1>t, <1>a DEF AwaitFlag, ReleaseBelow, Goto, words, TypeOK
<1>o. ASSUME NEW y \in ID, y # x
      PROVE  /\ pc'[y] = pc[y] /\ LEVEL'[y] = LEVEL[y] /\ SET'[y] = SET[y]
             /\ calls'[y] = calls[y] /\ returns'[y] = returns[y] /\ TURN'[y] = TURN[y]
  BY <1>t, <1>o DEF AwaitFlag, ReleaseBelow, Goto, words, TypeOK
<1>1. ASSUME NEW y \in ID PROVE ControlOf(y)'
  <2>1. CASE y = x
    BY <1>t, <1>a, <1>x, <2>1 DEF Control, ControlOf, Climbing, Releasing
  <2>2. CASE y # x
    BY <1>t, <1>x, <1>o, <2>2, ControlFrame DEF Control
  <2> QED
    BY <2>1, <2>2
<1>2. ASSUME NEW t \in Child PROVE Linked(t)'
  <2>t. InStep(t) /\ FlagOf(t) /\ CountOf(t) /\ ControlOf(t) /\ ControlOf(Parent(t))
    BY TreeFacts DEF IInv, Linked, Control
  <2>l. /\ t \in ID /\ Parent(t) \in ID /\ Parent(t) # t
        /\ WaitLevel(t) \in Nat /\ Place(t) \in Nat \ {0}
        /\ calls[t] \in Nat /\ calls[Parent(t)] \in Nat /\ returns[Parent(t)] \in Nat
        /\ TURN[t] \in Bit /\ TURN[Parent(t)] \in Bit
        /\ LEVEL[Parent(t)] \in Nat /\ SET[Parent(t)] \in Nat
        /\ WaitLevel(t) < WaitLevel(Parent(t)) /\ WaitLevel(Parent(t)) \in Nat
    BY <1>t, LinkTypes
  <2>r. x = t => calls[t] = Releases(t) /\ ~Collected(t) /\ ~Collecting(t)
    BY <1>t, <1>a, <1>x, <2>t, <2>l DEF FlagOf, InStep, Phase, Other, Bit, Releases, Releasing,
       Climbing, Collected, Collecting, ControlOf
  <2> USE DEF Collected, Collecting, Releases, Climbing, Releasing, Phase, Other, Bit
  <2>1. CASE x = t
    <3>1. InStep(t)'
      BY <1>x, <1>o, <1>a, <2>r, <2>t, <2>l, <2>1 DEF InStep, ControlOf
    <3>2. FlagOf(t)'
      BY <1>x, <1>o, <1>a, <2>r, <2>t, <2>l, <2>1 DEF FlagOf
    <3>3. CountOf(t)'
      BY <1>x, <1>o, <1>a, <2>r, <2>t, <2>l, <2>1 DEF CountOf, InStep, ControlOf
    <3> QED
      BY <3>1, <3>2, <3>3 DEF Linked
  <2>2. CASE x = Parent(t)
    <3>1. InStep(t)'
      BY <1>x, <1>o, <1>a, <2>t, <2>l, <2>2 DEF InStep, ControlOf
    <3>2. FlagOf(t)'
      BY <1>x, <1>o, <1>a, <2>t, <2>l, <2>2 DEF FlagOf, ControlOf
    <3>3. CountOf(t)'
      BY <1>x, <1>o, <1>a, <2>t, <2>l, <2>2 DEF CountOf, InStep, ControlOf
    <3> QED
      BY <3>1, <3>2, <3>3 DEF Linked
  <2>3. CASE x # t /\ x # Parent(t)
    BY <1>x, <1>o, <2>t, <2>l, <2>3, Frame DEF Linked
  <2> QED
    BY <2>1, <2>2, <2>3
<1> QED
  BY <1>1, <1>2 DEF Control

LEMMA AwaitCountStep ==
  ASSUME IInv, TypeOK', NEW x \in ID, AwaitCount(x)
  PROVE  Control' /\ \A t \in Child : Linked(t)'
<1>t. TypeOK /\ Control
  BY DEF IInv
<1>a. /\ LEVEL[x] < WaitLevel(x) /\ MoreChildren(x)
      /\ CHILD(x) \in Child /\ Parent(CHILD(x)) = x
      /\ WaitLevel(CHILD(x)) = LEVEL[x] /\ Place(CHILD(x)) = SET[x]
      /\ COUNT[Phase(x)][LEVEL[x]][CHILD(x)] # 0
  BY <1>t, CollectFacts DEF AwaitCount
<1>x. /\ pc[x] = "gather" /\ pc'[x] = "clear_count" /\ LEVEL' = LEVEL /\ SET' = SET
      /\ calls' = calls /\ returns' = returns /\ TURN' = TURN /\ FLAG' = FLAG /\ COUNT' = COUNT
  BY <1>t DEF AwaitCount, Goto, words, history, TypeOK
<1>o. ASSUME NEW y \in ID, y # x
      PROVE  /\ pc'[y] = pc[y] /\ LEVEL'[y] = LEVEL[y] /\ SET'[y] = SET[y]
             /\ calls'[y] = calls[y] /\ returns'[y] = returns[y] /\ TURN'[y] = TURN[y]
  BY <1>t, <1>o DEF AwaitCount, Goto, words, history, TypeOK
<1>1. ASSUME NEW y \in ID PROVE ControlOf(y)'
  <2>1. CASE y = x
    <3>1. MoreChildren(x)'
      BY <1>a, <1>x DEF MoreChildren, CHILD
    <3> QED
      BY <1>t, <1>a, <1>x, <2>1, <3>1 DEF Control, ControlOf, Climbing, Releasing
  <2>2. CASE y # x
    BY <1>t, <1>x, <1>o, <2>2, ControlFrame DEF Control
  <2> QED
    BY <2>1, <2>2
<1>2. ASSUME NEW t \in Child PROVE Linked(t)'
  <2>t. InStep(t) /\ FlagOf(t) /\ CountOf(t) /\ ControlOf(t) /\ ControlOf(Parent(t))
    BY TreeFacts DEF IInv, Linked, Control
  <2>l. /\ t \in ID /\ Parent(t) \in ID /\ Parent(t) # t
        /\ WaitLevel(t) \in Nat /\ Place(t) \in Nat \ {0}
        /\ calls[t] \in Nat /\ calls[Parent(t)] \in Nat /\ returns[Parent(t)] \in Nat
        /\ TURN[t] \in Bit /\ TURN[Parent(t)] \in Bit
        /\ LEVEL[Parent(t)] \in Nat /\ SET[Parent(t)] \in Nat
        /\ WaitLevel(t) < WaitLevel(Parent(t)) /\ WaitLevel(Parent(t)) \in Nat
    BY <1>t, LinkTypes
  <2>c. x = Parent(t) /\ LEVEL[x] = WaitLevel(t) /\ SET[x] = Place(t) => t = CHILD(x)
    BY <1>t, SamePlace
  <2>r. t = CHILD(x) => pc[t] = "await_flag" /\ calls[t] = calls[Parent(t)]
    BY <1>t, <1>a, <1>x, <2>t, <2>l, LinkTypes DEF CountOf, InStep, Phase, Other, Bit, Releases, Releasing,
       Climbing, Collected, Collecting, ControlOf, PC
  <2> USE DEF Collected, Collecting, Releases, Climbing, Releasing, Phase, Other, Bit
  <2>1. CASE x = t
    <3>1. InStep(t)'
      BY <1>x, <1>o, <2>t, <2>l, <2>1 DEF InStep, ControlOf
    <3>2. FlagOf(t)'
      BY <1>x, <1>o, <2>t, <2>l, <2>1 DEF FlagOf
    <3>3. CountOf(t)'
      BY <1>x, <1>o, <2>t, <2>l, <2>1 DEF CountOf, InStep, ControlOf
    <3> QED
      BY <3>1, <3>2, <3>3 DEF Linked
  <2>2. CASE x = Parent(t)
    <3>1. InStep(t)'
      BY <1>x, <1>o, <1>a, <2>c, <2>r, <2>t, <2>l, <2>2 DEF InStep, ControlOf
    <3>2. FlagOf(t)'
      BY <1>x, <1>o, <1>a, <2>c, <2>r, <2>t, <2>l, <2>2 DEF FlagOf, ControlOf
    <3>3. CountOf(t)'
      BY <1>x, <1>o, <1>a, <2>c, <2>r, <2>t, <2>l, <2>2 DEF CountOf, InStep, ControlOf
    <3> QED
      BY <3>1, <3>2, <3>3 DEF Linked
  <2>3. CASE x # t /\ x # Parent(t)
    BY <1>x, <1>o, <2>t, <2>l, <2>3, Frame DEF Linked
  <2> QED
    BY <2>1, <2>2, <2>3
<1> QED
  BY <1>1, <1>2 DEF Control

LEMMA ClearCountStep ==
  ASSUME IInv, TypeOK', NEW x \in ID, ClearCount(x)
  PROVE  Control' /\ \A t \in Child : Linked(t)'
<1>t. TypeOK /\ Control
  BY DEF IInv
<1>a. /\ LEVEL[x] < WaitLevel(x) /\ LEVEL[x] \in Level
      /\ CHILD(x) \in Child /\ Parent(CHILD(x)) = x
      /\ WaitLevel(CHILD(x)) = LEVEL[x] /\ Place(CHILD(x)) = SET[x]
      /\ COUNT' = [COUNT EXCEPT ![Other(Phase(x))][LEVEL[x]][CHILD(x)] = 0]
  BY <1>t, CollectFacts DEF ClearCount, TypeOK
<1>x. /\ pc[x] = "clear_count" /\ pc'[x] = "gather" /\ LEVEL' = LEVEL /\ SET'[x] = SET[x] + 1
      /\ calls' = calls /\ returns' = returns /\ TURN' = TURN /\ FLAG' = FLAG
  BY <1>t DEF ClearCount, Goto, history, TypeOK
<1>w. ASSUME NEW p \in Bit, NEW t \in Child
      PROVE  COUNT'[p][WaitLevel(t)][t] =
               IF t = CHILD(x) /\ p = Other(Phase(x)) THEN 0 ELSE COUNT[p][WaitLevel(t)][t]
  <2>1. COUNT \in [Bit -> [Level -> [ID -> Bit]]] /\ Other(Phase(x)) \in Bit /\ CHILD(x) \in ID
    BY <1>t, <1>a, PhaseType, IDFacts DEF TypeOK
  <2>2. t \in ID /\ WaitLevel(t) \in Level
    BY TreeFacts
  <2> QED
    BY <1>a, <2>1, <2>2, WordStore
<1>o. ASSUME NEW y \in ID, y # x
      PROVE  /\ pc'[y] = pc[y] /\ LEVEL'[y] = LEVEL[y] /\ SET'[y] = SET[y]
             /\ calls'[y] = calls[y] /\ returns'[y] = returns[y] /\ TURN'[y] = TURN[y]
  BY <1>t, <1>o DEF ClearCount, Goto, history, TypeOK
<1>1. ASSUME NEW y \in ID PROVE ControlOf(y)'
  <2>1. CASE y = x
    BY <1>t, <1>a, <1>x, <2>1 DEF Control, ControlOf, Climbing, Releasing
  <2>2. CASE y # x
    BY <1>t, <1>x, <1>o, <2>2, ControlFrame DEF Control
  <2> QED
    BY <2>1, <2>2
<1>2. ASSUME NEW t \in Child PROVE Linked(t)'
  <2>t. InStep(t) /\ FlagOf(t) /\ CountOf(t) /\ ControlOf(t) /\ ControlOf(Parent(t))
    BY TreeFacts DEF IInv, Linked, Control
  <2>l. /\ t \in ID /\ Parent(t) \in ID /\ Parent(t) # t
        /\ WaitLevel(t) \in Nat /\ Place(t) \in Nat \ {0}
        /\ calls[t] \in Nat /\ calls[Parent(t)] \in Nat /\ returns[Parent(t)] \in Nat
        /\ TURN[t] \in Bit /\ TURN[Parent(t)] \in Bit
        /\ LEVEL[Parent(t)] \in Nat /\ SET[Parent(t)] \in Nat
        /\ WaitLevel(t) < WaitLevel(Parent(t)) /\ WaitLevel(Parent(t)) \in Nat
    BY <1>t, LinkTypes
  <2>c. x = Parent(t) /\ LEVEL[x] = WaitLevel(t) => (SET[x] = Place(t) <=> t = CHILD(x))
    BY <1>t, <1>a, SamePlace
  <2>k. t = CHILD(x) => x = Parent(t) /\ LEVEL[x] = WaitLevel(t) /\ SET[x] = Place(t)
    BY <1>a
  <2> USE DEF Collected, Collecting, Releases, Climbing, Releasing, Phase, Other, Bit
  <2>1. CASE x = t
    <3>1. InStep(t)'
      BY <1>x, <1>o, <1>a, <1>w, <2>k, <2>t, <2>l, <2>1 DEF InStep, ControlOf
    <3>2. FlagOf(t)'
      BY <1>x, <1>o, <1>a, <1>w, <2>k, <2>t, <2>l, <2>1 DEF FlagOf
    <3>3. CountOf(t)'
      BY <1>x, <1>o, <1>a, <1>w, <2>k, <2>t, <2>l, <2>1 DEF CountOf, InStep, ControlOf
    <3> QED
      BY <3>1, <3>2, <3>3 DEF Linked
  <2>2. CASE x = Parent(t)
    <3>1. InStep(t)'
      BY <1>x, <1>o, <1>a, <1>w, <2>c, <2>k, <2>t, <2>l, <2>2 DEF InStep, ControlOf
    <3>2. FlagOf(t)'
      BY <1>x, <1>o, <1>a, <1>w, <2>c, <2>k, <2>t, <2>l, <2>2 DEF FlagOf, ControlOf
    <3>3. CountOf(t)'
      BY <1>x, <1>o, <1>a, <1>w, <2>c, <2>k, <2>t, <2>l, <2>2 DEF CountOf, InStep, ControlOf
    <3> QED
      BY <3>1, <3>2, <3>3 DEF Linked
  <2>3. CASE x # t /\ x # Parent(t)
    BY <1>x, <1>o, <1>w, <2>k, <2>t, <2>l, <2>3, Frame DEF Linked
  <2> QED
    BY <2>1, <2>2, <2>3
<1> QED
  BY <1>1, <1>2 DEF Control

LEMMA ClimbStep ==
  ASSUME IInv, TypeOK', NEW x \in ID, Climb(x)
  PROVE  Control' /\ \A t \in Child : Linked(t)'
<1>t. TypeOK /\ Control
  BY DEF IInv
<1>a. /\ LEVEL[x] < WaitLevel(x) /\ WaitLevel(x) \in Nat /\ LEVEL[x] \in Nat
      /\ LEVEL[x] + 1 = TOP => WaitLevel(x) = TOP
      /\ \A t \in Child : Parent(t) = x /\ LEVEL[x] = WaitLevel(t) => SET[x] > Place(t)
  <2>1. LEVEL[x] \in Level
    BY <1>t DEF TypeOK
  <2>2. WaitLevel(x) \in Nat
    BY TreeTable, SizeAssumption
  <2> QED
    BY <1>t, <2>1, <2>2, IDFacts, ClimbFacts
<1>x. /\ pc[x] = "gather" /\ calls' = calls /\ returns' = returns /\ TURN' = TURN
      /\ FLAG' = FLAG /\ COUNT' = COUNT
      /\ \/ LEVEL'[x] = LEVEL[x] + 1 /\ SET'[x] = 1 /\ pc'[x] = "gather"
         \/ /\ WaitLevel(x) = TOP /\ WaitLevel(x) = LEVEL[x] + 1
            /\ LEVEL'[x] = LEVEL[x] /\ SET'[x] = SET[x] /\ pc'[x] = "reset_flag"
  <2>1. CASE LEVEL[x] + 1 < TOP /\ EnterLevel(x, LEVEL[x] + 1) /\ UNCHANGED <<pc, returns>>
    BY <1>t, <2>1 DEF Climb, EnterLevel, words, TypeOK
  <2>2. CASE LEVEL[x] + 1 = TOP /\ ReleaseBelow(x, TOP) /\ UNCHANGED SET
    <3>1. TOP > 0 /\ TOP - 1 = LEVEL[x] /\ TOP \in Nat
      BY <1>a, <2>2, SizeAssumption
    <3> QED
      BY <1>t, <1>a, <2>2, <3>1 DEF Climb, ReleaseBelow, Goto, words, TypeOK
  <2> QED
    BY <2>1, <2>2 DEF Climb
<1>o. ASSUME NEW y \in ID, y # x
      PROVE  /\ pc'[y] = pc[y] /\ LEVEL'[y] = LEVEL[y] /\ SET'[y] = SET[y]
             /\ calls'[y] = calls[y] /\ returns'[y] = returns[y] /\ TURN'[y] = TURN[y]
  BY <1>t, <1>o DEF Climb, EnterLevel, ReleaseBelow, Goto, words, TypeOK
<1>1. ASSUME NEW y \in ID PROVE ControlOf(y)'
  <2>1. CASE y = x
    BY <1>t, <1>a, <1>x, <2>1 DEF Control, ControlOf, Climbing, Releasing
  <2>2. CASE y # x
    BY <1>t, <1>x, <1>o, <2>2, ControlFrame DEF Control
  <2> QED
    BY <2>1, <2>2
<1>2. ASSUME NEW t \in Child PROVE Linked(t)'
  <2>t. InStep(t) /\ FlagOf(t) /\ CountOf(t) /\ ControlOf(t) /\ ControlOf(Parent(t))
    BY TreeFacts DEF IInv, Linked, Control
  <2>l. /\ t \in ID /\ Parent(t) \in ID /\ Parent(t) # t
        /\ WaitLevel(t) \in Nat /\ Place(t) \in Nat \ {0}
        /\ calls[t] \in Nat /\ calls[Parent(t)] \in Nat /\ returns[Parent(t)] \in Nat
        /\ TURN[t] \in Bit /\ TURN[Parent(t)] \in Bit
        /\ LEVEL[Parent(t)] \in Nat /\ SET[Parent(t)] \in Nat
        /\ WaitLevel(t) < WaitLevel(Parent(t)) /\ WaitLevel(Parent(t)) \in Nat
    BY <1>t, LinkTypes
  <2>k. WaitLevel(t) # TOP
    BY TreeTable, SizeAssumption
  <2> USE DEF Collected, Collecting, Releases, Climbing, Releasing, Phase, Other, Bit
  <2>1. CASE x = t
    <3>1. InStep(t)'
      BY <1>x, <1>o, <2>k, <2>t, <2>l, <2>1 DEF InStep, ControlOf
    <3>2. FlagOf(t)'
      BY <1>x, <1>o, <2>k, <2>t, <2>l, <2>1 DEF FlagOf
    <3>3. CountOf(t)'
      BY <1>x, <1>o, <2>k, <2>t, <2>l, <2>1 DEF CountOf, InStep, ControlOf
    <3> QED
      BY <3>1, <3>2, <3>3 DEF Linked
  <2>2. CASE x = Parent(t)
    <3>1. InStep(t)'
      BY <1>x, <1>o, <1>a, <2>t, <2>l, <2>2 DEF InStep, ControlOf
    <3>2. FlagOf(t)'
      BY <1>x, <1>o, <1>a, <2>t, <2>l, <2>2 DEF FlagOf, ControlOf
    <3>3. CountOf(t)'
      BY <1>x, <1>o, <1>a, <2>t, <2>l, <2>2 DEF CountOf, InStep, ControlOf
    <3> QED
      BY <3>1, <3>2, <3>3 DEF Linked
  <2>3. CASE x # t /\ x # Parent(t)
    BY <1>x, <1>o, <2>t, <2>l, <2>3, Frame DEF Linked
  <2> QED
    BY <2>1, <2>2, <2>3
<1> QED
  BY <1>1, <1>2 DEF Control

LEMMA ResetFlagStep ==
  ASSUME IInv, TypeOK', NEW x \in ID, ResetFlag(x)
  PROVE  Control' /\ \A t \in Child : Linked(t)'
<1>t. TypeOK /\ Control
  BY DEF IInv
<1>a. LEVEL[x] \in Level
  BY <1>t DEF TypeOK
<1>x. /\ pc[x] = "reset_flag" /\ pc'[x] = "set_flag" /\ LEVEL' = LEVEL /\ SET' = SET
      /\ calls' = calls /\ returns' = returns /\ TURN' = TURN /\ COUNT' = COUNT
  BY <1>t DEF ResetFlag, Goto, history, TypeOK
<1>w. ASSUME NEW p \in Bit, NEW t \in Child
      PROVE  FLAG'[p][WaitLevel(t)][Parent(t)] =
               IF Parent(t) = x /\ WaitLevel(t) = LEVEL[x] /\ p = Other(Phase(x))
               THEN 0 ELSE FLAG[p][WaitLevel(t)][Parent(t)]
  <2>1. FLAG \in [Bit -> [Level -> [ID -> Bit]]] /\ Other(Phase(x)) \in Bit
    BY <1>t, PhaseType DEF TypeOK
  <2>2. Parent(t) \in ID /\ WaitLevel(t) \in Level
    BY TreeFacts
  <2>3. FLAG' = [FLAG EXCEPT ![Other(Phase(x))][LEVEL[x]][x] = 0]
    BY DEF ResetFlag
  <2> QED
    BY <1>a, <2>1, <2>2, <2>3, WordStore
<1>o. ASSUME NEW y \in ID, y # x
      PROVE  /\ pc'[y] = pc[y] /\ LEVEL'[y] = LEVEL[y] /\ SET'[y] = SET[y]
             /\ calls'[y] = calls[y] /\ returns'[y] = returns[y] /\ TURN'[y] = TURN[y]
  BY <1>t, <1>o DEF ResetFlag, Goto, history, TypeOK
<1>1. ASSUME NEW y \in ID PROVE ControlOf(y)'
  <2>1. CASE y = x
    BY <1>t, <1>a, <1>x, <2>1 DEF Control, ControlOf, Climbing, Releasing
  <2>2. CASE y # x
    BY <1>t, <1>x, <1>o, <2>2, ControlFrame DEF Control
  <2> QED
    BY <2>1, <2>2
<1>2. ASSUME NEW t \in Child PROVE Linked(t)'
  <2>t. InStep(t) /\ FlagOf(t) /\ CountOf(t) /\ ControlOf(t) /\ ControlOf(Parent(t))
    BY TreeFacts DEF IInv, Linked, Control
  <2>l. /\ t \in ID /\ Parent(t) \in ID /\ Parent(t) # t
        /\ WaitLevel(t) \in Nat /\ Place(t) \in Nat \ {0}
        /\ calls[t] \in Nat /\ calls[Parent(t)] \in Nat /\ returns[Parent(t)] \in Nat
        /\ TURN[t] \in Bit /\ TURN[Parent(t)] \in Bit
        /\ LEVEL[Parent(t)] \in Nat /\ SET[Parent(t)] \in Nat
        /\ WaitLevel(t) < WaitLevel(Parent(t)) /\ WaitLevel(Parent(t)) \in Nat
    BY <1>t, LinkTypes
  <2> USE DEF Collected, Collecting, Releases, Climbing, Releasing, Phase, Other, Bit
  <2>1. CASE x = t
    <3>1. InStep(t)'
      BY <1>x, <1>o, <1>w, <2>t, <2>l, <2>1 DEF InStep, ControlOf
    <3>2. FlagOf(t)'
      BY <1>x, <1>o, <1>w, <2>t, <2>l, <2>1 DEF FlagOf
    <3>3. CountOf(t)'
      BY <1>x, <1>o, <1>w, <2>t, <2>l, <2>1 DEF CountOf, InStep, ControlOf
    <3> QED
      BY <3>1, <3>2, <3>3 DEF Linked
  <2>2. CASE x = Parent(t)
    <3>1. InStep(t)'
      BY <1>x, <1>o, <1>w, <2>t, <2>l, <2>2 DEF InStep, ControlOf
    <3>2. FlagOf(t)'
      BY <1>x, <1>o, <1>w, <2>t, <2>l, <2>2 DEF FlagOf, ControlOf
    <3>3. CountOf(t)'
      BY <1>x, <1>o, <1>w, <2>t, <2>l, <2>2 DEF CountOf, InStep, ControlOf
    <3> QED
      BY <3>1, <3>2, <3>3 DEF Linked
  <2>3. CASE x # t /\ x # Parent(t)
    BY <1>x, <1>o, <1>w, <2>t, <2>l, <2>3, Frame DEF Linked
  <2> QED
    BY <2>1, <2>2, <2>3
<1> QED
  BY <1>1, <1>2 DEF Control

LEMMA SetFlagStep ==
  ASSUME IInv, TypeOK', NEW x \in ID, SetFlag(x)
  PROVE  Control' /\ \A t \in Child : Linked(t)'
<1>t. TypeOK /\ Control
  BY DEF IInv
<1>a. /\ LEVEL[x] \in Level /\ LEVEL[x] \in Nat /\ returns[x] \in Nat
      /\ LEVEL[x] < WaitLevel(x) /\ WaitLevel(x) \in Nat /\ calls[x] = returns[x] + 1
  <2>1. LEVEL[x] \in Level /\ returns[x] \in Nat
    BY <1>t DEF TypeOK
  <2>2. WaitLevel(x) \in Nat
    BY TreeTable, SizeAssumption
  <2> QED
    BY <1>t, <2>1, <2>2, IDFacts DEF SetFlag, Control, ControlOf, Releasing
<1>x. /\ pc[x] = "set_flag" /\ SET' = SET /\ calls' = calls /\ TURN' = TURN /\ COUNT' = COUNT
      /\ \/ /\ LEVEL[x] > 0 /\ LEVEL'[x] = LEVEL[x] - 1 /\ pc'[x] = "reset_flag"
            /\ returns'[x] = returns[x]
         \/ /\ LEVEL[x] = 0 /\ LEVEL'[x] = LEVEL[x] /\ pc'[x] = "out"
            /\ returns'[x] = returns[x] + 1
  BY <1>t, <1>a DEF SetFlag, ReleaseBelow, Goto, TypeOK
<1>w. ASSUME NEW p \in Bit, NEW t \in Child
      PROVE  FLAG'[p][WaitLevel(t)][Parent(t)] =
               IF Parent(t) = x /\ WaitLevel(t) = LEVEL[x] /\ p = Phase(x)
               THEN 1 ELSE FLAG[p][WaitLevel(t)][Parent(t)]
  <2>1. FLAG \in [Bit -> [Level -> [ID -> Bit]]] /\ Phase(x) \in Bit
    BY <1>t, PhaseType DEF TypeOK
  <2>2. Parent(t) \in ID /\ WaitLevel(t) \in Level
    BY TreeFacts
  <2>3. FLAG' = [FLAG EXCEPT ![Phase(x)][LEVEL[x]][x] = 1]
    BY DEF SetFlag
  <2> QED
    BY <1>a, <2>1, <2>2, <2>3, WordStore
<1>o. ASSUME NEW y \in ID, y # x
      PROVE  /\ pc'[y] = pc[y] /\ LEVEL'[y] = LEVEL[y] /\ SET'[y] = SET[y]
             /\ calls'[y] = calls[y] /\ returns'[y] = returns[y] /\ TURN'[y] = TURN[y]
  BY <1>t, <1>o DEF SetFlag, ReleaseBelow, Goto, TypeOK
<1>1. ASSUME NEW y \in ID PROVE ControlOf(y)'
  <2>1. CASE y = x
    BY <1>t, <1>a, <1>x, <2>1 DEF Control, ControlOf, Climbing, Releasing
  <2>2. CASE y # x
    BY <1>t, <1>x, <1>o, <2>2, ControlFrame DEF Control
  <2> QED
    BY <2>1, <2>2
<1>2. ASSUME NEW t \in Child PROVE Linked(t)'
  <2>t. InStep(t) /\ FlagOf(t) /\ CountOf(t) /\ ControlOf(t) /\ ControlOf(Parent(t))
    BY TreeFacts DEF IInv, Linked, Control
  <2>l. /\ t \in ID /\ Parent(t) \in ID /\ Parent(t) # t
        /\ WaitLevel(t) \in Nat /\ Place(t) \in Nat \ {0}
        /\ calls[t] \in Nat /\ calls[Parent(t)] \in Nat /\ returns[Parent(t)] \in Nat
        /\ TURN[t] \in Bit /\ TURN[Parent(t)] \in Bit
        /\ LEVEL[Parent(t)] \in Nat /\ SET[Parent(t)] \in Nat
        /\ WaitLevel(t) < WaitLevel(Parent(t)) /\ WaitLevel(Parent(t)) \in Nat
    BY <1>t, LinkTypes
  <2> USE DEF Collected, Collecting, Releases, Climbing, Releasing, Phase, Other, Bit
  <2>1. CASE x = t
    <3>1. InStep(t)'
      BY <1>x, <1>o, <1>a, <1>w, <2>t, <2>l, <2>1 DEF InStep, ControlOf
    <3>2. FlagOf(t)'
      BY <1>x, <1>o, <1>a, <1>w, <2>t, <2>l, <2>1 DEF FlagOf
    <3>3. CountOf(t)'
      BY <1>x, <1>o, <1>a, <1>w, <2>t, <2>l, <2>1 DEF CountOf, InStep, ControlOf
    <3> QED
      BY <3>1, <3>2, <3>3 DEF Linked
  <2>2. CASE x = Parent(t)
    <3>1. InStep(t)'
      BY <1>x, <1>o, <1>a, <1>w, <2>t, <2>l, <2>2 DEF InStep, ControlOf
    <3>2. FlagOf(t)'
      BY <1>x, <1>o, <1>a, <1>w, <2>t, <2>l, <2>2 DEF FlagOf, ControlOf
    <3>3. CountOf(t)'
      BY <1>x, <1>o, <1>a, <1>w, <2>t, <2>l, <2>2 DEF CountOf, InStep, ControlOf
    <3> QED
      BY <3>1, <3>2, <3>3 DEF Linked
  <2>3. CASE x # t /\ x # Parent(t)
    BY <1>x, <1>o, <1>w, <2>t, <2>l, <2>3, Frame DEF Linked
  <2> QED
    BY <2>1, <2>2, <2>3
<1> QED
  BY <1>1, <1>2 DEF Control

LEMMA InductiveStep == IInv /\ [Next]_vars => IInv'
<1> SUFFICES ASSUME IInv, [Next]_vars PROVE IInv'
  OBVIOUS
<1>1. TypeOK /\ Control /\ TypeOK'
  BY TypeStep DEF IInv
<1>2. ASSUME NEW x \in ID, Step(x), ~Spin(x) PROVE IInv'
  <2>1. Control' /\ \A t \in Child : Linked(t)'
    BY <1>1, <1>2, EnterStep, SetCountStep, AwaitFlagStep, AwaitCountStep, ClearCountStep,
       ClimbStep, ResetFlagStep, SetFlagStep DEF Step
  <2> QED
    BY <1>1, <2>1 DEF IInv
<1>3. CASE UNCHANGED vars
  <2>1. Control'
    BY <1>1, <1>3, ControlFrame DEF vars, locals, history, Control
  <2>2. ASSUME NEW t \in Child PROVE Linked(t)'
    BY <1>1, <1>3, Frame, LinkTypes DEF vars, words, locals, history, IInv
  <2> QED
    BY <1>1, <2>1, <2>2 DEF IInv
<1> QED
  BY <1>2, <1>3 DEF Next, Spin

(* The words of TREE_BARRIER and USER_BARRIER keep their types -- no level *)
(* leaves the arrays -- and every thread runs in lockstep with the master  *)
(* of its group, in every reachable state.                                 *)
THEOREM Invariance == Spec => []IInv
BY InitInv, InductiveStep, PTL DEF Spec

(* In particular FLAG, COUNT, TURN and LEVEL keep their types: no thread   *)
(* climbs beyond the last level the arrays have.                           *)
THEOREM TypeCorrect == Spec => []TypeOK
<1>1. IInv => TypeOK
  BY DEF IInv
<1> QED
  BY <1>1, Invariance, PTL

LEMMA LeastNat ==
  ASSUME NEW T, T \subseteq Nat, T # {}
  PROVE  \E n \in T : \A k \in T : n <= k
<1>1. PICK n \in T : \A k \in T : ~(<<k, n>> \in OpToRel(<, Nat))
  BY WFMin, NatLessThanWellFounded
<1>2. \A k \in T : ~(k < n)
  BY <1>1 DEF OpToRel
<1> QED
  BY <1>2

(* Rounds in which t has been released, and rounds in which t's groups are *)
(* complete: the first cannot grow, and the second cannot shrink, from a   *)
(* master to its members.                                                  *)
Released(t) == IF pc[t] = "out" \/ Releasing(t) THEN calls[t] ELSE returns[t]
Gathered(t) == IF Climbing(t) THEN returns[t] ELSE calls[t]

LEMMA RoundTypes ==
  ASSUME IInv, NEW t \in ID
  PROVE  /\ Released(t) \in Nat /\ Gathered(t) \in Nat
         /\ returns[t] \in Nat /\ calls[t] \in Nat
         /\ returns[t] <= Released(t) /\ Gathered(t) <= calls[t]
BY DEF IInv, TypeOK, Control, ControlOf, Released, Gathered

LEMMA LinkOrder ==
  ASSUME IInv, NEW t \in Child
  PROVE  Released(t) <= Released(Parent(t)) /\ Gathered(Parent(t)) <= Gathered(t)
<1>1. InStep(t) /\ ControlOf(t) /\ ControlOf(Parent(t)) /\ TypeOK
  BY TreeFacts DEF IInv, Linked, Control
<1>2. /\ calls[t] \in Nat /\ returns[t] \in Nat
      /\ calls[Parent(t)] \in Nat /\ returns[Parent(t)] \in Nat
      /\ pc[t] \in PC /\ pc[Parent(t)] \in PC
      /\ LEVEL[Parent(t)] \in Nat /\ WaitLevel(t) \in Nat
  BY <1>1, LinkTypes DEF TypeOK
<1> USE DEF ControlOf, InStep, Releases, Collected, Climbing, Releasing, PC
<1>3. Released(t) <= Released(Parent(t))
  BY <1>1, <1>2 DEF Released
<1>4. Gathered(Parent(t)) <= Gathered(t)
  BY <1>1, <1>2 DEF Gathered
<1> QED
  BY <1>3, <1>4

(* The order of LinkOrder carried to the root, by a least counterexample   *)
(* in the distance from the top level.                                     *)
LEMMA RootOrder ==
  ASSUME IInv, NEW t \in ID
  PROVE  Released(t) <= Released(0) /\ Gathered(0) <= Gathered(t)
<1> DEFINE Ordered(u) == Released(u) <= Released(0) /\ Gathered(0) <= Gathered(u)
           Bad == {u \in ID : ~Ordered(u)}
           T == {n \in Nat : \E u \in Bad : n = TOP - WaitLevel(u)}
<1> SUFFICES ASSUME ~Ordered(t) PROVE FALSE
  OBVIOUS
<1>0. \A u \in ID : WaitLevel(u) \in Nat /\ WaitLevel(u) <= TOP /\ TOP \in Nat
  BY TreeTable, SizeAssumption
<1>1. T # {}
  <2>1. TOP - WaitLevel(t) \in Nat
    BY <1>0
  <2>2. t \in Bad
    OBVIOUS
  <2> QED
    BY <2>1, <2>2
<1>2. PICK n \in T : \A k \in T : n <= k
  <2> HIDE DEF T
  <2>1. T \subseteq Nat
    BY DEF T
  <2> QED
    BY <1>1, <2>1, LeastNat
<1>3. PICK u \in Bad : n = TOP - WaitLevel(u)
  BY <1>2
<1>4. u \in Child
  <2>1. Released(0) \in Nat /\ Gathered(0) \in Nat
    BY IDFacts, RoundTypes
  <2>2. u # 0
    BY <1>3, <2>1
  <2> QED
    BY <1>3, <2>2 DEF Child
<1>5. Parent(u) \in Bad
  <2>1. Parent(u) \in ID /\ u \in ID /\ 0 \in ID
    BY <1>4, TreeFacts, IDFacts
  <2>2. Released(u) <= Released(Parent(u)) /\ Gathered(Parent(u)) <= Gathered(u)
    BY <1>4, LinkOrder
  <2>3. /\ Released(u) \in Nat /\ Released(Parent(u)) \in Nat /\ Released(0) \in Nat
        /\ Gathered(u) \in Nat /\ Gathered(Parent(u)) \in Nat /\ Gathered(0) \in Nat
    BY <2>1, RoundTypes
  <2>4. Ordered(Parent(u)) => Ordered(u)
    BY <2>2, <2>3
  <2> QED
    BY <1>3, <2>1, <2>4
<1>6. WaitLevel(u) < WaitLevel(Parent(u)) /\ Parent(u) \in ID
  BY <1>4, TreeFacts
<1>7. TOP - WaitLevel(Parent(u)) \in T
  BY <1>0, <1>5, <1>6
<1> QED
  BY <1>0, <1>2, <1>3, <1>6, <1>7

LEMMA RootGathers ==
  ASSUME IInv, NEW t \in ID, NEW u \in ID
  PROVE  Released(t) <= calls[u]
<1>1. Released(0) <= Gathered(0)
  BY IDFacts DEF IInv, TypeOK, Control, ControlOf, Released, Gathered, Climbing, Releasing
<1>2. Released(t) <= Released(0) /\ Gathered(0) <= Gathered(u) /\ Gathered(u) <= calls[u]
  BY RootOrder, RoundTypes
<1>3. /\ Released(t) \in Nat /\ Released(0) \in Nat /\ Gathered(0) \in Nat
      /\ Gathered(u) \in Nat /\ calls[u] \in Nat
  BY IDFacts, RoundTypes
<1> QED
  BY <1>1, <1>2, <1>3

(* No thread returns from its n-th call before every thread has made its   *)
(* n-th call, in any tree of groups.                                       *)
THEOREM SeparationHolds == Spec => []Separation
<1>1. IInv => Separation
  <2> SUFFICES ASSUME IInv, NEW t \in ID, NEW u \in ID PROVE returns[t] <= calls[u]
    BY DEF Separation
  <2>1. Released(t) <= calls[u] /\ returns[t] <= Released(t)
    BY RootGathers, RoundTypes
  <2> QED
    BY <2>1, RoundTypes
<1> QED
  BY <1>1, Invariance, PTL

(* A waiter's arrival word is never cleared under it.                      *)
THEOREM ArrivalKeptHolds == Spec => []ArrivalKept
<1>1. IInv => ArrivalKept
  <2> SUFFICES ASSUME IInv, NEW t \in ID, pc[t] = "await_flag"
               PROVE  COUNT[Phase(t)][LEVEL[t]][t] = 1
    BY DEF ArrivalKept
  <2>1. TypeOK /\ Control /\ ControlOf(t)
    BY DEF IInv, Control
  <2>2. LEVEL[t] = WaitLevel(t) /\ calls[t] = returns[t] + 1 /\ returns[t] \in Nat
    BY <2>1 DEF ControlOf, TypeOK
  <2>3. t \in Child
    BY <2>1, <2>2, WaiterFacts
  <2>4. CountOf(t)
    BY <2>3 DEF IInv, Linked
  <2> QED
    BY <2>2, <2>4 DEF CountOf, Climbing
<1> QED
  BY <1>1, Invariance, PTL

(* A thread that is about to announce itself finds its own arrival word    *)
(* and the release word of its group down.                                 *)
THEOREM CleanArrivalHolds == Spec => []CleanArrival
<1>1. IInv => CleanArrival
  <2> SUFFICES ASSUME IInv, NEW t \in ID, pc[t] = "gather", WAITER(t)
               PROVE  /\ COUNT[Phase(t)][LEVEL[t]][t] = 0
                      /\ FLAG[Phase(t)][LEVEL[t]][MASTER[LEVEL[t]][t]] = 0
    BY DEF CleanArrival
  <2>1. TypeOK /\ Control
    BY DEF IInv
  <2>2. t \in Child /\ LEVEL[t] = WaitLevel(t) /\ MASTER[LEVEL[t]][t] = Parent(t)
    BY <2>1, WaiterFacts DEF Climbing
  <2>3. InStep(t) /\ FlagOf(t) /\ CountOf(t) /\ ControlOf(Parent(t))
    BY <2>1, <2>2, TreeFacts DEF IInv, Linked, Control
  <2>4. /\ TURN[t] \in Bit /\ TURN[Parent(t)] \in Bit
        /\ calls[t] \in Nat /\ calls[Parent(t)] \in Nat /\ returns[Parent(t)] \in Nat
    BY <2>1, <2>2, LinkTypes
  <2>5. COUNT[Phase(t)][WaitLevel(t)][t] = 0
    BY <2>3 DEF CountOf, Climbing
  <2>6. FLAG[Phase(t)][WaitLevel(t)][Parent(t)] = 0
    BY <2>3, <2>4 DEF FlagOf, InStep, ControlOf, Climbing, Releasing, Releases, Phase, Other, Bit
  <2> QED
    BY <2>2, <2>5, <2>6
<1> QED
  BY <1>1, Invariance, PTL

(* What the two stores of a releasing thread do to each release word. *)
LEMMA FlagStores ==
  ASSUME TypeOK, NEW x \in ID, NEW p \in Bit, NEW l \in Level, NEW m \in ID
  PROVE  /\ ResetFlag(x) => FLAG'[p][l][m] =
              IF p = Other(Phase(x)) /\ l = LEVEL[x] /\ m = x THEN 0 ELSE FLAG[p][l][m]
         /\ SetFlag(x) => FLAG'[p][l][m] \in {1, FLAG[p][l][m]}
<1>1. /\ FLAG \in [Bit -> [Level -> [ID -> Bit]]] /\ LEVEL[x] \in Level
      /\ Phase(x) \in Bit /\ Other(Phase(x)) \in Bit
  BY PhaseType DEF TypeOK
<1>2. ASSUME ResetFlag(x)
      PROVE  FLAG'[p][l][m] =
               IF p = Other(Phase(x)) /\ l = LEVEL[x] /\ m = x THEN 0 ELSE FLAG[p][l][m]
  <2>1. FLAG' = [FLAG EXCEPT ![Other(Phase(x))][LEVEL[x]][x] = 0]
    BY <1>2 DEF ResetFlag
  <2> QED
    BY <1>1, <2>1, WordStore
<1>3. ASSUME SetFlag(x)
      PROVE  FLAG'[p][l][m] \in {1, FLAG[p][l][m]}
  <2>1. FLAG' = [FLAG EXCEPT ![Phase(x)][LEVEL[x]][x] = 1]
    BY <1>3 DEF SetFlag
  <2> QED
    BY <1>1, <2>1, WordStore
<1> QED
  BY <1>2, <1>3

(* A master never takes a release word down under a member that waits on   *)
(* it.                                                                     *)
THEOREM NoLostReleaseHolds == Spec => NoLostRelease
<1> DEFINE A == \A p \in Bit, l \in Level, m \in ID :
                  (FLAG[p][l][m] = 1 /\ FLAG'[p][l][m] = 0)
                    => \A t \in ID : ~(/\ pc[t] = "await_flag" /\ Phase(t) = p
                                       /\ LEVEL[t] = l /\ MASTER[l][t] = m)
<1>1. IInv /\ [Next]_vars => [A]_vars
  <2> SUFFICES ASSUME IInv, Next,
                      NEW p \in Bit, NEW l \in Level, NEW m \in ID,
                      FLAG[p][l][m] = 1, FLAG'[p][l][m] = 0,
                      NEW t \in ID, pc[t] = "await_flag", Phase(t) = p,
                      LEVEL[t] = l, MASTER[l][t] = m
               PROVE  FALSE
    OBVIOUS
  <2>1. TypeOK /\ Control /\ FLAG \in [Bit -> [Level -> [ID -> Bit]]]
    BY DEF IInv, TypeOK
  <2>2. t \in Child /\ l = WaitLevel(t) /\ m = Parent(t)
    BY <2>1, WaiterFacts DEF Control, ControlOf
  <2>3. InStep(t) /\ ControlOf(m)
    BY <2>1, <2>2 DEF IInv, Linked, Control
  <2>0. FLAG' # FLAG
    OBVIOUS
  <2>4. PICK x \in ID : ResetFlag(x) \/ SetFlag(x)
    BY <2>0 DEF Next, Step, Spin, vars, words, Enter, SetCount, AwaitFlag, AwaitCount, ClearCount, Climb
  <2>5. CASE SetFlag(x)
    <3>1. FLAG'[p][l][m] \in {1, FLAG[p][l][m]}
      BY <2>1, <2>5, FlagStores, Zenon
    <3> QED
      BY <3>1
  <2>6. CASE ResetFlag(x)
    <3>1. p = Other(Phase(x)) /\ l = LEVEL[x] /\ m = x
      BY <2>1, <2>6, FlagStores
    <3>2. Collected(t)
      BY <2>2, <2>6, <3>1, IDFacts DEF ResetFlag, Collected, Releasing
    <3>3. TURN[t] = TURN[m] /\ TURN[m] \in Bit
      BY <2>1, <2>2, <2>3, <3>2, LinkTypes DEF InStep
    <3> QED
      BY <3>1, <3>3 DEF Phase, Other, Bit
  <2> QED
    BY <2>4, <2>5, <2>6
<1> QED
  BY <1>1, Invariance, PTL DEF Spec, NoLostRelease

(* TREE_BARRIER and USER_BARRIER implement the abstract barrier: entering  *)
(* maps to Call; the last release of a thread that masters a group of      *)
(* level 0, and the last load of a thread that waits in level 0, map to    *)
(* Return; every other access maps to a stuttering step.                   *)
THEOREM Implementation == Spec => ImplementsBarrier
<1>1. Init => Abstract!Init
  BY DEF Init, Abstract!Init
<1>2. IInv /\ [Next]_vars => [Abstract!Next]_(Abstract!barrierVars)
  <2> SUFFICES ASSUME IInv, [Next]_vars
               PROVE  Abstract!Next \/ UNCHANGED <<calls, returns>>
    BY DEF Abstract!barrierVars
  <2>t. TypeOK /\ Control
    BY DEF IInv
  <2>r. ASSUME NEW x \in ID, pc[x] # "out", UNCHANGED calls,
               returns' = [returns EXCEPT ![x] = @ + 1],
               \A u \in ID : calls[x] <= calls[u]
        PROVE  Abstract!Return(x)
    <3>1. calls[x] # returns[x] /\ \A u \in ID : calls[u] \in Nat
      BY <2>t, <2>r DEF Control, ControlOf, TypeOK
    <3> QED
      BY <2>r, <3>1 DEF Abstract!Return, Abstract!Outside
  <2>1. ASSUME NEW x \in ID, Enter(x) PROVE Abstract!Call(x)
    BY <2>t, <2>1 DEF Enter, Control, ControlOf, Abstract!Call, Abstract!Outside
  <2>2. ASSUME NEW x \in ID, SetFlag(x) PROVE Abstract!Next \/ UNCHANGED <<calls, returns>>
    <3>1. \A u \in ID : calls[x] <= calls[u]
      BY <2>2, RootGathers DEF SetFlag, Released, Releasing
    <3> QED
      BY <2>r, <2>2, <3>1 DEF SetFlag, ReleaseBelow, Abstract!Next
  <2>3. ASSUME NEW x \in ID, AwaitFlag(x) PROVE Abstract!Next \/ UNCHANGED <<calls, returns>>
    <3>1. x \in Child /\ FLAG[Phase(x)][WaitLevel(x)][Parent(x)] # 0
      BY <2>t, <2>3, ReleasedFacts
    <3>2. InStep(x) /\ FlagOf(x) /\ ControlOf(Parent(x)) /\ pc[x] = "await_flag"
      BY <2>t, <2>3, <3>1, TreeFacts DEF IInv, Linked, Control, AwaitFlag
    <3>3. /\ Parent(x) \in ID /\ TURN[x] \in Bit /\ TURN[Parent(x)] \in Bit
          /\ calls[x] \in Nat /\ calls[Parent(x)] \in Nat /\ returns[Parent(x)] \in Nat
      BY <2>t, <3>1, LinkTypes
    <3>4. calls[x] <= Released(Parent(x))
      BY <3>1, <3>2, <3>3 DEF FlagOf, InStep, ControlOf, Releases, Released, Releasing, Phase, Other, Bit
    <3>5. \A u \in ID : calls[x] <= calls[u]
      <4> SUFFICES ASSUME NEW u \in ID PROVE calls[x] <= calls[u]
        OBVIOUS
      <4>1. Released(Parent(x)) <= calls[u]
        BY <3>3, RootGathers
      <4>2. Released(Parent(x)) \in Nat /\ calls[u] \in Nat
        BY <3>3, RoundTypes
      <4> QED
        BY <3>3, <3>4, <4>1, <4>2
    <3> QED
      BY <2>r, <2>3, <3>2, <3>5 DEF AwaitFlag, ReleaseBelow, Abstract!Next
  <2>4. ASSUME NEW x \in ID, Climb(x) PROVE UNCHANGED <<calls, returns>>
    BY <2>4, SizeAssumption DEF Climb, ReleaseBelow
  <2> QED
    BY <2>1, <2>2, <2>3, <2>4 DEF Next, Step, Spin, AwaitCount, ClearCount, ResetFlag, SetCount,
       vars, history, Abstract!Next
<1> QED
  BY <1>1, <1>2, Invariance, PTL DEF Spec, ImplementsBarrier, Abstract!Spec

-----------------------------------------------------------------------------
(* Why the calls return.  Three facts hold in every state, whatever the    *)
(* scheduler does: somebody can go on, who can go on stays able to, and    *)
(* there is an end to going on.  That the calls do return follows when     *)
(* every thread that stays able to go on goes on, which is the fairness of *)
(* FairSpec.                                                               *)

(* The guard of Spin: the word that t waits for is still down.             *)
Waits(t) ==
  \/ /\ pc[t] = "gather" /\ ~WAITER(t) /\ MoreChildren(t)
     /\ COUNT[Phase(t)][LEVEL[t]][CHILD(t)] = 0
  \/ /\ pc[t] = "await_flag"
     /\ FLAG[Phase(t)][LEVEL[t]][MASTER[LEVEL[t]][t]] = 0
Finished(t) == pc[t] = "out" /\ calls[t] = Rounds

(* The guard of some step of t that is not a turn of a wait loop holds. *)
Ready(t) == ~Waits(t) /\ ~Finished(t)

Bounded == \A t \in ID : calls[t] <= Rounds /\ SET[t] <= MAX

LEMMA BoundedInit == Init => Bounded
BY SizeAssumption DEF Init, Bounded

(* The loop over a group looks at threads only, so it ends after at most   *)
(* MAX members.                                                            *)
LEMMA LoopBound ==
  ASSUME TypeOK, NEW t \in ID, MoreChildren(t)
  PROVE  SET[t] + 1 <= MAX
<1> DEFINE s == STRIDE[LEVEL[t]]
<1>1. LEVEL[t] \in Level /\ SET[t] \in Nat /\ t \in Nat
  BY IDFacts DEF TypeOK
<1>2. s \in Nat /\ s >= 1
  BY <1>1, TableTypes
<1>3. SET[t] * s >= SET[t] /\ SET[t] * s \in Nat
  <2> HIDE DEF s
  <2>1. PICK d \in Nat : s = d + 1
    BY <1>2
  <2>2. SET[t] * s = SET[t] * d + SET[t] /\ SET[t] * d \in Nat
    BY <1>1, <2>1
  <2> QED
    BY <1>1, <2>2
<1>4. t + SET[t] * s < MAX
  BY DEF MoreChildren, CHILD
<1> QED
  BY <1>1, <1>3, <1>4, SizeAssumption

LEMMA BoundedStep == IInv /\ Bounded /\ [Next]_vars => Bounded'
<1> SUFFICES ASSUME IInv, Bounded, [Next]_vars, NEW t \in ID
             PROVE  calls'[t] <= Rounds /\ SET'[t] <= MAX
  BY DEF Bounded
<1>t. TypeOK /\ Control /\ ControlOf(t) /\ calls[t] <= Rounds /\ SET[t] <= MAX
  BY DEF IInv, Control, Bounded
<1>1. ASSUME NEW x \in ID, Enter(x) PROVE calls'[t] <= Rounds /\ SET'[t] <= MAX
  <2>1. calls[x] \in Nat /\ calls'[t] = IF t = x THEN calls[x] + 1 ELSE calls[t]
    BY <1>1, <1>t DEF Enter, TypeOK
  <2>2. SET'[t] = IF t = x THEN 1 ELSE SET[t]
    BY <1>1, <1>t DEF Enter, EnterLevel, TypeOK
  <2> QED
    BY <1>1, <1>t, <2>1, <2>2, SizeAssumption DEF Enter
<1>2. ASSUME NEW x \in ID, ClearCount(x) PROVE calls'[t] <= Rounds /\ SET'[t] <= MAX
  <2>1. MoreChildren(x)
    BY <1>2, <1>t DEF ClearCount, Control, ControlOf
  <2>2. SET[x] + 1 <= MAX
    BY <1>t, <2>1, LoopBound
  <2>3. SET'[t] = IF t = x THEN SET[x] + 1 ELSE SET[t]
    BY <1>2, <1>t DEF ClearCount, TypeOK
  <2> QED
    BY <1>2, <1>t, <2>2, <2>3 DEF ClearCount, history
<1>3. ASSUME NEW x \in ID, Climb(x) PROVE calls'[t] <= Rounds /\ SET'[t] <= MAX
  <2>1. SET'[t] \in {1, SET[t]} /\ calls' = calls
    BY <1>3, <1>t DEF Climb, EnterLevel, TypeOK
  <2> QED
    BY <1>t, <2>1, SizeAssumption
<1>4. CASE UNCHANGED <<SET, calls>>
  BY <1>4, <1>t
<1> QED
  BY <1>1, <1>2, <1>3, <1>4 DEF Next, Step, Spin, SetCount, AwaitFlag, AwaitCount, ResetFlag,
     SetFlag, vars, locals, history

(* The member a master waits for has not arrived yet, and it is not        *)
(* finished nor does it wait for a release: if it waits, it waits for a    *)
(* member of its own, at a lower level.                                    *)
LEMMA WaitsBelow ==
  ASSUME IInv, Bounded, NEW m \in ID, pc[m] = "gather", Waits(m), ~Ready(CHILD(m))
  PROVE  /\ CHILD(m) \in ID
         /\ pc[CHILD(m)] = "gather" /\ Waits(CHILD(m))
         /\ LEVEL[CHILD(m)] < LEVEL[m]
<1> DEFINE c == CHILD(m)
<1>t. TypeOK /\ Control
  BY DEF IInv
<1>1. ~WAITER(m) /\ MoreChildren(m) /\ COUNT[Phase(m)][LEVEL[m]][CHILD(m)] = 0
  BY DEF Waits
<1>2. LEVEL[m] < WaitLevel(m)
  BY <1>t, <1>1, WaiterFacts DEF Climbing
<1>3. c \in Child /\ Parent(c) = m /\ WaitLevel(c) = LEVEL[m]
  BY <1>t, <1>1, <1>2, ChildFacts
<1> HIDE DEF c
<1>4. InStep(c) /\ FlagOf(c) /\ CountOf(c) /\ ControlOf(c) /\ ControlOf(m) /\ c \in ID
  BY <1>t, <1>3, TreeFacts DEF IInv, Linked, Control
<1>5. /\ calls[c] \in Nat /\ calls[m] \in Nat /\ returns[m] \in Nat /\ returns[c] \in Nat
      /\ TURN[c] \in Bit /\ TURN[m] \in Bit
      /\ calls[m] = returns[m] + 1 /\ calls[m] <= Rounds
      /\ Releases(c) = returns[m]
  BY <1>t, <1>3, <1>4, LinkTypes DEF TypeOK, ControlOf, Bounded, Releases, Releasing
<1>6. ~Finished(c)
  <2> SUFFICES ASSUME Finished(c) PROVE FALSE
    OBVIOUS
  <2>1. calls[c] = Releases(c) /\ calls[c] = Rounds
    BY <1>4 DEF Finished, InStep
  <2> QED
    BY <1>5, <2>1, SizeAssumption
<1>7. Waits(c)
  BY <1>6 DEF Ready, c
<1>8. pc[c] # "await_flag"
  <2> SUFFICES ASSUME pc[c] = "await_flag" PROVE FALSE
    OBVIOUS
  <2>1. /\ LEVEL[c] = WaitLevel(c) /\ MASTER[LEVEL[c]][c] = m
        /\ FLAG[Phase(c)][WaitLevel(c)][m] = 0
    BY <1>3, <1>4, <1>7 DEF Waits, ControlOf, Parent
  <2>2. COUNT[Phase(c)][WaitLevel(c)][c] = 1 /\ calls[c] > 0
    BY <1>4, <1>5 DEF CountOf, ControlOf, Climbing
  <2>3. CASE calls[c] = calls[m]
    <3>1. Phase(c) = Phase(m)
      BY <1>3, <1>4, <2>3 DEF InStep, Phase
    <3> QED
      BY <1>1, <1>3, <2>2, <3>1 DEF c
  <2>4. CASE calls[c] = returns[m]
    <3>1. TURN[c] = 1 - TURN[m]
      BY <1>3, <1>4, <1>5, <2>4 DEF InStep
    <3>2. Phase(c) = Other(Phase(m)) /\ Phase(c) \in Bit
      BY <1>5, <3>1 DEF Phase, Other, Bit
    <3>3. FLAG[Phase(c)][WaitLevel(c)][m] = 1
      BY <1>3, <1>4, <1>5, <2>2, <2>4, <3>2 DEF FlagOf
    <3> QED
      BY <2>1, <3>3
  <2> QED
    BY <1>4, <1>5, <2>3, <2>4 DEF InStep
<1>9. pc[c] = "gather" /\ ~WAITER(c)
  BY <1>7, <1>8 DEF Waits
<1>10. LEVEL[c] < WaitLevel(c)
  BY <1>t, <1>4, <1>9, WaiterFacts DEF Climbing
<1> QED
  BY <1>3, <1>4, <1>7, <1>9, <1>10 DEF c

(* The master of a member that waits for its release is not finished: if   *)
(* it is not ready, it waits itself, and if it does not collect, it waits  *)
(* at a higher level.                                                      *)
LEMMA WaitsAbove ==
  ASSUME IInv, Bounded, NEW t \in ID, pc[t] = "await_flag", Waits(t), ~Ready(Parent(t))
  PROVE  /\ t \in Child /\ Parent(t) \in ID /\ Waits(Parent(t))
         /\ WaitLevel(t) < WaitLevel(Parent(t))
<1> DEFINE m == Parent(t)
<1>t. TypeOK /\ Control
  BY DEF IInv
<1>1. t \in Child /\ MASTER[LEVEL[t]][t] = m /\ LEVEL[t] = WaitLevel(t)
  BY <1>t, WaiterFacts DEF Control, ControlOf
<1>2. FLAG[Phase(t)][WaitLevel(t)][m] = 0
  BY <1>1 DEF Waits
<1>3. m \in ID /\ WaitLevel(t) < WaitLevel(m)
  BY <1>1, TreeFacts
<1>4. InStep(t) /\ FlagOf(t) /\ ControlOf(t) /\ ControlOf(m)
  BY <1>t, <1>1, <1>3 DEF IInv, Linked, Control
<1>5. /\ calls[t] \in Nat /\ calls[m] \in Nat /\ returns[m] \in Nat /\ returns[t] \in Nat
      /\ TURN[t] \in Bit /\ TURN[m] \in Bit
      /\ calls[t] = returns[t] + 1 /\ calls[t] <= Rounds
  BY <1>t, <1>1, <1>4, LinkTypes DEF TypeOK, ControlOf, Bounded
<1>6. ~Finished(m)
  <2> SUFFICES ASSUME Finished(m) PROVE FALSE
    OBVIOUS
  <2>1. pc[m] = "out" /\ calls[m] = Rounds /\ returns[m] = calls[m] /\ Releases(t) = calls[m]
    BY <1>4 DEF Finished, ControlOf, Releases, Releasing
  <2>2. calls[t] = calls[m]
    BY <1>4, <1>5, <2>1, SizeAssumption DEF InStep
  <2>3. Phase(t) = Phase(m) /\ Phase(t) \in Bit
    BY <1>4, <1>5, <2>2 DEF InStep, Phase, Bit
  <2>4. FLAG[Phase(t)][WaitLevel(t)][m] = 1
    BY <1>4, <1>5, <2>1, <2>2, <2>3 DEF FlagOf
  <2> QED
    BY <1>2, <2>4
<1>7. Waits(m)
  BY <1>6 DEF Ready
<1> QED
  BY <1>1, <1>3, <1>7

(* A master that collects its group cannot be the one to be stuck: of the  *)
(* masters that are, one is lowest.                                        *)
LEMMA GatherersMove ==
  ASSUME IInv, Bounded, \A t \in ID : ~Ready(t), NEW m \in ID, pc[m] = "gather"
  PROVE  FALSE
<1> DEFINE S == {u \in ID : pc[u] = "gather" /\ Waits(u)}
           T == {n \in Nat : \E u \in S : n = LEVEL[u]}
<1>1. \A u \in ID : LEVEL[u] \in Nat
  BY IDFacts DEF IInv, TypeOK
<1>2. Waits(m)
  BY DEF Ready, Finished
<1>3. T # {} /\ T \subseteq Nat
  BY <1>1, <1>2
<1>4. PICK n \in T : \A k \in T : n <= k
  <2> HIDE DEF T
  <2> QED
    BY <1>3, LeastNat
<1>5. PICK u \in S : n = LEVEL[u]
  BY <1>4
<1>6. /\ pc[u] = "gather" /\ Waits(u) /\ u \in ID /\ ~WAITER(u) /\ MoreChildren(u)
  BY <1>5 DEF Waits
<1>7. CHILD(u) \in ID
  <2>1. TypeOK /\ Control
    BY DEF IInv
  <2>2. LEVEL[u] < WaitLevel(u)
    BY <1>6, <2>1, WaiterFacts DEF Climbing
  <2> QED
    BY <1>6, <2>1, <2>2, ChildFacts, IDFacts
<1>8. CHILD(u) \in S /\ LEVEL[CHILD(u)] < LEVEL[u]
  BY <1>6, <1>7, WaitsBelow
<1>9. LEVEL[CHILD(u)] \in T
  BY <1>1, <1>7, <1>8
<1> QED
  BY <1>1, <1>4, <1>5, <1>6, <1>7, <1>8, <1>9

LEMMA SomeoneMoves == IInv /\ Bounded => Done \/ \E t \in ID : Ready(t)
<1> SUFFICES ASSUME IInv, Bounded, \A t \in ID : ~Ready(t), ~Done PROVE FALSE
  OBVIOUS
<1>1. PICK a \in ID : ~Finished(a)
  BY DEF Done, Finished
<1> DEFINE S == {u \in ID : pc[u] = "await_flag" /\ Waits(u)}
           T == {n \in Nat : \E u \in S : n = TOP - WaitLevel(u)}
<1>2. ASSUME NEW u \in ID, Waits(u) PROVE u \in S
  BY <1>2, GatherersMove DEF Waits
<1>3. \A u \in ID : WaitLevel(u) \in Nat /\ WaitLevel(u) <= TOP /\ TOP \in Nat
  BY TreeTable, SizeAssumption
<1>4. T # {} /\ T \subseteq Nat
  <2>1. a \in S
    BY <1>1, <1>2 DEF Ready
  <2>2. TOP - WaitLevel(a) \in Nat
    BY <1>3
  <2> QED
    BY <2>1, <2>2
<1>5. PICK n \in T : \A k \in T : n <= k
  <2> HIDE DEF T
  <2> QED
    BY <1>4, LeastNat
<1>6. PICK u \in S : n = TOP - WaitLevel(u)
  BY <1>5
<1>7. Parent(u) \in ID /\ Waits(Parent(u)) /\ WaitLevel(u) < WaitLevel(Parent(u))
  <2>0. u \in ID /\ pc[u] = "await_flag" /\ TypeOK /\ Control /\ LEVEL[u] = WaitLevel(u)
    BY <1>6 DEF IInv, Control, ControlOf
  <2>1. u \in Child
    BY <2>0, WaiterFacts
  <2>2. Parent(u) \in ID
    BY <2>1, TreeFacts
  <2> QED
    BY <1>6, <2>2, WaitsAbove
<1>8. TOP - WaitLevel(Parent(u)) \in T
  BY <1>2, <1>3, <1>7
<1> QED
  BY <1>3, <1>5, <1>6, <1>7, <1>8

(* As long as a thread has calls left to make or to return from, the wait  *)
(* loops do not hold every thread: masters that wait for their members and *)
(* members that wait for their masters never form a circle, and nobody     *)
(* waits for a thread that has made its last call.                         *)
THEOREM SomeoneReady == Spec => [](Done \/ \E t \in ID : Ready(t))
<1>1. Init => IInv /\ Bounded
  BY InitInv, BoundedInit
<1>2. (IInv /\ Bounded) /\ [Next]_vars => (IInv /\ Bounded)'
  BY InductiveStep, BoundedStep
<1> QED
  BY <1>1, <1>2, SomeoneMoves, PTL DEF Spec

At(t) == <<pc[t], LEVEL[t], SET[t], calls[t]>>

(* A thread that can go on can do so until it does: no other thread takes  *)
(* the word it has waited for down again before it has looked.             *)
ReadyStays == [][\A t \in ID : Ready(t) /\ UNCHANGED At(t) => Ready(t)']_vars

(* The clear of a collected arrival is not that of the one a master is     *)
(* about to collect.                                                       *)
LEMMA ArrivalStays ==
  ASSUME IInv, NEW t \in ID, pc[t] = "gather", ~WAITER(t), MoreChildren(t),
         NEW x \in ID, ClearCount(x)
  PROVE  COUNT'[Phase(t)][LEVEL[t]][CHILD(t)] = COUNT[Phase(t)][LEVEL[t]][CHILD(t)]
<1>t. TypeOK /\ Control
  BY DEF IInv
<1>1. LEVEL[t] < WaitLevel(t)
  BY <1>t, WaiterFacts DEF Climbing
<1>2. CHILD(t) \in Child /\ Parent(CHILD(t)) = t /\ CHILD(t) \in ID
  BY <1>t, <1>1, ChildFacts, IDFacts
<1>3. CHILD(x) \in Child /\ Parent(CHILD(x)) = x /\ CHILD(x) \in ID
  BY <1>t, CollectFacts, IDFacts
<1>4. CHILD(t) # CHILD(x)
  <2>1. x # t
    BY DEF ClearCount
  <2> QED
    BY <1>2, <1>3, <2>1
<1>5. COUNT' = [COUNT EXCEPT ![Other(Phase(x))][LEVEL[x]][CHILD(x)] = 0]
  BY DEF ClearCount
<1>6. /\ COUNT \in [Bit -> [Level -> [ID -> Bit]]] /\ LEVEL[t] \in Level /\ LEVEL[x] \in Level
      /\ Phase(t) \in Bit /\ Other(Phase(x)) \in Bit
  BY <1>t, PhaseType DEF TypeOK
<1> QED
  BY <1>2, <1>3, <1>4, <1>5, <1>6, WordStore

(* A wait loop whose word has come up is left: the word stays up until the *)
(* thread has read it, however late it reads.                              *)
THEOREM ReadyStaysHolds == Spec => ReadyStays
<1> DEFINE A == \A t \in ID : Ready(t) /\ UNCHANGED At(t) => Ready(t)'
<1>1. IInv /\ [Next]_vars => [A]_vars
  <2> SUFFICES ASSUME IInv, Next, NEW t \in ID, Ready(t), UNCHANGED At(t)
               PROVE  Ready(t)'
    OBVIOUS
  <2>t. TypeOK /\ Control
    BY DEF IInv
  <2>a. pc'[t] = pc[t] /\ LEVEL'[t] = LEVEL[t] /\ SET'[t] = SET[t] /\ calls'[t] = calls[t]
    BY DEF At
  <2>f. ~Finished(t)'
    BY <2>a DEF Ready, Finished
  <2>p. Phase(t)' = Phase(t)
    <3>1. TURN'[t] = TURN[t]
      <4>1. ASSUME NEW x \in ID, Enter(x) PROVE TURN'[t] = TURN[t]
        <5>1. x # t
          BY <2>t, <2>a, <4>1 DEF Enter, TypeOK
        <5> QED
          BY <2>t, <4>1, <5>1 DEF Enter, TypeOK
      <4> QED
        BY <4>1 DEF Next, Step, Spin, vars, words, SetCount, AwaitFlag, AwaitCount, ClearCount,
           Climb, ResetFlag, SetFlag
    <3> QED
      BY <3>1 DEF Phase
  <2>w. WAITER(t)' = WAITER(t) /\ MoreChildren(t)' = MoreChildren(t) /\ CHILD(t)' = CHILD(t)
    BY <2>a DEF WAITER, MoreChildren, CHILD
  <2>1. CASE pc[t] = "gather" /\ ~WAITER(t) /\ MoreChildren(t)
    <3>1. COUNT[Phase(t)][LEVEL[t]][CHILD(t)] # 0
      BY <2>1 DEF Ready, Waits
    <3>2. COUNT'[Phase(t)][LEVEL[t]][CHILD(t)] # 0
      <4>0. LEVEL[t] < WaitLevel(t)
        BY <2>t, <2>1, WaiterFacts DEF Climbing
      <4>1. CHILD(t) \in ID /\ LEVEL[t] \in Level /\ Phase(t) \in Bit
        BY <2>t, <2>1, <4>0, ChildFacts, IDFacts, PhaseType DEF TypeOK
      <4>2. ASSUME NEW x \in ID, ClearCount(x)
            PROVE  COUNT'[Phase(t)][LEVEL[t]][CHILD(t)] # 0
        BY <2>1, <3>1, <4>2, ArrivalStays
      <4>3. ASSUME NEW x \in ID, SetCount(x)
            PROVE  COUNT'[Phase(t)][LEVEL[t]][CHILD(t)] # 0
        <5>1. COUNT' = [COUNT EXCEPT ![Phase(x)][LEVEL[x]][x] = 1]
          BY <4>3 DEF SetCount
        <5>2. COUNT \in [Bit -> [Level -> [ID -> Bit]]] /\ LEVEL[x] \in Level /\ Phase(x) \in Bit
          BY <2>t, PhaseType DEF TypeOK
        <5>3. COUNT'[Phase(t)][LEVEL[t]][CHILD(t)] \in {1, COUNT[Phase(t)][LEVEL[t]][CHILD(t)]}
          BY <4>1, <5>1, <5>2, WordStore
        <5> QED
          BY <3>1, <5>3
      <4>4. CASE COUNT' = COUNT
        BY <3>1, <4>4
      <4> QED
        BY <4>2, <4>3, <4>4 DEF Next, Step, Spin, vars, words, Enter, AwaitFlag, AwaitCount,
           Climb, ResetFlag, SetFlag
    <3> QED
      BY <2>1, <2>a, <2>f, <2>p, <2>w, <3>2 DEF Ready, Waits
  <2>2. CASE pc[t] = "await_flag"
    <3> DEFINE m == MASTER[LEVEL[t]][t]
    <3>1. FLAG[Phase(t)][LEVEL[t]][m] # 0
      BY <2>2 DEF Ready, Waits
    <3>2. m \in ID /\ LEVEL[t] \in Level /\ Phase(t) \in Bit
      <4>1. LEVEL[t] \in Level /\ Phase(t) \in Bit
        BY <2>t, PhaseType DEF TypeOK
      <4> QED
        BY <4>1, TableTypes
    <3>3. FLAG'[Phase(t)][LEVEL[t]][m] # 0
      <4>1. ASSUME NEW x \in ID, ResetFlag(x) PROVE FLAG'[Phase(t)][LEVEL[t]][m] # 0
        <5>1. SUFFICES ASSUME Phase(t) = Other(Phase(x)), LEVEL[t] = LEVEL[x], m = x PROVE FALSE
          BY <2>t, <3>1, <3>2, <4>1, FlagStores
        <5>2. t \in Child /\ LEVEL[t] = WaitLevel(t) /\ x = Parent(t)
          BY <2>t, <2>2, <5>1, WaiterFacts DEF Control, ControlOf
        <5>3. InStep(t) /\ Collected(t)
          <6>1. LEVEL[x] >= WaitLevel(t)
            BY <2>t, <5>1, <5>2, LinkTypes
          <6> QED
            BY <4>1, <5>2, <6>1 DEF IInv, Linked, ResetFlag, Collected, Releasing
        <5>4. TURN[t] = TURN[x] /\ TURN[x] \in Bit
          BY <2>t, <5>2, <5>3, LinkTypes DEF InStep
        <5> QED
          BY <5>1, <5>4 DEF Phase, Other, Bit
      <4>2. ASSUME NEW x \in ID, SetFlag(x) PROVE FLAG'[Phase(t)][LEVEL[t]][m] # 0
        <5>1. FLAG'[Phase(t)][LEVEL[t]][m] \in {1, FLAG[Phase(t)][LEVEL[t]][m]}
          BY <2>t, <3>2, <4>2, FlagStores, Zenon
        <5> QED
          BY <3>1, <5>1
      <4>3. CASE FLAG' = FLAG
        BY <3>1, <4>3
      <4> QED
        BY <4>1, <4>2, <4>3 DEF Next, Step, Spin, vars, words, Enter, AwaitFlag, AwaitCount,
           Climb, SetCount, ClearCount
    <3> QED
      BY <2>2, <2>a, <2>f, <2>p, <3>3 DEF Ready, Waits
  <2>3. CASE ~(pc[t] = "gather" /\ ~WAITER(t) /\ MoreChildren(t)) /\ pc[t] # "await_flag"
    BY <2>3, <2>a, <2>f, <2>w DEF Ready, Waits
  <2> QED
    BY <2>1, <2>2, <2>3
<1> QED
  BY <1>1, Invariance, PTL DEF Spec, ReadyStays

(* How far a thread is in its call, counted in turns of its loops: at most *)
(* two for every member of every level on the way up, and two for every    *)
(* level on the way down.                                                  *)
Ascent == 2 * (TOP * (MAX + 1))
Length == Ascent + 2 * TOP + 2
Offset(t) ==
  IF Climbing(t)
    THEN 2 * (LEVEL[t] * (MAX + 1)) + 2 * SET[t] + (IF pc[t] = "clear_count" THEN 1 ELSE 0)
    ELSE IF Releasing(t)
           THEN Ascent + 2 * (TOP - LEVEL[t]) + (IF pc[t] = "set_flag" THEN 1 ELSE 0)
           ELSE IF pc[t] = "await_flag" THEN Ascent ELSE Length
Spent(t) == calls[t] * Length + Offset(t)

LEMMA TableSize ==
  /\ MAX \in Nat /\ TOP \in Nat /\ Rounds \in Nat /\ MAX >= 1 /\ TOP >= 1
  /\ TOP * (MAX + 1) \in Nat /\ Ascent \in Nat /\ Length \in Nat
  /\ Length = Ascent + 2 * TOP + 2 /\ Ascent = 2 * (TOP * (MAX + 1))
<1>1. MAX \in Nat /\ TOP \in Nat /\ Rounds \in Nat /\ MAX >= 1 /\ TOP >= 1
  BY SizeAssumption
<1>2. TOP * (MAX + 1) \in Nat
  BY <1>1
<1> HIDE SizeAssumption
<1>3. Ascent \in Nat
  BY <1>2 DEF Ascent
<1> QED
  BY <1>1, <1>2, <1>3 DEF Length, Ascent

LEMMA NextTimes ==
  ASSUME NEW a \in Nat, NEW b \in Nat
  PROVE  a * b \in Nat /\ (a + 1) * b = a * b + b
OBVIOUS

LEMMA MoreTimes ==
  ASSUME NEW a \in Nat, NEW b \in Nat, NEW c \in Nat, a <= b
  PROVE  a * c <= b * c
<1>1. PICK d \in Nat : b = a + d
  BY b - a \in Nat
<1>2. b * c = a * c + d * c /\ d * c \in Nat /\ a * c \in Nat
  BY <1>1
<1> QED
  BY <1>2

(* A climbing thread has used less than the ascent. *)
LEMMA LevelTimes ==
  ASSUME NEW l \in Level
  PROVE  /\ l \in Nat /\ l < TOP /\ l * (MAX + 1) \in Nat
         /\ l * (MAX + 1) + (MAX + 1) <= TOP * (MAX + 1)
         /\ (l + 1) * (MAX + 1) = l * (MAX + 1) + (MAX + 1)
<1>1. l \in Nat /\ l < TOP /\ l + 1 <= TOP /\ MAX + 1 \in Nat
  BY TableSize DEF Level
<1>2. l * (MAX + 1) \in Nat /\ (l + 1) * (MAX + 1) = l * (MAX + 1) + (MAX + 1)
  BY <1>1, NextTimes
<1>3. (l + 1) * (MAX + 1) <= TOP * (MAX + 1)
  BY <1>1, TableSize, MoreTimes
<1> QED
  BY <1>1, <1>2, <1>3

LEMMA OffsetType ==
  ASSUME TypeOK, Bounded, NEW t \in ID
  PROVE  Offset(t) \in 0 .. Length
<1>1. /\ LEVEL[t] \in Nat /\ LEVEL[t] < TOP /\ SET[t] \in Nat /\ SET[t] <= MAX
      /\ LEVEL[t] * (MAX + 1) \in Nat
      /\ LEVEL[t] * (MAX + 1) + (MAX + 1) <= TOP * (MAX + 1)
  BY LevelTimes DEF TypeOK, Bounded
<1> QED
  BY <1>1, TableSize DEF Offset

LEMMA SpentType ==
  ASSUME TypeOK, Bounded, NEW t \in ID
  PROVE  Spent(t) \in 0 .. (Rounds + 1) * Length
<1>1. calls[t] \in Nat /\ calls[t] <= Rounds
  BY DEF TypeOK, Bounded
<1>2. /\ calls[t] * Length \in Nat /\ calls[t] * Length <= Rounds * Length
      /\ (Rounds + 1) * Length = Rounds * Length + Length /\ Rounds * Length \in Nat
  BY <1>1, TableSize, NextTimes, MoreTimes
<1> QED
  BY <1>2, OffsetType, TableSize DEF Spent

LEMMA SpentMore ==
  ASSUME TypeOK, TypeOK', NEW t \in ID, calls'[t] = calls[t],
         Offset(t) \in Nat, Offset(t)' \in Nat, Offset(t) < Offset(t)'
  PROVE  Spent(t) < Spent(t)'
<1>1. calls[t] \in Nat
  BY DEF TypeOK
<1>2. calls[t] * Length \in Nat
  BY <1>1, TableSize, NextTimes
<1> QED
  BY <1>2 DEF Spent

(* A step that is not a turn of a wait loop takes its thread onward. *)
LEMMA StepSpends ==
  ASSUME IInv, Bounded, TypeOK', Bounded', NEW x \in ID, Step(x), ~Spin(x)
  PROVE  Spent(x) < Spent(x)'
<1>t. TypeOK /\ Control /\ ControlOf(x)
  BY DEF IInv, Control
<1>0. /\ LEVEL[x] \in Nat /\ LEVEL[x] < TOP /\ SET[x] \in Nat /\ SET[x] <= MAX /\ SET[x] >= 1
      /\ LEVEL[x] * (MAX + 1) \in Nat
      /\ LEVEL[x] * (MAX + 1) + (MAX + 1) <= TOP * (MAX + 1)
      /\ (LEVEL[x] + 1) * (MAX + 1) = LEVEL[x] * (MAX + 1) + (MAX + 1)
      /\ calls[x] \in Nat
  BY <1>t, LevelTimes DEF TypeOK, Bounded
<1>o. Offset(x) \in 0 .. Length /\ Offset(x)' \in 0 .. Length
  <2>1. Offset(x) \in 0 .. Length
    BY <1>t, OffsetType
  <2>2. /\ LEVEL'[x] \in Nat /\ LEVEL'[x] < TOP /\ SET'[x] \in Nat /\ SET'[x] <= MAX
        /\ LEVEL'[x] * (MAX + 1) \in Nat
        /\ LEVEL'[x] * (MAX + 1) + (MAX + 1) <= TOP * (MAX + 1)
    BY LevelTimes DEF TypeOK, Bounded
  <2>3. Offset(x)' \in 0 .. Length
    BY <2>2, TableSize DEF Offset, Climbing, Releasing
  <2> QED
    BY <2>1, <2>3
<1>n. Offset(x) \in Nat /\ Offset(x)' \in Nat
  BY <1>o, TableSize
<1> USE DEF Climbing, Releasing
<1>r. ASSUME NEW l \in Nat, l <= TOP, ReleaseBelow(x, l)
      PROVE  \/ /\ pc'[x] = "reset_flag" /\ LEVEL'[x] = l - 1
                /\ Offset(x)' = Ascent + 2 * (TOP - (l - 1))
             \/ pc'[x] = "out" /\ Offset(x)' = Length
  <2>1. \/ pc'[x] = "reset_flag" /\ LEVEL'[x] = l - 1
        \/ pc'[x] = "out"
    BY <1>r, <1>t DEF ReleaseBelow, Goto, TypeOK
  <2> QED
    BY <2>1, TableSize DEF Offset
<1>1. CASE Enter(x)
  <2>1. calls'[x] = calls[x] + 1 /\ pc'[x] = "gather" /\ LEVEL'[x] = 0 /\ SET'[x] = 1
    BY <1>1, <1>t DEF Enter, Goto, EnterLevel, TypeOK
  <2>2. Offset(x)' >= 2
    BY <2>1, TableSize DEF Offset
  <2>3. (calls[x] + 1) * Length = calls[x] * Length + Length /\ calls[x] * Length \in Nat
    BY <1>0, TableSize, NextTimes
  <2>4. Spent(x)' = (calls[x] + 1) * Length + Offset(x)'
    BY <2>1 DEF Spent, Length, Ascent
  <2> QED
    BY <1>o, <2>2, <2>3, <2>4, TableSize DEF Spent
<1>2. CASE SetCount(x)
  <2>1. calls'[x] = calls[x] /\ pc[x] = "gather" /\ pc'[x] = "await_flag"
    BY <1>2, <1>t DEF SetCount, Goto, TypeOK, history
  <2>2. Offset(x) < Offset(x)'
    BY <1>0, <2>1, TableSize DEF Offset
  <2> QED
    BY <1>t, <1>n, <2>1, <2>2, SpentMore
<1>3. CASE AwaitFlag(x)
  <2>1. calls'[x] = calls[x] /\ pc[x] = "await_flag" /\ ReleaseBelow(x, LEVEL[x])
    BY <1>3 DEF AwaitFlag
  <2>2. Offset(x) = Ascent
    BY <2>1 DEF Offset
  <2>3. Offset(x) < Offset(x)'
    BY <1>0, <1>r, <2>1, <2>2, TableSize
  <2> QED
    BY <1>t, <1>n, <2>1, <2>3, SpentMore
<1>4. CASE AwaitCount(x)
  <2>1. /\ calls'[x] = calls[x] /\ pc[x] = "gather" /\ pc'[x] = "clear_count"
        /\ LEVEL'[x] = LEVEL[x] /\ SET'[x] = SET[x]
    BY <1>4, <1>t DEF AwaitCount, Goto, TypeOK, history
  <2>2. Offset(x) < Offset(x)'
    BY <1>0, <2>1, TableSize DEF Offset
  <2> QED
    BY <1>t, <1>n, <2>1, <2>2, SpentMore
<1>5. CASE ClearCount(x)
  <2>1. /\ calls'[x] = calls[x] /\ pc[x] = "clear_count" /\ pc'[x] = "gather"
        /\ LEVEL'[x] = LEVEL[x] /\ SET'[x] = SET[x] + 1
    BY <1>5, <1>t DEF ClearCount, Goto, TypeOK, history
  <2>2. Offset(x) < Offset(x)'
    BY <1>0, <2>1, TableSize DEF Offset
  <2> QED
    BY <1>t, <1>n, <2>1, <2>2, SpentMore
<1>6. CASE Climb(x)
  <2>1. calls'[x] = calls[x] /\ pc[x] = "gather"
    BY <1>6 DEF Climb
  <2>2. CASE LEVEL[x] + 1 < TOP /\ EnterLevel(x, LEVEL[x] + 1) /\ UNCHANGED <<pc, returns>>
    <3>1. pc'[x] = "gather" /\ LEVEL'[x] = LEVEL[x] + 1 /\ SET'[x] = 1
      BY <1>t, <2>1, <2>2 DEF EnterLevel, TypeOK
    <3>2. Offset(x) < Offset(x)'
      BY <1>0, <2>1, <3>1, TableSize DEF Offset
    <3> QED
      BY <1>t, <1>n, <2>1, <3>2, SpentMore
  <2>3. CASE ReleaseBelow(x, TOP)
    <3>1. Offset(x) < Ascent
      BY <1>0, <2>1, TableSize DEF Offset
    <3>2. Offset(x) < Offset(x)'
      BY <1>n, <1>r, <2>3, <3>1, TableSize
    <3> QED
      BY <1>t, <1>n, <2>1, <3>2, SpentMore
  <2> QED
    BY <1>6, <2>2, <2>3 DEF Climb
<1>7. CASE ResetFlag(x)
  <2>1. /\ calls'[x] = calls[x] /\ pc[x] = "reset_flag" /\ pc'[x] = "set_flag"
        /\ LEVEL'[x] = LEVEL[x]
    BY <1>7, <1>t DEF ResetFlag, Goto, TypeOK, history
  <2>2. Offset(x) < Offset(x)'
    BY <1>0, <2>1, TableSize DEF Offset
  <2> QED
    BY <1>t, <1>n, <2>1, <2>2, SpentMore
<1>8. CASE SetFlag(x)
  <2>1. calls'[x] = calls[x] /\ pc[x] = "set_flag" /\ ReleaseBelow(x, LEVEL[x])
    BY <1>8 DEF SetFlag
  <2>2. Offset(x) = Ascent + 2 * (TOP - LEVEL[x]) + 1
    BY <2>1 DEF Offset
  <2>3. Offset(x) < Offset(x)'
    BY <1>0, <1>r, <2>1, <2>2, TableSize
  <2> QED
    BY <1>t, <1>n, <2>1, <2>3, SpentMore
<1> QED
  BY <1>1, <1>2, <1>3, <1>4, <1>5, <1>6, <1>7, <1>8 DEF Step

(* A step of x leaves the locals of the others alone. *)
LEMMA OthersKeep ==
  ASSUME IInv, NEW x \in ID, Step(x), NEW u \in ID, u # x
  PROVE  Spent(u)' = Spent(u)
<1>1. /\ pc'[u] = pc[u] /\ LEVEL'[u] = LEVEL[u] /\ SET'[u] = SET[u] /\ calls'[u] = calls[u]
  BY DEF Step, Spin, Enter, SetCount, AwaitFlag, AwaitCount, ClearCount, Climb, ResetFlag, SetFlag,
     ReleaseBelow, EnterLevel, Goto, vars, words, locals, history, IInv, TypeOK
<1> QED
  BY <1>1 DEF Spent, Offset, Climbing, Releasing, Length, Ascent

(* Every change of the state takes one thread onward, and none back.       *)
Spends == [][\E t \in ID : Spent(t) < Spent(t)' /\ \A u \in ID \ {t} : Spent(u)' = Spent(u)]_vars

(* A barrier call is finite but for its wait loops: every step that is not *)
(* a turn of one spends from a budget that the tables and the number of    *)
(* calls fix in advance.                                                   *)
THEOREM BudgetHolds == Spec => Spends /\ [](\A t \in ID : Spent(t) \in 0 .. (Rounds + 1) * Length)
<1> DEFINE B == \A t \in ID : Spent(t) \in 0 .. (Rounds + 1) * Length
           A == \E t \in ID : Spent(t) < Spent(t)' /\ \A u \in ID \ {t} : Spent(u)' = Spent(u)
<1>1. Init => IInv /\ Bounded
  BY InitInv, BoundedInit
<1>2. (IInv /\ Bounded) /\ [Next]_vars => (IInv /\ Bounded)'
  BY InductiveStep, BoundedStep
<1>3. IInv /\ Bounded => B
  BY SpentType DEF IInv
<1>4. IInv /\ Bounded /\ [Next]_vars => [A]_vars
  <2> SUFFICES ASSUME IInv, Bounded, Next, vars' # vars PROVE A
    BY DEF vars
  <2>1. PICK x \in ID : Step(x) /\ ~Spin(x)
    BY DEF Next, Spin
  <2>2. TypeOK' /\ Bounded'
    BY <1>2 DEF IInv
  <2>3. Spent(x) < Spent(x)'
    BY <2>1, <2>2, StepSpends
  <2>4. \A u \in ID \ {x} : Spent(u)' = Spent(u)
    BY <2>1, OthersKeep
  <2> QED
    BY <2>3, <2>4
<1> QED
  BY <1>1, <1>2, <1>3, <1>4, PTL DEF Spec, Spends

=============================================================================
