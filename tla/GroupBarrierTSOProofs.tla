------------------------ MODULE GroupBarrierTSOProofs ------------------------
(***************************************************************************)
(* Theorems about GroupBarrierTSO, for any number of threads and calls and *)
(* any tree of groups: with a store buffer per thread the barrier          *)
(* implements the one of GroupBarrier, of which GroupBarrierProofs proves  *)
(* the rest.                                                               *)
(***************************************************************************)
EXTENDS GroupBarrierTSO, GroupBarrierProofs, SequenceTheorems

-----------------------------------------------------------------------------
(* GroupBarrier on the settled words. *)

Settled == INSTANCE GroupBarrierProofs WITH FLAG <- SettledFlag, COUNT <- SettledCount

LEMMA SettledTree == Settled!IsTable /\ Settled!IsTree
BY TableAssumption, TreeAssumption
   DEF IsTable, IsTree, ID, Level, Child, WaitLevel, Place, Parent,
       Settled!IsTable, Settled!IsTree, Settled!ID, Settled!Level, Settled!Child,
       Settled!WaitLevel, Settled!Place, Settled!Parent

(* The two instances are of the same module. *)
LEMMA SameInvariant == (InOrder!IInv <=> Settled!IInv) /\ (InOrder!IInv' <=> Settled!IInv')
BY DEF
 InOrder!ID, InOrder!Level, InOrder!Child, InOrder!WaitLevel, InOrder!Place, InOrder!Parent,
 InOrder!Bit, InOrder!TypeOK, InOrder!PC, InOrder!Control, InOrder!ControlOf,
 InOrder!Climbing, InOrder!Releasing, InOrder!Phase, InOrder!Other, InOrder!CHILD,
 InOrder!MoreChildren, InOrder!Linked, InOrder!InStep, InOrder!FlagOf, InOrder!CountOf,
 InOrder!Collected, InOrder!Collecting, InOrder!Releases, InOrder!IInv,
 Settled!ID, Settled!Level, Settled!Child, Settled!WaitLevel, Settled!Place, Settled!Parent,
 Settled!Bit, Settled!TypeOK, Settled!PC, Settled!Control, Settled!ControlOf,
 Settled!Climbing, Settled!Releasing, Settled!Phase, Settled!Other, Settled!CHILD,
 Settled!MoreChildren, Settled!Linked, Settled!InStep, Settled!FlagOf, Settled!CountOf,
 Settled!Collected, Settled!Collecting, Settled!Releases, Settled!IInv

LEMMA SameInit == InOrder!Init <=> Settled!Init
BY DEF InOrder!Init, InOrder!ID, InOrder!Level, InOrder!Bit,
       Settled!Init, Settled!ID, Settled!Level, Settled!Bit

LEMMA SameStep == [InOrder!Next]_(InOrder!vars) <=> [Settled!Next]_(Settled!vars)
BY DEF
 InOrder!ID, InOrder!Phase, InOrder!Other, InOrder!WAITER, InOrder!CHILD,
 InOrder!MoreChildren, InOrder!Next, InOrder!Step, InOrder!Done, InOrder!Enter,
 InOrder!SetCount, InOrder!AwaitFlag, InOrder!AwaitCount, InOrder!ClearCount, InOrder!Climb,
 InOrder!ResetFlag, InOrder!SetFlag, InOrder!Spin, InOrder!ReleaseBelow, InOrder!EnterLevel,
 InOrder!Goto, InOrder!vars, InOrder!words, InOrder!locals, InOrder!history,
 Settled!ID, Settled!Phase, Settled!Other, Settled!WAITER, Settled!CHILD,
 Settled!MoreChildren, Settled!Next, Settled!Step, Settled!Done, Settled!Enter,
 Settled!SetCount, Settled!AwaitFlag, Settled!AwaitCount, Settled!ClearCount, Settled!Climb,
 Settled!ResetFlag, Settled!SetFlag, Settled!Spin, Settled!ReleaseBelow, Settled!EnterLevel,
 Settled!Goto, Settled!vars, Settled!words, Settled!locals, Settled!history

LEMMA SettledInit == InOrder!Init => InOrder!IInv
BY SameInit, SameInvariant, Settled!InitInv, SizeAssumption, SettledTree

LEMMA SettledStep == InOrder!IInv /\ [InOrder!Next]_(InOrder!vars) => InOrder!IInv'
BY SameInvariant, SameStep, Settled!InductiveStep, SizeAssumption, SettledTree

(* What the invariant of GroupBarrier says of the locals and of the words  *)
(* a thread is about to store to.                                          *)
LEMMA SettledFacts ==
  ASSUME InOrder!IInv
  PROVE  /\ Control
         /\ \A t \in Child :
              /\ InStep(t)
              /\ \A p \in Bit :
                   SettledFlag[p][WaitLevel(t)][Parent(t)] =
                     IF /\ p = (IF Releases(t) = calls[Parent(t)] THEN Phase(Parent(t))
                                                          ELSE Other(Phase(Parent(t))))
                        /\ Releases(t) > 0
                        /\ ~(pc[Parent(t)] = "set_flag" /\ LEVEL[Parent(t)] = WaitLevel(t))
                     THEN 1 ELSE 0
              /\ SettledCount[Phase(t)][WaitLevel(t)][t] =
                   IF Climbing(t) \/ calls[t] = 0 THEN 0 ELSE 1
              /\ SettledCount[Other(Phase(t))][WaitLevel(t)][t] =
                   IF calls[t] > Releases(t) /\ Releases(t) > 0 /\ ~Collected(t) THEN 1 ELSE 0
<1> USE DEF ID, Level, Child, WaitLevel, Place, Parent, Bit, ControlOf, Climbing, Releasing,
        Phase, Other, CHILD, MoreChildren, InStep, Collected, Collecting, Releases,
        InOrder!ID, InOrder!Level, InOrder!Child, InOrder!WaitLevel, InOrder!Place,
        InOrder!Parent, InOrder!Bit, InOrder!ControlOf, InOrder!Climbing, InOrder!Releasing,
        InOrder!Phase, InOrder!Other, InOrder!CHILD, InOrder!MoreChildren, InOrder!InStep,
        InOrder!Collected, InOrder!Collecting, InOrder!Releases
<1>1. InOrder!Control <=> Control
  BY DEF Control, InOrder!Control
<1>2. ASSUME NEW t \in Child
      PROVE  InOrder!InStep(t) <=> InStep(t)
  OBVIOUS
<1>3. ASSUME NEW t \in Child
      PROVE  InOrder!FlagOf(t) <=>
               \A p \in Bit :
                   SettledFlag[p][WaitLevel(t)][Parent(t)] =
                     IF /\ p = (IF Releases(t) = calls[Parent(t)] THEN Phase(Parent(t))
                                                          ELSE Other(Phase(Parent(t))))
                        /\ Releases(t) > 0
                        /\ ~(pc[Parent(t)] = "set_flag" /\ LEVEL[Parent(t)] = WaitLevel(t))
                     THEN 1 ELSE 0
  BY DEF InOrder!FlagOf
<1>4. ASSUME NEW t \in Child
      PROVE  InOrder!CountOf(t) <=>
              /\ SettledCount[Phase(t)][WaitLevel(t)][t] =
                   IF Climbing(t) \/ calls[t] = 0 THEN 0 ELSE 1
              /\ SettledCount[Other(Phase(t))][WaitLevel(t)][t] =
                   IF calls[t] > Releases(t) /\ Releases(t) > 0 /\ ~Collected(t) THEN 1 ELSE 0
  BY DEF InOrder!CountOf
<1>5. InOrder!Control /\ \A t \in Child : InOrder!Linked(t)
  BY DEF InOrder!IInv
<1> HIDE DEF ID, Level, Child, WaitLevel, Place, Parent, Bit, ControlOf, Climbing, Releasing,
        Phase, Other, CHILD, MoreChildren, InStep, Collected, Collecting, Releases,
        InOrder!ID, InOrder!Level, InOrder!Child, InOrder!WaitLevel, InOrder!Place,
        InOrder!Parent, InOrder!Bit, InOrder!ControlOf, InOrder!Climbing, InOrder!Releasing,
        InOrder!Phase, InOrder!Other, InOrder!CHILD, InOrder!MoreChildren, InOrder!InStep,
        InOrder!Collected, InOrder!Collecting, InOrder!Releases
<1>6. ASSUME NEW t \in Child
      PROVE  InOrder!InStep(t) /\ InOrder!FlagOf(t) /\ InOrder!CountOf(t)
  BY <1>5 DEF InOrder!Linked
<1> QED
  BY <1>1, <1>2, <1>3, <1>4, <1>5, <1>6

-----------------------------------------------------------------------------
(* Words, stores and buffers. *)

LEMMA WordFacts ==
  ASSUME NEW p \in Bit, NEW l \in Level, NEW i \in ID,
         NEW q \in Bit, NEW k \in Level, NEW j \in ID
  PROVE  /\ Flag(p, l, i) \in Word /\ Count(p, l, i) \in Word
         /\ Flag(p, l, i) = Flag(q, k, j) <=> p = q /\ l = k /\ i = j
         /\ Count(p, l, i) = Count(q, k, j) <=> p = q /\ l = k /\ i = j
         /\ Flag(p, l, i) # Count(q, k, j)
BY DEF Flag, Count, Word

LEMMA WordFields ==
  ASSUME NEW p, NEW l, NEW i
  PROVE  /\ Flag(p, l, i).array = "FLAG" /\ Count(p, l, i).array = "COUNT"
         /\ Flag(p, l, i).phase = p /\ Flag(p, l, i).level = l /\ Flag(p, l, i).id = i
         /\ Count(p, l, i).phase = p /\ Count(p, l, i).level = l /\ Count(p, l, i).id = i
BY DEF Flag, Count

LEMMA WordCases ==
  ASSUME NEW w \in Word
  PROVE  /\ w.phase \in Bit /\ w.level \in Level /\ w.id \in ID
         /\ w.array \in {"FLAG", "COUNT"}
         /\ w.array = "FLAG" => w = Flag(w.phase, w.level, w.id)
         /\ w.array = "COUNT" => w = Count(w.phase, w.level, w.id)
BY DEF Flag, Count, Word

(* A store to be appended. *)
LEMMA StoreFacts ==
  ASSUME TSOTypeOK, NEW x \in ID, NEW w \in Word, NEW v \in Bit, Store(x, w, v)
  PROVE  /\ buffer' \in [ID -> Seq([word : Word, value : Bit])]
         /\ \A y \in ID : y # x => buffer'[y] = buffer[y]
         /\ \E N \in Nat \ {0} :
              /\ DOMAIN buffer[x] = 1 .. N - 1
              /\ DOMAIN buffer'[x] = 1 .. N
              /\ \A n \in 1 .. N - 1 : buffer'[x][n] = buffer[x][n]
              /\ buffer'[x][N].word = w
              /\ buffer'[x][N].value = v
<1> DEFINE S == [word : Word, value : Bit]
           e == [word |-> w, value |-> v]
<1>1. buffer \in [ID -> Seq(S)] /\ e \in S
  BY DEF TSOTypeOK
<1>2. buffer' = [buffer EXCEPT ![x] = Append(buffer[x], e)]
  BY DEF Store
<1>3. buffer[x] \in Seq(S) /\ Append(buffer[x], e) \in Seq(S)
  <2> HIDE DEF S, e
  <2> QED BY <1>1
<1>4. buffer' \in [ID -> Seq(S)] /\ buffer'[x] = Append(buffer[x], e)
      /\ \A y \in ID : y # x => buffer'[y] = buffer[y]
  BY <1>1, <1>2, <1>3
<1>5. /\ Len(Append(buffer[x], e)) = Len(buffer[x]) + 1
      /\ Len(buffer[x]) \in Nat
      /\ DOMAIN buffer[x] = 1 .. Len(buffer[x])
      /\ DOMAIN Append(buffer[x], e) = 1 .. Len(buffer[x]) + 1
      /\ \A n \in DOMAIN buffer[x] : Append(buffer[x], e)[n] = buffer[x][n]
      /\ Append(buffer[x], e)[Len(buffer[x]) + 1] = e
  <2> HIDE DEF S, e
  <2> QED BY <1>1, <1>3, AppendProperties
<1>6. e.word = w /\ e.value = v
  OBVIOUS
<1> HIDE DEF e
<1>7. PICK N : N = Len(buffer[x]) + 1
  OBVIOUS
<1>8. N \in Nat \ {0} /\ Len(buffer[x]) = N - 1
  BY <1>5, <1>7
<1> QED
  BY <1>4, <1>5, <1>6, <1>7, <1>8

(* The oldest store leaves. *)
LEMMA DrainFacts ==
  ASSUME TSOTypeOK, NEW x \in ID, Drain(x)
  PROVE  /\ buffer' \in [ID -> Seq([word : Word, value : Bit])]
         /\ \A y \in ID : y # x => buffer'[y] = buffer[y]
         /\ Head(buffer[x]) = buffer[x][1]
         /\ buffer[x][1].word \in Word /\ buffer[x][1].value \in Bit
         /\ \E N \in Nat \ {0} :
              /\ DOMAIN buffer[x] = 1 .. N
              /\ DOMAIN buffer'[x] = 1 .. N - 1
              /\ \A n \in 1 .. N - 1 : buffer'[x][n] = buffer[x][n + 1]
<1> DEFINE S == [word : Word, value : Bit]
<1>1. buffer \in [ID -> Seq(S)] /\ buffer[x] \in Seq(S) /\ buffer[x] # <<>>
  BY DEF TSOTypeOK, Drain
<1>2. /\ Tail(buffer[x]) \in Seq(S) /\ Head(buffer[x]) = buffer[x][1]
      /\ Len(buffer[x]) \in Nat \ {0}
      /\ DOMAIN buffer[x] = 1 .. Len(buffer[x])
      /\ Len(Tail(buffer[x])) = Len(buffer[x]) - 1
      /\ \A n \in 1 .. Len(buffer[x]) - 1 : Tail(buffer[x])[n] = buffer[x][n + 1]
      /\ buffer[x][1] \in S
  <2> HIDE DEF S
  <2> QED BY <1>1, HeadTailProperties
<1>3. DOMAIN Tail(buffer[x]) = 1 .. Len(buffer[x]) - 1
  <2> HIDE DEF S
  <2> QED BY <1>2
<1>4. buffer' = [buffer EXCEPT ![x] = Tail(buffer[x])]
  BY DEF Drain
<1>5. PICK N \in Nat \ {0} : N = Len(buffer[x])
  BY <1>2
<1> QED
  BY <1>1, <1>2, <1>3, <1>4, <1>5

LEMMA EntryFacts ==
  ASSUME TSOTypeOK, NEW x \in ID, NEW n \in DOMAIN buffer[x]
  PROVE  /\ n \in Nat \ {0} /\ buffer[x][n].word \in Word
         /\ buffer[x][n].value \in Bit /\ buffer[x][n].value \in {0, 1}
<1> DEFINE S == [word : Word, value : Bit]
<1>1. buffer[x] \in Seq(S)
  BY DEF TSOTypeOK
<1>2. n \in Nat \ {0} /\ buffer[x][n] \in S
  <2> HIDE DEF S
  <2> QED BY <1>1
<1> QED
  BY <1>2 DEF Bit

(* The settled words, one by one. *)
LEMMA SettledValue ==
  ASSUME NEW p \in Bit, NEW l \in Level, NEW i \in ID
  PROVE  /\ SettledFlag[p][l][i] = IF Raised(p, l, i) THEN 1 ELSE 0
         /\ SettledCount[p][l][i] = IF Announced(p, l, i) THEN 1 ELSE 0
         /\ SettledFlag'[p][l][i] = IF Raised(p, l, i)' THEN 1 ELSE 0
         /\ SettledCount'[p][l][i] = IF Announced(p, l, i)' THEN 1 ELSE 0
BY DEF SettledFlag, SettledCount

LEMMA SettledTypes ==
  /\ SettledFlag \in [Bit -> [Level -> [ID -> Bit]]]
  /\ SettledCount \in [Bit -> [Level -> [ID -> Bit]]]
  /\ SettledFlag' \in [Bit -> [Level -> [ID -> Bit]]]
  /\ SettledCount' \in [Bit -> [Level -> [ID -> Bit]]]
BY DEF SettledFlag, SettledCount, Bit

(* Words that agree are the same words. *)
LEMMA SameWords ==
  ASSUME NEW A \in [Bit -> [Level -> [ID -> Bit]]],
         NEW B \in [Bit -> [Level -> [ID -> Bit]]],
         \A p \in Bit, l \in Level, i \in ID : B[p][l][i] = A[p][l][i]
  PROVE  B = A
<1>1. ASSUME NEW p \in Bit PROVE B[p] = A[p]
  <2>1. ASSUME NEW l \in Level PROVE B[p][l] = A[p][l]
    <3>1. A[p][l] \in [ID -> Bit] /\ B[p][l] \in [ID -> Bit]
      OBVIOUS
    <3> QED BY <3>1
  <2>2. A[p] \in [Level -> [ID -> Bit]] /\ B[p] \in [Level -> [ID -> Bit]]
    OBVIOUS
  <2> QED BY <2>1, <2>2
<1> QED
  BY <1>1

(* Steps that touch neither a word nor a buffer. *)
LEMMA SettledFrame ==
  ASSUME UNCHANGED <<FLAG, COUNT, buffer>>
  PROVE  SettledFlag' = SettledFlag /\ SettledCount' = SettledCount
BY DEF SettledFlag, SettledCount, Raised, RaisedAfter, Announced, PendingCount

(* A store to a release word takes effect in the settled words at once.    *)
LEMMA BufferedFlag ==
  ASSUME TSOTypeOK, NEW x \in ID, NEW q \in Bit, NEW k \in Level, NEW v \in Bit,
         Store(x, Flag(q, k, x), v), UNCHANGED <<FLAG, COUNT>>
  PROVE  /\ SettledFlag' = [SettledFlag EXCEPT ![q][k][x] = v]
         /\ SettledCount' = SettledCount
<1>1. PICK w \in Word : w = Flag(q, k, x)
  BY WordFacts
<1>2. PICK N \in Nat \ {0} :
      /\ \A y \in ID : y # x => buffer'[y] = buffer[y]
      /\ DOMAIN buffer[x] = 1 .. N - 1
      /\ DOMAIN buffer'[x] = 1 .. N
      /\ \A n \in 1 .. N - 1 : buffer'[x][n] = buffer[x][n]
      /\ buffer'[x][N].word = w
      /\ buffer'[x][N].value = v
  BY <1>1, StoreFacts
<1>3. ASSUME NEW p \in Bit, NEW l \in Level, NEW i \in ID
      PROVE  Raised(p, l, i)' <=>
               IF p = q /\ l = k /\ i = x THEN v = 1 ELSE Raised(p, l, i)
  <2>1. CASE i # x
    BY <1>2, <2>1 DEF Raised, RaisedAfter
  <2>2. CASE p = q /\ l = k /\ i = x
    <3>1. CASE v = 1
      <4>1. RaisedAfter(w, x, N)' /\ N \in DOMAIN buffer'[x]
        BY <1>2 DEF RaisedAfter
      <4>2. Flag(p, l, i) = w
        BY <1>1, <2>2
      <4> QED
        BY <1>2, <2>2, <3>1, <4>1, <4>2 DEF Raised, RaisedAfter
    <3>2. CASE v = 0
      <4>1. \A n \in Nat : n < N => ~RaisedAfter(w, x, n)'
        BY <1>2, <3>2 DEF RaisedAfter
      <4>2. Flag(p, l, i) = w
        BY <1>1, <2>2
      <4>3. \A n \in DOMAIN buffer'[x] : n \in Nat /\ (n < N \/ n = N)
        BY <1>2
      <4> QED
        BY <1>2, <2>2, <3>2, <4>1, <4>2, <4>3 DEF Raised, RaisedAfter
    <3> QED
      BY <3>1, <3>2 DEF Bit
  <2>3. CASE i = x /\ ~(p = q /\ l = k)
    <3>1. Flag(p, l, x) # w
      BY <1>1, <2>3, WordFacts
    <3>2. \A n \in Nat : RaisedAfter(Flag(p, l, x), x, n)' <=> RaisedAfter(Flag(p, l, x), x, n)
      BY <1>2, <3>1, SMTT(30) DEF RaisedAfter
    <3>3. Raised(p, l, x)' => Raised(p, l, x)
      BY <1>2, <3>1, <3>2 DEF Raised
    <3>4. Raised(p, l, x) => Raised(p, l, x)'
      BY <1>2, <3>1, <3>2 DEF Raised
    <3> QED
      BY <2>3, <3>3, <3>4
  <2> QED
    BY <2>1, <2>2, <2>3
<1>4. ASSUME NEW p \in Bit, NEW l \in Level, NEW i \in ID
      PROVE  Announced(p, l, i)' <=> Announced(p, l, i)
  <2>1. Count(p, l, i) # w
    BY <1>1, WordFacts
  <2>2. ASSUME NEW b PROVE PendingCount(p, l, i, b)' <=> PendingCount(p, l, i, b)
    BY <1>2, <2>1 DEF PendingCount
  <2> QED
    BY <2>2 DEF Announced
<1>5. \A p \in Bit, l \in Level, i \in ID :
        SettledFlag'[p][l][i] = IF p = q /\ l = k /\ i = x THEN v ELSE SettledFlag[p][l][i]
  BY <1>3, SettledValue DEF Bit
<1>6. \A p \in Bit, l \in Level, i \in ID : SettledCount'[p][l][i] = SettledCount[p][l][i]
  BY <1>4, SettledValue
<1>7. SettledFlag' = [SettledFlag EXCEPT ![q][k][x] = v]
  <2>1. PICK A \in [Bit -> [Level -> [ID -> Bit]]] : A = SettledFlag
    BY SettledTypes
  <2> DEFINE C == [A EXCEPT ![q][k][x] = v]
  <2>2. C \in [Bit -> [Level -> [ID -> Bit]]]
    OBVIOUS
  <2>3. ASSUME NEW p \in Bit, NEW l \in Level, NEW i \in ID
        PROVE  C[p][l][i] = IF p = q /\ l = k /\ i = x THEN v ELSE A[p][l][i]
    OBVIOUS
  <2> HIDE DEF C
  <2>4. \A p \in Bit, l \in Level, i \in ID : SettledFlag'[p][l][i] = C[p][l][i]
    BY <1>5, <2>1, <2>3
  <2>5. SettledFlag' = C
    BY <2>2, <2>4, SettledTypes, SameWords
  <2> QED
    BY <2>1, <2>5, Zenon DEF C
<1>8. SettledCount' = SettledCount
  BY <1>6, SettledTypes, SameWords, Zenon
<1> QED
  BY <1>7, <1>8

(* So does a store to an arrival word, if it is a clear only when no       *)
(* arrival is on its way to that word.                                     *)
LEMMA BufferedCount ==
  ASSUME TSOTypeOK, NEW x \in ID, NEW q \in Bit, NEW k \in Level, NEW c \in ID,
         NEW v \in Bit, v = 0 => ~PendingCount(q, k, c, 1),
         Store(x, Count(q, k, c), v), UNCHANGED <<FLAG, COUNT>>
  PROVE  /\ SettledCount' = [SettledCount EXCEPT ![q][k][c] = v]
         /\ SettledFlag' = SettledFlag
<1>1. PICK w \in Word : w = Count(q, k, c)
  BY WordFacts
<1>2. PICK N \in Nat \ {0} :
      /\ \A y \in ID : y # x => buffer'[y] = buffer[y]
      /\ DOMAIN buffer[x] = 1 .. N - 1
      /\ DOMAIN buffer'[x] = 1 .. N
      /\ \A n \in 1 .. N - 1 : buffer'[x][n] = buffer[x][n]
      /\ buffer'[x][N].word = w
      /\ buffer'[x][N].value = v
  <2>1. Store(x, w, v)
    BY <1>1
  <2>2. PICK N \in Nat \ {0} :
        /\ DOMAIN buffer[x] = 1 .. N - 1 /\ DOMAIN buffer'[x] = 1 .. N
        /\ \A n \in 1 .. N - 1 : buffer'[x][n] = buffer[x][n]
        /\ buffer'[x][N].word = w /\ buffer'[x][N].value = v
    BY <2>1, StoreFacts
  <2> QED
    BY <2>1, <2>2, StoreFacts
<1>3. ASSUME NEW p \in Bit, NEW l \in Level, NEW i \in ID
      PROVE  Announced(p, l, i)' <=>
               IF p = q /\ l = k /\ i = c THEN v = 1 ELSE Announced(p, l, i)
  <2>1. CASE p = q /\ l = k /\ i = c
    <3>0. Count(p, l, i) = w
      BY <1>1, <2>1
    <3>1. PendingCount(p, l, i, v)'
      BY <1>2, <3>0 DEF PendingCount
    <3>2. v = 0 => ~PendingCount(p, l, i, 1)'
      BY <1>2, <2>1, <3>0 DEF PendingCount
    <3> QED
      BY <2>1, <3>1, <3>2 DEF Announced, Bit
  <2>2. CASE ~(p = q /\ l = k /\ i = c)
    <3>1. Count(p, l, i) # w
      BY <1>1, <2>2, WordFacts
    <3>2. ASSUME NEW b PROVE PendingCount(p, l, i, b)' <=> PendingCount(p, l, i, b)
      BY <1>2, <3>1 DEF PendingCount
    <3> QED
      BY <2>2, <3>2 DEF Announced
  <2> QED
    BY <2>1, <2>2
<1>4. ASSUME NEW p \in Bit, NEW l \in Level, NEW i \in ID
      PROVE  Raised(p, l, i)' <=> Raised(p, l, i)
  <2>1. Flag(p, l, i) # w
    BY <1>1, WordFacts
  <2>2. CASE i # x
    BY <1>2, <2>2 DEF Raised, RaisedAfter
  <2>3. CASE i = x
    <3>1. \A n \in Nat : RaisedAfter(Flag(p, l, x), x, n)' <=> RaisedAfter(Flag(p, l, x), x, n)
      BY <1>2, <2>1, <2>3 DEF RaisedAfter
    <3>2. Raised(p, l, x)' => Raised(p, l, x)
      BY <1>2, <2>1, <2>3, <3>1 DEF Raised
    <3>3. Raised(p, l, x) => Raised(p, l, x)'
      BY <1>2, <2>1, <2>3, <3>1 DEF Raised
    <3> QED
      BY <2>3, <3>2, <3>3
  <2> QED
    BY <2>2, <2>3
<1>5. \A p \in Bit, l \in Level, i \in ID :
        SettledCount'[p][l][i] = IF p = q /\ l = k /\ i = c THEN v ELSE SettledCount[p][l][i]
  BY <1>3, SettledValue DEF Bit
<1>6. \A p \in Bit, l \in Level, i \in ID : SettledFlag'[p][l][i] = SettledFlag[p][l][i]
  BY <1>4, SettledValue
<1>7. SettledCount' = [SettledCount EXCEPT ![q][k][c] = v]
  <2>1. PICK A \in [Bit -> [Level -> [ID -> Bit]]] : A = SettledCount
    BY SettledTypes
  <2> DEFINE C == [A EXCEPT ![q][k][c] = v]
  <2>2. C \in [Bit -> [Level -> [ID -> Bit]]]
    OBVIOUS
  <2>3. ASSUME NEW p \in Bit, NEW l \in Level, NEW i \in ID
        PROVE  C[p][l][i] = IF p = q /\ l = k /\ i = c THEN v ELSE A[p][l][i]
    OBVIOUS
  <2> HIDE DEF C
  <2>4. \A p \in Bit, l \in Level, i \in ID : SettledCount'[p][l][i] = C[p][l][i]
    BY <1>5, <2>1, <2>3
  <2>5. SettledCount' = C
    BY <2>2, <2>4, SettledTypes, SameWords
  <2> QED
    BY <2>1, <2>5, Zenon DEF C
<1>8. SettledFlag' = SettledFlag
  BY <1>6, SettledTypes, SameWords, Zenon
<1> QED
  BY <1>7, <1>8

(* Who can have a store to a word waiting. *)
LEMMA OwnerFacts ==
  ASSUME OwnStores, NEW y \in ID, NEW n \in DOMAIN buffer[y], NEW p, NEW l, NEW i
  PROVE  /\ buffer[y][n].word = Flag(p, l, i) => y = i
         /\ buffer[y][n].word = Count(p, l, i) =>
              /\ i \in Child /\ l = WaitLevel(i)
              /\ \/ y = i /\ buffer[y][n].value = 1
                 \/ y = Parent(i) /\ buffer[y][n].value = 0
BY WordFields DEF OwnStores

(* What the oldest store of x does to memory. *)
LEMMA DrainMemory ==
  ASSUME TSOTypeOK, NEW x \in ID, Drain(x)
  PROVE  /\ UNCHANGED <<TURN, locals, history>>
         /\ FLAG' \in [Bit -> [Level -> [ID -> Bit]]]
         /\ COUNT' \in [Bit -> [Level -> [ID -> Bit]]]
         /\ \A p \in Bit, l \in Level, i \in ID :
              /\ FLAG'[p][l][i] = IF buffer[x][1].word = Flag(p, l, i)
                                 THEN buffer[x][1].value ELSE FLAG[p][l][i]
              /\ COUNT'[p][l][i] = IF buffer[x][1].word = Count(p, l, i)
                                  THEN buffer[x][1].value ELSE COUNT[p][l][i]
<1>1. Commit(buffer[x][1]) /\ buffer[x][1].word \in Word /\ buffer[x][1].value \in Bit
  BY DrainFacts DEF Drain
<1>2. PICK w \in Word, v \in Bit : w = buffer[x][1].word /\ v = buffer[x][1].value
  BY <1>1
<1>3. PICK q \in Bit, k \in Level, j \in ID :
        /\ q = w.phase /\ k = w.level /\ j = w.id
        /\ FLAG \in [Bit -> [Level -> [ID -> Bit]]] /\ COUNT \in [Bit -> [Level -> [ID -> Bit]]]
  BY WordCases DEF TSOTypeOK, TypeOK
<1>4. CASE w.array = "FLAG"
  <2>1. FLAG' = [FLAG EXCEPT ![q][k][j] = v] /\ COUNT' = COUNT
    BY <1>1, <1>2, <1>3, <1>4 DEF Commit
  <2>2. FLAG' \in [Bit -> [Level -> [ID -> Bit]]]
    <3>1. PICK A \in [Bit -> [Level -> [ID -> Bit]]] : A = FLAG
      BY <1>3
    <3>2. [A EXCEPT ![q][k][j] = v] \in [Bit -> [Level -> [ID -> Bit]]]
      OBVIOUS
    <3> QED
      BY <2>1, <3>1, <3>2, Zenon
  <2>3. w = Flag(q, k, j)
    BY <1>3, <1>4, WordCases
  <2>4. ASSUME NEW p \in Bit, NEW l \in Level, NEW i \in ID
        PROVE  /\ COUNT'[p][l][i] = COUNT[p][l][i]
               /\ FLAG'[p][l][i] = IF w = Flag(p, l, i) THEN v ELSE FLAG[p][l][i]
               /\ w # Count(p, l, i)
    <3>1. FLAG'[p][l][i] = IF p = q /\ l = k /\ i = j THEN v ELSE FLAG[p][l][i]
      <4>1. PICK A \in [Bit -> [Level -> [ID -> Bit]]] : A = FLAG
        BY <1>3
      <4>2. [A EXCEPT ![q][k][j] = v][p][l][i] = IF p = q /\ l = k /\ i = j THEN v ELSE A[p][l][i]
        OBVIOUS
      <4> QED
        BY <2>1, <4>1, <4>2, Zenon
    <3>2. w = Flag(p, l, i) <=> p = q /\ l = k /\ i = j
      BY <2>3, WordFacts
    <3>3. w # Count(p, l, i)
      BY <2>3, WordFacts
    <3> QED
      BY <2>1, <3>1, <3>2, <3>3
  <2>5. UNCHANGED <<TURN, locals, history>>
    BY <1>1 DEF Commit
  <2>6. ASSUME NEW p \in Bit, NEW l \in Level, NEW i \in ID
        PROVE  /\ FLAG'[p][l][i] = IF buffer[x][1].word = Flag(p, l, i)
                                   THEN buffer[x][1].value ELSE FLAG[p][l][i]
               /\ COUNT'[p][l][i] = IF buffer[x][1].word = Count(p, l, i)
                                    THEN buffer[x][1].value ELSE COUNT[p][l][i]
    BY <1>2, <2>4
  <2> QED
    BY <1>3, <2>1, <2>2, <2>5, <2>6
<1>5. CASE w.array = "COUNT"
  <2>1. COUNT' = [COUNT EXCEPT ![q][k][j] = v] /\ FLAG' = FLAG
    BY <1>1, <1>2, <1>3, <1>5 DEF Commit
  <2>2. COUNT' \in [Bit -> [Level -> [ID -> Bit]]]
    <3>1. PICK A \in [Bit -> [Level -> [ID -> Bit]]] : A = COUNT
      BY <1>3
    <3>2. [A EXCEPT ![q][k][j] = v] \in [Bit -> [Level -> [ID -> Bit]]]
      OBVIOUS
    <3> QED
      BY <2>1, <3>1, <3>2, Zenon
  <2>3. w = Count(q, k, j)
    BY <1>3, <1>5, WordCases
  <2>4. ASSUME NEW p \in Bit, NEW l \in Level, NEW i \in ID
        PROVE  /\ FLAG'[p][l][i] = FLAG[p][l][i]
               /\ COUNT'[p][l][i] = IF w = Count(p, l, i) THEN v ELSE COUNT[p][l][i]
               /\ w # Flag(p, l, i)
    <3>1. COUNT'[p][l][i] = IF p = q /\ l = k /\ i = j THEN v ELSE COUNT[p][l][i]
      <4>1. PICK A \in [Bit -> [Level -> [ID -> Bit]]] : A = COUNT
        BY <1>3
      <4>2. [A EXCEPT ![q][k][j] = v][p][l][i] = IF p = q /\ l = k /\ i = j THEN v ELSE A[p][l][i]
        OBVIOUS
      <4> QED
        BY <2>1, <4>1, <4>2, Zenon
    <3>2. w = Count(p, l, i) <=> p = q /\ l = k /\ i = j
      BY <2>3, WordFacts
    <3>3. w # Flag(p, l, i)
      BY <2>3, WordFacts
    <3> QED
      BY <2>1, <3>1, <3>2, <3>3
  <2>5. UNCHANGED <<TURN, locals, history>>
    BY <1>1 DEF Commit
  <2>6. ASSUME NEW p \in Bit, NEW l \in Level, NEW i \in ID
        PROVE  /\ FLAG'[p][l][i] = IF buffer[x][1].word = Flag(p, l, i)
                                   THEN buffer[x][1].value ELSE FLAG[p][l][i]
               /\ COUNT'[p][l][i] = IF buffer[x][1].word = Count(p, l, i)
                                    THEN buffer[x][1].value ELSE COUNT[p][l][i]
    BY <1>2, <2>4
  <2> QED
    BY <1>3, <2>1, <2>2, <2>5, <2>6
<1> QED
  BY <1>4, <1>5, WordCases

(* A store that reaches memory has been counted in the settled words.      *)
LEMMA DrainSettles ==
  ASSUME TSOTypeOK, OwnStores, \A t \in Child : LinkStores(t), NEW x \in ID, Drain(x)
  PROVE  SettledFlag' = SettledFlag /\ SettledCount' = SettledCount
<1>1. PICK w \in Word, v \in Bit : w = buffer[x][1].word /\ v = buffer[x][1].value
  BY DrainFacts
<1>2. PICK N \in Nat \ {0} :
        /\ \A y \in ID : y # x => buffer'[y] = buffer[y]
        /\ DOMAIN buffer[x] = 1 .. N
        /\ DOMAIN buffer'[x] = 1 .. N - 1
        /\ \A n \in 1 .. N - 1 : buffer'[x][n] = buffer[x][n + 1]
  BY DrainFacts
<1>3. \A p \in Bit, l \in Level, i \in ID :
        /\ FLAG'[p][l][i] = IF w = Flag(p, l, i) THEN v ELSE FLAG[p][l][i]
        /\ COUNT'[p][l][i] = IF w = Count(p, l, i) THEN v ELSE COUNT[p][l][i]
  BY <1>1, DrainMemory
<1>4. /\ 1 \in DOMAIN buffer[x]
      /\ \A n \in 1 .. N - 1 : n + 1 \in 1 .. N
      /\ \A n \in 1 .. N : n = 1 \/ n - 1 \in 1 .. N - 1
  BY <1>2
<1>5. ASSUME NEW p \in Bit, NEW l \in Level, NEW i \in ID
      PROVE  Raised(p, l, i)' <=> Raised(p, l, i)
  <2>0. PICK f : f = Flag(p, l, i)
    OBVIOUS
  <2>1. CASE i # x
    <3>1. w # f
      BY <1>1, <1>4, <2>0, <2>1, OwnerFacts
    <3> QED
      BY <1>2, <1>3, <2>0, <2>1, <3>1 DEF Raised, RaisedAfter
  <2>2. CASE i = x
    <3>1. ASSUME NEW n \in 1 .. N
          PROVE  RaisedAfter(f, x, n) <=> RaisedAfter(f, x, n - 1)'
      <4>1. ASSUME RaisedAfter(f, x, n), NEW k \in DOMAIN buffer'[x], k > n - 1, buffer'[x][k].word = f
            PROVE  buffer'[x][k].value = 1
        <5>1. k + 1 \in DOMAIN buffer[x] /\ k + 1 > n /\ buffer'[x][k] = buffer[x][k + 1]
          BY <1>2, <4>1
        <5> QED
          BY <4>1, <5>1 DEF RaisedAfter
      <4>2. ASSUME RaisedAfter(f, x, n - 1)', NEW k \in DOMAIN buffer[x], k > n, buffer[x][k].word = f
            PROVE  buffer[x][k].value = 1
        <5>1. k - 1 \in DOMAIN buffer'[x] /\ k - 1 > n - 1 /\ k - 1 + 1 = k
          BY <1>2, <4>2
        <5>2. buffer'[x][k - 1] = buffer[x][k]
          BY <1>2, <5>1
        <5> QED
          BY <4>2, <5>1, <5>2 DEF RaisedAfter
      <4> QED
        BY <4>1, <4>2 DEF RaisedAfter
    <3>2. RaisedAfter(f, x, 0) <=> RaisedAfter(f, x, 1) /\ (w = f => v = 1)
      BY <1>1, <1>2, <1>4 DEF RaisedAfter
    <3>3. RaisedAfter(f, x, 0)' <=> RaisedAfter(f, x, 1)
      BY <1>2, <3>1
    <3>4. \A n \in 1 .. N - 1 : RaisedAfter(f, x, n)' <=> RaisedAfter(f, x, n + 1)
      BY <1>2, <1>4, <3>1
    <3>5. Raised(p, l, x)' <=>
            \/ (IF w = f THEN v ELSE FLAG[p][l][x]) = 1 /\ RaisedAfter(f, x, 1)
            \/ \E n \in 1 .. N - 1 : /\ buffer[x][n + 1].word = f /\ buffer[x][n + 1].value = 1
                                     /\ RaisedAfter(f, x, n + 1)
      <4>1. Raised(p, l, x)' <=>
              \/ FLAG'[p][l][x] = 1 /\ RaisedAfter(f, x, 0)'
              \/ \E n \in 1 .. N - 1 : /\ buffer'[x][n].word = f /\ buffer'[x][n].value = 1
                                       /\ RaisedAfter(f, x, n)'
        BY <1>2, <2>0, <2>2 DEF Raised
      <4>2. FLAG'[p][l][x] = IF w = f THEN v ELSE FLAG[p][l][x]
        BY <1>3, <2>0, <2>2
      <4>3. ASSUME NEW n \in 1 .. N - 1
            PROVE  buffer'[x][n] = buffer[x][n + 1] /\ (RaisedAfter(f, x, n)' <=> RaisedAfter(f, x, n + 1))
        BY <1>2, <3>4
      <4> QED
        BY <3>3, <4>1, <4>2, <4>3
    <3>6. Raised(p, l, x) <=>
            \/ FLAG[p][l][x] = 1 /\ RaisedAfter(f, x, 0)
            \/ \E n \in 1 .. N : /\ buffer[x][n].word = f /\ buffer[x][n].value = 1
                                 /\ RaisedAfter(f, x, n)
      BY <1>2, <2>0, <2>2 DEF Raised
    <3>7. (\E n \in 1 .. N : /\ buffer[x][n].word = f /\ buffer[x][n].value = 1
                             /\ RaisedAfter(f, x, n)) <=>
            \/ w = f /\ v = 1 /\ RaisedAfter(f, x, 1)
            \/ \E n \in 1 .. N - 1 : /\ buffer[x][n + 1].word = f /\ buffer[x][n + 1].value = 1
                                     /\ RaisedAfter(f, x, n + 1)
      <4>1. ASSUME NEW n \in 1 .. N - 1, buffer[x][n + 1].word = f,
                   buffer[x][n + 1].value = 1, RaisedAfter(f, x, n + 1)
            PROVE  \E k \in 1 .. N : /\ buffer[x][k].word = f /\ buffer[x][k].value = 1
                                     /\ RaisedAfter(f, x, k)
        <5>1. n + 1 \in 1 .. N
          BY <1>4
        <5> QED BY <4>1, <5>1
      <4>2. ASSUME NEW n \in 1 .. N, n # 1, buffer[x][n].word = f,
                   buffer[x][n].value = 1, RaisedAfter(f, x, n)
            PROVE  \E k \in 1 .. N - 1 : /\ buffer[x][k + 1].word = f /\ buffer[x][k + 1].value = 1
                                         /\ RaisedAfter(f, x, k + 1)
        <5>1. n - 1 \in 1 .. N - 1 /\ (n - 1) + 1 = n
          BY <1>4, <4>2
        <5> QED BY <4>2, <5>1
      <4> QED
        BY <1>1, <1>2, <1>4, <4>1, <4>2
    <3> QED
      BY <2>2, <3>2, <3>5, <3>6, <3>7
  <2> QED
    BY <2>1, <2>2
<1>6. ASSUME NEW p \in Bit, NEW l \in Level, NEW i \in ID
      PROVE  Announced(p, l, i)' <=> Announced(p, l, i)
  <2>0. PICK c : c = Count(p, l, i)
    OBVIOUS
  <2>1. ASSUME NEW b
        PROVE  PendingCount(p, l, i, b) <=> PendingCount(p, l, i, b)' \/ (w = c /\ v = b)
    <3>1. PendingCount(p, l, i, b)' => PendingCount(p, l, i, b)
      BY <1>2, <1>4 DEF PendingCount
    <3>2. w = c /\ v = b => PendingCount(p, l, i, b)
      BY <1>1, <1>4, <2>0 DEF PendingCount
    <3>3. ASSUME PendingCount(p, l, i, b), ~(w = c /\ v = b)
          PROVE  PendingCount(p, l, i, b)'
      <4>0. PICK y \in ID : \E n \in DOMAIN buffer[y] : buffer[y][n].word = c /\ buffer[y][n].value = b
        BY <2>0, <3>3 DEF PendingCount
      <4>1. PICK n \in DOMAIN buffer[y] : buffer[y][n].word = c /\ buffer[y][n].value = b
        BY <4>0
      <4>2. CASE y # x
        BY <1>2, <2>0, <4>1, <4>2 DEF PendingCount
      <4>3. CASE y = x
        <5>1. n - 1 \in 1 .. N - 1 /\ n - 1 + 1 = n
          BY <1>1, <1>2, <1>4, <3>3, <4>1, <4>3
        <5>2. buffer'[x][n - 1].word = c /\ buffer'[x][n - 1].value = b
          BY <1>2, <4>1, <4>3, <5>1
        <5> QED
          BY <1>2, <2>0, <5>1, <5>2 DEF PendingCount
      <4> QED
        BY <4>2, <4>3
    <3> QED
      BY <3>1, <3>2, <3>3
  <2>2. CASE w # c
    BY <1>3, <2>0, <2>1, <2>2 DEF Announced
  <2>3. CASE w = c
    <3>1. /\ i \in Child /\ l = WaitLevel(i)
          /\ (x = i /\ v = 1) \/ (x = Parent(i) /\ v = 0)
      <4>1. 1 \in DOMAIN buffer[x] /\ buffer[x][1].word = Count(p, l, i) /\ buffer[x][1].value = v
        BY <1>1, <1>4, <2>0, <2>3
      <4> QED
        BY <4>1, OwnerFacts
    <3>2. ~(PendingCount(p, l, i, 0) /\ PendingCount(p, l, i, 1))
      <4> SUFFICES ASSUME PendingCount(p, l, i, 0), PendingCount(p, l, i, 1) PROVE FALSE
        OBVIOUS
      <4>a. PICK y \in ID : \E n \in DOMAIN buffer[y] : buffer[y][n].word = c /\ buffer[y][n].value = 0
        BY <2>0 DEF PendingCount
      <4>b. PICK z \in ID : \E k \in DOMAIN buffer[z] : buffer[z][k].word = c /\ buffer[z][k].value = 1
        BY <2>0 DEF PendingCount
      <4>1. PICK n \in DOMAIN buffer[y] : buffer[y][n].word = c /\ buffer[y][n].value = 0
        BY <4>a
      <4>2. PICK k \in DOMAIN buffer[z] : buffer[z][k].word = c /\ buffer[z][k].value = 1
        BY <4>b
      <4>3. y = Parent(i) /\ z = i
        BY <2>0, <4>1, <4>2, OwnerFacts
      <4>4. c = CountFrom(i, p)
        BY <2>0, <3>1 DEF CountFrom
      <4>5. p = Phase(i) /\ calls[i] # Releases(i) /\ ~Collected(i)
        BY <3>1, <4>2, <4>3, <4>4 DEF LinkStores, ArrivalPending
      <4>6. Unseen(i) \/ Collected(i)
        BY <3>1, <4>1, <4>3, <4>4 DEF LinkStores, ClearPending
      <4> QED
        BY <4>5, <4>6 DEF Unseen
    <3>3. COUNT'[p][l][i] = v
      BY <1>3, <2>0, <2>3
    <3> QED
      BY <2>1, <2>3, <3>1, <3>2, <3>3 DEF Announced
  <2> QED
    BY <2>2, <2>3
<1>7. \A p \in Bit, l \in Level, i \in ID : SettledFlag'[p][l][i] = SettledFlag[p][l][i]
  BY <1>5, SettledValue
<1>8. \A p \in Bit, l \in Level, i \in ID : SettledCount'[p][l][i] = SettledCount[p][l][i]
  BY <1>6, SettledValue
<1> QED
  BY <1>7, <1>8, SettledTypes, SameWords

-----------------------------------------------------------------------------
(* The stores between a thread and its master. *)

LEMMA LinkWordFacts ==
  ASSUME NEW t \in Child
  PROVE  /\ \A p \in Bit : /\ CountFrom(t, p) = Count(p, WaitLevel(t), t)
                          /\ FlagTo(t, p) = Flag(p, WaitLevel(t), Parent(t))
                          /\ CountFrom(t, p) \in Word /\ FlagTo(t, p) \in Word
         /\ \A p, q \in Bit : /\ CountFrom(t, p) = CountFrom(t, q) <=> p = q
                             /\ FlagTo(t, p) = FlagTo(t, q) <=> p = q
                             /\ CountFrom(t, p) # FlagTo(t, q)
         /\ \A p \in Bit, l \in Level, i \in ID :
              /\ Count(p, l, i) # FlagTo(t, p) /\ Flag(p, l, i) # CountFrom(t, p)
              /\ i # t => \A q \in Bit : Count(p, l, i) # CountFrom(t, q)
              /\ i # Parent(t) \/ l # WaitLevel(t) => \A q \in Bit : Flag(p, l, i) # FlagTo(t, q)
BY TreeFacts, WordFacts DEF CountFrom, FlagTo

LEMMA PhaseOf ==
  ASSUME NEW t, NEW p, NEW q
  PROVE  /\ CountFrom(t, p) = CountFrom(t, q) => p = q
         /\ FlagTo(t, p) = FlagTo(t, q) => p = q
         /\ CountFrom(t, p) # FlagTo(t, q)
<1>1. CountFrom(t, p).phase = p /\ CountFrom(t, q).phase = q /\ CountFrom(t, p).array = "COUNT"
  BY WordFields DEF CountFrom
<1>2. FlagTo(t, p).phase = p /\ FlagTo(t, q).phase = q /\ FlagTo(t, q).array = "FLAG"
  BY WordFields DEF FlagTo
<1> QED
  BY <1>1, <1>2

(* Who can have a store to a word between t and its master waiting, and    *)
(* what it stores.                                                         *)
LEMMA LinkOwner ==
  ASSUME OwnStores, NEW t \in Child, NEW y \in ID, NEW n \in DOMAIN buffer[y], NEW p \in Bit
  PROVE  /\ buffer[y][n].word = FlagTo(t, p) => y = Parent(t)
         /\ buffer[y][n].word = CountFrom(t, p) =>
              (y = t /\ buffer[y][n].value = 1) \/ (y = Parent(t) /\ buffer[y][n].value = 0)
BY LinkWordFacts, OwnerFacts

(* Nothing is on its way between t and its master. *)
Quiet(t) ==
  \A p \in Bit :
    /\ \A n \in DOMAIN buffer[t] : buffer[t][n].word # CountFrom(t, p)
    /\ \A n \in DOMAIN buffer[Parent(t)] :
         buffer[Parent(t)][n].word # CountFrom(t, p) /\ buffer[Parent(t)][n].word # FlagTo(t, p)

LEMMA QuietLink ==
  ASSUME NEW t \in Child, Quiet(t)'
  PROVE  LinkStores(t)'
BY DEF Quiet, LinkStores, ArrivalPending, ClearPending, LoweringPending, RaisePending, RaiseComesLast

(* No store to a word between t and its master is added to buffer y. *)
NoNewStore(y, t) ==
  /\ DOMAIN buffer[y] \subseteq DOMAIN buffer'[y]
  /\ \A n \in DOMAIN buffer[y] : buffer'[y][n] = buffer[y][n]
  /\ \A n \in DOMAIN buffer'[y] : n \in DOMAIN buffer[y] \/
        \A p \in Bit : buffer'[y][n].word # CountFrom(t, p) /\ buffer'[y][n].word # FlagTo(t, p)

LEMMA QuietFrame ==
  ASSUME NEW t \in Child, Quiet(t), NoNewStore(t, t), NoNewStore(Parent(t), t)
  PROVE  Quiet(t)'
BY DEF Quiet, NoNewStore

(* What links the stores of t and its master depends on how the two stand, *)
(* on the words between them and on the stores to these words.             *)
LEMMA LinkFrame ==
  ASSUME NEW t \in Child, LinkStores(t), NoNewStore(t, t), NoNewStore(Parent(t), t),
         pc'[t] = pc[t], calls'[t] = calls[t], Phase(t)' = Phase(t),
         Releases(t)' = Releases(t), Collected(t)' <=> Collected(t), Collecting(t)' => Collecting(t),
         (pc[Parent(t)] = "set_flag" /\ LEVEL[Parent(t)] = WaitLevel(t)) =>
           (pc'[Parent(t)] = "set_flag" /\ LEVEL'[Parent(t)] = WaitLevel(t)),
         FLAG' = FLAG, COUNT' = COUNT
  PROVE  LinkStores(t)'
<1>0. Unseen(t)' <=> Unseen(t)
  BY DEF Unseen
<1>w. \A p : Other(p)' = Other(p)
  BY DEF Other
<1>1. ArrivalPending(t)'
  BY <1>w DEF ArrivalPending, NoNewStore, LinkStores
<1>2. ClearPending(t)'
  BY <1>0, <1>w DEF ClearPending, NoNewStore, LinkStores
<1>3. LoweringPending(t)'
  BY <1>0, <1>w DEF LoweringPending, NoNewStore, LinkStores
<1>4. RaisePending(t)'
  BY <1>0 DEF RaisePending, NoNewStore, LinkStores
<1>5. RaiseComesLast(t)'
  BY <1>0 DEF RaiseComesLast, NoNewStore, LinkStores
<1> QED
  BY <1>1, <1>2, <1>3, <1>4, <1>5 DEF LinkStores

(* A thread that does not wait has nothing on its way. *)
LEMMA QuietUnlessWaiting ==
  ASSUME TSOInv, NEW t \in Child, pc[t] # "await_flag"
  PROVE  Quiet(t)
<1>1. TSOTypeOK /\ OwnStores /\ LinkStores(t) /\ ~Unseen(t) /\ t \in ID /\ Parent(t) \in ID
  BY TreeFacts DEF TSOInv, Unseen
<1>2. ~Collected(t)
  BY SettledFacts DEF TSOInv, InStep
<1>3. ASSUME NEW p \in Bit, NEW n \in DOMAIN buffer[t], buffer[t][n].word = CountFrom(t, p)
      PROVE  FALSE
  BY <1>1, <1>3 DEF LinkStores, ArrivalPending
<1>4. ASSUME NEW p \in Bit, NEW n \in DOMAIN buffer[Parent(t)],
             buffer[Parent(t)][n].word = CountFrom(t, p)
      PROVE  FALSE
  BY <1>1, <1>2, <1>4 DEF LinkStores, ClearPending
<1>5. ASSUME NEW p \in Bit, NEW n \in DOMAIN buffer[Parent(t)],
             buffer[Parent(t)][n].word = FlagTo(t, p)
      PROVE  FALSE
  <2>1. buffer[Parent(t)][n].value = 0 \/ buffer[Parent(t)][n].value = 1
    BY <1>1, EntryFacts
  <2> QED
    BY <1>1, <1>2, <1>5, <2>1 DEF LinkStores, LoweringPending, RaisePending
<1> QED
  BY <1>3, <1>4, <1>5 DEF Quiet

-----------------------------------------------------------------------------
(* What a thread can conclude from a load. *)

LEMMA LinkFacts ==
  ASSUME TSOInv, NEW t \in Child
  PROVE  /\ TSOTypeOK /\ TypeOK /\ Control /\ OwnStores /\ LinkStores(t)
         /\ InStep(t) /\ ControlOf(t) /\ ControlOf(Parent(t))
         /\ t \in ID /\ Parent(t) \in ID /\ Parent(t) # t
         /\ WaitLevel(t) \in Level /\ WaitLevel(t) \in Nat /\ Place(t) \in Nat \ {0}
         /\ calls[t] \in Nat /\ returns[t] \in Nat
         /\ calls[Parent(t)] \in Nat /\ returns[Parent(t)] \in Nat
         /\ TURN[t] \in Bit /\ TURN[Parent(t)] \in Bit
         /\ Phase(t) \in Bit /\ Phase(Parent(t)) \in Bit
         /\ LEVEL[Parent(t)] \in Nat /\ SET[Parent(t)] \in Nat
         /\ WaitLevel(t) < WaitLevel(Parent(t)) /\ WaitLevel(Parent(t)) \in Nat
<1>1. TSOTypeOK /\ TypeOK /\ Control /\ OwnStores /\ LinkStores(t) /\ InStep(t)
  BY SettledFacts DEF TSOInv, TSOTypeOK
<1>2. t \in ID /\ Parent(t) \in ID
  BY TreeFacts
<1>3. ControlOf(t) /\ ControlOf(Parent(t)) /\ returns[t] \in Nat
  BY <1>1, <1>2 DEF Control, TypeOK
<1>4. Phase(t) \in Bit /\ Phase(Parent(t)) \in Bit
  BY <1>1, <1>2, PhaseType
<1> QED
  BY <1>1, <1>2, <1>3, <1>4, LinkTypes

(* Once settled, the release word of the phase t waits in is up exactly    *)
(* when its master has released it.                                        *)
LEMMA SettledRelease ==
  ASSUME TSOInv, NEW t \in Child, pc[t] = "await_flag"
  PROVE  SettledFlag[Phase(t)][WaitLevel(t)][Parent(t)] = IF Unseen(t) THEN 1 ELSE 0
<1>1. SettledFlag[Phase(t)][WaitLevel(t)][Parent(t)] =
        IF /\ Phase(t) = (IF Releases(t) = calls[Parent(t)] THEN Phase(Parent(t))
                                                      ELSE Other(Phase(Parent(t))))
           /\ Releases(t) > 0
           /\ ~(pc[Parent(t)] = "set_flag" /\ LEVEL[Parent(t)] = WaitLevel(t))
        THEN 1 ELSE 0
  BY LinkFacts, SettledFacts DEF TSOInv
<1>2. /\ calls[t] = returns[t] + 1
      /\ calls[t] \in {Releases(t), Releases(t) + 1}
      /\ TURN[t] = IF calls[t] = calls[Parent(t)] THEN TURN[Parent(t)] ELSE 1 - TURN[Parent(t)]
      /\ Releases(t) \in {calls[Parent(t)], returns[Parent(t)]}
      /\ calls[Parent(t)] \in {returns[Parent(t)], returns[Parent(t)] + 1}
      /\ (pc[Parent(t)] = "set_flag" /\ LEVEL[Parent(t)] = WaitLevel(t)) =>
           calls[t] = calls[Parent(t)] /\ Releases(t) # calls[Parent(t)]
  BY LinkFacts DEF ControlOf, InStep, Releases, Releasing, Collected
<1>3. /\ calls[t] \in Nat /\ returns[t] \in Nat
      /\ calls[Parent(t)] \in Nat /\ returns[Parent(t)] \in Nat
      /\ TURN[t] \in {0, 1} /\ TURN[Parent(t)] \in {0, 1}
  BY LinkFacts DEF Bit
<1>4. Phase(t) = 1 - TURN[t] /\ Phase(Parent(t)) = 1 - TURN[Parent(t)]
      /\ Other(Phase(Parent(t))) = TURN[Parent(t)]
  BY <1>3 DEF Phase, Other
<1>5. Unseen(t) <=> calls[t] = Releases(t)
  BY DEF Unseen
<1> QED
  BY <1>1, <1>2, <1>3, <1>4, <1>5

(* When memory shows t its release, everything its master stored before is *)
(* in memory too.                                                          *)
LEMMA ReleaseSeen ==
  ASSUME TSOInv, NEW t \in Child, pc[t] = "await_flag",
         FLAG[Phase(t)][WaitLevel(t)][Parent(t)] = 1
  PROVE  Unseen(t) /\ Quiet(t)
<1>1. OwnStores /\ TSOTypeOK /\ LinkStores(t) /\ t \in ID /\ Parent(t) \in ID
      /\ Phase(t) \in Bit /\ WaitLevel(t) \in Level
  BY LinkFacts
<1>2. Unseen(t)
  <2> SUFFICES ASSUME ~Unseen(t) PROVE FALSE
    OBVIOUS
  <2>1. ~Raised(Phase(t), WaitLevel(t), Parent(t))
    BY <1>1, SettledRelease, SettledValue
  <2>2. PICK n \in DOMAIN buffer[Parent(t)] :
          buffer[Parent(t)][n].word = FlagTo(t, Phase(t)) /\ buffer[Parent(t)][n].value # 1
    BY <2>1 DEF Raised, RaisedAfter, FlagTo
  <2>3. buffer[Parent(t)][n].value = 0
    BY <1>1, <2>2, EntryFacts
  <2>4. Phase(t) = Other(Phase(t))
    BY <1>1, <2>2, <2>3 DEF LinkStores, LoweringPending
  <2> QED
    BY <1>1, <2>4 DEF Other, Bit
<1>3. ASSUME NEW p \in Bit, NEW n \in DOMAIN buffer[Parent(t)],
             buffer[Parent(t)][n].word \in {CountFrom(t, p), FlagTo(t, p)}
      PROVE  FALSE
  <2>1. PICK k \in DOMAIN buffer[Parent(t)] :
          buffer[Parent(t)][k].word = FlagTo(t, Phase(t)) /\ buffer[Parent(t)][k].value = 1
    BY <1>1, <1>2, <1>3 DEF LinkStores, RaiseComesLast
  <2> QED
    BY <1>1, <2>1 DEF LinkStores, RaisePending
<1>4. ASSUME NEW p \in Bit, NEW n \in DOMAIN buffer[t], buffer[t][n].word = CountFrom(t, p)
      PROVE  FALSE
  BY <1>1, <1>2, <1>4 DEF LinkStores, ArrivalPending, Unseen
<1> QED
  BY <1>2, <1>3, <1>4 DEF Quiet

LEMMA FlagLoad ==
  ASSUME TSOInv, NEW t \in Child, NEW v, Load(t, Flag(Phase(t), WaitLevel(t), Parent(t)), v)
  PROVE  v = FLAG[Phase(t)][WaitLevel(t)][Parent(t)]
<1>1. OwnStores /\ t \in ID /\ Parent(t) # t
  BY LinkFacts
<1>2. \A n \in DOMAIN buffer[t] : buffer[t][n].word # Flag(Phase(t), WaitLevel(t), Parent(t))
  BY <1>1, OwnerFacts
<1> QED
  BY <1>2, WordFields DEF Load, Memory

(* A master that loads an arrival finds it in memory, with nothing on its  *)
(* way to that word.                                                       *)
LEMMA CountLoad ==
  ASSUME TSOInv, NEW c \in Child, NEW p \in Bit, Load(Parent(c), Count(p, WaitLevel(c), c), 1)
  PROVE  /\ COUNT[p][WaitLevel(c)][c] = 1
         /\ SettledCount[p][WaitLevel(c)][c] = 1
<1>1. OwnStores /\ c \in ID /\ Parent(c) \in ID /\ Parent(c) # c /\ WaitLevel(c) \in Level
  BY LinkFacts
<1>2. \A n \in DOMAIN buffer[Parent(c)] :
        buffer[Parent(c)][n].word = Count(p, WaitLevel(c), c) => buffer[Parent(c)][n].value = 0
  BY <1>1, OwnerFacts
<1>3. /\ \A n \in DOMAIN buffer[Parent(c)] : buffer[Parent(c)][n].word # Count(p, WaitLevel(c), c)
      /\ 1 = Memory(Count(p, WaitLevel(c), c))
  BY <1>2 DEF Load
<1>4. COUNT[p][WaitLevel(c)][c] = 1
  BY <1>3, WordFields DEF Memory
<1>5. ~PendingCount(p, WaitLevel(c), c, 0)
  <2> SUFFICES ASSUME NEW y \in ID, NEW n \in DOMAIN buffer[y],
                      buffer[y][n].word = Count(p, WaitLevel(c), c), buffer[y][n].value = 0
               PROVE  FALSE
    BY DEF PendingCount
  <2>1. y = Parent(c)
    BY <1>1, OwnerFacts
  <2> QED
    BY <1>3, <2>1
<1> QED
  BY <1>1, <1>4, <1>5, SettledValue DEF Announced

-----------------------------------------------------------------------------
(* Each step, seen on the settled words, is the step of GroupBarrier.      *)

LEMMA EnterClimbMap ==
  ASSUME NEW x \in ID, UNCHANGED buffer
  PROVE  (Enter(x) => InOrder!Enter(x)) /\ (Climb(x) => InOrder!Climb(x))
<1>1. ASSUME Enter(x) PROVE InOrder!Enter(x)
  <2>1. SettledFlag' = SettledFlag /\ SettledCount' = SettledCount
    BY <1>1, SettledFrame DEF Enter
  <2> QED
    BY <1>1, <2>1 DEF Enter, Goto, EnterLevel, InOrder!Enter, InOrder!Goto, InOrder!EnterLevel
<1>2. ASSUME Climb(x) PROVE InOrder!Climb(x)
  <2>1. SettledFlag' = SettledFlag /\ SettledCount' = SettledCount
    BY <1>2, SettledFrame DEF Climb, words
  <2> QED
    BY <1>2, <2>1 DEF Climb, WAITER, MoreChildren, CHILD, EnterLevel, ReleaseBelow, Goto, words,
       InOrder!Climb, InOrder!WAITER, InOrder!MoreChildren, InOrder!CHILD, InOrder!EnterLevel,
       InOrder!ReleaseBelow, InOrder!Goto, InOrder!words
<1> QED
  BY <1>1, <1>2

LEMMA SetCountMap ==
  ASSUME TSOInv, NEW x \in ID, BufferSetCount(x)
  PROVE  InOrder!SetCount(x)
<1>1. TSOTypeOK /\ Phase(x) \in Bit /\ LEVEL[x] \in Level /\ 1 \in Bit
  BY PhaseType DEF TSOInv, TSOTypeOK, TypeOK, Bit
<1>2. UNCHANGED <<TURN, FLAG, COUNT, LEVEL, SET, history>>
  BY DEF BufferSetCount, words
<1>3. /\ SettledCount' = [SettledCount EXCEPT ![Phase(x)][LEVEL[x]][x] = 1]
      /\ SettledFlag' = SettledFlag
  BY <1>1, <1>2, BufferedCount DEF BufferSetCount
<1> QED
  BY <1>2, <1>3 DEF BufferSetCount, WAITER, Phase, Goto, history,
     InOrder!SetCount, InOrder!WAITER, InOrder!Phase, InOrder!Goto, InOrder!history

LEMMA AwaitFlagMap ==
  ASSUME TSOInv, NEW x \in ID, LoadFlag(x)
  PROVE  /\ InOrder!AwaitFlag(x)
         /\ x \in Child /\ LEVEL[x] = WaitLevel(x) /\ Unseen(x) /\ Quiet(x)
<1>1. TypeOK /\ Control /\ pc[x] = "await_flag"
  BY SettledFacts DEF TSOInv, TSOTypeOK, LoadFlag
<1>2. LEVEL[x] = WaitLevel(x) /\ x \in Child /\ MASTER[LEVEL[x]][x] = Parent(x)
  BY <1>1, WaiterFacts DEF Control, ControlOf
<1>3. FLAG[Phase(x)][WaitLevel(x)][Parent(x)] = 1
  BY <1>2, FlagLoad DEF LoadFlag
<1>4. Unseen(x) /\ Quiet(x)
  BY <1>1, <1>2, <1>3, ReleaseSeen
<1>5. SettledFlag[Phase(x)][LEVEL[x]][MASTER[LEVEL[x]][x]] # 0
  BY <1>1, <1>2, <1>4, SettledRelease
<1>6. SettledFlag' = SettledFlag /\ SettledCount' = SettledCount
  BY SettledFrame DEF LoadFlag, words
<1>7. InOrder!AwaitFlag(x)
  BY <1>5, <1>6 DEF LoadFlag, Phase, ReleaseBelow, Goto, words,
     InOrder!AwaitFlag, InOrder!Phase, InOrder!ReleaseBelow, InOrder!Goto, InOrder!words
<1> QED
  BY <1>2, <1>4, <1>7

LEMMA AwaitCountMap ==
  ASSUME TSOInv, NEW x \in ID, LoadCount(x)
  PROVE  /\ InOrder!AwaitCount(x)
         /\ LEVEL[x] < WaitLevel(x) /\ CHILD(x) \in Child /\ Parent(CHILD(x)) = x
         /\ WaitLevel(CHILD(x)) = LEVEL[x] /\ Place(CHILD(x)) = SET[x]
         /\ COUNT[Phase(x)][LEVEL[x]][CHILD(x)] = 1
<1>1. TypeOK /\ Control /\ pc[x] = "gather" /\ ~WAITER(x) /\ MoreChildren(x) /\ Phase(x) \in Bit
  BY SettledFacts, PhaseType DEF TSOInv, TSOTypeOK, LoadCount
<1>2. LEVEL[x] < WaitLevel(x)
  BY <1>1, WaiterFacts DEF Climbing
<1>3. /\ CHILD(x) \in Child /\ Parent(CHILD(x)) = x
      /\ WaitLevel(CHILD(x)) = LEVEL[x] /\ Place(CHILD(x)) = SET[x]
  BY <1>1, <1>2, ChildFacts
<1>4. /\ COUNT[Phase(x)][LEVEL[x]][CHILD(x)] = 1
      /\ SettledCount[Phase(x)][LEVEL[x]][CHILD(x)] = 1
  <2>1. PICK c \in Child : c = CHILD(x)
    BY <1>3
  <2>2. Load(Parent(c), Count(Phase(x), WaitLevel(c), c), 1)
    BY <1>3, <2>1 DEF LoadCount
  <2> QED
    BY <1>1, <1>3, <2>1, <2>2, CountLoad
<1>5. SettledFlag' = SettledFlag /\ SettledCount' = SettledCount
  BY SettledFrame DEF LoadCount, words
<1>6. InOrder!AwaitCount(x)
  BY <1>4, <1>5 DEF LoadCount, WAITER, MoreChildren, CHILD, Phase, Goto, words, history,
     InOrder!AwaitCount, InOrder!WAITER, InOrder!MoreChildren, InOrder!CHILD, InOrder!Phase,
     InOrder!Goto, InOrder!words, InOrder!history
<1> QED
  BY <1>2, <1>3, <1>4, <1>6

LEMMA ClearCountMap ==
  ASSUME TSOInv, NEW x \in ID, BufferClearCount(x)
  PROVE  /\ InOrder!ClearCount(x)
         /\ LEVEL[x] < WaitLevel(x) /\ CHILD(x) \in Child /\ Parent(CHILD(x)) = x
         /\ WaitLevel(CHILD(x)) = LEVEL[x] /\ Place(CHILD(x)) = SET[x]
         /\ Collecting(CHILD(x))
<1>1. TSOTypeOK /\ TypeOK /\ Control /\ OwnStores /\ pc[x] = "clear_count"
  BY SettledFacts DEF TSOInv, TSOTypeOK, BufferClearCount
<1>2. LEVEL[x] < WaitLevel(x) /\ MoreChildren(x)
  BY <1>1 DEF Control, ControlOf
<1>3. /\ CHILD(x) \in Child /\ Parent(CHILD(x)) = x
      /\ WaitLevel(CHILD(x)) = LEVEL[x] /\ Place(CHILD(x)) = SET[x]
  BY <1>1, <1>2, ChildFacts
<1>4. PICK c \in Child : c = CHILD(x)
  BY <1>3
<1>5. Collecting(c)
  BY <1>1, <1>3, <1>4 DEF Collecting
<1>6. PICK q \in Bit : q = Other(Phase(x))
  BY <1>1, PhaseType
<1>7. c \in ID /\ LEVEL[x] \in Level /\ 0 \in Bit
  BY <1>1, TreeFacts DEF TypeOK, Bit
<1>8. ~PendingCount(q, LEVEL[x], c, 1)
  <2> SUFFICES ASSUME NEW y \in ID, NEW n \in DOMAIN buffer[y],
                      buffer[y][n].word = Count(q, LEVEL[x], c), buffer[y][n].value = 1
               PROVE  FALSE
    BY DEF PendingCount
  <2>1. y = c
    BY <1>1, OwnerFacts
  <2>2. buffer[c][n].word = CountFrom(c, q)
    BY <1>3, <1>4, <2>1 DEF CountFrom
  <2> QED
    BY <1>5, <2>1, <2>2, LinkFacts DEF LinkStores, ArrivalPending
<1>9. UNCHANGED <<TURN, FLAG, COUNT, LEVEL, history>>
  BY DEF BufferClearCount, words
<1>10. /\ SettledCount' = [SettledCount EXCEPT ![q][LEVEL[x]][c] = 0]
       /\ SettledFlag' = SettledFlag
  BY <1>1, <1>4, <1>6, <1>7, <1>8, <1>9, BufferedCount DEF BufferClearCount
<1>11. InOrder!ClearCount(x)
  BY <1>4, <1>6, <1>9, <1>10 DEF BufferClearCount, CHILD, Phase, Other, Goto, history,
     InOrder!ClearCount, InOrder!CHILD, InOrder!Phase, InOrder!Other, InOrder!Goto, InOrder!history
<1> QED
  BY <1>2, <1>3, <1>4, <1>5, <1>11

LEMMA ResetFlagMap ==
  ASSUME TSOInv, NEW x \in ID, BufferResetFlag(x)
  PROVE  InOrder!ResetFlag(x)
<1>1. TSOTypeOK /\ Other(Phase(x)) \in Bit /\ LEVEL[x] \in Level /\ 0 \in Bit
  BY PhaseType DEF TSOInv, TSOTypeOK, TypeOK, Bit
<1>2. UNCHANGED <<TURN, FLAG, COUNT, LEVEL, SET, history>>
  BY DEF BufferResetFlag, words
<1>3. /\ SettledFlag' = [SettledFlag EXCEPT ![Other(Phase(x))][LEVEL[x]][x] = 0]
      /\ SettledCount' = SettledCount
  BY <1>1, <1>2, BufferedFlag DEF BufferResetFlag
<1> QED
  BY <1>2, <1>3 DEF BufferResetFlag, Phase, Other, Goto, history,
     InOrder!ResetFlag, InOrder!Phase, InOrder!Other, InOrder!Goto, InOrder!history

LEMMA SetFlagMap ==
  ASSUME TSOInv, NEW x \in ID, BufferSetFlag(x)
  PROVE  InOrder!SetFlag(x)
<1>1. TSOTypeOK /\ Phase(x) \in Bit /\ LEVEL[x] \in Level /\ 1 \in Bit
  BY PhaseType DEF TSOInv, TSOTypeOK, TypeOK, Bit
<1>2. UNCHANGED <<TURN, FLAG, COUNT, SET, calls>>
  BY DEF BufferSetFlag, words
<1>3. /\ SettledFlag' = [SettledFlag EXCEPT ![Phase(x)][LEVEL[x]][x] = 1]
      /\ SettledCount' = SettledCount
  BY <1>1, <1>2, BufferedFlag DEF BufferSetFlag
<1> QED
  BY <1>2, <1>3 DEF BufferSetFlag, Phase, ReleaseBelow, Goto,
     InOrder!SetFlag, InOrder!Phase, InOrder!ReleaseBelow, InOrder!Goto

LEMMA DrainMap ==
  ASSUME TSOInv, NEW x \in ID, Drain(x)
  PROVE  UNCHANGED InOrder!vars
<1>1. SettledFlag' = SettledFlag /\ SettledCount' = SettledCount
  BY DrainSettles DEF TSOInv
<1>2. UNCHANGED <<TURN, locals, history>>
  BY DrainMemory DEF TSOInv
<1> QED
  BY <1>1, <1>2 DEF locals, history, InOrder!vars, InOrder!words, InOrder!locals, InOrder!history

(* Every step is a step of GroupBarrier on the settled words, or leaves    *)
(* them and the threads alone.                                             *)
LEMMA StepMap == TSOInv /\ [TSONext]_tsoVars => [InOrder!Next]_(InOrder!vars)
<1> SUFFICES ASSUME TSOInv, [TSONext]_tsoVars PROVE InOrder!Next \/ UNCHANGED InOrder!vars
  OBVIOUS
<1>1. CASE UNCHANGED tsoVars
  <2>1. SettledFlag' = SettledFlag /\ SettledCount' = SettledCount
    BY <1>1, SettledFrame DEF tsoVars, vars, words
  <2> QED
    BY <1>1, <2>1 DEF tsoVars, vars, words, locals, history,
       InOrder!vars, InOrder!words, InOrder!locals, InOrder!history
<1>2. ASSUME NEW x \in ID, StepTSO(x) PROVE InOrder!Next \/ UNCHANGED InOrder!vars
  <2>1. CASE SpinTSO(x)
    BY <1>1, <2>1 DEF SpinTSO
  <2>2. CASE ~SpinTSO(x)
    <3>1. InOrder!Step(x)
      BY <1>2, <2>2, EnterClimbMap, SetCountMap, AwaitFlagMap, AwaitCountMap, ClearCountMap,
         ResetFlagMap, SetFlagMap DEF StepTSO, InOrder!Step
    <3> QED
      BY <3>1 DEF InOrder!Next, ID, InOrder!ID
  <2> QED
    BY <2>1, <2>2
<1> QED
  BY <1>1, <1>2, DrainMap DEF TSONext

-----------------------------------------------------------------------------
(* The stores between a thread and its master, step by step. *)

LEMMA SameBuffers ==
  ASSUME NEW y, NEW t, buffer' = buffer
  PROVE  NoNewStore(y, t)
BY DEF NoNewStore

LEMMA NewStore ==
  ASSUME TSOTypeOK, NEW x \in ID, NEW w \in Word, NEW v \in Bit, Store(x, w, v), NEW t \in Child,
         \/ x # t /\ x # Parent(t)
         \/ \A p \in Bit : w # CountFrom(t, p) /\ w # FlagTo(t, p)
  PROVE  NoNewStore(t, t) /\ NoNewStore(Parent(t), t)
<1>1. t \in ID /\ Parent(t) \in ID
  BY TreeFacts
<1>2. \A y \in ID : y # x => buffer'[y] = buffer[y]
  BY StoreFacts
<1>3. PICK N \in Nat \ {0} :
        /\ DOMAIN buffer[x] = 1 .. N - 1
        /\ DOMAIN buffer'[x] = 1 .. N
        /\ \A n \in 1 .. N - 1 : buffer'[x][n] = buffer[x][n]
        /\ buffer'[x][N].word = w
  BY StoreFacts
<1>4. ASSUME NEW y \in ID, y # x \/ \A p \in Bit : w # CountFrom(t, p) /\ w # FlagTo(t, p)
      PROVE  NoNewStore(y, t)
  <2>1. CASE y # x
    BY <1>2, <2>1 DEF NoNewStore
  <2>2. CASE y = x /\ \A p \in Bit : w # CountFrom(t, p) /\ w # FlagTo(t, p)
    <3>1. \A n \in 1 .. N : n \in 1 .. N - 1 \/ n = N
      OBVIOUS
    <3> QED
      BY <1>3, <2>2, <3>1 DEF NoNewStore
  <2> QED
    BY <1>4, <2>1, <2>2
<1> QED
  BY <1>1, <1>4

(* Each thread stores to its own words. *)
LEMMA OwnNewStore ==
  ASSUME TSOTypeOK, OwnStores, NEW x \in ID, NEW w \in Word, NEW v \in Bit, Store(x, w, v),
         \/ w.array = "FLAG" /\ w.id = x /\ w.level < WaitLevel(x)
         \/ /\ w.array = "COUNT" /\ w.id = x /\ v = 1
            /\ x \in Child /\ w.level = WaitLevel(x)
         \/ /\ w.array = "COUNT" /\ w.id \in Child /\ v = 0
            /\ Parent(w.id) = x /\ w.level = WaitLevel(w.id)
  PROVE  OwnStores'
<1>1. \A y \in ID : y # x => buffer'[y] = buffer[y]
  BY StoreFacts
<1>2. PICK N \in Nat \ {0} :
        /\ DOMAIN buffer[x] = 1 .. N - 1
        /\ DOMAIN buffer'[x] = 1 .. N
        /\ \A n \in 1 .. N - 1 : buffer'[x][n] = buffer[x][n]
        /\ buffer'[x][N].word = w
        /\ buffer'[x][N].value = v
  BY StoreFacts
<1>3. \A n \in 1 .. N : n \in 1 .. N - 1 \/ n = N
  OBVIOUS
<1>4. ASSUME NEW y \in ID, NEW n \in DOMAIN buffer'[y]
      PROVE  LET z == buffer'[y][n].word
             IN  \/ z.array = "FLAG" /\ z.id = y /\ z.level < WaitLevel(y)
                 \/ /\ z.array = "COUNT" /\ z.id = y /\ buffer'[y][n].value = 1
                    /\ y \in Child /\ z.level = WaitLevel(y)
                 \/ /\ z.array = "COUNT" /\ z.id \in Child /\ buffer'[y][n].value = 0
                    /\ Parent(z.id) = y /\ z.level = WaitLevel(z.id)
  <2>1. CASE y # x
    BY <1>1, <2>1 DEF OwnStores
  <2>2. CASE y = x /\ n # N
    <3>1. n \in DOMAIN buffer[y] /\ buffer'[y][n] = buffer[y][n]
      BY <1>2, <1>3, <2>2
    <3> QED
      BY <3>1 DEF OwnStores
  <2>3. CASE y = x /\ n = N
    BY <1>2, <2>3
  <2> QED
    BY <2>1, <2>2, <2>3
<1> QED
  BY <1>4 DEF OwnStores

(* A thread that does not move, nor its master. *)
LEMMA LinkElsewhere ==
  ASSUME TSOInv, NEW t \in Child, NoNewStore(t, t), NoNewStore(Parent(t), t),
         pc'[t] = pc[t], calls'[t] = calls[t], TURN'[t] = TURN[t],
         pc'[Parent(t)] = pc[Parent(t)], LEVEL'[Parent(t)] = LEVEL[Parent(t)],
         SET'[Parent(t)] = SET[Parent(t)], calls'[Parent(t)] = calls[Parent(t)],
         returns'[Parent(t)] = returns[Parent(t)], FLAG' = FLAG, COUNT' = COUNT
  PROVE  LinkStores(t)'
<1>1. Phase(t)' = Phase(t) /\ Releases(t)' = Releases(t)
  BY DEF Phase, Releases, Releasing
<1>2. (Collected(t)' <=> Collected(t)) /\ (Collecting(t)' <=> Collecting(t))
  BY DEF Collected, Collecting, Climbing, Releasing
<1> QED
  BY <1>1, <1>2, LinkFacts, LinkFrame

(* A thread that did not wait, and stored nothing for its link. *)
LEMMA LinkQuiet ==
  ASSUME TSOInv, NEW t \in Child, pc[t] # "await_flag", NoNewStore(t, t), NoNewStore(Parent(t), t)
  PROVE  LinkStores(t)'
BY QuietUnlessWaiting, QuietFrame, QuietLink

(* A master moves, and t stands to it as before. *)
LEMMA LinkMaster ==
  ASSUME TSOInv, NEW t \in Child, NoNewStore(t, t), NoNewStore(Parent(t), t),
         pc'[t] = pc[t], calls'[t] = calls[t], TURN'[t] = TURN[t],
         Releases(t)' = Releases(t), Collected(t)' <=> Collected(t), Collecting(t)' => Collecting(t),
         (pc[Parent(t)] = "set_flag" /\ LEVEL[Parent(t)] = WaitLevel(t)) =>
           (pc'[Parent(t)] = "set_flag" /\ LEVEL'[Parent(t)] = WaitLevel(t)),
         FLAG' = FLAG, COUNT' = COUNT
  PROVE  LinkStores(t)'
<1>1. Phase(t)' = Phase(t)
  BY DEF Phase
<1> QED
  BY <1>1, LinkFacts, LinkFrame

LEMMA EnterStores ==
  ASSUME TSOInv, NEW x \in ID, Enter(x), UNCHANGED buffer, NEW t \in Child
  PROVE  LinkStores(t)'
<1>1. NoNewStore(t, t) /\ NoNewStore(Parent(t), t)
  BY SameBuffers
<1>2. /\ FLAG' = FLAG /\ COUNT' = COUNT /\ returns' = returns /\ pc[x] = "out"
      /\ pc'[x] = "gather" /\ LEVEL'[x] = 0 /\ SET'[x] = 1
      /\ \A y \in ID : y # x => /\ pc'[y] = pc[y] /\ LEVEL'[y] = LEVEL[y] /\ SET'[y] = SET[y]
                                /\ TURN'[y] = TURN[y] /\ calls'[y] = calls[y]
  BY DEF Enter, Goto, EnterLevel, TSOInv, TSOTypeOK, TypeOK
<1>3. CASE x = t
  BY <1>1, <1>2, <1>3, LinkQuiet
<1>4. CASE x = Parent(t)
  <2>1. Releases(t)' = Releases(t)
    BY <1>2, <1>4 DEF Releases, Releasing
  <2>2. ~Collected(t)' /\ ~Collected(t) /\ ~Collecting(t)'
    BY <1>2, <1>4, LinkFacts DEF Collected, Collecting, Climbing, Releasing
  <2> QED
    BY <1>1, <1>2, <1>4, <2>1, <2>2, LinkFacts, LinkMaster
<1>5. CASE x # t /\ x # Parent(t)
  BY <1>1, <1>2, <1>5, LinkFacts, LinkElsewhere
<1> QED
  BY <1>3, <1>4, <1>5

LEMMA ClimbStores ==
  ASSUME TSOInv, NEW x \in ID, Climb(x), UNCHANGED buffer, NEW t \in Child
  PROVE  LinkStores(t)'
<1>1. NoNewStore(t, t) /\ NoNewStore(Parent(t), t)
  BY SameBuffers
<1>2. /\ FLAG' = FLAG /\ COUNT' = COUNT /\ TURN' = TURN /\ calls' = calls
      /\ pc[x] = "gather" /\ TOP \in Nat \ {0} /\ LEVEL[x] \in Nat
      /\ \/ pc'[x] = "gather" /\ LEVEL'[x] = LEVEL[x] + 1 /\ SET'[x] = 1
         \/ pc'[x] = "reset_flag" /\ LEVEL[x] + 1 = TOP /\ LEVEL'[x] = LEVEL[x]
      /\ returns' = returns
      /\ \A y \in ID : y # x => pc'[y] = pc[y] /\ LEVEL'[y] = LEVEL[y] /\ SET'[y] = SET[y]
  <2>1. /\ pc \in [ID -> PC] /\ LEVEL \in [ID -> Level] /\ SET \in [ID -> Nat \ {0}]
        /\ LEVEL[x] \in Nat
    BY IDFacts DEF TSOInv, TSOTypeOK, TypeOK
  <2>2. TOP - 1 + 1 = TOP /\ TOP > 0
    BY SizeAssumption
  <2>3. LEVEL[x] + 1 = TOP => LEVEL[x] = TOP - 1
    BY <2>1, SizeAssumption
  <2> QED
    BY <2>1, <2>2, <2>3, SizeAssumption DEF Climb, ReleaseBelow, Goto, EnterLevel, words
<1>3. CASE x = t
  BY <1>1, <1>2, <1>3, LinkQuiet
<1>4. CASE x = Parent(t)
  <2>1. /\ LEVEL[x] = WaitLevel(t) => SET[x] > Place(t)
        /\ WaitLevel(t) < TOP
    BY <1>4, LinkFacts, ClimbFacts, TreeTable
  <2>2. Releases(t)' = Releases(t)
    BY <1>2, <1>4, <2>1, LinkFacts DEF Releases, Releasing
  <2>3. Collected(t)' <=> Collected(t)
    BY <1>2, <1>4, <2>1, LinkFacts DEF Collected, Climbing, Releasing
  <2>4. ~Collecting(t)'
    BY <1>2, <1>4 DEF Collecting
  <2> QED
    BY <1>1, <1>2, <1>4, <2>2, <2>3, <2>4, LinkFacts, LinkMaster
<1>5. CASE x # t /\ x # Parent(t)
  BY <1>1, <1>2, <1>5, LinkFacts, LinkElsewhere
<1> QED
  BY <1>3, <1>4, <1>5

LEMMA SetCountStores ==
  ASSUME TSOInv, NEW x \in ID, BufferSetCount(x)
  PROVE  OwnStores' /\ \A t \in Child : LinkStores(t)'
<1>1. /\ TSOTypeOK /\ TypeOK /\ Control /\ OwnStores /\ pc[x] = "gather"
      /\ Phase(x) \in Bit /\ LEVEL[x] \in Level
  BY SettledFacts, PhaseType DEF TSOInv, TSOTypeOK, TypeOK, BufferSetCount
<1>2. x \in Child /\ LEVEL[x] = WaitLevel(x)
  BY <1>1, WaiterFacts DEF BufferSetCount, Climbing
<1>3. PICK w \in Word : w = Count(Phase(x), WaitLevel(x), x)
  BY <1>1, <1>2, WordFacts
<1>4. Store(x, w, 1) /\ 1 \in Bit
  BY <1>2, <1>3 DEF BufferSetCount, Bit
<1>5. OwnStores'
  BY <1>1, <1>2, <1>3, <1>4, WordFields, OwnNewStore
<1>6. /\ FLAG' = FLAG /\ COUNT' = COUNT /\ TURN' = TURN /\ calls' = calls /\ returns' = returns
      /\ LEVEL' = LEVEL /\ SET' = SET /\ pc'[x] = "await_flag"
      /\ \A y \in ID : y # x => pc'[y] = pc[y]
  BY <1>1 DEF BufferSetCount, Goto, words, history, TypeOK
<1>7. ASSUME NEW t \in Child PROVE LinkStores(t)'
  <2>1. CASE x = t
    <3>1. Quiet(t)
      BY <1>1, <2>1, QuietUnlessWaiting
    <3>2. COUNT[Phase(t)][WaitLevel(t)][t] = 0
      <4>1. SettledCount[Phase(t)][WaitLevel(t)][t] = 0
        BY <1>1, <2>1, SettledFacts DEF TSOInv, Climbing
      <4>2. ~Announced(Phase(t), WaitLevel(t), t)
        BY <1>1, <1>2, <2>1, <4>1, SettledValue
      <4>3. ~PendingCount(Phase(t), WaitLevel(t), t, 0)
        <5> SUFFICES ASSUME NEW y \in ID, NEW n \in DOMAIN buffer[y],
                            buffer[y][n].word = CountFrom(t, Phase(t))
                     PROVE  FALSE
          BY DEF PendingCount, CountFrom
        <5>1. y = t \/ y = Parent(t)
          BY <1>1, <2>1, LinkOwner
        <5> QED
          BY <1>1, <2>1, <3>1, <5>1 DEF Quiet
      <4>4. COUNT[Phase(t)][WaitLevel(t)][t] \in {0, 1}
        BY <1>1, <1>2, <2>1 DEF TypeOK, Bit
      <4> QED
        BY <4>2, <4>3, <4>4 DEF Announced
    <3>3. PICK N \in Nat \ {0} :
            /\ DOMAIN buffer[t] = 1 .. N - 1
            /\ DOMAIN buffer'[t] = 1 .. N
            /\ \A n \in 1 .. N - 1 : buffer'[t][n] = buffer[t][n]
            /\ buffer'[t][N].word = w
      BY <1>1, <1>4, <2>1, StoreFacts
    <3>4. buffer'[Parent(t)] = buffer[Parent(t)]
      BY <1>1, <1>4, <2>1, TreeFacts, StoreFacts
    <3>5. w = CountFrom(t, Phase(t)) /\ Phase(t) \in Bit
      BY <1>1, <1>2, <1>3, <2>1 DEF CountFrom
    <3>6. ASSUME NEW p \in Bit, NEW n \in DOMAIN buffer'[t], buffer'[t][n].word = CountFrom(t, p)
          PROVE  n = N /\ p = Phase(t)
      <4>1. n \in 1 .. N - 1 \/ n = N
        BY <3>3
      <4>2. n = N
        BY <3>1, <3>3, <3>6, <4>1 DEF Quiet
      <4>3. CountFrom(t, p) = CountFrom(t, Phase(t))
        BY <3>3, <3>5, <3>6, <4>2
      <4>4. p = Phase(t)
        BY <4>3, PhaseOf
      <4> QED
        BY <4>2, <4>4
    <3>7. calls[t] # Releases(t) /\ ~Collected(t) /\ ~Collecting(t) /\ Parent(t) # t /\ Parent(t) \in ID
      BY <1>1, <2>1, LinkFacts DEF InStep, Climbing
    <3>8. Releases(t)' = Releases(t) /\ Phase(t)' = Phase(t)
      BY <1>6, <2>1, <3>7 DEF Releases, Releasing, Phase
    <3>9. (Collected(t)' <=> Collected(t)) /\ (Collecting(t)' <=> Collecting(t))
      BY <1>6, <2>1, <3>7 DEF Collected, Collecting, Climbing, Releasing
    <3>10. ArrivalPending(t)'
      BY <1>6, <2>1, <3>2, <3>6, <3>7, <3>8, <3>9 DEF ArrivalPending
    <3>11. /\ ClearPending(t)' /\ LoweringPending(t)' /\ RaisePending(t)' /\ RaiseComesLast(t)'
      BY <3>1, <3>4 DEF Quiet, ClearPending, LoweringPending, RaisePending, RaiseComesLast
    <3> QED
      BY <3>10, <3>11 DEF LinkStores
  <2>2. CASE x # t
    <3>1. NoNewStore(t, t) /\ NoNewStore(Parent(t), t)
      <4>1. \A p \in Bit : w # CountFrom(t, p) /\ w # FlagTo(t, p)
        BY <1>1, <1>2, <1>3, <2>2, LinkWordFacts, WordFacts, TreeFacts DEF FlagTo
      <4> QED
        BY <1>1, <1>4, <4>1, NewStore
    <3>2. CASE x = Parent(t)
      <4>1. Releases(t)' = Releases(t) /\ ~Collecting(t)'
        BY <1>1, <1>6, <3>2 DEF Releases, Releasing, Collecting
      <4>2. Collected(t) /\ Collected(t)'
        BY <1>1, <1>2, <1>6, <3>2, LinkFacts DEF Collected, Climbing
      <4> QED
        BY <1>1, <1>6, <2>2, <3>1, <3>2, <4>1, <4>2, LinkFacts, LinkMaster
    <3>3. CASE x # Parent(t)
      BY <1>6, <2>2, <3>1, <3>3, LinkFacts, LinkElsewhere
    <3> QED
      BY <3>2, <3>3
  <2> QED
    BY <2>1, <2>2
<1> QED
  BY <1>5, <1>7

LEMMA LoadFlagStores ==
  ASSUME TSOInv, NEW x \in ID, LoadFlag(x), NEW t \in Child
  PROVE  LinkStores(t)'
<1>1. NoNewStore(t, t) /\ NoNewStore(Parent(t), t)
  BY SameBuffers DEF LoadFlag
<1>2. /\ x \in Child /\ LEVEL[x] = WaitLevel(x) /\ Quiet(x) /\ pc[x] = "await_flag"
      /\ TypeOK /\ LEVEL[x] \in Nat
  BY AwaitFlagMap, IDFacts DEF TSOInv, TSOTypeOK, TypeOK, LoadFlag
<1>3. /\ FLAG' = FLAG /\ COUNT' = COUNT /\ TURN' = TURN /\ calls' = calls /\ SET' = SET
      /\ \/ pc'[x] = "reset_flag" /\ LEVEL[x] > 0 /\ LEVEL'[x] = LEVEL[x] - 1 /\ returns' = returns
         \/ pc'[x] = "out" /\ LEVEL[x] = 0
      /\ \A y \in ID : y # x => /\ pc'[y] = pc[y] /\ LEVEL'[y] = LEVEL[y]
                                /\ returns'[y] = returns[y]
  BY <1>2 DEF LoadFlag, ReleaseBelow, Goto, words, TypeOK
<1>4. CASE x = t
  BY <1>1, <1>2, <1>4, QuietFrame, QuietLink
<1>5. CASE x = Parent(t)
  <2>1. /\ LEVEL[x] > WaitLevel(t) /\ WaitLevel(t) \in Nat /\ pc'[x] = "reset_flag"
        /\ LEVEL'[x] = LEVEL[x] - 1 /\ returns' = returns
    BY <1>2, <1>3, <1>5, LinkFacts
  <2>2. Releases(t)' = Releases(t) /\ ~Collecting(t)'
    BY <1>2, <1>3, <1>5, <2>1 DEF Releases, Releasing, Collecting
  <2>3. Collected(t) /\ Collected(t)'
    BY <1>2, <1>3, <1>5, <2>1 DEF Collected, Climbing, Releasing
  <2> QED
    BY <1>1, <1>2, <1>3, <1>5, <2>2, <2>3, LinkFacts, LinkMaster
<1>6. CASE x # t /\ x # Parent(t)
  BY <1>1, <1>3, <1>6, LinkFacts, LinkElsewhere
<1> QED
  BY <1>4, <1>5, <1>6

LEMMA LoadCountStores ==
  ASSUME TSOInv, NEW x \in ID, LoadCount(x), NEW t \in Child
  PROVE  LinkStores(t)'
<1>1. NoNewStore(t, t) /\ NoNewStore(Parent(t), t)
  BY SameBuffers DEF LoadCount
<1>2. /\ LEVEL[x] < WaitLevel(x) /\ CHILD(x) \in Child /\ Parent(CHILD(x)) = x
      /\ WaitLevel(CHILD(x)) = LEVEL[x] /\ Place(CHILD(x)) = SET[x]
      /\ COUNT[Phase(x)][LEVEL[x]][CHILD(x)] = 1
      /\ pc[x] = "gather" /\ TypeOK
  BY AwaitCountMap DEF TSOInv, TSOTypeOK, LoadCount
<1>3. /\ FLAG' = FLAG /\ COUNT' = COUNT /\ TURN' = TURN /\ calls' = calls /\ returns' = returns
      /\ LEVEL' = LEVEL /\ SET' = SET /\ buffer' = buffer /\ pc'[x] = "clear_count"
      /\ \A y \in ID : y # x => pc'[y] = pc[y]
  BY <1>2 DEF LoadCount, Goto, words, history, TypeOK
<1>4. CASE x = t
  BY <1>1, <1>2, <1>4, LinkQuiet
<1>5. CASE x = Parent(t)
  <2>1. Releases(t)' = Releases(t) /\ Releases(t) = returns[Parent(t)]
    BY <1>2, <1>3, <1>5 DEF Releases, Releasing
  <2>2. Collected(t)' <=> Collected(t)
    BY <1>2, <1>3, <1>5 DEF Collected, Climbing, Releasing
  <2>3. Phase(t)' = Phase(t)
    BY <1>3 DEF Phase
  <2>4. CASE LEVEL[x] = WaitLevel(t) /\ SET[x] = Place(t)
    <3>1. t = CHILD(x)
      BY <1>2, <1>5, <2>4, SamePlace
    <3>2. COUNT[Phase(x)][WaitLevel(t)][t] = 1
      BY <1>2, <2>4, <3>1
    <3>3. ASSUME NEW p \in Bit, NEW n \in DOMAIN buffer[t], buffer[t][n].word = CountFrom(t, p)
          PROVE  FALSE
      <4>1. p = Phase(t) /\ calls[t] # Releases(t) /\ COUNT[p][WaitLevel(t)][t] = 0
        BY <3>3, LinkFacts DEF LinkStores, ArrivalPending
      <4>2. calls[t] = calls[x]
        BY <1>2, <1>5, <2>1, <4>1, LinkFacts DEF InStep, ControlOf
      <4>3. Phase(t) = Phase(x)
        BY <1>5, <4>2, LinkFacts DEF InStep, Phase
      <4> QED
        BY <3>2, <4>1, <4>3
    <3>4. ArrivalPending(t)'
      BY <1>3, <3>3 DEF ArrivalPending
    <3>5. (Unseen(t)' <=> Unseen(t)) /\ \A p : Other(p)' = Other(p)
      BY <1>2, <1>3, <1>5, <2>1, LinkFacts DEF Unseen, Other
    <3>6. ClearPending(t)' /\ LoweringPending(t)' /\ RaisePending(t)' /\ RaiseComesLast(t)'
      BY <1>2, <1>3, <1>5, <2>1, <2>2, <2>3, <3>5, LinkFacts
         DEF LinkStores, ClearPending, LoweringPending, RaisePending, RaiseComesLast
    <3> QED
      BY <3>4, <3>6 DEF LinkStores
  <2>5. CASE ~(LEVEL[x] = WaitLevel(t) /\ SET[x] = Place(t))
    <3>1. ~Collecting(t)'
      BY <1>3, <1>5, <2>5 DEF Collecting
    <3> QED
      BY <1>1, <1>2, <1>3, <1>5, <2>1, <2>2, <3>1, LinkFacts, LinkMaster
  <2> QED
    BY <2>4, <2>5
<1>6. CASE x # t /\ x # Parent(t)
  BY <1>1, <1>3, <1>6, LinkFacts, LinkElsewhere
<1> QED
  BY <1>4, <1>5, <1>6

LEMMA ClearCountStores ==
  ASSUME TSOInv, NEW x \in ID, BufferClearCount(x)
  PROVE  OwnStores' /\ \A t \in Child : LinkStores(t)'
<1>1. /\ TSOTypeOK /\ TypeOK /\ Control /\ OwnStores /\ pc[x] = "clear_count"
      /\ Phase(x) \in Bit /\ Other(Phase(x)) \in Bit /\ LEVEL[x] \in Level
  BY SettledFacts, PhaseType DEF TSOInv, TSOTypeOK, TypeOK, BufferClearCount
<1>2. PICK c \in Child :
        /\ c = CHILD(x) /\ Parent(c) = x /\ WaitLevel(c) = LEVEL[x] /\ Place(c) = SET[x]
        /\ Collecting(c)
  BY ClearCountMap
<1>3. PICK w \in Word : w = Count(Other(Phase(x)), WaitLevel(c), c)
  BY <1>1, <1>2, TreeFacts, WordFacts
<1>4. Store(x, w, 0) /\ 0 \in Bit
  BY <1>2, <1>3 DEF BufferClearCount, Bit
<1>5. OwnStores'
  BY <1>1, <1>2, <1>3, <1>4, WordFields, OwnNewStore
<1>6. /\ FLAG' = FLAG /\ COUNT' = COUNT /\ TURN' = TURN /\ calls' = calls /\ returns' = returns
      /\ LEVEL' = LEVEL /\ pc'[x] = "gather" /\ SET'[x] = SET[x] + 1 /\ SET[x] \in Nat
      /\ \A y \in ID : y # x => pc'[y] = pc[y] /\ SET'[y] = SET[y]
  BY <1>1 DEF BufferClearCount, Goto, words, history, TypeOK
<1>7. ASSUME NEW t \in Child PROVE LinkStores(t)'
  <2>1. CASE t = c
    <3>1. /\ pc[t] = "await_flag" /\ calls[t] = calls[x] /\ TURN[t] = TURN[x]
          /\ x # t /\ x = Parent(t)
      BY <1>2, <2>1, LinkFacts DEF InStep
    <3>2. /\ Phase(t) = Phase(x) /\ Phase(t)' = Phase(t) /\ \A p : Other(p)' = Other(p)
      BY <1>6, <3>1 DEF Phase, Other
    <3>3. ~Unseen(t) /\ ~Unseen(t)'
      BY <1>1, <1>6, <3>1, LinkFacts DEF Unseen, Releases, Releasing, ControlOf
    <3>4. Collected(t)' /\ ~Collecting(t)'
      BY <1>2, <1>6, <2>1, <3>1 DEF Collected, Collecting, Climbing
    <3>5. PICK N \in Nat \ {0} :
            /\ DOMAIN buffer[x] = 1 .. N - 1
            /\ DOMAIN buffer'[x] = 1 .. N
            /\ \A n \in 1 .. N - 1 : buffer'[x][n] = buffer[x][n]
            /\ buffer'[x][N].word = w
      BY <1>1, <1>4, StoreFacts
    <3>6. buffer'[t] = buffer[t]
      BY <1>1, <1>4, <3>1, TreeFacts, StoreFacts
    <3>7. w = CountFrom(t, Other(Phase(t)))
      BY <1>2, <1>3, <2>1, <3>2 DEF CountFrom
    <3>8. \A n \in DOMAIN buffer'[x] : n = N \/ (n \in DOMAIN buffer[x] /\ buffer'[x][n] = buffer[x][n])
      BY <3>5
    <3>9. /\ \A p \in Bit : w # FlagTo(t, p)
          /\ \A p \in Bit : w = CountFrom(t, p) => p = Other(Phase(t))
      <4>1. PICK q \in Bit : q = Other(Phase(t))
        BY <1>1, <3>2
      <4>2. w = CountFrom(t, q)
        BY <3>7, <4>1
      <4>3. \A p \in Bit : w # FlagTo(t, p)
        BY <4>2, PhaseOf
      <4>4. \A p \in Bit : w = CountFrom(t, p) => p = q
        BY <4>2, PhaseOf
      <4> QED
        BY <4>1, <4>3, <4>4
    <3>10. ArrivalPending(t)'
      <4>1. ASSUME NEW p \in Bit, NEW n \in DOMAIN buffer[t], buffer[t][n].word = CountFrom(t, p)
            PROVE  FALSE
        BY <1>2, <2>1, <4>1, LinkFacts DEF LinkStores, ArrivalPending
      <4> QED
        BY <3>6, <4>1 DEF ArrivalPending
    <3>11. ClearPending(t)'
      <4>1. ASSUME NEW p \in Bit, NEW n \in DOMAIN buffer'[x], buffer'[x][n].word = CountFrom(t, p)
            PROVE  p = Other(Phase(t))
        <5>1. CASE n = N
          BY <3>5, <3>9, <4>1, <5>1
        <5>2. CASE n # N
          BY <3>1, <3>8, <4>1, <5>2, LinkFacts DEF LinkStores, ClearPending
        <5> QED
          BY <5>1, <5>2
      <4> QED
        BY <3>1, <3>2, <3>4, <4>1 DEF ClearPending
    <3>12. ASSUME NEW p \in Bit, NEW n \in DOMAIN buffer'[x], buffer'[x][n].word = FlagTo(t, p)
           PROVE  n \in DOMAIN buffer[x] /\ buffer'[x][n] = buffer[x][n]
      BY <3>5, <3>8, <3>9, <3>12
    <3>13. LoweringPending(t)'
      BY <1>1, <3>1, <3>3, <3>12, LinkFacts DEF LinkStores, LoweringPending
    <3>14. RaisePending(t)'
      BY <3>1, <3>3, <3>12, LinkFacts DEF LinkStores, RaisePending
    <3>15. RaiseComesLast(t)'
      BY <3>3 DEF RaiseComesLast
    <3> QED
      BY <3>10, <3>11, <3>13, <3>14, <3>15 DEF LinkStores
  <2>2. CASE t # c
    <3>1. NoNewStore(t, t) /\ NoNewStore(Parent(t), t)
      <4>1. c \in ID /\ WaitLevel(c) \in Level /\ Parent(t) \in ID /\ WaitLevel(t) \in Level
        BY TreeFacts
      <4>2. \A p \in Bit : w # CountFrom(t, p) /\ w # FlagTo(t, p)
        BY <1>1, <1>3, <2>2, <4>1, LinkWordFacts, WordFacts DEF FlagTo
      <4> QED
        BY <1>1, <1>4, <4>2, NewStore
    <3>2. CASE x = t
      BY <1>1, <3>1, <3>2, LinkQuiet
    <3>3. CASE x = Parent(t)
      <4>1. ~(LEVEL[x] = WaitLevel(t) /\ SET[x] = Place(t))
        BY <1>1, <1>2, <2>2, <3>3, SamePlace
      <4>2. Releases(t)' = Releases(t) /\ ~Collecting(t)'
        BY <1>1, <1>6, <3>3 DEF Releases, Releasing, Collecting
      <4>3. Collected(t)' <=> Collected(t)
        BY <1>1, <1>6, <3>3, <4>1, LinkFacts DEF Collected, Climbing, Releasing
      <4> QED
        BY <1>1, <1>6, <3>1, <3>3, <4>2, <4>3, LinkFacts, LinkMaster
    <3>4. CASE x # t /\ x # Parent(t)
      BY <1>6, <3>1, <3>4, LinkFacts, LinkElsewhere
    <3> QED
      BY <3>2, <3>3, <3>4
  <2> QED
    BY <2>1, <2>2
<1> QED
  BY <1>5, <1>7

LEMMA ResetFlagStores ==
  ASSUME TSOInv, NEW x \in ID, BufferResetFlag(x)
  PROVE  OwnStores' /\ \A t \in Child : LinkStores(t)'
<1>1. /\ TSOTypeOK /\ TypeOK /\ Control /\ OwnStores /\ pc[x] = "reset_flag"
      /\ Other(Phase(x)) \in Bit /\ LEVEL[x] \in Level /\ LEVEL[x] \in Nat
  BY SettledFacts, PhaseType, IDFacts DEF TSOInv, TSOTypeOK, TypeOK, BufferResetFlag
<1>2. LEVEL[x] < WaitLevel(x)
  BY <1>1 DEF Control, ControlOf, Releasing
<1>3. PICK w \in Word : w = Flag(Other(Phase(x)), LEVEL[x], x)
  BY <1>1, WordFacts
<1>4. Store(x, w, 0) /\ 0 \in Bit
  BY <1>3 DEF BufferResetFlag, Bit
<1>5. OwnStores'
  BY <1>1, <1>2, <1>3, <1>4, WordFields, OwnNewStore
<1>6. /\ FLAG' = FLAG /\ COUNT' = COUNT /\ TURN' = TURN /\ calls' = calls /\ returns' = returns
      /\ LEVEL' = LEVEL /\ SET' = SET /\ pc'[x] = "set_flag"
      /\ \A y \in ID : y # x => pc'[y] = pc[y]
  BY <1>1 DEF BufferResetFlag, Goto, words, history, TypeOK
<1>7. ASSUME NEW t \in Child PROVE LinkStores(t)'
  <2>1. CASE x = Parent(t) /\ LEVEL[x] = WaitLevel(t)
    <3>1. Collected(t) /\ Collected(t)' /\ Collecting(t)' = FALSE /\ x # t
      BY <1>1, <1>6, <2>1, LinkFacts DEF Collected, Collecting, Releasing
    <3>2. /\ pc[t] = "await_flag" /\ calls[t] = calls[x] /\ TURN[t] = TURN[x]
      BY <2>1, <3>1, LinkFacts DEF InStep
    <3>3. /\ Phase(t) = Phase(x) /\ Phase(t)' = Phase(t) /\ \A p : Other(p)' = Other(p)
      BY <1>6, <3>2 DEF Phase, Other
    <3>4. ~Unseen(t) /\ ~Unseen(t)'
      BY <1>1, <1>6, <2>1, <3>2, LinkFacts DEF Unseen, Releases, Releasing, ControlOf
    <3>5. PICK N \in Nat \ {0} :
            /\ DOMAIN buffer[x] = 1 .. N - 1
            /\ DOMAIN buffer'[x] = 1 .. N
            /\ \A n \in 1 .. N - 1 : buffer'[x][n] = buffer[x][n]
            /\ buffer'[x][N].word = w /\ buffer'[x][N].value = 0
      BY <1>1, <1>4, StoreFacts
    <3>6. buffer'[t] = buffer[t]
      BY <1>1, <1>4, <3>1, TreeFacts, StoreFacts
    <3>7. w = FlagTo(t, Other(Phase(t)))
      BY <1>3, <2>1, <3>3 DEF FlagTo
    <3>8. \A n \in DOMAIN buffer'[x] : n = N \/ (n \in DOMAIN buffer[x] /\ buffer'[x][n] = buffer[x][n])
      BY <3>5
    <3>9. \A p \in Bit : w # CountFrom(t, p) /\ (w = FlagTo(t, p) => p = Other(Phase(t)))
      BY <3>7, PhaseOf
    <3>10. ArrivalPending(t)'
      <4>1. ASSUME NEW p \in Bit, NEW n \in DOMAIN buffer[t], buffer[t][n].word = CountFrom(t, p)
            PROVE  FALSE
        BY <3>1, <4>1, LinkFacts DEF LinkStores, ArrivalPending
      <4> QED
        BY <3>6, <4>1 DEF ArrivalPending
    <3>11. ClearPending(t)'
      <4>1. ASSUME NEW p \in Bit, NEW n \in DOMAIN buffer'[x], buffer'[x][n].word = CountFrom(t, p)
            PROVE  p = Other(Phase(t))
        <5>1. n # N
          BY <3>5, <3>9, <4>1
        <5> QED
          BY <2>1, <3>8, <4>1, <5>1, LinkFacts DEF LinkStores, ClearPending
      <4> QED
        BY <2>1, <3>1, <3>3, <4>1 DEF ClearPending
    <3>12. LoweringPending(t)'
      <4>1. ASSUME NEW p \in Bit, NEW n \in DOMAIN buffer'[x],
                   buffer'[x][n].word = FlagTo(t, p), buffer'[x][n].value = 0
            PROVE  p = Other(Phase(t))
        <5>1. CASE n = N
          BY <3>5, <3>9, <4>1, <5>1
        <5>2. CASE n # N
          BY <2>1, <3>8, <4>1, <5>2, LinkFacts DEF LinkStores, LoweringPending
        <5> QED
          BY <5>1, <5>2
      <4> QED
        BY <1>6, <2>1, <3>1, <3>3, <4>1 DEF LoweringPending
    <3>13. RaisePending(t)'
      <4>1. ASSUME NEW p \in Bit, NEW n \in DOMAIN buffer'[x],
                   buffer'[x][n].word = FlagTo(t, p), buffer'[x][n].value = 1
            PROVE  FALSE
        <5>1. n # N
          BY <3>5, <4>1
        <5> QED
          BY <2>1, <3>4, <3>8, <4>1, <5>1, LinkFacts DEF LinkStores, RaisePending
      <4> QED
        BY <2>1, <4>1 DEF RaisePending
    <3>14. RaiseComesLast(t)'
      BY <3>4 DEF RaiseComesLast
    <3> QED
      BY <3>10, <3>11, <3>12, <3>13, <3>14 DEF LinkStores
  <2>2. CASE ~(x = Parent(t) /\ LEVEL[x] = WaitLevel(t))
    <3>1. NoNewStore(t, t) /\ NoNewStore(Parent(t), t)
      <4>1. \A p \in Bit : w # CountFrom(t, p) /\ w # FlagTo(t, p)
        BY <1>3, <2>2, WordFields DEF FlagTo, CountFrom
      <4> QED
        BY <1>1, <1>4, <4>1, NewStore
    <3>2. CASE x = t
      BY <1>1, <3>1, <3>2, LinkQuiet
    <3>3. CASE x = Parent(t)
      <4>2. Releases(t)' = Releases(t) /\ ~Collecting(t)'
        BY <1>1, <1>6, <3>3 DEF Releases, Releasing, Collecting
      <4>3. Collected(t)' <=> Collected(t)
        BY <1>1, <1>6, <3>3 DEF Collected, Climbing, Releasing
      <4> QED
        BY <1>1, <1>6, <3>1, <3>3, <4>2, <4>3, LinkFacts, LinkMaster
    <3>4. CASE x # t /\ x # Parent(t)
      BY <1>6, <3>1, <3>4, LinkFacts, LinkElsewhere
    <3> QED
      BY <3>2, <3>3, <3>4
  <2> QED
    BY <2>1, <2>2
<1> QED
  BY <1>5, <1>7

LEMMA SetFlagStores ==
  ASSUME TSOInv, NEW x \in ID, BufferSetFlag(x)
  PROVE  OwnStores' /\ \A t \in Child : LinkStores(t)'
<1>1. /\ TSOTypeOK /\ TypeOK /\ Control /\ OwnStores /\ pc[x] = "set_flag"
      /\ Phase(x) \in Bit /\ LEVEL[x] \in Level /\ LEVEL[x] \in Nat
      /\ calls[x] = returns[x] + 1 /\ returns[x] \in Nat
  BY SettledFacts, PhaseType, IDFacts DEF TSOInv, TSOTypeOK, TypeOK, BufferSetFlag, Control, ControlOf
<1>2. LEVEL[x] < WaitLevel(x)
  BY <1>1 DEF Control, ControlOf, Releasing
<1>3. PICK w \in Word : w = Flag(Phase(x), LEVEL[x], x)
  BY <1>1, WordFacts
<1>4. Store(x, w, 1) /\ 1 \in Bit
  BY <1>3 DEF BufferSetFlag, Bit
<1>5. OwnStores'
  BY <1>1, <1>2, <1>3, <1>4, WordFields, OwnNewStore
<1>6. /\ FLAG' = FLAG /\ COUNT' = COUNT /\ TURN' = TURN /\ calls' = calls /\ SET' = SET
      /\ \/ pc'[x] = "reset_flag" /\ LEVEL[x] > 0 /\ LEVEL'[x] = LEVEL[x] - 1 /\ returns' = returns
         \/ pc'[x] = "out" /\ LEVEL[x] = 0 /\ LEVEL' = LEVEL /\ returns'[x] = returns[x] + 1
      /\ \A y \in ID : y # x => /\ pc'[y] = pc[y] /\ LEVEL'[y] = LEVEL[y]
                                /\ returns'[y] = returns[y]
  BY <1>1 DEF BufferSetFlag, ReleaseBelow, Goto, words, TypeOK
<1>7. ASSUME NEW t \in Child PROVE LinkStores(t)'
  <2>0. WaitLevel(t) \in Nat /\ Parent(t) # t /\ Parent(t) \in ID /\ t \in ID /\ Phase(t) \in Bit
    BY LinkFacts
  <2>1. CASE x = Parent(t) /\ LEVEL[x] = WaitLevel(t)
    <3>1. Collected(t)
      BY <1>1, <2>1 DEF Collected, Releasing
    <3>2. /\ pc[t] = "await_flag" /\ calls[t] = calls[x] /\ TURN[t] = TURN[x]
      BY <2>1, <3>1, LinkFacts DEF InStep
    <3>3. /\ Phase(t) = Phase(x) /\ Phase(t)' = Phase(t) /\ \A p : Other(p)' = Other(p)
      BY <1>6, <3>2 DEF Phase, Other
    <3>4. ~Unseen(t) /\ Unseen(t)'
      BY <1>1, <1>6, <2>0, <2>1, <3>2 DEF Unseen, Releases, Releasing
    <3>5. PICK N \in Nat \ {0} :
            /\ DOMAIN buffer[x] = 1 .. N - 1
            /\ DOMAIN buffer'[x] = 1 .. N
            /\ \A n \in 1 .. N - 1 : buffer'[x][n] = buffer[x][n]
            /\ buffer'[x][N].word = w /\ buffer'[x][N].value = 1
      BY <1>1, <1>4, StoreFacts
    <3>6. buffer'[t] = buffer[t]
      BY <1>1, <1>4, <2>0, <2>1, StoreFacts
    <3>7. w = FlagTo(t, Phase(t))
      BY <1>3, <2>1, <3>3 DEF FlagTo
    <3>8. \A n \in DOMAIN buffer'[x] : n = N \/ (n \in DOMAIN buffer[x] /\ buffer'[x][n] = buffer[x][n])
      BY <3>5
    <3>9. \A p \in Bit : w # CountFrom(t, p) /\ (w = FlagTo(t, p) => p = Phase(t))
      BY <3>7, PhaseOf
    <3>a. ASSUME NEW n \in DOMAIN buffer[x], buffer[x][n].word = FlagTo(t, Phase(t))
          PROVE  FALSE
      <4>1. buffer[x][n].value = 0 \/ buffer[x][n].value = 1
        BY <1>1, <3>a, EntryFacts
      <4>2. Phase(t) # Other(Phase(t))
        BY <2>0 DEF Other, Bit
      <4> QED
        BY <2>0, <2>1, <3>4, <3>a, <4>1, <4>2, LinkFacts DEF LinkStores, LoweringPending, RaisePending
    <3>b. FLAG[Phase(t)][WaitLevel(t)][x] = 0
      <4>1. SettledFlag[Phase(t)][WaitLevel(t)][x] = 0
        BY <2>1, <3>2, <3>4, SettledRelease
      <4>2. ~Raised(Phase(t), WaitLevel(t), x)
        BY <1>1, <2>0, <2>1, <4>1, SettledValue
      <4>3. RaisedAfter(FlagTo(t, Phase(t)), x, 0)
        BY <3>a DEF RaisedAfter
      <4>4. FLAG[Phase(t)][WaitLevel(t)][x] \in {0, 1}
        BY <1>1, <2>0, <2>1 DEF TypeOK, Bit
      <4> QED
        BY <2>1, <4>2, <4>3, <4>4 DEF Raised, FlagTo
    <3>10. ArrivalPending(t)'
      <4>1. ASSUME NEW p \in Bit, NEW n \in DOMAIN buffer[t], buffer[t][n].word = CountFrom(t, p)
            PROVE  FALSE
        BY <3>1, <4>1, LinkFacts DEF LinkStores, ArrivalPending
      <4> QED
        BY <3>6, <4>1 DEF ArrivalPending
    <3>11. ClearPending(t)'
      <4>1. ASSUME NEW p \in Bit, NEW n \in DOMAIN buffer'[x], buffer'[x][n].word = CountFrom(t, p)
            PROVE  p = Other(Phase(t))
        <5>1. n # N
          BY <3>5, <3>9, <4>1
        <5> QED
          BY <2>1, <3>8, <4>1, <5>1, LinkFacts DEF LinkStores, ClearPending
      <4> QED
        BY <2>1, <3>3, <3>4, <4>1 DEF ClearPending
    <3>12. LoweringPending(t)'
      <4>1. ASSUME NEW p \in Bit, NEW n \in DOMAIN buffer'[x],
                   buffer'[x][n].word = FlagTo(t, p), buffer'[x][n].value = 0
            PROVE  p = Other(Phase(t))
        <5>1. n # N
          BY <3>5, <4>1
        <5> QED
          BY <2>1, <3>8, <4>1, <5>1, LinkFacts DEF LinkStores, LoweringPending
      <4> QED
        BY <2>1, <3>3, <3>4, <4>1 DEF LoweringPending
    <3>13. RaisePending(t)'
      <4>1. ASSUME NEW p \in Bit, NEW n \in DOMAIN buffer'[x],
                   buffer'[x][n].word = FlagTo(t, p), buffer'[x][n].value = 1
            PROVE  n = N /\ p = Phase(t)
        <5>1. CASE n = N
          BY <3>5, <3>9, <4>1, <5>1
        <5>2. CASE n # N
          BY <2>1, <3>4, <3>8, <4>1, <5>2, LinkFacts DEF LinkStores, RaisePending
        <5> QED
          BY <5>1, <5>2
      <4>2. ASSUME NEW n \in DOMAIN buffer'[x], buffer'[x][n].word = FlagTo(t, Phase(t))
            PROVE  n = N
        BY <3>8, <3>a, <4>2
      <4> QED
        BY <1>6, <2>1, <3>3, <3>4, <3>b, <4>1, <4>2 DEF RaisePending
    <3>14. RaiseComesLast(t)'
      <4>1. \A n \in DOMAIN buffer'[x] : N >= n
        BY <3>5
      <4>2. N \in DOMAIN buffer'[x]
        BY <3>5
      <4> QED
        BY <2>1, <3>3, <3>5, <3>7, <4>1, <4>2 DEF RaiseComesLast
    <3> QED
      BY <3>10, <3>11, <3>12, <3>13, <3>14 DEF LinkStores
  <2>2. CASE ~(x = Parent(t) /\ LEVEL[x] = WaitLevel(t))
    <3>1. NoNewStore(t, t) /\ NoNewStore(Parent(t), t)
      <4>1. \A p \in Bit : w # CountFrom(t, p) /\ w # FlagTo(t, p)
        BY <1>3, <2>2, WordFields DEF FlagTo, CountFrom
      <4> QED
        BY <1>1, <1>4, <4>1, NewStore
    <3>2. CASE x = t
      BY <1>1, <3>1, <3>2, LinkQuiet
    <3>3. CASE x = Parent(t)
      <4>1. LEVEL[x] # WaitLevel(t)
        BY <2>2, <3>3
      <4>2. Releases(t)' = Releases(t) /\ ~Collecting(t)'
        BY <1>1, <1>6, <2>0, <3>3, <4>1 DEF Releases, Releasing, Collecting
      <4>3. Collected(t)' <=> Collected(t)
        BY <1>1, <1>6, <2>0, <3>3, <4>1 DEF Collected, Climbing, Releasing
      <4> QED
        BY <1>1, <1>6, <3>1, <3>3, <4>1, <4>2, <4>3, LinkFacts, LinkMaster
    <3>4. CASE x # t /\ x # Parent(t)
      BY <1>6, <2>0, <3>1, <3>4, LinkElsewhere
    <3> QED
      BY <3>2, <3>3, <3>4
  <2> QED
    BY <2>1, <2>2
<1> QED
  BY <1>5, <1>7

LEMMA DrainStores ==
  ASSUME TSOInv, NEW x \in ID, Drain(x)
  PROVE  OwnStores' /\ \A t \in Child : LinkStores(t)'
<1>1. TSOTypeOK /\ OwnStores
  BY DEF TSOInv
<1>2. PICK N \in Nat \ {0} :
        /\ \A y \in ID : y # x => buffer'[y] = buffer[y]
        /\ DOMAIN buffer[x] = 1 .. N
        /\ DOMAIN buffer'[x] = 1 .. N - 1
        /\ \A n \in 1 .. N - 1 : buffer'[x][n] = buffer[x][n + 1]
  BY <1>1, DrainFacts
<1>3. PICK w \in Word, v \in Bit : w = buffer[x][1].word /\ v = buffer[x][1].value
  BY <1>1, DrainFacts
<1>4. /\ 1 \in DOMAIN buffer[x]
      /\ \A n \in DOMAIN buffer'[x] : n + 1 \in DOMAIN buffer[x] /\ buffer'[x][n] = buffer[x][n + 1]
                                      /\ n \in Nat \ {0}
      /\ \A n \in DOMAIN buffer[x] : n # 1 =>
           n - 1 \in DOMAIN buffer'[x] /\ n \in Nat /\ buffer'[x][n - 1] = buffer[x][n]
  <2>1. \A n \in 1 .. N - 1 : n + 1 \in 1 .. N /\ n \in Nat \ {0}
    OBVIOUS
  <2>2. ASSUME NEW n \in 1 .. N, n # 1
        PROVE  n - 1 \in 1 .. N - 1 /\ n \in Nat /\ buffer'[x][n - 1] = buffer[x][n]
    <3>1. n - 1 \in 1 .. N - 1 /\ n \in Nat /\ n - 1 + 1 = n
      BY <2>2
    <3> QED
      BY <1>2, <3>1
  <2> QED
    BY <1>2, <2>1, <2>2
<1>5. /\ UNCHANGED <<TURN, locals, history>>
      /\ \A p \in Bit, l \in Level, i \in ID :
           /\ FLAG'[p][l][i] = IF w = Flag(p, l, i) THEN v ELSE FLAG[p][l][i]
           /\ COUNT'[p][l][i] = IF w = Count(p, l, i) THEN v ELSE COUNT[p][l][i]
  BY <1>1, <1>3, DrainMemory
<1>6. OwnStores'
  <2>1. ASSUME NEW y \in ID, NEW n \in DOMAIN buffer'[y]
        PROVE  \E k \in DOMAIN buffer[y] : buffer'[y][n] = buffer[y][k]
    BY <1>2, <1>4
  <2>2. ASSUME NEW y \in ID, NEW n \in DOMAIN buffer'[y]
        PROVE  LET z == buffer'[y][n].word
               IN  \/ z.array = "FLAG" /\ z.id = y /\ z.level < WaitLevel(y)
                   \/ /\ z.array = "COUNT" /\ z.id = y /\ buffer'[y][n].value = 1
                      /\ y \in Child /\ z.level = WaitLevel(y)
                   \/ /\ z.array = "COUNT" /\ z.id \in Child /\ buffer'[y][n].value = 0
                      /\ Parent(z.id) = y /\ z.level = WaitLevel(z.id)
    <3>1. PICK k \in DOMAIN buffer[y] : buffer'[y][n] = buffer[y][k]
      BY <2>1
    <3> QED
      BY <1>1, <3>1 DEF OwnStores
  <2> QED
    BY <2>2 DEF OwnStores
<1>7. ASSUME NEW t \in Child PROVE LinkStores(t)'
  <2>1. /\ LinkStores(t) /\ t \in ID /\ Parent(t) \in ID /\ Parent(t) # t /\ WaitLevel(t) \in Level
        /\ Phase(t) \in Bit
    BY LinkFacts
  <2>2. /\ pc'[t] = pc[t] /\ calls'[t] = calls[t] /\ Phase(t)' = Phase(t)
        /\ Releases(t)' = Releases(t) /\ (Unseen(t)' <=> Unseen(t))
        /\ pc' = pc /\ LEVEL' = LEVEL /\ \A p : Other(p)' = Other(p)
    BY <1>5 DEF locals, history, Phase, Releases, Releasing, Unseen, Other
  <2>3. (Collected(t)' <=> Collected(t)) /\ (Collecting(t)' <=> Collecting(t))
    BY <1>5 DEF locals, history, Collected, Collecting, Climbing, Releasing
  <2>4. \A p \in Bit :
          /\ FLAG'[p][WaitLevel(t)][Parent(t)] =
               IF w = FlagTo(t, p) THEN v ELSE FLAG[p][WaitLevel(t)][Parent(t)]
          /\ COUNT'[p][WaitLevel(t)][t] =
               IF w = CountFrom(t, p) THEN v ELSE COUNT[p][WaitLevel(t)][t]
    BY <1>5, <2>1 DEF FlagTo, CountFrom
  <2>5. \A p \in Bit :
          /\ w = FlagTo(t, p) => x = Parent(t)
          /\ w = CountFrom(t, p) => (x = t /\ v = 1) \/ (x = Parent(t) /\ v = 0)
    BY <1>1, <1>3, <1>4, LinkOwner
  <2>6. ASSUME NEW y \in ID, NEW n \in DOMAIN buffer'[y]
        PROVE  \E k \in DOMAIN buffer[y] :
                 /\ buffer'[y][n] = buffer[y][k]
                 /\ y = x => k = n + 1 /\ k # 1
                 /\ y # x => k = n
    <3>1. CASE y = x
      <4>1. n + 1 \in DOMAIN buffer[y] /\ buffer'[y][n] = buffer[y][n + 1] /\ n + 1 # 1
        BY <1>4, <3>1
      <4> QED
        BY <3>1, <4>1
    <3>2. CASE y # x
      BY <1>2, <3>2
    <3> QED
      BY <3>1, <3>2
  <2>7. ArrivalPending(t)'
    <3> SUFFICES ASSUME NEW p \in Bit, NEW n \in DOMAIN buffer'[t], buffer'[t][n].word = CountFrom(t, p)
                 PROVE  /\ p = Phase(t) /\ pc[t] = "await_flag" /\ calls[t] # Releases(t)
                        /\ ~Collected(t) /\ ~Collecting(t)
                        /\ COUNT'[p][WaitLevel(t)][t] = 0
                        /\ \A k \in DOMAIN buffer'[t] : buffer'[t][k].word = CountFrom(t, p) => k = n
      BY <2>2, <2>3 DEF ArrivalPending
    <3>1. PICK k \in DOMAIN buffer[t] :
            /\ buffer'[t][n] = buffer[t][k] /\ (t = x => k = n + 1 /\ k # 1) /\ (t # x => k = n)
      BY <2>1, <2>6
    <3>2. /\ p = Phase(t) /\ pc[t] = "await_flag" /\ calls[t] # Releases(t)
          /\ ~Collected(t) /\ ~Collecting(t)
          /\ COUNT[p][WaitLevel(t)][t] = 0
          /\ \A j \in DOMAIN buffer[t] : buffer[t][j].word = CountFrom(t, p) => j = k
      BY <2>1, <3>1 DEF LinkStores, ArrivalPending
    <3>3. COUNT'[p][WaitLevel(t)][t] = 0
      <4>1. ~(w = CountFrom(t, p) /\ v = 1)
        BY <1>3, <1>4, <2>1, <2>5, <3>1, <3>2
      <4> QED
        BY <2>4, <3>2, <4>1 DEF Bit
    <3>4. ASSUME NEW j \in DOMAIN buffer'[t], buffer'[t][j].word = CountFrom(t, p)
          PROVE  j = n
      <4>1. PICK i \in DOMAIN buffer[t] :
              /\ buffer'[t][j] = buffer[t][i] /\ (t = x => i = j + 1) /\ (t # x => i = j)
        BY <2>1, <2>6
      <4>2. i = k
        BY <3>2, <3>4, <4>1
      <4>3. t = x => j \in Nat /\ n \in Nat
        BY <1>4
      <4> QED
        BY <3>1, <4>1, <4>2, <4>3
    <3> QED
      BY <3>2, <3>3, <3>4
  <2>8. ClearPending(t)'
    BY <2>1, <2>2, <2>3, <2>6 DEF LinkStores, ClearPending
  <2>9. LoweringPending(t)'
    BY <2>1, <2>2, <2>3, <2>6 DEF LinkStores, LoweringPending
  <2>10. RaisePending(t)'
    <3> DEFINE m == Parent(t)
    <3> SUFFICES ASSUME NEW p \in Bit, NEW n \in DOMAIN buffer'[m],
                        buffer'[m][n].word = FlagTo(t, p), buffer'[m][n].value = 1
                 PROVE  /\ p = Phase(t) /\ Unseen(t)
                        /\ FLAG'[p][WaitLevel(t)][m] = 0
                        /\ \A k \in DOMAIN buffer'[m] : buffer'[m][k].word = FlagTo(t, p) => k = n
      BY <2>2 DEF RaisePending
    <3>1. PICK k \in DOMAIN buffer[m] :
            /\ buffer'[m][n] = buffer[m][k] /\ (m = x => k = n + 1 /\ k # 1) /\ (m # x => k = n)
      BY <2>1, <2>6
    <3>2. /\ p = Phase(t) /\ Unseen(t)
          /\ FLAG[p][WaitLevel(t)][m] = 0
          /\ \A j \in DOMAIN buffer[m] : buffer[m][j].word = FlagTo(t, p) => j = k
      BY <2>1, <3>1 DEF LinkStores, RaisePending
    <3>3. FLAG'[p][WaitLevel(t)][m] = 0
      <4>1. w # FlagTo(t, p)
        BY <1>3, <1>4, <2>5, <3>1, <3>2
      <4> QED
        BY <2>4, <3>2, <4>1
    <3>4. ASSUME NEW j \in DOMAIN buffer'[m], buffer'[m][j].word = FlagTo(t, p)
          PROVE  j = n
      <4>1. PICK i \in DOMAIN buffer[m] :
              /\ buffer'[m][j] = buffer[m][i] /\ (m = x => i = j + 1) /\ (m # x => i = j)
        BY <2>1, <2>6
      <4>2. i = k
        BY <3>2, <3>4, <4>1
      <4>3. m = x => j \in Nat /\ n \in Nat
        BY <1>4
      <4> QED
        BY <3>1, <4>1, <4>2, <4>3
    <3> QED
      BY <3>2, <3>3, <3>4
  <2>11. RaiseComesLast(t)'
    <3> DEFINE m == Parent(t)
    <3> SUFFICES ASSUME Unseen(t), NEW p \in Bit, NEW n \in DOMAIN buffer'[m],
                        buffer'[m][n].word \in {CountFrom(t, p), FlagTo(t, p)}
                 PROVE  \E k \in DOMAIN buffer'[m] :
                          /\ k >= n
                          /\ buffer'[m][k].word = FlagTo(t, Phase(t))
                          /\ buffer'[m][k].value = 1
      BY <2>2 DEF RaiseComesLast
    <3>1. PICK j \in DOMAIN buffer[m] :
            /\ buffer'[m][n] = buffer[m][j] /\ (m = x => j = n + 1 /\ j # 1) /\ (m # x => j = n)
      BY <2>1, <2>6
    <3>2. PICK k \in DOMAIN buffer[m] :
            /\ k >= j
            /\ buffer[m][k].word = FlagTo(t, Phase(t))
            /\ buffer[m][k].value = 1
      BY <2>1, <3>1 DEF LinkStores, RaiseComesLast
    <3>3. CASE m # x
      BY <1>2, <2>1, <3>1, <3>2, <3>3
    <3>4. CASE m = x
      <4>1. n \in Nat \ {0} /\ k \in Nat /\ k >= n + 1
        BY <1>2, <1>4, <3>1, <3>2, <3>4
      <4>2. k - 1 \in DOMAIN buffer'[m] /\ k - 1 >= n /\ buffer'[m][k - 1] = buffer[m][k]
        BY <1>4, <3>4, <4>1
      <4> QED
        BY <3>2, <4>2
    <3> QED
      BY <3>3, <3>4
  <2> QED
    BY <2>7, <2>8, <2>9, <2>10, <2>11 DEF LinkStores
<1> QED
  BY <1>6, <1>7

(* Types of the memory and of the buffers; those of the locals come with   *)
(* the invariant of GroupBarrier.                                          *)
LEMMA LocalTypes ==
  (InOrder!TypeOK => /\ TURN \in [ID -> Bit] /\ pc \in [ID -> PC] /\ LEVEL \in [ID -> Level]
                     /\ SET \in [ID -> Nat \ {0}] /\ calls \in [ID -> Nat] /\ returns \in [ID -> Nat])'
BY DEF PC, ID, Level, Bit, InOrder!TypeOK, InOrder!PC, InOrder!ID, InOrder!Level, InOrder!Bit

LEMMA BufferTypes ==
  ASSUME TSOInv, TSONext
  PROVE  /\ FLAG' \in [Bit -> [Level -> [ID -> Bit]]] /\ COUNT' \in [Bit -> [Level -> [ID -> Bit]]]
         /\ buffer' \in [ID -> Seq([word : Word, value : Bit])]
<1>1. TSOTypeOK /\ TypeOK /\ Control /\ 0 \in Bit /\ 1 \in Bit
  BY SettledFacts DEF TSOInv, TSOTypeOK, Bit
<1>2. ASSUME UNCHANGED <<FLAG, COUNT, buffer>>
      PROVE  /\ FLAG' \in [Bit -> [Level -> [ID -> Bit]]] /\ COUNT' \in [Bit -> [Level -> [ID -> Bit]]]
             /\ buffer' \in [ID -> Seq([word : Word, value : Bit])]
  BY <1>1, <1>2 DEF TSOTypeOK, TypeOK
<1>3. ASSUME NEW x \in ID, NEW w \in Word, NEW v \in Bit, Store(x, w, v), UNCHANGED <<FLAG, COUNT>>
      PROVE  /\ FLAG' \in [Bit -> [Level -> [ID -> Bit]]] /\ COUNT' \in [Bit -> [Level -> [ID -> Bit]]]
             /\ buffer' \in [ID -> Seq([word : Word, value : Bit])]
  BY <1>1, <1>3, StoreFacts DEF TSOTypeOK, TypeOK
<1>4. ASSUME NEW x \in ID
      PROVE  Phase(x) \in Bit /\ Other(Phase(x)) \in Bit /\ LEVEL[x] \in Level
  BY <1>1, PhaseType DEF TypeOK
<1>5. ASSUME NEW x \in ID, BufferSetCount(x) \/ BufferResetFlag(x) \/ BufferSetFlag(x)
      PROVE  \E w \in Word, v \in Bit : Store(x, w, v) /\ UNCHANGED <<FLAG, COUNT>>
  BY <1>1, <1>4, <1>5, WordFacts DEF BufferSetCount, BufferResetFlag, BufferSetFlag, words
<1>6. ASSUME NEW x \in ID, BufferClearCount(x)
      PROVE  \E w \in Word, v \in Bit : Store(x, w, v) /\ UNCHANGED <<FLAG, COUNT>>
  <2>1. CHILD(x) \in ID
    BY <1>6, ClearCountMap, TreeFacts
  <2>2. Count(Other(Phase(x)), LEVEL[x], CHILD(x)) \in Word
    BY <1>4, <2>1, WordFacts
  <2> QED
    BY <1>1, <1>6, <2>2 DEF BufferClearCount, words
<1>7. ASSUME NEW x \in ID, Drain(x)
      PROVE  /\ FLAG' \in [Bit -> [Level -> [ID -> Bit]]] /\ COUNT' \in [Bit -> [Level -> [ID -> Bit]]]
             /\ buffer' \in [ID -> Seq([word : Word, value : Bit])]
  BY <1>1, <1>7, DrainFacts, DrainMemory
<1>8. ASSUME NEW x \in ID,
             Enter(x) \/ Climb(x), UNCHANGED buffer
      PROVE  UNCHANGED <<FLAG, COUNT, buffer>>
  BY <1>8 DEF Enter, Climb, words
<1>9. ASSUME NEW x \in ID, LoadFlag(x) \/ LoadCount(x) \/ SpinTSO(x)
      PROVE  UNCHANGED <<FLAG, COUNT, buffer>>
  BY <1>9 DEF LoadFlag, LoadCount, SpinTSO, tsoVars, vars, words
<1> QED
  BY <1>2, <1>3, <1>5, <1>6, <1>7, <1>8, <1>9 DEF TSONext, StepTSO, tsoVars, vars, words

LEMMA TSOInitMap == TSOInit => InOrder!Init
<1> SUFFICES ASSUME TSOInit PROVE InOrder!Init
  OBVIOUS
<1>1. Init /\ \A x \in ID : buffer[x] = <<>> /\ DOMAIN buffer[x] = {}
  BY DEF TSOInit
<1>2. ASSUME NEW p \in Bit, NEW l \in Level, NEW i \in ID
      PROVE  ~Raised(p, l, i) /\ ~Announced(p, l, i)
  BY <1>1, <1>2 DEF Raised, Announced, PendingCount, Init
<1>3. /\ SettledFlag  = [p \in Bit |-> [l \in Level |-> [t \in ID |-> 0]]]
      /\ SettledCount = [p \in Bit |-> [l \in Level |-> [t \in ID |-> 0]]]
  BY <1>2 DEF SettledFlag, SettledCount
<1> QED
  BY <1>1, <1>3 DEF Init, ID, Level, Bit, InOrder!Init, InOrder!ID, InOrder!Level, InOrder!Bit

LEMMA TSOInitInv == TSOInit => TSOInv
<1> SUFFICES ASSUME TSOInit PROVE TSOInv
  OBVIOUS
<1>1. /\ Init /\ \A x \in ID : buffer[x] = <<>> /\ DOMAIN buffer[x] = {}
      /\ buffer \in [ID -> Seq([word : Word, value : Bit])]
  BY DEF TSOInit
<1>2. TSOTypeOK
  BY <1>1, InitInv DEF IInv, TSOTypeOK
<1>3. OwnStores
  BY <1>1 DEF OwnStores
<1>4. ASSUME NEW t \in Child PROVE LinkStores(t)
  <2>1. DOMAIN buffer[t] = {} /\ DOMAIN buffer[Parent(t)] = {}
    BY <1>1, TreeFacts
  <2> QED
    BY <2>1 DEF LinkStores, ArrivalPending, ClearPending, LoweringPending, RaisePending, RaiseComesLast
<1> QED
  BY <1>2, <1>3, <1>4, TSOInitMap, SettledInit DEF TSOInv

LEMMA TSOInductiveStep == TSOInv /\ [TSONext]_tsoVars => TSOInv'
<1> SUFFICES ASSUME TSOInv, [TSONext]_tsoVars PROVE TSOInv'
  OBVIOUS
<1>1. InOrder!IInv'
  BY StepMap, SettledStep DEF TSOInv
<1>2. CASE UNCHANGED tsoVars
  <2>1. TSOTypeOK'
    BY <1>2 DEF TSOInv, TSOTypeOK, TypeOK, tsoVars, vars, words, locals, history
  <2>2. OwnStores'
    BY <1>2 DEF TSOInv, OwnStores, tsoVars
  <2>3. ASSUME NEW t \in Child PROVE LinkStores(t)'
    <3>1. NoNewStore(t, t) /\ NoNewStore(Parent(t), t)
      BY <1>2, SameBuffers DEF tsoVars
    <3> QED
      BY <1>2, <3>1, LinkElsewhere DEF tsoVars, vars, words, locals, history
  <2> QED
    BY <1>1, <2>1, <2>2, <2>3 DEF TSOInv
<1>3. CASE TSONext /\ ~UNCHANGED tsoVars
  <2>1. TSOTypeOK'
    <3>1. InOrder!TypeOK'
      BY <1>1 DEF InOrder!IInv
    <3> QED
      BY <1>3, <3>1, LocalTypes, BufferTypes DEF TSOTypeOK, TypeOK
  <2>2. OwnStores' /\ \A t \in Child : LinkStores(t)'
    <3>1. ASSUME NEW x \in ID, UNCHANGED buffer
          PROVE  OwnStores'
      BY <3>1 DEF TSOInv, OwnStores
    <3>2. PICK x \in ID : StepTSO(x) \/ Drain(x)
      BY <1>3 DEF TSONext
    <3>3. CASE Drain(x)
      BY <3>3, DrainStores
    <3>4. CASE UNCHANGED buffer /\ (Enter(x) \/ Climb(x))
      BY <3>1, <3>4, EnterStores, ClimbStores
    <3>5. CASE LoadFlag(x) \/ LoadCount(x)
      <4>1. UNCHANGED buffer
        BY <3>5 DEF LoadFlag, LoadCount
      <4> QED
        BY <3>1, <3>5, <4>1, LoadFlagStores, LoadCountStores
    <3>6. CASE BufferSetCount(x) \/ BufferClearCount(x) \/ BufferResetFlag(x) \/ BufferSetFlag(x)
      BY <3>6, SetCountStores, ClearCountStores, ResetFlagStores, SetFlagStores
    <3> QED
      BY <1>3, <3>2, <3>3, <3>4, <3>5, <3>6 DEF StepTSO, SpinTSO
  <2> QED
    BY <1>1, <2>1, <2>2 DEF TSOInv
<1> QED
  BY <1>2, <1>3

-----------------------------------------------------------------------------
(* The results. *)

(* With a store buffer per thread, the barrier on the settled words is in  *)
(* the states of GroupBarrier, and only stores of the round a thread is in *)
(* can be between it and its master.                                       *)
THEOREM TSOInvariance == TSOSpec => []TSOInv
BY TSOInitInv, TSOInductiveStep, PTL DEF TSOSpec

(* Every store that waits in a buffer, and every word, keeps its type: no  *)
(* store of TREE_BARRIER or USER_BARRIER leaves the arrays.                *)
THEOREM TSOTypeCorrect == TSOSpec => []TSOTypeOK
<1>1. TSOInv => TSOTypeOK
  BY DEF TSOInv
<1> QED
  BY <1>1, TSOInvariance, PTL

(* While a thread waits, no clear of its arrival word and no lowering of   *)
(* its release word that is older than the release is on the way.          *)
THEOREM NoStaleStoreHolds == TSOSpec => []NoStaleStore
<1>1. TSOInv => NoStaleStore
  <2> SUFFICES ASSUME TSOInv, NEW t \in ID, pc[t] = "await_flag"
               PROVE  /\ \A m \in ID \ {t} : \A n \in DOMAIN buffer[m] :
                           buffer[m][n].word # Count(Phase(t), LEVEL[t], t)
                      /\ \A n \in DOMAIN buffer[MASTER[LEVEL[t]][t]] :
                           buffer[MASTER[LEVEL[t]][t]][n].word
                               = Flag(Phase(t), LEVEL[t], MASTER[LEVEL[t]][t])
                             => buffer[MASTER[LEVEL[t]][t]][n].value = 1
    BY DEF NoStaleStore, NoClearPending, NoStaleLowering
  <2>1. TypeOK /\ Control
    BY SettledFacts DEF TSOInv, TSOTypeOK
  <2>2. t \in Child /\ LEVEL[t] = WaitLevel(t) /\ MASTER[LEVEL[t]][t] = Parent(t)
    BY <2>1, WaiterFacts DEF Control, ControlOf
  <2>3. /\ TSOTypeOK /\ OwnStores /\ LinkStores(t) /\ Phase(t) \in Bit /\ Parent(t) \in ID
        /\ Phase(t) # Other(Phase(t))
    BY <2>2, LinkFacts DEF Other, Bit
  <2>4. ASSUME NEW m \in ID \ {t}, NEW n \in DOMAIN buffer[m],
               buffer[m][n].word = Count(Phase(t), LEVEL[t], t)
        PROVE  FALSE
    <3>1. buffer[m][n].word = CountFrom(t, Phase(t))
      BY <2>2, <2>4 DEF CountFrom
    <3>2. m = Parent(t)
      BY <2>2, <2>3, <3>1, LinkOwner
    <3> QED
      BY <2>3, <3>1, <3>2 DEF LinkStores, ClearPending
  <2>5. ASSUME NEW n \in DOMAIN buffer[Parent(t)],
               buffer[Parent(t)][n].word = FlagTo(t, Phase(t))
        PROVE  buffer[Parent(t)][n].value = 1
    <3>1. buffer[Parent(t)][n].value = 0 \/ buffer[Parent(t)][n].value = 1
      BY <2>3, EntryFacts
    <3> QED
      BY <2>3, <2>5, <3>1 DEF LinkStores, LoweringPending
  <2> QED
    BY <2>2, <2>4, <2>5 DEF FlagTo
<1> QED
  BY <1>1, TSOInvariance, PTL

(* The barrier with store buffers implements the one whose stores take     *)
(* effect at once: a store maps to the step that stores, a load to the one *)
(* that loads, and a store that reaches memory to no step.                 *)
THEOREM InOrderImplementation == TSOSpec => ImplementsInOrder
BY TSOInitMap, StepMap, TSOInvariance, PTL DEF TSOSpec, ImplementsInOrder, InOrder!Spec

(* And so, without a fence, no thread returns from its n-th call before    *)
(* every thread has made its n-th call.                                    *)
THEOREM TSOSeparation == TSOSpec => []Separation
<1>1. InOrder!Spec <=> Settled!Spec
  BY SameInit, SameStep, PTL DEF InOrder!Spec, Settled!Spec
<1>2. Settled!Spec => []Settled!Separation
  BY Settled!SeparationHolds, SizeAssumption, SettledTree
<1>3. Settled!Separation => Separation
  BY DEF Settled!Separation, Separation, Settled!ID, ID
<1> QED
  BY <1>1, <1>2, <1>3, InOrderImplementation, PTL DEF ImplementsInOrder

(* It implements the abstract barrier of PhasedBarrier. *)
THEOREM TSOImplementation == TSOSpec => Abstract!Spec
<1>1. InOrder!Spec <=> Settled!Spec
  BY SameInit, SameStep, PTL DEF InOrder!Spec, Settled!Spec
<1>2. Settled!Spec => Settled!Abstract!Spec
  BY Settled!Implementation, SizeAssumption, SettledTree DEF Settled!ImplementsBarrier
<1>3. Settled!Abstract!Spec <=> Abstract!Spec
  <2>1. Settled!Abstract!Init <=> Abstract!Init
    BY DEF Settled!Abstract!Init, Abstract!Init, Settled!ID, ID
  <2>2. [Settled!Abstract!Next]_(Settled!Abstract!barrierVars) <=> [Abstract!Next]_(Abstract!barrierVars)
    BY DEF Settled!Abstract!Next, Settled!Abstract!Call, Settled!Abstract!Return,
           Settled!Abstract!Outside, Settled!Abstract!barrierVars,
           Abstract!Next, Abstract!Call, Abstract!Return, Abstract!Outside, Abstract!barrierVars,
           Settled!ID, ID
  <2> QED
    BY <2>1, <2>2, PTL DEF Settled!Abstract!Spec, Abstract!Spec
<1> QED
  BY <1>1, <1>2, <1>3, InOrderImplementation, PTL DEF ImplementsInOrder

-----------------------------------------------------------------------------
(* Why the calls return, with store buffers: GroupBarrierProofs says what  *)
(* is behind the three facts.                                              *)

(* The guard of SpinTSO: a load of the word t waits for returns 0. *)
WaitsTSO(t) ==
  \/ /\ pc[t] = "gather" /\ ~WAITER(t) /\ MoreChildren(t)
     /\ Load(t, Count(Phase(t), LEVEL[t], CHILD(t)), 0)
  \/ /\ pc[t] = "await_flag"
     /\ Load(t, Flag(Phase(t), LEVEL[t], MASTER[LEVEL[t]][t]), 0)
ReadyTSO(t) == ~WaitsTSO(t) /\ ~Finished(t)

LEMMA TSOBoundedStep == TSOInv /\ Bounded /\ [TSONext]_tsoVars => Bounded'
<1> SUFFICES ASSUME TSOInv, Bounded, [TSONext]_tsoVars PROVE Bounded'
  OBVIOUS
<1>1. Settled!IInv /\ [Settled!Next]_(Settled!vars)
  BY StepMap, SameInvariant, SameStep DEF TSOInv
<1>2. Settled!Bounded /\ (Settled!Bounded' => Bounded')
  BY DEF Settled!Bounded, Bounded, Settled!ID, ID
<1>3. Settled!Bounded'
  BY <1>1, <1>2, Settled!BoundedStep, SizeAssumption, SettledTree
<1> QED
  BY <1>2, <1>3

(* When no store is pending, memory is in a state of GroupBarrier. *)
LEMMA Drained ==
  ASSUME TSOInv, \A t \in ID : buffer[t] = <<>>
  PROVE  IInv
<1>t. TSOTypeOK /\ TypeOK /\ InOrder!IInv /\ \A t \in ID : DOMAIN buffer[t] = {}
  BY DEF TSOInv, TSOTypeOK
<1>1. ASSUME NEW p \in Bit, NEW l \in Level, NEW m \in ID
      PROVE  SettledFlag[p][l][m] = FLAG[p][l][m] /\ SettledCount[p][l][m] = COUNT[p][l][m]
  <2>1. FLAG[p][l][m] \in Bit /\ COUNT[p][l][m] \in Bit
    BY <1>t DEF TypeOK
  <2>2. Raised(p, l, m) <=> FLAG[p][l][m] = 1
    BY <1>t DEF Raised, RaisedAfter
  <2>3. Announced(p, l, m) <=> COUNT[p][l][m] = 1
    BY <1>t DEF Announced, PendingCount
  <2> QED
    BY <2>1, <2>2, <2>3, SettledValue DEF Bit
<1>2. Control /\ \A t \in Child : InStep(t)
  BY <1>t, SettledFacts
<1>3. ASSUME NEW t \in Child PROVE FlagOf(t) /\ CountOf(t)
  <2>1. /\ t \in ID /\ Parent(t) \in ID /\ WaitLevel(t) \in Level
        /\ Phase(t) \in Bit /\ Other(Phase(t)) \in Bit
    BY <1>t, TreeFacts, PhaseType
  <2>2. CountOf(t)
    BY <1>t, <1>1, <2>1, SettledFacts DEF CountOf
  <2>3. FlagOf(t)
    BY <1>t, <1>1, <2>1, SettledFacts DEF FlagOf
  <2> QED
    BY <2>2, <2>3
<1> QED
  BY <1>t, <1>2, <1>3 DEF IInv, Linked

LEMMA TSOSomeoneMoves ==
  TSOInv /\ Bounded => Done \/ \E t \in ID : ReadyTSO(t) \/ buffer[t] # <<>>
<1> SUFFICES ASSUME TSOInv, Bounded, \A t \in ID : buffer[t] = <<>>
             PROVE  Done \/ \E t \in ID : ReadyTSO(t)
  OBVIOUS
<1>1. ASSUME NEW t \in ID, WaitsTSO(t) PROVE Waits(t)
  <2>1. \A w : Load(t, w, 0) => 0 = Memory(w)
    <3>1. DOMAIN buffer[t] = {}
      OBVIOUS
    <3> QED
      BY <3>1 DEF Load
  <2>2. \A p, l, i : Memory(Flag(p, l, i)) = FLAG[p][l][i] /\ Memory(Count(p, l, i)) = COUNT[p][l][i]
    BY WordFields DEF Memory
  <2> QED
    BY <1>1, <2>1, <2>2 DEF WaitsTSO, Waits
<1>2. Done \/ \E t \in ID : Ready(t)
  BY Drained, SomeoneMoves
<1> QED
  BY <1>1, <1>2 DEF Ready, ReadyTSO

(* With store buffers, too, the wait loops never hold every thread: as     *)
(* long as a call is outstanding a thread can go on or a store is on its   *)
(* way to memory.                                                          *)
THEOREM TSOSomeoneReady == TSOSpec => [](Done \/ \E t \in ID : ReadyTSO(t) \/ buffer[t] # <<>>)
<1>1. TSOInit => TSOInv /\ Bounded
  BY TSOInitInv, BoundedInit DEF TSOInit
<1>2. (TSOInv /\ Bounded) /\ [TSONext]_tsoVars => (TSOInv /\ Bounded)'
  BY TSOInductiveStep, TSOBoundedStep
<1> QED
  BY <1>1, <1>2, TSOSomeoneMoves, PTL DEF TSOSpec

(* A thread that can go on can do so until it does, whatever reaches       *)
(* memory meanwhile.                                                       *)
ReadyStaysTSO ==
  [][\A t \in ID : ReadyTSO(t) /\ UNCHANGED At(t) => ReadyTSO(t)']_tsoVars

(* A load that cannot return 0 returns 1, and stays able to: the step of   *)
(* another thread does not touch the thread's buffer, and the store that   *)
(* reaches memory, if any, is not a 0 for that word.                       *)
LEMMA LoadStays ==
  ASSUME TSOInv, [TSONext]_tsoVars, NEW t \in ID, NEW w \in Word,
         ~Load(t, w, 0),
         \A n \in DOMAIN buffer[t] : buffer[t][n].word = w => buffer[t][n].value = 0,
         \A x \in ID \ {t} : \A n \in DOMAIN buffer[x] :
           buffer[x][n].word = w => buffer[x][n].value = 1,
         \A x \in ID : StepTSO(x) => x # t
  PROVE  ~Load(t, w, 0)'
<1> DEFINE IsFree == \A n \in DOMAIN buffer[t] : buffer[t][n].word # w
<1>t. TSOTypeOK /\ TypeOK /\ w.phase \in Bit /\ w.level \in Level /\ w.id \in ID
  BY WordCases DEF TSOInv, TSOTypeOK
<1>1. IsFree
  <2> SUFFICES ASSUME NEW n \in DOMAIN buffer[t], buffer[t][n].word = w PROVE FALSE
    OBVIOUS
  <2>2. PICK N \in Nat : DOMAIN buffer[t] = 1 .. N /\ N = Len(buffer[t])
    <3> DEFINE S == [word : Word, value : Bit]
    <3>1. buffer[t] \in Seq(S)
      BY <1>t DEF TSOTypeOK
    <3>2. Len(buffer[t]) \in Nat /\ DOMAIN buffer[t] = 1 .. Len(buffer[t])
      <4> HIDE DEF S
      <4> QED
        BY <3>1
    <3> QED
      BY <3>2
  <2> DEFINE T == {k \in Nat : \E j \in 1 .. N : buffer[t][j].word = w /\ k = N - j}
  <2>3. T # {} /\ T \subseteq Nat
    <3>1. n \in 1 .. N /\ N - n \in Nat
      BY <2>2
    <3> QED
      BY <3>1
  <2>4. PICK k \in T : \A j \in T : k <= j
    <3> HIDE DEF T
    <3> QED
      BY <2>3, LeastNat
  <2>5. PICK j \in DOMAIN buffer[t] : buffer[t][j].word = w /\ k = N - j
    BY <2>2, <2>4
  <2>6. ASSUME NEW i \in DOMAIN buffer[t], i > j, buffer[t][i].word = w PROVE FALSE
    <3>0. i \in 1 .. N /\ j \in 1 .. N
      BY <2>2
    <3>1. i \in 1 .. N /\ N - i \in Nat /\ N - i < N - j /\ N - j \in Nat
      BY <2>6, <3>0
    <3>2. N - i \in T
      BY <2>6, <3>1
    <3> QED
      BY <2>4, <2>5, <3>1, <3>2
  <2>7. buffer[t][j].value = 0
    BY <2>5
  <2> QED
    BY <2>5, <2>6, <2>7 DEF Load
<1>2. Memory(w) # 0
  BY <1>1 DEF Load
<1>3. CASE UNCHANGED tsoVars
  BY <1>3 DEF Load, Memory, tsoVars, vars, words
<1>4. ASSUME NEW x \in ID, StepTSO(x) PROVE ~Load(t, w, 0)'
  <2>1. x # t
    BY <1>4
  <2>2. buffer'[t] = buffer[t]
    <3>1. CASE UNCHANGED buffer
      BY <3>1
    <3>2. CASE BufferSetCount(x) \/ BufferClearCount(x) \/ BufferResetFlag(x) \/ BufferSetFlag(x)
      BY <1>t, <2>1, <3>2 DEF BufferSetCount, BufferClearCount, BufferResetFlag, BufferSetFlag, Store, TSOTypeOK
    <3> QED
      BY <1>4, <3>1, <3>2 DEF StepTSO, LoadFlag, LoadCount, SpinTSO, tsoVars
  <2>3. FLAG' = FLAG /\ COUNT' = COUNT
    BY <1>4 DEF StepTSO, Enter, Climb, BufferSetCount, LoadFlag, LoadCount, BufferClearCount,
       BufferResetFlag, BufferSetFlag, SpinTSO, tsoVars, vars, words
  <2> QED
    BY <1>1, <1>2, <2>2, <2>3 DEF Load, Memory
<1>5. ASSUME NEW x \in ID, Drain(x) PROVE ~Load(t, w, 0)'
  <2>1. PICK N \in Nat \ {0} :
              /\ DOMAIN buffer[x] = 1 .. N
              /\ DOMAIN buffer'[x] = 1 .. N - 1
              /\ \A n \in 1 .. N - 1 : buffer'[x][n] = buffer[x][n + 1]
    BY <1>t, <1>5, DrainFacts
  <2>2. \A n \in DOMAIN buffer'[t] : buffer'[t][n].word # w
    <3>1. CASE x = t
      <4>1. \A n \in 1 .. N - 1 : n + 1 \in 1 .. N
        OBVIOUS
      <4> QED
        BY <1>1, <2>1, <3>1, <4>1
    <3>2. CASE x # t
      BY <1>t, <1>1, <1>5, <3>2, DrainFacts
    <3> QED
      BY <3>1, <3>2
  <2>3. Memory(w)' # 0
    <3>1. 1 \in DOMAIN buffer[x]
      BY <2>1
    <3>2. buffer[x][1].word = w => buffer[x][1].value = 1
      BY <1>1, <3>1
    <3>3. /\ w.array \in {"FLAG", "COUNT"}
          /\ w.array = "FLAG" => w = Flag(w.phase, w.level, w.id)
          /\ w.array = "COUNT" => w = Count(w.phase, w.level, w.id)
      BY WordCases
    <3>4. /\ FLAG'[w.phase][w.level][w.id] = IF buffer[x][1].word = Flag(w.phase, w.level, w.id)
                                 THEN buffer[x][1].value ELSE FLAG[w.phase][w.level][w.id]
          /\ COUNT'[w.phase][w.level][w.id] = IF buffer[x][1].word = Count(w.phase, w.level, w.id)
                                  THEN buffer[x][1].value ELSE COUNT[w.phase][w.level][w.id]
      BY <1>t, <1>5, DrainMemory
    <3> QED
      BY <1>2, <3>2, <3>3, <3>4 DEF Memory
  <2> QED
    BY <2>2, <2>3 DEF Load
<1> QED
  BY <1>3, <1>4, <1>5 DEF TSONext, tsoVars

(* A load that would end a wait loop still does when it is delayed: no     *)
(* store that leaves a buffer late takes the word down again.              *)
THEOREM ReadyStaysTSOHolds == TSOSpec => ReadyStaysTSO
<1> DEFINE A == \A t \in ID : ReadyTSO(t) /\ UNCHANGED At(t) => ReadyTSO(t)'
<1>1. (TSOInv /\ NoStaleStore) /\ [TSONext]_tsoVars => [A]_tsoVars
  <2> SUFFICES ASSUME TSOInv, NoStaleStore, TSONext, NEW t \in ID, ReadyTSO(t), UNCHANGED At(t),
                      ~UNCHANGED tsoVars
               PROVE  ReadyTSO(t)'
    OBVIOUS
  <2>t. TSOTypeOK /\ TypeOK /\ Control /\ OwnStores
    BY SettledFacts DEF TSOInv, TSOTypeOK
  <2>a. pc'[t] = pc[t] /\ LEVEL'[t] = LEVEL[t] /\ SET'[t] = SET[t] /\ calls'[t] = calls[t]
    BY DEF At
  <2>f. ~Finished(t)'
    BY <2>a DEF ReadyTSO, Finished
  <2>w. WAITER(t)' = WAITER(t) /\ MoreChildren(t)' = MoreChildren(t) /\ CHILD(t)' = CHILD(t)
    BY <2>a DEF WAITER, MoreChildren, CHILD
  <2>p. TURN'[t] = TURN[t]
    <3>1. ASSUME NEW x \in ID, Enter(x) PROVE TURN'[t] = TURN[t]
      <4>1. x # t
        BY <2>t, <2>a, <3>1 DEF Enter, TypeOK
      <4> QED
        BY <2>t, <3>1, <4>1 DEF Enter, TypeOK
    <3> QED
      BY <3>1 DEF TSONext, StepTSO, SpinTSO, tsoVars, vars, words, BufferSetCount, LoadFlag, LoadCount,
         BufferClearCount, BufferResetFlag, BufferSetFlag, Climb, Drain, Commit
  <2>q. Phase(t)' = Phase(t) /\ Phase(t) \in Bit /\ LEVEL[t] \in Level
    BY <2>t, <2>p, PhaseType DEF Phase, TypeOK
  <2>1. CASE pc[t] = "gather" /\ ~WAITER(t) /\ MoreChildren(t)
    <3>0. LEVEL[t] < WaitLevel(t)
      BY <2>t, <2>1, WaiterFacts DEF Climbing
    <3>1. CHILD(t) \in Child /\ Parent(CHILD(t)) = t /\ CHILD(t) \in ID /\ CHILD(t) # t
      BY <2>t, <2>1, <3>0, ChildFacts, TreeFacts
    <3>2. PICK w \in Word : w = Count(Phase(t), LEVEL[t], CHILD(t))
      BY <2>q, <3>1, WordFacts
    <3>3. ~Load(t, w, 0)
      BY <2>1, <3>2 DEF ReadyTSO, WaitsTSO
    <3>4. \A x \in ID : \A n \in DOMAIN buffer[x] : buffer[x][n].word = w =>
            buffer[x][n].value = IF x = t THEN 0 ELSE 1
      BY <2>t, <3>1, <3>2, OwnerFacts
    <3>5. ASSUME StepTSO(t) PROVE FALSE
      <4>1. LoadCount(t) \/ SpinTSO(t)
        BY <2>1, <3>5 DEF StepTSO, Enter, Climb, BufferSetCount, LoadFlag, BufferClearCount, BufferResetFlag, BufferSetFlag
      <4>2. LoadCount(t) => pc'[t] = "clear_count"
        BY <2>t DEF LoadCount, Goto, TypeOK
      <4> QED
        BY <2>1, <2>a, <4>1, <4>2 DEF SpinTSO
    <3>6. ~Load(t, w, 0)'
      BY <3>3, <3>4, <3>5, LoadStays
    <3>7. Load(t, Count(Phase(t), LEVEL[t], CHILD(t)), 0)' <=> Load(t, w, 0)'
      BY <2>a, <2>q, <2>w, <3>2
    <3> QED
      BY <2>1, <2>a, <2>f, <2>w, <3>6, <3>7 DEF ReadyTSO, WaitsTSO
  <2>2. CASE pc[t] = "await_flag"
    <3> DEFINE m == MASTER[LEVEL[t]][t]
    <3>1. t \in Child /\ LEVEL[t] = WaitLevel(t) /\ m = Parent(t) /\ m \in ID /\ m # t
      BY <2>t, <2>2, WaiterFacts, TreeFacts DEF Control, ControlOf
    <3>2. PICK w \in Word : w = Flag(Phase(t), LEVEL[t], m)
      BY <2>q, <3>1, WordFacts
    <3>3. ~Load(t, w, 0)
      BY <2>2, <3>2 DEF ReadyTSO, WaitsTSO
    <3>4. \A x \in ID : \A n \in DOMAIN buffer[x] : buffer[x][n].word = w =>
            x = m /\ buffer[x][n].value = 1
      BY <2>t, <2>2, <3>1, <3>2, OwnerFacts DEF NoStaleStore, NoStaleLowering
    <3>5. ASSUME StepTSO(t) PROVE FALSE
      <4>1. LoadFlag(t) \/ SpinTSO(t)
        BY <2>2, <3>5 DEF StepTSO, Enter, Climb, BufferSetCount, LoadCount, BufferClearCount, BufferResetFlag, BufferSetFlag
      <4>2. LoadFlag(t) => pc'[t] # "await_flag"
        BY <2>t DEF LoadFlag, ReleaseBelow, Goto, TypeOK
      <4> QED
        BY <2>2, <2>a, <4>1, <4>2 DEF SpinTSO
    <3>6. ~Load(t, w, 0)'
      BY <3>1, <3>3, <3>4, <3>5, LoadStays
    <3>7. Load(t, Flag(Phase(t), LEVEL[t], MASTER[LEVEL[t]][t]), 0)' <=> Load(t, w, 0)'
      BY <2>a, <2>q, <3>2
    <3> QED
      BY <2>2, <2>a, <2>f, <3>6, <3>7 DEF ReadyTSO, WaitsTSO
  <2>3. CASE ~(pc[t] = "gather" /\ ~WAITER(t) /\ MoreChildren(t)) /\ pc[t] # "await_flag"
    BY <2>3, <2>a, <2>f, <2>w DEF ReadyTSO, WaitsTSO
  <2> QED
    BY <2>1, <2>2, <2>3
<1> QED
  BY <1>1, TSOInvariance, NoStaleStoreHolds, PTL DEF TSOSpec, ReadyStaysTSO

(* Every store a thread makes is one more step to come, when it leaves the *)
(* buffer.                                                                 *)
Paid(t) == 2 * Spent(t) - Len(buffer[t])
SpendsTSO ==
  [][\E t \in ID : Paid(t) < Paid(t)' /\ \A u \in ID \ {t} : Paid(u)' = Paid(u)]_tsoVars

LEMMA BufferLength ==
  ASSUME TSOTypeOK, NEW x \in ID
  PROVE  /\ Len(buffer[x]) \in Nat
         /\ Drain(x) => /\ Len(buffer'[x]) = Len(buffer[x]) - 1
                        /\ \A y \in ID \ {x} : buffer'[y] = buffer[y]
         /\ \A w, v : Store(x, w, v) => /\ Len(buffer'[x]) = Len(buffer[x]) + 1
                                        /\ \A y \in ID \ {x} : buffer'[y] = buffer[y]
<1> DEFINE S == [word : Word, value : Bit]
<1>1. buffer \in [ID -> Seq(S)] /\ buffer[x] \in Seq(S)
  BY DEF TSOTypeOK
<1>2. Len(buffer[x]) \in Nat
  <2> HIDE DEF S
  <2> QED
    BY <1>1
<1>3. ASSUME Drain(x)
      PROVE  Len(buffer'[x]) = Len(buffer[x]) - 1 /\ \A y \in ID \ {x} : buffer'[y] = buffer[y]
  <2>1. buffer[x] # <<>> /\ buffer' = [buffer EXCEPT ![x] = Tail(buffer[x])]
    BY <1>3 DEF Drain
  <2>2. Len(Tail(buffer[x])) = Len(buffer[x]) - 1
    <3> HIDE DEF S
    <3> QED
      BY <1>1, <2>1, HeadTailProperties
  <2> QED
    BY <1>1, <2>1, <2>2
<1>4. ASSUME NEW w, NEW v, Store(x, w, v)
      PROVE  Len(buffer'[x]) = Len(buffer[x]) + 1 /\ \A y \in ID \ {x} : buffer'[y] = buffer[y]
  <2>1. buffer' = [buffer EXCEPT ![x] = Append(buffer[x], [word |-> w, value |-> v])]
    BY <1>4 DEF Store
  <2>2. Len(Append(buffer[x], [word |-> w, value |-> v])) = Len(buffer[x]) + 1
    <3> HIDE DEF S
    <3> QED
      BY <1>1
  <2> QED
    BY <1>1, <2>1, <2>2
<1> QED
  BY <1>2, <1>3, <1>4

(* The two instances are of the same module. *)
LEMMA SameThreadStep ==
  ASSUME NEW x \in ID, InOrder!Step(x)
  PROVE  Settled!Step(x)
BY DEF
 InOrder!ID, InOrder!Phase, InOrder!Other, InOrder!WAITER, InOrder!CHILD,
 InOrder!MoreChildren, InOrder!Step, InOrder!Enter,
 InOrder!SetCount, InOrder!AwaitFlag, InOrder!AwaitCount, InOrder!ClearCount, InOrder!Climb,
 InOrder!ResetFlag, InOrder!SetFlag, InOrder!Spin, InOrder!ReleaseBelow, InOrder!EnterLevel,
 InOrder!Goto, InOrder!vars, InOrder!words, InOrder!locals, InOrder!history,
 Settled!ID, Settled!Phase, Settled!Other, Settled!WAITER, Settled!CHILD,
 Settled!MoreChildren, Settled!Step, Settled!Enter,
 Settled!SetCount, Settled!AwaitFlag, Settled!AwaitCount, Settled!ClearCount, Settled!Climb,
 Settled!ResetFlag, Settled!SetFlag, Settled!Spin, Settled!ReleaseBelow, Settled!EnterLevel,
 Settled!Goto, Settled!vars, Settled!words, Settled!locals, Settled!history

LEMMA SameBudget ==
  /\ \A t \in ID : Settled!Spent(t) = Spent(t) /\ Settled!Spent(t)' = Spent(t)'
  /\ (Settled!Bounded <=> Bounded) /\ (Settled!Bounded' <=> Bounded')
BY DEF Settled!Spent, Settled!Offset, Settled!Climbing, Settled!Releasing, Settled!Length,
       Settled!Ascent, Settled!Bounded, Settled!ID,
       Spent, Offset, Climbing, Releasing, Length, Ascent, Bounded, ID

(* A step of a thread that is not a turn of a wait loop takes it onward,   *)
(* and leaves the others where they are.                                   *)
LEMMA TSOStepSpends ==
  ASSUME TSOInv, Bounded, TSOInv', Bounded', NEW x \in ID, StepTSO(x), ~SpinTSO(x)
  PROVE  Spent(x) < Spent(x)' /\ \A u \in ID \ {x} : Spent(u)' = Spent(u)
<1>t. TypeOK /\ x \in Settled!ID
  BY DEF TSOInv, TSOTypeOK, Settled!ID, ID
<1>1. Settled!Step(x)
  <2>1. InOrder!Step(x)
    BY EnterClimbMap, SetCountMap, AwaitFlagMap, AwaitCountMap, ClearCountMap,
       ResetFlagMap, SetFlagMap DEF StepTSO, InOrder!Step
  <2> QED
    BY <2>1, SameThreadStep
<1>2. ~Settled!Spin(x)
  <2>1. pc'[x] # pc[x] \/ LEVEL'[x] # LEVEL[x]
    <3>0. pc \in [ID -> PC] /\ LEVEL \in [ID -> Level] /\ LEVEL[x] \in Nat
      BY <1>t, IDFacts DEF TypeOK
    <3>1. CASE Enter(x)
      BY <3>0, <3>1 DEF Enter, Goto
    <3>2. CASE Climb(x)
      BY <3>0, <3>2 DEF Climb, ReleaseBelow, EnterLevel, Goto
    <3>3. CASE LoadFlag(x) \/ BufferSetFlag(x)
      BY <3>0, <3>3 DEF LoadFlag, BufferSetFlag, ReleaseBelow, Goto
    <3>4. CASE BufferSetCount(x) \/ LoadCount(x) \/ BufferClearCount(x) \/ BufferResetFlag(x)
      BY <3>0, <3>4 DEF BufferSetCount, LoadCount, BufferClearCount, BufferResetFlag, Goto
    <3> QED
      BY <3>1, <3>2, <3>3, <3>4 DEF StepTSO
  <2> QED
    BY <2>1 DEF Settled!Spin, Settled!vars, Settled!locals
<1>3. Settled!IInv /\ Settled!IInv' /\ Settled!TypeOK' /\ Settled!Bounded /\ Settled!Bounded'
  BY SameInvariant, SameBudget DEF TSOInv, Settled!IInv
<1>4. Settled!Spent(x) < Settled!Spent(x)'
  BY <1>t, <1>1, <1>2, <1>3, Settled!StepSpends, SizeAssumption, SettledTree
<1>5. \A u \in ID \ {x} : Settled!Spent(u)' = Settled!Spent(u)
  <2>1. Settled!ID = ID
    BY DEF Settled!ID, ID
  <2> QED
    BY <1>t, <1>1, <1>3, <2>1, Settled!OthersKeep, SizeAssumption, SettledTree
<1> QED
  BY <1>4, <1>5, SameBudget

(* With store buffers, too, a call is finite but for its wait loops: every *)
(* other step, that of a store to memory included, spends from a budget    *)
(* that is fixed in advance.                                               *)
THEOREM TSOBudgetHolds ==
  TSOSpec => SpendsTSO /\ [](\A t \in ID : Paid(t) \in Int /\ Paid(t) <= 2 * ((Rounds + 1) * Length))
<1> DEFINE B == \A t \in ID : Paid(t) \in Int /\ Paid(t) <= 2 * ((Rounds + 1) * Length)
           A == \E t \in ID : Paid(t) < Paid(t)' /\ \A u \in ID \ {t} : Paid(u)' = Paid(u)
<1>1. TSOInit => TSOInv /\ Bounded
  BY TSOInitInv, BoundedInit DEF TSOInit
<1>2. (TSOInv /\ Bounded) /\ [TSONext]_tsoVars => (TSOInv /\ Bounded)'
  BY TSOInductiveStep, TSOBoundedStep
<1>s. ASSUME TSOInv, Bounded, NEW t \in ID
      PROVE  Spent(t) \in Nat /\ Spent(t) <= (Rounds + 1) * Length /\ Len(buffer[t]) \in Nat
  <2>1. TypeOK /\ TSOTypeOK
    BY <1>s DEF TSOInv, TSOTypeOK
  <2>2. Spent(t) \in 0 .. (Rounds + 1) * Length
    BY <1>s, <2>1, SpentType
  <2>3. (Rounds + 1) * Length \in Nat
    BY TableSize, NextTimes
  <2> QED
    BY <2>1, <2>2, <2>3, BufferLength
<1>3. TSOInv /\ Bounded => B
  <2> SUFFICES ASSUME TSOInv, Bounded, NEW t \in ID
               PROVE  Paid(t) \in Int /\ Paid(t) <= 2 * ((Rounds + 1) * Length)
    OBVIOUS
  <2>1. PICK b \in Nat : b = (Rounds + 1) * Length
    BY TableSize, NextTimes
  <2>2. Spent(t) \in Nat /\ Spent(t) <= b /\ Len(buffer[t]) \in Nat
    BY <1>s, <2>1
  <2>3. Paid(t) \in Int /\ Paid(t) <= 2 * b
    BY <2>2 DEF Paid
  <2> QED
    BY <2>1, <2>3
<1>4. (TSOInv /\ Bounded) /\ [TSONext]_tsoVars => [A]_tsoVars
  <2> SUFFICES ASSUME TSOInv, Bounded, TSONext, ~UNCHANGED tsoVars PROVE A
    OBVIOUS
  <2>t. TSOInv' /\ Bounded' /\ TSOTypeOK
    BY <1>2 DEF TSOInv
  <2>n. \A t \in ID : /\ Spent(t) \in Nat /\ Len(buffer[t]) \in Nat
                      /\ Spent(t)' \in Nat /\ Len(buffer'[t]) \in Nat
    <3>1. ASSUME NEW t \in ID PROVE Spent(t)' \in Nat /\ Len(buffer'[t]) \in Nat
      <4>1. TypeOK' /\ TSOTypeOK'
        BY <2>t DEF TSOInv, TSOTypeOK
      <4>2. Len(buffer'[t]) \in Nat
        <5> DEFINE S == [word : Word, value : Bit]
        <5>1. buffer'[t] \in Seq(S)
          BY <4>1 DEF TSOTypeOK
        <5> HIDE DEF S
        <5> QED
          BY <5>1
      <4>3. Spent(t)' \in Nat
        <5>1. /\ LEVEL'[t] \in Nat /\ LEVEL'[t] < TOP /\ SET'[t] \in Nat /\ calls'[t] \in Nat
              /\ LEVEL'[t] * (MAX + 1) \in Nat
          BY <4>1, LevelTimes DEF TypeOK
        <5>2. Offset(t)' \in Nat
          BY <5>1, TableSize DEF Offset, Climbing, Releasing
        <5>3. calls'[t] * Length \in Nat
          BY <5>1, TableSize, NextTimes
        <5>4. Spent(t)' = calls'[t] * Length + Offset(t)'
          BY DEF Spent, Length, Ascent
        <5> QED
          BY <5>2, <5>3, <5>4
      <4> QED
        BY <4>2, <4>3
    <3> QED
      BY <1>s, <3>1
  <2>1. PICK x \in ID : StepTSO(x) \/ Drain(x)
    BY DEF TSONext
  <2>2. CASE Drain(x)
    <3>1. \A u \in ID : Spent(u)' = Spent(u)
      <4>1. pc' = pc /\ LEVEL' = LEVEL /\ SET' = SET /\ calls' = calls
        BY <2>2 DEF Drain, Commit, locals, history
      <4> QED
        BY <4>1 DEF Spent, Offset, Climbing, Releasing, Length, Ascent
    <3>2. Len(buffer'[x]) = Len(buffer[x]) - 1 /\ \A u \in ID \ {x} : buffer'[u] = buffer[u]
      BY <2>t, <2>2, BufferLength
    <3> QED
      BY <2>n, <3>1, <3>2 DEF Paid
  <2>3. CASE StepTSO(x)
    <3>1. ~SpinTSO(x)
      BY DEF SpinTSO
    <3>2. Spent(x) < Spent(x)' /\ \A u \in ID \ {x} : Spent(u)' = Spent(u)
      BY <2>t, <2>3, <3>1, TSOStepSpends
    <3>3. /\ Len(buffer'[x]) \in {Len(buffer[x]), Len(buffer[x]) + 1}
          /\ \A u \in ID \ {x} : buffer'[u] = buffer[u]
      <4>1. buffer' = buffer \/ \E w, v : Store(x, w, v)
        BY <2>3, <3>1 DEF StepTSO, LoadFlag, LoadCount, BufferSetCount, BufferClearCount,
           BufferResetFlag, BufferSetFlag
      <4> QED
        BY <2>t, <4>1, BufferLength
    <3> QED
      BY <2>n, <3>2, <3>3 DEF Paid
  <2> QED
    BY <2>1, <2>2, <2>3
<1> QED
  BY <1>1, <1>2, <1>3, <1>4, PTL DEF TSOSpec, SpendsTSO

=============================================================================
