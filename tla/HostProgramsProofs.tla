-------------------------- MODULE HostProgramsProofs --------------------------
(***************************************************************************)
(* What the runs check of the programs around the kernels, for any number  *)
(* of processes, of launches, of kernels in a queue and of threads, any    *)
(* grid of the searches and any parameters of the dispatch.                *)
(***************************************************************************)
EXTENDS HostPrograms, FiniteSetTheorems, SequenceTheorems, WellFoundedInduction, TLAPS

-----------------------------------------------------------------------------
(* AutotuneConfig.  First the operators: where the search ends, and what a *)
(* full disk leaves.                                                       *)

Exponent == 0 .. 13
Power(e) == 2 ^ e

(* The third number of the turn e, and the turns there are. *)
Third(e) == FirstThird * Power(e)
Exponents == {e \in Exponent : Third(e) <= LastThird}

(* The third numbers grow with the exponent. *)
LEMMA ThirdsGrow ==
  /\ Third(0) = FirstThird
  /\ \A e \in Exponent : Third(e) \in Nat /\ Third(e) >= FirstThird
  /\ \A d, e \in Exponent : d <= e => Third(d) <= Third(e)
<1>1. /\ Power(0) = 1 /\ Power(1) = 2 /\ Power(2) = 4 /\ Power(3) = 8 /\ Power(4) = 16
      /\ Power(5) = 32 /\ Power(6) = 64 /\ Power(7) = 128 /\ Power(8) = 256 /\ Power(9) = 512
      /\ Power(10) = 1024 /\ Power(11) = 2048 /\ Power(12) = 4096 /\ Power(13) = 8192
  BY DEF Power
<1>2. ASSUME NEW e \in Exponent
      PROVE  \/ e = 0 \/ e = 1 \/ e = 2 \/ e = 3 \/ e = 4 \/ e = 5 \/ e = 6
             \/ e = 7 \/ e = 8 \/ e = 9 \/ e = 10 \/ e = 11 \/ e = 12 \/ e = 13
  BY DEF Exponent
<1>3. \A e \in Exponent : Power(e) \in Nat \ {0}
  BY <1>1, <1>2
<1>4. ASSUME NEW d \in Exponent, NEW e \in Exponent, d <= e PROVE Power(d) <= Power(e)
  BY <1>1, <1>2, <1>4
<1>5. Third(0) = FirstThird
  BY <1>1, ConfigAssumption DEF Third
<1>6. ASSUME NEW e \in Exponent PROVE Third(e) \in Nat /\ Third(e) >= FirstThird
  <2>1. PICK a \in Nat \ {0} : a = Power(e)
    BY <1>3
  <2>2. QED
    BY <2>1, ConfigAssumption DEF Third
<1>7. ASSUME NEW d \in Exponent, NEW e \in Exponent, d <= e PROVE Third(d) <= Third(e)
  <2>1. PICK a \in Nat, b \in Nat : a = Power(d) /\ b = Power(e) /\ a <= b
    BY <1>3, <1>4, <1>7
  <2>2. FirstThird * a <= FirstThird * b
    BY <2>1, ConfigAssumption
  <2>3. QED
    BY <2>1, <2>2 DEF Third
<1>8. QED
  BY <1>5, <1>6, <1>7

(* The inner loop has as many turns as there are numbers up to LastThird,  *)
(* and comes to none beyond it.                                            *)
LEMMA TurnsFacts ==
  /\ Turns \in Nat \ {0}
  /\ \A m \in 0 .. Turns - 1 : m \in Exponents
<1>1. IsFiniteSet(Exponents) /\ Exponents \subseteq Exponent
  <2>1. IsFiniteSet(Exponent)
    <3>1. 0 \in Int /\ 13 \in Int
      OBVIOUS
    <3>2. QED
      BY <3>1, FS_Interval, Zenon DEF Exponent
  <2>2. QED
    BY <2>1, FS_Subset DEF Exponents
<1>2. Turns = Cardinality(Exponents)
  BY Zenon DEF Turns, Exponents, Exponent, Third, Power
<1>3. Turns \in Nat
  BY <1>1, <1>2, FS_CardinalityType
<1>4. 0 \in Exponents
  BY ThirdsGrow, ConfigAssumption DEF Exponents, Exponent
<1>5. Turns # 0
  BY <1>1, <1>2, <1>4, FS_EmptySet
<1>6. ASSUME NEW m \in 0 .. Turns - 1, m \notin Exponents PROVE FALSE
  <2>1. m \in Nat /\ m < Turns
    BY <1>3
  <2>2. Exponents \subseteq 0 .. m - 1
    <3> SUFFICES ASSUME NEW e \in Exponents, m <= e PROVE FALSE
      BY <1>1, <2>1 DEF Exponent
    <3>1. e \in Exponent /\ m \in Exponent
      BY <1>1, <2>1 DEF Exponent
    <3>2. Third(m) <= Third(e) /\ Third(m) \in Nat /\ Third(e) \in Nat /\ Third(e) <= LastThird
      BY <3>1, ThirdsGrow DEF Exponents
    <3>3. Third(m) <= LastThird
      BY <3>2, ConfigAssumption
    <3>4. QED
      BY <1>6, <3>1, <3>3 DEF Exponents
  <2>3. IsFiniteSet(0 .. m - 1) /\ Cardinality(0 .. m - 1) = m
    <3>1. PICK l \in Int : l = m - 1
      BY <2>1
    <3>2. IsFiniteSet(0 .. l) /\ Cardinality(0 .. l) = IF 0 > l THEN 0 ELSE l - 0 + 1
      <4>1. 0 \in Int
        OBVIOUS
      <4>2. QED
        BY <4>1, FS_Interval, Zenon
    <3>3. QED
      BY <2>1, <3>1, <3>2
  <2>4. Turns <= m
    BY <1>2, <2>2, <2>3, FS_Subset
  <2>5. QED
    BY <1>3, <2>1, <2>4
<1>7. QED
  BY <1>3, <1>5, <1>6

(* A quotient is below the first factor. *)
LEMMA QuotientBelow ==
  ASSUME NEW a \in Nat, NEW b \in Nat \ {0}, NEW n \in Nat, n < a * b
  PROVE  n \div b \in 0 .. a - 1
<1>1. PICK q \in Nat : q = n \div b /\ b * q <= n
  OBVIOUS
<1>2. ASSUME q >= a PROVE FALSE
  <2>1. b * q >= b * a
    BY <1>2
  <2>2. QED
    BY <1>1, <2>1
<1>3. QED
  BY <1>1, <1>2

Triple == Nat \X Nat \X (FirstThird .. LastThird)

(* The grid is not empty, and each of its third numbers is one the inner   *)
(* loop comes to.                                                          *)
LEMMA GridFacts ==
  /\ Grid \in Seq(Triple)
  /\ Len(Grid) \in Nat \ {0}
  /\ DOMAIN Grid = 1 .. Len(Grid)
<1> DEFINE A == Len(ThreadCounts)
           B == Len(BlockSizes)
           N == A * B * Turns
<1>1. /\ A \in Nat \ {0} /\ B \in Nat \ {0}
      /\ ThreadCounts \in [1 .. A -> Nat] /\ BlockSizes \in [1 .. B -> Nat]
  BY ConfigAssumption
<1>2. N \in Nat \ {0} /\ Turns * B \in Nat \ {0} /\ N = A * (Turns * B)
  <2> HIDE DEF A, B
  <2>1. QED
    BY <1>1, TurnsFacts
<1>3. ASSUME NEW x \in 1 .. N PROVE Grid[x] \in Triple
  <2>1. ThreadCounts[(x - 1) \div (Turns * B) + 1] \in Nat
    <3>1. (x - 1) \div (Turns * B) \in 0 .. A - 1
      <4> HIDE DEF A, B, N
      <4>1. QED
        <5>1. PICK b \in Nat \ {0}, y \in Nat : b = Turns * B /\ y = x - 1 /\ y < A * b
          BY <1>1, <1>2
        <5>2. y \div b \in 0 .. A - 1
          BY <1>1, <5>1, QuotientBelow
        <5>3. QED
          BY <5>1, <5>2
    <3>2. QED
      BY <1>1, <3>1
  <2>2. BlockSizes[(((x - 1) \div Turns) % B) + 1] \in Nat
    <3>1. ((x - 1) \div Turns) % B \in 0 .. B - 1
      <4> HIDE DEF A, B, N
      <4>1. (x - 1) \div Turns \in Nat
        BY <1>2, TurnsFacts
      <4>2. QED
        BY <4>1, <1>1
    <3>2. QED
      BY <1>1, <3>1
  <2>3. FirstThird * 2 ^ ((x - 1) % Turns) \in FirstThird .. LastThird
    <3>1. PICK m \in Exponents : m = (x - 1) % Turns
      <4>1. (x - 1) % Turns \in 0 .. Turns - 1
        <5> HIDE DEF N
        <5>1. QED
          BY <1>2, TurnsFacts
      <4>2. QED
        BY <4>1, TurnsFacts
    <3>2. Third(m) \in FirstThird .. LastThird
      <4>1. Third(m) \in Nat /\ Third(m) >= FirstThird /\ Third(m) <= LastThird
        BY ThirdsGrow DEF Exponents
      <4>2. QED
        BY <4>1, ConfigAssumption
    <3>3. QED
      BY <3>1, <3>2 DEF Third, Power
  <2>4. QED
    BY <2>1, <2>2, <2>3 DEF Grid, Triple
<1>4. Grid = [x \in 1 .. N |-> Grid[x]]
  BY DEF Grid
<1>5. Grid \in [1 .. N -> Triple]
  BY <1>3, <1>4
<1>6. QED
  <2> HIDE DEF N
  <2>1. QED
    BY <1>2, <1>5

(* The first of the best is there. *)
LEMMA LeastNat ==
  ASSUME NEW T, T \subseteq Nat, T # {}
  PROVE  \E n \in T : \A k \in T : n <= k
<1>1. PICK n \in T : \A k \in T : ~(<<k, n>> \in OpToRel(<, Nat))
  BY WFMin, NatLessThanWellFounded
<1>2. \A k \in T : ~(k < n)
  BY <1>1 DEF OpToRel
<1> QED
  BY <1>2

(* The search has a first best measurement: among the first n measurements *)
(* there is one, or there would be a least n for which there is none.      *)
BestOf(measured, n, x) ==
  /\ x \in 1 .. n
  /\ \A y \in 1 .. n : measured[y] <= measured[x]
  /\ \A y \in 1 .. x - 1 : measured[y] < measured[x]

LEMMA BestIsMeasured ==
  ASSUME NEW measured \in Seq(Nat), measured # <<>>
  PROVE  Best(measured) \in 1 .. Len(measured)
<1> DEFINE N == Len(measured)
           Without == {n \in 1 .. N : \A x \in 1 .. n : ~BestOf(measured, n, x)}
<1>1. N \in Nat \ {0} /\ \A y \in 1 .. N : measured[y] \in Nat
  OBVIOUS
<1>2. Without = {}
  <2> SUFFICES ASSUME Without # {} PROVE FALSE
    OBVIOUS
  <2>1. Without \subseteq Nat
    BY <1>1
  <2>2. PICK n \in Without : \A k \in Without : n <= k
    BY <2>1, LeastNat
  <2>3. n \in 1 .. N /\ \A x \in 1 .. n : ~BestOf(measured, n, x)
    BY <2>2
  <2> HIDE DEF N
  <2>4. n # 1
    <3> SUFFICES ASSUME n = 1 PROVE FALSE
      OBVIOUS
    <3>1. BestOf(measured, 1, 1)
      BY <1>1, <2>3 DEF BestOf
    <3>2. QED
      BY <2>3, <3>1
  <2>5. n - 1 \in 1 .. N /\ n - 1 \notin Without
    BY <1>1, <2>1, <2>2, <2>3, <2>4
  <2>6. PICK x \in 1 .. n - 1 : BestOf(measured, n - 1, x)
    BY <2>5
  <2>7. CASE measured[n] <= measured[x]
    <3>1. \A y \in 1 .. n : y = n \/ y \in 1 .. n - 1
      BY <2>3
    <3>2. \A y \in 1 .. n : measured[y] <= measured[x]
      BY <2>6, <2>7, <3>1 DEF BestOf
    <3>3. BestOf(measured, n, x)
      BY <1>1, <2>3, <2>6, <3>2 DEF BestOf
    <3>4. QED
      BY <1>1, <2>3, <3>3
  <2>8. CASE measured[x] < measured[n]
    <3>1. \A y \in 1 .. n - 1 : measured[y] < measured[n]
      <4>1. ASSUME NEW y \in 1 .. n - 1 PROVE measured[y] < measured[n]
        <5>1. measured[y] <= measured[x]
          BY <2>6 DEF BestOf
        <5>2. y \in 1 .. N /\ x \in 1 .. N
          BY <1>1, <2>3, <2>6
        <5>3. measured[y] \in Nat /\ measured[x] \in Nat /\ measured[n] \in Nat
          BY <1>1, <2>3, <5>2
        <5>4. QED
          BY <2>8, <5>1, <5>3
      <4>2. QED
        BY <4>1
    <3>2. BestOf(measured, n, n)
      BY <1>1, <2>3, <3>1 DEF BestOf
    <3>3. QED
      BY <1>1, <2>3, <3>2
  <2>9. QED
    BY <1>1, <2>3, <2>6, <2>7, <2>8
<1>3. PICK x \in 1 .. N : BestOf(measured, N, x)
  BY <1>1, <1>2
<1>4. \E z \in 1 .. N : /\ \A y \in 1 .. N : measured[y] <= measured[z]
                       /\ \A y \in 1 .. z - 1 : measured[y] < measured[z]
  BY <1>3 DEF BestOf
<1>5. QED
  BY <1>4 DEF Best

(* What may be in the file, and in the variables of a process.             *)
Lines == {l \in Seq(Nat) : Len(l) <= 3}

(* Of a chosen configuration a full disk leaves its beginning: three lines *)
(* of it, only if the third has lost digits, or it is whole.               *)
LEMMA CutFacts ==
  ASSUME NEW c \in Triple, NEW l \in Cut(c)
  PROVE  l \in Lines /\ (Len(l) = 3 /\ LastThird < 10 => l = c)
<1> DEFINE Digits(n) == {m \in {n \div 10 ^ d : d \in 0 .. 8} : m > 0}
<1>1. /\ c \in Seq(Nat) /\ Len(c) = 3 /\ c[1] \in Nat /\ c[2] \in Nat /\ c[3] \in Nat
      /\ c[3] <= LastThird
  <2>1. PICK a \in Nat, b \in Nat, d \in FirstThird .. LastThird : c = <<a, b, d>>
    BY DEF Triple
  <2>2. d \in Nat /\ d <= LastThird
    BY ConfigAssumption
  <2>3. QED
    BY <2>1, <2>2
<1>2. \A n \in Nat : \A m \in Digits(n) : m \in Nat /\ (n < 10 => m = n)
  <2> SUFFICES ASSUME NEW n \in Nat, NEW d \in 0 .. 8, n \div 10 ^ d > 0
               PROVE  n \div 10 ^ d \in Nat /\ (n < 10 => n \div 10 ^ d = n)
    OBVIOUS
  <2> DEFINE Ten(e) == 10 ^ e
  <2>1. /\ Ten(0) = 1 /\ Ten(1) = 10 /\ Ten(2) = 100 /\ Ten(3) = 1000 /\ Ten(4) = 10000
        /\ Ten(5) = 100000 /\ Ten(6) = 1000000 /\ Ten(7) = 10000000 /\ Ten(8) = 100000000
    OBVIOUS
  <2> HIDE DEF Ten
  <2>2. d = 0 \/ d = 1 \/ d = 2 \/ d = 3 \/ d = 4 \/ d = 5 \/ d = 6 \/ d = 7 \/ d = 8
    OBVIOUS
  <2>3. Ten(d) \in Nat \ {0} /\ (d # 0 => Ten(d) >= 10) /\ (d = 0 => Ten(d) = 1)
    BY <2>1, <2>2
  <2>4. n \div Ten(d) > 0
    BY DEF Ten
  <2>5. n \div Ten(d) \in Nat /\ (n < 10 => n \div Ten(d) = n)
    <3>1. PICK t \in Nat \ {0} : t = Ten(d)
      BY <2>3
    <3>2. PICK q \in Nat : q = n \div t /\ t * q <= n
      BY <3>1
    <3>3. CASE t >= 10
      <4>1. n < 10 => q = 0
        BY <3>2, <3>3
      <4>2. QED
        BY <2>4, <3>1, <3>2, <4>1
    <3>4. CASE t = 1
      BY <3>1, <3>2, <3>4
    <3>5. QED
      BY <2>3, <3>1, <3>3, <3>4
  <2>6. QED
    BY <2>5 DEF Ten
<1> HIDE DEF Digits
<1>3. ASSUME NEW n \in 0 .. 3
      PROVE  SubSeq(c, 1, n) \in Lines /\ Len(SubSeq(c, 1, n)) = n /\ (n = 3 => SubSeq(c, 1, n) = c)
  BY <1>1 DEF Lines
<1>4. ASSUME NEW n \in 0 .. 2, NEW m \in Digits(c[n + 1]), l = Append(SubSeq(c, 1, n), m)
      PROVE  l \in Lines /\ (Len(l) = 3 /\ LastThird < 10 => l = c)
  <2>1. c[n + 1] \in Nat
    BY <1>1
  <2>2. m \in Nat /\ (c[n + 1] < 10 => m = c[n + 1])
    BY <1>2, <2>1
  <2>3. /\ SubSeq(c, 1, n) \in Seq(Nat) /\ Len(SubSeq(c, 1, n)) = n
        /\ \A k \in 1 .. n : SubSeq(c, 1, n)[k] = c[k]
    BY <1>1
  <2>4. /\ l \in Seq(Nat) /\ Len(l) = n + 1 /\ l[n + 1] = m
        /\ \A k \in 1 .. n : l[k] = c[k]
    BY <1>4, <2>2, <2>3
  <2>5. l \in Lines
    BY <2>4 DEF Lines
  <2>6. ASSUME n = 2, LastThird < 10 PROVE l = c
    <3>1. m = c[3]
      BY <1>1, <2>2, <2>6, ConfigAssumption
    <3>2. Len(l) = 3 /\ l[1] = c[1] /\ l[2] = c[2] /\ l[3] = c[3]
      BY <2>4, <2>6, <3>1
    <3>3. QED
      BY <1>1, <2>4, <3>2
  <2>7. QED
    BY <2>4, <2>5, <2>6
<1>5. \/ \E n \in 0 .. 3 : l = SubSeq(c, 1, n)
      \/ \E n \in 0 .. 2 : \E m \in Digits(c[n + 1]) : l = Append(SubSeq(c, 1, n), m)
  <2>1. \/ l \in {SubSeq(c, 1, n) : n \in 0 .. 3}
        \/ l \in {Append(SubSeq(c, 1, nm[1]), nm[2]) : nm \in UNION {{n} \X Digits(c[n + 1]) : n \in 0 .. 2}}
    BY Zenon DEF Cut, Digits
  <2>2. CASE l \in {SubSeq(c, 1, n) : n \in 0 .. 3}
    BY <2>2
  <2>3. CASE l \in {Append(SubSeq(c, 1, nm[1]), nm[2]) : nm \in UNION {{n} \X Digits(c[n + 1]) : n \in 0 .. 2}}
    <3> DEFINE Pairs(n) == {n} \X Digits(c[n + 1])
    <3>1. PICK nm \in UNION {Pairs(n) : n \in 0 .. 2} : l = Append(SubSeq(c, 1, nm[1]), nm[2])
      BY <2>3, Zenon
    <3>2. PICK n \in 0 .. 2 : nm \in Pairs(n)
      <4> HIDE DEF Pairs
      <4>1. QED
        BY <3>1
    <3>3. nm[1] = n /\ nm[2] \in Digits(c[n + 1])
      BY <3>2
    <3>4. QED
      BY <3>1, <3>2, <3>3
  <2>4. QED
    BY <2>1, <2>2, <2>3
<1>6. QED
  BY <1>3, <1>4, <1>5


(* The invariant.  What a process has just chosen is in found; and if the  *)
(* disk is not full, or cannot cut a third number short, a file with three *)
(* lines holds what some search has chosen, and so do the readers of it.   *)
Whole == DiskFull => LastThird < 10

TunedType ==
  /\ file \in Lines \union {Absent}
  /\ pc \in [Process -> {"start", "tune", "create", "close", "read", "use", "exit"}]
  /\ perf \in [Process -> Seq(Speeds \union {0})]
  /\ config \in [Process -> {<<>>} \union {l \in Lines : Len(l) = 3}]
  /\ found \subseteq {Grid[x] : x \in 1 .. Len(Grid)}
  /\ starts \in 0 .. MaxStarts

ChosenInv == \A p \in Process : pc[p] \in {"create", "close"} => config[p] \in found

FileInv ==
  /\ Complete(file) => file \in found
  /\ \A p \in Process : pc[p] = "use" => config[p] \in found

TunedInv == TunedType /\ ChosenInv /\ (Whole => FileInv)

(* A file that is absent or empty is not complete.                         *)
LEMMA WholeFiles ==
  /\ ~Complete(Absent) /\ ~Complete(<<>>) /\ <<>> \in Lines
  /\ \A l : Complete(l) <=> Len(l) = 3
  BY DEF Complete, Absent, Lines

(* What is on the grid is a configuration, and a search ends on the grid.  *)
LEMMA FoundFacts ==
  /\ \A c \in {Grid[x] : x \in 1 .. Len(Grid)} : c \in Triple /\ c \in Lines /\ Len(c) = 3
  /\ \A measured \in Seq(Speeds \union {0}) :
       Len(measured) = Len(Grid) => Grid[Best(measured)] \in {Grid[x] : x \in 1 .. Len(Grid)}
<1>1. ASSUME NEW x \in 1 .. Len(Grid)
      PROVE  Grid[x] \in Triple /\ Grid[x] \in Lines /\ Len(Grid[x]) = 3
  <2>1. PICK g \in Triple : g = Grid[x]
    BY GridFacts
  <2>2. PICK a \in Nat, b \in Nat, d \in FirstThird .. LastThird : g = <<a, b, d>>
    BY DEF Triple
  <2>3. d \in Nat
    BY ConfigAssumption
  <2>4. g \in Lines /\ Len(g) = 3
    BY <2>2, <2>3 DEF Lines
  <2>5. QED
    BY <2>1, <2>4
<1>2. ASSUME NEW measured \in Seq(Speeds \union {0}), Len(measured) = Len(Grid)
      PROVE  Best(measured) \in 1 .. Len(Grid)
  <2>1. measured \in Seq(Nat) /\ measured # <<>>
    <3>1. Speeds \union {0} \subseteq Nat
      BY ConfigAssumption
    <3>2. measured \in Seq(Nat)
      BY <3>1
    <3>3. QED
      BY <1>2, <3>2, GridFacts
  <2>2. QED
    BY <1>2, <2>1, BestIsMeasured
<1>3. QED
  BY <1>1, <1>2

(* Init establishes the invariant. *)
LEMMA InitInv == Init => TunedInv
  BY WholeFiles, ConfigAssumption DEF Init, TunedInv, TunedType, ChosenInv, FileInv

(* A step of one process keeps the invariant. *)
LEMMA RunInv ==
  ASSUME TunedInv, NEW p \in Process, Run(p)
  PROVE  TunedInv'
<1>1. CASE Open(p)
  BY <1>1 DEF Open, TunedInv, TunedType, ChosenInv, FileInv
<1>2. CASE Measure(p)
  <2>1. PICK speed \in Speeds \union {0} : perf' = [perf EXCEPT ![p] = Append(perf[p], speed)]
    BY <1>2 DEF Measure, Shown, Next_l
  <2>2. perf' \in [Process -> Seq(Speeds \union {0})]
    <3>1. Append(perf[p], speed) \in Seq(Speeds \union {0})
      BY DEF TunedInv, TunedType
    <3>2. QED
      BY <2>1, <3>1 DEF TunedInv, TunedType
  <2>3. UNCHANGED <<file, pc, config, found, starts>>
    BY <1>2 DEF Measure
  <2>4. QED
    BY <2>2, <2>3 DEF TunedInv, TunedType, ChosenInv, FileInv
<1>3. CASE Choose(p)
  <2>1. PICK c \in {Grid[x] : x \in 1 .. Len(Grid)} : c = Grid[Best(perf[p])]
    <3>1. perf[p] \in Seq(Speeds \union {0}) /\ Len(perf[p]) = Len(Grid)
      BY <1>3 DEF Choose, TunedInv, TunedType
    <3>2. QED
      BY <3>1, FoundFacts
  <2>2. c \in Lines /\ Len(c) = 3
    BY FoundFacts
  <2>3. /\ config' = [config EXCEPT ![p] = c] /\ found' = found \union {c}
        /\ pc' = [pc EXCEPT ![p] = "create"]
        /\ UNCHANGED <<file, perf, starts>>
    BY <1>3, <2>1 DEF Choose
  <2>4. TunedType'
    BY <2>2, <2>3 DEF TunedInv, TunedType
  <2>5. ChosenInv' /\ (FileInv => FileInv')
    BY <2>3 DEF TunedInv, TunedType, ChosenInv, FileInv, Complete
  <2>6. QED
    BY <2>4, <2>5 DEF TunedInv, Whole
<1>4. CASE Create(p)
  BY <1>4, WholeFiles DEF Create, TunedInv, TunedType, ChosenInv, FileInv
<1>5. CASE Close(p)
  <2>1. /\ pc[p] = "close" /\ pc' = [pc EXCEPT ![p] = "use"]
        /\ UNCHANGED <<perf, config, found, starts>>
    BY <1>5 DEF Close
  <2>2. PICK c \in Triple : c = config[p] /\ c \in found /\ c \in Lines
    BY <2>1, FoundFacts DEF TunedInv, TunedType, ChosenInv
  <2>3. file' = c \/ (DiskFull /\ file' \in Cut(c))
    BY <1>5, <2>2 DEF Close
  <2>4. file' \in Lines /\ (Whole /\ Len(file') = 3 => file' = c)
    BY <2>2, <2>3, CutFacts DEF Whole
  <2>5. TunedType'
    BY <2>1, <2>4 DEF TunedInv, TunedType
  <2>6. ChosenInv' /\ (Whole => FileInv')
    BY <2>1, <2>2, <2>4, WholeFiles DEF TunedInv, TunedType, ChosenInv, FileInv
  <2>7. QED
    BY <2>5, <2>6 DEF TunedInv, Whole
<1>6. CASE Read(p)
  <2>1. pc[p] = "read" /\ UNCHANGED <<file, perf, found, starts>>
    BY <1>6 DEF Read
  <2>2. CASE Complete(file)
    <3>1. config' = [config EXCEPT ![p] = file] /\ pc' = [pc EXCEPT ![p] = "use"]
      BY <1>6, <2>2 DEF Read
    <3>2. file \in Lines /\ Len(file) = 3
      BY <2>2, WholeFiles DEF TunedInv, TunedType
    <3>3. TunedType'
      BY <2>1, <3>1, <3>2 DEF TunedInv, TunedType
    <3>4. ChosenInv' /\ (Whole => FileInv')
      BY <2>1, <2>2, <3>1 DEF TunedInv, TunedType, ChosenInv, FileInv
    <3>5. QED
      BY <3>3, <3>4 DEF TunedInv, Whole
  <2>3. CASE ~Complete(file)
    BY <1>6, <2>3 DEF Read, TunedInv, TunedType, ChosenInv, FileInv
  <2>4. QED
    BY <2>2, <2>3
<1>7. QED
  BY <1>1, <1>2, <1>3, <1>4, <1>5, <1>6 DEF Run

(* So does a restart, which forgets what the process held. *)
LEMMA StartInv ==
  ASSUME TunedInv, NEW p \in Process, Start(p)
  PROVE  TunedInv'
<1>1. starts' \in 0 .. MaxStarts
  BY ConfigAssumption DEF Start, TunedInv, TunedType
<1>2. TunedType'
  BY <1>1 DEF Start, TunedInv, TunedType
<1>3. ChosenInv' /\ (Whole => FileInv')
  BY DEF Start, TunedInv, TunedType, ChosenInv, FileInv
<1>4. QED
  BY <1>2, <1>3 DEF TunedInv, Whole

LEMMA NextInv == TunedInv /\ [Next]_vars => TunedInv'
<1>1. SUFFICES ASSUME TunedInv, [Next]_vars PROVE TunedInv'
  OBVIOUS
<1>2. CASE UNCHANGED vars
  BY <1>1, <1>2 DEF vars, TunedInv, TunedType, ChosenInv, FileInv
<1>3. CASE Next
  BY <1>1, <1>2, <1>3, RunInv, StartInv DEF Next
<1>4. QED
  BY <1>1, <1>2, <1>3

LEMMA TunedTypes == TunedInv => TypeOK
<1>1. SUFFICES ASSUME TunedInv PROVE TypeOK
  OBVIOUS
<1>2. \A l \in Lines : Len(l) <= 3 /\ \A x \in DOMAIN l : l[x] \in Nat
  BY DEF Lines
<1>3. \A p \in Process : \A x \in DOMAIN perf[p] : perf[p][x] \in Speeds \union {0}
  <2>1. \A q \in Seq(Speeds \union {0}) : \A x \in DOMAIN q : q[x] \in Speeds \union {0}
    OBVIOUS
  <2>2. QED
    BY <1>1, <2>1 DEF TunedInv, TunedType
<1>4. \A c \in found : \E x \in DOMAIN Grid : Grid[x] = c
  BY <1>1, GridFacts DEF TunedInv, TunedType
<1>5. QED
  BY <1>1, <1>2, <1>3, <1>4 DEF TunedInv, TunedType, TypeOK

LEMMA HostSteps == HostSpec => HostInit /\ [][HostNext]_hostVars
  BY PTL DEF HostSpec

(* The file and its processes are part of every execution of the host      *)
(* programs, and stand still while another family runs.                    *)
LEMMA TunedInvariance == HostSpec => []TunedInv
<1>1. HostInit => TunedInv
  BY InitInv DEF HostInit
<1>2. TunedInv /\ [HostNext]_hostVars => TunedInv'
  <2> SUFFICES ASSUME TunedInv, [HostNext]_hostVars PROVE TunedInv'
    OBVIOUS
  <2>1. [Next]_vars
    BY DEF HostNext, hostVars, RunTuned, RunDispatch, RunQueue, RunRegion, QueueStays, RegionStays
  <2>2. QED
    BY <2>1, NextInv
<1>3. QED
  BY <1>1, <1>2, HostSteps, PTL

(* A benchmark runs with nothing but a configuration some search has       *)
(* chosen, whatever processes share the file and whenever they are         *)
(* stopped: Open, Create and Close may interleave in any way.  The disk    *)
(* may be full where the third number is one digit, as the streams of the  *)
(* bandwidth benchmark are: no digits of it are lost then.                 *)
THEOREM ConfigFoundHolds ==
  ASSUME DiskFull => LastThird < 10
  PROVE  HostSpec => []ConfigFound
<1>1. TunedInv => ConfigFound
  BY DEF TunedInv, Whole, FileInv, ConfigFound
<1>2. QED
  BY <1>1, TunedInvariance, PTL

-----------------------------------------------------------------------------
(* WorkDispatch. *)

(* The amounts after so many launches: nothing, if there is no kernel for  *)
(* the parameters.                                                         *)
HasKernel == Dispatch!Valid(nStreams, nFlops)

WorkInv ==
  /\ moved = IF HasKernel THEN iter * Dispatch!KernelWork[1] ELSE 0
  /\ computed = IF HasKernel THEN iter * Dispatch!KernelWork[2] ELSE 0
  /\ complained \in BOOLEAN /\ (complained <=> ~HasKernel /\ iter > 0)

DispatchInv ==
  /\ program \in DispatchPrograms /\ nStreams \in StreamCounts /\ nFlops \in FlopCounts
  /\ iter \in 0 .. Dispatch!Launches
  /\ WorkInv
  /\ report = <<>> \/ (iter = Dispatch!Launches /\ report = Dispatch!Reported)

(* What the amounts of one launch are numbers of. *)
LEMMA AmountsAreNumbers ==
  ASSUME program \in DispatchPrograms, nStreams \in StreamCounts, nFlops \in FlopCounts
  PROVE  /\ Dispatch!KernelWork[1] \in Nat /\ Dispatch!KernelWork[2] \in Nat
         /\ nStreams > 0 => Dispatch!KernelWork[1] > 0
         /\ Dispatch!Launches \in Nat \ {0}
         /\ HasKernel \in BOOLEAN
<1>1. nStreams \in Nat /\ nFlops \in Nat /\ NUM_ITER \in Nat \ {0}
  BY DispatchAssumption DEF Dispatch!Parameters
<1>2. program \in {"intensity", "ilp", "compute", "bandwidth"}
  BY DispatchAssumption DEF Dispatch!Parameters
<1>3. Dispatch!Launches \in Nat \ {0}
  BY <1>1 DEF Dispatch!Launches
<1>4. HasKernel \in BOOLEAN
  BY DEF HasKernel, Dispatch!Valid
<1> DEFINE f == IF nFlops = 9 THEN 8 ELSE nFlops
<1>5. f \in Nat /\ nStreams * f \in Nat /\ nStreams * nFlops \in Nat
  BY <1>1
<1>6. nStreams * nFlops * 4 \in Nat
  BY <1>5
<1>7. Dispatch!KernelWork \in {<<nStreams, nStreams * f>>, <<nStreams, nStreams * nFlops * 4>>, <<1, nFlops>>, <<nStreams, 0>>}
  BY <1>2 DEF Dispatch!KernelWork, Dispatch!Chosen
<1>8. QED
  BY <1>1, <1>3, <1>4, <1>5, <1>6, <1>7

(* Init establishes it. *)
LEMMA DispatchInitInv == Dispatch!Init => DispatchInv
<1> SUFFICES ASSUME Dispatch!Init PROVE DispatchInv
  OBVIOUS
<1>1. program \in DispatchPrograms /\ nStreams \in StreamCounts /\ nFlops \in FlopCounts
  BY DEF Dispatch!Init
<1>2. PICK w \in Nat, v \in Nat : w = Dispatch!KernelWork[1] /\ v = Dispatch!KernelWork[2]
  BY <1>1, AmountsAreNumbers
<1>3. 0 * w = 0 /\ 0 * v = 0
  OBVIOUS
<1>4. iter \in 0 .. Dispatch!Launches
  BY <1>1, AmountsAreNumbers DEF Dispatch!Init
<1>5. WorkInv
  <2>1. iter = 0 /\ moved = 0 /\ computed = 0 /\ complained = FALSE
    BY DEF Dispatch!Init
  <2>3. iter * Dispatch!KernelWork[1] = 0 /\ iter * Dispatch!KernelWork[2] = 0
    BY <1>2, <1>3, <2>1
  <2>4. CASE HasKernel
    BY <2>1, <2>3, <2>4, Zenon DEF WorkInv
  <2>5. CASE ~HasKernel
    <3>1. ~(iter > 0)
      BY <2>1
    <3>2. QED
      BY <2>1, <2>5, <3>1, Zenon DEF WorkInv
  <2>6. QED
    BY <2>4, <2>5
<1>6. QED
  BY <1>1, <1>4, <1>5 DEF Dispatch!Init, DispatchInv

(* Every step keeps it. *)
LEMMA DispatchNextInv == DispatchInv /\ [Dispatch!Next]_dispatchVars => DispatchInv'
<1> SUFFICES ASSUME DispatchInv, [Dispatch!Next]_dispatchVars PROVE DispatchInv'
  OBVIOUS
<1>1. CASE Dispatch!Launch
  <2>1. /\ nStreams' = nStreams /\ nFlops' = nFlops /\ program' = program /\ report' = report
        /\ iter' = iter + 1 /\ iter < Dispatch!Launches
    BY <1>1 DEF Dispatch!Launch, Dispatch!LaunchesLeft
  <2>2. /\ Dispatch!KernelWork' = Dispatch!KernelWork /\ Dispatch!Launches' = Dispatch!Launches
        /\ HasKernel' = HasKernel /\ Dispatch!Reported' = Dispatch!Reported
    BY <2>1 DEF Dispatch!KernelWork, Dispatch!Launches, HasKernel, Dispatch!Valid, Dispatch!Reported
  <2>3. /\ Dispatch!KernelWork[1] \in Nat /\ Dispatch!KernelWork[2] \in Nat
        /\ Dispatch!Launches \in Nat /\ HasKernel \in BOOLEAN
    BY AmountsAreNumbers DEF DispatchInv
  <2>4. PICK w \in Nat, v \in Nat : w = Dispatch!KernelWork[1] /\ v = Dispatch!KernelWork[2]
    BY <2>3
  <2>5. iter \in Nat /\ (iter + 1) * w = iter * w + w /\ (iter + 1) * v = iter * v + v
    BY <2>3 DEF DispatchInv
  <2>6. CASE HasKernel
    <3>1. moved' = moved + w /\ computed' = computed + v /\ complained' = complained
      BY <1>1, <2>4, <2>6 DEF Dispatch!Launch, HasKernel
    <3>2. moved = iter * w /\ computed = iter * v /\ complained = FALSE
      BY <2>4, <2>6 DEF DispatchInv, WorkInv
    <3>3. moved' = iter' * w /\ computed' = iter' * v
      BY <2>1, <2>5, <3>1, <3>2
    <3>4. WorkInv'
      BY <2>1, <2>2, <2>4, <2>6, <3>1, <3>2, <3>3 DEF WorkInv
    <3>5. QED
      BY <2>1, <2>2, <2>3, <3>4 DEF DispatchInv
  <2>7. CASE ~HasKernel
    <3>1. moved' = moved /\ computed' = computed /\ complained' = TRUE
      BY <1>1, <2>7 DEF Dispatch!Launch, Dispatch!Complains, HasKernel
    <3>2. moved = 0 /\ computed = 0
      BY <2>7 DEF DispatchInv, WorkInv
    <3>3. WorkInv'
      BY <2>1, <2>2, <2>5, <2>7, <3>1, <3>2 DEF WorkInv
    <3>4. QED
      BY <2>1, <2>2, <2>3, <3>3 DEF DispatchInv
  <2>8. QED
    BY <2>6, <2>7
<1>2. CASE Dispatch!Report
  <2>1. /\ UNCHANGED <<program, nStreams, nFlops, iter, moved, computed, complained>>
        /\ iter = Dispatch!Launches /\ report' = Dispatch!Reported
    BY <1>2 DEF Dispatch!Report
  <2>2. /\ Dispatch!KernelWork' = Dispatch!KernelWork /\ Dispatch!Launches' = Dispatch!Launches
        /\ HasKernel' = HasKernel /\ Dispatch!Reported' = Dispatch!Reported
    BY <2>1 DEF Dispatch!KernelWork, Dispatch!Launches, HasKernel, Dispatch!Valid, Dispatch!Reported
  <2>3. WorkInv'
    BY <2>1, <2>2 DEF DispatchInv, WorkInv
  <2>4. QED
    BY <2>1, <2>2, <2>3 DEF DispatchInv
<1>3. CASE UNCHANGED dispatchVars
  <2>1. UNCHANGED <<program, nStreams, nFlops, iter, moved, computed, complained, report>>
    BY <1>3 DEF dispatchVars
  <2>2. /\ Dispatch!KernelWork' = Dispatch!KernelWork /\ Dispatch!Launches' = Dispatch!Launches
        /\ HasKernel' = HasKernel /\ Dispatch!Reported' = Dispatch!Reported
    BY <2>1 DEF Dispatch!KernelWork, Dispatch!Launches, HasKernel, Dispatch!Valid, Dispatch!Reported
  <2>3. WorkInv'
    BY <2>1, <2>2 DEF DispatchInv, WorkInv
  <2>4. QED
    BY <2>1, <2>2, <2>3 DEF DispatchInv
<1>4. QED
  BY <1>1, <1>2, <1>3 DEF Dispatch!Next, dispatchVars, Dispatch!vars

(* Eight streams are a power of two in the table. *)
LEMMA SmallPowers == {1, 2, 4, 8} \subseteq Dispatch!Power(7)
<1>1. 2 ^ 0 = 1 /\ 2 ^ 1 = 2 /\ 2 ^ 2 = 4 /\ 2 ^ 3 = 8
  OBVIOUS
<1>2. 0 \in 0 .. 7 /\ 1 \in 0 .. 7 /\ 2 \in 0 .. 7 /\ 3 \in 0 .. 7
  OBVIOUS
<1>3. QED
  BY <1>1, <1>2 DEF Dispatch!Power

(* What it says of the report. *)
LEMMA DispatchInvReports ==
  DispatchInv =>
    Dispatch!WorkMatchesButNine /\ Dispatch!ComplainsOfNothing /\ Dispatch!SearchedIsValid
<1> SUFFICES ASSUME DispatchInv
             PROVE  Dispatch!WorkMatchesButNine /\ Dispatch!ComplainsOfNothing /\ Dispatch!SearchedIsValid
  OBVIOUS
<1>1. /\ nStreams \in Nat /\ nFlops \in Nat /\ NUM_ITER \in Nat \ {0}
      /\ program \in {"intensity", "ilp", "compute", "bandwidth"}
  BY DispatchAssumption DEF DispatchInv, Dispatch!Parameters
<1>2. /\ Dispatch!KernelWork[1] \in Nat /\ Dispatch!KernelWork[2] \in Nat
      /\ nStreams > 0 => Dispatch!KernelWork[1] > 0
      /\ Dispatch!Launches \in Nat \ {0} /\ HasKernel \in BOOLEAN
  BY AmountsAreNumbers DEF DispatchInv
<1>3. PICK w \in Nat, v \in Nat, n \in Nat \ {0} :
        w = Dispatch!KernelWork[1] /\ v = Dispatch!KernelWork[2] /\ n = Dispatch!Launches
  BY <1>2
<1>4. Dispatch!WorkMatchesButNine
  <2> SUFFICES ASSUME ~complained, ~(program = "intensity" /\ nFlops = 9), report # <<>>
               PROVE  <<moved, computed>> = <<Dispatch!Launches * report[1], Dispatch!Launches * report[2]>>
    BY DEF Dispatch!WorkMatchesButNine, Dispatch!WorkMatches
  <2>1. iter = n /\ report = Dispatch!Reported /\ HasKernel
    BY <1>2, <1>3 DEF DispatchInv, WorkInv
  <2>2. moved = n * w /\ computed = n * v
    BY <1>3, <2>1 DEF DispatchInv, WorkInv
  <2>3. nFlops * nStreams = nStreams * nFlops /\ nFlops * 4 * nStreams = nStreams * nFlops * 4
    BY <1>1
  <2>4. report[1] = w /\ report[2] = v
    BY <1>1, <1>3, <2>1, <2>3 DEF Dispatch!Reported, Dispatch!KernelWork, Dispatch!Chosen
  <2>5. QED
    BY <1>3, <2>2, <2>4
<1>5. Dispatch!ComplainsOfNothing
  <2> SUFFICES ASSUME report # <<>>, nStreams > 0 PROVE complained <=> moved = 0
    BY DEF Dispatch!ComplainsOfNothing
  <2>1. iter = n
    BY <1>3 DEF DispatchInv
  <2>2. n * w > 0
    BY <1>2, <1>3
  <2>3. QED
    BY <1>2, <1>3, <2>1, <2>2 DEF DispatchInv, WorkInv
<1>6. Dispatch!SearchedIsValid
  <2>1. program = "bandwidth" /\ nStreams \in {1, 2, 4, 8} => HasKernel
    BY SmallPowers DEF HasKernel, Dispatch!Valid
  <2>2. program = "compute" /\ nFlops \in Dispatch!Power(12) => HasKernel
    BY DEF HasKernel, Dispatch!Valid
  <2>3. ASSUME program = "intensity", nStreams \in {1, 2, 4, 8}, nFlops \in (1 .. 32) \union {64, 128}
        PROVE  HasKernel
    <3>1. nFlops \in (1 .. 32) \union Dispatch!LargeFlops(nStreams)
      BY <2>3 DEF Dispatch!LargeFlops
    <3>2. QED
      BY <2>3, <3>1, SmallPowers DEF HasKernel, Dispatch!Valid
  <2>4. HasKernel => ~complained
    BY DEF DispatchInv, WorkInv
  <2>5. QED
    BY <2>1, <2>2, <2>3, <2>4 DEF Dispatch!SearchedIsValid
<1>7. QED
  BY <1>4, <1>5, <1>6

LEMMA DispatchInvariance == HostSpec => [](bench = "dispatch" => DispatchInv)
<1> DEFINE I == bench = "dispatch" => DispatchInv
<1>1. HostInit => I
  BY DispatchInitInv DEF HostInit
<1>2. I /\ [HostNext]_hostVars => I'
  <2> SUFFICES ASSUME I, [HostNext]_hostVars, bench' = "dispatch" PROVE DispatchInv'
    OBVIOUS
  <2>1. bench' = bench
    BY DEF HostNext, hostVars, RunTuned, RunDispatch, RunQueue, RunRegion, TunedStays, QueueStays, RegionStays
  <2>2. [Dispatch!Next]_dispatchVars
    BY <2>1 DEF HostNext, hostVars, RunTuned, RunDispatch, RunQueue, RunRegion
  <2>3. QED
    BY <2>1, <2>2, DispatchNextInv
<1>3. QED
  BY <1>1, <1>2, HostSteps, PTL

(* Whatever the launches, the streams and the multiply-adds asked for: a   *)
(* report is of what the kernels have done, but for the nine multiply-adds *)
(* and for parameters without a kernel, where the program has complained.  *)
THEOREM WorkReportedHolds == HostSpec => []WorkReported
<1>1. (bench = "dispatch" => DispatchInv) => WorkReported
  BY DispatchInvReports DEF WorkReported
<1>2. QED
  BY <1>1, DispatchInvariance, PTL

-----------------------------------------------------------------------------
(* SectionsHarness. *)

(* The text of the sections, in its five versions. *)
LEMMA SectionsListed ==
  ASSUME harness \in Harnesses
  PROVE  Region!Sections \in
           {<<100, 1, 2, 3, 4>>, <<1, 2, 100>>, <<100, 1, 2>>, <<1, 2>>, <<100, 1>>}
  BY RegionAssumption DEF Region!Parameters, Region!Sections, Region!Power

(* Every kernel has one section. *)
LEMMA SectionsFacts ==
  ASSUME harness \in Harnesses
  PROVE  /\ Len(Region!Sections) \in Nat
         /\ \A x, y \in 1 .. Len(Region!Sections) :
              Region!Sections[x] = Region!Sections[y] => x = y
         /\ Region!Kernel = {Region!Sections[x] : x \in 1 .. Len(Region!Sections)} \ {100}
         /\ Region!Kernel \in {1 .. 4, 1 .. 2, {1}}
<1> DEFINE s == Region!Sections
<1>1. CASE s = <<100, 1, 2, 3, 4>>
  <2>1. Len(s) = 5 /\ DOMAIN s = 1 .. 5
    BY <1>1
  <2>2. /\ \A x, y \in 1 .. 5 : s[x] = s[y] => x = y
        /\ {s[x] : x \in 1 .. 5} \ {100} = 1 .. 4
    BY <1>1
  <2>3. QED
    BY <2>1, <2>2 DEF Region!Kernel, Region!Power
<1>2. CASE s = <<1, 2, 100>>
  <2>1. Len(s) = 3 /\ DOMAIN s = 1 .. 3
    BY <1>2
  <2>2. /\ \A x, y \in 1 .. 3 : s[x] = s[y] => x = y
        /\ {s[x] : x \in 1 .. 3} \ {100} = 1 .. 2
    BY <1>2
  <2>3. QED
    BY <2>1, <2>2 DEF Region!Kernel, Region!Power
<1>3. CASE s = <<100, 1, 2>>
  <2>1. Len(s) = 3 /\ DOMAIN s = 1 .. 3
    BY <1>3
  <2>2. /\ \A x, y \in 1 .. 3 : s[x] = s[y] => x = y
        /\ {s[x] : x \in 1 .. 3} \ {100} = 1 .. 2
    BY <1>3
  <2>3. QED
    BY <2>1, <2>2 DEF Region!Kernel, Region!Power
<1>4. CASE s = <<1, 2>>
  <2>1. Len(s) = 2 /\ DOMAIN s = 1 .. 2
    BY <1>4
  <2>2. /\ \A x, y \in 1 .. 2 : s[x] = s[y] => x = y
        /\ {s[x] : x \in 1 .. 2} \ {100} = 1 .. 2
    BY <1>4
  <2>3. QED
    BY <2>1, <2>2 DEF Region!Kernel, Region!Power
<1>5. CASE s = <<100, 1>>
  <2>1. Len(s) = 2 /\ DOMAIN s = 1 .. 2
    BY <1>5
  <2>2. /\ \A x, y \in 1 .. 2 : s[x] = s[y] => x = y
        /\ {s[x] : x \in 1 .. 2} \ {100} = {1}
    BY <1>5
  <2>3. QED
    BY <2>1, <2>2 DEF Region!Kernel, Region!Power
<1>6. QED
  BY SectionsListed, <1>1, <1>2, <1>3, <1>4, <1>5

(* Of a handful of numbers one is the largest. *)
LEMMA LargestExists ==
  ASSUME NEW S \in {1 .. 4, 1 .. 2, {1}}, NEW f, \A k \in S : f[k] \in Int
  PROVE  \E j \in S : \A k \in S : f[k] <= f[j]
<1> DEFINE a == IF f[2] <= f[1] THEN 1 ELSE 2
           b == IF f[4] <= f[3] THEN 3 ELSE 4
           c == IF f[b] <= f[a] THEN a ELSE b
<1>1. CASE S = 1 .. 4
  <2>1. 1 \in S /\ 2 \in S /\ 3 \in S /\ 4 \in S
    BY <1>1
  <2>2. c \in S /\ f[1] <= f[c] /\ f[2] <= f[c] /\ f[3] <= f[c] /\ f[4] <= f[c]
    BY <2>1
  <2> HIDE DEF c
  <2>3. \A k \in S : k = 1 \/ k = 2 \/ k = 3 \/ k = 4
    BY <1>1
  <2>4. QED
    BY <2>2, <2>3
<1>2. CASE S = 1 .. 2
  <2>1. 1 \in S /\ 2 \in S
    BY <1>2
  <2>2. a \in S /\ f[1] <= f[a] /\ f[2] <= f[a]
    BY <2>1
  <2> HIDE DEF a
  <2>3. \A k \in S : k = 1 \/ k = 2
    BY <1>2
  <2>4. QED
    BY <2>2, <2>3
<1>3. CASE S = {1}
  BY <1>3
<1>4. QED
  BY <1>1, <1>2, <1>3

(* What the clock says in nanoseconds. *)
Reading(c) == c.tv_sec * Second + c.tv_nsec

ClockValue == [tv_sec : Int, tv_nsec : 0 .. Second - 1]

(* The clock loses nothing of the time, and the two ways to subtract its   *)
(* values, with a second borrowed or without, are both exact.              *)
LEMMA ClockReads ==
  ASSUME now \in Int, offset \in Int
  PROVE  Region!Clock \in ClockValue /\ Reading(Region!Clock) = now + offset
<1>1. Second \in Nat \ {0}
  BY RegionAssumption DEF Region!Parameters
<1> DEFINE n == now + offset
<1>2. n \in Int
  OBVIOUS
<1> HIDE DEF n
<1>3. n \div Second \in Int /\ n % Second \in 0 .. Second - 1 /\ n = Second * (n \div Second) + (n % Second)
  BY <1>1, <1>2
<1>4. Region!Clock = [tv_sec |-> n \div Second, tv_nsec |-> n % Second]
  BY DEF Region!Clock, n
<1>5. (n \div Second) * Second = Second * (n \div Second)
  BY <1>1, <1>3
<1>6. QED
  BY <1>3, <1>4, <1>5 DEF ClockValue, Reading, n

LEMMA DiffIsExact ==
  ASSUME NEW s \in ClockValue, NEW e \in ClockValue
  PROVE  Region!diff(s, e) = Reading(e) - Reading(s) /\ Reading(s) \in Int /\ Reading(e) \in Int
<1>1. Second \in Nat \ {0}
  BY RegionAssumption DEF Region!Parameters
<1>2. PICK x \in Int, y \in Int, u \in Int, v \in Int :
        x = s.tv_sec /\ y = s.tv_nsec /\ u = e.tv_sec /\ v = e.tv_nsec
  BY DEF ClockValue
<1>3. /\ (u - x) * Second = u * Second - x * Second
      /\ (u - x - 1) * Second = u * Second - x * Second - Second
      /\ u * Second \in Int /\ x * Second \in Int
  BY <1>1, <1>2
<1>4. QED
  BY <1>1, <1>2, <1>3 DEF Region!diff, Reading

(* The sections handed out, and a thread that is in one. *)
HandedOut == {Region!Sections[x] : x \in 1 .. next}

Busy(t) == job[t] # Region!Idle

Jobs == {Region!Idle} \union ({"begin", "kernel", "runs", "after"} \X Region!Kernel)

Moments == (0 .. MaxTime) \union {Region!None}

RegionType ==
  /\ harness \in Harnesses
  /\ team \subseteq Thread
  /\ next \in 0 .. Len(Region!Sections)
  /\ job \in [Thread -> Jobs]
  /\ now \in 0 .. MaxTime
  /\ offset \in {0} \union Settings \union {-x : x \in Settings}
  /\ harness # "i7" => offset = 0
  /\ start \in [{0} \union Region!Kernel -> ClockValue]
  /\ time \in [Region!Kernel -> Int]
  /\ kernel_begun \in [Region!Kernel -> Moments]
  /\ kernel_ended \in [Region!Kernel -> Moments]
  /\ longest \in Int

(* A thread is in a section that has been handed out and has no time yet,  *)
(* and is alone in it; a section that is not handed out has not begun.     *)
JobInv ==
  \A t \in Thread : Busy(t) =>
    LET k == job[t][2]
    IN  /\ t \in team /\ k \in HandedOut
        /\ time[k] = Region!None
        /\ job[t][1] \in {"begin", "kernel"} <=> kernel_begun[k] = Region!None
        /\ job[t][1] = "after" => kernel_ended[k] # Region!None

AloneInv ==
  \A t, u \in Thread : Busy(t) /\ Busy(u) /\ job[t][2] = job[u][2] => t = u

WaitingInv ==
  /\ team = {} => next = 0
  /\ \A k \in Region!Kernel \ HandedOut :
       kernel_begun[k] = Region!None /\ time[k] = Region!None

(* A section handed out is being worked on, or its time has been taken.    *)
ServedInv ==
  \A k \in Region!Kernel :
    /\ k \in HandedOut => time[k] # Region!None \/ \E t \in Thread : Busy(t) /\ job[t][2] = k
    /\ time[k] # Region!None => kernel_begun[k] # Region!None /\ kernel_ended[k] # Region!None

(* A clock was read in the past, at most before it was set. *)
ClockInv ==
  \A k \in {0} \union Region!Kernel : Reading(start[k]) <= now \/ Reading(start[k]) <= now + offset

(* While nobody sets the clock: the reading a kernel's time counts from    *)
(* came before its beginning, and the time reaches to its end.             *)
TimesInv ==
  offset = 0 =>
    \A k \in Region!Kernel :
      /\ kernel_begun[k] # Region!None => Reading(start[Region!Since(k)]) <= kernel_begun[k]
      /\ kernel_ended[k] # Region!None => kernel_ended[k] <= now
      /\ time[k] # Region!None => time[k] >= kernel_ended[k] - Reading(start[Region!Since(k)])

ReportInv ==
  longest # Region!None =>
    /\ team # {} /\ next = Len(Region!Sections) /\ \A t \in team : ~Busy(t)
    /\ longest = Region!Longest

RegionInv ==
  /\ RegionType /\ JobInv /\ AloneInv /\ WaitingInv /\ ServedInv /\ ClockInv /\ TimesInv
  /\ ReportInv

(* What the sections' facts say of the next one. *)
LEMMA NextSection ==
  ASSUME RegionType, next < Len(Region!Sections)
  PROVE  /\ Region!Sections[next + 1] \notin HandedOut
         /\ Region!Sections[next + 1] # 100 => Region!Sections[next + 1] \in Region!Kernel
         /\ {Region!Sections[x] : x \in 1 .. next + 1} = HandedOut \union {Region!Sections[next + 1]}
<1>1. /\ Len(Region!Sections) \in Nat
      /\ \A x, y \in 1 .. Len(Region!Sections) : Region!Sections[x] = Region!Sections[y] => x = y
      /\ Region!Kernel = {Region!Sections[x] : x \in 1 .. Len(Region!Sections)} \ {100}
  BY SectionsFacts DEF RegionType
<1>2. next \in Nat /\ next + 1 \in 1 .. Len(Region!Sections) /\ 1 .. next \subseteq 1 .. Len(Region!Sections)
  BY <1>1 DEF RegionType
<1>3. 1 .. next + 1 = (1 .. next) \union {next + 1} /\ next + 1 \notin 1 .. next
  BY <1>2
<1>4. QED
  BY <1>1, <1>2, <1>3 DEF HandedOut

(* All kernels are handed out in the end. *)
LEMMA AllHandedOut ==
  ASSUME RegionType, next = Len(Region!Sections)
  PROVE  Region!Kernel \subseteq HandedOut
  BY SectionsFacts DEF RegionType, HandedOut

(* The constants of a run. *)
LEMMA RegionNumbers ==
  /\ Region!None = -100 /\ Second \in Nat \ {0} /\ MaxTime \in Nat
  /\ Settings \subseteq 1 .. 99
  BY RegionAssumption DEF Region!Parameters, Region!None

(* What stays as it is while the harness does. *)
LEMMA SameHarness ==
  ASSUME harness' = harness
  PROVE  /\ Region!Sections' = Region!Sections /\ Region!Kernel' = Region!Kernel
         /\ \A k : (Region!Since(k))' = Region!Since(k)
  BY DEF Region!Sections, Region!Kernel, Region!Since

(* Init establishes the invariant. *)
LEMMA RegionInitInv == Region!Init => RegionInv
<1> SUFFICES ASSUME Region!Init PROVE RegionInv
  OBVIOUS
<1>1. /\ harness \in Harnesses /\ team = {} /\ next = 0 /\ now = 0 /\ offset = 0
      /\ longest = Region!None
      /\ job = [t \in Thread |-> Region!Idle]
      /\ time = [k \in Region!Kernel |-> Region!None]
      /\ kernel_begun = [k \in Region!Kernel |-> Region!None]
      /\ kernel_ended = [k \in Region!Kernel |-> Region!None]
      /\ start = [k \in {0} \union Region!Kernel |-> Region!Clock]
  BY DEF Region!Init, Region!Stopwatch
<1>2. Region!Clock \in ClockValue /\ Reading(Region!Clock) = 0
  BY <1>1, ClockReads
<1>3. Len(Region!Sections) \in Nat
  BY <1>1, SectionsFacts
<1>4. RegionType
  BY <1>1, <1>2, <1>3, RegionNumbers DEF RegionType, Jobs, Moments
<1>5. ~\E t \in Thread : Busy(t)
  BY <1>1 DEF Busy
<1>6. HandedOut = {}
  BY <1>1 DEF HandedOut
<1>7. JobInv /\ AloneInv /\ WaitingInv /\ ServedInv
  BY <1>1, <1>5, <1>6 DEF JobInv, AloneInv, WaitingInv, ServedInv
<1>8. ClockInv
  <2>1. \A k \in {0} \union Region!Kernel : start[k] = Region!Clock
    BY <1>1
  <2>2. QED
    BY <1>1, <1>2, <2>1 DEF ClockInv
<1>9. TimesInv /\ ReportInv
  BY <1>1 DEF TimesInv, ReportInv
<1>10. QED
  BY <1>4, <1>7, <1>8, <1>9 DEF RegionInv

(* A thread in a section is at one of the four places of one kernel. *)
LEMMA JobShape ==
  ASSUME RegionType, NEW t \in Thread, Busy(t)
  PROVE  /\ job[t] = <<job[t][1], job[t][2]>>
         /\ job[t][1] \in {"begin", "kernel", "runs", "after"}
         /\ job[t][2] \in Region!Kernel
  BY DEF RegionType, Busy, Jobs

(* No thread is busy before the fork, when no section is handed out. *)
LEMMA NobodyBefore ==
  ASSUME RegionInv, team = {}
  PROVE  HandedOut = {} /\ \A t \in Thread : ~Busy(t)
  BY DEF RegionInv, WaitingInv, JobInv, HandedOut

LEMMA ForkInv ==
  ASSUME RegionInv, Region!Fork
  PROVE  RegionInv'
<1>1. /\ team = {} /\ team' \subseteq Thread /\ team' # {}
      /\ start' = [start EXCEPT ![0] = Region!Clock]
      /\ harness' = harness
      /\ UNCHANGED <<next, job, now, offset, time, kernel_begun, kernel_ended, longest>>
  BY DEF Region!Fork, Region!Stopwatch
<1>2. /\ Region!Sections' = Region!Sections /\ Region!Kernel' = Region!Kernel
      /\ HandedOut' = HandedOut
  BY <1>1, SameHarness DEF HandedOut
<1>3. RegionType
  BY DEF RegionInv
<1>4. Region!Clock \in ClockValue /\ Reading(Region!Clock) = now + offset
  BY <1>3, ClockReads, RegionNumbers DEF RegionType
<1>5. HandedOut = {} /\ \A t \in Thread : ~Busy(t)
  BY <1>1, NobodyBefore
<1>6. \A t \in Thread : ~Busy(t)'
  BY <1>1, <1>5 DEF Busy
<1>7. RegionType'
  BY <1>1, <1>2, <1>3, <1>4 DEF RegionType, Jobs
<1>8. JobInv' /\ AloneInv'
  BY <1>6 DEF JobInv, AloneInv
<1>9. WaitingInv'
  BY <1>1, <1>2 DEF RegionInv, WaitingInv
<1>10. \A k \in Region!Kernel : kernel_begun[k] = Region!None /\ time[k] = Region!None
  BY <1>5 DEF RegionInv, WaitingInv
<1>11. ServedInv' 
  BY <1>1, <1>2, <1>5, <1>10 DEF ServedInv, Region!None
<1>12. ClockInv'
  <2> SUFFICES ASSUME NEW k \in {0} \union Region!Kernel
               PROVE  Reading(start'[k]) <= now \/ Reading(start'[k]) <= now + offset
    BY <1>1, <1>2 DEF ClockInv, Reading
  <2>1. CASE k = 0
    <3>1. start'[k] = Region!Clock
      BY <1>1, <1>3, <2>1 DEF RegionType
    <3>2. QED
      BY <1>3, <1>4, <3>1, RegionNumbers DEF RegionType
  <2>2. CASE k # 0
    <3>1. start'[k] = start[k]
      BY <1>1, <1>3, <2>2 DEF RegionType
    <3>2. QED
      BY <3>1 DEF RegionInv, ClockInv
  <2>3. QED
    BY <2>1, <2>2
<1>13. TimesInv'
  BY <1>1, <1>2, <1>10 DEF RegionInv, TimesInv, Region!None
<1>14. longest = Region!None
  BY <1>1 DEF RegionInv, ReportInv
<1>15. ReportInv'
  BY <1>1, <1>14 DEF ReportInv, Region!None
<1>16. QED
  BY <1>7, <1>8, <1>9, <1>11, <1>12, <1>13, <1>15 DEF RegionInv

LEMMA TakeInv ==
  ASSUME RegionInv, NEW t \in Thread, Region!Take(t)
  PROVE  RegionInv'
<1> DEFINE s == Region!Sections[next + 1]
<1>1. /\ t \in team /\ ~Busy(t) /\ next < Len(Region!Sections)
      /\ next' = next + 1
      /\ job' = [job EXCEPT ![t] = IF s = 100 THEN Region!Idle ELSE <<"begin", s>>]
      /\ harness' = harness
      /\ UNCHANGED <<team, now, offset, start, time, kernel_begun, kernel_ended, longest>>
  BY DEF Region!Take, Region!Power, Busy
<1>2. /\ Region!Sections' = Region!Sections /\ Region!Kernel' = Region!Kernel
      /\ \A k : (Region!Since(k))' = Region!Since(k)
  BY <1>1, SameHarness
<1>3. RegionType
  BY DEF RegionInv
<1>4. /\ s \notin HandedOut /\ (s # 100 => s \in Region!Kernel)
      /\ HandedOut' = HandedOut \union {s}
  BY <1>1, <1>2, <1>3, NextSection DEF HandedOut
<1>5. 100 \notin Region!Kernel /\ Len(Region!Sections) \in Nat
  BY <1>3, SectionsFacts DEF RegionType
<1> HIDE DEF s
<1>6. job \in [Thread -> Jobs] /\ Region!Idle = <<"idle", 100>>
  BY <1>3 DEF RegionType, Region!Idle, Region!Power
<1>7. /\ \A u \in Thread \ {t} : job'[u] = job[u]
      /\ job'[t] = IF s = 100 THEN Region!Idle ELSE <<"begin", s>>
  BY <1>1, <1>6
<1>8. \A u \in Thread \ {t} : Busy(u)' <=> Busy(u)
  BY <1>7 DEF Busy, Region!Idle, Region!Power
<1>9. /\ Busy(t)' <=> s # 100
      /\ Busy(t)' => job'[t][1] = "begin" /\ job'[t][2] = s
  BY <1>6, <1>7 DEF Busy, Region!Idle, Region!Power
<1>10. RegionType'
  <2>1. job' \in [Thread -> Jobs]
    BY <1>1, <1>4, <1>6 DEF Jobs
  <2>2. next' \in 0 .. Len(Region!Sections)
    BY <1>1, <1>3, <1>5 DEF RegionType
  <2>3. Jobs' = Jobs /\ Moments' = Moments
    BY <1>2 DEF Jobs, Region!Idle, Moments
  <2>4. QED
    BY <1>1, <1>2, <1>3, <2>1, <2>2, <2>3 DEF RegionType
<1>11. s # 100 => kernel_begun[s] = Region!None /\ time[s] = Region!None
  BY <1>4 DEF RegionInv, WaitingInv
<1>12. JobInv'
  <2> SUFFICES ASSUME NEW u \in Thread, Busy(u)'
               PROVE  /\ u \in team /\ job'[u][2] \in HandedOut'
                      /\ time[job'[u][2]] = Region!None
                      /\ job'[u][1] \in {"begin", "kernel"} <=> kernel_begun[job'[u][2]] = Region!None
                      /\ job'[u][1] = "after" => kernel_ended[job'[u][2]] # Region!None
    BY <1>1 DEF JobInv, Region!None
  <2>1. CASE u = t
    BY <1>1, <1>4, <1>9, <1>11, <2>1
  <2>2. CASE u # t
    BY <1>4, <1>7, <1>8, <2>2 DEF RegionInv, JobInv
  <2>3. QED
    BY <2>1, <2>2
<1>13. AloneInv'
  <2>1. \A u \in Thread \ {t} : Busy(u) => job[u][2] # s
    BY <1>4 DEF RegionInv, JobInv
  <2>2. QED
    BY <1>7, <1>8, <1>9, <2>1 DEF RegionInv, AloneInv
<1>14. WaitingInv'
  BY <1>1, <1>2, <1>4 DEF RegionInv, WaitingInv, Region!None
<1>15. ServedInv'
  <2> SUFFICES ASSUME NEW k \in Region!Kernel, k \in HandedOut', time[k] = Region!None
               PROVE  \E u \in Thread : Busy(u)' /\ job'[u][2] = k
    BY <1>1, <1>2 DEF RegionInv, ServedInv, Region!None
  <2>1. CASE k = s
    BY <1>5, <1>9, <2>1
  <2>2. CASE k # s
    <3>1. PICK u \in Thread : Busy(u) /\ job[u][2] = k
      BY <1>4, <2>2 DEF RegionInv, ServedInv
    <3>2. u # t
      BY <1>1, <3>1
    <3>3. QED
      BY <1>7, <1>8, <3>1, <3>2
  <2>3. QED
    BY <2>1, <2>2
<1>16. ClockInv' /\ TimesInv'
  BY <1>1, <1>2 DEF RegionInv, ClockInv, TimesInv, Region!None, Reading
<1>17. ReportInv'
  <2>1. longest = Region!None
    BY <1>1, <1>5, <1>3 DEF RegionInv, ReportInv, RegionType
  <2>2. QED
    BY <1>1, <2>1 DEF ReportInv, Region!None
<1>18. QED
  BY <1>10, <1>12, <1>13, <1>14, <1>15, <1>16, <1>17 DEF RegionInv

(* A thread goes on to another place of its section. *)
LEMMA PlaceMoves ==
  ASSUME RegionType, NEW t \in Thread, Busy(t), harness' = harness,
         NEW p \in {"begin", "kernel", "runs", "after"}, job' = [job EXCEPT ![t][1] = p]
  PROVE  /\ job' \in [Thread -> Jobs']
         /\ job'[t][1] = p
         /\ \A u \in Thread \ {t} : job'[u] = job[u]
         /\ \A u \in Thread : (Busy(u)' <=> Busy(u)) /\ job'[u][2] = job[u][2]
<1>1. PICK q \in {"begin", "kernel", "runs", "after"}, k \in Region!Kernel : job[t] = <<q, k>>
  BY JobShape
<1>2. job' = [job EXCEPT ![t] = <<p, k>>]
  <2>1. [job[t] EXCEPT ![1] = p] = <<p, k>>
    BY <1>1
  <2>2. QED
    BY <2>1
<1>3. Jobs' = Jobs
  BY SameHarness DEF Jobs, Region!Idle
<1>4. job \in [Thread -> Jobs] /\ <<p, k>> \in Jobs
  BY DEF RegionType, Jobs
<1>5. job'[t] = <<p, k>> /\ \A u \in Thread \ {t} : job'[u] = job[u]
  BY <1>2, <1>4
<1>6. Busy(t)'
  BY <1>5 DEF Busy, Region!Idle
<1>7. \A u \in Thread \ {t} : Busy(u)' <=> Busy(u)
  BY <1>5 DEF Busy, Region!Idle
<1>8. QED
  BY <1>1, <1>2, <1>3, <1>4, <1>5, <1>6, <1>7

(* Nothing is reported while a thread is busy. *)
LEMMA BusyNotReported ==
  ASSUME RegionInv, NEW t \in Thread, Busy(t)
  PROVE  longest = Region!None
  BY DEF RegionInv, ReportInv, JobInv

LEMMA BeforeInv ==
  ASSUME RegionInv, NEW t \in Thread, Region!Before(t)
  PROVE  RegionInv'
<1>1. /\ job[t][1] = "begin"
      /\ job' = [job EXCEPT ![t][1] = "kernel"]
      /\ start' = IF harness = "i7" THEN start ELSE [start EXCEPT ![job[t][2]] = Region!Clock]
      /\ harness' = harness
      /\ UNCHANGED <<team, next, now, offset, time, kernel_begun, kernel_ended, longest>>
  BY DEF Region!Before
<1>2. /\ Region!Sections' = Region!Sections /\ Region!Kernel' = Region!Kernel
      /\ HandedOut' = HandedOut
  BY <1>1, SameHarness DEF HandedOut
<1>3. RegionType
  BY DEF RegionInv
<1>4. Busy(t)
  BY <1>1 DEF Busy, Region!Idle
<1>5. /\ job' \in [Thread -> Jobs']
      /\ job'[t][1] = "kernel"
      /\ \A u \in Thread \ {t} : job'[u] = job[u]
      /\ \A u \in Thread : (Busy(u)' <=> Busy(u)) /\ job'[u][2] = job[u][2]
  <2>1. "kernel" \in {"begin", "kernel", "runs", "after"}
    OBVIOUS
  <2>2. QED
    BY <1>1, <1>3, <1>4, <2>1, PlaceMoves
<1>6. Region!Clock \in ClockValue /\ Reading(Region!Clock) = now + offset
  BY <1>3, ClockReads, RegionNumbers DEF RegionType
<1>7. PICK k \in Region!Kernel : k = job[t][2]
  BY <1>3, <1>4, JobShape
<1>8. k # 0
  <2>1. \A S \in {1 .. 4, 1 .. 2, {1}} : 0 \notin S
    OBVIOUS
  <2>2. Region!Kernel \in {1 .. 4, 1 .. 2, {1}}
    BY <1>3, SectionsFacts DEF RegionType
  <2>3. QED
    BY <2>1, <2>2
<1>9. kernel_begun[k] = Region!None /\ time[k] = Region!None
  BY <1>1, <1>4, <1>7 DEF RegionInv, JobInv
<1>10. /\ \A j \in {0} \union Region!Kernel : j # k \/ harness = "i7" => start'[j] = start[j]
       /\ start'[k] \in {start[k], Region!Clock}
       /\ start' \in [{0} \union Region!Kernel -> ClockValue]
  BY <1>1, <1>3, <1>6, <1>7 DEF RegionType
<1>11. RegionType'
  BY <1>1, <1>2, <1>3, <1>5, <1>10 DEF RegionType, Moments, Region!None, ClockValue
<1>12. JobInv' /\ AloneInv'
  BY <1>1, <1>2, <1>5 DEF RegionInv, JobInv, AloneInv, Region!None
<1>13. WaitingInv' /\ ServedInv'
  BY <1>1, <1>2, <1>5 DEF RegionInv, WaitingInv, ServedInv, Region!None
<1>14. ClockInv'
  <2> SUFFICES ASSUME NEW j \in {0} \union Region!Kernel
               PROVE  Reading(start'[j]) <= now \/ Reading(start'[j]) <= now + offset
    BY <1>1, <1>2 DEF ClockInv, Reading
  <2>1. CASE start'[j] = start[j]
    BY <2>1 DEF RegionInv, ClockInv
  <2>2. CASE start'[j] = Region!Clock
    BY <1>3, <1>6, <2>2, RegionNumbers DEF RegionType
  <2>3. QED
    BY <1>10, <2>1, <2>2
<1>15. TimesInv'
  <2> SUFFICES ASSUME offset = 0, NEW j \in Region!Kernel
               PROVE  /\ kernel_begun[j] # Region!None => Reading(start'[Region!Since(j)]) <= kernel_begun[j]
                      /\ kernel_ended[j] # Region!None => kernel_ended[j] <= now
                      /\ time[j] # Region!None => time[j] >= kernel_ended[j] - Reading(start'[Region!Since(j)])
    BY <1>1, <1>2, SameHarness DEF TimesInv, Reading, Region!None
  <2>1. CASE harness = "i7"
    BY <1>1, <2>1 DEF RegionInv, TimesInv
  <2>2. CASE harness # "i7"
    <3>1. Region!Since(j) = j
      BY <2>2 DEF Region!Since
    <3>2. CASE j = k
      BY <1>9, <3>2 DEF RegionInv, TimesInv
    <3>3. CASE j # k
      BY <1>10, <3>1, <3>3 DEF RegionInv, TimesInv
    <3>4. QED
      BY <3>2, <3>3
  <2>3. QED
    BY <2>1, <2>2
<1>16. ReportInv'
  BY <1>1, <1>4, BusyNotReported DEF ReportInv, Region!None
<1>17. QED
  BY <1>11, <1>12, <1>13, <1>14, <1>15, <1>16 DEF RegionInv

LEMMA BeginInv ==
  ASSUME RegionInv, NEW t \in Thread, Region!Begin(t)
  PROVE  RegionInv'
<1>1. /\ job[t][1] = "kernel"
      /\ job' = [job EXCEPT ![t][1] = "runs"]
      /\ kernel_begun' = [kernel_begun EXCEPT ![job[t][2]] = now]
      /\ harness' = harness
      /\ UNCHANGED <<team, next, now, offset, start, time, kernel_ended, longest>>
  BY DEF Region!Begin
<1>2. /\ Region!Sections' = Region!Sections /\ Region!Kernel' = Region!Kernel
      /\ HandedOut' = HandedOut
  BY <1>1, SameHarness DEF HandedOut
<1>3. RegionType
  BY DEF RegionInv
<1>4. Busy(t)
  BY <1>1 DEF Busy, Region!Idle
<1>5. /\ job' \in [Thread -> Jobs']
      /\ job'[t][1] = "runs"
      /\ \A u \in Thread \ {t} : job'[u] = job[u]
      /\ \A u \in Thread : (Busy(u)' <=> Busy(u)) /\ job'[u][2] = job[u][2]
  <2>1. "runs" \in {"begin", "kernel", "runs", "after"}
    OBVIOUS
  <2>2. QED
    BY <1>1, <1>3, <1>4, <2>1, PlaceMoves
<1>6. PICK k \in Region!Kernel : k = job[t][2]
  BY <1>3, <1>4, JobShape
<1>7. k \in HandedOut /\ time[k] = Region!None
  BY <1>4, <1>6 DEF RegionInv, JobInv
<1>8. /\ kernel_begun' \in [Region!Kernel -> Moments]
      /\ kernel_begun'[k] = now /\ now # Region!None
      /\ \A j \in Region!Kernel \ {k} : kernel_begun'[j] = kernel_begun[j]
  BY <1>1, <1>3, <1>6, RegionNumbers DEF RegionType, Moments
<1>9. RegionType'
  BY <1>1, <1>2, <1>3, <1>5, <1>8 DEF RegionType, Moments, Region!None, ClockValue
<1>10. \A u \in Thread \ {t} : Busy(u) => job[u][2] # k
  BY <1>4, <1>6 DEF RegionInv, AloneInv
<1>11. JobInv'
  <2> SUFFICES ASSUME NEW u \in Thread, Busy(u)
               PROVE  /\ u \in team /\ job[u][2] \in HandedOut
                      /\ time[job[u][2]] = Region!None
                      /\ job'[u][1] \in {"begin", "kernel"} <=> kernel_begun'[job[u][2]] = Region!None
                      /\ job'[u][1] = "after" => kernel_ended[job[u][2]] # Region!None
    BY <1>1, <1>2, <1>5 DEF JobInv, Region!None
  <2>1. CASE u = t
    BY <1>4, <1>5, <1>6, <1>8, <2>1 DEF RegionInv, JobInv
  <2>2. CASE u # t
    <3>1. job[u][2] \in Region!Kernel \ {k}
      BY <1>3, <1>10, <2>2, JobShape
    <3>2. kernel_begun'[job[u][2]] = kernel_begun[job[u][2]]
      BY <1>8, <3>1
    <3>3. QED
      BY <1>5, <2>2, <3>2 DEF RegionInv, JobInv
  <2>3. QED
    BY <2>1, <2>2
<1>12. AloneInv'
  BY <1>5 DEF RegionInv, AloneInv
<1>13. WaitingInv'
  BY <1>1, <1>2, <1>7, <1>8 DEF RegionInv, WaitingInv, Region!None
<1>14. ServedInv'
  BY <1>1, <1>2, <1>5, <1>7, <1>8 DEF RegionInv, ServedInv, Region!None
<1>15. ClockInv'
  BY <1>1, <1>2 DEF RegionInv, ClockInv, Reading
<1>16. TimesInv'
  <2> SUFFICES ASSUME offset = 0, NEW j \in Region!Kernel
               PROVE  /\ kernel_begun'[j] # Region!None => Reading(start[Region!Since(j)]) <= kernel_begun'[j]
                      /\ kernel_ended[j] # Region!None => kernel_ended[j] <= now
                      /\ time[j] # Region!None => time[j] >= kernel_ended[j] - Reading(start[Region!Since(j)])
    BY <1>1, <1>2, SameHarness DEF TimesInv, Reading, Region!None
  <2>1. CASE j = k
    <3>1. Region!Since(j) \in {0} \union Region!Kernel
      BY DEF Region!Since, Region!Stopwatch
    <3>2. Reading(start[Region!Since(j)]) <= now
      <4>1. now + offset = now
        BY <1>3, RegionNumbers DEF RegionType
      <4>2. QED
        BY <3>1, <4>1 DEF RegionInv, ClockInv
    <3>3. QED
      BY <1>7, <1>8, <2>1, <3>2 DEF RegionInv, TimesInv
  <2>2. CASE j # k
    BY <1>8, <2>2 DEF RegionInv, TimesInv
  <2>3. QED
    BY <2>1, <2>2
<1>17. ReportInv'
  BY <1>1, <1>4, BusyNotReported DEF ReportInv, Region!None
<1>18. QED
  BY <1>9, <1>11, <1>12, <1>13, <1>14, <1>15, <1>16, <1>17 DEF RegionInv

LEMMA EndInv ==
  ASSUME RegionInv, NEW t \in Thread, Region!End(t)
  PROVE  RegionInv'
<1>1. /\ job[t][1] = "runs"
      /\ job' = [job EXCEPT ![t][1] = "after"]
      /\ kernel_ended' = [kernel_ended EXCEPT ![job[t][2]] = now]
      /\ harness' = harness
      /\ UNCHANGED <<team, next, now, offset, start, time, kernel_begun, longest>>
  BY DEF Region!End
<1>2. /\ Region!Sections' = Region!Sections /\ Region!Kernel' = Region!Kernel
      /\ HandedOut' = HandedOut
  BY <1>1, SameHarness DEF HandedOut
<1>3. RegionType
  BY DEF RegionInv
<1>4. Busy(t)
  BY <1>1 DEF Busy, Region!Idle
<1>5. /\ job' \in [Thread -> Jobs']
      /\ job'[t][1] = "after"
      /\ \A u \in Thread \ {t} : job'[u] = job[u]
      /\ \A u \in Thread : (Busy(u)' <=> Busy(u)) /\ job'[u][2] = job[u][2]
  <2>1. "after" \in {"begin", "kernel", "runs", "after"}
    OBVIOUS
  <2>2. QED
    BY <1>1, <1>3, <1>4, <2>1, PlaceMoves
<1>6. PICK k \in Region!Kernel : k = job[t][2]
  BY <1>3, <1>4, JobShape
<1>7. time[k] = Region!None /\ kernel_begun[k] # Region!None
  BY <1>1, <1>4, <1>6 DEF RegionInv, JobInv
<1>8. /\ kernel_ended' \in [Region!Kernel -> Moments]
      /\ kernel_ended'[k] = now /\ now # Region!None
      /\ \A j \in Region!Kernel \ {k} : kernel_ended'[j] = kernel_ended[j]
  BY <1>1, <1>3, <1>6, RegionNumbers DEF RegionType, Moments
<1>9. RegionType'
  BY <1>1, <1>2, <1>3, <1>5, <1>8 DEF RegionType, Moments, Region!None, ClockValue
<1>10. \A u \in Thread \ {t} : Busy(u) => job[u][2] # k
  BY <1>4, <1>6 DEF RegionInv, AloneInv
<1>11. JobInv'
  <2> SUFFICES ASSUME NEW u \in Thread, Busy(u)
               PROVE  /\ u \in team /\ job[u][2] \in HandedOut
                      /\ time[job[u][2]] = Region!None
                      /\ job'[u][1] \in {"begin", "kernel"} <=> kernel_begun[job[u][2]] = Region!None
                      /\ job'[u][1] = "after" => kernel_ended'[job[u][2]] # Region!None
    BY <1>1, <1>2, <1>5 DEF JobInv, Region!None
  <2>1. CASE u = t
    BY <1>4, <1>5, <1>6, <1>7, <1>8, <2>1 DEF RegionInv, JobInv
  <2>2. CASE u # t
    <3>1. job[u][2] \in Region!Kernel \ {k}
      BY <1>3, <1>10, <2>2, JobShape
    <3>2. kernel_ended'[job[u][2]] = kernel_ended[job[u][2]]
      BY <1>8, <3>1
    <3>3. QED
      BY <1>5, <2>2, <3>2 DEF RegionInv, JobInv
  <2>3. QED
    BY <2>1, <2>2
<1>12. AloneInv'
  BY <1>5 DEF RegionInv, AloneInv
<1>13. WaitingInv'
  BY <1>1, <1>2 DEF RegionInv, WaitingInv, Region!None
<1>14. ServedInv'
  BY <1>1, <1>2, <1>5, <1>8 DEF RegionInv, ServedInv, Region!None
<1>15. ClockInv'
  BY <1>1, <1>2 DEF RegionInv, ClockInv, Reading
<1>16. TimesInv'
  <2> SUFFICES ASSUME offset = 0, NEW j \in Region!Kernel
               PROVE  /\ kernel_begun[j] # Region!None => Reading(start[Region!Since(j)]) <= kernel_begun[j]
                      /\ kernel_ended'[j] # Region!None => kernel_ended'[j] <= now
                      /\ time[j] # Region!None => time[j] >= kernel_ended'[j] - Reading(start[Region!Since(j)])
    BY <1>1, <1>2, SameHarness DEF TimesInv, Reading, Region!None
  <2>1. CASE j = k
    <3>1. now <= now
      BY <1>3, RegionNumbers DEF RegionType
    <3>2. QED
      BY <1>7, <1>8, <2>1, <3>1 DEF RegionInv, TimesInv
  <2>2. CASE j # k
    BY <1>8, <2>2 DEF RegionInv, TimesInv
  <2>3. QED
    BY <2>1, <2>2
<1>17. ReportInv'
  BY <1>1, <1>4, BusyNotReported DEF ReportInv, Region!None
<1>18. QED
  BY <1>9, <1>11, <1>12, <1>13, <1>14, <1>15, <1>16, <1>17 DEF RegionInv

(* What is stored is a time, not the mark of no time: setting the clock    *)
(* does not move it by as much.                                            *)
LEMMA AfterInv ==
  ASSUME RegionInv, NEW t \in Thread, Region!After(t)
  PROVE  RegionInv'
<1>1. /\ job[t][1] = "after"
      /\ job' = [job EXCEPT ![t] = Region!Idle]
      /\ time' = [time EXCEPT ![job[t][2]] = Region!diff(start[Region!Since(job[t][2])], Region!Clock)]
      /\ harness' = harness
      /\ UNCHANGED <<team, next, now, offset, start, kernel_begun, kernel_ended, longest>>
  BY DEF Region!After
<1>2. /\ Region!Sections' = Region!Sections /\ Region!Kernel' = Region!Kernel
      /\ HandedOut' = HandedOut
  BY <1>1, SameHarness DEF HandedOut
<1>3. RegionType
  BY DEF RegionInv
<1>4. Busy(t)
  BY <1>1 DEF Busy, Region!Idle
<1>5. /\ job' \in [Thread -> Jobs']
      /\ job'[t] = Region!Idle
      /\ \A u \in Thread \ {t} : job'[u] = job[u]
  <2>1. job \in [Thread -> Jobs] /\ Jobs' = Jobs /\ Region!Idle \in Jobs
    BY <1>2, <1>3 DEF RegionType, Jobs, Region!Idle
  <2>2. QED
    BY <1>1, <2>1
<1>6. \A u \in Thread : Busy(u)' <=> Busy(u) /\ u # t
  BY <1>5 DEF Busy, Region!Idle
<1>7. PICK k \in Region!Kernel : k = job[t][2]
  BY <1>3, <1>4, JobShape
<1>8. kernel_begun[k] # Region!None /\ kernel_ended[k] # Region!None
  BY <1>1, <1>4, <1>7 DEF RegionInv, JobInv
<1> DEFINE r == Reading(start[Region!Since(k)])
<1>9. /\ now \in Int /\ offset \in Int /\ offset >= -99
      /\ kernel_ended[k] \in Int
  <2>1. now \in Int /\ offset \in Int /\ offset >= -99
    <3>1. now \in 0 .. MaxTime /\ offset \in {0} \union Settings \union {-x : x \in Settings}
      BY <1>3 DEF RegionType
    <3>2. \A x \in Settings : x \in Int /\ 1 <= x /\ x <= 99
      BY RegionNumbers
    <3>3. QED
      BY <3>1, <3>2, RegionNumbers
  <2>2. kernel_ended[k] \in Moments
    BY <1>3 DEF RegionType
  <2>3. QED
    BY <1>8, <2>1, <2>2, RegionNumbers DEF Moments
<1>10. Region!Since(k) \in {0} \union Region!Kernel
  BY DEF Region!Since, Region!Stopwatch
<1>11. r \in Int /\ (r <= now \/ r <= now + offset)
  <2>1. start[Region!Since(k)] \in ClockValue
    BY <1>3, <1>10 DEF RegionType
  <2>2. QED
    BY <1>10, <2>1, DiffIsExact DEF RegionInv, ClockInv
<1>12. Region!diff(start[Region!Since(k)], Region!Clock) = (now + offset) - r
  <2>1. PICK b \in ClockValue : b = start[Region!Since(k)]
    BY <1>3, <1>10 DEF RegionType
  <2>2. PICK e \in ClockValue : e = Region!Clock
    BY <1>9, ClockReads
  <2>3. Reading(e) = now + offset /\ Reading(b) = r
    BY <1>9, <2>1, <2>2, ClockReads
  <2>4. Region!diff(b, e) = Reading(e) - Reading(b)
    BY DiffIsExact
  <2>5. Region!diff(b, e) = (now + offset) - r
    BY <2>3, <2>4
  <2>6. QED
    BY <2>1, <2>2, <2>5, Zenon
<1> HIDE DEF r
<1>13. (now + offset) - r \in Int /\ (now + offset) - r # -100
  BY <1>9, <1>11
<1>14. /\ time' \in [Region!Kernel -> Int]
       /\ time'[k] = (now + offset) - r
       /\ time'[k] # Region!None
       /\ \A j \in Region!Kernel \ {k} : time'[j] = time[j]
  BY <1>1, <1>3, <1>7, <1>12, <1>13, RegionNumbers DEF RegionType
<1>15. RegionType'
  BY <1>1, <1>2, <1>3, <1>5, <1>14 DEF RegionType, Moments, Region!None, ClockValue
<1>16. \A u \in Thread \ {t} : Busy(u) => job[u][2] # k
  BY <1>4, <1>7 DEF RegionInv, AloneInv
<1>17. k \in HandedOut
  BY <1>4, <1>7 DEF RegionInv, JobInv
<1>18. JobInv'
  <2> SUFFICES ASSUME NEW u \in Thread, Busy(u), u # t
               PROVE  /\ u \in team /\ job[u][2] \in HandedOut
                      /\ time'[job[u][2]] = Region!None
                      /\ job[u][1] \in {"begin", "kernel"} <=> kernel_begun[job[u][2]] = Region!None
                      /\ job[u][1] = "after" => kernel_ended[job[u][2]] # Region!None
    BY <1>1, <1>2, <1>5, <1>6 DEF JobInv, Region!None
  <2>1. job[u][2] \in Region!Kernel \ {k}
    BY <1>3, <1>16, JobShape
  <2>2. time'[job[u][2]] = time[job[u][2]]
    BY <1>14, <2>1
  <2>3. QED
    BY <2>2 DEF RegionInv, JobInv
<1>19. AloneInv'
  BY <1>5, <1>6 DEF RegionInv, AloneInv
<1>20. WaitingInv'
  BY <1>1, <1>2, <1>14, <1>17 DEF RegionInv, WaitingInv, Region!None
<1>21. ServedInv'
  <2> SUFFICES ASSUME NEW j \in Region!Kernel
               PROVE  /\ j \in HandedOut =>
                           time'[j] # Region!None \/ \E u \in Thread : Busy(u)' /\ job'[u][2] = j
                      /\ time'[j] # Region!None =>
                           kernel_begun[j] # Region!None /\ kernel_ended[j] # Region!None
    BY <1>1, <1>2 DEF ServedInv, Region!None
  <2>1. CASE j = k
    BY <1>8, <1>14, <2>1
  <2>2. CASE j # k
    <3>1. \A u \in Thread : Busy(u) /\ job[u][2] = j => Busy(u)' /\ job'[u][2] = j
      BY <1>5, <1>6, <1>7, <2>2
    <3>2. time'[j] = time[j]
      BY <1>14, <2>2
    <3>3. QED
      BY <3>1, <3>2 DEF RegionInv, ServedInv
  <2>3. QED
    BY <2>1, <2>2
<1>22. ClockInv'
  BY <1>1, <1>2 DEF RegionInv, ClockInv, Reading
<1>23. TimesInv'
  <2> SUFFICES ASSUME offset = 0, NEW j \in Region!Kernel
               PROVE  /\ kernel_begun[j] # Region!None => Reading(start[Region!Since(j)]) <= kernel_begun[j]
                      /\ kernel_ended[j] # Region!None => kernel_ended[j] <= now
                      /\ time'[j] # Region!None => time'[j] >= kernel_ended[j] - Reading(start[Region!Since(j)])
    BY <1>1, <1>2, SameHarness DEF TimesInv, Reading, Region!None
  <2>1. CASE j = k
    <3>1. kernel_ended[k] <= now
      BY <1>8 DEF RegionInv, TimesInv
    <3>2. (now + offset) - r >= kernel_ended[k] - r
      BY <1>9, <1>11, <3>1
    <3>3. QED
      BY <1>14, <2>1, <3>2 DEF RegionInv, TimesInv, r
  <2>2. CASE j # k
    BY <1>14, <2>2 DEF RegionInv, TimesInv
  <2>3. QED
    BY <2>1, <2>2
<1>24. ReportInv'
  BY <1>1, <1>4, BusyNotReported DEF ReportInv, Region!None
<1>25. QED
  BY <1>15, <1>18, <1>19, <1>20, <1>21, <1>22, <1>23, <1>24 DEF RegionInv

(* The performance is computed of the longest time, which there is. *)
LEMMA LongestIs ==
  ASSUME harness \in Harnesses, \A k \in Region!Kernel : time[k] \in Int
  PROVE  Region!Longest \in Int /\ \A k \in Region!Kernel : time[k] <= Region!Longest
<1>1. PICK j \in Region!Kernel : \A k \in Region!Kernel : time[k] <= time[j]
  BY SectionsFacts, LargestExists
<1>2. time[j] \in {time[k] : k \in Region!Kernel}
  OBVIOUS
<1>3. /\ Region!Longest \in {time[k] : k \in Region!Kernel}
      /\ \A k \in Region!Kernel : time[k] <= Region!Longest
  BY <1>1, <1>2 DEF Region!Longest
<1>4. QED
  BY <1>3

LEMMA ReportKeepsInv ==
  ASSUME RegionInv, Region!Report
  PROVE  RegionInv'
<1>1. /\ team # {} /\ next = Len(Region!Sections) /\ \A t \in team : ~Busy(t)
      /\ longest' = Region!Longest
      /\ harness' = harness
      /\ UNCHANGED <<team, next, job, now, offset, start, time, kernel_begun, kernel_ended>>
  BY DEF Region!Report, Region!Joined, Busy
<1>2. /\ Region!Sections' = Region!Sections /\ Region!Kernel' = Region!Kernel
      /\ HandedOut' = HandedOut /\ \A k : (Region!Since(k))' = Region!Since(k)
  BY <1>1, SameHarness DEF HandedOut
<1>3. RegionType /\ Region!Longest \in Int
  BY LongestIs DEF RegionInv, RegionType
<1>4. RegionType'
  BY <1>1, <1>2, <1>3 DEF RegionType, Jobs, Region!Idle, Moments, Region!None, ClockValue
<1>5. JobInv' /\ AloneInv' /\ WaitingInv' /\ ServedInv'
  BY <1>1, <1>2 DEF RegionInv, JobInv, AloneInv, WaitingInv, ServedInv, Busy, Region!Idle, Region!None
<1>6. ClockInv' /\ TimesInv'
  BY <1>1, <1>2 DEF RegionInv, ClockInv, TimesInv, Reading, Region!None
<1>7. ReportInv'
  <2>1. Region!Longest' = Region!Longest
    BY <1>1, <1>2 DEF Region!Longest
  <2>2. QED
    BY <1>1, <1>2, <2>1 DEF ReportInv, Busy, Region!Idle
<1>8. QED
  BY <1>4, <1>5, <1>6, <1>7 DEF RegionInv

LEMMA TickInv ==
  ASSUME RegionInv, Region!Tick
  PROVE  RegionInv'
<1>1. /\ now < MaxTime /\ now' = now + 1
      /\ harness' = harness
      /\ UNCHANGED <<team, next, job, longest, offset, start, time, kernel_begun, kernel_ended>>
  BY DEF Region!Tick
<1>2. /\ Region!Sections' = Region!Sections /\ Region!Kernel' = Region!Kernel
      /\ HandedOut' = HandedOut /\ \A k : (Region!Since(k))' = Region!Since(k)
  BY <1>1, SameHarness DEF HandedOut
<1>3. RegionType /\ now \in Int /\ offset \in Int
  BY RegionNumbers DEF RegionInv, RegionType
<1>4. RegionType'
  BY <1>1, <1>2, <1>3, RegionNumbers DEF RegionType, Jobs, Region!Idle, Moments, Region!None, ClockValue
<1>5. JobInv' /\ AloneInv' /\ WaitingInv' /\ ServedInv'
  BY <1>1, <1>2 DEF RegionInv, JobInv, AloneInv, WaitingInv, ServedInv, Busy, Region!Idle, Region!None
<1>6. \A k \in {0} \union Region!Kernel : Reading(start[k]) \in Int
  BY <1>3, DiffIsExact DEF RegionType
<1>7. ClockInv'
  BY <1>1, <1>2, <1>3, <1>6 DEF RegionInv, ClockInv, Reading
<1>8. TimesInv'
  <2>1. \A k \in Region!Kernel : kernel_ended[k] # Region!None => kernel_ended[k] \in Int
    BY <1>3, RegionNumbers DEF RegionType, Moments
  <2>2. QED
    BY <1>1, <1>2, <1>3, <2>1 DEF RegionInv, TimesInv, Reading, Region!None
<1>9. ReportInv'
  <2>1. Region!Longest' = Region!Longest
    BY <1>1, <1>2 DEF Region!Longest
  <2>2. QED
    BY <1>1, <1>2, <2>1 DEF RegionInv, ReportInv, Busy, Region!Idle, Region!None
<1>10. QED
  BY <1>4, <1>5, <1>7, <1>8, <1>9 DEF RegionInv

LEMMA SetClockInv ==
  ASSUME RegionInv, Region!SetClock
  PROVE  RegionInv'
<1>1. /\ offset = 0 /\ harness = "i7" /\ offset' \in Settings \union {-x : x \in Settings}
      /\ harness' = harness
      /\ UNCHANGED <<team, next, job, now, longest, start, time, kernel_begun, kernel_ended>>
  BY DEF Region!SetClock
<1>2. /\ Region!Sections' = Region!Sections /\ Region!Kernel' = Region!Kernel
      /\ HandedOut' = HandedOut
  BY <1>1, SameHarness DEF HandedOut
<1>3. RegionType /\ now \in Int /\ now + 0 = now /\ offset' # 0
  BY <1>1, RegionNumbers DEF RegionInv, RegionType
<1>4. RegionType'
  BY <1>1, <1>2, <1>3 DEF RegionType, Jobs, Region!Idle, Moments, Region!None, ClockValue
<1>5. JobInv' /\ AloneInv' /\ WaitingInv' /\ ServedInv'
  BY <1>1, <1>2 DEF RegionInv, JobInv, AloneInv, WaitingInv, ServedInv, Busy, Region!Idle, Region!None
<1>6. ClockInv'
  BY <1>1, <1>2, <1>3 DEF RegionInv, ClockInv, Reading
<1>7. TimesInv'
  BY <1>3 DEF TimesInv
<1>8. ReportInv'
  <2>1. Region!Longest' = Region!Longest
    BY <1>1, <1>2 DEF Region!Longest
  <2>2. QED
    BY <1>1, <1>2, <2>1 DEF RegionInv, ReportInv, Busy, Region!Idle, Region!None
<1>9. QED
  BY <1>4, <1>5, <1>6, <1>7, <1>8 DEF RegionInv

LEMMA RegionNextInv == RegionInv /\ [Region!Next]_sectionsVars => RegionInv'
<1> SUFFICES ASSUME RegionInv, [Region!Next]_sectionsVars PROVE RegionInv'
  OBVIOUS
<1>1. CASE UNCHANGED sectionsVars
  <2>1. UNCHANGED <<harness, team, next, job, now, offset, start, time, kernel_begun, kernel_ended, longest>>
    BY <1>1 DEF sectionsVars
  <2>2. /\ Region!Sections' = Region!Sections /\ Region!Kernel' = Region!Kernel
        /\ HandedOut' = HandedOut /\ \A k : (Region!Since(k))' = Region!Since(k)
    BY <2>1, SameHarness DEF HandedOut
  <2>3. Region!Longest' = Region!Longest
    BY <2>1, <2>2 DEF Region!Longest
  <2>4. RegionType'
    BY <2>1, <2>2 DEF RegionInv, RegionType, Jobs, Region!Idle, Moments, Region!None, ClockValue
  <2>5. JobInv' /\ AloneInv' /\ WaitingInv' /\ ServedInv'
    BY <2>1, <2>2 DEF RegionInv, JobInv, AloneInv, WaitingInv, ServedInv, Busy, Region!Idle, Region!None
  <2>6. ClockInv' /\ TimesInv'
    BY <2>1, <2>2 DEF RegionInv, ClockInv, TimesInv, Reading, Region!None
  <2>7. ReportInv'
    BY <2>1, <2>2, <2>3 DEF RegionInv, ReportInv, Busy, Region!Idle, Region!None
  <2>8. QED
    BY <2>4, <2>5, <2>6, <2>7 DEF RegionInv
<1>2. ASSUME NEW t \in Thread, Region!Step(t) PROVE RegionInv'
  BY <1>2, TakeInv, BeforeInv, BeginInv, EndInv, AfterInv DEF Region!Step
<1>3. UNCHANGED Region!vars => UNCHANGED sectionsVars
  BY DEF Region!vars, sectionsVars
<1>4. QED
  BY <1>1, <1>2, <1>3, ForkInv, ReportKeepsInv, TickInv, SetClockInv, Zenon DEF Region!Next

(* What it says of the times. *)
LEMMA RegionInvTimes ==
  RegionInv =>
    /\ Region!AllMeasured
    /\ offset = 0 => Region!CommonCovers /\ Region!KernelCovered
<1> SUFFICES ASSUME RegionInv
             PROVE  /\ Region!AllMeasured
                    /\ offset = 0 => Region!CommonCovers /\ Region!KernelCovered
  OBVIOUS
<1>1. RegionType
  BY DEF RegionInv
<1>2. longest # Region!None =>
        \A k \in Region!Kernel :
          time[k] # Region!None /\ kernel_begun[k] # Region!None /\ kernel_ended[k] # Region!None
  <2> SUFFICES ASSUME longest # Region!None, NEW k \in Region!Kernel PROVE time[k] # Region!None
    BY DEF RegionInv, ServedInv
  <2>1. \A t \in Thread : ~Busy(t)
    BY DEF RegionInv, ReportInv, JobInv
  <2>2. k \in HandedOut
    BY <1>1, AllHandedOut DEF RegionInv, ReportInv
  <2>3. QED
    BY <2>1, <2>2 DEF RegionInv, ServedInv
<1>3. Region!AllMeasured
  BY <1>2 DEF Region!AllMeasured
<1>4. \A k \in {0} \union Region!Kernel : Reading(start[k]) \in Int
  BY <1>1, DiffIsExact DEF RegionType
<1>5. \A k \in Region!Kernel : Region!Since(k) \in {0} \union Region!Kernel
  BY DEF Region!Since, Region!Stopwatch
<1>6. \A k \in Region!Kernel :
        /\ time[k] \in Int
        /\ kernel_begun[k] # Region!None => kernel_begun[k] \in Int
        /\ kernel_ended[k] # Region!None => kernel_ended[k] \in Int
  BY <1>1, RegionNumbers DEF RegionType, Moments
<1>7. ASSUME offset = 0 PROVE Region!KernelCovered
  <2> SUFFICES ASSUME NEW k \in Region!Kernel, time[k] # Region!None
               PROVE  time[k] >= kernel_ended[k] - kernel_begun[k]
    BY DEF Region!KernelCovered
  <2>1. kernel_begun[k] # Region!None /\ kernel_ended[k] # Region!None
    BY DEF RegionInv, ServedInv
  <2>2. PICK r \in Int : r = Reading(start[Region!Since(k)])
    BY <1>4, <1>5
  <2>3. r <= kernel_begun[k] /\ time[k] >= kernel_ended[k] - r
    BY <1>7, <2>1, <2>2 DEF RegionInv, TimesInv
  <2>4. QED
    BY <1>6, <2>1, <2>2, <2>3
<1>8. ASSUME offset = 0 PROVE Region!CommonCovers
  <2> SUFFICES ASSUME longest # Region!None, harness = "i7" PROVE longest >= Region!Span
    BY DEF Region!CommonCovers
  <2>1. \A k \in Region!Kernel : kernel_begun[k] \in Int /\ kernel_ended[k] \in Int
    BY <1>2, <1>6
  <2>2. Region!Kernel \in {1 .. 4, 1 .. 2, {1}}
    BY <1>1, SectionsFacts DEF RegionType
  <2>3. PICK l \in Region!Kernel : \A k \in Region!Kernel : kernel_ended[k] <= kernel_ended[l]
    BY <2>1, <2>2, LargestExists
  <2>4. PICK f \in Region!Kernel : \A k \in Region!Kernel : kernel_begun[f] <= kernel_begun[k]
    <3> DEFINE g == [k \in Region!Kernel |-> -kernel_begun[k]]
    <3>1. \A k \in Region!Kernel : g[k] \in Int /\ g[k] = -kernel_begun[k]
      BY <2>1
    <3> HIDE DEF g
    <3>2. PICK f \in Region!Kernel : \A k \in Region!Kernel : g[k] <= g[f]
      BY <2>2, <3>1, LargestExists
    <3>3. \A k \in Region!Kernel : kernel_begun[f] <= kernel_begun[k]
      BY <2>1, <3>1, <3>2
    <3>4. QED
      BY <3>3
  <2> DEFINE first == CHOOSE x \in {kernel_begun[k] : k \in Region!Kernel} :
                        \A k \in Region!Kernel : x <= kernel_begun[k]
             last == CHOOSE x \in {kernel_ended[k] : k \in Region!Kernel} :
                       \A k \in Region!Kernel : kernel_ended[k] <= x
  <2>5. first \in {kernel_begun[k] : k \in Region!Kernel} /\ \A k \in Region!Kernel : first <= kernel_begun[k]
    BY <2>4
  <2>6. last \in {kernel_ended[k] : k \in Region!Kernel} /\ \A k \in Region!Kernel : kernel_ended[k] <= last
    BY <2>3
  <2>7. Region!Span = last - first
    BY DEF Region!Span
  <2> HIDE DEF first, last
  <2>8. PICK a \in Region!Kernel, z \in Region!Kernel : first = kernel_begun[a] /\ last = kernel_ended[z]
    BY <2>5, <2>6
  <2>9. \A k \in Region!Kernel : Region!Since(k) = 0
    BY DEF Region!Since, Region!Stopwatch
  <2>10. PICK r \in Int : r = Reading(start[0])
    BY <1>4
  <2>11. r <= kernel_begun[a] /\ time[z] >= kernel_ended[z] - r
    BY <1>2, <1>8, <2>9, <2>10 DEF RegionInv, TimesInv
  <2>12. longest \in Int /\ time[z] <= longest
    BY <1>1, <1>6, LongestIs DEF RegionInv, RegionType, ReportInv
  <2>13. QED
    BY <1>6, <2>1, <2>7, <2>8, <2>10, <2>11, <2>12
<1>9. QED
  BY <1>3, <1>7, <1>8

LEMMA RegionInvariance == HostSpec => [](bench = "sections" => RegionInv)
<1> DEFINE I == bench = "sections" => RegionInv
<1>1. HostInit => I
  BY RegionInitInv DEF HostInit
<1>2. I /\ [HostNext]_hostVars => I'
  <2> SUFFICES ASSUME I, [HostNext]_hostVars, bench' = "sections" PROVE RegionInv'
    OBVIOUS
  <2>1. bench' = bench
    BY DEF HostNext, hostVars, RunTuned, RunDispatch, RunQueue, RunRegion, TunedStays, QueueStays, RegionStays
  <2>2. [Region!Next]_sectionsVars
    BY <2>1 DEF HostNext, hostVars, RunTuned, RunDispatch, RunQueue, RunRegion
  <2>3. QED
    BY <2>1, <2>2, RegionNextInv
<1>3. QED
  BY <1>1, <1>2, HostSteps, PTL

(* However the sections are dealt out to however many threads, and however *)
(* the time goes on: a harness computes its performance of kernels that    *)
(* have all run and been timed, and unless the clock has been set, the     *)
(* times cover what they are of.                                           *)
THEOREM RegionTimedHolds == HostSpec => []RegionTimed
<1>1. (bench = "sections" => RegionInv) => RegionTimed
  BY RegionInvTimes DEF RegionTimed
<1>2. QED
  BY <1>1, RegionInvariance, PTL

-----------------------------------------------------------------------------
(* OpenCLHost. *)

(* Where in the calls of a program the queue is filled, released, drained  *)
(* and measured; 0 where a program has no such call.                       *)
Place(p) ==
  CASE p = "flops" ->
         [write |-> 1, copied |-> 2, enqueue |-> 3, release |-> 0, start |-> 4, over |-> 5,
          elapsed |-> 6, profile |-> 7, last |-> 8]
    [] p = "random" ->
         [write |-> 2, copied |-> 3, enqueue |-> 4, release |-> 6, start |-> 7, over |-> 8,
          elapsed |-> 9, profile |-> 10, last |-> 12]
    [] p = "cache" ->
         [write |-> 0, copied |-> 0, enqueue |-> 1, release |-> 3, start |-> 2, over |-> 4,
          elapsed |-> 5, profile |-> 6, last |-> 8]
    [] p = "l1" ->
         [write |-> 2, copied |-> 3, enqueue |-> 4, release |-> 7, start |-> 6, over |-> 8,
          elapsed |-> 9, profile |-> 10, last |-> 12]
    [] p = "maliflops" ->
         [write |-> 1, copied |-> 2, enqueue |-> 3, release |-> 4, start |-> 0, over |-> 5,
          elapsed |-> 0, profile |-> 6, last |-> 7]

QueueNames == {"flops", "random", "cache", "l1", "maliflops"}

CallNames ==
  {"write", "finish", "enqueue", "start", "elapsed", "profile", "read", "release"}

(* Every call is where Place says, and nowhere else. *)
Placed(c, w) ==
  /\ c \in Seq(CallNames) /\ Len(c) = w.last
  /\ \A n \in 1 .. w.last :
       /\ c[n] = "write" <=> n = w.write
       /\ c[n] = "enqueue" <=> n = w.enqueue
       /\ c[n] = "release" <=> n = w.release
       /\ c[n] = "profile" <=> n = w.profile
       /\ c[n] = "start" => n <= w.start
       /\ c[n] = "elapsed" => n <= w.elapsed
       /\ n = w.start => c[n] = "start"
       /\ n = w.elapsed => c[n] = "elapsed"
       /\ n \in {w.copied, w.over} => c[n] = "finish"

(* The order a measurement depends on. *)
Ordered(p, w) ==
  /\ w.write \in Nat /\ w.copied \in Nat /\ w.enqueue \in Nat /\ w.release \in Nat
  /\ w.start \in Nat /\ w.over \in Nat /\ w.elapsed \in Nat /\ w.profile \in Nat /\ w.last \in Nat
  /\ w.write < w.copied \/ (w.write = 0 /\ w.copied = 0)
  /\ w.copied < w.enqueue /\ w.enqueue < w.over /\ w.over < w.profile /\ w.profile <= w.last
  /\ w.release < w.over
  /\ p # "flops" => w.enqueue < w.release
  /\ p = "flops" => w.release = 0
  /\ p # "maliflops" => w.enqueue < w.start /\ w.over < w.elapsed /\ w.start < w.elapsed /\ w.elapsed < w.profile
  /\ p = "maliflops" => w.start = 0
  /\ p \in {"cache", "l1"} => w.start < w.release

LEMMA PlacesHold ==
  ASSUME NEW p \in QueueNames
  PROVE  Placed(Queue!Calls(p), Place(p)) /\ Ordered(p, Place(p))
<1>1. CASE p = "flops"
  <2>1. Queue!Calls(p) = <<"write", "finish", "enqueue", "start", "finish", "elapsed", "profile", "read">>
    BY <1>1 DEF Queue!Calls
  <2>2. Place(p) = [write |-> 1, copied |-> 2, enqueue |-> 3, release |-> 0, start |-> 4, over |-> 5,
          elapsed |-> 6, profile |-> 7, last |-> 8]
    BY <1>1 DEF Place
  <2>3. Queue!Calls(p) \in Seq(CallNames) /\ Len(Queue!Calls(p)) = 8
    BY <2>1 DEF CallNames
  <2>4. \A n \in 1 .. 8 :
          /\ Queue!Calls(p)[n] = "write" <=> n = 1
          /\ Queue!Calls(p)[n] = "enqueue" <=> n = 3
          /\ Queue!Calls(p)[n] = "release" <=> n = 0
          /\ Queue!Calls(p)[n] = "profile" <=> n = 7
          /\ Queue!Calls(p)[n] = "start" => n <= 4
          /\ Queue!Calls(p)[n] = "elapsed" => n <= 6
          /\ n = 4 => Queue!Calls(p)[n] = "start"
          /\ n = 6 => Queue!Calls(p)[n] = "elapsed"
          /\ n \in {2, 5} => Queue!Calls(p)[n] = "finish"
    BY <2>1
  <2>5. Placed(Queue!Calls(p), Place(p))
    BY <2>2, <2>3, <2>4 DEF Placed
  <2>6. Ordered(p, Place(p))
    BY <1>1, <2>2 DEF Ordered
  <2>7. QED
    BY <2>5, <2>6
<1>2. CASE p = "random"
  <2>1. Queue!Calls(p) = <<"start", "write", "finish", "enqueue", "elapsed", "release", "start", "finish",
           "elapsed", "profile", "read", "finish">>
    BY <1>2 DEF Queue!Calls
  <2>2. Place(p) = [write |-> 2, copied |-> 3, enqueue |-> 4, release |-> 6, start |-> 7, over |-> 8,
          elapsed |-> 9, profile |-> 10, last |-> 12]
    BY <1>2 DEF Place
  <2>3. Queue!Calls(p) \in Seq(CallNames) /\ Len(Queue!Calls(p)) = 12
    BY <2>1 DEF CallNames
  <2>4. \A n \in 1 .. 12 :
          /\ Queue!Calls(p)[n] = "write" <=> n = 2
          /\ Queue!Calls(p)[n] = "enqueue" <=> n = 4
          /\ Queue!Calls(p)[n] = "release" <=> n = 6
          /\ Queue!Calls(p)[n] = "profile" <=> n = 10
          /\ Queue!Calls(p)[n] = "start" => n <= 7
          /\ Queue!Calls(p)[n] = "elapsed" => n <= 9
          /\ n = 7 => Queue!Calls(p)[n] = "start"
          /\ n = 9 => Queue!Calls(p)[n] = "elapsed"
          /\ n \in {3, 8} => Queue!Calls(p)[n] = "finish"
    BY <2>1
  <2>5. Placed(Queue!Calls(p), Place(p))
    BY <2>2, <2>3, <2>4 DEF Placed
  <2>6. Ordered(p, Place(p))
    BY <1>2, <2>2 DEF Ordered
  <2>7. QED
    BY <2>5, <2>6
<1>3. CASE p = "cache"
  <2>1. Queue!Calls(p) = <<"enqueue", "start", "release", "finish", "elapsed", "profile", "read", "finish">>
    BY <1>3 DEF Queue!Calls
  <2>2. Place(p) = [write |-> 0, copied |-> 0, enqueue |-> 1, release |-> 3, start |-> 2, over |-> 4,
          elapsed |-> 5, profile |-> 6, last |-> 8]
    BY <1>3 DEF Place
  <2>3. Queue!Calls(p) \in Seq(CallNames) /\ Len(Queue!Calls(p)) = 8
    BY <2>1 DEF CallNames
  <2>4. \A n \in 1 .. 8 :
          /\ Queue!Calls(p)[n] = "write" <=> n = 0
          /\ Queue!Calls(p)[n] = "enqueue" <=> n = 1
          /\ Queue!Calls(p)[n] = "release" <=> n = 3
          /\ Queue!Calls(p)[n] = "profile" <=> n = 6
          /\ Queue!Calls(p)[n] = "start" => n <= 2
          /\ Queue!Calls(p)[n] = "elapsed" => n <= 5
          /\ n = 2 => Queue!Calls(p)[n] = "start"
          /\ n = 5 => Queue!Calls(p)[n] = "elapsed"
          /\ n \in {0, 4} => Queue!Calls(p)[n] = "finish"
    BY <2>1
  <2>5. Placed(Queue!Calls(p), Place(p))
    BY <2>2, <2>3, <2>4 DEF Placed
  <2>6. Ordered(p, Place(p))
    BY <1>3, <2>2 DEF Ordered
  <2>7. QED
    BY <2>5, <2>6
<1>4. CASE p = "l1"
  <2>1. Queue!Calls(p) = <<"start", "write", "finish", "enqueue", "elapsed", "start", "release", "finish",
           "elapsed", "profile", "read", "finish">>
    BY <1>4 DEF Queue!Calls
  <2>2. Place(p) = [write |-> 2, copied |-> 3, enqueue |-> 4, release |-> 7, start |-> 6, over |-> 8,
          elapsed |-> 9, profile |-> 10, last |-> 12]
    BY <1>4 DEF Place
  <2>3. Queue!Calls(p) \in Seq(CallNames) /\ Len(Queue!Calls(p)) = 12
    BY <2>1 DEF CallNames
  <2>4. \A n \in 1 .. 12 :
          /\ Queue!Calls(p)[n] = "write" <=> n = 2
          /\ Queue!Calls(p)[n] = "enqueue" <=> n = 4
          /\ Queue!Calls(p)[n] = "release" <=> n = 7
          /\ Queue!Calls(p)[n] = "profile" <=> n = 10
          /\ Queue!Calls(p)[n] = "start" => n <= 6
          /\ Queue!Calls(p)[n] = "elapsed" => n <= 9
          /\ n = 6 => Queue!Calls(p)[n] = "start"
          /\ n = 9 => Queue!Calls(p)[n] = "elapsed"
          /\ n \in {3, 8} => Queue!Calls(p)[n] = "finish"
    BY <2>1
  <2>5. Placed(Queue!Calls(p), Place(p))
    BY <2>2, <2>3, <2>4 DEF Placed
  <2>6. Ordered(p, Place(p))
    BY <1>4, <2>2 DEF Ordered
  <2>7. QED
    BY <2>5, <2>6
<1>5. CASE p = "maliflops"
  <2>1. Queue!Calls(p) = <<"write", "finish", "enqueue", "release", "finish", "profile", "read">>
    BY <1>5 DEF Queue!Calls
  <2>2. Place(p) = [write |-> 1, copied |-> 2, enqueue |-> 3, release |-> 4, start |-> 0, over |-> 5,
          elapsed |-> 0, profile |-> 6, last |-> 7]
    BY <1>5 DEF Place
  <2>3. Queue!Calls(p) \in Seq(CallNames) /\ Len(Queue!Calls(p)) = 7
    BY <2>1 DEF CallNames
  <2>4. \A n \in 1 .. 7 :
          /\ Queue!Calls(p)[n] = "write" <=> n = 1
          /\ Queue!Calls(p)[n] = "enqueue" <=> n = 3
          /\ Queue!Calls(p)[n] = "release" <=> n = 4
          /\ Queue!Calls(p)[n] = "profile" <=> n = 6
          /\ Queue!Calls(p)[n] = "start" => n <= 0
          /\ Queue!Calls(p)[n] = "elapsed" => n <= 0
          /\ n = 0 => Queue!Calls(p)[n] = "start"
          /\ n = 0 => Queue!Calls(p)[n] = "elapsed"
          /\ n \in {2, 5} => Queue!Calls(p)[n] = "finish"
    BY <2>1
  <2>5. Placed(Queue!Calls(p), Place(p))
    BY <2>2, <2>3, <2>4 DEF Placed
  <2>6. Ordered(p, Place(p))
    BY <1>5, <2>2 DEF Ordered
  <2>7. QED
    BY <2>5, <2>6
<1>6. QED
  BY <1>1, <1>2, <1>3, <1>4, <1>5 DEF QueueNames

(* What is left of the calls at position n. *)
LEMMA CallsLeft ==
  ASSUME NEW c \in Seq(CallNames), NEW n \in 1 .. Len(c) + 1, script = SubSeq(c, n, Len(c))
  PROVE  /\ script = <<>> <=> n = Len(c) + 1
         /\ script # <<"exit">>
         /\ \A call : Queue!At(call) <=> n <= Len(c) /\ c[n] = call
         /\ n <= Len(c) => Tail(script) = SubSeq(c, n + 1, Len(c))
         /\ \A call : Queue!Contains(script, call) <=> (\E m \in n .. Len(c) : c[m] = call)
<1>1. Len(c) \in Nat /\ n \in Int
  OBVIOUS
<1>2. /\ script \in Seq(CallNames)
      /\ Len(script) = (Len(c) + 1) - n
      /\ \A m \in 1 .. (Len(c) + 1) - n : script[m] = c[(n + m) - 1]
  OBVIOUS
<1>3. script # <<"exit">>
  <2> SUFFICES ASSUME script = <<"exit">> PROVE FALSE
    OBVIOUS
  <2>1. Len(script) = 1 /\ script[1] = "exit"
    OBVIOUS
  <2>2. QED
    BY <1>2, <2>1 DEF CallNames
<1>4. script = <<>> <=> n = Len(c) + 1
  <2>1. \A q \in Seq(CallNames) : q = <<>> <=> Len(q) = 0
    OBVIOUS
  <2>2. script = <<>> <=> Len(script) = 0
    BY <1>2, <2>1, Zenon
  <2>3. QED
    BY <1>1, <1>2, <2>2, SMT
<1>5. n <= Len(c) => Head(script) = c[n] /\ Tail(script) = SubSeq(c, n + 1, Len(c))
  BY <1>1, HeadTailOfSubSeq
<1>6. \A call : Queue!Contains(script, call) <=> (\E m \in n .. Len(c) : c[m] = call)
  <2> SUFFICES ASSUME NEW call
               PROVE  (\E x \in 1 .. Len(script) : script[x] = call) <=> (\E m \in n .. Len(c) : c[m] = call)
    BY DEF Queue!Contains
  <2>1. ASSUME NEW x \in 1 .. Len(script), script[x] = call PROVE \E m \in n .. Len(c) : c[m] = call
    <3>1. (n + x) - 1 \in n .. Len(c) /\ c[(n + x) - 1] = call
      BY <1>1, <1>2, <2>1
    <3>2. QED
      BY <3>1
  <2>2. ASSUME NEW m \in n .. Len(c), c[m] = call PROVE \E x \in 1 .. Len(script) : script[x] = call
    <3>1. (m - n) + 1 \in 1 .. Len(script) /\ script[(m - n) + 1] = c[m]
      BY <1>1, <1>2
    <3>2. QED
      BY <2>2, <3>1
  <2>3. QED
    BY <2>1, <2>2
<1>7. QED
  BY <1>1, <1>3, <1>4, <1>5, <1>6 DEF Queue!At

(* What is in the queue when the host is at its call n. *)
Copies(n) == IF 0 < Place(host).write /\ Place(host).write < n THEN 1 ELSE 0

KernelsAt(n) ==
  IF n < Place(host).enqueue THEN 0
  ELSE IF n = Place(host).enqueue THEN i ELSE Queue!Kernels(host)

QueueHolds(n) ==
  /\ i \in 0 .. Queue!Kernels(host) - 1
  /\ i # 0 => n = Place(host).enqueue \/ (n = Place(host).profile /\ host # "maliflops")
  /\ queue \in Seq({"write", "kernel"})
  /\ Len(queue) = Copies(n) + KernelsAt(n)
  /\ \A k \in 1 .. Len(queue) : queue[k] = "write" <=> k <= Copies(n)

(* How far the device is: no kernel begins before the release, the copy is *)
(* complete after the first clFinish, everything after the next.           *)
DeviceHolds(n) ==
  /\ begun \in 0 .. Len(queue) /\ done \in Nat /\ done \in {begun, begun - 1}
  /\ userEvent \in BOOLEAN
  /\ userEvent <=> 0 < Place(host).release /\ Place(host).release < n
  /\ begun > Copies(n) => userEvent \/ host = "flops"
  /\ Place(host).copied < n => done >= Copies(n)
  /\ Place(host).over < n => done = Len(queue)

(* What the stopwatch holds. *)
TimerHolds(n) ==
  /\ timer \in [begun : Nat, done : Nat]
  /\ Place(host).start < n /\ host # "maliflops" => timer.done >= Copies(n)
  /\ Place(host).start < n /\ host \in {"cache", "l1"} => timer.begun <= Copies(n)
  /\ Place(host).elapsed < n /\ host # "maliflops" => elapsed = Len(queue)

(* The intervals added up, unless a query has failed. *)
Intervals(m) == [k \in 1 .. m |-> <<k, k>>]

ProfileHolds(n) ==
  /\ warned \in BOOLEAN
  /\ ~warned /\ n < Place(host).profile => timeAccum = Intervals(0)
  /\ ~warned /\ n = Place(host).profile => timeAccum = Intervals(i)
  /\ ~warned /\ n > Place(host).profile =>
       timeAccum = IF host = "maliflops" THEN << <<NITER, NITER>> >> ELSE Intervals(Queue!Kernels(host))

QueueAt(n) ==
  /\ script = SubSeq(Queue!Calls(host), n, Len(Queue!Calls(host)))
  /\ QueueHolds(n) /\ DeviceHolds(n) /\ TimerHolds(n) /\ ProfileHolds(n)

QueueInv ==
  /\ host \in QueuePrograms
  /\ \/ script = <<"exit">> /\ Queue!BackToBack
     \/ \E n \in 1 .. Len(Queue!Calls(host)) + 1 : QueueAt(n)

(* The numbers of a run. *)
LEMMA QueueNumbers ==
  ASSUME host \in QueuePrograms
  PROVE  /\ host \in QueueNames /\ NITER \in Nat \ {0} /\ Queue!Kernels(host) \in Nat \ {0}
         /\ host = "flops" => Queue!Kernels(host) = 1
         /\ host # "flops" => Queue!Kernels(host) = NITER
  BY QueueAssumption DEF Queue!Parameters, Queue!Kernels, QueueNames

(* The calls and their places, by numbers. *)
LEMMA HostPlaces ==
  ASSUME host \in QueuePrograms, NEW w, w = Place(host), NEW c, c = Queue!Calls(host)
  PROVE  /\ c \in Seq(CallNames) /\ Len(c) = w.last
                /\ \A n \in 1 .. w.last :
              /\ c[n] = "write" <=> n = w.write
              /\ c[n] = "enqueue" <=> n = w.enqueue
              /\ c[n] = "release" <=> n = w.release
              /\ c[n] = "profile" <=> n = w.profile
              /\ c[n] = "start" => n <= w.start
              /\ c[n] = "elapsed" => n <= w.elapsed
              /\ n = w.start => c[n] = "start"
              /\ n = w.elapsed => c[n] = "elapsed"
              /\ n \in {w.copied, w.over} => c[n] = "finish"
         /\ Ordered(host, w)
  BY QueueNumbers, PlacesHold DEF Placed

(* The host is at a call: which it is, and what is left behind it. *)
LEMMA HostAt ==
  ASSUME host \in QueuePrograms, NEW n \in 1 .. Len(Queue!Calls(host)) + 1, QueueAt(n),
         NEW call, Queue!At(call)
  PROVE  /\ n \in 1 .. Place(host).last /\ Len(Queue!Calls(host)) = Place(host).last
         /\ n + 1 \in 1 .. Len(Queue!Calls(host)) + 1
         /\ Queue!Calls(host)[n] = call
         /\ Tail(script) = SubSeq(Queue!Calls(host), n + 1, Len(Queue!Calls(host)))
<1>1. PICK c \in Seq(CallNames) : c = Queue!Calls(host) /\ Len(c) = Place(host).last
  BY HostPlaces
<1>2. script = SubSeq(c, n, Len(c)) /\ n \in 1 .. Len(c) + 1
  BY <1>1 DEF QueueAt
<1>3. n <= Len(c) /\ c[n] = call /\ Tail(script) = SubSeq(c, n + 1, Len(c))
  BY <1>2, CallsLeft
<1>4. QED
  BY <1>1, <1>2, <1>3

LEMMA QueueInitInv == Queue!Init => QueueInv
<1> SUFFICES ASSUME Queue!Init PROVE QueueInv
  OBVIOUS
<1>1. /\ host \in QueuePrograms /\ script = Queue!Calls(host) /\ i = 0 /\ queue = <<>>
      /\ begun = 0 /\ done = 0 /\ userEvent = FALSE
      /\ timer = [begun |-> 0, done |-> 0] /\ elapsed = 0 /\ timeAccum = <<>> /\ warned = FALSE
  BY DEF Queue!Init, Queue!Script
<1>2. PICK w, c : w = Place(host) /\ c = Queue!Calls(host)
  OBVIOUS
<1>3. /\ c \in Seq(CallNames) /\ Len(c) = w.last
          /\ Ordered(host, w)
  BY <1>1, <1>2, HostPlaces
<1>4. Queue!Kernels(host) \in Nat \ {0}
  BY <1>1, QueueNumbers
<1>5. Copies(1) = 0 /\ KernelsAt(1) = 0 /\ 1 < w.profile /\ 1 <= w.over
  BY <1>1, <1>2, <1>3 DEF Copies, KernelsAt, Ordered
<1>6. QueueHolds(1)
  BY <1>1, <1>4, <1>5 DEF QueueHolds
<1>7. DeviceHolds(1)
  <2>1. ~(0 < w.release /\ w.release < 1) /\ ~(w.over < 1)
    BY <1>3, <1>5 DEF Ordered
  <2>2. userEvent <=> 0 < w.release /\ w.release < 1
    BY <1>1, <2>1
  <2>3. Len(queue) = 0
    BY <1>1
  <2>4. begun \in 0 .. Len(queue) /\ done \in Nat /\ done \in {begun, begun - 1} /\ done >= Copies(1)
    BY <1>1, <1>5, <2>3
  <2>5. ~(begun > Copies(1))
    BY <1>1, <1>5
  <2>6. userEvent \in BOOLEAN
    BY <1>1
  <2>7. QED
    BY <1>2, <2>1, <2>2, <2>4, <2>5, <2>6, Zenon DEF DeviceHolds
<1>8. TimerHolds(1)
  BY <1>1, <1>2, <1>3, <1>5 DEF TimerHolds, Ordered
<1>9. ProfileHolds(1)
  <2>1. Intervals(0) = <<>>
    BY DEF Intervals
  <2>2. ~(1 = w.profile) /\ ~(1 > w.profile)
    BY <1>3, <1>5 DEF Ordered
  <2>3. QED
    BY <1>1, <1>2, <2>1, <2>2 DEF ProfileHolds
<1>10. script = SubSeq(c, 1, Len(c)) /\ 1 \in 1 .. Len(c) + 1
  BY <1>1, <1>2, <1>3, SubSeqFull
<1>11. QueueAt(1)
  BY <1>2, <1>6, <1>7, <1>8, <1>9, <1>10 DEF QueueAt
<1>12. QED
  BY <1>1, <1>2, <1>10, <1>11 DEF QueueInv

(* Until the places are passed, what is said of them stays. *)
LEMMA WriteInv ==
  ASSUME host \in QueuePrograms, NEW n \in 1 .. Len(Queue!Calls(host)) + 1, QueueAt(n), Queue!Write
  PROVE  QueueInv'
<1>1. /\ Queue!At("write") /\ queue' = Append(queue, "write") /\ script' = Tail(script)
      /\ host' = host
      /\ UNCHANGED <<i, begun, done, userEvent, timer, elapsed, timeAccum, warned>>
  BY DEF Queue!Write
<1>2. PICK w, c : w = Place(host) /\ c = Queue!Calls(host)
  OBVIOUS
<1>3. /\ n \in 1 .. w.last /\ Len(c) = w.last /\ n + 1 \in 1 .. Len(c) + 1
      /\ c[n] = "write" /\ script' = SubSeq(c, n + 1, Len(c))
  BY <1>1, <1>2, HostAt
<1>4. /\ n = w.write /\ n < w.copied /\ w.copied < w.enqueue /\ w.enqueue < w.over /\ w.over < w.profile
      /\ w.release < n <=> w.release < n + 1
      /\ host # "maliflops" => w.enqueue < w.start /\ w.over < w.elapsed
      /\ w.write \in Nat /\ w.copied \in Nat /\ w.enqueue \in Nat /\ w.start \in Nat
      /\ w.over \in Nat /\ w.elapsed \in Nat /\ w.profile \in Nat
  <2>1. Ordered(host, w) /\ n = w.write
    BY <1>2, <1>3, HostPlaces
  <2>2. QED
    BY <1>3, <2>1, SMTT(30) DEF Ordered
<1>5. Queue!Kernels(host) \in Nat \ {0}
  BY QueueNumbers
<1>6. /\ Copies(n) = 0 /\ Copies(n + 1) = 1 /\ KernelsAt(n) = 0
      /\ i = 0 /\ KernelsAt(n + 1)' = 0 /\ Copies(n + 1)' = 1
  <2>1. i = 0
    BY <1>2, <1>4 DEF QueueAt, QueueHolds
  <2>2. QED
    BY <1>1, <1>2, <1>3, <1>4, <2>1 DEF Copies, KernelsAt
<1>7. queue = <<>> /\ begun = 0 /\ done = 0
  BY <1>6 DEF QueueAt, QueueHolds, DeviceHolds
<1>8. Queue!Kernels(host)' = Queue!Kernels(host) /\ Place(host)' = w /\ Queue!Calls(host)' = c
  BY <1>1, <1>2
<1>9. QueueHolds(n + 1)'
  BY <1>1, <1>5, <1>6, <1>7, <1>8 DEF QueueHolds
<1>10. DeviceHolds(n + 1)'
  <2>1. ~(w.copied < n + 1) /\ ~(w.over < n + 1)
    BY <1>4
  <2>2. w.release < n <=> w.release < n + 1
    BY <1>4
  <2>3. Len(queue') = 1
    BY <1>1, <1>7
  <2>4. QED
    BY <1>1, <1>2, <1>6, <1>7, <1>8, <2>1, <2>2, <2>3 DEF DeviceHolds, QueueAt
<1>11. TimerHolds(n + 1)'
  <2>1. host # "maliflops" => ~(w.start < n + 1) /\ ~(w.elapsed < n + 1)
    BY <1>4
  <2>2. QED
    BY <1>1, <1>8, <2>1 DEF TimerHolds, QueueAt
<1>12. ProfileHolds(n + 1)'
  <2>1. n < w.profile /\ n + 1 < w.profile
    BY <1>4
  <2>2. n + 1 # w.profile /\ ~(n + 1 > w.profile)
    BY <1>3, <1>4, <2>1
  <2>3. QED
    BY <1>1, <1>2, <1>8, <2>1, <2>2 DEF ProfileHolds, QueueAt, Intervals
<1>13. QueueAt(n + 1)'
  BY <1>3, <1>8, <1>9, <1>10, <1>11, <1>12 DEF QueueAt
<1>14. QED
  BY <1>1, <1>2, <1>3, <1>8, <1>13 DEF QueueInv

(* Passing a call that fills nothing leaves the queue in order. *)
LEMMA QueuePasses ==
  ASSUME host \in QueuePrograms, NEW n \in Nat \ {0}, QueueHolds(n), ProfileHolds(n),
         n \notin {Place(host).write, Place(host).enqueue, Place(host).profile},
         UNCHANGED <<host, i, queue, timeAccum, warned>>
  PROVE  /\ QueueHolds(n + 1)' /\ ProfileHolds(n + 1)'
         /\ Copies(n + 1)' = Copies(n) /\ Copies(n) \in {0, 1}
<1>1. PICK w : w = Place(host)
  OBVIOUS
<1>2. /\ w.write \in Nat /\ w.enqueue \in Nat /\ w.profile \in Nat /\ w.enqueue < w.profile
      /\ n # w.write /\ n # w.enqueue /\ n # w.profile
  <2>1. Ordered(host, w)
    BY <1>1, HostPlaces
  <2>2. QED
    BY <1>1, <2>1 DEF Ordered
<1>3. i = 0 /\ Queue!Kernels(host) \in Nat \ {0}
  BY <1>1, <1>2, QueueNumbers DEF QueueHolds
<1>4. Place(host)' = w /\ Queue!Kernels(host)' = Queue!Kernels(host) /\ host' = host
  BY <1>1
<1>5. /\ Copies(n + 1)' = Copies(n) /\ Copies(n) \in {0, 1}
      /\ KernelsAt(n + 1)' = KernelsAt(n)
  BY <1>1, <1>2, <1>3, <1>4 DEF Copies, KernelsAt
<1>6. QueueHolds(n + 1)'
  BY <1>3, <1>4, <1>5 DEF QueueHolds
<1>7. ProfileHolds(n + 1)'
  <2>1. /\ n + 1 < w.profile => n < w.profile
        /\ n + 1 = w.profile => n < w.profile
        /\ n + 1 > w.profile => n > w.profile
    BY <1>2
  <2>2. Intervals(i)' = Intervals(0) /\ Intervals(0)' = Intervals(0)
    BY <1>3 DEF Intervals
  <2>3. QED
    BY <1>1, <1>4, <2>1, <2>2 DEF ProfileHolds, Intervals
<1>8. QED
  BY <1>5, <1>6, <1>7

LEMMA DevicePasses ==
  ASSUME host \in QueuePrograms, NEW n \in Nat \ {0}, DeviceHolds(n),
         Copies(n + 1)' = Copies(n), Copies(n) <= Len(queue), Copies(n) \in Nat,
         UNCHANGED <<host, queue, begun, done>>,
         n = Place(host).release => userEvent' = TRUE,
         n # Place(host).release => userEvent' = userEvent,
         n = Place(host).copied \/ n = Place(host).over => done = Len(queue)
  PROVE  DeviceHolds(n + 1)'
<1>1. PICK w : w = Place(host)
  OBVIOUS
<1>2. w.release \in Nat /\ w.copied \in Nat /\ w.over \in Nat
  <2>1. Ordered(host, w)
    BY <1>1, HostPlaces
  <2>2. QED
    BY <2>1 DEF Ordered
<1>3. Place(host)' = w /\ host' = host
  BY <1>1
<1>4. /\ userEvent' \in BOOLEAN
      /\ userEvent' <=> 0 < w.release /\ w.release < n + 1
      /\ userEvent => userEvent'
  <2>1. CASE n = w.release
    <3>1. userEvent' = TRUE /\ 0 < w.release /\ w.release < n + 1
      BY <1>1, <1>2, <2>1
    <3>2. QED
      BY <3>1
  <2>2. CASE n # w.release
    <3>1. w.release < n + 1 <=> w.release < n
      BY <1>2, <2>2
    <3>2. userEvent' = userEvent
      BY <1>1, <2>2
    <3>3. QED
      BY <1>1, <3>1, <3>2 DEF DeviceHolds
  <2>3. QED
    BY <2>1, <2>2
<1>5. w.copied < n + 1 => done >= Copies(n)
  BY <1>1, <1>2 DEF DeviceHolds
<1>6. w.over < n + 1 => done = Len(queue)
  BY <1>1, <1>2 DEF DeviceHolds
<1>7. QED
  BY <1>1, <1>3, <1>4, <1>5, <1>6 DEF DeviceHolds

LEMMA TimerPasses ==
  ASSUME host \in QueuePrograms, NEW n \in Nat \ {0}, TimerHolds(n),
         Copies(n + 1)' = Copies(n),
         n \notin {Place(host).start, Place(host).elapsed},
         UNCHANGED <<host, queue, timer, elapsed>>
  PROVE  TimerHolds(n + 1)'
<1>1. PICK w : w = Place(host)
  OBVIOUS
<1>2. w.start \in Nat /\ w.elapsed \in Nat /\ n # w.start /\ n # w.elapsed
  <2>1. Ordered(host, w)
    BY <1>1, HostPlaces
  <2>2. QED
    BY <1>1, <2>1 DEF Ordered
<1>3. Place(host)' = w /\ host' = host
  BY <1>1
<1>4. (w.start < n + 1 <=> w.start < n) /\ (w.elapsed < n + 1 <=> w.elapsed < n)
  BY <1>2
<1>5. QED
  BY <1>1, <1>3, <1>4 DEF TimerHolds

(* The queue has the copy in it once it is made. *)
LEMMA CopiesQueued ==
  ASSUME host \in QueuePrograms, NEW n \in Nat \ {0}, QueueHolds(n)
  PROVE  Copies(n) \in {0, 1} /\ KernelsAt(n) \in Nat /\ Copies(n) <= Len(queue)
  BY QueueNumbers DEF QueueHolds, Copies, KernelsAt

(* A call that ends in the next one. *)
LEMMA HostPasses ==
  ASSUME host \in QueuePrograms, NEW n \in 1 .. Len(Queue!Calls(host)) + 1, QueueAt(n),
         NEW call, Queue!At(call), script' = Tail(script), host' = host,
         QueueHolds(n + 1)', DeviceHolds(n + 1)', TimerHolds(n + 1)', ProfileHolds(n + 1)'
  PROVE  QueueInv'
<1>1. PICK c : c = Queue!Calls(host)
  OBVIOUS
<1>2. n + 1 \in 1 .. Len(c) + 1 /\ script' = SubSeq(c, n + 1, Len(c))
  BY <1>1, HostAt
<1>3. Queue!Calls(host)' = c
  BY <1>1
<1>4. QueueAt(n + 1)'
  BY <1>2, <1>3 DEF QueueAt
<1>5. QED
  BY <1>2, <1>3, <1>4 DEF QueueInv

LEMMA ReleaseInv ==
  ASSUME host \in QueuePrograms, NEW n \in 1 .. Len(Queue!Calls(host)) + 1, QueueAt(n), Queue!Release
  PROVE  QueueInv'
<1>1. /\ Queue!At("release") /\ userEvent' = TRUE /\ script' = Tail(script)
      /\ host' = host
      /\ UNCHANGED <<i, queue, begun, done, timer, elapsed, timeAccum, warned>>
  BY DEF Queue!Release
<1>2. PICK w, c : w = Place(host) /\ c = Queue!Calls(host)
  OBVIOUS
<1>3. n \in 1 .. w.last /\ n \in Nat \ {0} /\ c[n] = "release"
  BY <1>1, <1>2, HostAt, HostPlaces
<1>4. n = w.release /\ n \notin {w.write, w.enqueue, w.profile, w.copied, w.over, w.start, w.elapsed}
  BY <1>2, <1>3, HostPlaces
<1>5. /\ QueueHolds(n + 1)' /\ ProfileHolds(n + 1)'
      /\ Copies(n + 1)' = Copies(n) /\ Copies(n) \in {0, 1}
  BY <1>1, <1>2, <1>3, <1>4, QueuePasses DEF QueueAt
<1>6. Copies(n) <= Len(queue)
  BY <1>3, CopiesQueued DEF QueueAt
<1>7. DeviceHolds(n + 1)'
  <2>1. DeviceHolds(n)
    BY DEF QueueAt
  <2>2. /\ n = Place(host).release => userEvent' = TRUE
        /\ n # Place(host).release => userEvent' = userEvent
        /\ ~(n = Place(host).copied \/ n = Place(host).over)
    BY <1>1, <1>2, <1>4
  <2>3. /\ UNCHANGED <<host, queue, begun, done>>
        /\ Copies(n) \in Nat
        /\ n = Place(host).copied \/ n = Place(host).over => done = Len(queue)
    BY <1>1, <1>5, <2>2
  <2>4. QED
    BY <1>3, <1>5, <1>6, <2>1, <2>2, <2>3, DevicePasses, Zenon
<1>8. TimerHolds(n + 1)'
  BY <1>1, <1>2, <1>3, <1>4, <1>5, TimerPasses DEF QueueAt
<1>9. QED
  BY <1>1, <1>5, <1>7, <1>8, HostPasses

LEMMA StartsInv ==
  ASSUME host \in QueuePrograms, NEW n \in 1 .. Len(Queue!Calls(host)) + 1, QueueAt(n),
         Queue!StopwatchStart
  PROVE  QueueInv'
<1>1. /\ Queue!At("start") /\ timer' = [begun |-> begun, done |-> done] /\ script' = Tail(script)
      /\ host' = host
      /\ UNCHANGED <<i, queue, begun, done, userEvent, elapsed, timeAccum, warned>>
  BY DEF Queue!StopwatchStart
<1>2. PICK w, c : w = Place(host) /\ c = Queue!Calls(host)
  OBVIOUS
<1>3. n \in 1 .. w.last /\ n \in Nat \ {0} /\ c[n] = "start"
  BY <1>1, <1>2, HostAt, HostPlaces
<1>4. /\ n \notin {w.write, w.enqueue, w.release, w.profile, w.copied, w.over, w.elapsed}
      /\ n <= w.start
  BY <1>2, <1>3, HostPlaces
<1>5. /\ QueueHolds(n + 1)' /\ ProfileHolds(n + 1)'
      /\ Copies(n + 1)' = Copies(n) /\ Copies(n) \in {0, 1}
  BY <1>1, <1>2, <1>3, <1>4, QueuePasses DEF QueueAt
<1>6. Copies(n) <= Len(queue)
  BY <1>3, CopiesQueued DEF QueueAt
<1>7. DeviceHolds(n + 1)'
  <2>1. DeviceHolds(n)
    BY DEF QueueAt
  <2>2. /\ n = Place(host).release => userEvent' = TRUE
        /\ n # Place(host).release => userEvent' = userEvent
        /\ ~(n = Place(host).copied \/ n = Place(host).over)
    BY <1>1, <1>2, <1>4
  <2>3. /\ UNCHANGED <<host, queue, begun, done>>
        /\ Copies(n) \in Nat
        /\ n = Place(host).copied \/ n = Place(host).over => done = Len(queue)
    BY <1>1, <1>5, <2>2
  <2>4. QED
    BY <1>3, <1>5, <1>6, <2>1, <2>2, <2>3, DevicePasses, Zenon
<1>8. TimerHolds(n + 1)'
  <2>1. /\ host # "maliflops" /\ w.copied < w.start /\ w.start < w.elapsed /\ w.elapsed \in Nat /\ w.start \in Nat
        /\ host \in {"cache", "l1"} => w.start < w.release
    <3>1. Ordered(host, w)
      BY <1>2, HostPlaces
    <3>2. QED
      BY <1>3, <1>4, <3>1 DEF Ordered
  <2>2. begun \in Nat /\ done \in Nat
    BY DEF QueueAt, DeviceHolds
  <2>3. timer' \in [begun : Nat, done : Nat] /\ timer'.begun = begun /\ timer'.done = done
    BY <1>1, <2>2
  <2>4. CASE n = w.start
    <3>1. done >= Copies(n)
      BY <1>2, <2>1, <2>4 DEF QueueAt, DeviceHolds
    <3>2. host \in {"cache", "l1"} => begun <= Copies(n)
      <4> SUFFICES ASSUME host \in {"cache", "l1"} PROVE begun <= Copies(n)
        OBVIOUS
      <4>1. ~userEvent
        <5>1. w.start < w.release /\ w.release \in Nat
          <6>1. Ordered(host, w)
            BY <1>2, HostPlaces
          <6>2. QED
            BY <6>1 DEF Ordered
        <5>2. ~(w.release < n)
          BY <2>1, <2>4, <5>1
        <5>3. QED
          BY <1>2, <5>2 DEF QueueAt, DeviceHolds
      <4>2. ~(begun > Copies(n))
        BY <4>1 DEF QueueAt, DeviceHolds
      <4>3. QED
        BY <1>5, <2>2, <4>2
    <3>3. ~(w.elapsed < n + 1)
      BY <2>1, <2>4
    <3>4. QED
      BY <1>1, <1>2, <1>5, <2>3, <3>1, <3>2, <3>3 DEF TimerHolds
  <2>5. CASE n # w.start
    <3>1. ~(w.start < n + 1) /\ ~(w.elapsed < n + 1)
      BY <1>3, <1>4, <2>1, <2>5
    <3>2. QED
      BY <1>1, <1>2, <2>3, <3>1 DEF TimerHolds
  <2>6. QED
    BY <2>4, <2>5
<1>9. QED
  BY <1>1, <1>5, <1>7, <1>8, HostPasses

LEMMA ElapsedInv ==
  ASSUME host \in QueuePrograms, NEW n \in 1 .. Len(Queue!Calls(host)) + 1, QueueAt(n),
         Queue!StopwatchElapsed
  PROVE  QueueInv'
<1>1. /\ Queue!At("elapsed") /\ elapsed' = done /\ script' = Tail(script)
      /\ host' = host
      /\ UNCHANGED <<i, queue, begun, done, userEvent, timer, timeAccum, warned>>
  BY DEF Queue!StopwatchElapsed
<1>2. PICK w, c : w = Place(host) /\ c = Queue!Calls(host)
  OBVIOUS
<1>3. n \in 1 .. w.last /\ n \in Nat \ {0} /\ c[n] = "elapsed"
  BY <1>1, <1>2, HostAt, HostPlaces
<1>4. /\ n \notin {w.write, w.enqueue, w.release, w.profile, w.copied, w.over, w.start}
      /\ n <= w.elapsed
  BY <1>2, <1>3, HostPlaces
<1>5. /\ QueueHolds(n + 1)' /\ ProfileHolds(n + 1)'
      /\ Copies(n + 1)' = Copies(n) /\ Copies(n) \in {0, 1}
  BY <1>1, <1>2, <1>3, <1>4, QueuePasses DEF QueueAt
<1>6. Copies(n) <= Len(queue)
  BY <1>3, CopiesQueued DEF QueueAt
<1>7. DeviceHolds(n + 1)'
  <2>1. DeviceHolds(n)
    BY DEF QueueAt
  <2>2. /\ n = Place(host).release => userEvent' = TRUE
        /\ n # Place(host).release => userEvent' = userEvent
        /\ ~(n = Place(host).copied \/ n = Place(host).over)
    BY <1>1, <1>2, <1>4
  <2>3. /\ UNCHANGED <<host, queue, begun, done>>
        /\ Copies(n) \in Nat
        /\ n = Place(host).copied \/ n = Place(host).over => done = Len(queue)
    BY <1>1, <1>5, <2>2
  <2>4. QED
    BY <1>3, <1>5, <1>6, <2>1, <2>2, <2>3, DevicePasses, Zenon
<1>8. TimerHolds(n + 1)'
  <2>1. w.start \in Nat /\ w.elapsed \in Nat /\ (host # "maliflops" => w.over < w.elapsed)
    <3>1. Ordered(host, w)
      BY <1>2, HostPlaces
    <3>2. QED
      BY <3>1 DEF Ordered
  <2>2. w.start < n + 1 <=> w.start < n
    BY <1>3, <1>4, <2>1
  <2>3. w.elapsed < n + 1 /\ host # "maliflops" => done = Len(queue)
    <3> SUFFICES ASSUME w.elapsed < n + 1, host # "maliflops" PROVE done = Len(queue)
      OBVIOUS
    <3>1. n = w.elapsed
      BY <1>3, <1>4, <2>1
    <3>2. QED
      BY <1>2, <2>1, <3>1 DEF QueueAt, DeviceHolds
  <2>4. QED
    BY <1>1, <1>2, <1>5, <2>2, <2>3 DEF TimerHolds, QueueAt
<1>9. QED
  BY <1>1, <1>5, <1>7, <1>8, HostPasses

LEMMA FinishInv ==
  ASSUME host \in QueuePrograms, NEW n \in 1 .. Len(Queue!Calls(host)) + 1, QueueAt(n),
         Queue!Finish
  PROVE  QueueInv'
<1>1. /\ \E call \in {"finish", "read"} : Queue!At(call)
      /\ done = Len(queue) /\ script' = Tail(script)
      /\ host' = host
      /\ UNCHANGED <<i, queue, begun, done, userEvent, timer, elapsed, timeAccum, warned>>
  BY DEF Queue!Finish
<1>2. PICK w, c : w = Place(host) /\ c = Queue!Calls(host)
  OBVIOUS
<1>3. PICK call \in {"finish", "read"} : Queue!At(call)
  BY <1>1
<1>4. n \in 1 .. w.last /\ n \in Nat \ {0} /\ c[n] = call
  BY <1>2, <1>3, HostAt, HostPlaces
<1>5. n \notin {w.write, w.enqueue, w.release, w.profile, w.start, w.elapsed}
  BY <1>2, <1>4, HostPlaces
<1>6. /\ QueueHolds(n + 1)' /\ ProfileHolds(n + 1)'
      /\ Copies(n + 1)' = Copies(n) /\ Copies(n) \in {0, 1}
  BY <1>1, <1>2, <1>4, <1>5, QueuePasses DEF QueueAt
<1>7. Copies(n) <= Len(queue)
  BY <1>4, CopiesQueued DEF QueueAt
<1>8. DeviceHolds(n + 1)'
  <2>1. DeviceHolds(n)
    BY DEF QueueAt
  <2>2. /\ n = Place(host).release => userEvent' = TRUE
        /\ n # Place(host).release => userEvent' = userEvent
    BY <1>1, <1>2, <1>5
  <2>3. /\ UNCHANGED <<host, queue, begun, done>>
        /\ Copies(n) \in Nat
        /\ n = Place(host).copied \/ n = Place(host).over => done = Len(queue)
    BY <1>1, <1>6, <2>2
  <2>4. QED
    BY <1>4, <1>6, <1>7, <2>1, <2>2, <2>3, DevicePasses, Zenon
<1>9. TimerHolds(n + 1)'
  BY <1>1, <1>2, <1>4, <1>5, <1>6, TimerPasses DEF QueueAt
<1>10. QED
  BY <1>1, <1>3, <1>6, <1>8, <1>9, HostPasses

(* The last kernel enqueued ends the loop. *)
LEMMA EnqueueInv ==
  ASSUME host \in QueuePrograms, NEW n \in 1 .. Len(Queue!Calls(host)) + 1, QueueAt(n),
         Queue!Enqueue
  PROVE  QueueInv'
<1> DEFINE K == Queue!Kernels(host)
<1>1. /\ Queue!At("enqueue") /\ queue' = Append(queue, "kernel")
      /\ i' = IF i + 1 = K THEN 0 ELSE i + 1
      /\ script' = IF i' = 0 THEN Tail(script) ELSE script
      /\ host' = host
      /\ UNCHANGED <<begun, done, userEvent, timer, elapsed, timeAccum, warned>>
  BY DEF Queue!Enqueue
<1>2. PICK w, c : w = Place(host) /\ c = Queue!Calls(host)
  OBVIOUS
<1>3. n \in 1 .. w.last /\ n \in Nat \ {0} /\ c[n] = "enqueue" /\ n \in 1 .. Len(c) + 1
  BY <1>1, <1>2, HostAt, HostPlaces
<1>4. Ordered(host, w) /\ n = w.enqueue
  BY <1>2, <1>3, HostPlaces
<1>5. /\ w.write \in Nat /\ w.copied \in Nat /\ w.over \in Nat /\ w.profile \in Nat
      /\ w.write < n /\ n < w.over /\ n < w.profile /\ n + 1 < w.profile
      /\ host # "maliflops" =>
           w.start \in Nat /\ w.elapsed \in Nat /\ n < w.start /\ n < w.elapsed
  BY <1>3, <1>4, SMTT(30) DEF Ordered
<1>6. w.copied < n /\ w.release \in Nat /\ (w.release < n <=> w.release < n + 1)
  BY <1>3, <1>4, SMTT(30) DEF Ordered
<1>7. K \in Nat \ {0} /\ Place(host)' = w /\ K' = K /\ Queue!Calls(host)' = c
  BY <1>1, <1>2, QueueNumbers
<1>8. PICK m : m = IF i' = 0 THEN n + 1 ELSE n
  OBVIOUS
<1>9. i \in 0 .. K - 1 /\ i' \in 0 .. K - 1 /\ (i' = 0 <=> i + 1 = K)
  BY <1>1, <1>7 DEF QueueAt, QueueHolds
<1>10. /\ Copies(m)' = Copies(n) /\ Copies(n) \in {0, 1}
       /\ KernelsAt(n) = i /\ KernelsAt(m)' = i + 1
  BY <1>1, <1>2, <1>3, <1>4, <1>5, <1>7, <1>8, <1>9 DEF Copies, KernelsAt
<1>11. QueueHolds(m)'
  <2>1. queue \in Seq({"write", "kernel"}) /\ Len(queue) = Copies(n) + i
    BY <1>10 DEF QueueAt, QueueHolds
  <2>2. queue' \in Seq({"write", "kernel"}) /\ Len(queue') = Copies(m)' + KernelsAt(m)'
    BY <1>1, <1>9, <1>10, <2>1
  <2>3. \A k \in 1 .. Len(queue') : queue'[k] = "write" <=> k <= Copies(m)'
    <3> SUFFICES ASSUME NEW k \in 1 .. Len(queue') PROVE queue'[k] = "write" <=> k <= Copies(n)
      BY <1>10
    <3>1. CASE k = Len(queue) + 1
      <4>1. queue'[k] = "kernel"
        BY <1>1, <2>1, <3>1
      <4>2. k > Copies(n) /\ k \in Int
        BY <1>9, <1>10, <2>1, <3>1
      <4>3. QED
        BY <1>10, <4>1, <4>2
    <3>2. CASE k # Len(queue) + 1
      <4>1. k \in 1 .. Len(queue) /\ queue'[k] = queue[k]
        BY <1>1, <2>1, <3>2
      <4>2. QED
        BY <4>1 DEF QueueAt, QueueHolds
    <3>3. QED
      BY <3>1, <3>2
  <2>4. i' # 0 => m = w.enqueue
    BY <1>4, <1>8
  <2>5. QED
    BY <1>2, <1>7, <1>9, <2>2, <2>3, <2>4 DEF QueueHolds
<1>12. m \in Int /\ n <= m /\ m <= n + 1 /\ m \in 1 .. Len(c) + 1
  <2>1. n + 1 \in 1 .. Len(c) + 1
    BY <1>1, <1>2, HostAt
  <2>2. QED
    BY <1>3, <1>8, <2>1
<1>13. DeviceHolds(m)'
  <2>1. ~(w.over < m) /\ (w.release < m <=> w.release < n)
    BY <1>3, <1>5, <1>6, <1>8
  <2>2. Len(queue) \in Nat /\ Len(queue') = Len(queue) + 1
    BY <1>1 DEF QueueAt, QueueHolds
  <2>3. begun \in 0 .. Len(queue')
    BY <2>2 DEF QueueAt, DeviceHolds
  <2>4. done >= Copies(n)
    BY <1>2, <1>6 DEF QueueAt, DeviceHolds
  <2>5. userEvent <=> 0 < w.release /\ w.release < m
    BY <1>2, <2>1 DEF QueueAt, DeviceHolds
  <2>6. DeviceHolds(n)
    BY DEF QueueAt
  <2>7. QED
    BY <1>1, <1>7, <1>10, <2>1, <2>3, <2>4, <2>5, <2>6 DEF DeviceHolds
<1>14. TimerHolds(m)'
  <2>1. host # "maliflops" => ~(w.start < m) /\ ~(w.elapsed < m)
    BY <1>3, <1>5, <1>8
  <2>2. timer \in [begun : Nat, done : Nat]
    BY DEF QueueAt, TimerHolds
  <2>3. QED
    BY <1>1, <1>7, <2>1, <2>2 DEF TimerHolds
<1>15. ProfileHolds(m)'
  <2>1. m < w.profile /\ m # w.profile /\ ~(m > w.profile)
    BY <1>5, <1>3, <1>8
  <2>2. QED
    BY <1>1, <1>2, <1>5, <1>7, <2>1 DEF QueueAt, ProfileHolds, Intervals
<1>16. script' = SubSeq(c, m, Len(c))
  <2>1. Tail(script) = SubSeq(c, n + 1, Len(c)) /\ script = SubSeq(c, n, Len(c))
    BY <1>1, <1>2, HostAt DEF QueueAt
  <2>2. QED
    BY <1>1, <1>8, <2>1
<1>17. QueueAt(m)'
  BY <1>7, <1>11, <1>13, <1>14, <1>15, <1>16 DEF QueueAt
<1>18. QED
  BY <1>1, <1>7, <1>12, <1>17 DEF QueueInv

(* One more interval. *)
LEMMA OneMore ==
  ASSUME NEW m \in Nat
  PROVE  Append(Intervals(m), <<m + 1, m + 1>>) = Intervals(m + 1)
<1>1. \A l \in Nat : /\ Intervals(l) \in Seq(Nat \X Nat) /\ Len(Intervals(l)) = l
                     /\ \A k \in 1 .. l : Intervals(l)[k] = <<k, k>>
  BY DEF Intervals
<1>2. PICK r \in Seq(Nat \X Nat), t \in Seq(Nat \X Nat), x \in Nat \X Nat :
        r = Intervals(m) /\ t = Intervals(m + 1) /\ x = <<m + 1, m + 1>>
  <2>1. m + 1 \in Nat /\ <<m + 1, m + 1>> \in Nat \X Nat
    OBVIOUS
  <2>2. QED
    BY <1>1, <2>1, Zenon
<1>3. Append(r, x) \in Seq(Nat \X Nat) /\ Len(Append(r, x)) = m + 1 /\ Len(t) = m + 1
  BY <1>1, <1>2
<1>4. ASSUME NEW k \in 1 .. m + 1 PROVE Append(r, x)[k] = t[k]
  <2>1. t[k] = <<k, k>> /\ Len(r) = m
    BY <1>1, <1>2
  <2>2. CASE k = m + 1
    <3>1. Append(r, x)[k] = x
      BY <2>1, <2>2
    <3>2. QED
      BY <1>2, <2>1, <2>2, <3>1, Zenon
  <2>3. CASE k # m + 1
    <3>1. k \in 1 .. m /\ Append(r, x)[k] = r[k]
      BY <2>1, <2>3
    <3>2. QED
      BY <1>1, <1>2, <2>1, <3>1
  <2>4. QED
    BY <2>2, <2>3
<1>5. Append(r, x) = t
  BY <1>3, <1>4, SeqEqual
<1>6. QED
  BY <1>2, <1>5

(* The last query ends the loop. *)
LEMMA ProfileInv ==
  ASSUME host \in QueuePrograms, NEW n \in 1 .. Len(Queue!Calls(host)) + 1, QueueAt(n),
         Queue!Profile
  PROVE  QueueInv'
<1> DEFINE K == Queue!Kernels(host)
           q == Queue!Queried
<1>1. /\ Queue!At("profile")
      /\ \E s \in {q, timeStart}, e \in {q, timeEnd} :
           /\ timeAccum' = Append(timeAccum, <<s, e>>)
           /\ warned' = (warned \/ s # q \/ e # q)
      /\ i' = IF q = K THEN 0 ELSE i + 1
      /\ script' = IF i' = 0 THEN Tail(script) ELSE script
      /\ host' = host
      /\ UNCHANGED <<queue, begun, done, userEvent, timer, elapsed>>
  BY DEF Queue!Profile
<1>2. PICK w, c : w = Place(host) /\ c = Queue!Calls(host)
  OBVIOUS
<1>3. n \in 1 .. w.last /\ n \in Nat \ {0} /\ c[n] = "profile" /\ n \in 1 .. Len(c) + 1
  BY <1>1, <1>2, HostAt, HostPlaces
<1>4. Ordered(host, w) /\ n = w.profile
  BY <1>2, <1>3, HostPlaces
<1>5. /\ w.write \in Nat /\ w.copied \in Nat /\ w.over \in Nat /\ w.enqueue \in Nat /\ w.release \in Nat
      /\ w.write < n /\ w.copied < n /\ w.over < n /\ w.enqueue < n /\ w.release < n
      /\ w.start \in Nat /\ w.elapsed \in Nat /\ w.start < n
      /\ host # "maliflops" => w.elapsed < n
  BY <1>3, <1>4, SMTT(60) DEF Ordered
<1>6. /\ K \in Nat \ {0} /\ Place(host)' = w /\ K' = K /\ Queue!Calls(host)' = c
      /\ NITER \in Nat \ {0} /\ (host = "maliflops" => K = NITER)
  BY <1>1, <1>2, QueueNumbers
<1>7. PICK m : m = IF i' = 0 THEN n + 1 ELSE n
  OBVIOUS
<1>8. /\ i \in 0 .. K - 1
      /\ host = "maliflops" => i = 0 /\ q = K
      /\ host # "maliflops" => q = i + 1
  BY <1>2, <1>4, <1>5, <1>6 DEF QueueAt, QueueHolds, Queue!Queried
<1> HIDE DEF q
<1>9. /\ i' \in 0 .. K - 1 /\ (i' = 0 <=> q = K)
      /\ host = "maliflops" => i' = 0
  BY <1>1, <1>6, <1>8
<1>10. m \in Int /\ n <= m /\ m <= n + 1 /\ m \in 1 .. Len(c) + 1
  <2>1. n + 1 \in 1 .. Len(c) + 1
    BY <1>1, <1>2, HostAt
  <2>2. QED
    BY <1>3, <1>7, <2>1
<1>11. /\ Copies(m)' = Copies(n) /\ Copies(n) \in {0, 1}
       /\ KernelsAt(n) = K /\ KernelsAt(m)' = K
  BY <1>1, <1>2, <1>3, <1>5, <1>6, <1>10 DEF Copies, KernelsAt
<1>12. QueueHolds(m)'
  <2>1. i' # 0 => m = w.profile /\ host # "maliflops"
    BY <1>4, <1>7, <1>9
  <2>2. QED
    BY <1>1, <1>2, <1>6, <1>9, <1>11, <2>1 DEF QueueAt, QueueHolds
<1>13. DeviceHolds(m)'
  <2>1. w.over < m /\ w.copied < m /\ w.release < m
    BY <1>3, <1>5, <1>10
  <2>2. DeviceHolds(n)
    BY DEF QueueAt
  <2>3. QED
    BY <1>1, <1>2, <1>5, <1>6, <1>11, <2>1, <2>2 DEF DeviceHolds
<1>14. TimerHolds(m)'
  <2>1. TimerHolds(n)
    BY DEF QueueAt
  <2>2. QED
    BY <1>1, <1>2, <1>5, <1>6, <1>11, <2>1 DEF TimerHolds
<1>15. ProfileHolds(m)'
  <2>1. PICK s, e : /\ timeAccum' = Append(timeAccum, <<s, e>>)
                    /\ warned' = (warned \/ s # q \/ e # q)
    BY <1>1
  <2>2. warned' \in BOOLEAN
    BY <2>1
  <2>3. ~warned' => ~warned /\ s = q /\ e = q
    BY <2>1, Zenon
  <2>4. ~warned => timeAccum = Intervals(i)
    BY <1>2, <1>4 DEF QueueAt, ProfileHolds
  <2>5. ~(m < w.profile)
    BY <1>3, <1>4, <1>10
  <2>6. ASSUME ~warned', m = w.profile PROVE timeAccum' = Intervals(i')
    <3>1. i' # 0 /\ host # "maliflops" /\ i' = i + 1 /\ q = i + 1 /\ i \in Nat
      BY <1>1, <1>3, <1>4, <1>6, <1>7, <1>8, <1>9, <2>6
    <3>2. timeAccum' = Append(Intervals(i), <<i + 1, i + 1>>)
      BY <2>1, <2>3, <2>4, <2>6, <3>1
    <3>3. QED
      BY <3>1, <3>2, OneMore
  <2>7. ASSUME ~warned', m > w.profile
        PROVE  timeAccum' = IF host = "maliflops" THEN << <<NITER, NITER>> >> ELSE Intervals(K)
    <3>1. q = K
      BY <1>3, <1>4, <1>7, <1>9, <2>7
    <3>2. timeAccum' = Append(Intervals(i), <<K, K>>)
      BY <2>1, <2>3, <2>4, <2>7, <3>1
    <3>3. CASE host = "maliflops"
      <4>1. Intervals(0) = <<>>
        BY DEF Intervals
      <4>2. Append(<<>>, <<K, K>>) = << <<K, K>> >>
        OBVIOUS
      <4>3. i = 0 /\ K = NITER
        BY <1>6, <1>8, <3>3
      <4>4. QED
        BY <3>2, <3>3, <4>1, <4>2, <4>3, Zenon
    <3>4. CASE host # "maliflops"
      <4>1. K = i + 1 /\ i \in Nat
        BY <1>6, <1>8, <3>1, <3>4
      <4>2. QED
        BY <3>2, <3>4, <4>1, OneMore
    <3>5. QED
      BY <3>3, <3>4
  <2>8. Intervals(i)' = Intervals(i') /\ Intervals(K)' = Intervals(K)
    BY <1>6 DEF Intervals
  <2>9. QED
    BY <1>1, <1>6, <2>2, <2>5, <2>6, <2>7, <2>8 DEF ProfileHolds
<1>16. script' = SubSeq(c, m, Len(c))
  <2>1. Tail(script) = SubSeq(c, n + 1, Len(c)) /\ script = SubSeq(c, n, Len(c))
    BY <1>1, <1>2, HostAt DEF QueueAt
  <2>2. QED
    BY <1>1, <1>7, <2>1
<1>17. QueueAt(m)'
  BY <1>6, <1>12, <1>13, <1>14, <1>15, <1>16 DEF QueueAt
<1>18. QED
  BY <1>1, <1>6, <1>10, <1>17 DEF QueueInv

(* The kernels among the first commands of the queue. *)
LEMMA KernelsCounted ==
  ASSUME host \in QueuePrograms, NEW n \in Nat \ {0}, QueueHolds(n), NEW b \in 0 .. Len(queue)
  PROVE  Queue!KernelsIn(b) = IF b <= Copies(n) THEN 0 ELSE b - Copies(n)
<1>1. /\ Copies(n) \in {0, 1} /\ Len(queue) \in Nat /\ queue \in Seq({"write", "kernel"})
      /\ \A k \in 1 .. Len(queue) : queue[k] = "write" <=> k <= Copies(n)
  BY CopiesQueued DEF QueueHolds
<1>2. {k \in 1 .. b : queue[k] = "kernel"} = Copies(n) + 1 .. b
  <2>1. \A k \in 1 .. b : queue[k] \in {"write", "kernel"} /\ (queue[k] = "write" <=> k <= Copies(n))
    BY <1>1
  <2>2. \A k \in 1 .. b : queue[k] = "kernel" <=> k > Copies(n)
    BY <1>1, <2>1
  <2>3. QED
    BY <1>1, <2>2
<1>3. Queue!KernelsIn(b) = Cardinality(Copies(n) + 1 .. b)
  <2>1. \A S : Queue!Cardinality(S) = Cardinality(S)
    BY Zenon DEF Queue!Cardinality, Cardinality
  <2>2. QED
    BY <1>2, <2>1, Zenon DEF Queue!KernelsIn
<1>4. Copies(n) + 1 \in Int /\ b \in Int
  BY <1>1
<1>5. Cardinality(Copies(n) + 1 .. b) = IF Copies(n) + 1 > b THEN 0 ELSE (b - (Copies(n) + 1)) + 1
  BY <1>4, FS_Interval
<1>6. QED
  BY <1>1, <1>3, <1>4, <1>5

(* The device begins a kernel after the release, when all are enqueued.    *)
LEMMA QueueBackToBack ==
  ASSUME host \in QueuePrograms, NEW n \in Nat \ {0}, QueueAt(n)
  PROVE  Queue!BackToBack
<1> SUFFICES ASSUME Queue!KernelsIn(begun) > 0
             PROVE  Queue!KernelsIn(Len(queue)) = Queue!Kernels(host)
  BY DEF Queue!BackToBack
<1>1. PICK w : w = Place(host)
  OBVIOUS
<1>2. QueueHolds(n) /\ DeviceHolds(n) /\ Ordered(host, w)
  BY <1>1, HostPlaces DEF QueueAt
<1>3. /\ Copies(n) \in {0, 1} /\ KernelsAt(n) \in Nat /\ Len(queue) = Copies(n) + KernelsAt(n)
      /\ begun \in 0 .. Len(queue) /\ Len(queue) \in 0 .. Len(queue)
  BY <1>2, CopiesQueued DEF QueueHolds, DeviceHolds
<1>4. begun > Copies(n)
  BY <1>2, <1>3, KernelsCounted
<1>5. KernelsAt(n) > 0 /\ (userEvent \/ host = "flops")
  BY <1>2, <1>3, <1>4 DEF DeviceHolds
<1>6. KernelsAt(n) = Queue!Kernels(host)
  <2>1. CASE host = "flops"
    <3>1. i = 0
      BY <2>1, <1>2, QueueNumbers DEF QueueHolds
    <3>2. QED
      BY <1>5, <3>1 DEF KernelsAt
  <2>2. CASE host # "flops"
    <3>1. w.enqueue \in Nat /\ w.release \in Nat /\ w.enqueue < w.release
      BY <1>2, <2>2 DEF Ordered
    <3>2. w.release < n
      BY <1>1, <1>2, <1>5, <2>2 DEF DeviceHolds
    <3>3. ~(n < w.enqueue) /\ n # w.enqueue
      BY <3>1, <3>2
    <3>4. QED
      BY <1>1, <3>3 DEF KernelsAt
  <2>3. QED
    BY <2>1, <2>2
<1>7. Queue!KernelsIn(Len(queue)) = KernelsAt(n)
  <2>1. ~(Len(queue) <= Copies(n)) /\ Len(queue) - Copies(n) = KernelsAt(n)
    BY <1>3, <1>5
  <2>2. QED
    BY <1>2, <1>3, <2>1, KernelsCounted
<1>8. QED
  BY <1>6, <1>7

(* exit() ends it, with the queue as it is. *)
LEMMA FailInv ==
  ASSUME host \in QueuePrograms, NEW n \in 1 .. Len(Queue!Calls(host)) + 1, QueueAt(n), Queue!Fail
  PROVE  QueueInv'
<1>1. /\ script' = <<"exit">> /\ host' = host
      /\ UNCHANGED <<queue, begun>>
  BY DEF Queue!Fail
<1>2. n \in Nat \ {0}
  <2>1. PICK c : c = Queue!Calls(host) /\ Len(c) = Place(host).last /\ c \in Seq(CallNames)
    BY HostPlaces
  <2>2. QED
    BY <2>1
<1>3. Queue!BackToBack
  BY <1>2, QueueBackToBack
<1>4. /\ Queue!KernelsIn(begun)' = Queue!KernelsIn(begun)
      /\ Queue!KernelsIn(Len(queue))' = Queue!KernelsIn(Len(queue))
      /\ Queue!Kernels(host)' = Queue!Kernels(host)
  BY <1>1 DEF Queue!KernelsIn
<1>5. Queue!BackToBack'
  BY <1>3, <1>4 DEF Queue!BackToBack
<1>6. QED
  BY <1>1, <1>5 DEF QueueInv

(* What the device does leaves the host where it is. *)
LEMMA DeviceInv ==
  ASSUME host \in QueuePrograms, NEW n \in 1 .. Len(Queue!Calls(host)) + 1, QueueAt(n),
         Queue!DeviceStep
  PROVE  QueueInv'
<1>1. UNCHANGED <<host, script, i, queue, userEvent, timer, elapsed, timeAccum, warned>>
  BY DEF Queue!DeviceStep, Queue!Begin, Queue!Complete
<1>2. PICK w : w = Place(host)
  OBVIOUS
<1>3. /\ Place(host)' = w /\ Queue!Calls(host)' = Queue!Calls(host) /\ Queue!Kernels(host)' = Queue!Kernels(host)
      /\ Copies(n)' = Copies(n) /\ KernelsAt(n)' = KernelsAt(n) /\ Intervals(i)' = Intervals(i)
  BY <1>1, <1>2 DEF Copies, KernelsAt, Intervals
<1>4. QueueHolds(n) /\ DeviceHolds(n) /\ TimerHolds(n) /\ ProfileHolds(n)
  BY DEF QueueAt
<1>5. QueueHolds(n)' /\ TimerHolds(n)' /\ ProfileHolds(n)'
  BY <1>1, <1>2, <1>3, <1>4 DEF QueueHolds, TimerHolds, ProfileHolds, Intervals
<1>6. n \in Nat \ {0}
  <2>1. PICK c : c = Queue!Calls(host) /\ Len(c) = Place(host).last /\ c \in Seq(CallNames)
    BY HostPlaces
  <2>2. QED
    BY <2>1
<1>7. /\ begun \in 0 .. Len(queue) /\ done \in Nat /\ done \in {begun, begun - 1}
      /\ Len(queue) \in Nat /\ Copies(n) \in {0, 1}
  BY <1>4, <1>6, CopiesQueued DEF DeviceHolds, QueueHolds
<1>8. DeviceHolds(n)'
  <2>1. CASE Queue!Begin
    <3>1. /\ begun = done /\ begun < Len(queue) /\ begun' = begun + 1 /\ done' = done
          /\ queue[begun + 1] = "kernel" /\ host # "flops" => userEvent
      BY <2>1 DEF Queue!Begin
    <3>2. begun' \in 0 .. Len(queue) /\ done' \in {begun', begun' - 1}
      BY <1>7, <3>1
    <3>3. begun' > Copies(n) => userEvent \/ host = "flops"
      <4> SUFFICES ASSUME begun' > Copies(n), host # "flops" PROVE userEvent
        OBVIOUS
      <4>1. begun + 1 \in 1 .. Len(queue) /\ ~(begun + 1 <= Copies(n))
        BY <1>7, <3>1
      <4>2. queue[begun + 1] # "write" /\ queue[begun + 1] \in {"write", "kernel"}
        BY <1>4, <4>1 DEF QueueHolds
      <4>3. QED
        BY <3>1, <4>2
    <3>4. QED
      BY <1>1, <1>2, <1>3, <1>4, <3>1, <3>2, <3>3 DEF DeviceHolds
  <2>2. CASE Queue!Complete
    <3>1. begun = done + 1 /\ done' = begun /\ begun' = begun
      BY <2>2 DEF Queue!Complete
    <3>2. done' \in Nat /\ done' \in {begun', begun' - 1}
      BY <1>7, <3>1
    <3>3. w.copied < n => done' >= Copies(n)
      BY <1>2, <1>4, <1>7, <3>1 DEF DeviceHolds
    <3>4. ~(w.over < n)
      BY <1>2, <1>4, <1>7, <3>1 DEF DeviceHolds
    <3>5. QED
      BY <1>1, <1>2, <1>3, <1>4, <3>1, <3>2, <3>3, <3>4 DEF DeviceHolds
  <2>3. QED
    BY <2>1, <2>2 DEF Queue!DeviceStep
<1>9. QueueAt(n)'
  BY <1>1, <1>3, <1>5, <1>8 DEF QueueAt
<1>10. QED
  BY <1>1, <1>3, <1>9 DEF QueueInv

LEMMA QueueNextInv == QueueInv /\ [Queue!Next]_queueVars => QueueInv'
<1> SUFFICES ASSUME QueueInv, [Queue!Next]_queueVars PROVE QueueInv'
  OBVIOUS
<1>1. host \in QueuePrograms
  BY DEF QueueInv
<1>2. CASE UNCHANGED queueVars
  <2>1. UNCHANGED <<host, script, i, queue, begun, done, userEvent, timer, elapsed, timeAccum, warned>>
    BY <1>2 DEF queueVars
  <2>2. /\ Queue!KernelsIn(begun)' = Queue!KernelsIn(begun)
        /\ Queue!KernelsIn(Len(queue))' = Queue!KernelsIn(Len(queue))
        /\ Queue!Kernels(host)' = Queue!Kernels(host)
        /\ Queue!Calls(host)' = Queue!Calls(host)
    BY <2>1 DEF Queue!KernelsIn
  <2>3. ASSUME NEW n, QueueAt(n) PROVE QueueAt(n)'
    <3>1. Place(host)' = Place(host) /\ Copies(n)' = Copies(n) /\ KernelsAt(n)' = KernelsAt(n)
      BY <2>1 DEF Copies, KernelsAt
    <3>2. QED
      BY <2>1, <2>2, <2>3, <3>1 DEF QueueAt, QueueHolds, DeviceHolds, TimerHolds, ProfileHolds, Intervals
  <2>4. CASE script = <<"exit">> /\ Queue!BackToBack
    BY <1>1, <2>1, <2>2, <2>4 DEF QueueInv, Queue!BackToBack
  <2>5. CASE \E n \in 1 .. Len(Queue!Calls(host)) + 1 : QueueAt(n)
    BY <1>1, <2>1, <2>2, <2>3, <2>5 DEF QueueInv
  <2>6. QED
    BY <2>4, <2>5 DEF QueueInv
<1>3. CASE Queue!HostStep \/ Queue!DeviceStep
  <2>1. CASE script = <<"exit">>
    <3>1. \A call \in CallNames : ~Queue!At(call)
      <4>1. Head(<<"exit">>) = "exit" /\ "exit" \notin CallNames
        BY DEF CallNames
      <4>2. QED
        BY <2>1, <4>1 DEF Queue!At
    <3>2. ~Queue!HostStep
      BY <3>1 DEF CallNames, Queue!HostStep, Queue!Write, Queue!Enqueue, Queue!Release,
                  Queue!StopwatchStart, Queue!StopwatchElapsed, Queue!Finish, Queue!Profile, Queue!Fail
    <3>3. ~Queue!DeviceStep
      BY <2>1 DEF Queue!DeviceStep, Queue!Begin, Queue!Complete, Queue!Over
    <3>4. QED
      BY <1>3, <3>2, <3>3
  <2>2. CASE script # <<"exit">>
    <3>1. PICK n \in 1 .. Len(Queue!Calls(host)) + 1 : QueueAt(n)
      BY <2>2 DEF QueueInv
    <3>2. QED
      BY <1>1, <1>3, <3>1, WriteInv, EnqueueInv, ReleaseInv, StartsInv, ElapsedInv, FinishInv, ProfileInv,
         FailInv, DeviceInv DEF Queue!HostStep
  <2>3. QED
    BY <2>1, <2>2
<1>4. Queue!Idle => UNCHANGED queueVars
  BY DEF Queue!Idle, Queue!vars, queueVars
<1>5. QED
  BY <1>2, <1>3, <1>4, Zenon DEF Queue!Next

(* What it says of the measurement. *)
LEMMA QueueInvTimes ==
  QueueInv =>
    /\ Queue!BackToBack /\ Queue!CopyNotTimed /\ Queue!ElapsedIsOver /\ Queue!CacheTimerCovers
    /\ Queue!Accounted
<1> SUFFICES ASSUME QueueInv
             PROVE  /\ Queue!BackToBack /\ Queue!CopyNotTimed /\ Queue!ElapsedIsOver
                    /\ Queue!CacheTimerCovers /\ Queue!Accounted
  OBVIOUS
<1>1. CASE script = <<"exit">> /\ Queue!BackToBack
  BY <1>1 DEF Queue!CopyNotTimed, Queue!ElapsedIsOver, Queue!CacheTimerCovers, Queue!TimerCovers,
              Queue!Timing, Queue!Accounted
<1>2. ASSUME NEW n \in 1 .. Len(Queue!Calls(host)) + 1, QueueAt(n)
      PROVE  /\ Queue!BackToBack /\ Queue!CopyNotTimed /\ Queue!ElapsedIsOver
             /\ Queue!CacheTimerCovers /\ Queue!Accounted
  <2>1. host \in QueuePrograms
    BY DEF QueueInv
  <2>2. PICK w, c : w = Place(host) /\ c = Queue!Calls(host)
    OBVIOUS
  <2>3. c \in Seq(CallNames) /\ Len(c) = w.last /\ Ordered(host, w) /\ n \in 1 .. Len(c) + 1
    BY <1>2, <2>1, <2>2, HostPlaces
  <2>4. n \in Nat \ {0} /\ w.last \in Nat
    BY <2>3
  <2>5. QueueHolds(n) /\ DeviceHolds(n) /\ TimerHolds(n) /\ ProfileHolds(n) /\ script = SubSeq(c, n, Len(c))
    BY <1>2, <2>2 DEF QueueAt
  <2>6. Queue!BackToBack
    BY <1>2, <2>1, <2>4, QueueBackToBack
  <2>7. \A call : Queue!Contains(script, call) <=> (\E m \in n .. Len(c) : c[m] = call)
    BY <2>3, <2>5, CallsLeft
  <2>8. /\ Queue!Timing => host # "maliflops" /\ w.start < n
        /\ Queue!Timing /\ ~Queue!Contains(script, "elapsed") => w.elapsed < n
    <3> SUFFICES ASSUME Queue!Timing PROVE w.start < n /\ (~Queue!Contains(script, "elapsed") => w.elapsed < n)
      BY DEF Queue!Timing
    <3>1. /\ host # "maliflops"
          /\ w.start \in Nat /\ w.elapsed \in Nat /\ w.start < w.elapsed /\ w.elapsed < w.profile
          /\ w.profile <= w.last /\ w.profile \in Nat /\ w.start > 0
      BY <2>3, SMTT(30) DEF Queue!Timing, Ordered
    <3>2. w.start \in 1 .. w.last /\ w.elapsed \in 1 .. w.last
      BY <2>4, <3>1
    <3>3. c[w.start] = "start" /\ c[w.elapsed] = "elapsed"
      BY <2>1, <2>2, <3>2, HostPlaces
    <3>4. ~Queue!Contains(script, "start")
      BY DEF Queue!Timing
    <3>5. QED
      BY <2>3, <2>4, <2>7, <3>2, <3>3, <3>4
  <2>9. /\ timer.done \in Nat /\ timer.begun \in Nat
        /\ Copies(n) \in {0, 1} /\ Copies(n) <= Len(queue) /\ Len(queue) \in Nat
    BY <2>1, <2>4, <2>5, CopiesQueued DEF TimerHolds, QueueHolds
  <2>10. Queue!CopyNotTimed
    <3> SUFFICES ASSUME Queue!Timing, NEW k \in timer.done + 1 .. Len(queue) PROVE queue[k] # "write"
      BY DEF Queue!CopyNotTimed
    <3>1. timer.done >= Copies(n)
      BY <2>2, <2>5, <2>8 DEF TimerHolds
    <3>2. k \in 1 .. Len(queue) /\ ~(k <= Copies(n))
      BY <2>9, <3>1
    <3>3. QED
      BY <2>5, <3>2 DEF QueueHolds
  <2>11. Queue!ElapsedIsOver
    BY <2>2, <2>5, <2>8 DEF TimerHolds, Queue!ElapsedIsOver
  <2>12. Queue!CacheTimerCovers
    <3> SUFFICES ASSUME host \in {"cache", "l1"}, Queue!Timing PROVE Queue!KernelsIn(timer.begun) = 0
      BY DEF Queue!CacheTimerCovers, Queue!TimerCovers
    <3>1. timer.begun <= Copies(n)
      BY <2>2, <2>5, <2>8 DEF TimerHolds
    <3>2. timer.begun \in 0 .. Len(queue)
      BY <2>9, <3>1
    <3>3. QED
      BY <2>1, <2>4, <2>5, <3>1, <3>2, KernelsCounted
  <2>13. Queue!Accounted
    <3> SUFFICES ASSUME ~warned, ~Queue!Contains(script, "profile")
                 PROVE  timeAccum = IF host = "maliflops" THEN << <<NITER, NITER>> >>
                                    ELSE [k \in 1 .. Queue!Kernels(host) |-> <<k, k>>]
      BY DEF Queue!Accounted
    <3>1. w.profile \in 1 .. w.last /\ w.profile \in Nat
      BY <2>3, <2>4, SMTT(30) DEF Ordered
    <3>2. c[w.profile] = "profile"
      BY <2>1, <2>2, <3>1, HostPlaces
    <3>3. n > w.profile
      BY <2>3, <2>4, <2>7, <3>1, <3>2
    <3>4. QED
      BY <2>2, <2>5, <3>3 DEF ProfileHolds, Intervals
  <2>14. QED
    BY <2>6, <2>10, <2>11, <2>12, <2>13
<1>3. QED
  BY <1>1, <1>2 DEF QueueInv

LEMMA QueueInvariance == HostSpec => [](bench = "queue" => QueueInv)
<1> DEFINE I == bench = "queue" => QueueInv
<1>1. HostInit => I
  BY QueueInitInv DEF HostInit
<1>2. I /\ [HostNext]_hostVars => I'
  <2> SUFFICES ASSUME I, [HostNext]_hostVars, bench' = "queue" PROVE QueueInv'
    OBVIOUS
  <2>1. bench' = bench
    BY DEF HostNext, hostVars, RunTuned, RunDispatch, RunQueue, RunRegion, TunedStays, QueueStays, RegionStays
  <2>2. [Queue!Next]_queueVars
    BY <2>1 DEF HostNext, hostVars, RunTuned, RunDispatch, RunQueue, RunRegion
  <2>3. QED
    BY <2>1, <2>2, QueueNextInv
<1>3. QED
  BY <1>1, <1>2, HostSteps, PTL

(* However many kernels, however slow the device and wherever the program  *)
(* gives up: kernels run one behind the other, the copy before them is not *)
(* in the time, and the time a host reports ends after the last of them.   *)
THEOREM QueueTimedHolds == HostSpec => []QueueTimed
<1>1. (bench = "queue" => QueueInv) => QueueTimed
  BY QueueInvTimes DEF QueueTimed
<1>2. QED
  BY <1>1, QueueInvariance, PTL

(* And the profiled times, unless a query has failed with a warning, are   *)
(* one of each kernel.                                                     *)
THEOREM QueueAccountedHolds == HostSpec => []QueueAccounted
<1>1. (bench = "queue" => QueueInv) => QueueAccounted
  BY QueueInvTimes DEF QueueAccounted
<1>2. QED
  BY <1>1, QueueInvariance, PTL

-----------------------------------------------------------------------------
(* The types of all of them.                                               *)

LEMMA DispatchTypes == DispatchInv => Dispatch!TypeOK
<1> SUFFICES ASSUME DispatchInv PROVE Dispatch!TypeOK
  OBVIOUS
<1>1. program \in DispatchPrograms /\ nStreams \in StreamCounts /\ nFlops \in FlopCounts
  BY DEF DispatchInv
<1>2. nStreams \in Nat /\ nFlops \in Nat
  BY <1>1, DispatchAssumption DEF Dispatch!Parameters
<1>3. iter \in 0 .. Dispatch!Launches /\ Dispatch!Launches \in Nat
  BY <1>1, AmountsAreNumbers DEF DispatchInv
<1>4. moved \in Nat /\ computed \in Nat
  <2>1. PICK w \in Nat, v \in Nat : w = Dispatch!KernelWork[1] /\ v = Dispatch!KernelWork[2]
    BY <1>1, AmountsAreNumbers
  <2>2. iter \in Nat /\ iter * w \in Nat /\ iter * v \in Nat
    BY <1>3
  <2>3. moved \in {iter * w, 0} /\ computed \in {iter * v, 0}
    BY <2>1 DEF DispatchInv, WorkInv
  <2>4. QED
    BY <2>2, <2>3
<1>5. complained \in BOOLEAN
  BY DEF DispatchInv, WorkInv
<1>6. report = <<>> \/ (report[1] \in Nat /\ report[2] \in Nat)
  <2>1. program \in {"intensity", "ilp", "compute", "bandwidth"}
    BY <1>1, DispatchAssumption DEF Dispatch!Parameters
  <2>2. nFlops * nStreams \in Nat /\ nFlops * 4 * nStreams \in Nat
    BY <1>2
  <2>3. Dispatch!Reported \in {<<nStreams, nFlops * nStreams>>, <<nStreams, nFlops * 4 * nStreams>>,
                               <<1, nFlops>>, <<nStreams, 0>>}
    BY <2>1 DEF Dispatch!Reported
  <2>4. Dispatch!Reported[1] \in Nat /\ Dispatch!Reported[2] \in Nat
    BY <1>2, <2>2, <2>3
  <2>5. QED
    BY <2>4 DEF DispatchInv
<1>7. QED
  BY <1>1, <1>3, <1>4, <1>5, <1>6, Zenon DEF Dispatch!TypeOK

LEMMA RegionTypes == RegionInv => Region!TypeOK
<1> SUFFICES ASSUME RegionInv PROVE Region!TypeOK
  OBVIOUS
<1>1. RegionType
  BY DEF RegionInv
<1>2. \A t \in Thread : job[t] = Region!Idle \/
        (job[t][1] \in {"begin", "kernel", "runs", "after"} /\ job[t][2] \in Region!Kernel)
  BY <1>1 DEF RegionType, Jobs
<1>3. offset \in Int /\ longest \in Int
  <2>1. offset \in {0} \union Settings \union {-x : x \in Settings}
    BY <1>1 DEF RegionType
  <2>2. \A x \in Settings : x \in Int
    BY RegionNumbers
  <2>3. QED
    BY <1>1, <2>1, <2>2 DEF RegionType
<1>4. \A k \in Region!Kernel : /\ time[k] \in Int
                               /\ {kernel_begun[k], kernel_ended[k]} \subseteq (0 .. MaxTime) \union {Region!None}
  BY <1>1 DEF RegionType, Moments
<1>5. QED
  BY <1>1, <1>2, <1>3, <1>4 DEF RegionType, Region!TypeOK

(* What is left of the calls is the end of them.                           *)
LEMMA RestIsSuffix ==
  ASSUME NEW c \in Seq(CallNames), NEW n \in 1 .. Len(c) + 1
  PROVE  Queue!IsSuffix(SubSeq(c, n, Len(c)), c)
<1> DEFINE s == SubSeq(c, n, Len(c))
           L == Len(c)
           K == (L + 1) - n
<1>1. /\ L \in Nat /\ n \in Nat \ {0} /\ K \in 0 .. L
      /\ s \in Seq(CallNames) /\ Len(s) = K
      /\ \A m \in 1 .. K : s[m] = c[(n + m) - 1]
  OBVIOUS
<1> DEFINE rs == [k \in 1 .. Len(s) |-> s[(Len(s) - k) + 1]]
           rc == [k \in 1 .. Len(c) |-> c[(Len(c) - k) + 1]]
<1>2. Queue!Reverse(s) = rs /\ Queue!Reverse(c) = rc
  BY DEF Queue!Reverse
<1>3. rs \in Seq(CallNames) /\ Len(rs) = K /\ rc \in Seq(CallNames) /\ Len(rc) = L
  BY <1>1
<1>4. SubSeq(rs, 1, K) = SubSeq(rc, 1, K)
  <2>1. SubSeq(rs, 1, K) = [k \in 1 .. K |-> rs[k]] /\ SubSeq(rc, 1, K) = [k \in 1 .. K |-> rc[k]]
    <3> HIDE DEF rs, rc, K, L, s
    <3>1. QED
      BY <1>1, <1>3
  <2>2. ASSUME NEW k \in 1 .. K PROVE rs[k] = rc[k]
    <3>1. rs[k] = s[(K - k) + 1] /\ rc[k] = c[(L - k) + 1]
      BY <1>1, <2>2
    <3>2. (K - k) + 1 \in 1 .. K /\ (n + ((K - k) + 1)) - 1 = (L - k) + 1
      BY <1>1
    <3>3. QED
      <4> HIDE DEF rs, rc, K, L, s
      <4>1. QED
        BY <1>1, <3>1, <3>2
  <2>3. QED
    <3> HIDE DEF rs, rc, K, L, s
    <3>1. [k \in 1 .. K |-> rs[k]] = [k \in 1 .. K |-> rc[k]]
      BY <2>2
    <3>2. QED
      BY <2>1, <3>1
<1>5. QED
  BY <1>1, <1>2, <1>3, <1>4 DEF Queue!IsSuffix, Queue!IsPrefix

LEMMA RestIsNoExit ==
  ASSUME NEW c \in Seq(CallNames), NEW n \in 1 .. Len(c) + 1
  PROVE  SubSeq(c, n, Len(c)) # <<"exit">>
<1>1. SubSeq(c, n, Len(c)) \in Seq(CallNames)
  OBVIOUS
<1>2. \A q \in Seq(CallNames) : q # <<"exit">>
  <2> SUFFICES ASSUME <<"exit">> \in Seq(CallNames) PROVE FALSE
    OBVIOUS
  <2>1. <<"exit">>[1] \in CallNames
    OBVIOUS
  <2>2. QED
    BY <2>1 DEF CallNames
<1>3. QED
  BY <1>1, <1>2, Zenon

(* While the program has not given up, most types are told by the position *)
(* of the host; the others are kept by the steps.                          *)
PositionTypes ==
  /\ Queue!IsSuffix(script, Queue!Script(host))
  /\ i \in 0 .. NITER - 1
  /\ queue \in Seq({"write", "kernel"}) /\ Len(queue) <= NITER + 1
  /\ begun \in 0 .. Len(queue) /\ done \in {begun, begun - 1} /\ done \in Nat
  /\ userEvent \in BOOLEAN /\ warned \in BOOLEAN

LEMMA PlaceTypes == QueueInv /\ script # <<"exit">> => PositionTypes
<1> SUFFICES ASSUME QueueInv, script # <<"exit">> PROVE PositionTypes
  OBVIOUS
<1>1. host \in QueuePrograms
  BY DEF QueueInv
<1>2. PICK n \in 1 .. Len(Queue!Calls(host)) + 1 : QueueAt(n)
  BY DEF QueueInv
<1>3. PICK w, c : w = Place(host) /\ c = Queue!Calls(host)
  OBVIOUS
<1>4. c \in Seq(CallNames) /\ n \in 1 .. Len(c) + 1 /\ script = SubSeq(c, n, Len(c))
  BY <1>1, <1>2, <1>3, HostPlaces DEF QueueAt
<1>5. Queue!IsSuffix(script, Queue!Script(host))
  BY <1>3, <1>4, RestIsSuffix DEF Queue!Script
<1>6. PICK K \in Nat \ {0} : K = Queue!Kernels(host) /\ K <= NITER
  BY <1>1, QueueNumbers, QueueAssumption DEF Queue!Parameters
<1>7. i \in 0 .. K - 1 /\ queue \in Seq({"write", "kernel"}) /\ Len(queue) = Copies(n) + KernelsAt(n)
  BY <1>2, <1>6 DEF QueueAt, QueueHolds
<1>8. Copies(n) \in {0, 1} /\ KernelsAt(n) \in {0, i, K}
  BY <1>6 DEF Copies, KernelsAt
<1>9. NITER \in Nat
  BY QueueAssumption DEF Queue!Parameters
<1>10. i \in 0 .. NITER - 1 /\ Len(queue) <= NITER + 1
  BY <1>6, <1>7, <1>8, <1>9
<1>11. QED
  BY <1>2, <1>5, <1>7, <1>10 DEF QueueAt, DeviceHolds, ProfileHolds, PositionTypes

LEMMA PlaceTypesNext == (QueueInv /\ script # <<"exit">> => PositionTypes)'
  BY PlaceTypes, PTL

QueueTypes == Queue!TypeOK /\ done \in Nat

LEMMA QueueInitTypes == Queue!Init => QueueTypes
<1> SUFFICES ASSUME Queue!Init PROVE QueueTypes
  OBVIOUS
<1>1. QueueInv
  BY QueueInitInv
<1>2. NITER \in Nat \ {0}
  BY QueueAssumption DEF Queue!Parameters
<1>3. script = <<"exit">> \/ Queue!IsSuffix(script, Queue!Script(host))
  BY <1>1, PlaceTypes DEF PositionTypes
<1>4. QED
  <2>1. timer \in [begun : 0 .. NITER + 1, done : 0 .. NITER + 1]
    BY <1>2 DEF Queue!Init
  <2>2. queue \in Seq({"write", "kernel"}) /\ Len(queue) = 0 /\ timeAccum \in Seq((0 .. NITER) \X (0 .. NITER))
    BY DEF Queue!Init
  <2>3. /\ i \in 0 .. NITER - 1 /\ elapsed \in 0 .. NITER + 1
        /\ timeStart \in 0 .. NITER /\ timeEnd \in 0 .. NITER
        /\ Len(queue) <= NITER + 1 /\ begun \in 0 .. Len(queue)
        /\ done \in {begun, begun - 1} /\ done \in Nat
    BY <1>2, <2>2 DEF Queue!Init
  <2>4. userEvent \in BOOLEAN /\ warned \in BOOLEAN /\ host \in QueuePrograms
    BY DEF Queue!Init
  <2>5. QED
    BY <1>3, <2>1, <2>2, <2>3, <2>4 DEF QueueTypes, Queue!TypeOK

LEMMA QueueNextTypes ==
  ASSUME QueueInv, QueueTypes, [Queue!Next]_queueVars
  PROVE  QueueTypes'
<1>1. QueueInv'
  BY QueueNextInv
<1>2. NITER \in Nat \ {0} /\ Queue!Kernels(host) \in Nat \ {0} /\ Queue!Kernels(host) <= NITER
  BY QueueNumbers, QueueAssumption DEF QueueInv, Queue!Parameters
<1>3. CASE UNCHANGED queueVars
  BY <1>3 DEF queueVars, QueueTypes, Queue!TypeOK, Queue!Script, Queue!Calls
<1>4. CASE Queue!Fail
  BY <1>4 DEF Queue!Fail, QueueTypes, Queue!TypeOK
<1>5. ASSUME script' # <<"exit">>
      PROVE  PositionTypes'
  BY <1>1, <1>5, PlaceTypesNext
<1>6. CASE script' # <<"exit">> /\ Queue!Next
  <2>1. host' = host /\ host \in QueuePrograms
    BY <1>6 DEF QueueTypes, Queue!TypeOK, Queue!Next, Queue!HostStep, Queue!DeviceStep, Queue!Idle, Queue!vars,
              Queue!Write, Queue!Enqueue, Queue!Release, Queue!StopwatchStart, Queue!StopwatchElapsed,
              Queue!Finish, Queue!Profile, Queue!Fail, Queue!Begin, Queue!Complete
  <2>2. done \in 0 .. NITER + 1 /\ begun \in 0 .. NITER + 1 /\ i \in 0 .. NITER - 1
    BY <1>2 DEF QueueTypes, Queue!TypeOK
  <2>3. timer' \in [begun : 0 .. NITER + 1, done : 0 .. NITER + 1] /\ elapsed' \in 0 .. NITER + 1
    <3>1. \/ UNCHANGED <<timer, elapsed>>
          \/ timer' = [begun |-> begun, done |-> done] /\ elapsed' = elapsed
          \/ timer' = timer /\ elapsed' = done
      BY <1>6 DEF Queue!Next, Queue!HostStep, Queue!DeviceStep, Queue!Idle, Queue!vars,
              Queue!Write, Queue!Enqueue, Queue!Release, Queue!StopwatchStart, Queue!StopwatchElapsed,
              Queue!Finish, Queue!Profile, Queue!Fail, Queue!Begin, Queue!Complete
    <3>2. QED
      BY <2>2, <3>1 DEF QueueTypes, Queue!TypeOK
  <2>4. timeStart' \in 0 .. NITER /\ timeEnd' \in 0 .. NITER /\ timeAccum' \in Seq((0 .. NITER) \X (0 .. NITER))
    <3> DEFINE T == 0 .. NITER
    <3>1. \/ UNCHANGED <<timeStart, timeEnd, timeAccum>>
          \/ \E s \in {Queue!Queried, timeStart}, e \in {Queue!Queried, timeEnd} :
               timeStart' = s /\ timeEnd' = e /\ timeAccum' = Append(timeAccum, <<s, e>>)
      BY <1>6, Zenon DEF Queue!Next, Queue!HostStep, Queue!DeviceStep, Queue!Idle, Queue!vars,
              Queue!Write, Queue!Enqueue, Queue!Release, Queue!StopwatchStart, Queue!StopwatchElapsed,
              Queue!Finish, Queue!Profile, Queue!Fail, Queue!Begin, Queue!Complete
    <3>2. Queue!Queried \in T
      BY <1>2, <2>2 DEF Queue!Queried
    <3>3. timeStart \in T /\ timeEnd \in T /\ timeAccum \in Seq(T \X T)
      BY DEF QueueTypes, Queue!TypeOK
    <3> HIDE DEF T
    <3>4. timeStart' \in T /\ timeEnd' \in T /\ timeAccum' \in Seq(T \X T)
      <4>1. CASE UNCHANGED <<timeStart, timeEnd, timeAccum>>
        BY <3>3, <4>1
      <4>2. ASSUME NEW s \in T, NEW e \in T, timeStart' = s, timeEnd' = e, timeAccum' = Append(timeAccum, <<s, e>>)
            PROVE  timeStart' \in T /\ timeEnd' \in T /\ timeAccum' \in Seq(T \X T)
        <5>1. <<s, e>> \in T \X T
          OBVIOUS
        <5>2. Append(timeAccum, <<s, e>>) \in Seq(T \X T)
          BY <3>3, <5>1
        <5>3. QED
          BY <4>2, <5>2
      <4>3. QED
        BY <3>1, <3>2, <3>3, <4>1, <4>2
    <3>5. QED
      BY <3>4 DEF T
  <2>5. QED
    BY <1>5, <1>6, <2>1, <2>3, <2>4 DEF PositionTypes, QueueTypes, Queue!TypeOK
<1>7. CASE script' = <<"exit">> /\ Queue!Next
  <2>1. CASE Queue!Idle
    BY <1>3, <2>1 DEF Queue!Idle, Queue!vars, queueVars
  <2>2. CASE ~Queue!Idle /\ ~Queue!Fail
    <3>1. \/ ~Queue!Over /\ script' = script
          \/ script # <<"exit">> /\ script # <<>> /\ (script' = Tail(script) \/ script' = script)
      <4>1. Head(<<"exit">>) = "exit"
        OBVIOUS
      <4>2. \A call \in CallNames : Queue!At(call) => script # <<"exit">> /\ script # <<>>
        BY <4>1 DEF Queue!At, CallNames
      <4>3. CASE Queue!DeviceStep
        BY <4>3 DEF Queue!DeviceStep, Queue!Begin, Queue!Complete
      <4>4. CASE Queue!HostStep
        <5>1. \E call \in CallNames : Queue!At(call)
          BY <2>2, <4>4, Zenon DEF CallNames, Queue!HostStep, Queue!Write, Queue!Enqueue, Queue!Release,
                  Queue!StopwatchStart, Queue!StopwatchElapsed, Queue!Finish, Queue!Profile
        <5>2. script' \in {script, Tail(script)}
          BY <2>2, <4>4, Zenon DEF Queue!HostStep, Queue!Write, Queue!Enqueue, Queue!Release,
                  Queue!StopwatchStart, Queue!StopwatchElapsed, Queue!Finish, Queue!Profile
        <5>3. QED
          BY <4>2, <5>1, <5>2
      <4>5. QED
        BY <1>7, <2>2, <4>3, <4>4, Zenon DEF Queue!Next
    <3>2. script # <<"exit">> /\ script # <<>> /\ script' = Tail(script)
      BY <1>7, <3>1 DEF Queue!Over
    <3>3. PICK c \in Seq(CallNames), n \in Nat : n \in 1 .. Len(c) + 1 /\ script = SubSeq(c, n, Len(c))
      <4>1. PICK n \in 1 .. Len(Queue!Calls(host)) + 1 : QueueAt(n)
        BY <3>2 DEF QueueInv
      <4>2. PICK c : c = Queue!Calls(host)
        OBVIOUS
      <4>3. c \in Seq(CallNames)
        BY <4>2, HostPlaces DEF QueueInv
      <4>4. n \in Nat /\ n \in 1 .. Len(c) + 1
        BY <4>1, <4>2, <4>3
      <4>5. QED
        BY <4>1, <4>2, <4>3, <4>4 DEF QueueAt
    <3>4. n + 1 \in 1 .. Len(c) + 1 /\ Tail(script) = SubSeq(c, n + 1, Len(c))
      BY <3>2, <3>3, CallsLeft
    <3>5. Tail(script) # <<"exit">>
      BY <3>3, <3>4, RestIsNoExit
    <3>6. QED
      BY <1>7, <3>2, <3>5
  <2>3. QED
    BY <1>4, <2>1, <2>2
<1>8. [Queue!Next]_queueVars
  OBVIOUS
<1>9. QED
  BY <1>3, <1>6, <1>7, <1>8, Zenon

LEMMA QueueTypesInvariance == HostSpec => [](bench = "queue" => QueueTypes)
<1> DEFINE I == bench = "queue" => QueueInv
           J == bench = "queue" => QueueTypes
<1>1. HostInit => J
  BY QueueInitTypes DEF HostInit
<1>2. I /\ J /\ [HostNext]_hostVars => J'
  <2> SUFFICES ASSUME I, J, [HostNext]_hostVars, bench' = "queue" PROVE QueueTypes'
    OBVIOUS
  <2>1. bench' = bench
    BY DEF HostNext, hostVars, RunTuned, RunDispatch, RunQueue, RunRegion, TunedStays, QueueStays, RegionStays
  <2>2. [Queue!Next]_queueVars
    BY <2>1 DEF HostNext, hostVars, RunTuned, RunDispatch, RunQueue, RunRegion
  <2>3. QED
    BY <2>1, <2>2, QueueNextTypes
<1>3. QED
  BY <1>1, <1>2, QueueInvariance, HostSteps, PTL

(* Every variable of every program keeps its type, for any grid, queue,    *)
(* team and numbers.                                                       *)
THEOREM HostTypesHold == HostSpec => []HostTypeOK
<1>1. /\ TunedInv
      /\ bench = "dispatch" => DispatchInv
      /\ bench = "queue" => QueueTypes
      /\ bench = "sections" => RegionInv
      => HostTypeOK
  BY TunedTypes, DispatchTypes, RegionTypes DEF QueueTypes, HostTypeOK
<1>2. QED
  BY <1>1, TunedInvariance, DispatchInvariance, QueueTypesInvariance, RegionInvariance, PTL

=============================================================================
