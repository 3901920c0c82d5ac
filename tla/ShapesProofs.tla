---------------------------- MODULE ShapesProofs -----------------------------
(***************************************************************************)
(* The tables TREE_BARRIER computes and those USER_BARRIER_INIT fills are  *)
(* the tables of a tree, for any size of a group and any number of         *)
(* threads.  With this the theorems about GroupBarrierTSO, which assume a  *)
(* tree, hold of the two barriers themselves.                              *)
(*                                                                         *)
(* A thread is a member of a level if the digits of its ID below the level *)
(* are zero; it waits at the level of its lowest digit that is not zero,   *)
(* for the thread whose ID has a zero there too.                           *)
(***************************************************************************)
EXTENDS BarrierShapes, TLAPS, WellFoundedInduction

LEMMA GroupSize == GROUP \in Nat \ {0, 1}
BY ShapeAssumption

-----------------------------------------------------------------------------
LEMMA LeastNat ==
  ASSUME NEW T, T \subseteq Nat, T # {}
  PROVE  \E n \in T : \A k \in T : n <= k
<1>1. PICK n \in T : \A k \in T : ~(<<k, n>> \in OpToRel(<, Nat))
  BY WFMin, NatLessThanWellFounded
<1>2. \A k \in T : ~(k < n)
  BY <1>1 DEF OpToRel
<1> QED
  BY <1>2

(* The strides up to level n, one GROUP times the other.                   *)
Strides(h, n) ==
  h \in [0 .. n -> Nat] /\ h[0] = 1 /\ \A l \in 1 .. n : h[l] = h[l - 1] * GROUP

LEMMA StridesExist == \A n \in Nat : \E h : Strides(h, n)
<1> DEFINE None == {n \in Nat : ~\E h : Strides(h, n)}
<1> SUFFICES ASSUME None # {} PROVE FALSE
  OBVIOUS
<1>1. PICK n \in None : \A k \in None : n <= k
  BY LeastNat
<1>2. CASE n = 0
  <2>1. Strides([l \in 0 .. 0 |-> 1], 0)
    BY DEF Strides
  <2>2. QED
    BY <1>2, <2>1
<1>3. CASE n > 0
  <2>1. PICK h : Strides(h, n - 1)
    BY <1>1, <1>3
  <2> DEFINE f == [l \in 0 .. n |-> IF l = n THEN h[n - 1] * GROUP ELSE h[l]]
  <2>2. Strides(f, n)
    BY <1>3, <2>1, GroupSize DEF Strides
  <2>3. QED
    BY <2>2
<1>4. QED
  BY <1>2, <1>3

LEMMA StridesAgree ==
  ASSUME NEW n \in Nat, NEW m \in Nat, n <= m, NEW f, NEW h, Strides(f, n), Strides(h, m)
  PROVE  \A l \in 0 .. n : f[l] = h[l]
<1> DEFINE Apart == {l \in 0 .. n : f[l] # h[l]}
<1> SUFFICES ASSUME Apart # {} PROVE FALSE
  OBVIOUS
<1>1. Apart \subseteq Nat
  OBVIOUS
<1>2. PICK l \in Apart : \A k \in Apart : l <= k
  BY <1>1, LeastNat
<1>3. l # 0
  BY DEF Strides
<1>4. f[l - 1] = h[l - 1]
  BY <1>2, <1>3
<1>5. QED
  BY <1>3, <1>4 DEF Strides

(* STRIDE is 1 at level 0 and GROUP times larger at each level. *)
LEMMA StrideGrows ==
  /\ TreeStride(GROUP, 0) = 1
  /\ \A l \in Nat : /\ TreeStride(GROUP, l) \in Nat
                    /\ TreeStride(GROUP, l + 1) = TreeStride(GROUP, l) * GROUP
<1> DEFINE H(n) == CHOOSE h : Strides(h, n)
           F == [n \in Nat |-> H(n)[n]]
           Step(s) == [k \in Nat |-> IF k = 0 THEN 1 ELSE s[k - 1] * GROUP]
           S == CHOOSE s : s = Step(s)
<1>1. \A n \in Nat : Strides(H(n), n)
  BY StridesExist
<1>2. F[0] = 1 /\ F \in [Nat -> Nat]
  <2> HIDE DEF H
  <2>1. H(0)[0] = 1 /\ \A n \in Nat : H(n)[n] \in Nat
    BY <1>1 DEF Strides
  <2>2. QED
    BY <2>1
<1>3. ASSUME NEW n \in Nat PROVE F[n + 1] = F[n] * GROUP
  <2>1. Strides(H(n), n) /\ Strides(H(n + 1), n + 1)
    BY <1>1
  <2>2. H(n)[n] = H(n + 1)[n]
    BY <2>1, StridesAgree
  <2>3. H(n + 1)[n + 1] = H(n + 1)[n] * GROUP
    <3> HIDE DEF H
    <3>1. n + 1 \in 1 .. n + 1 /\ (n + 1) - 1 = n
      OBVIOUS
    <3>2. QED
      BY <2>1, <3>1 DEF Strides
  <2>4. QED
    <3> HIDE DEF H
    <3>1. QED
      BY <2>2, <2>3
<1>4. F = Step(F)
  <2> HIDE DEF H
  <2>1. \A k \in Nat : F[k] = IF k = 0 THEN 1 ELSE F[k - 1] * GROUP
    <3>1. ASSUME NEW k \in Nat \ {0} PROVE F[k] = F[k - 1] * GROUP
      <4>1. k - 1 \in Nat /\ (k - 1) + 1 = k
        OBVIOUS
      <4>2. QED
        BY <1>3, <4>1
    <3>2. QED
      BY <1>2, <3>1
  <2>2. F = [k \in Nat |-> F[k]]
    BY <1>2
  <2>3. QED
    BY <2>1, <2>2
<1>5. S = Step(S)
  <2> HIDE DEF F, Step
  <2>1. QED
    BY <1>4
<1>6. S[0] = 1 /\ \A l \in Nat : S[l + 1] = S[l] * GROUP
  <2> HIDE DEF S
  <2>1. \A k \in Nat : S[k] = IF k = 0 THEN 1 ELSE S[k - 1] * GROUP
    BY <1>5
  <2>2. QED
    BY <2>1
<1>7. \A l \in Nat : S[l] \in Nat
  <2> HIDE DEF S
  <2> DEFINE Bad == {l \in Nat : S[l] \notin Nat}
  <2> SUFFICES ASSUME Bad # {} PROVE FALSE
    OBVIOUS
  <2>1. PICK l \in Bad : \A k \in Bad : l <= k
    BY LeastNat
  <2>2. l # 0
    BY <1>6
  <2>3. l - 1 \in Nat /\ S[l - 1] \in Nat /\ (l - 1) + 1 = l
    BY <2>1, <2>2
  <2>4. S[l] = S[l - 1] * GROUP
    BY <1>6, <2>3
  <2>5. QED
    BY <2>1, <2>3, <2>4, GroupSize
<1>8. \A l : TreeStride(GROUP, l) = S[l]
  BY DEF TreeStride
<1>9. QED
  BY <1>6, <1>7, <1>8

(* Division. *)
LEMMA Quotient ==
  ASSUME NEW p \in Nat \ {0}, NEW q \in Nat, NEW r \in 0 .. p - 1
  PROVE  (p * q + r) \div p = q /\ (p * q + r) % p = r
<1> DEFINE a == p * q + r
<1>1. PICK d \in Nat : d = a \div p /\ p * d <= a /\ a < p * d + p
  OBVIOUS
<1>2. ~(d < q)
  <2> SUFFICES ASSUME d < q PROVE FALSE
    OBVIOUS
  <2>1. p * (d + 1) <= p * q
    OBVIOUS
  <2>2. QED
    BY <1>1, <2>1
<1>3. ~(d > q)
  <2> SUFFICES ASSUME d > q PROVE FALSE
    OBVIOUS
  <2>1. p * (q + 1) <= p * d
    OBVIOUS
  <2>2. QED
    BY <1>1, <2>1
<1>4. d = q
  BY <1>2, <1>3
<1>5. QED
  BY <1>1, <1>4

(* Strides are numbers, and grow beyond any bound. *)
LEMMA StridesPositive == \A l \in Nat : TreeStride(GROUP, l) \in Nat \ {0} /\ TreeStride(GROUP, l) > l
<1> DEFINE Bad == {l \in Nat : ~(TreeStride(GROUP, l) > l)}
<1>1. Bad = {}
  <2> SUFFICES ASSUME Bad # {} PROVE FALSE
    OBVIOUS
  <2>1. PICK l \in Bad : \A k \in Bad : l <= k
    BY LeastNat
  <2>2. l # 0
    BY StrideGrows
  <2>3. l - 1 \in Nat /\ TreeStride(GROUP, l - 1) > l - 1 /\ (l - 1) + 1 = l
    BY <2>1, <2>2
  <2>4. PICK s \in Nat : s = TreeStride(GROUP, l - 1) /\ TreeStride(GROUP, l) = s * GROUP
    BY <2>3, StrideGrows
  <2>5. s >= l
    BY <2>3, <2>4
  <2>6. s * GROUP >= s * 2
    BY GroupSize
  <2>7. TreeStride(GROUP, l) \in Nat /\ TreeStride(GROUP, l) >= l + l
    <3>1. s * 2 >= l + l
      BY <2>5
    <3>2. QED
      BY <2>4, <2>6, <3>1, GroupSize
  <2>8. QED
    BY <2>1, <2>2, <2>7
<1>2. \A l \in Nat : TreeStride(GROUP, l) > l
  BY <1>1
<1>3. QED
  BY <1>2, StrideGrows

(* Thread t is a member of level l: the digits below level l are zero. *)
Member(l, t) == \E q \in Nat : t = TreeStride(GROUP, l) * q

(* The digit of a numeral, and the numeral with the digit cleared. *)
LEMMA Digits ==
  ASSUME NEW l \in Nat, NEW a \in Nat, NEW d \in 0 .. GROUP - 1, NEW r \in 0 .. TreeStride(GROUP, l) - 1
  PROVE  TreeMaster(GROUP, l, TreeStride(GROUP, l) * (GROUP * a + d) + r)
           = TreeStride(GROUP, l + 1) * a + r
<1>1. PICK s \in Nat \ {0} : s = TreeStride(GROUP, l) /\ TreeStride(GROUP, l + 1) = s * GROUP
  BY StridesPositive, StrideGrows
<1> DEFINE q == GROUP * a + d
<1>2. q \in Nat
  BY GroupSize
<1>3. (s * q + r) \div s = q
  <2> HIDE DEF q
  <2>1. QED
    BY <1>1, <1>2, Quotient
<1>4. q % GROUP = d
  BY GroupSize, Quotient
<1>5. TreeMaster(GROUP, l, s * q + r) = (s * q + r) - d * s
  <2> HIDE DEF q
  <2>1. QED
    BY <1>1, <1>3, <1>4 DEF TreeMaster, TreeDigit
<1>6. (s * q + r) - d * s = (s * GROUP) * a + r
  BY <1>1, GroupSize
<1>7. QED
  BY <1>1, <1>5, <1>6

LEMMA Numeral ==
  ASSUME NEW l \in Nat, NEW t \in Nat
  PROVE  \E a \in Nat, d \in 0 .. GROUP - 1, r \in 0 .. TreeStride(GROUP, l) - 1 :
           t = TreeStride(GROUP, l) * (GROUP * a + d) + r
<1>1. PICK s \in Nat \ {0} : s = TreeStride(GROUP, l)
  BY StridesPositive
<1>2. PICK q \in Nat, r \in 0 .. s - 1 : t = s * q + r
  <2>1. PICK q \in Nat : q = t \div s /\ s * q <= t /\ t < s * q + s
    OBVIOUS
  <2>2. t - s * q \in 0 .. s - 1 /\ t = s * q + (t - s * q)
    BY <2>1
  <2>3. QED
    BY <2>2
<1>3. PICK a \in Nat, d \in 0 .. GROUP - 1 : q = GROUP * a + d
  <2>1. PICK g \in Nat \ {0} : g = GROUP
    BY GroupSize
  <2>2. PICK a \in Nat : a = q \div g /\ g * a <= q /\ q < g * a + g
    OBVIOUS
  <2>3. q - g * a \in 0 .. g - 1 /\ q = g * a + (q - g * a)
    BY <2>2
  <2>4. QED
    BY <2>1, <2>3
<1>4. QED
  BY <1>1, <1>2, <1>3

(* A thread that is a member of level l keeps its ID as its master there   *)
(* exactly when it is a member of the next level.                          *)
LEMMA Climbs ==
  ASSUME NEW l \in Nat, NEW t \in Nat
  PROVE  /\ Member(l + 1, t) => Member(l, t) /\ TreeMaster(GROUP, l, t) = t
         /\ Member(l, t) /\ TreeMaster(GROUP, l, t) = t => Member(l + 1, t)
<1>1. PICK s \in Nat \ {0} : s = TreeStride(GROUP, l) /\ TreeStride(GROUP, l + 1) = s * GROUP
  BY StridesPositive, StrideGrows
<1>2. ASSUME NEW q \in Nat, t = s * q
      PROVE  \E a \in Nat, d \in 0 .. GROUP - 1 :
               q = GROUP * a + d /\ TreeMaster(GROUP, l, t) = (s * GROUP) * a
  <2>1. PICK g \in Nat \ {0} : g = GROUP
    BY GroupSize
  <2>2. PICK a \in Nat : a = q \div g /\ g * a <= q /\ q < g * a + g
    OBVIOUS
  <2>3. PICK d \in 0 .. GROUP - 1 : q = GROUP * a + d
    <3>1. q - g * a \in 0 .. g - 1 /\ q = g * a + (q - g * a)
      BY <2>2
    <3>2. QED
      BY <2>1, <3>1
  <2>4. 0 \in 0 .. TreeStride(GROUP, l) - 1
    BY <1>1
  <2>5. TreeMaster(GROUP, l, s * (GROUP * a + d) + 0) = (s * GROUP) * a + 0
    BY <1>1, <2>4, Digits
  <2>6. s * (GROUP * a + d) + 0 = t /\ (s * GROUP) * a + 0 = (s * GROUP) * a
    BY <1>1, <1>2, <2>3, GroupSize
  <2>7. QED
    BY <2>3, <2>5, <2>6
<1>3. ASSUME Member(l + 1, t) PROVE Member(l, t) /\ TreeMaster(GROUP, l, t) = t
  <2>1. PICK b \in Nat : t = (s * GROUP) * b
    BY <1>1, <1>3 DEF Member
  <2>2. t = s * (GROUP * b + 0) + 0 /\ GROUP * b \in Nat /\ t = s * (GROUP * b)
    BY <1>1, <2>1, GroupSize
  <2>3. 0 \in 0 .. GROUP - 1 /\ 0 \in 0 .. TreeStride(GROUP, l) - 1
    BY <1>1, GroupSize
  <2>4. TreeMaster(GROUP, l, s * (GROUP * b + 0) + 0) = (s * GROUP) * b + 0
    BY <1>1, <2>3, Digits
  <2>5. QED
    BY <1>1, <2>1, <2>2, <2>4 DEF Member
<1>4. ASSUME Member(l, t), TreeMaster(GROUP, l, t) = t PROVE Member(l + 1, t)
  <2>1. PICK q \in Nat : t = s * q
    BY <1>1, <1>4 DEF Member
  <2>2. PICK a \in Nat, d \in 0 .. GROUP - 1 :
          q = GROUP * a + d /\ TreeMaster(GROUP, l, t) = (s * GROUP) * a
    BY <1>2, <2>1
  <2>3. QED
    BY <1>1, <1>4, <2>2 DEF Member
<1>5. QED
  BY <1>3, <1>4

LEMMA MembersOfAll ==
  ASSUME NEW t \in Nat
  PROVE  Member(0, t) /\ \A l \in Nat : Member(l, t) <=> \A k \in 0 .. l - 1 : TreeMaster(GROUP, k, t) = t
<1>1. Member(0, t)
  <2>1. t = 1 * t
    OBVIOUS
  <2>2. QED
    BY <2>1, StrideGrows DEF Member
<1> DEFINE Odd == {l \in Nat : ~(Member(l, t) <=> \A k \in 0 .. l - 1 : TreeMaster(GROUP, k, t) = t)}
<1>2. Odd = {}
  <2> SUFFICES ASSUME Odd # {} PROVE FALSE
    OBVIOUS
  <2>1. PICK l \in Odd : \A k \in Odd : l <= k
    BY LeastNat
  <2>2. l # 0
    BY <1>1, <2>1
  <2>3. PICK k \in Nat : l = k + 1 /\ k \notin Odd
    <3>1. l - 1 \in Nat /\ l = (l - 1) + 1 /\ ~(l <= l - 1)
      BY <2>2
    <3>2. QED
      BY <2>1, <3>1
  <2>4. Member(k, t) <=> \A j \in 0 .. k - 1 : TreeMaster(GROUP, j, t) = t
    BY <2>3
  <2>5. 0 .. l - 1 = (0 .. k - 1) \cup {k}
    BY <2>3
  <2>6. Member(k + 1, t) <=> Member(k, t) /\ TreeMaster(GROUP, k, t) = t
    BY Climbs
  <2>7. Member(l, t) <=> \A j \in 0 .. l - 1 : TreeMaster(GROUP, j, t) = t
    BY <2>3, <2>4, <2>5, <2>6
  <2>8. QED
    BY <2>1, <2>7
<1>3. QED
  BY <1>1, <1>2

(* Above the top level there is thread 0 alone. *)
LEMMA TopFacts ==
  ASSUME NEW n \in Nat \ {0}
  PROVE  /\ TreeTop(GROUP, n) \in 1 .. n
         /\ TreeStride(GROUP, TreeTop(GROUP, n)) >= n
         /\ \A k \in 1 .. TreeTop(GROUP, n) - 1 : TreeStride(GROUP, k) < n
<1> DEFINE High == {l \in 1 .. n : TreeStride(GROUP, l) >= n}
<1>1. n \in High
  BY StridesPositive
<1>2. High \subseteq Nat
  OBVIOUS
<1>3. PICK l \in High : \A k \in High : l <= k
  BY <1>1, <1>2, LeastNat
<1>4. \A k \in 1 .. l - 1 : TreeStride(GROUP, k) < n
  <2> SUFFICES ASSUME NEW k \in 1 .. l - 1 PROVE TreeStride(GROUP, k) < n
    OBVIOUS
  <2>1. k \in Nat /\ k \in 1 .. n /\ ~(l <= k)
    BY <1>3
  <2>2. k \notin High
    BY <1>3, <2>1
  <2>3. TreeStride(GROUP, k) \in Nat
    BY <2>1, StridesPositive
  <2>4. QED
    BY <2>1, <2>2, <2>3
<1>5. QED
  BY <1>3, <1>4 DEF TreeTop

-----------------------------------------------------------------------------
(* The definitions of GroupTree for tables given as values. *)
WaitOf(M, top, t) ==
  CHOOSE l \in 0 .. top :
    /\ \A k \in 0 .. l - 1 : M[k][t] = t
    /\ l < top => M[l][t] # t
PlaceOf(M, STR, SIZE, top, t) ==
  CHOOSE k \in 1 .. SIZE[WaitOf(M, top, t)] - 1 :
    t = M[WaitOf(M, top, t)][t] + k * STR[WaitOf(M, top, t)]
TableOf(M, STR, SIZE, top, n) ==
  /\ M \in [0 .. top - 1 -> [0 .. n - 1 -> 0 .. n - 1]]
  /\ STR \in [0 .. top - 1 -> Nat \ {0}]
  /\ SIZE \in [0 .. top - 1 -> Nat \ {0}]
Joined(M, STR, SIZE, top, t) ==
  LET w == WaitOf(M, top, t)
  IN  /\ w < top
      /\ M[w][t] # t
      /\ w < WaitOf(M, top, M[w][t])
      /\ \E k \in 1 .. SIZE[w] - 1 : t = M[w][t] + k * STR[w]
Collected(M, STR, SIZE, top, n, m, l, k) ==
  LET c == m + k * STR[l] IN
    c < n => /\ WaitOf(M, top, c) = l
             /\ M[WaitOf(M, top, c)][c] = m
             /\ PlaceOf(M, STR, SIZE, top, c) = k
TreeOf(M, STR, SIZE, top, n) ==
  /\ WaitOf(M, top, 0) = top
  /\ \A t \in 0 .. n - 1 :
       /\ WaitOf(M, top, t) \in 0 .. top
       /\ \A k \in 0 .. WaitOf(M, top, t) - 1 : M[k][t] = t
  /\ \A t \in (0 .. n - 1) \ {0} : Joined(M, STR, SIZE, top, t)
  /\ \A m \in 0 .. n - 1 : \A l \in 0 .. WaitOf(M, top, m) - 1 : \A k \in 1 .. SIZE[l] - 1 :
       Collected(M, STR, SIZE, top, n, m, l, k)

LEMMA WaitOfExists ==
  ASSUME NEW M, NEW top \in Nat, NEW t
  PROVE  /\ WaitOf(M, top, t) \in 0 .. top
         /\ \A k \in 0 .. WaitOf(M, top, t) - 1 : M[k][t] = t
         /\ WaitOf(M, top, t) < top => M[WaitOf(M, top, t)][t] # t
<1> DEFINE Stops == {l \in 0 .. top : l < top => M[l][t] # t}
<1>1. top \in Stops /\ Stops \subseteq Nat
  OBVIOUS
<1>2. PICK l \in Stops : \A k \in Stops : l <= k
  BY <1>1, LeastNat
<1>3. \A k \in 0 .. l - 1 : M[k][t] = t
  <2> SUFFICES ASSUME NEW k \in 0 .. l - 1 PROVE M[k][t] = t
    OBVIOUS
  <2>1. k \in 0 .. top /\ ~(l <= k)
    BY <1>2
  <2>2. QED
    BY <1>2, <2>1
<1>4. QED
  BY <1>2, <1>3 DEF WaitOf

LEMMA WaitOfIs ==
  ASSUME NEW M, NEW top \in Nat, NEW t, NEW w \in 0 .. top,
         \A k \in 0 .. w - 1 : M[k][t] = t, w < top => M[w][t] # t
  PROVE  WaitOf(M, top, t) = w
<1>1. PICK v \in 0 .. top : v = WaitOf(M, top, t)
  BY WaitOfExists
<1>2. (\A k \in 0 .. v - 1 : M[k][t] = t) /\ (v < top => M[v][t] # t)
  BY <1>1, WaitOfExists
<1>3. ~(v < w)
  BY <1>2
<1>4. ~(w < v)
  BY <1>2
<1>5. QED
  BY <1>1, <1>3, <1>4

(* A lower bound by the masters below it. *)
LEMMA WaitOfAbove ==
  ASSUME NEW M, NEW top \in Nat, NEW t, NEW w \in 0 .. top - 1,
         \A k \in 0 .. w : M[k][t] = t
  PROVE  WaitOf(M, top, t) > w
<1>1. PICK v \in 0 .. top : v = WaitOf(M, top, t)
  BY WaitOfExists
<1>2. v < top => M[v][t] # t
  BY <1>1, WaitOfExists
<1>3. QED
  BY <1>1, <1>2

LEMMA PlaceOfIs ==
  ASSUME NEW M, NEW STR, NEW SIZE, NEW top, NEW t \in Nat, NEW l, NEW m \in Nat, NEW k \in Nat,
         NEW s \in Nat \ {0}, STR[l] = s, SIZE[l] \in Nat, k \in 1 .. SIZE[l] - 1,
         WaitOf(M, top, t) = l, M[l][t] = m, t = m + k * s
  PROVE  PlaceOf(M, STR, SIZE, top, t) = k
<1>1. ASSUME NEW j \in 1 .. SIZE[l] - 1, t = m + j * s PROVE j = k
  <2>1. j \in Nat /\ j * s = k * s
    BY <1>1
  <2>2. ~(j < k)
    <3> SUFFICES ASSUME j < k PROVE FALSE
      OBVIOUS
    <3>1. (j + 1) * s <= k * s
      BY <2>1
    <3>2. QED
      BY <2>1, <3>1
  <2>3. ~(k < j)
    <3> SUFFICES ASSUME k < j PROVE FALSE
      OBVIOUS
    <3>1. (k + 1) * s <= j * s
      BY <2>1
    <3>2. QED
      BY <2>1, <3>1
  <2>4. QED
    BY <2>1, <2>2, <2>3
<1>2. PlaceOf(M, STR, SIZE, top, t) = CHOOSE j \in 1 .. SIZE[l] - 1 : t = m + j * s
  BY DEF PlaceOf
<1>3. QED
  BY <1>1, <1>2

-----------------------------------------------------------------------------
(* The tables of TREE_BARRIER on n threads. *)
TreeMasters(n) == [l \in 0 .. TreeTop(GROUP, n) - 1 |-> [t \in 0 .. n - 1 |-> TreeMaster(GROUP, l, t)]]
TreeStrides(n) == [l \in 0 .. TreeTop(GROUP, n) - 1 |-> TreeStride(GROUP, l)]
TreeSizes(n) == [l \in 0 .. TreeTop(GROUP, n) - 1 |-> GROUP]

LEMMA MasterBelow ==
  ASSUME NEW l \in Nat, NEW t \in Nat
  PROVE  TreeMaster(GROUP, l, t) \in 0 .. t
<1>1. PICK s \in Nat \ {0} : s = TreeStride(GROUP, l) /\ TreeStride(GROUP, l + 1) = s * GROUP
  BY StridesPositive, StrideGrows
<1>2. PICK a \in Nat, d \in 0 .. GROUP - 1, r \in 0 .. TreeStride(GROUP, l) - 1 :
        t = TreeStride(GROUP, l) * (GROUP * a + d) + r
  BY Numeral
<1>3. TreeMaster(GROUP, l, t) = (s * GROUP) * a + r /\ t = s * (GROUP * a + d) + r
  BY <1>1, <1>2, Digits
<1>4. s * (GROUP * a + d) = (s * GROUP) * a + s * d /\ s * d \in Nat /\ (s * GROUP) * a \in Nat
  BY GroupSize
<1>5. QED
  BY <1>2, <1>3, <1>4

LEMMA TreeTable ==
  ASSUME NEW n \in Nat \ {0}
  PROVE  TableOf(TreeMasters(n), TreeStrides(n), TreeSizes(n), TreeTop(GROUP, n), n)
<1>1. PICK top \in Nat : top = TreeTop(GROUP, n)
  BY TopFacts
<1>2. ASSUME NEW l \in 0 .. top - 1, NEW t \in 0 .. n - 1
      PROVE  TreeMaster(GROUP, l, t) \in 0 .. n - 1
  <2>1. TreeMaster(GROUP, l, t) \in 0 .. t
    BY MasterBelow
  <2>2. QED
    BY <2>1
<1>3. \A l \in 0 .. top - 1 : TreeStride(GROUP, l) \in Nat \ {0}
  BY StridesPositive
<1>4. QED
  BY <1>1, <1>2, <1>3, GroupSize DEF TableOf, TreeMasters, TreeStrides, TreeSizes

(* A member of level l whose digit there is d: its master there. *)
LEMMA ChildOf ==
  ASSUME NEW l \in Nat, NEW m \in Nat, Member(l + 1, m), NEW d \in 0 .. GROUP - 1
  PROVE  /\ m + d * TreeStride(GROUP, l) \in Nat
         /\ Member(l, m + d * TreeStride(GROUP, l))
         /\ TreeMaster(GROUP, l, m + d * TreeStride(GROUP, l)) = m
<1>1. PICK s \in Nat \ {0} : s = TreeStride(GROUP, l) /\ TreeStride(GROUP, l + 1) = s * GROUP
  BY StridesPositive, StrideGrows
<1>2. PICK a \in Nat : m = (s * GROUP) * a
  BY <1>1 DEF Member
<1>3. m + d * s = s * (GROUP * a + d) + 0 /\ GROUP * a + d \in Nat /\ m + d * s \in Nat
      /\ m + d * s = s * (GROUP * a + d)
  BY <1>2, GroupSize
<1>4. TreeMaster(GROUP, l, s * (GROUP * a + d) + 0) = (s * GROUP) * a + 0
  <2>1. 0 \in 0 .. TreeStride(GROUP, l) - 1
    BY <1>1
  <2>2. QED
    BY <1>1, <2>1, Digits
<1>5. Member(l, m + d * s)
  BY <1>1, <1>3 DEF Member
<1>6. QED
  BY <1>1, <1>2, <1>3, <1>4, <1>5

LEMMA ParentOf ==
  ASSUME NEW l \in Nat, NEW t \in Nat, Member(l, t)
  PROVE  \E m \in Nat, d \in 0 .. GROUP - 1 :
           /\ Member(l + 1, m) /\ m = TreeMaster(GROUP, l, t)
           /\ t = m + d * TreeStride(GROUP, l)
<1>1. PICK s \in Nat \ {0} : s = TreeStride(GROUP, l) /\ TreeStride(GROUP, l + 1) = s * GROUP
  BY StridesPositive, StrideGrows
<1>2. PICK q \in Nat : t = s * q
  BY <1>1 DEF Member
<1>3. PICK g \in Nat \ {0} : g = GROUP
  BY GroupSize
<1>4. PICK a \in Nat : a = q \div g /\ g * a <= q /\ q < g * a + g
  OBVIOUS
<1>5. PICK d \in 0 .. GROUP - 1 : q = g * a + d
  <2>1. q - g * a \in 0 .. g - 1 /\ q = g * a + (q - g * a)
    BY <1>4
  <2>2. QED
    BY <1>3, <2>1
<1>6. PICK m \in Nat : m = (s * g) * a
  OBVIOUS
<1>7. Member(l + 1, m)
  BY <1>1, <1>3, <1>6 DEF Member
<1>8. t = m + d * s
  BY <1>2, <1>5, <1>6, <1>3
<1>9. TreeMaster(GROUP, l, m + d * TreeStride(GROUP, l)) = m
  BY <1>7, ChildOf
<1>10. QED
  BY <1>1, <1>7, <1>8, <1>9

(* On n threads, a thread that is a member of every group level is 0. *)
LEMMA RootOnly ==
  ASSUME NEW n \in Nat \ {0}, NEW t \in 0 .. n - 1, Member(TreeTop(GROUP, n), t)
  PROVE  t = 0
<1>1. PICK top \in Nat : top = TreeTop(GROUP, n)
  BY TopFacts
<1>2. PICK s \in Nat \ {0} : s = TreeStride(GROUP, top) /\ s >= n
  BY <1>1, StridesPositive, TopFacts
<1>3. PICK q \in Nat : t = s * q
  BY <1>1, <1>2 DEF Member
<1>4. q = 0
  <2> SUFFICES ASSUME q >= 1 PROVE FALSE
    OBVIOUS
  <2>1. s * q >= s * 1
    OBVIOUS
  <2>2. QED
    BY <1>2, <1>3, <2>1
<1>5. QED
  BY <1>3, <1>4

(* Where thread t waits: the level whose digit is its lowest. *)
LEMMA TreeWait ==
  ASSUME NEW n \in Nat \ {0}, NEW t \in 0 .. n - 1,
         NEW w, w = WaitOf(TreeMasters(n), TreeTop(GROUP, n), t)
  PROVE  /\ w \in 0 .. TreeTop(GROUP, n)
         /\ \A l \in 0 .. TreeTop(GROUP, n) : l <= w <=> Member(l, t)
         /\ w < TreeTop(GROUP, n) => ~Member(w + 1, t)
<1>1. PICK top \in Nat : top = TreeTop(GROUP, n)
  BY TopFacts
<1>2. \A k \in 0 .. top - 1 : TreeMasters(n)[k][t] = TreeMaster(GROUP, k, t)
  BY <1>1 DEF TreeMasters
<1>3. /\ w \in 0 .. top
      /\ \A k \in 0 .. w - 1 : TreeMaster(GROUP, k, t) = t
      /\ w < top => TreeMaster(GROUP, w, t) # t
  BY <1>1, <1>2, WaitOfExists
<1>4. \A l \in 0 .. top : Member(l, t) <=> \A k \in 0 .. l - 1 : TreeMaster(GROUP, k, t) = t
  BY MembersOfAll
<1>5. ASSUME NEW l \in 0 .. top PROVE l <= w <=> Member(l, t)
  <2>1. CASE l <= w
    BY <1>3, <1>4, <2>1
  <2>2. CASE l > w
    <3>1. w \in 0 .. l - 1 /\ w < top
      BY <1>3, <2>2
    <3>2. QED
      BY <1>3, <1>4, <2>2, <3>1
  <2>3. QED
    BY <1>3, <2>1, <2>2
<1>6. w < top => ~Member(w + 1, t)
  <2> SUFFICES ASSUME w < top PROVE ~Member(w + 1, t)
    OBVIOUS
  <2>1. w + 1 \in 0 .. top /\ ~(w + 1 <= w)
    BY <1>3
  <2>2. QED
    BY <1>5, <2>1
<1>7. QED
  BY <1>1, <1>3, <1>5, <1>6

LEMMA TreeIsTree ==
  ASSUME NEW n \in Nat \ {0}
  PROVE  TreeOf(TreeMasters(n), TreeStrides(n), TreeSizes(n), TreeTop(GROUP, n), n)
<1> DEFINE M == TreeMasters(n)
           W(t) == WaitOf(M, TreeTop(GROUP, n), t)
<1>1. PICK top \in Nat \ {0} : top = TreeTop(GROUP, n)
  BY TopFacts
<1>2. /\ \A k \in 0 .. top - 1, t \in 0 .. n - 1 : M[k][t] = TreeMaster(GROUP, k, t)
      /\ \A k \in 0 .. top - 1 : TreeStrides(n)[k] = TreeStride(GROUP, k) /\ TreeSizes(n)[k] = GROUP
  BY <1>1 DEF TreeMasters, TreeStrides, TreeSizes
<1>3. \A t \in 0 .. n - 1 : /\ W(t) \in 0 .. top
                           /\ \A l \in 0 .. top : l <= W(t) <=> Member(l, t)
  BY <1>1, TreeWait
<1>4. \A t \in 0 .. n - 1 : \A k \in 0 .. W(t) - 1 : M[k][t] = t
  BY <1>1, WaitOfExists
<1> HIDE DEF M, W
<1>5. W(0) = top
  <2>1. 0 \in 0 .. n - 1 /\ top \in 0 .. top
    OBVIOUS
  <2>2. Member(top, 0)
    <3>1. 0 = TreeStride(GROUP, top) * 0
      BY StridesPositive
    <3>2. QED
      BY <3>1 DEF Member
  <2>3. QED
    BY <1>3, <2>1, <2>2
<1>6. ASSUME NEW t \in (0 .. n - 1) \ {0}
      PROVE  Joined(TreeMasters(n), TreeStrides(n), TreeSizes(n), TreeTop(GROUP, n), t)
  <2>1. PICK w \in 0 .. top : w = W(t)
    BY <1>3
  <2>2. w < top
    <3> SUFFICES ASSUME w = top PROVE FALSE
      BY <2>1
    <3>1. Member(TreeTop(GROUP, n), t)
      BY <1>1, <1>3, <2>1
    <3>2. QED
      BY <3>1, RootOnly
  <2>3. w \in Nat /\ w + 1 \in 0 .. top /\ ~(w + 1 <= w) /\ Member(w, t) /\ ~Member(w + 1, t)
    BY <1>3, <2>1, <2>2
  <2>4. PICK m \in Nat, d \in 0 .. GROUP - 1 :
          Member(w + 1, m) /\ m = TreeMaster(GROUP, w, t) /\ t = m + d * TreeStride(GROUP, w)
    BY <2>3, ParentOf
  <2>5. m # t
    BY <2>3, <2>4
  <2>6. PICK s \in Nat \ {0} : s = TreeStride(GROUP, w)
    BY <2>3, StridesPositive
  <2>7. d \in 1 .. GROUP - 1
    BY <2>4, <2>5, <2>6, GroupSize
  <2>8. m \in 0 .. n - 1
    <3>1. m \in 0 .. t
      BY <2>3, <2>4, MasterBelow
    <3>2. QED
      BY <3>1
  <2>9. w + 1 <= W(m) /\ W(m) \in 0 .. top
    BY <1>3, <2>3, <2>4, <2>8
  <2>10. M[w][t] = m
    BY <1>2, <2>2, <2>4
  <2>11. W(t) < top /\ M[W(t)][t] # t /\ W(t) < W(M[W(t)][t])
         /\ \E k \in 1 .. TreeSizes(n)[W(t)] - 1 : t = M[W(t)][t] + k * TreeStrides(n)[W(t)]
    <3>1. TreeSizes(n)[w] = GROUP /\ TreeStrides(n)[w] = TreeStride(GROUP, w)
      BY <1>2, <2>2
    <3>2. \E k \in 1 .. TreeSizes(n)[w] - 1 : t = M[w][t] + k * TreeStrides(n)[w]
      BY <2>4, <2>7, <2>10, <3>1
    <3>3. w < W(m)
      BY <2>9
    <3>4. QED
      BY <2>1, <2>2, <2>5, <2>10, <3>2, <3>3
  <2>12. QED
    BY <1>1, <2>11 DEF Joined, W, M
<1>7. ASSUME NEW m \in 0 .. n - 1, NEW l \in 0 .. W(m) - 1, NEW k \in 1 .. TreeSizes(n)[l] - 1
      PROVE  Collected(TreeMasters(n), TreeStrides(n), TreeSizes(n), TreeTop(GROUP, n), n, m, l, k)
  <2>1. l \in 0 .. top - 1 /\ l \in Nat /\ l + 1 \in 0 .. top /\ l + 1 <= W(m)
    BY <1>3
  <2>2. Member(l + 1, m)
    BY <1>3, <2>1
  <2>3. PICK s \in Nat \ {0} : s = TreeStride(GROUP, l)
    BY <2>1, StridesPositive
  <2>4. TreeSizes(n)[l] = GROUP /\ TreeStrides(n)[l] = s /\ k \in 1 .. GROUP - 1
    BY <1>2, <2>1, <2>3
  <2>5. PICK c \in Nat : c = m + k * s
    BY <2>4, GroupSize
  <2>6. Member(l, c) /\ TreeMaster(GROUP, l, c) = m /\ c # m
    <3>1. k \in 0 .. GROUP - 1 /\ m \in Nat
      BY <2>4, GroupSize
    <3>2. Member(l, m + k * s) /\ TreeMaster(GROUP, l, m + k * s) = m
      BY <2>1, <2>2, <2>3, <3>1, ChildOf
    <3>3. k * s >= 1
      BY <2>4, GroupSize
    <3>4. QED
      BY <2>5, <3>1, <3>2, <3>3, GroupSize
  <2>7. ASSUME c < n
        PROVE  W(c) = l /\ M[l][c] = m
               /\ PlaceOf(TreeMasters(n), TreeStrides(n), TreeSizes(n), TreeTop(GROUP, n), c) = k
    <3>1. c \in 0 .. n - 1
      BY <2>7
    <3>2. M[l][c] = m
      BY <1>2, <2>1, <2>6, <3>1
    <3>3. ~Member(l + 1, c)
      BY <2>1, <2>6, Climbs
    <3>4. W(c) = l
      BY <1>3, <2>1, <2>6, <3>1, <3>3
    <3>5. PlaceOf(TreeMasters(n), TreeStrides(n), TreeSizes(n), TreeTop(GROUP, n), c) = k
      <4>1. WaitOf(TreeMasters(n), TreeTop(GROUP, n), c) = l /\ TreeMasters(n)[l][c] = m
        BY <3>2, <3>4 DEF W, M
      <4>2. TreeSizes(n)[l] \in Nat /\ k \in Nat /\ m \in Nat
        BY <2>4, GroupSize
      <4>3. QED
        BY <2>3, <2>4, <2>5, <4>1, <4>2, PlaceOfIs
    <3>6. QED
      BY <3>2, <3>4, <3>5
  <2>8. m + k * TreeStrides(n)[l] = c
    BY <2>4, <2>5
  <2>9. QED
    BY <2>7, <2>8 DEF Collected, W, M
<1>8. QED
  BY <1>1, <1>3, <1>4, <1>5, <1>6, <1>7 DEF TreeOf, W, M

-----------------------------------------------------------------------------
(* The tables of USER_BARRIER on n threads. *)
UserMasters(n) == [l \in 0 .. UserTop(WIDTH, n) - 1 |-> [t \in 0 .. n - 1 |-> UserMaster(WIDTH, l, t)]]
UserStrides(n) == [l \in 0 .. UserTop(WIDTH, n) - 1 |-> UserStride(WIDTH, l)]
UserSizes(n) == [l \in 0 .. UserTop(WIDTH, n) - 1 |-> UserSet(WIDTH, l)]

LEMMA UserTable ==
  ASSUME NEW n \in 1 .. 2 * WIDTH
  PROVE  TableOf(UserMasters(n), UserStrides(n), UserSizes(n), UserTop(WIDTH, n), n)
<1>1. PICK w \in Nat \ {0} : w = WIDTH
  BY ShapeAssumption
<1>2. UserTop(w, n) \in {1, 2}
  BY DEF UserTop
<1>3. ASSUME NEW l \in 0 .. UserTop(w, n) - 1, NEW t \in 0 .. n - 1
      PROVE  UserMaster(w, l, t) \in 0 .. n - 1
  BY <1>1 DEF UserMaster
<1>4. \A l \in 0 .. UserTop(w, n) - 1 : UserStride(w, l) \in Nat \ {0} /\ UserSet(w, l) \in Nat \ {0}
  BY <1>1 DEF UserStride, UserSet
<1>5. QED
  BY <1>1, <1>3, <1>4 DEF TableOf, UserMasters, UserStrides, UserSizes

(* Thread 0 never waits, the second group's master waits at level 1, the   *)
(* others at level 0.                                                      *)
LEMMA UserWait ==
  ASSUME NEW n \in 1 .. 2 * WIDTH, NEW t \in 0 .. n - 1
  PROVE  WaitOf(UserMasters(n), UserTop(WIDTH, n), t) =
           IF t = 0 THEN UserTop(WIDTH, n) ELSE IF t = WIDTH THEN 1 ELSE 0
<1>1. PICK w \in Nat \ {0} : w = WIDTH
  BY ShapeAssumption
<1>2. PICK top \in Nat : top = UserTop(w, n) /\ top = IF n <= w THEN 1 ELSE 2
  BY <1>1 DEF UserTop
<1>3. PICK M : M = UserMasters(n)
  OBVIOUS
<1>4. \A l \in 0 .. top - 1 : M[l][t] = IF l = 0 /\ t >= w THEN w ELSE 0
  BY <1>1, <1>2, <1>3 DEF UserMasters, UserMaster
<1>5. CASE t = 0
  <2>1. WaitOf(M, top, t) = top
    <3>1. \A k \in 0 .. top - 1 : M[k][t] = t
      BY <1>4, <1>5, <1>1
    <3>2. top \in 0 .. top /\ (top < top => M[top][t] # t)
      OBVIOUS
    <3>3. QED
      BY <3>1, <3>2, WaitOfIs
  <2>2. QED
    BY <1>1, <1>2, <1>3, <1>5, <2>1
<1>6. CASE t = w
  <2>1. top = 2
    BY <1>1, <1>2, <1>6
  <2>2. WaitOf(M, top, t) = 1
    <3>1. (\A k \in 0 .. 1 - 1 : M[k][t] = t) /\ M[1][t] # t
      BY <1>1, <1>4, <1>6, <2>1
    <3>2. 1 \in 0 .. top
      BY <2>1
    <3>3. QED
      BY <3>1, <3>2, WaitOfIs
  <2>3. QED
    BY <1>1, <1>2, <1>3, <1>6, <2>2
<1>7. CASE t # 0 /\ t # w
  <2>1. WaitOf(M, top, t) = 0
    <3>1. (\A k \in 0 .. 0 - 1 : M[k][t] = t) /\ M[0][t] # t
      BY <1>1, <1>2, <1>4, <1>7
    <3>2. 0 \in 0 .. top
      OBVIOUS
    <3>3. QED
      BY <3>1, <3>2, WaitOfIs
  <2>2. QED
    BY <1>1, <1>2, <1>3, <1>7, <2>1
<1>8. QED
  BY <1>5, <1>6, <1>7

LEMMA UserIsTree ==
  ASSUME NEW n \in 1 .. 2 * WIDTH
  PROVE  TreeOf(UserMasters(n), UserStrides(n), UserSizes(n), UserTop(WIDTH, n), n)
<1>1. PICK w \in Nat \ {0} : w = WIDTH
  BY ShapeAssumption
<1>2. PICK top \in Nat : top = UserTop(w, n) /\ top = IF n <= w THEN 1 ELSE 2
  BY <1>1 DEF UserTop
<1> DEFINE M == UserMasters(n)
           STR == UserStrides(n)
           SIZE == UserSizes(n)
           W(t) == WaitOf(M, UserTop(WIDTH, n), t)
<1>3. \A l \in 0 .. top - 1 :
        /\ \A t \in 0 .. n - 1 : M[l][t] = IF l = 0 /\ t >= w THEN w ELSE 0
        /\ STR[l] = (IF l = 0 THEN 1 ELSE w) /\ SIZE[l] = IF l = 0 THEN w ELSE 2
  BY <1>1, <1>2 DEF UserMasters, UserMaster, UserStrides, UserStride, UserSizes, UserSet
<1>4. \A t \in 0 .. n - 1 : W(t) = IF t = 0 THEN top ELSE IF t = w THEN 1 ELSE 0
  BY <1>1, <1>2, UserWait
<1>5. \A t \in 0 .. n - 1 : W(t) \in 0 .. top /\ \A k \in 0 .. W(t) - 1 : M[k][t] = t
  BY <1>1, <1>2, WaitOfExists
<1> HIDE DEF M, STR, SIZE, W
<1>6. ASSUME NEW t \in (0 .. n - 1) \ {0}
      PROVE  Joined(UserMasters(n), UserStrides(n), UserSizes(n), UserTop(WIDTH, n), t)
  <2>1. W(t) < top /\ M[W(t)][t] # t /\ W(t) < W(M[W(t)][t])
        /\ \E k \in 1 .. SIZE[W(t)] - 1 : t = M[W(t)][t] + k * STR[W(t)]
    <3>1. 0 \in 0 .. n - 1 /\ 0 \in 0 .. top - 1 /\ W(0) = top
      BY <1>2, <1>4
    <3>2. CASE t = w
      <4>1. top = 2 /\ W(t) = 1
        BY <1>1, <1>2, <1>4, <3>2
      <4>2. M[1][t] = 0 /\ SIZE[1] = 2 /\ STR[1] = w
        BY <1>3, <4>1
      <4>3. 1 \in 1 .. 2 - 1 /\ t = 0 + 1 * w
        BY <3>2
      <4>4. QED
        BY <3>1, <4>1, <4>2, <4>3
    <3>3. CASE t < w
      <4>1. W(t) = 0 /\ M[0][t] = 0 /\ SIZE[0] = w /\ STR[0] = 1
        BY <1>3, <1>4, <3>1, <3>3
      <4>2. t \in 1 .. w - 1 /\ t = 0 + t * 1
        BY <3>3
      <4>3. QED
        BY <1>2, <3>1, <4>1, <4>2
    <3>4. CASE t > w
      <4>1. top = 2 /\ w \in 0 .. n - 1 /\ W(w) = 1 /\ t < 2 * w
        BY <1>1, <1>2, <1>4, <3>4
      <4>2. W(t) = 0 /\ M[0][t] = w /\ SIZE[0] = w /\ STR[0] = 1
        BY <1>3, <1>4, <3>1, <3>4
      <4>3. t - w \in 1 .. w - 1 /\ t = w + (t - w) * 1
        BY <3>4, <4>1
      <4>4. QED
        BY <4>1, <4>2, <4>3
    <3>5. QED
      BY <3>2, <3>3, <3>4
  <2>2. QED
    BY <1>1, <1>2, <2>1 DEF Joined, W, M, STR, SIZE
<1>7. ASSUME NEW m \in 0 .. n - 1, NEW l \in 0 .. W(m) - 1, NEW k \in 1 .. SIZE[l] - 1
      PROVE  Collected(UserMasters(n), UserStrides(n), UserSizes(n), UserTop(WIDTH, n), n, m, l, k)
  <2>1. l \in 0 .. top - 1
    BY <1>5
  <2>2. SIZE[l] \in Nat \ {0} /\ STR[l] \in Nat \ {0} /\ k \in Nat \ {0}
    BY <1>3, <2>1
  <2>3. PICK c \in Nat : c = m + k * STR[l]
    BY <2>2
  <2>4. ASSUME c < n
        PROVE  W(c) = l /\ M[l][c] = m
    <3>1. CASE l = 0
      <4>1. (m = 0 \/ m = w) /\ c = m + k /\ k \in 1 .. w - 1
        <5>1. m = 0 \/ m = w
          BY <1>4, <3>1
        <5>2. QED
          BY <1>3, <2>1, <2>3, <3>1, <5>1
      <4>2. c \in 0 .. n - 1 /\ c # 0 /\ c # w /\ (c >= w <=> m = w)
        BY <2>4, <4>1
      <4>3. QED
        BY <1>3, <1>4, <2>1, <3>1, <4>1, <4>2
    <3>2. CASE l = 1
      <4>1. m = 0 /\ top = 2 /\ c = w
        <5>1. top = 2
          BY <1>2, <2>1, <3>2
        <5>2. m = 0
          BY <1>4, <3>2
        <5>3. k = 1 /\ STR[l] = w
          BY <1>3, <2>1, <3>2
        <5>4. QED
          BY <2>3, <5>1, <5>2, <5>3
      <4>2. QED
        BY <1>3, <1>4, <2>1, <2>4, <3>2, <4>1
    <3>3. QED
      BY <1>2, <2>1, <3>1, <3>2
  <2>5. ASSUME c < n
        PROVE  PlaceOf(UserMasters(n), UserStrides(n), UserSizes(n), UserTop(WIDTH, n), c) = k
    <3>1. WaitOf(UserMasters(n), UserTop(WIDTH, n), c) = l /\ UserMasters(n)[l][c] = m
      BY <2>4, <2>5 DEF W, M
    <3>2. PICK s \in Nat \ {0} : s = UserStrides(n)[l] /\ c = m + k * s
      BY <2>2, <2>3 DEF STR
    <3>3. UserSizes(n)[l] \in Nat /\ k \in 1 .. UserSizes(n)[l] - 1 /\ m \in Nat /\ k \in Nat
      BY <2>2 DEF SIZE
    <3>4. QED
      BY <3>1, <3>2, <3>3, PlaceOfIs
  <2>6. QED
    BY <2>3, <2>4, <2>5 DEF Collected, W, M, STR
<1>8. W(0) = top
  BY <1>4
<1>9. QED
  BY <1>1, <1>2, <1>5, <1>6, <1>7, <1>8 DEF TreeOf, W, M, SIZE

-----------------------------------------------------------------------------
(* The behaviours that step through the sizes. *)
ShapeInv ==
  \/ \E n \in 1 .. MaxTree : shape = TreeTables(n)
  \/ \E n \in 1 .. 2 * WIDTH : shape = UserTables(n)

LEMMA TreeFields ==
  ASSUME NEW n
  PROVE  /\ TreeTables(n).kind = "tree" /\ TreeTables(n).max = n /\ TreeTables(n).top = TreeTop(GROUP, n)
         /\ TreeTables(n).master = TreeMasters(n) /\ TreeTables(n).stride = TreeStrides(n)
         /\ TreeTables(n).setsize = TreeSizes(n)
BY DEF TreeTables, Tables, TreeMasters, TreeStrides, TreeSizes

LEMMA UserFields ==
  ASSUME NEW n
  PROVE  /\ UserTables(n).kind = "user" /\ UserTables(n).max = n /\ UserTables(n).top = UserTop(WIDTH, n)
         /\ UserTables(n).master = UserMasters(n) /\ UserTables(n).stride = UserStrides(n)
         /\ UserTables(n).setsize = UserSizes(n)
BY DEF UserTables, Tables, UserMasters, UserStrides, UserSizes

LEMMA InitShape == Init => ShapeInv
<1>1. 1 \in 1 .. MaxTree /\ 1 \in 1 .. 2 * WIDTH
  BY ShapeAssumption
<1>2. QED
  BY <1>1 DEF Init, ShapeInv

LEMMA StepShape == ShapeInv /\ [Next]_shape => ShapeInv'
<1> SUFFICES ASSUME ShapeInv, [Next]_shape PROVE ShapeInv'
  OBVIOUS
<1>1. CASE GrowTree
  <2>1. PICK n \in 1 .. MaxTree : shape = TreeTables(n)
    <3>1. ASSUME NEW n, shape = UserTables(n) PROVE FALSE
      BY <1>1, <3>1, UserFields DEF GrowTree
    <3>2. QED
      BY <3>1 DEF ShapeInv
  <2>2. shape.max = n
    BY <2>1, TreeFields
  <2>3. n + 1 \in 1 .. MaxTree /\ shape' = TreeTables(n + 1)
    BY <1>1, <2>2, ShapeAssumption DEF GrowTree
  <2>4. QED
    BY <2>3 DEF ShapeInv
<1>2. CASE GrowUser
  <2>1. PICK n \in 1 .. 2 * WIDTH : shape = UserTables(n)
    <3>1. ASSUME NEW n, shape = TreeTables(n) PROVE FALSE
      BY <1>2, <3>1, TreeFields DEF GrowUser
    <3>2. QED
      BY <3>1 DEF ShapeInv
  <2>2. shape.max = n
    BY <2>1, UserFields
  <2>3. n + 1 \in 1 .. 2 * WIDTH /\ shape' = UserTables(n + 1)
    BY <1>2, <2>2, ShapeAssumption DEF GrowUser
  <2>4. QED
    BY <2>3 DEF ShapeInv
<1>3. CASE UNCHANGED shape
  BY <1>3 DEF ShapeInv
<1>4. QED
  BY <1>1, <1>2, <1>3 DEF Next

LEMMA ShapeIsTree ==
  ASSUME NEW n, NEW M, NEW STR, NEW SIZE, NEW top,
         shape.max = n, shape.master = M, shape.stride = STR, shape.setsize = SIZE, shape.top = top,
         TableOf(M, STR, SIZE, top, n), TreeOf(M, STR, SIZE, top, n)
  PROVE  GroupsFormATree
<1>1. Groups!IsTable
  BY DEF TableOf, Groups!IsTable, Groups!Level, Groups!ID
<1>2. \A t : Groups!WaitLevel(t) = WaitOf(M, top, t)
  BY DEF WaitOf, Groups!WaitLevel
<1>3. \A t : Groups!Parent(t) = M[WaitOf(M, top, t)][t]
  BY <1>2 DEF Groups!Parent
<1>4. \A t : Groups!Place(t) = PlaceOf(M, STR, SIZE, top, t)
  BY <1>2, <1>3 DEF Groups!Place, PlaceOf
<1>5. Groups!ID = 0 .. n - 1 /\ Groups!Child = (0 .. n - 1) \ {0}
  BY DEF Groups!ID, Groups!Child
<1>6. Groups!IsTree
  <2>1. Groups!WaitLevel(0) = shape.top
    BY <1>2 DEF TreeOf
  <2>2. \A t \in Groups!ID : /\ Groups!WaitLevel(t) \in 0 .. shape.top
                            /\ \A k \in 0 .. Groups!WaitLevel(t) - 1 : shape.master[k][t] = t
    BY <1>2, <1>5 DEF TreeOf
  <2>3. ASSUME NEW t \in Groups!Child
        PROVE  /\ Groups!WaitLevel(t) < shape.top
               /\ Groups!Parent(t) # t
               /\ Groups!WaitLevel(t) < Groups!WaitLevel(Groups!Parent(t))
               /\ \E k \in 1 .. shape.setsize[Groups!WaitLevel(t)] - 1 :
                    t = Groups!Parent(t) + k * shape.stride[Groups!WaitLevel(t)]
    <3>1. Joined(M, STR, SIZE, top, t)
      BY <1>5 DEF TreeOf
    <3>2. QED
      BY <1>2, <1>3, <3>1 DEF Joined
  <2>4. ASSUME NEW m \in Groups!ID, NEW l \in 0 .. Groups!WaitLevel(m) - 1,
               NEW k \in 1 .. shape.setsize[l] - 1
        PROVE  LET c == m + k * shape.stride[l] IN
                 c < shape.max => /\ Groups!WaitLevel(c) = l
                                  /\ Groups!Parent(c) = m /\ Groups!Place(c) = k
    <3>1. Collected(M, STR, SIZE, top, n, m, l, k)
      BY <1>2, <1>5 DEF TreeOf
    <3>2. QED
      BY <1>2, <1>3, <1>4, <3>1 DEF Collected
  <2>5. QED
    BY <2>1, <2>2, <2>3, <2>4 DEF Groups!IsTree
<1>7. QED
  BY <1>1, <1>6 DEF GroupsFormATree

LEMMA ShapeInvFacts == ShapeInv => GroupsFormATree /\ LevelsFit
<1>1. ASSUME NEW n \in 1 .. MaxTree, shape = TreeTables(n)
      PROVE  GroupsFormATree /\ LevelsFit
  <2>1. n \in Nat \ {0}
    BY ShapeAssumption
  <2>2. GroupsFormATree
    BY <1>1, <2>1, TreeFields, TreeTable, TreeIsTree, ShapeIsTree
  <2>3. TreeTop(GROUP, n) <= Levels
    <3> SUFFICES ASSUME ~(TreeTop(GROUP, n) <= Levels) PROVE FALSE
      OBVIOUS
    <3>1. Levels \in 1 .. TreeTop(GROUP, n) - 1
      BY <2>1, TopFacts, ShapeAssumption
    <3>2. TreeStride(GROUP, Levels) < n
      BY <2>1, <3>1, TopFacts
    <3>3. TreeStride(GROUP, Levels) \in Nat
      BY ShapeAssumption, StridesPositive
    <3>4. QED
      BY <3>2, <3>3, ShapeAssumption
  <2>4. QED
    BY <1>1, <2>2, <2>3, TreeFields DEF LevelsFit
<1>2. ASSUME NEW n \in 1 .. 2 * WIDTH, shape = UserTables(n)
      PROVE  GroupsFormATree /\ LevelsFit
  <2>1. GroupsFormATree
    BY <1>2, UserFields, UserTable, UserIsTree, ShapeIsTree
  <2>2. UserTop(WIDTH, n) <= Levels
    BY ShapeAssumption DEF UserTop
  <2>3. QED
    BY <1>2, <2>1, <2>2, UserFields DEF LevelsFit
<1>3. QED
  BY <1>1, <1>2 DEF ShapeInv

(* The tables the code computes are those of a tree, for every number of   *)
(* threads (GroupsFormATree).                                              *)
THEOREM GroupsFormATreeHolds == Spec => []GroupsFormATree
BY InitShape, StepShape, ShapeInvFacts, PTL DEF Spec

(* The climb never leaves the rows of FLAG and COUNT (LevelsFit). *)
THEOREM LevelsFitHolds == Spec => []LevelsFit
BY InitShape, StepShape, ShapeInvFacts, PTL DEF Spec

-----------------------------------------------------------------------------
(* The barrier of GroupBarrierTSO with the tables of the code.             *)
CONSTANTS MAX, Rounds
VARIABLES TURN, FLAG, COUNT, pc, LEVEL, SET, calls, returns, buffer

TreeBarrier == INSTANCE GroupBarrierTSOProofs WITH
  TOP <- TreeTop(GROUP, MAX), MASTER <- TreeMasters(MAX), STRIDE <- TreeStrides(MAX),
  SETSIZE <- TreeSizes(MAX)
UserBarrier == INSTANCE GroupBarrierTSOProofs WITH
  TOP <- UserTop(WIDTH, MAX), MASTER <- UserMasters(MAX), STRIDE <- UserStrides(MAX),
  SETSIZE <- UserSizes(MAX)

LEMMA TreeBarrierTables ==
  ASSUME MAX \in Nat \ {0}
  PROVE  TreeTop(GROUP, MAX) \in Nat \ {0} /\ TreeBarrier!IsTable /\ TreeBarrier!IsTree
<1>1. TreeBarrier!IsTable
  BY TreeTable DEF TableOf, TreeBarrier!IsTable, TreeBarrier!Level, TreeBarrier!ID
<1> DEFINE M == TreeMasters(MAX)
           STR == TreeStrides(MAX)
           SIZE == TreeSizes(MAX)
           top == TreeTop(GROUP, MAX)
<1>2. \A t : TreeBarrier!WaitLevel(t) = WaitOf(M, top, t)
  BY DEF WaitOf, TreeBarrier!WaitLevel
<1>3. \A t : TreeBarrier!Parent(t) = M[WaitOf(M, top, t)][t]
  BY <1>2 DEF TreeBarrier!Parent
<1>4. \A t : TreeBarrier!Place(t) = PlaceOf(M, STR, SIZE, top, t)
  BY <1>2, <1>3 DEF TreeBarrier!Place, PlaceOf
<1>5. TreeBarrier!ID = 0 .. MAX - 1 /\ TreeBarrier!Child = (0 .. MAX - 1) \ {0}
  BY DEF TreeBarrier!ID, TreeBarrier!Child
<1>6. TreeOf(M, STR, SIZE, top, MAX)
  BY TreeIsTree
<1>7. TreeBarrier!IsTree
  <2>1. \A t \in TreeBarrier!Child : Joined(M, STR, SIZE, top, t)
    BY <1>5, <1>6 DEF TreeOf
  <2>2. \A m \in TreeBarrier!ID : \A l \in 0 .. TreeBarrier!WaitLevel(m) - 1 : \A k \in 1 .. SIZE[l] - 1 :
          Collected(M, STR, SIZE, top, MAX, m, l, k)
    BY <1>2, <1>5, <1>6 DEF TreeOf
  <2>3. /\ TreeBarrier!WaitLevel(0) = top
        /\ \A t \in TreeBarrier!ID : /\ TreeBarrier!WaitLevel(t) \in 0 .. top
                             /\ \A k \in 0 .. TreeBarrier!WaitLevel(t) - 1 : M[k][t] = t
    BY <1>2, <1>5, <1>6 DEF TreeOf
  <2> HIDE DEF M, STR, SIZE, top
  <2>4. \A t \in TreeBarrier!Child :
          /\ TreeBarrier!WaitLevel(t) < top
          /\ TreeBarrier!Parent(t) # t
          /\ TreeBarrier!WaitLevel(t) < TreeBarrier!WaitLevel(TreeBarrier!Parent(t))
          /\ \E k \in 1 .. SIZE[TreeBarrier!WaitLevel(t)] - 1 :
               t = TreeBarrier!Parent(t) + k * STR[TreeBarrier!WaitLevel(t)]
    BY <1>2, <1>3, <2>1 DEF Joined
  <2>5. \A m \in TreeBarrier!ID : \A l \in 0 .. TreeBarrier!WaitLevel(m) - 1 : \A k \in 1 .. SIZE[l] - 1 :
          LET c == m + k * STR[l] IN
            c < MAX => /\ TreeBarrier!WaitLevel(c) = l
                       /\ TreeBarrier!Parent(c) = m /\ TreeBarrier!Place(c) = k
    BY <1>2, <1>3, <1>4, <2>2 DEF Collected
  <2>6. QED
    BY <2>3, <2>4, <2>5 DEF TreeBarrier!IsTree, M, STR, SIZE, top
<1>8. QED
  BY <1>1, <1>7, TopFacts

LEMMA UserBarrierTables ==
  ASSUME MAX \in 1 .. 2 * WIDTH
  PROVE  UserTop(WIDTH, MAX) \in Nat \ {0} /\ UserBarrier!IsTable /\ UserBarrier!IsTree
<1>1. UserBarrier!IsTable
  BY UserTable DEF TableOf, UserBarrier!IsTable, UserBarrier!Level, UserBarrier!ID
<1> DEFINE M == UserMasters(MAX)
           STR == UserStrides(MAX)
           SIZE == UserSizes(MAX)
           top == UserTop(WIDTH, MAX)
<1>2. \A t : UserBarrier!WaitLevel(t) = WaitOf(M, top, t)
  BY DEF WaitOf, UserBarrier!WaitLevel
<1>3. \A t : UserBarrier!Parent(t) = M[WaitOf(M, top, t)][t]
  BY <1>2 DEF UserBarrier!Parent
<1>4. \A t : UserBarrier!Place(t) = PlaceOf(M, STR, SIZE, top, t)
  BY <1>2, <1>3 DEF UserBarrier!Place, PlaceOf
<1>5. UserBarrier!ID = 0 .. MAX - 1 /\ UserBarrier!Child = (0 .. MAX - 1) \ {0}
  BY DEF UserBarrier!ID, UserBarrier!Child
<1>6. TreeOf(M, STR, SIZE, top, MAX)
  BY UserIsTree
<1>7. UserBarrier!IsTree
  <2>1. \A t \in UserBarrier!Child : Joined(M, STR, SIZE, top, t)
    BY <1>5, <1>6 DEF TreeOf
  <2>2. \A m \in UserBarrier!ID : \A l \in 0 .. UserBarrier!WaitLevel(m) - 1 : \A k \in 1 .. SIZE[l] - 1 :
          Collected(M, STR, SIZE, top, MAX, m, l, k)
    BY <1>2, <1>5, <1>6 DEF TreeOf
  <2>3. /\ UserBarrier!WaitLevel(0) = top
        /\ \A t \in UserBarrier!ID : /\ UserBarrier!WaitLevel(t) \in 0 .. top
                             /\ \A k \in 0 .. UserBarrier!WaitLevel(t) - 1 : M[k][t] = t
    BY <1>2, <1>5, <1>6 DEF TreeOf
  <2> HIDE DEF M, STR, SIZE, top
  <2>4. \A t \in UserBarrier!Child :
          /\ UserBarrier!WaitLevel(t) < top
          /\ UserBarrier!Parent(t) # t
          /\ UserBarrier!WaitLevel(t) < UserBarrier!WaitLevel(UserBarrier!Parent(t))
          /\ \E k \in 1 .. SIZE[UserBarrier!WaitLevel(t)] - 1 :
               t = UserBarrier!Parent(t) + k * STR[UserBarrier!WaitLevel(t)]
    BY <1>2, <1>3, <2>1 DEF Joined
  <2>5. \A m \in UserBarrier!ID : \A l \in 0 .. UserBarrier!WaitLevel(m) - 1 : \A k \in 1 .. SIZE[l] - 1 :
          LET c == m + k * STR[l] IN
            c < MAX => /\ UserBarrier!WaitLevel(c) = l
                       /\ UserBarrier!Parent(c) = m /\ UserBarrier!Place(c) = k
    BY <1>2, <1>3, <1>4, <2>2 DEF Collected
  <2>6. QED
    BY <2>3, <2>4, <2>5 DEF UserBarrier!IsTree, M, STR, SIZE, top
<1>8. QED
  BY <1>1, <1>7 DEF UserTop

(* TREE_BARRIER, with the groups the digits of the IDs give, on any number *)
(* of threads and without a fence: no thread returns from its n-th call    *)
(* before every thread has made its n-th call.                             *)
THEOREM TreeBarrierSeparates ==
  MAX \in Nat \ {0} /\ Rounds \in Nat => (TreeBarrier!TSOSpec => []TreeBarrier!Separation)
BY TreeBarrierTables, TreeBarrier!TSOSeparation

(* USER_BARRIER likewise, with the tables USER_BARRIER_INIT fills, on any  *)
(* number of threads it accepts.                                           *)
THEOREM UserBarrierSeparates ==
  MAX \in 1 .. 2 * WIDTH /\ Rounds \in Nat => (UserBarrier!TSOSpec => []UserBarrier!Separation)
<1>1. MAX \in 1 .. 2 * WIDTH => MAX \in Nat \ {0}
  BY ShapeAssumption
<1>2. QED
  BY <1>1, UserBarrierTables, UserBarrier!TSOSeparation

(* TREE_BARRIER so built implements the abstract barrier of PhasedBarrier. *)
THEOREM TreeBarrierImplements ==
  MAX \in Nat \ {0} /\ Rounds \in Nat => (TreeBarrier!TSOSpec => TreeBarrier!Abstract!Spec)
BY TreeBarrierTables, TreeBarrier!TSOImplementation

(* USER_BARRIER implements it as well, for as many threads as it accepts.  *)
THEOREM UserBarrierImplements ==
  MAX \in 1 .. 2 * WIDTH /\ Rounds \in Nat => (UserBarrier!TSOSpec => UserBarrier!Abstract!Spec)
<1>1. MAX \in 1 .. 2 * WIDTH => MAX \in Nat \ {0}
  BY ShapeAssumption
<1>2. QED
  BY <1>1, UserBarrierTables, UserBarrier!TSOImplementation

(* With store buffers and without a fence TREE_BARRIER never gets stuck:   *)
(* until every thread has returned from its last call some thread can take *)
(* a step or has a store on its way; a thread that can step stays able to; *)
(* and every step spends from a finite budget.                             *)
THEOREM TreeBarrierMoves ==
  MAX \in Nat \ {0} /\ Rounds \in Nat =>
    (TreeBarrier!TSOSpec =>
       /\ [](TreeBarrier!Done
               \/ \E t \in TreeBarrier!ID : TreeBarrier!ReadyTSO(t) \/ buffer[t] # <<>>)
       /\ TreeBarrier!ReadyStaysTSO /\ TreeBarrier!SpendsTSO)
BY TreeBarrierTables, TreeBarrier!TSOSomeoneReady, TreeBarrier!ReadyStaysTSOHolds,
   TreeBarrier!TSOBudgetHolds

(* Nor does USER_BARRIER, for as many threads as it accepts.               *)
THEOREM UserBarrierMoves ==
  MAX \in 1 .. 2 * WIDTH /\ Rounds \in Nat =>
    (UserBarrier!TSOSpec =>
       /\ [](UserBarrier!Done
               \/ \E t \in UserBarrier!ID : UserBarrier!ReadyTSO(t) \/ buffer[t] # <<>>)
       /\ UserBarrier!ReadyStaysTSO /\ UserBarrier!SpendsTSO)
<1>1. MAX \in 1 .. 2 * WIDTH => MAX \in Nat \ {0}
  BY ShapeAssumption
<1>2. QED
  BY <1>1, UserBarrierTables, UserBarrier!TSOSomeoneReady, UserBarrier!ReadyStaysTSOHolds,
     UserBarrier!TSOBudgetHolds

=============================================================================
