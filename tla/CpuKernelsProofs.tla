-------------------------- MODULE CpuKernelsProofs --------------------------
(***************************************************************************)
(* Theorems about the kernels of the generic CPU benchmark: the generator  *)
(* (XorShift), the on-the-fly random and atomic kernels (RandomAccess), and*)
(* the kernels as main.cpp runs them (CpuKernels).                         *)
(***************************************************************************)
EXTENDS CpuKernels, TLAPS, WellFoundedInduction, FunctionTheorems, FiniteSetTheorems

-----------------------------------------------------------------------------
(* The draw of XorShift is a permutation of the words of any size, for any *)
(* shifts but 0: each of its three steps can be undone, the right shifts   *)
(* from the highest position in which two words differ downwards, the left *)
(* shift from the lowest upwards.                                          *)

LEMMA Lowest ==
  ASSUME NEW D \in SUBSET Nat, D # {}
  PROVE  \E t \in D : \A u \in D : t <= u
<1>1. IsWellFoundedOn(OpToRel(<, Nat), Nat)
  BY NatLessThanWellFounded
<1>2. PICK t \in D : \A u \in D : ~(<<u, t>> \in OpToRel(<, Nat))
  BY <1>1, WFMin
<1>3. \A u \in D : ~(u < t)
  BY <1>2 DEF OpToRel
<1> QED
  BY <1>3

LEMMA Highest ==
  ASSUME NEW n \in Nat, NEW D \in SUBSET (0 .. n), D # {}
  PROVE  \E t \in D : \A u \in D : u <= t
<1> DEFINE E == {x \in 0 .. n : n - x \in D}
<1>1. E \in SUBSET Nat
  OBVIOUS
<1>2. \A u \in D : n - u \in E
  OBVIOUS
<1>3. E # {}
  BY <1>2
<1>4. PICK x \in E : \A j \in E : x <= j
  BY <1>1, <1>3, Lowest
<1>5. n - x \in D
  BY <1>4
<1>6. \A u \in D : u <= n - x
  <2> SUFFICES ASSUME NEW u \in D PROVE u <= n - x
    OBVIOUS
  <2>1. x <= n - u
    BY <1>2, <1>4
  <2> QED
    BY <2>1, <1>4
<1> QED
  BY <1>5, <1>6

LEMMA XorWord ==
  ASSUME NEW size \in Nat, NEW v \in Word(size), NEW w \in Word(size)
  PROVE  Xor(v, w) \in Word(size)
BY DEF Xor, Word

LEMMA ShiftWord ==
  ASSUME NEW size \in Nat, NEW w, NEW n \in Nat
  PROVE  ShiftRight(w, n, size) \in Word(size) /\ ShiftLeft(w, n, size) \in Word(size)
BY DEF ShiftRight, ShiftLeft, Word

LEMMA RightUndone ==
  ASSUME NEW size \in Nat, NEW n \in Nat \ {0},
         NEW v \in Word(size), NEW w \in Word(size),
         Xor(v, ShiftRight(v, n, size)) = Xor(w, ShiftRight(w, n, size))
  PROVE  v = w
<1> SUFFICES ASSUME v # w PROVE FALSE
  OBVIOUS
<1> DEFINE D == Xor(v, w)
<1>1. D \in SUBSET (0 .. size - 1) /\ D # {}
  BY DEF Xor, Word
<1>2. size - 1 \in Nat
  BY <1>1
<1>3. PICK t \in D : \A u \in D : u <= t
  BY <1>1, <1>2, Highest
<1>4. t \in 0 .. size - 1 /\ t + n \in Nat /\ ~(t + n <= t)
  BY <1>1
<1>5. t + n \notin D
  BY <1>3, <1>4
<1>6. (t + n \in v) <=> (t + n \in w)
  BY <1>5 DEF Xor
<1>7. (t \in ShiftRight(v, n, size)) <=> (t \in ShiftRight(w, n, size))
  BY <1>4, <1>6 DEF ShiftRight
<1>8. (t \in v) <=> (t \in w)
  BY <1>7 DEF Xor
<1> QED
  BY <1>3, <1>8 DEF Xor

LEMMA LeftUndone ==
  ASSUME NEW size \in Nat, NEW n \in Nat \ {0},
         NEW v \in Word(size), NEW w \in Word(size),
         Xor(v, ShiftLeft(v, n, size)) = Xor(w, ShiftLeft(w, n, size))
  PROVE  v = w
<1> SUFFICES ASSUME v # w PROVE FALSE
  OBVIOUS
<1> DEFINE D == Xor(v, w)
<1>1. D \in SUBSET (0 .. size - 1) /\ D # {}
  BY DEF Xor, Word
<1>2. D \in SUBSET Nat
  BY <1>1
<1>3. PICK t \in D : \A u \in D : t <= u
  BY <1>1, <1>2, Lowest
<1>4. t \in 0 .. size - 1 /\ ~(t <= t - n)
  BY <1>1
<1>5. t - n \notin D
  BY <1>3, <1>4
<1>6. (t - n \in v) <=> (t - n \in w)
  BY <1>5 DEF Xor
<1>7. (t \in ShiftLeft(v, n, size)) <=> (t \in ShiftLeft(w, n, size))
  BY <1>4, <1>6 DEF ShiftLeft
<1>8. (t \in v) <=> (t \in w)
  BY <1>7 DEF Xor
<1> QED
  BY <1>3, <1>8 DEF Xor

(* A draw stays within its size. *)
LEMMA DrawWord ==
  ASSUME NEW size \in Nat, NEW amounts \in Nat \X Nat \X Nat,
         NEW w \in Word(size)
  PROVE  Draw(amounts, size, w) \in Word(size)
<1> DEFINE a == Xor(w, ShiftRight(w, amounts[1], size))
<1> DEFINE b == Xor(a, ShiftLeft(a, amounts[2], size))
<1>0. amounts[1] \in Nat /\ amounts[2] \in Nat /\ amounts[3] \in Nat
  OBVIOUS
<1>1. a \in Word(size)
  BY <1>0, ShiftWord, XorWord
<1>2. b \in Word(size)
  <2> HIDE DEF a
  <2> QED
    BY <1>0, <1>1, ShiftWord, XorWord
<1>3. Xor(b, ShiftRight(b, amounts[3], size)) \in Word(size)
  <2> HIDE DEF b
  <2> QED
    BY <1>0, <1>2, ShiftWord, XorWord
<1> QED
  BY <1>3 DEF Draw

(* Two words with the same successor are the same: the generator never     *)
(* runs into a cycle that its seed is not part of.                         *)
THEOREM DrawInjective ==
  ASSUME NEW size \in Nat, NEW amounts \in (Nat \ {0}) \X (Nat \ {0}) \X (Nat \ {0}),
         NEW v \in Word(size), NEW w \in Word(size),
         Draw(amounts, size, v) = Draw(amounts, size, w)
  PROVE  v = w
<1> DEFINE a(x) == Xor(x, ShiftRight(x, amounts[1], size))
<1> DEFINE b(x) == Xor(a(x), ShiftLeft(a(x), amounts[2], size))
<1>0. amounts[1] \in Nat \ {0} /\ amounts[2] \in Nat \ {0} /\ amounts[3] \in Nat \ {0}
  OBVIOUS
<1>1. \A x \in Word(size) : a(x) \in Word(size)
  BY <1>0, ShiftWord, XorWord
<1>2. \A x \in Word(size) : b(x) \in Word(size)
  <2> SUFFICES ASSUME NEW x \in Word(size) PROVE b(x) \in Word(size)
    OBVIOUS
  <2>1. a(x) \in Word(size)
    BY <1>1
  <2> HIDE DEF a
  <2> QED
    BY <1>0, <2>1, ShiftWord, XorWord
<1>3. Xor(b(v), ShiftRight(b(v), amounts[3], size)) = Xor(b(w), ShiftRight(b(w), amounts[3], size))
  BY DEF Draw
<1>4. b(v) = b(w)
  <2>1. b(v) \in Word(size) /\ b(w) \in Word(size)
    BY <1>2
  <2> HIDE DEF b
  <2> QED
    BY <1>0, <1>3, <2>1, RightUndone
<1>5. a(v) = a(w)
  <2>1. a(v) \in Word(size) /\ a(w) \in Word(size)
    BY <1>1
  <2>2. Xor(a(v), ShiftLeft(a(v), amounts[2], size)) = Xor(a(w), ShiftLeft(a(w), amounts[2], size))
    BY <1>4
  <2> HIDE DEF a
  <2> QED
    BY <1>0, <2>1, <2>2, LeftUndone
<1> QED
  BY <1>0, <1>5, RightUndone

(* The generator never reaches 0, where it would stay.                     *)
THEOREM DrawNonZero ==
  ASSUME NEW size \in Nat, NEW amounts \in (Nat \ {0}) \X (Nat \ {0}) \X (Nat \ {0}),
         NEW w \in Word(size), w # {}
  PROVE  Draw(amounts, size, w) # {}
<1>1. {} \in Word(size)
  BY DEF Word
<1>2. \A n : ShiftRight({}, n, size) = {} /\ ShiftLeft({}, n, size) = {}
  BY DEF ShiftRight, ShiftLeft
<1>3. Xor({}, {}) = {}
  BY DEF Xor
<1>4. Draw(amounts, size, {}) = {}
  BY <1>2, <1>3 DEF Draw
<1> QED
  BY <1>1, <1>4, DrawInjective

(* Every row of the table shifts by something.                             *)
LEMMA RowShifts ==
  ASSUME NEW size \in 4 .. 30
  PROVE  TableRow(size) \in (Nat \ {0}) \X (Nat \ {0}) \X (Nat \ {0})
<1>1. size - 3 \in 1 .. 27
  OBVIOUS
<1> QED
  BY <1>1 DEF TableRow

-----------------------------------------------------------------------------
(* RandomAccess, for all the functions of the four kernels and any number  *)
(* of passes.                                                              *)

LEMMA FunctionFacts ==
  ASSUME NEW f \in Functions
  PROVE  /\ Bits(f) \in 6 .. 26
         /\ Shift(f) \in (Nat \ {0}) \X (Nat \ {0}) \X (Nat \ {0})
<1>1. f[2] \in 13 .. 30 /\ f[3] \in {32, 64, 128}
  BY FunctionsAssumption
<1>2. StrideBits(f) \in 5 .. 7
  BY <1>1 DEF StrideBits
<1>3. Bits(f) \in 6 .. 26
  BY <1>1, <1>2 DEF Bits, LineBits
<1>4. Bits(f) \in 4 .. 30 /\ Bits(f) # 29
  BY <1>3
<1>5. TableRow(Bits(f)) \in (Nat \ {0}) \X (Nat \ {0}) \X (Nat \ {0})
  BY <1>4, RowShifts
<1> QED
  BY <1>3, <1>4, <1>5 DEF Shift, ArmMacro, X64Macro

LEMMA PassesNat == \A f : Passes(f) \in Nat
BY PassesAssumption DEF Passes

LEMMA OneWord == \A b \in Nat \ {0} : One \in Word(b)
BY DEF One, Word

LEMMA TypeInit == Init => TypeOK
<1> SUFFICES ASSUME Init PROVE TypeOK
  OBVIOUS
<1>1. fn \in Functions /\ Bits(fn) \in Nat \ {0}
  BY FunctionFacts DEF Init
<1>2. state \in Word(Bits(fn))
  BY <1>1, OneWord DEF Init
<1>3. pass \in 0 .. Passes(fn) + 1
  BY PassesNat DEF Init
<1> QED
  BY <1>1, <1>2, <1>3 DEF Init, TypeOK

LEMMA TypeStep == TypeOK /\ [Next]_vars => TypeOK'
<1> SUFFICES ASSUME TypeOK, [Next]_vars PROVE TypeOK'
  OBVIOUS
<1> USE DEF TypeOK, Goto
<1>0. /\ Bits(fn) \in Nat \ {0} /\ One \in Word(Bits(fn)) /\ Passes(fn) \in Nat
      /\ Draw(Shift(fn), Bits(fn), state) \in Word(Bits(fn))
  BY FunctionFacts, OneWord, PassesNat, DrawWord
<1>1. CASE Call
  BY <1>0, <1>1 DEF Call
<1>2. CASE DrawIndex
  BY <1>0, <1>2 DEF DrawIndex
<1>3. CASE Access
  <2>1. mem' \in [Word(Bits(fn)) -> Nat]
    BY <1>3 DEF Access
  <2> QED
    BY <1>3, <2>1 DEF Access
<1>4. CASE LoadExclusive
  BY <1>4 DEF LoadExclusive
<1>5. CASE StoreExclusive
  <2>1. mem' = [mem EXCEPT ![state] = temp + 1] /\ temp + 1 \in Nat
    BY <1>5 DEF StoreExclusive
  <2>2. mem' \in [Word(Bits(fn)) -> Nat]
    BY <2>1
  <2> QED
    BY <1>5, <2>2 DEF StoreExclusive
<1>6. CASE StoreFails
  BY <1>6 DEF StoreFails
<1>7. CASE Test
  BY <1>7 DEF Test
<1>8. CASE Return
  BY <1>0, <1>8 DEF Return
<1>9. CASE Report
  BY <1>9 DEF Report
<1>10. CASE Interrupt
  BY <1>10 DEF Interrupt
<1>11. CASE UNCHANGED vars
  BY <1>11 DEF vars
<1> QED
  BY <1>1, <1>2, <1>3, <1>4, <1>5, <1>6, <1>7, <1>8, <1>9, <1>10, <1>11 DEF Next, Step

(* The registers, the array and the history keep their types.              *)
THEOREM TypeCorrect == Spec => []TypeOK
BY TypeInit, TypeStep, PTL DEF Spec

(* A draw meets no line that has been accessed: its only source would be   *)
(* the state it was drawn of.                                              *)
LEMMA DrawIsFresh ==
  ASSUME TypeOK, Trail, DrawIndex
  PROVE  state' \notin touched /\ Drawn(touched \cup {One}, touched \cup {state'})
<1> DEFINE next(u) == Draw(Shift(fn), Bits(fn), u)
<1>0. /\ Bits(fn) \in Nat /\ One \in Word(Bits(fn))
      /\ Shift(fn) \in (Nat \ {0}) \X (Nat \ {0}) \X (Nat \ {0})
  BY FunctionFacts, OneWord DEF TypeOK
<1>1. state' = next(state) /\ pc = "draw"
  BY DEF DrawIndex, Goto
<1>2. /\ Drawn((touched \ {state}) \cup {One}, touched)
      /\ (touched = {} /\ state = One) \/ (state \in touched /\ state # One)
  BY <1>1 DEF Trail
<1>3. state' \notin touched
  <2> SUFFICES ASSUME state' \in touched PROVE FALSE
    OBVIOUS
  <2>1. PICK u \in (touched \ {state}) \cup {One} : state' = next(u)
    BY <1>2 DEF Drawn
  <2>2. u \in Word(Bits(fn)) /\ state \in Word(Bits(fn))
    BY <1>0 DEF TypeOK
  <2>3. Draw(Shift(fn), Bits(fn), u) = Draw(Shift(fn), Bits(fn), state)
    BY <1>1, <2>1
  <2>4. u = state
    BY <1>0, <2>2, <2>3, DrawInjective
  <2> QED
    BY <1>2, <2>1, <2>4
<1>4. Drawn(touched \cup {One}, touched)
  BY <1>2 DEF Drawn
<1>5. state \in touched \cup {One}
  BY <1>2
<1>6. \A v \in touched \cup {state'} : \E u \in touched \cup {One} : v = next(u)
  BY <1>1, <1>4, <1>5 DEF Drawn
<1> QED
  BY <1>3, <1>6 DEF Drawn

LEMMA TrailInit == Init => Trail
BY DEF Init, Trail

LEMMA TrailStep == TypeOK /\ Trail /\ [Next]_vars => Trail'
<1> SUFFICES ASSUME TypeOK, Trail, [Next]_vars PROVE Trail'
  OBVIOUS
<1>1. CASE Call
  BY <1>1 DEF Call, Goto, Trail, Drawn
<1>2. CASE DrawIndex
  <2>1. state' \notin touched /\ Drawn(touched \cup {One}, touched \cup {state'})
    BY <1>2, DrawIsFresh
  <2>2. touched' = touched /\ fn' = fn /\ pc' \in {"access", "ldrex"}
    BY <1>2 DEF DrawIndex, Goto
  <2> QED
    BY <2>1, <2>2 DEF Trail, Drawn
<1>3. ASSUME Access \/ StoreExclusive PROVE Trail'
  <2>1. /\ pc \in {"access", "strex"} /\ pc' = "test"
        /\ touched' = touched \cup {state} /\ state' = state /\ fn' = fn
    BY <1>3 DEF Access, StoreExclusive, Goto
  <2>2. state \notin touched /\ Drawn(touched \cup {One}, touched')
    BY <2>1 DEF Trail
  <2>3. (touched' \ {state'}) = touched
    BY <2>1, <2>2
  <2>4. Drawn((touched' \ {state'}) \cup {One}, touched')
    BY <2>2, <2>3
  <2>5. Drawn((touched \ {state}) \cup {One}, touched)'
    BY <2>1, <2>4 DEF Drawn
  <2> QED
    BY <2>1, <2>5 DEF Trail
<1>4. CASE LoadExclusive
  BY <1>4 DEF LoadExclusive, Goto, Trail, Drawn
<1>5. CASE StoreFails
  BY <1>5 DEF StoreFails, Goto, Trail, Drawn
<1>6. CASE Test
  BY <1>6 DEF Test, Goto, Trail, Drawn
<1>7. CASE Return \/ Report
  BY <1>7 DEF Return, Report, Goto, Trail
<1>8. CASE Interrupt
  BY <1>8 DEF Interrupt, Trail, Drawn
<1>9. CASE UNCHANGED vars
  BY <1>9 DEF vars, Trail, Drawn
<1> QED
  BY <1>1, <1>2, <1>3, <1>4, <1>5, <1>6, <1>7, <1>8, <1>9 DEF Next, Step

(* What has been accessed is a trail from the seed that does not bite      *)
(* itself.                                                                 *)
THEOREM TrailHolds == Spec => []Trail
<1>1. Init => TypeOK /\ Trail
  BY TypeInit, TrailInit
<1>2. TypeOK /\ Trail /\ [Next]_vars => (TypeOK /\ Trail)'
  BY TypeStep, TrailStep
<1> QED
  BY <1>1, <1>2, PTL DEF Spec

(* No call of a random-access function, of any size, accesses a line twice.*)
THEOREM NoRevisitHolds == Spec => NoRevisit
<1>1. Trail /\ [Next]_vars =>
        [(pc \in {"access", "strex"} /\ pc' = "test") => state \notin touched]_vars
  BY DEF Trail
<1> QED
  BY <1>1, TrailHolds, PTL DEF Spec, NoRevisit

-----------------------------------------------------------------------------
(* The updates.  Every call follows the draws of the seed until it is back *)
(* there, so every call comes to the same lines: the least set of lines    *)
(* that holds the first draw and, with a line, the one drawn of it.        *)

next(u) == Draw(Shift(fn), Bits(fn), u)

Followed(sources, lines) == \A u \in sources : next(u) \in lines

Closed(S) == next(One) \in S /\ Followed(S \ {One}, S)

Orbit == {line \in Word(Bits(fn)) : \A S \in SUBSET Word(Bits(fn)) : Closed(S) => line \in S}

(* Lines the call that is running has accessed.                            *)
Accessed == IF pc \in {"call", "done"} THEN {} ELSE touched

(* No draw of a line accessed so far leads anywhere else.                  *)
Course ==
  /\ touched \subseteq Orbit
  /\ pc \in {"access", "ldrex", "strex"} =>
       state \in Orbit /\ Followed(touched \cup {One}, touched \cup {state})
  /\ pc \in {"test", "draw"} =>
       touched = {} \/ Followed((touched \ {state}) \cup {One}, touched)
  /\ pc = "return" => One \in touched /\ Closed(touched)

(* What the array holds, and what LDREX has read of it.                    *)
Tally ==
  \A line \in Word(Bits(fn)) :
    mem[line] = IF Updates(fn) /\ line \in Orbit
                THEN IF line \in Accessed THEN pass + 1 ELSE pass
                ELSE 0

Monitored ==
  /\ pc \in {"ldrex", "strex"} => fn[1] = "LLSC"
  /\ exclusive => pc = "strex" /\ temp = mem[state]

CountInv == TypeOK /\ Trail /\ Course /\ Tally /\ Monitored

LEMMA OrbitFacts ==
  ASSUME TypeOK
  PROVE  /\ Orbit \subseteq Word(Bits(fn))
         /\ next(One) \in Orbit
         /\ \A u \in Orbit \ {One} : next(u) \in Orbit
         /\ \A S \in SUBSET Word(Bits(fn)) : Closed(S) => Orbit \subseteq S
<1>1. \A u \in Word(Bits(fn)) : next(u) \in Word(Bits(fn))
  BY FunctionFacts, DrawWord DEF TypeOK, next
<1>2. One \in Word(Bits(fn))
  BY FunctionFacts, OneWord DEF TypeOK
<1>3. Orbit \subseteq Word(Bits(fn))
  BY DEF Orbit
<1>4. next(One) \in Orbit
  BY <1>1, <1>2 DEF Orbit, Closed
<1>5. ASSUME NEW u \in Orbit \ {One} PROVE next(u) \in Orbit
  <2>1. \A S \in SUBSET Word(Bits(fn)) : Closed(S) => u \in S /\ next(u) \in S
    BY <1>5 DEF Orbit, Closed, Followed
  <2> QED
    BY <1>1, <1>3, <1>5, <2>1 DEF Orbit
<1>6. \A S \in SUBSET Word(Bits(fn)) : Closed(S) => Orbit \subseteq S
  BY DEF Orbit
<1> QED
  BY <1>3, <1>4, <1>5, <1>6

(* The lines and the draws depend on nothing but the function called.      *)
LEMMA SameFunction ==
  ASSUME fn' = fn
  PROVE  /\ Orbit' = Orbit
         /\ \A u : next(u)' = next(u)
BY DEF Orbit, Closed, Followed, next

LEMMA CountInit == Init => Course /\ Tally /\ Monitored
<1> SUFFICES ASSUME Init PROVE Course /\ Tally /\ Monitored
  OBVIOUS
<1>1. Course /\ Monitored
  BY DEF Init, Course, Monitored
<1>2. Tally
  BY DEF Init, Tally, Accessed
<1> QED
  BY <1>1, <1>2

(* A call stays on the course from its first draw to the seed. *)
LEMMA CourseStep == TypeOK /\ Trail /\ Course /\ [Next]_vars => Course'
<1> SUFFICES ASSUME TypeOK, Trail, Course, [Next]_vars PROVE Course'
  OBVIOUS
<1>o. /\ next(One) \in Orbit
      /\ \A u \in Orbit \ {One} : next(u) \in Orbit
  BY OrbitFacts
(* Steps that go on where they are, or look at the monitor alone. *)
<1>q. ASSUME UNCHANGED <<fn, state, touched>>,
             \/ pc' = pc \/ pc' \in {"call", "done"}
             \/ {pc, pc'} \subseteq {"ldrex", "strex"}
      PROVE  Course'
  BY <1>q, SameFunction DEF Course, Followed, Closed
<1>1. CASE Call
  BY <1>1 DEF Call, Goto, Course
<1>2. CASE DrawIndex
  <2>1. /\ pc = "draw" /\ pc' \in {"access", "ldrex"} /\ UNCHANGED <<fn, touched>>
        /\ state' = next(state)
    BY <1>2 DEF DrawIndex, Goto, next
  <2>2. \/ touched = {} /\ state = One
        \/ state \in touched /\ state # One
    BY <2>1 DEF Trail
  <2>3. state' \in Orbit
    BY <1>o, <2>1, <2>2 DEF Course
  <2>4. Followed(touched \cup {One}, touched \cup {state'})
    BY <2>1, <2>2 DEF Course, Followed
  <2> QED
    BY <2>1, <2>3, <2>4, SameFunction DEF Course, Followed
<1>3. CASE Access \/ StoreExclusive
  <2>1. /\ pc \in {"access", "strex"} /\ pc' = "test" /\ UNCHANGED <<fn, state>>
        /\ touched' = touched \cup {state}
    BY <1>3 DEF Access, StoreExclusive, Goto
  <2>2. touched' \ {state} = touched /\ touched' \subseteq Orbit
    BY <2>1 DEF Trail, Course
  <2>3. Followed((touched' \ {state}) \cup {One}, touched')
    BY <2>1, <2>2 DEF Course
  <2> QED
    BY <2>1, <2>2, <2>3, SameFunction DEF Course, Followed
<1>4. CASE Test
  <2>1. /\ pc = "test" /\ UNCHANGED <<fn, state, touched>>
        /\ pc' = IF state = One THEN "return" ELSE "draw"
    BY <1>4 DEF Test, Goto
  <2>2. state \in touched /\ Followed((touched \ {state}) \cup {One}, touched)
    BY <2>1 DEF Trail, Course
  <2>3. state = One => One \in touched /\ Closed(touched)
    BY <2>2 DEF Closed, Followed
  <2> QED
    BY <2>1, <2>2, <2>3, SameFunction DEF Course, Followed, Closed
<1>5. CASE LoadExclusive \/ StoreFails \/ Return \/ Report \/ Interrupt \/ UNCHANGED vars
  BY <1>5, <1>q DEF LoadExclusive, StoreFails, Return, Report, Interrupt, Goto, vars
<1> QED
  BY <1>1, <1>2, <1>3, <1>4, <1>5 DEF Next, Step

(* Only the LL/SC functions use the monitor, and while it holds the word   *)
(* LDREX has read is the one in the array.                                 *)
LEMMA MonitorStep ==
  TypeOK /\ Monitored /\ [Next]_vars => Monitored'
BY DEF Monitored, Next, Step, Call, DrawIndex, Access, LoadExclusive, StoreExclusive, StoreFails,
       Test, Return, Report, Interrupt, Goto, vars

(* An update adds one to a line this call has not come to; a call that     *)
(* returns has come to every line of the orbit.                            *)
LEMMA TallyStep == CountInv /\ [Next]_vars => Tally'
<1> SUFFICES ASSUME CountInv, [Next]_vars PROVE Tally'
  OBVIOUS
<1> USE DEF CountInv
<1>1. UNCHANGED fn /\ Orbit' = Orbit /\ Updates(fn)' = Updates(fn)
  <2>1. UNCHANGED fn
    BY DEF Next, Step, Call, DrawIndex, Access, LoadExclusive, StoreExclusive, StoreFails, Test,
           Return, Report, Interrupt, vars
  <2> QED
    BY <2>1, SameFunction
<1>q. ASSUME UNCHANGED <<pass, mem>>, Accessed' = Accessed PROVE Tally'
  BY <1>1, <1>q DEF Tally
<1>u. ASSUME pc \notin {"call", "done"}, pc' = "test", UNCHANGED pass,
             touched' = touched \cup {state},
             state \in Orbit /\ state \notin touched,
             mem' = IF Updates(fn) THEN [mem EXCEPT ![state] = mem[state] + 1] ELSE mem
      PROVE  Tally'
  <2> SUFFICES ASSUME NEW line \in Word(Bits(fn))
               PROVE  mem'[line] = IF Updates(fn) /\ line \in Orbit
                                   THEN IF line \in Accessed' THEN pass + 1 ELSE pass
                                   ELSE 0
    BY <1>1, <1>u DEF Tally
  <2>1. Accessed = touched /\ Accessed' = touched \cup {state}
    BY <1>u DEF Accessed
  <2>2. mem[line] = IF Updates(fn) /\ line \in Orbit
                    THEN IF line \in touched THEN pass + 1 ELSE pass
                    ELSE 0
    BY <2>1 DEF Tally
  <2>3. CASE Updates(fn) /\ line = state
    <3>1. mem[line] = pass
      BY <1>u, <2>2, <2>3
    <3>2. mem'[line] = mem[line] + 1
      BY <1>u, <2>3 DEF TypeOK
    <3> QED
      BY <1>u, <2>1, <2>3, <3>1, <3>2
  <2>4. CASE ~Updates(fn)
    BY <1>u, <2>2, <2>4
  <2>5. CASE Updates(fn) /\ line # state
    <3>1. mem'[line] = mem[line]
      BY <1>u, <2>5 DEF TypeOK
    <3> QED
      BY <2>1, <2>2, <2>5, <3>1
  <2> QED
    BY <2>3, <2>4, <2>5
<1>2. CASE Call
  BY <1>2, <1>q DEF Call, Goto, Accessed
<1>3. CASE DrawIndex
  BY <1>3, <1>q DEF DrawIndex, Goto, Accessed
<1>4. CASE Access
  BY <1>4, <1>u DEF Access, Goto, Trail, Course
<1>5. CASE StoreExclusive
  <2>1. Updates(fn) /\ temp = mem[state]
    BY <1>5 DEF StoreExclusive, Goto, Monitored, Updates
  <2> QED
    BY <1>5, <1>u, <2>1 DEF StoreExclusive, Goto, Trail, Course
<1>6. CASE LoadExclusive \/ StoreFails \/ Test \/ Report \/ Interrupt \/ UNCHANGED vars
  BY <1>6, <1>q DEF LoadExclusive, StoreFails, Test, Report, Interrupt, Goto, Accessed, vars
<1>7. CASE Return
  <2>1. pc = "return" /\ pc' = "call" /\ pass' = pass + 1 /\ mem' = mem
    BY <1>7 DEF Return, Goto
  <2>2. touched = Orbit
    BY <2>1, OrbitFacts DEF Course, TypeOK
  <2>3. Accessed = Orbit /\ Accessed' = {}
    BY <2>1, <2>2 DEF Accessed
  <2> QED
    BY <1>1, <2>1, <2>3 DEF Tally
<1> QED
  BY <1>2, <1>3, <1>4, <1>5, <1>6, <1>7 DEF Next, Step

(* In every call of an update function each line it comes to gets one      *)
(* increment, however often STREX fails, and it comes to the same lines    *)
(* every time.                                                             *)
THEOREM UpdatesCountHolds == Spec => []UpdatesCount
<1>1. Init => CountInv
  BY TypeInit, TrailInit, CountInit DEF CountInv
<1>2. CountInv /\ [Next]_vars => CountInv'
  BY TypeStep, TrailStep, CourseStep, TallyStep, MonitorStep DEF CountInv
<1>3. CountInv => UpdatesCount
  <2> SUFFICES ASSUME CountInv, pc \in {"test", "return"}, fn[1] \in {"INC", "LLSC"}
               PROVE  (\A line \in touched : mem[line] = pass + 1) <=> ~(fn[1] = "INC" /\ fn[3] > 32)
    BY DEF UpdatesCount
  <2>1. touched # {} /\ touched \subseteq Orbit /\ touched \subseteq Word(Bits(fn)) /\ pass \in Nat
    BY PassesNat DEF CountInv, TypeOK, Trail, Course
  <2>2. Updates(fn) <=> ~(fn[1] = "INC" /\ fn[3] > 32)
    <3>1. fn \in Functions
      BY DEF CountInv, TypeOK
    <3>2. fn[3] \in {32, 64, 128}
      BY <3>1, FunctionsAssumption
    <3> QED
      BY <3>2 DEF Updates
  <2>3. \A line \in touched : mem[line] = IF Updates(fn) THEN pass + 1 ELSE 0
    BY <2>1 DEF CountInv, Tally, Accessed
  <2> QED
    BY <2>1, <2>2, <2>3
<1> QED
  BY <1>1, <1>2, <1>3, PTL DEF Spec

-----------------------------------------------------------------------------
(* StreamLoop, for all the kernels, any number of turns and any register   *)
(* that holds the size of the array.                                       *)

LEMMA Quotient ==
  ASSUME NEW p \in Nat \ {0}, NEW q \in Nat, NEW r \in 0 .. p - 1
  PROVE  (p * q + r) \div p = q /\ (p * q + r) % p = r
<1> DEFINE a == p * q + r
<1>1. PICK d \in Nat : d = a \div p /\ p * d <= a /\ a < p * d + p
  OBVIOUS
<1>2. ~(d < q)
  <2> SUFFICES ASSUME d < q PROVE FALSE
    OBVIOUS
  <2>1. p * (d + 1) <= p * q
    OBVIOUS
  <2>2. QED
    BY <1>1, <2>1
<1>3. ~(d > q)
  <2> SUFFICES ASSUME d > q PROVE FALSE
    OBVIOUS
  <2>1. p * (q + 1) <= p * d
    OBVIOUS
  <2>2. QED
    BY <1>1, <2>1
<1>4. d = q
  BY <1>2, <1>3
<1>5. QED
  BY <1>1, <1>4

(* What the loop rests on: a block is a whole number of loads, an even one *)
(* where half of them come from the end, and of words.                     *)
Shares(block, load) ==
  /\ block \in Nat \ {0} /\ load \in Nat \ {0}
  /\ block % 8 = 0 /\ load % 4 = 0
  /\ block = (block \div load) * load
Sized(q) ==
  /\ Shares(q.block, q.load)
  /\ \/ q.semi = FALSE /\ (q.tail = FALSE \/ q.tail = TRUE)
     \/ q.semi = TRUE /\ q.tail = FALSE /\ (q.block \div q.load) % 2 = 0

LEMMA KernelSizes == \A q \in Stream!Kernels : Sized(q)
<1>1. ASSUME NEW q \in Stream!X64Sequential PROVE Sized(q)
  <2>1. \/ q.block = 256 /\ q.load \in {16, 32}
        \/ q.block = 64 /\ q.load = 8
    BY DEF Stream!X64Sequential, Stream!Entry
  <2>2. q.semi = FALSE /\ q.tail = FALSE
    BY DEF Stream!X64Sequential, Stream!Entry
  <2>3. Shares(q.block, q.load)
    BY <2>1 DEF Shares
  <2>4. QED
    BY <2>2, <2>3, Zenon DEF Sized
<1>2. ASSUME NEW q \in Stream!X64SemiSequential \cup Stream!X64SemiMMX \cup Stream!ArmSemi \cup Stream!ArmSemiAtEnd PROVE Sized(q)
  <2>1. \/ q.block = 256 /\ q.load \in {8, 32, 128}
        \/ q.block = 128 /\ q.load = 16
        \/ q.block = 64 /\ q.load = 8
        \/ q.block = 32 /\ q.load \in {4, 16}
    BY DEF Stream!X64SemiSequential, Stream!X64SemiMMX, Stream!ArmSemi, Stream!ArmSemiAtEnd, Stream!Entry
  <2>2. q.semi = TRUE /\ q.tail = FALSE
    BY DEF Stream!X64SemiSequential, Stream!X64SemiMMX, Stream!ArmSemi, Stream!ArmSemiAtEnd, Stream!Entry
  <2>3. Shares(q.block, q.load) /\ (q.block \div q.load) % 2 = 0
    BY <2>1 DEF Shares
  <2>4. QED
    BY <2>2, <2>3, Zenon DEF Sized
<1>3. ASSUME NEW q \in Stream!KNC PROVE Sized(q)
  <2>1. q.block = 256 /\ q.load = 64
    BY DEF Stream!KNC, Stream!Entry
  <2>2. (q.semi = TRUE \/ q.semi = FALSE) /\ q.tail = FALSE
    BY DEF Stream!KNC, Stream!Entry
  <2>3. Shares(q.block, q.load) /\ (q.block \div q.load) % 2 = 0
    BY <2>1 DEF Shares
  <2>4. QED
    BY <2>2, <2>3, Zenon DEF Sized
<1>4. ASSUME NEW q \in Stream!ArmLDR PROVE Sized(q)
  <2>1. PICK n \in {1, 2, 4, 8} : q.block = 48 * n /\ q.load = 4
    BY DEF Stream!ArmLDR, Stream!Entry
  <2>2. q.semi = FALSE /\ q.tail = TRUE
    BY DEF Stream!ArmLDR, Stream!Entry
  <2>3. Shares(q.block, q.load)
    BY <2>1 DEF Shares
  <2>4. QED
    BY <2>2, <2>3, Zenon DEF Sized
<1>5. ASSUME NEW q \in Stream!ArmLDM PROVE Sized(q)
  <2>1. \/ q.block = 48 /\ q.load = 48
        \/ q.block \in {32, 64, 128} /\ q.load = 32
    BY DEF Stream!ArmLDM, Stream!Entry
  <2>2. q.semi = FALSE /\ (q.tail = FALSE \/ q.tail = TRUE)
    BY DEF Stream!ArmLDM, Stream!Entry
  <2>3. Shares(q.block, q.load)
    <3>1. CASE q.block = 48 /\ q.load = 48
      <4>1. 48 \div 48 = 1
        OBVIOUS
      <4>2. QED
        BY <3>1, <4>1 DEF Shares
    <3>2. CASE q.block \in {32, 64, 128} /\ q.load = 32
      BY <3>2 DEF Shares
    <3>3. QED
      BY <2>1, <3>1, <3>2
  <2>4. QED
    BY <2>2, <2>3, Zenon DEF Sized
<1>6. ASSUME NEW q \in Stream!ArmVector PROVE Sized(q)
  <2>1. q.block = 256 /\ q.load \in {8, 32, 64}
    BY DEF Stream!ArmVector, Stream!Entry
  <2>2. q.semi = FALSE /\ q.tail = FALSE
    BY DEF Stream!ArmVector, Stream!Entry
  <2>3. Shares(q.block, q.load)
    BY <2>1 DEF Shares
  <2>4. QED
    BY <2>2, <2>3, Zenon DEF Sized
<1>7. ASSUME NEW q \in Stream!Random2K PROVE Sized(q)
  <2>1. q.block = 2048 /\ q.load = 4
    BY DEF Stream!Random2K, Stream!Entry
  <2>2. q.semi = FALSE /\ q.tail = FALSE
    BY DEF Stream!Random2K, Stream!Entry
  <2>3. Shares(q.block, q.load)
    BY <2>1 DEF Shares
  <2>4. QED
    BY <2>2, <2>3, Zenon DEF Sized
<1>8. QED
  BY <1>1, <1>2, <1>3, <1>4, <1>5, <1>6, <1>7 DEF Stream!Kernels, Stream!Misplaced

LEMMA PowerOfTwo == \A n \in Nat : 2 ^ n \in Nat \ {0}
<1> SUFFICES ASSUME NEW n \in Nat PROVE 2 ^ n \in Nat \ {0}
  OBVIOUS
<1>1. IsFiniteSet(1 .. n) /\ Cardinality(1 .. n) = n
  <2>1. 1 \in Int /\ n \in Int
    OBVIOUS
  <2>2. IsFiniteSet(1 .. n) /\ Cardinality(1 .. n) = IF 1 > n THEN 0 ELSE n - 1 + 1
    BY <2>1, FS_Interval, Zenon
  <2>3. QED
    BY <2>2
<1>2. IsFiniteSet(SUBSET (1 .. n)) /\ Cardinality(SUBSET (1 .. n)) = 2 ^ n
  BY <1>1, FS_SUBSET, Zenon
<1>3. 2 ^ n # 0
  <2>1. {} \in SUBSET (1 .. n)
    OBVIOUS
  <2>2. SUBSET (1 .. n) # {}
    BY <2>1
  <2>3. QED
    BY <1>2, <2>2, FS_EmptySet, Zenon
<1>4. 2 ^ n \in Nat
  BY <1>2, FS_CardinalityType, Zenon
<1>5. QED
  BY <1>3, <1>4

LEMMA StreamNumbers ==
  ASSUME kernel \in Stream!Kernels, bytes \in Stream!Sizes(kernel)
  PROVE  /\ 2 ^ Width \in Nat /\ Sized(kernel)
         /\ kernel.block \in Nat \ {0} /\ kernel.block % 8 = 0 /\ kernel.block < 2 ^ Width
         /\ bytes \in Nat /\ bytes % 4 = 0 /\ bytes < 2 ^ Width
<1>1. /\ Turns \in Nat \ {0} /\ Width \in Nat
      /\ kernel.block * Turns + 8 < 2 ^ Width
  BY StreamAssumption DEF Stream!Parameters
<1>2. PICK W \in Nat : W = 2 ^ Width
  BY <1>1, PowerOfTwo
<1>3. Sized(kernel) /\ Shares(kernel.block, kernel.load)
  BY KernelSizes, Zenon DEF Sized
<1>4. PICK B \in Nat \ {0} : B = kernel.block /\ B % 8 = 0
  BY <1>3 DEF Shares
<1>5. PICK m \in 0 .. Turns, extra \in {0, 4, 8} : bytes = B * m + extra
  BY <1>4 DEF Stream!Sizes
<1>6. B * m <= B * Turns /\ B <= B * Turns /\ B * m \in Nat /\ B * Turns \in Nat
  BY <1>1
<1>7. (B * m) % 4 = 0
  <2>1. PICK c \in Nat : B = 8 * c
    BY <1>4
  <2>2. PICK d \in Nat : d = c * m
    BY <2>1
  <2>3. B * m = 8 * d
    BY <2>1, <2>2
  <2>4. QED
    BY <2>3
<1>8. B * Turns + 8 < W
  BY <1>1, <1>2, <1>4
<1>9. bytes \in Nat /\ bytes % 4 = 0 /\ bytes < W /\ B < W
  BY <1>5, <1>6, <1>7, <1>8
<1>10. QED
  BY <1>2, <1>3, <1>4, <1>9

LEMMA SameCardinality == \A S : Stream!Cardinality(S) = Cardinality(S)
BY Zenon DEF Stream!Cardinality, Cardinality

(* The loads at so many addresses, one behind the other, and those that    *)
(* read the byte at a.                                                     *)
Row(lo, l, n) == {lo + x * l : x \in 0 .. n - 1}
Over(loads, l, a) == {x \in loads : a \in x .. x + l - 1}

LEMMA CoversOver == \A S, a : Stream!Covers(S, a) = Cardinality(Over(S, kernel.load, a))
BY SameCardinality, Zenon DEF Stream!Covers, Over

(* A row of loads reads each byte it stretches over once. *)
LEMMA CoversRow ==
  ASSUME NEW l \in Nat \ {0}, NEW n \in Nat, NEW lo \in Int, NEW a \in Int
  PROVE  Cardinality(Over(Row(lo, l, n), l, a)) = IF a \in lo .. lo + n * l - 1 THEN 1 ELSE 0
<1> DEFINE C == {x \in Row(lo, l, n) : a \in x .. x + l - 1}
<1> USE DEF Row
<1>1. CASE a \in lo .. lo + n * l - 1
  <2>1. PICK q \in Nat : l * q <= a - lo /\ a - lo < l * q + l
    <3>1. PICK d \in Nat : d = a - lo
      BY <1>1
    <3>2. PICK q \in Nat : q = d \div l /\ l * q <= d /\ d < l * q + l
      OBVIOUS
    <3>3. QED
      BY <3>1, <3>2
  <2>2. q < n
    <3> SUFFICES ASSUME q >= n PROVE FALSE
      OBVIOUS
    <3>1. l * q >= l * n
      OBVIOUS
    <3>2. QED
      BY <1>1, <2>1, <3>1
  <2>3. lo + q * l \in C
    BY <2>1, <2>2
  <2>4. ASSUME NEW x \in C PROVE x = lo + q * l
    <3>1. PICK y \in 0 .. n - 1 : x = lo + y * l
      OBVIOUS
    <3>2. l * y <= a - lo /\ a - lo < l * y + l
      BY <3>1
    <3>3. ~(y < q)
      <4> SUFFICES ASSUME y + 1 <= q PROVE FALSE
        BY <3>1
      <4>1. l * (y + 1) <= l * q
        BY <3>1
      <4>2. QED
        BY <2>1, <3>1, <3>2, <4>1
    <3>4. ~(q < y)
      <4> SUFFICES ASSUME q + 1 <= y PROVE FALSE
        BY <3>1
      <4>1. l * (q + 1) <= l * y
        BY <3>1
      <4>2. QED
        BY <2>1, <3>1, <3>2, <4>1
    <3>5. QED
      BY <3>1, <3>3, <3>4
  <2>5. C = {lo + q * l}
    BY <2>3, <2>4, Zenon
  <2>6. Cardinality(C) = 1
    BY <2>5, FS_Singleton, Zenon
  <2>7. QED
    BY <1>1, <2>6 DEF Over
<1>2. CASE a \notin lo .. lo + n * l - 1
  <2>1. ASSUME NEW x \in C PROVE FALSE
    <3>1. PICK y \in 0 .. n - 1 : x = lo + y * l
      OBVIOUS
    <3>2. y * l >= 0 /\ (y + 1) * l <= n * l
      BY <3>1
    <3>3. QED
      BY <1>2, <3>1, <3>2
  <2>2. C = {}
    BY <2>1
  <2>3. Cardinality(C) = 0
    BY <2>2, FS_EmptySet, Zenon
  <2>4. QED
    BY <1>2, <2>3 DEF Over
<1>3. QED
  BY <1>1, <1>2 DEF Over

LEMMA CoversNone ==
  ASSUME NEW S, NEW a, NEW l, \A x \in S : a \notin x .. x + l - 1
  PROVE  Cardinality(Over(S, l, a)) = 0
<1>1. Over(S, l, a) = {}
  BY DEF Over
<1>2. QED
  BY <1>1, FS_EmptySet, Zenon

(* Half the loads, or all, make up what the pointers move by. *)
LEMMA TurnSizes ==
  ASSUME kernel \in Stream!Kernels
  PROVE  /\ Stream!Moved \in Nat \ {0} /\ Stream!Moved % 4 = 0
         /\ kernel.load \in Nat \ {0}
         /\ kernel.semi => /\ kernel.block = 2 * Stream!Moved
                           /\ Stream!Half \in Nat /\ Stream!Moved = Stream!Half * kernel.load
         /\ ~kernel.semi => /\ kernel.block = Stream!Moved
                            /\ kernel.block \div kernel.load \in Nat
                            /\ kernel.block = (kernel.block \div kernel.load) * kernel.load
<1>1. Sized(kernel) /\ Shares(kernel.block, kernel.load)
  BY KernelSizes, Zenon DEF Sized
<1>2. PICK B \in Nat \ {0} : B = kernel.block /\ B % 8 = 0
  BY <1>1 DEF Shares
<1>3. PICK l \in Nat \ {0} : l = kernel.load
  BY <1>1 DEF Shares
<1>4. PICK n \in Nat : n = B \div l /\ n = kernel.block \div kernel.load
  BY <1>2, <1>3
<1>5. B = n * l
  BY <1>1, <1>2, <1>3, <1>4 DEF Shares
<1>6. PICK c \in Nat : B = 8 * c
  BY <1>2
<1>7. CASE kernel.semi
  <2>1. Stream!Moved = B \div 2
    BY <1>2, <1>7 DEF Stream!Moved
  <2>2. Stream!Moved = 4 * c
    BY <1>6, <2>1
  <2>3. n % 2 = 0
    <3>1. (kernel.block \div kernel.load) % 2 = 0
      BY <1>1, <1>7, Zenon DEF Sized
    <3>2. QED
      BY <1>4, <3>1
  <2>4. Stream!Half = n \div 2
    <3>1. Stream!Loads = 0 .. n - 1
      BY <1>4 DEF Stream!Loads
    <3>2. 0 \in Int /\ n - 1 \in Int
      OBVIOUS
    <3>3. Cardinality(0 .. n - 1) = IF 0 > n - 1 THEN 0 ELSE n - 1 - 0 + 1
      BY <3>2, FS_Interval, Zenon
    <3>4. Stream!Cardinality(0 .. n - 1) = n
      BY <3>3, SameCardinality
    <3>5. QED
      BY <3>1, <3>4 DEF Stream!Half
  <2>5. PICK h \in Nat : n = 2 * h /\ h = n \div 2
    BY <2>3
  <2>6. (2 * h) * l = 2 * (h * l)
    OBVIOUS
  <2>7. 8 * c = 2 * (h * l)
    BY <1>5, <1>6, <2>5, <2>6
  <2>8. h * l = 4 * c
    <3>1. PICK m \in Nat : m = h * l
      OBVIOUS
    <3>2. QED
      BY <2>7, <3>1
  <2>9. Stream!Moved = Stream!Half * kernel.load
    BY <1>3, <2>2, <2>4, <2>5, <2>8
  <2>10. c # 0
    BY <1>2, <1>6
  <2>11. QED
    BY <1>2, <1>3, <1>6, <1>7, <2>2, <2>4, <2>5, <2>9, <2>10
<1>8. CASE ~kernel.semi
  <2>1. Stream!Moved = B
    BY <1>2, <1>8 DEF Stream!Moved
  <2>2. B % 4 = 0
    BY <1>6
  <2>3. QED
    BY <1>2, <1>3, <1>4, <1>5, <1>8, <2>1, <2>2
<1>9. QED
  BY <1>7, <1>8

(* Where a kernel is not misplaced, a turn reads every word once between   *)
(* where its pointers are and where they go.                               *)
LEMMA TurnCovers ==
  ASSUME kernel \in Stream!Kernels \ Stream!Misplaced, front \in Nat, back \in Int, NEW a \in Int
  PROVE  /\ Stream!Covers(Stream!FrontLoads, a)
              = IF a \in front .. front + Stream!Moved - 1 THEN 1 ELSE 0
         /\ Stream!Covers(Stream!BackLoads, a)
              = IF kernel.semi /\ a \in back - Stream!Moved .. back - 1 THEN 1 ELSE 0
<1>1. PICK l \in Nat \ {0} : l = kernel.load
  BY TurnSizes
<1>2. kernel \notin Stream!X64SemiMMX /\ kernel \notin Stream!ArmSemiAtEnd
  BY DEF Stream!Misplaced
<1>3. front \in Int
  OBVIOUS
<1>4. CASE kernel.semi
  <2>1. PICK h \in Nat : h = Stream!Half /\ Stream!Moved = h * l
    BY <1>1, <1>4, TurnSizes
  <2>2. PICK lo \in Int : lo = back - h * l
    OBVIOUS
  <2>3. Stream!FrontLoads = Row(front, l, h)
    BY <1>1, <1>2, <1>4, <2>1 DEF Stream!FrontLoads, Row
  <2>4. Stream!BackLoads = Row(lo, l, h)
    <3>1. Stream!BackLoads = {back - x * l : x \in 1 .. h}
      BY <1>1, <1>2, <1>4, <2>1 DEF Stream!BackLoads
    <3>2. \A x \in 1 .. h : back - x * l = lo + (h - x) * l /\ h - x \in 0 .. h - 1
      BY <2>2
    <3>3. \A x \in 0 .. h - 1 : lo + x * l = back - (h - x) * l /\ h - x \in 1 .. h
      BY <2>2
    <3>4. Stream!BackLoads \subseteq Row(lo, l, h)
      BY <3>1, <3>2 DEF Row
    <3>5. Row(lo, l, h) \subseteq Stream!BackLoads
      BY <3>1, <3>3 DEF Row
    <3>6. QED
      BY <3>4, <3>5
  <2>5. Cardinality(Over(Row(front, l, h), l, a)) = IF a \in front .. front + h * l - 1 THEN 1 ELSE 0
    BY <1>3, CoversRow
  <2>6. Cardinality(Over(Row(lo, l, h), l, a)) = IF a \in lo .. lo + h * l - 1 THEN 1 ELSE 0
    BY CoversRow
  <2>7. lo + h * l = back
    BY <2>2
  <2>8. QED
    BY <1>1, <1>4, <2>1, <2>2, <2>3, <2>4, <2>5, <2>6, <2>7, CoversOver
<1>5. CASE ~kernel.semi
  <2>1. PICK n \in Nat : n = kernel.block \div kernel.load /\ Stream!Moved = n * l
    BY <1>1, <1>5, TurnSizes
  <2>2. Stream!FrontLoads = Row(front, l, n)
    BY <1>1, <1>5, <2>1 DEF Stream!FrontLoads, Stream!Loads, Row
  <2>3. Stream!BackLoads = {}
    BY <1>5 DEF Stream!BackLoads
  <2>4. Cardinality(Over(Row(front, l, n), l, a)) = IF a \in front .. front + n * l - 1 THEN 1 ELSE 0
    BY <1>3, CoversRow
  <2>5. Cardinality(Over({}, l, a)) = 0
    BY CoversNone
  <2>6. QED
    BY <1>1, <1>5, <2>1, <2>2, <2>3, <2>4, <2>5, CoversOver
<1>6. QED
  BY <1>4, <1>5

(* The bytes between the pointers, or from the pointer to the end.         *)
Todo == (IF kernel.semi THEN back ELSE bytes) - front

Pointers ==
  /\ front \in Nat /\ front % 4 = 0 /\ Todo \in Nat
  /\ back = IF kernel.semi THEN bytes - front ELSE bytes

(* The register counts the bytes to be read, less a block from the first   *)
(* subtraction to the addition that takes it back.                         *)
Counter ==
  /\ stream_pc \in {"enter", "loop", "restore", "tail", "finish", "trap"}
  /\ stream_pc = "enter" => front = 0 /\ left = Todo
  /\ stream_pc = "loop" => Todo >= kernel.block /\ left = Todo - kernel.block
  /\ stream_pc = "restore" => Todo < kernel.block /\ left = Todo - kernel.block + 2 ^ Width
  /\ stream_pc = "tail" => kernel.tail /\ Todo > 0 /\ left = Todo
  /\ stream_pc = "finish" => Todo = 0 /\ left = 0
  /\ stream_pc = "trap" => left = Todo

(* What has been read.  A kernel that is misplaced never gets to one word: *)
(* with MMX the third of the end, else the one that its pointers meet at.  *)
Done(a) == a \in 0 .. front - 1 \/ a \in back .. bytes - 1

ReadSoFar ==
  /\ reads \in [Stream!Near(bytes) -> Nat]
  /\ kernel \notin Stream!Misplaced =>
       \A a \in Stream!Near(bytes) : reads[a] = IF Done(a) THEN 1 ELSE 0

Missed ==
  /\ kernel \in Stream!X64SemiMMX =>
       /\ front = 0 \/ front >= 32
       /\ bytes >= 64 => reads[bytes - 12] = 0
  /\ kernel \in Stream!ArmSemiAtEnd =>
       \A a \in Stream!Near(bytes) : a \in front .. back + 3 => reads[a] = 0

StreamRun ==
  /\ kernel \in Stream!Kernels /\ bytes \in Stream!Sizes(kernel)
  /\ Pointers /\ Counter /\ ReadSoFar /\ Missed

LEMMA StreamInit == Stream!Init => StreamRun
<1> SUFFICES ASSUME Stream!Init PROVE StreamRun
  OBVIOUS
<1>1. /\ kernel \in Stream!Kernels /\ bytes \in Stream!Sizes(kernel)
      /\ left = bytes /\ front = 0 /\ back = bytes /\ stream_pc = "enter"
      /\ reads = [a \in Stream!Near(bytes) |-> 0]
  BY DEF Stream!Init
<1>2. bytes \in Nat /\ bytes % 4 = 0
  BY <1>1, StreamNumbers
<1>3. Todo = bytes
  BY <1>1, <1>2 DEF Todo
<1>4. Pointers /\ Counter
  BY <1>1, <1>2, <1>3 DEF Pointers, Counter
<1>5. ReadSoFar
  BY <1>1, <1>2 DEF ReadSoFar, Done
<1>6. Missed
  <2>1. bytes >= 64 => bytes - 12 \in Stream!Near(bytes)
    <3>1. ASSUME bytes >= 64 PROVE bytes - 12 \in Stream!Near(bytes)
      <4>1. PICK m \in Nat : bytes = 4 * m
        BY <1>2
      <4>2. bytes - 12 = 4 * (m - 3) /\ m - 3 \in -64 .. (bytes \div 4) + 63
        BY <3>1, <4>1
      <4>3. QED
        BY <4>2 DEF Stream!Near
    <3>2. QED
      BY <3>1
  <2>2. QED
    BY <1>1, <2>1 DEF Missed
<1>7. QED
  BY <1>1, <1>4, <1>5, <1>6 DEF StreamRun

(* Subtraction in the register, and the addition that takes it back. *)
LEMMA Registers ==
  ASSUME NEW n \in Nat, NEW d \in Nat, n < 2 ^ Width, d < 2 ^ Width, 2 ^ Width \in Nat
  PROVE  /\ Stream!Sub(n, d) = IF n < d THEN n - d + 2 ^ Width ELSE n - d
         /\ (n - d + 2 ^ Width + d) % 2 ^ Width = n
<1>1. PICK W \in Nat : W = 2 ^ Width
  OBVIOUS
<1>2. n < d => (n - d + W) % W = n - d + W
  BY <1>1
<1>3. ~(n < d) => (n - d + W) % W = n - d
  <2>1. ASSUME ~(n < d) PROVE (n - d + W) % W = n - d
    <3>1. n - d \in 0 .. W - 1 /\ W \in Nat \ {0}
      BY <1>1, <2>1
    <3>2. (W * 1 + (n - d)) % W = n - d
      BY <3>1, Quotient
    <3>3. W * 1 + (n - d) = n - d + W
      BY <1>1, <3>1
    <3>4. QED
      BY <3>2, <3>3
  <2>2. QED
    BY <2>1
<1>4. (n - d + W + d) % W = n
  <2>1. n \in 0 .. W - 1 /\ W \in Nat \ {0}
    BY <1>1
  <2>2. (W * 1 + n) % W = n
    BY <2>1, Quotient
  <2>3. W * 1 + n = n - d + W + d
    BY <1>1
  <2>4. QED
    BY <2>2, <2>3
<1>5. QED
  BY <1>1, <1>2, <1>3, <1>4 DEF Stream!Sub

LEMMA CoversNat ==
  ASSUME NEW S \in SUBSET Int, NEW l \in Nat, NEW a \in Int
  PROVE  Cardinality(Over(S, l, a)) \in Nat
<1>1. PICK lo \in Int : lo = a - l
  OBVIOUS
<1>2. ASSUME NEW x \in Over(S, l, a) PROVE x \in lo .. a
  <2>1. x \in Int /\ a \in x .. x + l - 1
    BY DEF Over
  <2>2. QED
    BY <1>1, <2>1
<1>3. IsFiniteSet(lo .. a)
  BY <1>1, FS_Interval, Zenon
<1>4. QED
  BY <1>2, <1>3, FS_Subset, FS_CardinalityType, Zenon

LEMMA NearInt ==
  ASSUME bytes \in Nat
  PROVE  \A a \in Stream!Near(bytes) : a \in Int /\ a % 4 = 0
<1> SUFFICES ASSUME NEW a \in Stream!Near(bytes) PROVE a \in Int /\ a % 4 = 0
  OBVIOUS
<1>1. PICK x \in Int : a = 4 * x
  BY DEF Stream!Near
<1>2. QED
  BY <1>1

(* A turn moves the pointers by what the register loses. *)
LEMMA TurnMoves ==
  ASSUME StreamRun, Stream!Turn
  PROVE  /\ Pointers' /\ Counter'
         /\ UNCHANGED <<kernel, bytes>>
         /\ front' = front + Stream!Moved
         /\ back' = IF kernel.semi THEN back - Stream!Moved ELSE back
         /\ Todo >= kernel.block
<1>1. /\ stream_pc = "loop" /\ UNCHANGED <<kernel, bytes>>
      /\ front' = front + Stream!Moved
      /\ back' = IF kernel.semi THEN back - Stream!Moved ELSE back
      /\ left' = Stream!Sub(left, kernel.block)
      /\ stream_pc' = IF Stream!Borrows(left, kernel.block) THEN "restore" ELSE "loop"
  BY DEF Stream!Turn
<1>2. /\ kernel.block \in Nat \ {0} /\ kernel.block < 2 ^ Width /\ 2 ^ Width \in Nat
      /\ bytes \in Nat /\ bytes < 2 ^ Width
  BY StreamNumbers DEF StreamRun
<1>3. /\ Stream!Moved \in Nat \ {0} /\ Stream!Moved % 4 = 0
      /\ kernel.block = IF kernel.semi THEN 2 * Stream!Moved ELSE Stream!Moved
  BY TurnSizes DEF StreamRun
<1>4. /\ front \in Nat /\ front % 4 = 0 /\ Todo \in Nat /\ Todo >= kernel.block
      /\ back = IF kernel.semi THEN bytes - front ELSE bytes
      /\ Todo = (IF kernel.semi THEN back ELSE bytes) - front
      /\ left = Todo - kernel.block
  BY <1>1 DEF StreamRun, Pointers, Counter, Todo
<1>5. Todo' = left /\ left \in Nat
  BY <1>1, <1>2, <1>3, <1>4 DEF Todo
<1>6. Pointers'
  <2>1. front' \in Nat /\ front' % 4 = 0
    <3>1. PICK m \in Nat : Stream!Moved = 4 * m
      BY <1>3
    <3>2. PICK n \in Nat : front = 4 * n
      BY <1>4
    <3>3. front' = 4 * (m + n)
      BY <1>1, <3>1, <3>2
    <3>4. QED
      BY <3>1, <3>2, <3>3
  <2>2. back' = IF kernel'.semi THEN bytes' - front' ELSE bytes'
    BY <1>1, <1>2, <1>3, <1>4
  <2>3. QED
    BY <1>5, <2>1, <2>2 DEF Pointers
<1>7. left < 2 ^ Width
  BY <1>2, <1>4
<1>8. left' = IF left < kernel.block THEN left - kernel.block + 2 ^ Width ELSE left - kernel.block
  BY <1>1, <1>2, <1>5, <1>7, Registers
<1>9. Counter'
  <2>1. CASE left < kernel.block
    <3>1. stream_pc' = "restore"
      BY <1>1, <2>1 DEF Stream!Borrows
    <3>2. QED
      BY <1>1, <1>5, <1>8, <2>1, <3>1 DEF Counter
  <2>2. CASE ~(left < kernel.block)
    <3>1. stream_pc' = "loop"
      BY <1>1, <2>2 DEF Stream!Borrows
    <3>2. QED
      BY <1>1, <1>2, <1>5, <1>8, <2>2, <3>1 DEF Counter
  <2>3. QED
    BY <2>1, <2>2
<1>10. QED
  BY <1>1, <1>4, <1>6, <1>9

(* A turn reads words not read before. *)
LEMMA TurnReads ==
  ASSUME StreamRun, Stream!Turn
  PROVE  /\ ReadSoFar'
         /\ \A a \in Stream!Near(bytes) :
              reads'[a] = reads[a] + Stream!Covers(Stream!FrontLoads, a) + Stream!Covers(Stream!BackLoads, a)
<1>1. /\ UNCHANGED <<kernel, bytes>>
      /\ front' = front + Stream!Moved
      /\ back' = IF kernel.semi THEN back - Stream!Moved ELSE back
      /\ Todo >= kernel.block
  BY TurnMoves
<1>2. /\ Stream!Moved \in Nat \ {0}
      /\ kernel.block = IF kernel.semi THEN 2 * Stream!Moved ELSE Stream!Moved
      /\ kernel.load \in Nat \ {0}
      /\ kernel.semi => Stream!Half \in Nat
      /\ ~kernel.semi => kernel.block \div kernel.load \in Nat
  BY TurnSizes DEF StreamRun
<1>3. /\ kernel \in Stream!Kernels /\ bytes \in Nat /\ front \in Nat /\ back \in Int
      /\ back = IF kernel.semi THEN bytes - front ELSE bytes
      /\ Todo = (IF kernel.semi THEN back ELSE bytes) - front
  BY StreamNumbers DEF StreamRun, Pointers, Todo
<1>4. reads' = [a \in Stream!Near(bytes) |->
                  reads[a] + Stream!Covers(Stream!FrontLoads, a) + Stream!Covers(Stream!BackLoads, a)]
  BY DEF Stream!Turn
<1>5. \A a \in Stream!Near(bytes) : a \in Int
  BY <1>3, NearInt
<1>l. PICK l \in Nat : l = kernel.load
  BY <1>2
<1>f. PICK f \in Int : f = front
  BY <1>3
<1>b. PICK b \in Int : b = back
  BY <1>3
<1>6. PICK F, R : F = Stream!FrontLoads /\ R = Stream!BackLoads
  OBVIOUS
<1>7. F \in SUBSET Int
  <2>1. CASE kernel.semi
    <3>1. PICK h \in Nat : h = Stream!Half
      BY <1>2, <2>1
    <3>2. F \subseteq {f + x * l : x \in 0 .. h - 1} \cup {f - x * 8 : x \in 2 .. 4}
      BY <1>l, <1>f, <1>6, <2>1, <3>1 DEF Stream!FrontLoads
    <3>3. (\A x \in 0 .. h - 1 : f + x * l \in Int) /\ (\A x \in 2 .. 4 : f - x * 8 \in Int)
      OBVIOUS
    <3>4. QED
      BY <3>2, <3>3
  <2>2. CASE ~kernel.semi
    <3>1. PICK n \in Nat : n = kernel.block \div kernel.load
      BY <1>2, <2>2
    <3>2. F = {f + x * l : x \in 0 .. n - 1}
      BY <1>l, <1>f, <1>6, <2>2, <3>1 DEF Stream!FrontLoads, Stream!Loads
    <3>3. \A x \in 0 .. n - 1 : f + x * l \in Int
      OBVIOUS
    <3>4. QED
      BY <3>2, <3>3
  <2>3. QED
    BY <2>1, <2>2
<1>8. R \in SUBSET Int
  <2>1. CASE kernel.semi /\ kernel \notin Stream!X64SemiMMX
    <3>1. PICK h \in Nat : h = Stream!Half
      BY <1>2, <2>1
    <3>2. PICK e \in {b, b + 4, b + l} : R = {e - x * l : x \in 1 .. h}
      BY <1>l, <1>b, <1>6, <2>1, <3>1 DEF Stream!BackLoads
    <3>3. \A x \in 1 .. h : e - x * l \in Int
      OBVIOUS
    <3>4. QED
      BY <3>2, <3>3
  <2>2. CASE kernel \in Stream!X64SemiMMX \/ ~kernel.semi
    <3>1. R = {} \/ R = {back - 8}
      BY <1>6, <2>2 DEF Stream!BackLoads
    <3>2. QED
      BY <1>3, <3>1
  <2>3. QED
    BY <2>1, <2>2
<1>9. \A a \in Stream!Near(bytes) : Stream!Covers(F, a) \in Nat /\ Stream!Covers(R, a) \in Nat
  BY <1>l, <1>5, <1>7, <1>8, CoversNat, CoversOver
<1>10. reads' \in [Stream!Near(bytes) -> Nat]
  BY <1>4, <1>6, <1>9 DEF StreamRun, ReadSoFar
<1>11. ASSUME kernel \notin Stream!Misplaced, NEW a \in Stream!Near(bytes)
       PROVE  reads'[a] = IF Done(a)' THEN 1 ELSE 0
  <2>1. /\ Stream!Covers(F, a) = IF a \in front .. front + Stream!Moved - 1 THEN 1 ELSE 0
        /\ Stream!Covers(R, a) = IF kernel.semi /\ a \in back - Stream!Moved .. back - 1 THEN 1 ELSE 0
    BY <1>3, <1>5, <1>6, <1>11, TurnCovers
  <2>2. reads[a] = IF Done(a) THEN 1 ELSE 0
    BY <1>11 DEF StreamRun, ReadSoFar
  <2>3. reads'[a] = reads[a] + Stream!Covers(F, a) + Stream!Covers(R, a)
    BY <1>4, <1>6
  <2>4. QED
    BY <1>1, <1>2, <1>3, <1>5, <2>1, <2>2, <2>3 DEF Done
<1>12. QED
  BY <1>1, <1>4, <1>10, <1>11 DEF ReadSoFar

LEMMA MisplacedSizes ==
  /\ \A q \in Stream!X64SemiMMX : q.block = 64 /\ q.load = 8 /\ q.semi
  /\ \A q \in Stream!ArmSemiAtEnd :
       q.semi /\ q \notin Stream!X64SemiMMX /\ q.load >= 4
BY DEF Stream!X64SemiMMX, Stream!ArmSemiAtEnd, Stream!Entry

(* The word a misplaced kernel misses is not read by this turn either. *)
LEMMA TurnMisses ==
  ASSUME StreamRun, Stream!Turn
  PROVE  Missed'
<1>1. /\ UNCHANGED <<kernel, bytes>>
      /\ front' = front + Stream!Moved
      /\ back' = IF kernel.semi THEN back - Stream!Moved ELSE back
      /\ Todo >= kernel.block
  BY TurnMoves
<1>2. /\ Stream!Moved \in Nat \ {0}
      /\ kernel.load \in Nat \ {0}
      /\ kernel.semi => /\ kernel.block = 2 * Stream!Moved
                        /\ Stream!Half \in Nat /\ Stream!Moved = Stream!Half * kernel.load
  BY TurnSizes DEF StreamRun
<1>3. /\ kernel \in Stream!Kernels /\ bytes \in Nat /\ bytes % 4 = 0 /\ front \in Nat /\ back \in Int
      /\ back = IF kernel.semi THEN bytes - front ELSE bytes
      /\ Todo = (IF kernel.semi THEN back ELSE bytes) - front
  BY StreamNumbers DEF StreamRun, Pointers, Todo
<1>4. \A a \in Stream!Near(bytes) :
        /\ a \in Int
        /\ reads'[a] = reads[a] + Stream!Covers(Stream!FrontLoads, a) + Stream!Covers(Stream!BackLoads, a)
  BY <1>3, NearInt, TurnReads
<1>l. PICK l \in Nat \ {0} : l = kernel.load
  BY <1>2
<1>f. PICK f \in Nat : f = front
  BY <1>3
<1>b. PICK b \in Int : b = back
  BY <1>3
<1>5. ASSUME NEW a \in Stream!Near(bytes), reads[a] = 0,
             \A x \in Stream!FrontLoads \cup Stream!BackLoads : a \notin x .. x + kernel.load - 1
      PROVE  reads'[a] = 0
  <2>1. Stream!Covers(Stream!FrontLoads, a) = 0 /\ Stream!Covers(Stream!BackLoads, a) = 0
    BY <1>5, CoversNone, CoversOver
  <2>2. QED
    BY <1>4, <1>5, <2>1
<1>6. ASSUME kernel \in Stream!X64SemiMMX
      PROVE  /\ front' = 0 \/ front' >= 32
             /\ bytes >= 64 => reads'[bytes - 12] = 0
  <2>1. kernel.block = 64 /\ kernel.load = 8 /\ kernel.semi
    BY <1>6, MisplacedSizes
  <2>2. Stream!Moved = 32 /\ Stream!Half = 4
    BY <1>2, <2>1
  <2>3. f = 0 \/ f >= 32
    BY <1>6, <1>f DEF StreamRun, Missed
  <2>4. bytes - 2 * f >= 64 /\ b = bytes - f
    BY <1>1, <1>3, <1>f, <1>b, <2>1
  <2>5. bytes - 12 \in Stream!Near(bytes)
    <3>1. PICK m \in Nat : bytes = 4 * m
      BY <1>3
    <3>2. bytes - 12 = 4 * (m - 3) /\ m - 3 \in -64 .. (bytes \div 4) + 63
      BY <2>4, <3>1
    <3>3. QED
      BY <3>2 DEF Stream!Near
  <2>6. reads[bytes - 12] = 0
    BY <1>3, <1>6, <2>4 DEF StreamRun, Missed
  <2>7. Stream!FrontLoads = {f + x * 8 : x \in 0 .. 3} \cup {f - x * 8 : x \in 2 .. 4}
    BY <1>6, <1>f, <2>1, <2>2 DEF Stream!FrontLoads
  <2>8. Stream!BackLoads = {b - 8}
    BY <1>6, <1>b, <2>1 DEF Stream!BackLoads
  <2>9. \A x \in Stream!FrontLoads \cup Stream!BackLoads : bytes - 12 \notin x .. x + kernel.load - 1
    <3>1. ASSUME NEW x \in {f + y * 8 : y \in 0 .. 3} PROVE bytes - 12 \notin x .. x + 7
      BY <1>3, <2>3, <2>4
    <3>2. ASSUME NEW x \in {f - y * 8 : y \in 2 .. 4} PROVE bytes - 12 \notin x .. x + 7
      BY <1>3, <2>3, <2>4
    <3>3. bytes - 12 \notin b - 8 .. b - 8 + 7
      BY <1>3, <2>3, <2>4
    <3>4. QED
      BY <2>1, <2>7, <2>8, <3>1, <3>2, <3>3
  <2>10. reads'[bytes - 12] = 0
    BY <1>5, <2>5, <2>6, <2>9
  <2>11. front' >= 32
    BY <1>1, <1>3, <2>2
  <2>12. QED
    BY <2>10, <2>11
<1>7. ASSUME kernel \in Stream!ArmSemiAtEnd, NEW a \in Stream!Near(bytes), a \in front' .. back' + 3
      PROVE  reads'[a] = 0
  <2>1. kernel.semi /\ kernel \notin Stream!X64SemiMMX /\ l >= 4
    BY <1>7, <1>l, MisplacedSizes
  <2>2. PICK h \in Nat : h = Stream!Half /\ Stream!Moved = h * l
    BY <1>2, <1>l, <2>1
  <2>3. a \in Int /\ a >= f + h * l /\ a <= b - h * l + 3
    BY <1>1, <1>4, <1>7, <1>f, <1>b, <2>1, <2>2
  <2>4. reads[a] = 0
    <3>1. h * l >= 0
      OBVIOUS
    <3>2. a \in front .. back + 3
      BY <1>f, <1>b, <2>3, <3>1
    <3>3. QED
      BY <1>7, <3>2 DEF StreamRun, Missed
  <2>5. Stream!FrontLoads = {f + x * l : x \in 0 .. h - 1}
    BY <1>l, <1>f, <2>1, <2>2 DEF Stream!FrontLoads
  <2>6. PICK e \in {b + 4, b + l} : Stream!BackLoads = {e - x * l : x \in 1 .. h}
    BY <1>7, <1>l, <1>b, <2>1, <2>2 DEF Stream!BackLoads
  <2>7. ASSUME NEW x \in 0 .. h - 1 PROVE a \notin f + x * l .. f + x * l + l - 1
    <3>1. (x + 1) * l <= h * l
      BY <2>7
    <3>2. QED
      BY <2>3, <3>1
  <2>8. ASSUME NEW x \in 1 .. h PROVE a \notin e - x * l .. e - x * l + l - 1
    <3>1. x * l <= h * l
      BY <2>8
    <3>2. e >= b + 4
      BY <2>1, <2>6
    <3>3. QED
      BY <2>3, <2>6, <3>1, <3>2
  <2>9. \A x \in Stream!FrontLoads \cup Stream!BackLoads : a \notin x .. x + kernel.load - 1
    <3>1. ASSUME NEW x \in Stream!FrontLoads PROVE a \notin x .. x + l - 1
      BY <2>5, <2>7, <3>1
    <3>2. ASSUME NEW x \in Stream!BackLoads PROVE a \notin x .. x + l - 1
      BY <2>6, <2>8, <3>2
    <3>3. QED
      BY <1>l, <3>1, <3>2
  <2>10. QED
    BY <1>5, <2>4, <2>9
<1>8. QED
  BY <1>1, <1>6, <1>7 DEF Missed

LEMMA StreamStep == StreamRun /\ [Stream!Next]_streamVars => StreamRun'
<1> SUFFICES ASSUME StreamRun, [Stream!Next]_streamVars PROVE StreamRun'
  OBVIOUS
<1>1. /\ kernel \in Stream!Kernels
      /\ kernel.block \in Nat \ {0} /\ kernel.block < 2 ^ Width /\ 2 ^ Width \in Nat
      /\ bytes \in Nat /\ bytes < 2 ^ Width /\ bytes % 4 = 0
      /\ Sized(kernel)
  BY StreamNumbers DEF StreamRun
<1>2. /\ front \in Nat /\ front % 4 = 0 /\ Todo \in Nat
      /\ back = IF kernel.semi THEN bytes - front ELSE bytes
      /\ Todo = (IF kernel.semi THEN back ELSE bytes) - front
  BY DEF StreamRun, Pointers, Todo
<1>3. Todo < 2 ^ Width
  BY <1>1, <1>2
(* Steps that read nothing. *)
<1>q. ASSUME UNCHANGED <<kernel, bytes, front, back, reads>>, Counter' PROVE StreamRun'
  BY <1>q DEF StreamRun, Pointers, Todo, ReadSoFar, Done, Missed
<1>t. UNCHANGED <<kernel, bytes, front, back>> => Todo' = Todo
  BY DEF Todo
<1>4. CASE Stream!Enter
  <2>1. /\ stream_pc = "enter" /\ UNCHANGED <<kernel, bytes, front, back, reads>>
        /\ left' = Stream!Sub(left, kernel.block)
        /\ stream_pc' = IF Stream!EntersLoop THEN "loop" ELSE "restore"
    BY <1>4 DEF Stream!Enter
  <2>2. left = Todo
    BY <2>1 DEF StreamRun, Counter
  <2>3. left' = IF Todo < kernel.block THEN Todo - kernel.block + 2 ^ Width ELSE Todo - kernel.block
    BY <1>1, <1>2, <1>3, <2>1, <2>2, Registers
  <2>4. stream_pc' = IF Todo < kernel.block THEN "restore" ELSE "loop"
    BY <2>1, <2>2 DEF Stream!EntersLoop, Stream!Borrows
  <2>5. Counter'
    BY <1>1, <1>2, <1>t, <2>1, <2>3, <2>4 DEF Counter
  <2>6. QED
    BY <1>q, <2>1, <2>5
<1>5. CASE Stream!Turn
  BY <1>5, TurnMoves, TurnReads, TurnMisses DEF StreamRun
<1>6. CASE Stream!Restore
  <2>1. /\ stream_pc = "restore" /\ UNCHANGED <<kernel, bytes, front, back, reads>>
        /\ left' = Stream!Rest
        /\ stream_pc' = IF Stream!Rest = 0 THEN "finish" ELSE IF kernel.tail THEN "tail" ELSE "trap"
    BY <1>6 DEF Stream!Restore
  <2>2. left = Todo - kernel.block + 2 ^ Width
    BY <2>1 DEF StreamRun, Counter
  <2>3. Stream!Rest = Todo
    BY <1>1, <1>2, <1>3, <2>2, Registers DEF Stream!Rest
  <2>4. Counter'
    BY <1>2, <1>t, <2>1, <2>3 DEF Counter
  <2>5. QED
    BY <1>q, <2>1, <2>4
<1>7. CASE Stream!Tail
  <2>1. /\ stream_pc = "tail" /\ UNCHANGED <<kernel, bytes, back>>
        /\ reads' = [reads EXCEPT ![front] = @ + 1]
        /\ front' = front + 4
        /\ left' = Stream!Sub(left, 4)
        /\ stream_pc' = IF Stream!Sub(left, 4) = 0 THEN "finish" ELSE "tail"
    BY <1>7 DEF Stream!Tail
  <2>2. kernel.tail /\ Todo > 0 /\ left = Todo
    BY <2>1 DEF StreamRun, Counter
  <2>3. kernel.semi = FALSE
    BY <1>1, <2>2, Zenon DEF Sized
  <2>4. kernel \notin Stream!Misplaced
    <3>1. \A q \in Stream!X64SemiMMX \cup Stream!ArmSemiAtEnd : q.semi
      BY MisplacedSizes
    <3>2. QED
      BY <2>3, <3>1 DEF Stream!Misplaced
  <2>5. Todo >= 4 /\ Todo = bytes - front /\ back = bytes
    <3>1. Todo = bytes - front /\ back = bytes
      BY <1>2, <2>3
    <3>2. PICK m \in Nat : bytes = 4 * m
      BY <1>1
    <3>3. PICK n \in Nat : front = 4 * n
      BY <1>2
    <3>4. QED
      BY <2>2, <3>1, <3>2, <3>3
  <2>6. left' = Todo - 4
    BY <1>1, <1>2, <1>3, <2>1, <2>2, <2>5, Registers
  <2>7. Todo' = Todo - 4
    BY <1>1, <1>2, <2>1, <2>3, <2>5 DEF Todo
  <2>8. Pointers'
    <3>1. PICK n \in Nat : front = 4 * n
      BY <1>2
    <3>2. front' = 4 * (n + 1)
      BY <2>1, <3>1
    <3>3. front' \in Nat /\ front' % 4 = 0
      BY <3>1, <3>2
    <3>4. QED
      BY <1>2, <2>1, <2>3, <2>5, <2>7, <3>3 DEF Pointers
  <2>9. Counter'
    BY <1>2, <2>1, <2>2, <2>5, <2>6, <2>7 DEF Counter
  <2>10. front \in Stream!Near(bytes)
    <3>1. PICK m \in Nat : bytes = 4 * m
      BY <1>1
    <3>2. PICK n \in Nat : front = 4 * n
      BY <1>2
    <3>3. n \in -64 .. (bytes \div 4) + 63
      BY <2>5, <3>1, <3>2
    <3>4. QED
      BY <3>2, <3>3 DEF Stream!Near
  <2>11. reads \in [Stream!Near(bytes) -> Nat]
    BY DEF StreamRun, ReadSoFar
  <2>12. ReadSoFar'
    <3>1. reads' \in [Stream!Near(bytes) -> Nat]
      BY <2>1, <2>10, <2>11
    <3>2. ASSUME NEW a \in Stream!Near(bytes) PROVE reads'[a] = IF Done(a)' THEN 1 ELSE 0
      <4>1. a \in Int /\ a % 4 = 0
        BY <1>1, NearInt
      <4>2. reads[a] = IF Done(a) THEN 1 ELSE 0
        BY <2>4 DEF StreamRun, ReadSoFar
      <4>3. Done(a) <=> a \in 0 .. front - 1
        BY <1>1, <1>2, <2>5, <4>1 DEF Done
      <4>4. Done(a)' <=> a \in 0 .. front + 3
        BY <1>1, <1>2, <2>1, <2>5, <4>1 DEF Done
      <4>5. a \in 0 .. front + 3 <=> a \in 0 .. front - 1 \/ a = front
        <5>1. PICK n \in Nat : front = 4 * n
          BY <1>2
        <5>2. PICK x \in Int : a = 4 * x
          BY <4>1
        <5>3. QED
          BY <5>1, <5>2
      <4>6. reads'[a] = IF a = front THEN reads[a] + 1 ELSE reads[a]
        BY <2>1, <2>11
      <4>7. front \notin 0 .. front - 1
        BY <1>2
      <4>8. QED
        BY <4>2, <4>3, <4>4, <4>5, <4>6, <4>7
    <3>3. QED
      BY <2>1, <3>1, <3>2 DEF ReadSoFar
  <2>13. Missed'
    BY <2>1, <2>4 DEF Missed, Stream!Misplaced
  <2>14. QED
    BY <2>1, <2>8, <2>9, <2>12, <2>13 DEF StreamRun
<1>8. CASE UNCHANGED streamVars
  <2>1. UNCHANGED <<kernel, bytes, left, front, back, stream_pc, reads>>
    BY <1>8 DEF streamVars
  <2>2. Counter'
    BY <1>t, <2>1 DEF StreamRun, Counter
  <2>3. QED
    BY <1>q, <2>1, <2>2
<1>9. CASE stream_pc \in {"finish", "trap"} /\ UNCHANGED Stream!vars
  BY <1>8, <1>9 DEF Stream!vars, streamVars
<1>10. QED
  BY <1>4, <1>5, <1>6, <1>7, <1>8, <1>9 DEF Stream!Next

(* What the run asks of the kernels follows. *)
LEMMA StreamKeeps ==
  ASSUME StreamRun
  PROVE  /\ Stream!TypeOK
         /\ kernel \notin Stream!Misplaced => Stream!InArray
         /\ stream_pc = "finish" /\ bytes > 0 => (Stream!ReadsOnce <=> kernel \notin Stream!Misplaced)
<1>1. /\ kernel \in Stream!Kernels /\ bytes \in Stream!Sizes(kernel)
      /\ kernel.block \in Nat \ {0} /\ kernel.block < 2 ^ Width /\ 2 ^ Width \in Nat
      /\ bytes \in Nat /\ bytes < 2 ^ Width /\ bytes % 4 = 0
  BY StreamNumbers DEF StreamRun
<1>2. /\ front \in Nat /\ front % 4 = 0 /\ Todo \in Nat
      /\ back = IF kernel.semi THEN bytes - front ELSE bytes
      /\ Todo = (IF kernel.semi THEN back ELSE bytes) - front
  BY DEF StreamRun, Pointers, Todo
<1>3. \A a \in Stream!Near(bytes) : a \in Int
  BY <1>1, NearInt
<1>4. front <= bytes /\ back \in 0 .. bytes /\ front <= back
  BY <1>1, <1>2
<1>5. Stream!TypeOK
  <2>1. left \in 0 .. 2 ^ Width - 1
    BY <1>1, <1>2 DEF StreamRun, Counter
  <2>2. \A a \in Stream!Near(bytes) : reads[a] \in Nat
    BY DEF StreamRun, ReadSoFar
  <2>3. stream_pc \in {"enter", "loop", "restore", "tail", "finish", "trap"}
    BY DEF StreamRun, Counter
  <2>4. QED
    BY <1>1, <1>2, <1>4, <2>1, <2>2, <2>3 DEF Stream!TypeOK
<1>6. ASSUME kernel \notin Stream!Misplaced PROVE Stream!InArray
  BY <1>1, <1>2, <1>3, <1>4, <1>6 DEF StreamRun, ReadSoFar, Done, Stream!InArray
<1>7. ASSUME stream_pc = "finish", bytes > 0
      PROVE  Stream!ReadsOnce <=> kernel \notin Stream!Misplaced
  <2>1. Todo = 0
    BY <1>7 DEF StreamRun, Counter
  <2>2. CASE kernel \notin Stream!Misplaced
    <3>1. \A a \in Stream!Near(bytes) : a \in 0 .. bytes - 1 => Done(a)
      BY <1>1, <1>2, <1>3, <2>1 DEF Done
    <3>2. QED
      BY <2>2, <3>1 DEF StreamRun, ReadSoFar, Stream!ReadsOnce
  <2>3. CASE kernel \in Stream!X64SemiMMX
    <3>1. kernel.semi
      BY <2>3, MisplacedSizes
    <3>2. bytes = 2 * front
      BY <1>1, <1>2, <2>1, <3>1
    <3>3. bytes >= 64
      BY <1>2, <1>7, <2>3, <3>2 DEF StreamRun, Missed
    <3>4. reads[bytes - 12] = 0
      BY <2>3, <3>3 DEF StreamRun, Missed
    <3>5. bytes - 12 \in Stream!Near(bytes) /\ bytes - 12 \in 0 .. bytes - 1
      <4>1. PICK m \in Nat : bytes = 4 * m
        BY <1>1
      <4>2. bytes - 12 = 4 * (m - 3) /\ m - 3 \in -64 .. (bytes \div 4) + 63
        BY <3>3, <4>1
      <4>3. QED
        BY <3>3, <4>1, <4>2 DEF Stream!Near
    <3>6. QED
      BY <1>7, <2>3, <3>4, <3>5 DEF Stream!ReadsOnce, Stream!Misplaced
  <2>4. CASE kernel \in Stream!ArmSemiAtEnd
    <3>1. kernel.semi
      BY <2>4, MisplacedSizes
    <3>2. bytes = 2 * front /\ back = front
      BY <1>1, <1>2, <2>1, <3>1
    <3>3. front \in Stream!Near(bytes) /\ front \in 0 .. bytes - 1
      <4>1. PICK n \in Nat : front = 4 * n
        BY <1>2
      <4>2. n \in -64 .. (bytes \div 4) + 63
        BY <3>2, <4>1
      <4>3. QED
        BY <1>7, <3>2, <4>1, <4>2 DEF Stream!Near
    <3>4. reads[front] = 0
      <4>1. front \in front .. back + 3
        BY <1>2, <3>2
      <4>2. QED
        BY <2>4, <3>3, <4>1 DEF StreamRun, Missed
    <3>5. QED
      BY <1>7, <2>4, <3>3, <3>4 DEF Stream!ReadsOnce, Stream!Misplaced
  <2>5. QED
    BY <2>2, <2>3, <2>4 DEF Stream!Misplaced
<1>8. QED
  BY <1>5, <1>6, <1>7


(* Every number of a power of two doubles in the next. *)
LEMMA PowerDoubles == \A n \in Nat : 2 ^ (n + 1) = 2 * 2 ^ n
<1> SUFFICES ASSUME NEW n \in Nat PROVE 2 ^ (n + 1) = 2 * 2 ^ n
  OBVIOUS
<1> DEFINE S == SUBSET (1 .. n)
           T == {X \cup {n + 1} : X \in S}
           g == [X \in S |-> X \cup {n + 1}]
<1>1. \A m \in Nat : IsFiniteSet(1 .. m) /\ Cardinality(1 .. m) = m
  <2> SUFFICES ASSUME NEW m \in Nat PROVE IsFiniteSet(1 .. m) /\ Cardinality(1 .. m) = m
    OBVIOUS
  <2>1. 1 \in Int /\ m \in Int
    OBVIOUS
  <2>2. IsFiniteSet(1 .. m) /\ Cardinality(1 .. m) = IF 1 > m THEN 0 ELSE m - 1 + 1
    BY <2>1, FS_Interval, Zenon
  <2>3. QED
    BY <2>2
<1>2. n + 1 \in Nat
  OBVIOUS
<1>3. /\ IsFiniteSet(S) /\ Cardinality(S) = 2 ^ n
      /\ IsFiniteSet(SUBSET (1 .. n + 1)) /\ Cardinality(SUBSET (1 .. n + 1)) = 2 ^ (n + 1)
  BY <1>1, <1>2, FS_SUBSET, Zenon
<1>4. g \in Bijection(S, T)
  <2>1. n + 1 \notin 1 .. n
    OBVIOUS
  <2>2. \A X, Y \in S : X \cup {n + 1} = Y \cup {n + 1} => X = Y
    BY <2>1
  <2>3. g \in [S -> T] /\ (\A y \in T : \E X \in S : g[X] = y)
    OBVIOUS
  <2>4. \A X, Y \in S : g[X] = g[Y] => X = Y
    BY <2>2
  <2>5. QED
    <3> HIDE DEF g, S, T
    <3> QED
      BY <2>3, <2>4, Fun_IsBij
<1>5. ExistsBijection(S, T)
  BY <1>4, Zenon DEF ExistsBijection
<1>6. IsFiniteSet(T) /\ Cardinality(T) = 2 ^ n
  BY <1>3, <1>5, FS_Bijection, Zenon
<1>7. S \cup T = SUBSET (1 .. n + 1)
  <2>1. 1 .. n + 1 = (1 .. n) \cup {n + 1}
    OBVIOUS
  <2>2. ASSUME NEW X \in SUBSET (1 .. n + 1) PROVE X \in S \cup T
    <3>1. CASE n + 1 \in X
      <4>1. X \ {n + 1} \in S
        BY <2>1, <2>2
      <4>2. X = (X \ {n + 1}) \cup {n + 1}
        BY <3>1
      <4>3. QED
        BY <4>1, <4>2
    <3>2. CASE n + 1 \notin X
      BY <2>1, <2>2, <3>2
    <3>3. QED
      BY <3>1, <3>2
  <2>3. S \cup T \subseteq SUBSET (1 .. n + 1)
    BY <2>1
  <2>4. QED
    BY <2>2, <2>3
<1>8. S \cap T = {}
  BY DEF S, T
<1>9. Cardinality(S \cap T) = 0
  BY <1>8, FS_EmptySet, Zenon
<1>10. Cardinality(S \cup T) = 2 ^ n + 2 ^ n - 0
  <2> HIDE DEF S, T
  <2> QED
    BY <1>3, <1>6, <1>9, FS_Union, Zenon
<1>11. PICK m \in Nat : m = 2 ^ n
  BY PowerOfTwo
<1>12. 2 ^ (n + 1) = 2 ^ n + 2 ^ n - 0
  BY <1>3, <1>7, <1>10, Zenon
<1>13. QED
  BY <1>11, <1>12

-----------------------------------------------------------------------------
(* GeneratorPeriod, for every copy of the table and every row: what it     *)
(* computes are words of the size.                                         *)

LEMMA AllShifts ==
  ASSUME NEW size \in 4 .. 30
  PROVE  /\ ClassShifts(size) \subseteq Nat \X Nat \X Nat /\ ClassShifts(size) # {}
         /\ OpenCLShifts(size) \subseteq Nat \X Nat \X Nat
         /\ X64Macro(size) \in Nat \X Nat \X Nat /\ ArmMacro(size) \in Nat \X Nat \X Nat
<1>1. TableRow(size) \in Nat \X Nat \X Nat /\ TableRow(16) \in Nat \X Nat \X Nat
  <2>1. 16 \in 4 .. 30
    OBVIOUS
  <2>2. QED
    BY <2>1, RowShifts
<1>2. {<<1, 6, any>> : any \in 0 .. 31} \subseteq Nat \X Nat \X Nat
  OBVIOUS
<1>3. <<1, 6, 0>> \in {<<1, 6, any>> : any \in 0 .. 31}
  OBVIOUS
<1>4. ClassShifts(size) \subseteq Nat \X Nat \X Nat
  BY <1>1, <1>2 DEF ClassShifts
<1>5. ClassShifts(size) # {}
  BY <1>3 DEF ClassShifts
<1>6. OpenCLShifts(size) \subseteq Nat \X Nat \X Nat
  BY <1>1 DEF OpenCLShifts
<1>7. X64Macro(size) \in Nat \X Nat \X Nat /\ ArmMacro(size) \in Nat \X Nat \X Nat
  BY <1>1 DEF X64Macro, ArmMacro
<1>8. QED
  BY <1>4, <1>5, <1>6, <1>7

PeriodRun ==
  /\ <<copy, bits>> \in Cases
  /\ k \in 0 .. bits
  /\ power \in [0 .. bits - 1 -> Word(bits)]
  /\ DOMAIN orbit = Period!Divisors(2 ^ bits - 1)
  /\ orbit \in [DOMAIN orbit -> Word(bits)]

LEMMA CaseBits ==
  ASSUME <<copy, bits>> \in Cases
  PROVE  copy \in Period!Copy /\ bits \in 4 .. 30
BY PeriodAssumption DEF Period!Parameters

(* 1 divides every number. *)
LEMMA PeriodKeeps == PeriodRun => Period!TypeOK
<1> SUFFICES ASSUME PeriodRun PROVE Period!TypeOK
  OBVIOUS
<1>1. bits \in 4 .. 30
  BY CaseBits DEF PeriodRun
<1>2. PICK n \in Nat : n = 2 ^ bits - 1
  BY <1>1, PowerOfTwo
<1>3. n \in Period!Divisors(n)
  <2> DEFINE small == {d \in 1 .. 2 ^ 15 : n % d = 0}
  <2>1. 2 ^ 15 \in Nat \ {0}
    <3>1. 15 \in Nat
      OBVIOUS
    <3>2. QED
      BY <3>1, PowerOfTwo
  <2>2. n % 1 = 0 /\ n \div 1 = n
    OBVIOUS
  <2>3. 1 \in small
    BY <2>1, <2>2
  <2>4. n \in {n \div d : d \in small}
    BY <2>2, <2>3
  <2>5. QED
    BY <2>4 DEF Period!Divisors
<1>4. 2 ^ bits - 1 \in DOMAIN orbit
  BY <1>2, <1>3 DEF PeriodRun
<1>5. QED
  BY <1>4 DEF PeriodRun, Period!TypeOK, Period!Word, Word

LEMMA PeriodInit == Period!Init => PeriodRun
<1> SUFFICES ASSUME Period!Init PROVE PeriodRun
  OBVIOUS
<1>1. /\ <<copy, bits>> \in Cases /\ shift \in Period!Shifts(copy, bits) /\ k = 0
      /\ power = [x \in 0 .. bits - 1 |-> Period!Draw(shift, bits, {x})]
      /\ orbit = [d \in Period!Divisors(2 ^ bits - 1) |-> Period!One]
  <2>1. PICK c \in Cases : copy = c[1] /\ bits = c[2]
    BY DEF Period!Init
  <2>2. c = <<copy, bits>>
    BY <2>1, PeriodAssumption DEF Period!Parameters
  <2>3. QED
    BY <2>1, <2>2 DEF Period!Init
<1>2. copy \in Period!Copy /\ bits \in 4 .. 30
  BY <1>1, CaseBits
<1>3. shift \in Nat \X Nat \X Nat
  <2>1. \/ shift \in ClassShifts(bits) \/ shift \in OpenCLShifts(bits)
        \/ shift = X64Macro(bits) \/ shift = ArmMacro(bits)
    BY <1>1, <1>2
    DEF Period!Copy, Period!Shifts, Period!ClassShifts, Period!CudaShifts, Period!OpenCLShifts,
        Period!X64Macro, Period!ArmMacro, Period!TableRow,
        ClassShifts, OpenCLShifts, X64Macro, ArmMacro, TableRow
  <2>2. QED
    BY <1>2, <2>1, AllShifts
<1>4. ASSUME NEW x \in 0 .. bits - 1 PROVE Period!Draw(shift, bits, {x}) \in Word(bits)
  <2>1. bits \in Nat /\ {x} \in Word(bits)
    BY <1>2 DEF Word
  <2>2. Period!Draw(shift, bits, {x}) = Draw(shift, bits, {x})
    BY Zenon
    DEF Period!Draw, Draw, Period!Xor, Xor, Period!ShiftRight, ShiftRight, Period!ShiftLeft, ShiftLeft
  <2>3. QED
    BY <1>3, <2>1, <2>2, DrawWord
<1>5. power \in [0 .. bits - 1 -> Word(bits)]
  BY <1>1, <1>4
<1>6. Period!One \in Word(bits)
  BY <1>2 DEF Period!One, Word
<1>7. QED
  BY <1>1, <1>2, <1>5, <1>6 DEF PeriodRun

LEMMA PeriodStep == PeriodRun /\ [Period!Next]_periodVars => PeriodRun'
<1> SUFFICES ASSUME PeriodRun, [Period!Next]_periodVars PROVE PeriodRun'
  OBVIOUS
<1>1. bits \in 4 .. 30
  BY CaseBits DEF PeriodRun
<1>2. \A map, w : Period!Apply(map, w) \in Word(bits)
  BY DEF Period!Apply, Word
<1>3. CASE Period!Square
  <2>1. /\ k < bits /\ k' = k + 1 /\ UNCHANGED <<copy, bits>>
        /\ power' = [x \in DOMAIN power |-> Period!Apply(power, power[x])]
        /\ orbit' = [d \in DOMAIN orbit |->
                       IF (d \div 2 ^ k) % 2 = 1 THEN Period!Apply(power, orbit[d]) ELSE orbit[d]]
    BY <1>3 DEF Period!Square
  <2>2. power' \in [0 .. bits - 1 -> Word(bits)]
    BY <1>2, <2>1 DEF PeriodRun
  <2>3. DOMAIN orbit' = DOMAIN orbit /\ orbit' \in [DOMAIN orbit -> Word(bits)]
    BY <1>2, <2>1 DEF PeriodRun
  <2>4. k' \in 0 .. bits
    <3>1. k \in 0 .. bits
      BY DEF PeriodRun
    <3>2. QED
      BY <1>1, <2>1, <3>1
  <2>5. QED
    BY <2>1, <2>2, <2>3, <2>4 DEF PeriodRun
<1>4. CASE UNCHANGED periodVars \/ (k = bits /\ UNCHANGED Period!vars)
  BY <1>4 DEF PeriodRun, periodVars, Period!vars
<1>5. QED
  BY <1>3, <1>4 DEF Period!Next

-----------------------------------------------------------------------------
(* PointerChase, for arrays of any size.                                   *)

LEMMA ChaseWords ==
  /\ \A size : Chase!Word(size) = Word(size)
  /\ \A amounts, size, w : Chase!Draw(amounts, size, w) = Draw(amounts, size, w)
  /\ \A size : Chase!ClassShifts(size) = ClassShifts(size)
  /\ Chase!One = One
<1>1. \A size : Chase!Word(size) = Word(size)
  BY DEF Chase!Word, Word
<1>2. ASSUME NEW amounts, NEW size, NEW w PROVE Chase!Draw(amounts, size, w) = Draw(amounts, size, w)
  BY Zenon
  DEF Chase!Draw, Draw, Chase!Xor, Xor, Chase!ShiftRight, ShiftRight, Chase!ShiftLeft, ShiftLeft
<1>3. \A size : Chase!ClassShifts(size) = ClassShifts(size)
  <2>1. \A size : Chase!TableRow(size) = TableRow(size)
    BY DEF Chase!TableRow, TableRow
  <2>2. QED
    BY <2>1 DEF Chase!ClassShifts, ClassShifts
<1>4. Chase!One = One
  BY DEF Chase!One, One
<1>5. QED
  BY <1>1, <1>2, <1>3, <1>4

(* The loop of the chase is entered with iterations left. *)
ChaseRun == Chase!TypeOK /\ (chase_pc = "chase" => i < Chase!array_length)

LEMMA ChaseNumbers ==
  ASSUME chase_bits \in ChaseSizes
  PROVE  /\ chase_bits \in 4 .. 30
         /\ Chase!array_length = 2 ^ chase_bits /\ Chase!array_length \in Nat \ {0}
         /\ Chase!Shift \in ClassShifts(chase_bits)
         /\ Chase!Shift \in Nat \X Nat \X Nat
<1>1. chase_bits \in 4 .. 30
  BY ChaseAssumption DEF Chase!Parameters
<1>2. Chase!array_length = 2 ^ chase_bits /\ Chase!array_length \in Nat \ {0}
  BY <1>1, PowerOfTwo DEF Chase!array_length
<1>3. ClassShifts(chase_bits) # {} /\ ClassShifts(chase_bits) \subseteq Nat \X Nat \X Nat
  BY <1>1, AllShifts
<1>4. Chase!Shift \in ClassShifts(chase_bits)
  BY <1>3, ChaseWords DEF Chase!Shift
<1>5. QED
  BY <1>1, <1>2, <1>3, <1>4

LEMMA ChaseInit == Chase!Init => ChaseRun
<1> SUFFICES ASSUME Chase!Init PROVE ChaseRun
  OBVIOUS
<1>1. chase_bits \in ChaseSizes /\ chase_pc = "fill" /\ i = 0
  BY DEF Chase!Init
<1>2. chase_bits \in 4 .. 30 /\ Chase!array_length \in Nat \ {0}
  BY <1>1, ChaseNumbers
<1>3. One \in Word(chase_bits) /\ {} \in Word(chase_bits)
  BY <1>2 DEF One, Word
<1>4. chase_state = One /\ prevIndex = One
  BY ChaseWords DEF Chase!Init
<1>5. data \in [Word(chase_bits) -> Word(chase_bits)]
  BY <1>3, ChaseWords DEF Chase!Init
<1>6. /\ initialVector \in [Chase!Chaser -> Word(chase_bits)]
      /\ at \in [Chase!Chaser -> Word(chase_bits)]
  BY <1>3 DEF Chase!Init
<1>7. QED
  BY <1>1, <1>2, <1>3, <1>4, <1>5, <1>6, ChaseWords DEF ChaseRun, Chase!TypeOK

LEMMA ChaseStep == ChaseRun /\ [Chase!Next]_chaseVars => ChaseRun'
<1> SUFFICES ASSUME ChaseRun, [Chase!Next]_chaseVars PROVE ChaseRun'
  OBVIOUS
<1>1. /\ chase_bits \in ChaseSizes /\ chase_bits \in 4 .. 30
      /\ Chase!array_length \in Nat \ {0} /\ Chase!Shift \in Nat \X Nat \X Nat
  BY ChaseNumbers DEF ChaseRun, Chase!TypeOK
<1>2. /\ chase_pc \in {"fill", "chase", "done"}
      /\ i \in 0 .. Chase!array_length
      /\ chase_state \in Word(chase_bits) /\ prevIndex \in Word(chase_bits)
      /\ data \in [Word(chase_bits) -> Word(chase_bits)]
      /\ initialVector \in [Chase!Chaser -> Word(chase_bits)]
      /\ at \in [Chase!Chaser -> Word(chase_bits)]
  BY ChaseWords DEF ChaseRun, Chase!TypeOK
<1>3. UNCHANGED chase_bits => Chase!array_length' = Chase!array_length
  BY DEF Chase!array_length
<1>4. CASE Chase!Fill
  <2>1. /\ chase_pc = "fill" /\ i < Chase!array_length /\ i' = i + 1
        /\ chase_state' = Draw(Chase!Shift, chase_bits, chase_state)
        /\ data' = [data EXCEPT ![prevIndex] = chase_state']
        /\ prevIndex' = chase_state'
        /\ UNCHANGED <<chase_bits, chase_pc, initialVector, at>>
    BY <1>4, ChaseWords DEF Chase!Fill, Chase!DrawsLeft
  <2>2. chase_state' \in Word(chase_bits)
    <3>1. chase_bits \in Nat
      BY <1>1
    <3>2. Draw(Chase!Shift, chase_bits, chase_state) \in Word(chase_bits)
      BY <1>1, <1>2, <3>1, DrawWord
    <3>3. QED
      BY <2>1, <3>2
  <2>3. data' \in [Word(chase_bits) -> Word(chase_bits)]
    BY <1>2, <2>1, <2>2
  <2>4. i' \in 0 .. Chase!array_length
    BY <1>1, <1>2, <2>1
  <2>5. QED
    BY <1>1, <1>2, <1>3, <2>1, <2>2, <2>3, <2>4, ChaseWords DEF ChaseRun, Chase!TypeOK
<1>5. CASE Chase!Place
  <2>1. /\ chase_pc' = "chase" /\ i' = 0
        /\ initialVector' = [c \in Chase!Chaser |-> Chase!Index((Chase!array_length \div 12) * c + 1)]
        /\ at' = initialVector'
        /\ UNCHANGED <<chase_bits, chase_state, prevIndex, data>>
    BY <1>5 DEF Chase!Place
  <2>2. \A n : Chase!Index(n) \in Word(chase_bits)
    BY DEF Chase!Index, Word
  <2>3. initialVector' \in [Chase!Chaser -> Word(chase_bits)]
    BY <2>1, <2>2
  <2>4. QED
    BY <1>1, <1>2, <1>3, <2>1, <2>3, ChaseWords DEF ChaseRun, Chase!TypeOK
<1>6. CASE Chase!Chase
  <2>1. /\ chase_pc = "chase" /\ i' = i + 1
        /\ at' = [c \in Chase!Chaser |-> data[at[c]]]
        /\ chase_pc' = IF i' = Chase!array_length THEN "done" ELSE "chase"
        /\ UNCHANGED <<chase_bits, chase_state, prevIndex, data, initialVector>>
    BY <1>6 DEF Chase!Chase
  <2>2. i < Chase!array_length
    BY <2>1 DEF ChaseRun
  <2>3. at' \in [Chase!Chaser -> Word(chase_bits)]
    BY <1>2, <2>1
  <2>4. i' \in 0 .. Chase!array_length /\ (chase_pc' = "chase" => i' < Chase!array_length)
    BY <1>1, <1>2, <2>1, <2>2
  <2>5. QED
    BY <1>1, <1>2, <1>3, <2>1, <2>3, <2>4, ChaseWords DEF ChaseRun, Chase!TypeOK
<1>7. CASE UNCHANGED chaseVars \/ (chase_pc = "done" /\ UNCHANGED Chase!vars)
  <2>1. UNCHANGED <<chase_bits, chase_pc, i, chase_state, prevIndex, data, initialVector, at>>
    BY <1>7 DEF chaseVars, Chase!vars
  <2>2. QED
    BY <1>2, <1>3, <2>1 DEF ChaseRun, Chase!TypeOK
<1>8. QED
  BY <1>4, <1>5, <1>6, <1>7 DEF Chase!Next

-----------------------------------------------------------------------------
(* The kernels as main.cpp runs them.                                      *)

CpuInv ==
  /\ bench \in {"random", "chase", "stream", "generator"}
  /\ CountInv
  /\ bench = "chase" => ChaseRun
  /\ bench = "stream" => StreamRun
  /\ bench = "generator" => PeriodRun

LEMMA RandomInit == Init => CountInv
BY TypeInit, TrailInit, CountInit DEF CountInv

LEMMA RandomStep == CountInv /\ [Next]_vars => CountInv'
BY TypeStep, TrailStep, CourseStep, TallyStep, MonitorStep DEF CountInv

LEMMA CpuInvInit == CpuInit => CpuInv
<1> SUFFICES ASSUME CpuInit PROVE CpuInv
  OBVIOUS
<1>1. Init
  BY DEF CpuInit, RandomOff
<1>2. /\ bench \in {"random", "chase", "stream", "generator"}
      /\ bench = "chase" => Chase!Init
      /\ bench = "stream" => Stream!Init
      /\ bench = "generator" => Period!Init
  BY DEF CpuInit
<1>3. QED
  BY <1>1, <1>2, RandomInit, ChaseInit, StreamInit, PeriodInit DEF CpuInv

(* A step is a step of the kernel that runs.                               *)
LEMMA OneRuns ==
  ASSUME [CpuNext]_cpuVars
  PROVE  /\ UNCHANGED bench
         /\ [Next]_vars
         /\ bench = "chase" => [Chase!Next]_chaseVars
         /\ bench = "stream" => [Stream!Next]_streamVars
         /\ bench = "generator" => [Period!Next]_periodVars
<1>1. CASE RunRandom
  <2>1. bench = "random" /\ Next /\ UNCHANGED bench
    BY <1>1 DEF RunRandom
  <2>2. QED
    BY <2>1
<1>2. CASE RunChase
  <2>1. bench = "chase" /\ Chase!Next /\ UNCHANGED bench /\ UNCHANGED vars
    BY <1>2 DEF RunChase
  <2>2. QED
    BY <2>1
<1>3. CASE RunStream
  <2>1. bench = "stream" /\ Stream!Next /\ UNCHANGED bench /\ UNCHANGED vars
    BY <1>3 DEF RunStream
  <2>2. QED
    BY <2>1
<1>4. CASE RunPeriod
  <2>1. bench = "generator" /\ Period!Next /\ UNCHANGED bench /\ UNCHANGED vars
    BY <1>4 DEF RunPeriod
  <2>2. QED
    BY <2>1
<1>5. CASE UNCHANGED cpuVars
  <2>1. UNCHANGED bench /\ UNCHANGED vars /\ UNCHANGED chaseVars /\ UNCHANGED streamVars /\ UNCHANGED periodVars
    BY <1>5 DEF cpuVars
  <2>2. QED
    BY <2>1
<1>6. QED
  BY <1>1, <1>2, <1>3, <1>4, <1>5 DEF CpuNext

LEMMA CpuInvStep == CpuInv /\ [CpuNext]_cpuVars => CpuInv'
<1> SUFFICES ASSUME CpuInv, [CpuNext]_cpuVars PROVE CpuInv'
  OBVIOUS
<1>1. /\ UNCHANGED bench
      /\ [Next]_vars
      /\ bench = "chase" => [Chase!Next]_chaseVars
      /\ bench = "stream" => [Stream!Next]_streamVars
      /\ bench = "generator" => [Period!Next]_periodVars
  BY OneRuns
<1>2. CountInv'
  BY <1>1, RandomStep DEF CpuInv
<1>3. bench = "chase" => ChaseRun'
  BY <1>1, ChaseStep DEF CpuInv
<1>4. bench = "stream" => StreamRun'
  BY <1>1, StreamStep DEF CpuInv
<1>5. bench = "generator" => PeriodRun'
  BY <1>1, PeriodStep DEF CpuInv
<1>6. QED
  BY <1>1, <1>2, <1>3, <1>4, <1>5 DEF CpuInv

(* Whichever kernel of part B an execution runs, the invariant of that     *)
(* kernel holds in every state, and the variables of the others stay off.  *)
THEOREM CpuInvHolds == CpuSpec => []CpuInv
BY CpuInvInit, CpuInvStep, PTL DEF CpuSpec

(* The random kernels of a build of the benchmark do what they do alone.   *)
LEMMA CpuRunsRandom == CpuSpec => Spec
<1>1. CpuInit => Init
  BY DEF CpuInit, RandomOff
<1>2. [CpuNext]_cpuVars => [Next]_vars
  BY OneRuns
<1>3. QED
  BY <1>1, <1>2, PTL DEF CpuSpec, Spec

(* Every variable keeps its type, whichever kernel runs.                   *)
THEOREM CpuTypesHold == CpuSpec => []CpuTypeOK
<1>1. CpuInv => CpuTypeOK
  BY StreamKeeps, PeriodKeeps DEF CpuInv, CountInv, ChaseRun, CpuTypeOK
<1>2. QED
  BY <1>1, CpuInvHolds, PTL

(* Whatever the size of the array, no kernel but the ARM functions of up   *)
(* to 2^15 bytes and the four that stream from wrong addresses leaves it.  *)
THEOREM InsideArraysHold == CpuSpec => []InsideArrays
<1>1. CpuInv => InsideArrays
  <2> SUFFICES ASSUME CpuInv PROVE InsideArrays
    OBVIOUS
  <2>1. (fn[1] \in {"LDR", "LLSC"} /\ fn[2] <= 15) \/ InsideArray
    <3>1. SUFFICES ASSUME ~(fn[1] \in {"LDR", "LLSC"} /\ fn[2] <= 15) PROVE InsideArray
      OBVIOUS
    <3>2. fn \in Functions /\ touched \subseteq Word(Bits(fn))
      BY DEF CpuInv, CountInv, TypeOK
    <3>3. fn[2] \in Nat /\ StrideBits(fn) \in Nat
      BY <3>2, FunctionsAssumption DEF StrideBits
    <3>4. Bits(fn) = LineBits(fn)
      BY <3>1, <3>3 DEF Bits, LineBits
    <3>5. QED
      BY <3>2, <3>4 DEF InsideArray
  <2>2. bench = "stream" /\ kernel \notin Stream!Misplaced => Stream!InArray
    BY StreamKeeps DEF CpuInv
  <2>3. QED
    BY <2>1, <2>2 DEF InsideArrays
<1>2. QED
  BY <1>1, CpuInvHolds, PTL

(* What FullPeriods asks of a generator: from the seed it comes to every   *)
(* word but 0.                                                             *)
Whole(amounts, size) ==
  \A S \in SUBSET Word(size) :
    One \in S /\ (\A u \in S : Draw(amounts, size, u) \in S) => Word(size) \ {{}} \subseteq S

(* If the generators of the functions called have full periods, every call *)
(* that returns has been at every line but line 0; the kernels that stream *)
(* read every word once, except the four, which do not.                    *)
THEOREM WholeArrayHolds ==
  ASSUME \A f \in Functions : Whole(Shift(f), Bits(f))
  PROVE  CpuSpec => []WholeArray
<1>1. CpuInv => WholeArray
  <2> SUFFICES ASSUME CpuInv PROVE WholeArray
    OBVIOUS
  <2>1. ASSUME pc = "return" PROVE Word(LineBits(fn)) \ {{}} \subseteq touched
    <3>1. fn \in Functions /\ touched \in SUBSET Word(Bits(fn))
      BY DEF CpuInv, CountInv, TypeOK
    <3>2. One \in touched /\ Closed(touched)
      BY <2>1 DEF CpuInv, CountInv, Course
    <3>3. \A u \in touched : Draw(Shift(fn), Bits(fn), u) \in touched
      BY <3>2 DEF Closed, Followed, next
    <3>4. Word(Bits(fn)) \ {{}} \subseteq touched
      BY <3>1, <3>2, <3>3 DEF Whole
    <3>5. Word(LineBits(fn)) \subseteq Word(Bits(fn))
      <4>1. LineBits(fn) \in Int /\ (Bits(fn) = LineBits(fn) \/ Bits(fn) = LineBits(fn) + 1)
        BY <3>1, FunctionsAssumption DEF Bits, LineBits, StrideBits
      <4>2. QED
        BY <4>1 DEF Word
    <3>6. QED
      BY <3>4, <3>5
  <2>2. bench = "stream" /\ stream_pc = "finish" /\ bytes > 0 =>
          (Stream!ReadsOnce <=> kernel \notin Stream!Misplaced)
    BY StreamKeeps DEF CpuInv
  <2>3. QED
    BY <2>1, <2>2 DEF WholeArray, Traverses
<1>2. QED
  BY <1>1, CpuInvHolds, PTL

-----------------------------------------------------------------------------
(* The cycle of the pointer chase.  A walk makes one draw after the other; *)
(* if the generator comes from the seed to every word but 0, any walk is   *)
(* back at its first word after as many draws as there are such words, and *)
(* not before.                                                             *)

Nonzero(size) == Word(size) \ {{}}

Walk(amounts, size, h, n) ==
  /\ h \in [0 .. n -> Nonzero(size)]
  /\ \A l \in 1 .. n : h[l] = Draw(amounts, size, h[l - 1])

LEMMA NonzeroFacts ==
  ASSUME NEW size \in Nat \ {0}, NEW amounts \in (Nat \ {0}) \X (Nat \ {0}) \X (Nat \ {0})
  PROVE  /\ One \in Nonzero(size)
         /\ \A w \in Nonzero(size) : Draw(amounts, size, w) \in Nonzero(size)
         /\ \A v, w \in Nonzero(size) : Draw(amounts, size, v) = Draw(amounts, size, w) => v = w
         /\ IsFiniteSet(Nonzero(size)) /\ Cardinality(Nonzero(size)) = 2 ^ size - 1
<1>1. amounts \in Nat \X Nat \X Nat /\ size \in Nat
  OBVIOUS
<1>2. One \in Nonzero(size)
  BY OneWord DEF Nonzero, One
<1>3. ASSUME NEW w \in Nonzero(size) PROVE Draw(amounts, size, w) \in Nonzero(size)
  <2>1. w \in Word(size) /\ w # {}
    BY DEF Nonzero
  <2>2. Draw(amounts, size, w) \in Word(size) /\ Draw(amounts, size, w) # {}
    BY <1>1, <2>1, DrawWord, DrawNonZero
  <2>3. QED
    BY <2>2 DEF Nonzero
<1>4. ASSUME NEW v \in Nonzero(size), NEW w \in Nonzero(size),
             Draw(amounts, size, v) = Draw(amounts, size, w)
      PROVE  v = w
  <2>1. v \in Word(size) /\ w \in Word(size)
    BY DEF Nonzero
  <2>2. QED
    BY <1>1, <1>4, <2>1, DrawInjective
<1>5. IsFiniteSet(Word(size)) /\ Cardinality(Word(size)) = 2 ^ size
  <2>1. 0 \in Int /\ size - 1 \in Int
    OBVIOUS
  <2>2. IsFiniteSet(0 .. size - 1) /\ Cardinality(0 .. size - 1) = IF 0 > size - 1 THEN 0 ELSE size - 1 - 0 + 1
    BY <2>1, FS_Interval, Zenon
  <2>3. IsFiniteSet(0 .. size - 1) /\ Cardinality(0 .. size - 1) = size
    BY <2>2
  <2>4. QED
    BY <2>3, FS_SUBSET, Zenon DEF Word
<1>6. {} \in Word(size)
  BY DEF Word
<1>7. IsFiniteSet(Nonzero(size)) /\ Cardinality(Nonzero(size)) = 2 ^ size - 1
  BY <1>5, <1>6, FS_RemoveElement, Zenon DEF Nonzero
<1>8. QED
  BY <1>2, <1>3, <1>4, <1>7

(* Two walks that meet have met ever since the later one to start did.     *)
LEMMA WalksMeet ==
  ASSUME NEW size \in Nat \ {0}, NEW amounts \in (Nat \ {0}) \X (Nat \ {0}) \X (Nat \ {0}),
         NEW n \in Nat, NEW m \in Nat, NEW f, NEW h,
         Walk(amounts, size, f, n), Walk(amounts, size, h, m),
         NEW a \in 0 .. n, NEW b \in 0 .. m, a <= b, f[a] = h[b]
  PROVE  f[0] = h[b - a]
<1> DEFINE Met == {e \in 0 .. a : f[e] = h[b - a + e]}
<1>1. a \in Met
  OBVIOUS
<1>2. Met \subseteq Nat
  OBVIOUS
<1>3. PICK e \in Met : \A x \in Met : e <= x
  BY <1>1, <1>2, Lowest
<1>4. e \in 0 .. a /\ f[e] = h[b - a + e]
  BY <1>3
<1>5. CASE e = 0
  BY <1>4, <1>5
<1>6. CASE e > 0
  <2>1. e \in 1 .. n /\ b - a + e \in 1 .. m /\ e - 1 \in 0 .. n /\ b - a + e - 1 \in 0 .. m /\ e - 1 \in 0 .. a
    BY <1>4, <1>6
  <2>2. /\ f[e] = Draw(amounts, size, f[e - 1])
        /\ h[b - a + e] = Draw(amounts, size, h[b - a + e - 1])
        /\ f[e - 1] \in Nonzero(size) /\ h[b - a + e - 1] \in Nonzero(size)
    BY <2>1 DEF Walk
  <2>3. f[e - 1] = h[b - a + e - 1]
    BY <1>4, <2>2, NonzeroFacts
  <2>4. b - a + (e - 1) = b - a + e - 1
    BY <1>4
  <2>5. e - 1 \in Met
    BY <2>1, <2>3, <2>4
  <2>6. QED
    BY <1>3, <1>4, <2>5
<1>7. QED
  BY <1>4, <1>5, <1>6

(* A walk that is back where it started has been everywhere. *)
LEMMA NoEarlyReturn ==
  ASSUME NEW size \in Nat \ {0}, NEW amounts \in (Nat \ {0}) \X (Nat \ {0}) \X (Nat \ {0}),
         Whole(amounts, size),
         NEW n \in Nat, NEW h, Walk(amounts, size, h, n), NEW j \in 1 .. n, h[j] = h[0]
  PROVE  j >= 2 ^ size - 1 /\ Nonzero(size) \subseteq {h[m] : m \in 0 .. j - 1}
<1> DEFINE D == Nonzero(size)
           S == {h[m] : m \in 0 .. j - 1}
           step(u) == Draw(amounts, size, u)
<1>1. /\ One \in D /\ (\A w \in D : step(w) \in D)
      /\ \A v, w \in D : step(v) = step(w) => v = w
      /\ IsFiniteSet(D) /\ Cardinality(D) = 2 ^ size - 1
  BY NonzeroFacts
<1>2. /\ \A m \in 0 .. j - 1 : m \in 0 .. n /\ h[m] \in D /\ h[m + 1] = step(h[m])
      /\ h[0] \in S
  <2>1. ASSUME NEW m \in 0 .. j - 1 PROVE m \in 0 .. n /\ h[m] \in D /\ h[m + 1] = step(h[m])
    <3>1. m \in 0 .. n /\ m + 1 \in 1 .. n /\ (m + 1) - 1 = m
      OBVIOUS
    <3>2. QED
      BY <3>1 DEF Walk
  <2>2. QED
    BY <2>1
<1>3. S \in SUBSET D
  BY <1>2
<1>4. \A u \in S : step(u) \in S
  <2>1. ASSUME NEW m \in 0 .. j - 1 PROVE step(h[m]) \in S
    <3>1. CASE m + 1 = j
      <4>1. step(h[m]) = h[0]
        BY <1>2, <3>1
      <4>2. QED
        BY <1>2, <4>1
    <3>2. CASE m + 1 # j
      <4>1. m + 1 \in 0 .. j - 1
        BY <3>2
      <4>2. QED
        BY <1>2, <4>1
    <3>3. QED
      BY <3>1, <3>2
  <2>2. QED
    BY <2>1
<1>5. ASSUME NEW u \in D, step(u) \in S PROVE u \in S
  <2>1. PICK m \in 0 .. j - 1 : step(u) = h[m]
    BY <1>5
  <2>2. PICK e \in 0 .. j - 1 : step(h[e]) = h[m]
    <3>1. CASE m = 0
      <4>1. j - 1 \in 0 .. j - 1 /\ (j - 1) + 1 = j
        OBVIOUS
      <4>2. step(h[j - 1]) = h[m]
        BY <1>2, <3>1, <4>1
      <4>3. QED
        BY <4>1, <4>2
    <3>2. CASE m # 0
      <4>1. m - 1 \in 0 .. j - 1 /\ (m - 1) + 1 = m
        BY <3>2
      <4>2. step(h[m - 1]) = h[m]
        BY <1>2, <4>1
      <4>3. QED
        BY <4>1, <4>2
    <3>3. QED
      BY <3>1, <3>2
  <2>3. u = h[e]
    <3>1. h[e] \in D
      BY <1>2
    <3>2. QED
      BY <1>1, <1>5, <2>1, <2>2, <3>1
  <2>4. QED
    BY <2>3
<1>6. One \in S
  <2> SUFFICES ASSUME One \notin S PROVE FALSE
    OBVIOUS
  <2> HIDE DEF S, step
  <2>1. \A u \in D \ S : step(u) \in D \ S
    BY <1>1, <1>5
  <2>2. D \ S \in SUBSET Word(size) /\ One \in D \ S
    BY <1>1 DEF Nonzero
  <2>3. D \subseteq D \ S
    <3>1. \A u \in D \ S : Draw(amounts, size, u) \in D \ S
      BY <2>1 DEF step
    <3>2. Word(size) \ {{}} \subseteq D \ S
      BY <2>2, <3>1, Zenon DEF Whole
    <3>3. QED
      BY <3>2 DEF Nonzero
  <2>4. QED
    BY <1>1, <1>2, <1>3, <2>3
<1>7. D \subseteq S
  <2>1. S \in SUBSET Word(size)
    BY <1>3 DEF Nonzero
  <2>2. QED
    <3> HIDE DEF S
    <3>1. \A u \in S : Draw(amounts, size, u) \in S
      BY <1>4
    <3>2. Word(size) \ {{}} \subseteq S
      BY <1>6, <2>1, <3>1, Zenon DEF Whole
    <3>3. QED
      BY <3>2 DEF Nonzero
<1>8. IsFiniteSet(S) /\ Cardinality(S) <= j
  <2> DEFINE g == [x \in 1 .. j |-> h[x - 1]]
  <2>1. g \in [1 .. j -> S]
    OBVIOUS
  <2>2. \A y \in S : \E x \in 1 .. j : g[x] = y
    <3>1. ASSUME NEW m \in 0 .. j - 1 PROVE \E x \in 1 .. j : g[x] = h[m]
      <4>1. m + 1 \in 1 .. j /\ (m + 1) - 1 = m
        OBVIOUS
      <4>2. g[m + 1] = h[m]
        BY <4>1
      <4>3. QED
        BY <4>1, <4>2
    <3>2. QED
      BY <3>1
  <2>3. g \in Surjection(1 .. j, S)
    <3> HIDE DEF g, S
    <3>1. QED
      BY <2>1, <2>2, Fun_IsSurj, Zenon
  <2>4. IsFiniteSet(1 .. j) /\ Cardinality(1 .. j) = j
    <3>1. 1 \in Int /\ j \in Int
      OBVIOUS
    <3>2. IsFiniteSet(1 .. j) /\ Cardinality(1 .. j) = IF 1 > j THEN 0 ELSE j - 1 + 1
      BY <3>1, FS_Interval, Zenon
    <3>3. QED
      BY <3>2
  <2>5. IsFiniteSet(S) /\ Cardinality(S) <= Cardinality(1 .. j)
    <3> HIDE DEF g, S
    <3>1. QED
      BY <2>3, <2>4, FS_Surjection, Zenon
  <2>6. QED
    BY <2>4, <2>5
<1>9. S = D
  BY <1>3, <1>7
<1>10. QED
  BY <1>1, <1>7, <1>8, <1>9

(* And it is back after so many draws. *)
LEMMA Returns ==
  ASSUME NEW size \in Nat \ {0}, NEW amounts \in (Nat \ {0}) \X (Nat \ {0}) \X (Nat \ {0}),
         Whole(amounts, size),
         NEW n \in Nat, NEW h, Walk(amounts, size, h, n), n >= 2 ^ size - 1
  PROVE  h[2 ^ size - 1] = h[0]
<1>1. PICK N \in Nat : N = 2 ^ size - 1
  BY PowerOfTwo
<1> DEFINE D == Nonzero(size)
           g == [x \in 0 .. N |-> h[x]]
<1>2. IsFiniteSet(D) /\ Cardinality(D) = N
  BY <1>1, NonzeroFacts
<1>3. IsFiniteSet(0 .. N) /\ Cardinality(0 .. N) = N + 1
  <2>1. 0 \in Int /\ N \in Int
    OBVIOUS
  <2>2. IsFiniteSet(0 .. N) /\ Cardinality(0 .. N) = IF 0 > N THEN 0 ELSE N - 0 + 1
    BY <2>1, FS_Interval, Zenon
  <2>3. QED
    BY <2>2
<1>4. g \in [0 .. N -> D]
  BY <1>1 DEF Walk
<1>5. PICK x, y \in 0 .. N : x # y /\ g[x] = g[y]
  <2>1. Cardinality(D) < Cardinality(0 .. N)
    BY <1>2, <1>3
  <2>2. QED
    <3> HIDE DEF g, D
    <3>1. QED
      BY <1>2, <1>3, <1>4, <2>1, FS_PigeonHole
<1>6. PICK a \in 0 .. N, b \in 0 .. N : a < b /\ h[a] = h[b]
  <2>1. h[x] = h[y] /\ (x < y \/ y < x)
    BY <1>5
  <2>2. QED
    BY <2>1
<1>7. h[b - a] = h[0]
  <2>1. a \in 0 .. n /\ b \in 0 .. n /\ a <= b
    BY <1>1, <1>6
  <2>2. QED
    BY <1>6, <2>1, WalksMeet
<1>8. b - a >= N
  <2>1. b - a \in 1 .. n
    BY <1>1, <1>6
  <2>2. QED
    BY <1>1, <1>7, <2>1, NoEarlyReturn
<1>9. b - a = N
  BY <1>8
<1>10. QED
  BY <1>1, <1>7, <1>9

(* The words of two numbers differ.                                        *)
LEMMA HalfOf ==
  ASSUME NEW n \in Nat, NEW p \in Nat \ {0}
  PROVE  n \div (2 * p) = (n \div p) \div 2
<1>1. PICK q \in Nat : q = n \div p /\ p * q <= n /\ n < p * q + p
  OBVIOUS
<1>2. PICK r \in Nat : r = q \div 2 /\ (q = 2 * r \/ q = 2 * r + 1)
  OBVIOUS
<1>3. PICK P \in Nat \ {0} : P = 2 * p
  OBVIOUS
<1>4. P * r = p * (2 * r) /\ p * (2 * r + 1) = p * (2 * r) + p
  BY <1>3
<1>5. P * r \in Nat /\ n - P * r \in 0 .. P - 1
  BY <1>1, <1>2, <1>3, <1>4
<1>6. PICK s \in 0 .. P - 1 : s = n - P * r
  BY <1>5
<1>7. (P * r + s) \div P = r
  BY Quotient
<1>8. P * r + s = n
  BY <1>5, <1>6
<1>9. QED
  BY <1>1, <1>2, <1>3, <1>7, <1>8

LEMMA IndexDiffers ==
  ASSUME chase_bits \in Nat, NEW n \in 0 .. 2 ^ chase_bits - 1, NEW m \in 0 .. 2 ^ chase_bits - 1,
         Chase!Index(n) = Chase!Index(m)
  PROVE  n = m
<1>1. PICK L \in Nat \ {0} : L = 2 ^ chase_bits
  BY PowerOfTwo
<1>2. n \in Nat /\ m \in Nat /\ n < L /\ m < L
  BY <1>1
<1> DEFINE Same == {x \in 0 .. chase_bits : n \div 2 ^ x = m \div 2 ^ x}
<1>3. chase_bits \in Same
  <2>1. n \div L = 0 /\ m \div L = 0
    BY <1>2
  <2>2. QED
    BY <1>1, <2>1
<1>4. PICK t \in Same : \A x \in Same : t <= x
  <2>1. Same \subseteq Nat
    OBVIOUS
  <2>2. QED
    BY <1>3, <2>1, Lowest
<1>5. t \in 0 .. chase_bits /\ n \div 2 ^ t = m \div 2 ^ t
  BY <1>4
<1>6. CASE t = 0
  <2>1. 2 ^ 0 = 1
    OBVIOUS
  <2>2. n \div 1 = m \div 1
    BY <1>5, <1>6, <2>1
  <2>3. QED
    BY <1>2, <2>2
<1>7. CASE t > 0
  <2>1. PICK u \in 0 .. chase_bits - 1 : t = u + 1
    BY <1>5, <1>7
  <2>2. PICK p \in Nat \ {0} : p = 2 ^ u /\ 2 ^ t = 2 * p
    <3>1. u \in Nat
      BY <2>1
    <3>2. QED
      BY <2>1, <3>1, PowerOfTwo, PowerDoubles
  <2>3. PICK a \in Nat, b \in Nat : a = n \div p /\ b = m \div p
    BY <1>2
  <2>4. a \div 2 = b \div 2
    <3>1. n \div (2 * p) = m \div (2 * p)
      BY <1>5, <2>2
    <3>2. QED
      BY <1>2, <2>3, <3>1, HalfOf
  <2>5. a % 2 = 1 <=> b % 2 = 1
    <3>1. u \in Chase!Index(n) <=> u \in Chase!Index(m)
      OBVIOUS
    <3>2. QED
      BY <2>1, <2>2, <2>3, <3>1 DEF Chase!Index
  <2>6. a = b
    BY <2>4, <2>5
  <2>7. u \in Same
    BY <2>1, <2>2, <2>3, <2>6
  <2>8. QED
    BY <1>4, <2>1, <2>7
<1>8. QED
  BY <1>5, <1>6, <1>7

(* The twelve places where the chasers start are different elements, none  *)
(* of them element 0.                                                      *)
LEMMA Places ==
  ASSUME chase_bits \in 4 .. 30
  PROVE  /\ \A c \in Chase!Chaser :
              Chase!Index((2 ^ chase_bits \div 12) * c + 1) \in Nonzero(chase_bits)
         /\ \A c, d \in Chase!Chaser :
              Chase!Index((2 ^ chase_bits \div 12) * c + 1) = Chase!Index((2 ^ chase_bits \div 12) * d + 1)
                => c = d
         /\ 2 ^ chase_bits >= 16
<1>1. chase_bits \in Nat
  OBVIOUS
<1>2. PICK L \in Nat \ {0} : L = 2 ^ chase_bits
  BY <1>1, PowerOfTwo
<1>3. L >= 16
  <2> DEFINE Small == {x \in 4 .. 30 : 2 ^ x < 16}
  <2> SUFFICES ASSUME Small # {} PROVE FALSE
    <3>1. Small = {} => ~(2 ^ chase_bits < 16)
      OBVIOUS
    <3>2. QED
      BY <1>2, <3>1
  <2>1. Small \subseteq Nat
    OBVIOUS
  <2>2. PICK x \in Small : \A y \in Small : x <= y
    BY <2>1, Lowest
  <2>3. 2 ^ 4 = 16
    OBVIOUS
  <2>4. x # 4
    <3> SUFFICES ASSUME x = 4 PROVE FALSE
      OBVIOUS
    <3>1. 2 ^ x < 16
      BY <2>2
    <3>2. 2 ^ x = 2 ^ 4
      BY Zenon
    <3>3. QED
      BY <2>3, <3>1, <3>2
  <2>5. PICK y \in 4 .. 30 : x = y + 1
    BY <2>2, <2>4
  <2>6. y \notin Small
    BY <2>2, <2>5
  <2>7. PICK p \in Nat : p = 2 ^ y /\ 2 ^ x = 2 * p
    <3>1. y \in Nat
      OBVIOUS
    <3>2. QED
      BY <2>5, <3>1, PowerOfTwo, PowerDoubles
  <2>8. QED
    BY <2>2, <2>6, <2>7
<1>4. PICK q \in Nat : q = L \div 12 /\ 12 * q <= L /\ L < 12 * q + 12
  OBVIOUS
<1>5. q >= 1
  BY <1>3, <1>4
<1>6. \A c \in 0 .. 11 : q * c + 1 \in 1 .. L - 1
  <2> SUFFICES ASSUME NEW c \in 0 .. 11 PROVE q * c + 1 \in 1 .. L - 1
    OBVIOUS
  <2>1. q * c <= q * 11 /\ q * c \in Nat
    OBVIOUS
  <2>2. q * 11 + 1 < L
    BY <1>3, <1>4, <1>5
  <2>3. QED
    BY <2>1, <2>2
<1>7. \A c, d \in 0 .. 11 : q * c + 1 = q * d + 1 => c = d
  <2> SUFFICES ASSUME NEW c \in 0 .. 11, NEW d \in 0 .. 11, q * c = q * d PROVE c = d
    OBVIOUS
  <2>1. ASSUME c < d PROVE FALSE
    <3>1. q * (c + 1) <= q * d
      BY <2>1
    <3>2. QED
      BY <1>5, <3>1
  <2>2. ASSUME d < c PROVE FALSE
    <3>1. q * (d + 1) <= q * c
      BY <2>2
    <3>2. QED
      BY <1>5, <3>1
  <2>3. QED
    BY <2>1, <2>2
<1>8. ASSUME NEW n \in 1 .. L - 1 PROVE Chase!Index(n) \in Nonzero(chase_bits)
  <2>1. Chase!Index(n) \in Word(chase_bits)
    BY DEF Chase!Index, Word
  <2>2. Chase!Index(0) = {}
    <3>1. ASSUME NEW x \in 0 .. chase_bits - 1 PROVE (0 \div 2 ^ x) % 2 # 1
      <4>1. PICK p \in Nat \ {0} : p = 2 ^ x
        BY PowerOfTwo
      <4>2. 0 \div p = 0
        OBVIOUS
      <4>3. QED
        BY <4>1, <4>2
    <3>2. QED
      BY <3>1 DEF Chase!Index
  <2>3. Chase!Index(n) # Chase!Index(0)
    <3>1. n \in 0 .. 2 ^ chase_bits - 1 /\ 0 \in 0 .. 2 ^ chase_bits - 1 /\ n # 0
      BY <1>2
    <3>2. QED
      BY <1>1, <3>1, IndexDiffers
  <2>4. QED
    BY <2>1, <2>2, <2>3 DEF Nonzero
<1>9. \A n, m \in 1 .. L - 1 : Chase!Index(n) = Chase!Index(m) => n = m
  <2>1. \A n \in 1 .. L - 1 : n \in 0 .. 2 ^ chase_bits - 1
    BY <1>2
  <2>2. QED
    BY <1>1, <2>1, IndexDiffers
<1>10. Chase!Chaser = 0 .. 11
  BY DEF Chase!Chaser
<1>11. \A c \in Chase!Chaser : Chase!Index(q * c + 1) \in Nonzero(chase_bits)
  BY <1>6, <1>8, <1>10
<1>12. \A c, d \in Chase!Chaser : Chase!Index(q * c + 1) = Chase!Index(q * d + 1) => c = d
  <2> SUFFICES ASSUME NEW c \in Chase!Chaser, NEW d \in Chase!Chaser,
                      Chase!Index(q * c + 1) = Chase!Index(q * d + 1)
               PROVE  c = d
    OBVIOUS
  <2>1. q * c + 1 = q * d + 1
    BY <1>6, <1>9, <1>10
  <2>2. QED
    BY <1>7, <1>10, <2>1
<1>13. q = 2 ^ chase_bits \div 12
  BY <1>2, <1>4
<1>14. QED
  BY <1>2, <1>3, <1>11, <1>12, <1>13

(* While the array is filled, the draws so far are a walk from the seed,   *)
(* and every element on it holds the next.                                 *)
Filling ==
  chase_pc = "fill" =>
    \E h : /\ Walk(Chase!Shift, chase_bits, h, i)
           /\ h[0] = One /\ h[i] = chase_state /\ prevIndex = chase_state
           /\ \A m \in 0 .. i - 1 : data[h[m]] = Draw(Chase!Shift, chase_bits, h[m])

(* Then every element but 0 does, and the chasers walk from where they     *)
(* started, at places that are all different.                              *)
Linked == \A w \in Nonzero(chase_bits) : data[w] = Draw(Chase!Shift, chase_bits, w)

Walking ==
  chase_pc # "fill" =>
    /\ Linked
    /\ \A c \in Chase!Chaser :
         \E h : /\ Walk(Chase!Shift, chase_bits, h, i)
                /\ h[0] = initialVector[c] /\ h[i] = at[c]
    /\ \A c, d \in Chase!Chaser : initialVector[c] = initialVector[d] => c = d

ChaseCourse == ChaseRun /\ Filling /\ Walking

(* The generators the theorem is about: those whose shifts are defined and *)
(* that have a full period.                                                *)
FullPeriodSizes == \A size \in ChaseSizes : size # 17 /\ Whole(TableRow(size), size)

LEMMA ChaseShift ==
  ASSUME FullPeriodSizes, chase_bits \in ChaseSizes
  PROVE  /\ chase_bits \in 4 .. 30
         /\ chase_bits \in Nat \ {0}
         /\ Chase!Shift \in (Nat \ {0}) \X (Nat \ {0}) \X (Nat \ {0})
         /\ Whole(Chase!Shift, chase_bits)
<1>1. chase_bits \in 4 .. 30
  BY ChaseNumbers
<1>2. Chase!Shift \in ClassShifts(chase_bits)
  BY ChaseNumbers
<1>3. chase_bits # 17 /\ Whole(TableRow(chase_bits), chase_bits)
  BY DEF FullPeriodSizes
<1>4. Chase!Shift = TableRow(chase_bits)
  BY <1>2, <1>3 DEF ClassShifts
<1>5. TableRow(chase_bits) \in (Nat \ {0}) \X (Nat \ {0}) \X (Nat \ {0})
  BY <1>1, RowShifts
<1>6. QED
  BY <1>1, <1>3, <1>4, <1>5

(* A walk goes on. *)
LEMMA WalkOn ==
  ASSUME NEW size \in Nat \ {0}, NEW amounts \in (Nat \ {0}) \X (Nat \ {0}) \X (Nat \ {0}),
         NEW n \in Nat, NEW h, Walk(amounts, size, h, n)
  PROVE  \E g : /\ Walk(amounts, size, g, n + 1)
                /\ \A l \in 0 .. n : g[l] = h[l]
                /\ g[n + 1] = Draw(amounts, size, h[n])
<1> DEFINE g == [l \in 0 .. n + 1 |-> IF l = n + 1 THEN Draw(amounts, size, h[n]) ELSE h[l]]
<1>1. n \in 0 .. n /\ h \in [0 .. n -> Nonzero(size)]
  BY DEF Walk
<1>2. Draw(amounts, size, h[n]) \in Nonzero(size)
  BY <1>1, NonzeroFacts
<1>3. \A l \in 0 .. n : g[l] = h[l] /\ h[l] \in Nonzero(size)
  BY <1>1
<1>4. g[n + 1] = Draw(amounts, size, h[n])
  OBVIOUS
<1>5. g \in [0 .. n + 1 -> Nonzero(size)]
  BY <1>1, <1>2
<1>6. ASSUME NEW l \in 1 .. n + 1 PROVE g[l] = Draw(amounts, size, g[l - 1])
  <2> HIDE DEF g
  <2>1. l - 1 \in 0 .. n /\ g[l - 1] = h[l - 1]
    BY <1>3
  <2>2. CASE l = n + 1
    BY <1>4, <2>1, <2>2
  <2>3. CASE l # n + 1
    <3>1. l \in 1 .. n /\ l \in 0 .. n
      BY <2>3
    <3>2. h[l] = Draw(amounts, size, h[l - 1])
      BY <3>1 DEF Walk
    <3>3. QED
      BY <1>3, <2>1, <3>1, <3>2
  <2>4. QED
    BY <2>2, <2>3
<1>7. Walk(amounts, size, g, n + 1)
  BY <1>5, <1>6 DEF Walk
<1>8. QED
  <2> HIDE DEF g
  <2>1. QED
    BY <1>3, <1>4, <1>7

LEMMA CourseBegins ==
  ASSUME FullPeriodSizes, Chase!Init
  PROVE  ChaseCourse
<1>1. ChaseRun /\ chase_bits \in ChaseSizes
  BY ChaseInit DEF Chase!Init
<1>2. chase_pc = "fill" /\ i = 0 /\ chase_state = One /\ prevIndex = One
  BY ChaseWords DEF Chase!Init
<1> DEFINE h == [l \in 0 .. 0 |-> One]
<1>3. One \in Nonzero(chase_bits)
  BY <1>1, ChaseShift, NonzeroFacts
<1>4. Walk(Chase!Shift, chase_bits, h, 0)
  BY <1>3 DEF Walk
<1>5. h[0] = One
  OBVIOUS
<1>6. Filling
  <2> HIDE DEF h
  <2>1. \A m \in 0 .. 0 - 1 : data[h[m]] = Draw(Chase!Shift, chase_bits, h[m])
    OBVIOUS
  <2>2. QED
    BY <1>2, <1>4, <1>5, <2>1 DEF Filling
<1>7. Walking
  BY <1>2 DEF Walking
<1>8. QED
  BY <1>1, <1>6, <1>7 DEF ChaseCourse

LEMMA CourseGoesOn ==
  ASSUME FullPeriodSizes, ChaseCourse, [Chase!Next]_chaseVars
  PROVE  ChaseCourse'
<1>1. ChaseRun'
  BY ChaseStep DEF ChaseCourse
<1>2. /\ chase_bits \in ChaseSizes
      /\ chase_pc \in {"fill", "chase", "done"}
      /\ i \in 0 .. Chase!array_length
      /\ data \in [Word(chase_bits) -> Word(chase_bits)]
      /\ prevIndex \in Word(chase_bits)
  BY ChaseWords DEF ChaseCourse, ChaseRun, Chase!TypeOK
<1>3. PICK size \in 4 .. 30 : size = chase_bits
  BY <1>2, ChaseShift
<1>4. PICK amounts \in (Nat \ {0}) \X (Nat \ {0}) \X (Nat \ {0}) :
        amounts = Chase!Shift /\ Whole(amounts, size)
  BY <1>2, <1>3, ChaseShift
<1>5. Chase!array_length = 2 ^ size /\ i \in Nat /\ 2 ^ size >= 16 /\ 2 ^ size \in Nat
  BY <1>2, <1>3, ChaseNumbers, Places
<1>6. UNCHANGED chase_bits => Chase!Shift' = Chase!Shift
  BY DEF Chase!Shift
<1>s. size \in Nat \ {0}
  OBVIOUS
<1>7. CASE Chase!Fill
  <2>1. /\ chase_pc = "fill" /\ i' = i + 1
        /\ chase_state' = Draw(amounts, size, chase_state)
        /\ data' = [data EXCEPT ![prevIndex] = chase_state']
        /\ prevIndex' = chase_state'
        /\ chase_pc' = chase_pc /\ chase_bits' = chase_bits
    BY <1>3, <1>4, <1>7, ChaseWords DEF Chase!Fill
  <2>2. PICK h : /\ Walk(amounts, size, h, i)
                 /\ h[0] = One /\ h[i] = chase_state /\ prevIndex = chase_state
                 /\ \A m \in 0 .. i - 1 : data[h[m]] = Draw(amounts, size, h[m])
    BY <1>3, <1>4, <2>1 DEF ChaseCourse, Filling
  <2>3. PICK g : /\ Walk(amounts, size, g, i + 1)
                 /\ \A l \in 0 .. i : g[l] = h[l]
                 /\ g[i + 1] = Draw(amounts, size, h[i])
    <3>1. i \in Nat /\ Walk(amounts, size, h, i)
      BY <1>5, <2>2
    <3>2. QED
      BY <1>s, <3>1, WalkOn
  <2>4. g[0] = One /\ g[i'] = chase_state' /\ prevIndex' = chase_state'
    BY <1>5, <2>1, <2>2, <2>3
  <2>5. ASSUME NEW m \in 0 .. i' - 1 PROVE data'[g[m]] = Draw(amounts, size, g[m])
    <3>1. m \in 0 .. i /\ g[m] = h[m] /\ h[m] \in Word(size)
      BY <1>5, <2>1, <2>2, <2>3 DEF Walk, Nonzero
    <3>2. CASE h[m] = prevIndex
      <4>1. data'[h[m]] = chase_state'
        BY <1>2, <2>1, <3>2
      <4>2. QED
        BY <2>1, <2>2, <3>1, <3>2, <4>1
    <3>3. CASE h[m] # prevIndex
      <4>1. data'[h[m]] = data[h[m]]
        BY <1>2, <1>3, <2>1, <3>1, <3>3
      <4>2. m # i
        BY <2>2, <3>3
      <4>3. m \in 0 .. i - 1
        BY <1>5, <3>1, <4>2
      <4>4. QED
        BY <2>2, <3>1, <4>1, <4>3
    <3>4. QED
      BY <3>2, <3>3
  <2>6. Filling'
    <3>1. Walk(amounts, size, g, i')
      BY <2>1, <2>3
    <3>2. chase_bits' = size /\ Chase!Shift' = amounts
      BY <1>3, <1>4, <1>6, <2>1
    <3>3. QED
      BY <2>4, <2>5, <3>1, <3>2 DEF Filling
  <2>7. Walking'
    BY <2>1 DEF Walking
  <2>8. QED
    BY <1>1, <2>6, <2>7 DEF ChaseCourse
<1>8. CASE Chase!Place
  <2>1. /\ chase_pc = "fill" /\ ~(i < Chase!array_length)
        /\ chase_pc' = "chase" /\ i' = 0
        /\ initialVector' = [c \in Chase!Chaser |-> Chase!Index((Chase!array_length \div 12) * c + 1)]
        /\ at' = initialVector'
        /\ chase_bits' = chase_bits /\ data' = data
    BY <1>8 DEF Chase!Place, Chase!DrawsLeft
  <2>2. PICK h : /\ Walk(amounts, size, h, i)
                 /\ h[0] = One
                 /\ \A m \in 0 .. i - 1 : data[h[m]] = Draw(amounts, size, h[m])
    BY <1>3, <1>4, <2>1 DEF ChaseCourse, Filling
  <2>3. PICK N \in Nat : N = 2 ^ size - 1 /\ i = N + 1 /\ N \in 1 .. i
    BY <1>2, <1>5, <2>1
  <2>4. h[N] = h[0]
    <3>1. i >= 2 ^ size - 1
      BY <2>3
    <3>2. h[2 ^ size - 1] = h[0]
      BY <1>4, <1>5, <1>s, <2>2, <3>1, Returns
    <3>3. QED
      BY <2>3, <3>2
  <2>5. Nonzero(size) \subseteq {h[m] : m \in 0 .. N - 1}
    BY <1>4, <1>5, <1>s, <2>2, <2>3, <2>4, NoEarlyReturn
  <2>6. \A w \in Nonzero(size) : data[w] = Draw(amounts, size, w)
    <3>1. \A m \in 0 .. N - 1 : m \in 0 .. i - 1
      BY <2>3
    <3>2. QED
      BY <2>2, <2>5, <3>1
  <2>7. chase_bits' = size /\ Chase!Shift' = amounts
    BY <1>3, <1>4, <1>6, <2>1
  <2>8. Linked'
    BY <2>1, <2>6, <2>7 DEF Linked
  <2>9. /\ \A c \in Chase!Chaser : initialVector'[c] \in Nonzero(size)
        /\ \A c, d \in Chase!Chaser : initialVector'[c] = initialVector'[d] => c = d
    <3>1. \A c \in Chase!Chaser : initialVector'[c] = Chase!Index((2 ^ chase_bits \div 12) * c + 1)
      BY <1>3, <1>5, <2>1
    <3>2. chase_bits \in 4 .. 30
      BY <1>3
    <3>3. QED
      BY <1>3, <3>1, <3>2, Places
  <2>10. ASSUME NEW c \in Chase!Chaser
         PROVE  \E g : /\ Walk(amounts, size, g, 0)
                       /\ g[0] = initialVector'[c] /\ g[0] = at'[c]
    <3>1. PICK w \in Nonzero(size) : w = initialVector'[c] /\ w = at'[c]
      BY <2>1, <2>9
    <3> DEFINE g == [l \in 0 .. 0 |-> w]
    <3>2. Walk(amounts, size, g, 0) /\ g[0] = w
      BY DEF Walk
    <3>3. QED
      BY <3>1, <3>2
  <2>11. Walking'
    BY <2>1, <2>7, <2>8, <2>9, <2>10 DEF Walking
  <2>12. Filling'
    BY <2>1 DEF Filling
  <2>13. QED
    BY <1>1, <2>11, <2>12 DEF ChaseCourse
<1>9. CASE Chase!Chase
  <2>1. /\ chase_pc = "chase" /\ chase_pc' # "fill" /\ i' = i + 1
        /\ at' = [c \in Chase!Chaser |-> data[at[c]]]
        /\ chase_bits' = chase_bits /\ data' = data /\ initialVector' = initialVector
    BY <1>9 DEF Chase!Chase
  <2>2. /\ \A w \in Nonzero(size) : data[w] = Draw(amounts, size, w)
        /\ \A c \in Chase!Chaser :
             \E h : /\ Walk(amounts, size, h, i)
                    /\ h[0] = initialVector[c] /\ h[i] = at[c]
        /\ \A c, d \in Chase!Chaser : initialVector[c] = initialVector[d] => c = d
    BY <1>3, <1>4, <2>1 DEF ChaseCourse, Walking, Linked
  <2>3. chase_bits' = size /\ Chase!Shift' = amounts
    BY <1>3, <1>4, <1>6, <2>1
  <2>4. ASSUME NEW c \in Chase!Chaser
        PROVE  \E g : /\ Walk(amounts, size, g, i')
                      /\ g[0] = initialVector'[c] /\ g[i'] = at'[c]
    <3>1. PICK h : /\ Walk(amounts, size, h, i)
                   /\ h[0] = initialVector[c] /\ h[i] = at[c]
      BY <2>2
    <3>2. PICK g : /\ Walk(amounts, size, g, i + 1)
                   /\ \A l \in 0 .. i : g[l] = h[l]
                   /\ g[i + 1] = Draw(amounts, size, h[i])
      <4>1. i \in Nat /\ Walk(amounts, size, h, i)
        BY <1>5, <3>1
      <4>2. QED
        BY <1>s, <4>1, WalkOn
    <3>3. at[c] \in Nonzero(size)
      BY <1>5, <3>1 DEF Walk
    <3>4. at'[c] = Draw(amounts, size, at[c])
      BY <2>1, <2>2, <3>3
    <3>5. g[0] = h[0]
      BY <1>5, <3>2
    <3>6. QED
      BY <2>1, <3>1, <3>2, <3>4, <3>5
  <2>5. Linked'
    BY <2>1, <2>2, <2>3 DEF Linked
  <2>6. Walking'
    BY <2>1, <2>2, <2>3, <2>4, <2>5 DEF Walking
  <2>7. Filling'
    BY <2>1 DEF Filling
  <2>8. QED
    BY <1>1, <2>6, <2>7 DEF ChaseCourse
<1>10. CASE UNCHANGED chaseVars \/ (chase_pc = "done" /\ UNCHANGED Chase!vars)
  <2>1. UNCHANGED <<chase_bits, chase_pc, i, chase_state, prevIndex, data, initialVector, at>>
    BY <1>10 DEF chaseVars, Chase!vars
  <2>2. QED
    BY <1>1, <1>6, <2>1 DEF ChaseCourse, Filling, Walking, Linked
<1>11. QED
  BY <1>7, <1>8, <1>9, <1>10 DEF Chase!Next

(* A walk of so many draws is back where it started after a full period,   *)
(* and neither before nor one draw later.                                  *)
LEMMA CourseKeeps ==
  ASSUME FullPeriodSizes, ChaseCourse
  PROVE  Chase!OneCycle /\ Chase!Apart
<1>1. chase_bits \in ChaseSizes /\ i \in 0 .. Chase!array_length
  BY DEF ChaseCourse, ChaseRun, Chase!TypeOK
<1>2. PICK size \in 4 .. 30 : size = chase_bits
  BY <1>1, ChaseShift
<1>3. PICK amounts \in (Nat \ {0}) \X (Nat \ {0}) \X (Nat \ {0}) :
        amounts = Chase!Shift /\ Whole(amounts, size)
  BY <1>1, <1>2, ChaseShift
<1>s. size \in Nat \ {0}
  OBVIOUS
<1>4. PICK N \in Nat : N = 2 ^ size - 1 /\ N >= 15 /\ Chase!array_length = N + 1
  BY <1>1, <1>2, ChaseNumbers, Places
<1>5. i \in 0 .. N + 1
  BY <1>1, <1>4
<1>6. ASSUME chase_pc # "fill"
      PROVE  /\ \A c \in Chase!Chaser :
                  \E h : /\ Walk(amounts, size, h, i)
                         /\ h[0] = initialVector[c] /\ h[i] = at[c]
             /\ \A c, d \in Chase!Chaser : initialVector[c] = initialVector[d] => c = d
  BY <1>2, <1>3, <1>6 DEF ChaseCourse, Walking
<1>7. ASSUME chase_pc # "fill", NEW c \in Chase!Chaser
      PROVE  at[c] = initialVector[c] <=> i \in {0, N}
  <2>1. PICK h : /\ Walk(amounts, size, h, i)
                 /\ h[0] = initialVector[c] /\ h[i] = at[c]
    BY <1>6, <1>7
  <2>2. CASE i = 0
    BY <2>1, <2>2
  <2>3. CASE i = N
    <3>1. i \in Nat /\ i >= 2 ^ size - 1
      BY <1>4, <2>3
    <3>2. h[2 ^ size - 1] = h[0]
      BY <1>3, <1>s, <2>1, <3>1, Returns
    <3>3. QED
      BY <1>4, <2>1, <2>3, <3>2
  <2>4. CASE i > 0 /\ i < N
    <3>1. ASSUME h[i] = h[0] PROVE FALSE
      <4>1. i \in Nat /\ i \in 1 .. i
        BY <1>5, <2>4
      <4>2. i >= 2 ^ size - 1
        BY <1>3, <1>s, <2>1, <3>1, <4>1, NoEarlyReturn
      <4>3. QED
        BY <1>4, <2>4, <4>1, <4>2
    <3>2. QED
      BY <1>5, <2>1, <2>4, <3>1
  <2>5. CASE i = N + 1
    <3>1. ASSUME h[i] = h[0] PROVE FALSE
      <4>1. i \in Nat /\ i >= 2 ^ size - 1
        BY <1>4, <2>5
      <4>2. h[N] = h[0]
        BY <1>3, <1>4, <1>s, <2>1, <4>1, Returns
      <4>3. N \in 0 .. i /\ i \in 0 .. i /\ N <= i /\ i - N = 1
        BY <1>4, <2>5
      <4>4. h[N] = h[i]
        BY <3>1, <4>2
      <4>5. h[0] = h[i - N]
        BY <1>s, <2>1, <4>1, <4>3, <4>4, WalksMeet
      <4>6. h[1] = h[0] /\ 1 \in 1 .. i
        BY <4>1, <4>3, <4>5, <1>4
      <4>7. 1 >= 2 ^ size - 1
        BY <1>3, <1>s, <2>1, <4>1, <4>6, NoEarlyReturn
      <4>8. QED
        BY <1>4, <4>7
    <3>2. QED
      BY <1>4, <2>1, <2>5, <3>1
  <2>6. QED
    BY <1>5, <2>2, <2>3, <2>4, <2>5
<1>8. ASSUME chase_pc # "fill", NEW c \in Chase!Chaser, NEW d \in Chase!Chaser, at[c] = at[d]
      PROVE  c = d
  <2>1. PICK h : /\ Walk(amounts, size, h, i)
                 /\ h[0] = initialVector[c] /\ h[i] = at[c]
    BY <1>6, <1>8
  <2>2. PICK g : /\ Walk(amounts, size, g, i)
                 /\ g[0] = initialVector[d] /\ g[i] = at[d]
    BY <1>6, <1>8
  <2>3. PICK n \in Nat : n = i
    BY <1>5
  <2>4. /\ Walk(amounts, size, h, n) /\ Walk(amounts, size, g, n)
        /\ n \in 0 .. n /\ n <= n /\ h[n] = g[n]
    BY <1>8, <2>1, <2>2, <2>3
  <2>5. h[0] = g[0]
    <3>1. h[0] = g[n - n]
      BY <1>s, <2>4, WalksMeet
    <3>2. n - n = 0
      OBVIOUS
    <3>3. QED
      BY <3>1, <3>2
  <2>6. initialVector[c] = initialVector[d]
    BY <2>1, <2>2, <2>5
  <2>7. QED
    BY <1>6, <1>8, <2>6
<1>9. Chase!OneCycle
  <2>1. Chase!array_length - 1 = N
    BY <1>4
  <2>2. QED
    BY <1>7, <2>1 DEF Chase!OneCycle
<1>10. Chase!Apart
  BY <1>8 DEF Chase!Apart
<1>11. QED
  BY <1>9, <1>10

(* For an array of any size whose generator has a full period the twelve   *)
(* chasers go round one cycle through all of it but element 0, and no two  *)
(* of them are ever at the same element.                                   *)
THEOREM ChasersApartHold ==
  ASSUME FullPeriodSizes
  PROVE  CpuSpec => []ChasersApart
<1> DEFINE ChasersInv == bench = "chase" => ChaseCourse
<1>1. CpuInit => ChasersInv
  <2>1. CpuInit /\ bench = "chase" => Chase!Init
    BY DEF CpuInit
  <2>2. QED
    BY <2>1, CourseBegins
<1>2. ChasersInv /\ [CpuNext]_cpuVars => ChasersInv'
  BY OneRuns, CourseGoesOn
<1>3. ChasersInv => ChasersApart
  BY CourseKeeps DEF ChasersApart
<1>4. QED
  <2> HIDE DEF ChasersInv
  <2>1. QED
    BY <1>1, <1>2, <1>3, PTL DEF CpuSpec

-----------------------------------------------------------------------------
(* What the squaring of GeneratorPeriod decides.  Shot(h, n, v): h lists   *)
(* the words of the first n draws from v; After is the last of them.       *)

Shot(amounts, size, h, n, v) ==
  /\ h \in [0 .. n -> Word(size)] /\ h[0] = v
  /\ \A l \in 1 .. n : h[l] = Draw(amounts, size, h[l - 1])

After(amounts, size, n, v) == (CHOOSE h : Shot(amounts, size, h, n, v))[n]

LEMMA ShotExists ==
  ASSUME NEW size \in Nat, NEW amounts \in Nat \X Nat \X Nat, NEW v \in Word(size), NEW n \in Nat
  PROVE  \E h : Shot(amounts, size, h, n, v)
<1> DEFINE Missing == {m \in Nat : ~\E h : Shot(amounts, size, h, m, v)}
<1> SUFFICES ASSUME n \in Missing PROVE FALSE
  OBVIOUS
<1>1. PICK m \in Missing : \A x \in Missing : m <= x
  <2>1. Missing \in SUBSET Nat /\ Missing # {}
    OBVIOUS
  <2>2. QED
    <3> HIDE DEF Missing
    <3>1. QED
      BY <2>1, Lowest
<1>2. m \in Nat /\ ~\E h : Shot(amounts, size, h, m, v)
  BY <1>1
<1>3. CASE m = 0
  <2>1. Shot(amounts, size, [l \in 0 .. 0 |-> v], 0, v)
    BY DEF Shot
  <2>2. QED
    BY <1>2, <1>3, <2>1
<1>4. CASE m # 0
  <2>1. PICK h : Shot(amounts, size, h, m - 1, v)
    <3>1. m - 1 \in Nat /\ ~(m <= m - 1)
      BY <1>2, <1>4
    <3>2. m - 1 \notin Missing
      BY <1>1, <3>1
    <3>3. QED
      BY <3>1, <3>2
  <2> DEFINE g == [l \in 0 .. m |-> IF l = m THEN Draw(amounts, size, h[m - 1]) ELSE h[l]]
  <2>2. Draw(amounts, size, h[m - 1]) \in Word(size)
    <3>1. h[m - 1] \in Word(size)
      BY <1>2, <1>4, <2>1 DEF Shot
    <3>2. QED
      BY <3>1, DrawWord
  <2>3. g \in [0 .. m -> Word(size)] /\ g[0] = v
    <3>1. ASSUME NEW l \in 0 .. m, l # m PROVE h[l] \in Word(size)
      <4>1. l \in 0 .. m - 1
        BY <1>2, <3>1
      <4>2. QED
        BY <2>1, <4>1 DEF Shot
    <3>2. QED
      BY <1>2, <1>4, <2>1, <2>2, <3>1 DEF Shot
  <2>4. ASSUME NEW l \in 1 .. m PROVE g[l] = Draw(amounts, size, g[l - 1])
    <3>1. l \in 0 .. m /\ l - 1 \in 0 .. m /\ l - 1 # m
      BY <1>2
    <3>2. CASE l = m
      BY <3>1, <3>2
    <3>3. CASE l # m
      <4>1. l \in 1 .. m - 1
        BY <1>2, <3>3
      <4>2. h[l] = Draw(amounts, size, h[l - 1])
        BY <2>1, <4>1 DEF Shot
      <4>3. QED
        BY <3>1, <3>3, <4>2
    <3>4. QED
      BY <3>2, <3>3
  <2>5. Shot(amounts, size, g, m, v)
    <3> HIDE DEF g
    <3>1. QED
      BY <2>3, <2>4 DEF Shot
  <2>6. QED
    BY <1>2, <2>5
<1>5. QED
  BY <1>3, <1>4

(* There is one such list only. *)
LEMMA ShotUnique ==
  ASSUME NEW size \in Nat, NEW amounts \in Nat \X Nat \X Nat, NEW v \in Word(size),
         NEW n \in Nat, NEW m \in Nat, NEW f, NEW h,
         Shot(amounts, size, f, n, v), Shot(amounts, size, h, m, v),
         NEW l \in Nat, l <= n, l <= m
  PROVE  f[l] = h[l]
<1> DEFINE Differ == {x \in 0 .. l : f[x] # h[x]}
<1> SUFFICES ASSUME l \in Differ PROVE FALSE
  OBVIOUS
<1>1. PICK x \in Differ : \A y \in Differ : x <= y
  <2>1. Differ \in SUBSET Nat /\ Differ # {}
    OBVIOUS
  <2>2. QED
    <3> HIDE DEF Differ
    <3>1. QED
      BY <2>1, Lowest
<1>2. x \in 0 .. l /\ f[x] # h[x]
  BY <1>1
<1>3. x # 0
  BY <1>2 DEF Shot
<1>4. x \in 1 .. n /\ x \in 1 .. m /\ x - 1 \in 0 .. l /\ ~(x <= x - 1)
  BY <1>2, <1>3
<1>5. f[x - 1] = h[x - 1]
  BY <1>1, <1>4
<1>6. QED
  BY <1>2, <1>4, <1>5 DEF Shot

LEMMA AfterWord ==
  ASSUME NEW size \in Nat, NEW amounts \in Nat \X Nat \X Nat, NEW v \in Word(size), NEW n \in Nat
  PROVE  After(amounts, size, n, v) \in Word(size)
<1> DEFINE h == CHOOSE h : Shot(amounts, size, h, n, v)
<1>1. Shot(amounts, size, h, n, v)
  BY ShotExists
<1>2. n \in 0 .. n
  OBVIOUS
<1>3. QED
  <2> HIDE DEF h
  <2>1. h[n] \in Word(size)
    BY <1>1, <1>2 DEF Shot
  <2>2. QED
    BY <2>1 DEF h, After

LEMMA AfterNext ==
  ASSUME NEW size \in Nat, NEW amounts \in Nat \X Nat \X Nat, NEW v \in Word(size)
  PROVE  /\ After(amounts, size, 0, v) = v
         /\ \A n \in Nat : After(amounts, size, n + 1, v) = Draw(amounts, size, After(amounts, size, n, v))
<1> DEFINE h(n) == CHOOSE f : Shot(amounts, size, f, n, v)
<1>1. \A n \in Nat : Shot(amounts, size, h(n), n, v)
  BY ShotExists
<1>2. \A n \in Nat : After(amounts, size, n, v) = h(n)[n]
  BY DEF After
<1> HIDE DEF h
<1>3. After(amounts, size, 0, v) = v
  BY <1>1, <1>2 DEF Shot
<1>4. ASSUME NEW n \in Nat
      PROVE  After(amounts, size, n + 1, v) = Draw(amounts, size, After(amounts, size, n, v))
  <2>1. n + 1 \in Nat /\ n + 1 \in 1 .. n + 1 /\ n <= n + 1 /\ (n + 1) - 1 = n
    OBVIOUS
  <2>2. h(n + 1)[n + 1] = Draw(amounts, size, h(n + 1)[n])
    BY <1>1, <2>1 DEF Shot
  <2>3. h(n + 1)[n] = h(n)[n]
    BY <1>1, <2>1, ShotUnique
  <2>4. QED
    BY <1>2, <2>1, <2>2, <2>3
<1>5. QED
  BY <1>3, <1>4

(* Draws add up. *)
LEMMA AfterSum ==
  ASSUME NEW size \in Nat, NEW amounts \in Nat \X Nat \X Nat, NEW v \in Word(size),
         NEW m \in Nat, NEW n \in Nat
  PROVE  After(amounts, size, m + n, v) = After(amounts, size, m, After(amounts, size, n, v))
<1> DEFINE A(x, w) == After(amounts, size, x, w)
           Bad == {x \in Nat : A(x + n, v) # A(x, A(n, v))}
<1> SUFFICES ASSUME m \in Bad PROVE FALSE
  OBVIOUS
<1>1. PICK x \in Bad : \A y \in Bad : x <= y
  <2>1. Bad \in SUBSET Nat /\ Bad # {}
    OBVIOUS
  <2>2. QED
    <3> HIDE DEF Bad
    <3>1. QED
      BY <2>1, Lowest
<1>2. x \in Nat /\ A(x + n, v) # A(x, A(n, v))
  BY <1>1
<1>3. A(n, v) \in Word(size)
  BY AfterWord
<1>4. /\ \A w \in Word(size) : A(0, w) = w
      /\ \A w \in Word(size) : \A y \in Nat : A(y + 1, w) = Draw(amounts, size, A(y, w))
  BY AfterNext
<1> HIDE DEF A
<1>5. x # 0
  <2>1. 0 + n = n
    OBVIOUS
  <2>2. QED
    BY <1>2, <1>3, <1>4, <2>1
<1>6. x - 1 \in Nat /\ ~(x <= x - 1) /\ (x - 1) + 1 = x /\ (x - 1) + n \in Nat /\ ((x - 1) + n) + 1 = x + n
  BY <1>2, <1>5
<1>7. A((x - 1) + n, v) = A(x - 1, A(n, v))
  BY <1>1, <1>6
<1>8. A(x + n, v) = Draw(amounts, size, A((x - 1) + n, v))
  BY <1>4, <1>6
<1>9. A(x, A(n, v)) = Draw(amounts, size, A(x - 1, A(n, v)))
  BY <1>3, <1>4, <1>6
<1>10. QED
  BY <1>2, <1>7, <1>8, <1>9

(* The draw is linear over GF(2): the draw of an exclusive or is the       *)
(* exclusive or of the draws, and so is any number of draws.               *)
LEMMA XorSum ==
  ASSUME NEW u, NEW v, NEW x, NEW y
  PROVE  Xor(Xor(u, v), Xor(x, y)) = Xor(Xor(u, x), Xor(v, y))
<1>1. ASSUME NEW e PROVE e \in Xor(Xor(u, v), Xor(x, y)) <=> e \in Xor(Xor(u, x), Xor(v, y))
  BY DEF Xor
<1>2. QED
  BY <1>1, SMT DEF Xor

LEMMA ShiftXor ==
  \A u, v, n, size : /\ ShiftRight(Xor(u, v), n, size) = Xor(ShiftRight(u, n, size), ShiftRight(v, n, size))
                     /\ ShiftLeft(Xor(u, v), n, size) = Xor(ShiftLeft(u, n, size), ShiftLeft(v, n, size))
BY DEF Xor, ShiftRight, ShiftLeft

LEMMA DrawXor ==
  \A amounts, size, u, v :
    Draw(amounts, size, Xor(u, v)) = Xor(Draw(amounts, size, u), Draw(amounts, size, v))
<1> SUFFICES ASSUME NEW amounts, NEW size, NEW u, NEW v
             PROVE  Draw(amounts, size, Xor(u, v)) = Xor(Draw(amounts, size, u), Draw(amounts, size, v))
  OBVIOUS
<1> DEFINE a(x) == Xor(x, ShiftRight(x, amounts[1], size))
           b(x) == Xor(x, ShiftLeft(x, amounts[2], size))
           c(x) == Xor(x, ShiftRight(x, amounts[3], size))
<1>1. ASSUME NEW x, NEW y PROVE a(Xor(x, y)) = Xor(a(x), a(y))
  <2>1. ShiftRight(Xor(x, y), amounts[1], size) = Xor(ShiftRight(x, amounts[1], size), ShiftRight(y, amounts[1], size))
    BY ShiftXor
  <2>2. QED
    BY <2>1, XorSum
<1>2. ASSUME NEW x, NEW y PROVE b(Xor(x, y)) = Xor(b(x), b(y))
  <2>1. ShiftLeft(Xor(x, y), amounts[2], size) = Xor(ShiftLeft(x, amounts[2], size), ShiftLeft(y, amounts[2], size))
    BY ShiftXor
  <2>2. QED
    BY <2>1, XorSum
<1>3. ASSUME NEW x, NEW y PROVE c(Xor(x, y)) = Xor(c(x), c(y))
  <2>1. ShiftRight(Xor(x, y), amounts[3], size) = Xor(ShiftRight(x, amounts[3], size), ShiftRight(y, amounts[3], size))
    BY ShiftXor
  <2>2. QED
    BY <2>1, XorSum
<1>4. \A x : Draw(amounts, size, x) = c(b(a(x)))
  BY Zenon DEF Draw
<1>5. QED
  <2> HIDE DEF a, b, c
  <2>1. QED
    BY <1>1, <1>2, <1>3, <1>4

LEMMA AfterXor ==
  ASSUME NEW size \in Nat, NEW amounts \in Nat \X Nat \X Nat,
         NEW u \in Word(size), NEW v \in Word(size), NEW n \in Nat
  PROVE  After(amounts, size, n, Xor(u, v)) = Xor(After(amounts, size, n, u), After(amounts, size, n, v))
<1> DEFINE A(x, w) == After(amounts, size, x, w)
           Bad == {x \in Nat : A(x, Xor(u, v)) # Xor(A(x, u), A(x, v))}
<1> SUFFICES ASSUME n \in Bad PROVE FALSE
  OBVIOUS
<1>1. PICK x \in Bad : \A y \in Bad : x <= y
  <2>1. Bad \in SUBSET Nat /\ Bad # {}
    OBVIOUS
  <2>2. QED
    <3> HIDE DEF Bad
    <3>1. QED
      BY <2>1, Lowest
<1>2. x \in Nat /\ A(x, Xor(u, v)) # Xor(A(x, u), A(x, v))
  BY <1>1
<1>3. Xor(u, v) \in Word(size)
  BY XorWord
<1>4. /\ \A w \in Word(size) : A(0, w) = w
      /\ \A w \in Word(size) : \A y \in Nat : A(y + 1, w) = Draw(amounts, size, A(y, w))
  BY AfterNext
<1> HIDE DEF A
<1>5. x # 0
  BY <1>2, <1>3, <1>4
<1>6. x - 1 \in Nat /\ ~(x <= x - 1) /\ (x - 1) + 1 = x
  BY <1>2, <1>5
<1>7. A(x - 1, Xor(u, v)) = Xor(A(x - 1, u), A(x - 1, v))
  BY <1>1, <1>6
<1>8. /\ A(x, Xor(u, v)) = Draw(amounts, size, A(x - 1, Xor(u, v)))
      /\ A(x, u) = Draw(amounts, size, A(x - 1, u))
      /\ A(x, v) = Draw(amounts, size, A(x - 1, v))
  BY <1>3, <1>4, <1>6
<1>9. QED
  BY <1>2, <1>7, <1>8, DrawXor

(* The word 0 stays 0. *)
LEMMA AfterEmpty ==
  ASSUME NEW size \in Nat, NEW amounts \in Nat \X Nat \X Nat, NEW n \in Nat
  PROVE  {} \in Word(size) /\ After(amounts, size, n, {}) = {}
<1>1. {} \in Word(size) /\ Xor({}, {}) = {}
  BY DEF Word, Xor
<1>2. After(amounts, size, n, {}) = Xor(After(amounts, size, n, {}), After(amounts, size, n, {}))
  <2>1. After(amounts, size, n, Xor({}, {})) = Xor(After(amounts, size, n, {}), After(amounts, size, n, {}))
    BY <1>1, AfterXor
  <2>2. QED
    BY <1>1, <2>1
<1>3. \A w : Xor(w, w) = {}
  BY DEF Xor
<1>4. QED
  BY <1>1, <1>2, <1>3

-----------------------------------------------------------------------------
(* A map that takes every single bit where n draws take it takes every     *)
(* word there.                                                             *)

LEMMA PeriodCardinality == \A S : Period!Cardinality(S) = Cardinality(S)
BY Zenon DEF Period!Cardinality, Cardinality

(* One more bit in a word adds its image.                                  *)
LEMMA ApplyBit ==
  ASSUME bits \in Nat, NEW map \in [0 .. bits - 1 -> Word(bits)],
         NEW w \in Word(bits), NEW x \in 0 .. bits - 1, x \notin w
  PROVE  Period!Apply(map, w \cup {x}) = Xor(Period!Apply(map, w), map[x])
<1> DEFINE from(u, y) == {j \in u : y \in map[j]}
           odd(u, y) == Cardinality(from(u, y)) % 2 = 1
<1>1. \A u : Period!Apply(map, u) = {y \in 0 .. bits - 1 : odd(u, y)}
  BY PeriodCardinality DEF Period!Apply
<1>2. ASSUME NEW y \in 0 .. bits - 1
      PROVE  odd(w \cup {x}, y) <=> (odd(w, y) <=> y \notin map[x])
  <2>1. IsFiniteSet(from(w, y)) /\ Cardinality(from(w, y)) \in Nat
    <3>1. from(w, y) \in SUBSET (0 .. bits - 1)
      BY DEF Word
    <3>2. IsFiniteSet(0 .. bits - 1)
      <4>1. 0 \in Int /\ bits - 1 \in Int
        OBVIOUS
      <4>2. QED
        BY <4>1, FS_Interval, Zenon
    <3>3. IsFiniteSet(from(w, y))
      <4> HIDE DEF from
      <4>1. QED
        BY <3>1, <3>2, FS_Subset
    <3>4. QED
      <4> HIDE DEF from
      <4>1. QED
        BY <3>3, FS_CardinalityType
  <2>2. CASE y \in map[x]
    <3>1. from(w \cup {x}, y) = from(w, y) \cup {x} /\ x \notin from(w, y)
      BY <2>2
    <3>2. Cardinality(from(w \cup {x}, y)) = Cardinality(from(w, y)) + 1
      <4> HIDE DEF from
      <4>1. QED
        BY <2>1, <3>1, FS_AddElement
    <3>3. \A c \in Nat : (c + 1) % 2 = 1 <=> ~(c % 2 = 1)
      OBVIOUS
    <3>4. QED
      <4> HIDE DEF from
      <4>1. QED
        BY <2>1, <2>2, <3>2, <3>3
  <2>3. CASE y \notin map[x]
    <3>1. from(w \cup {x}, y) = from(w, y)
      BY <2>3
    <3>2. QED
      BY <2>3, <3>1
  <2>4. QED
    BY <2>2, <2>3
<1>3. map[x] \subseteq 0 .. bits - 1
  BY DEF Word
<1>4. QED
  <2> HIDE DEF odd
  <2>1. QED
    BY <1>1, <1>2, <1>3 DEF Xor

LEMMA ApplyAfter ==
  ASSUME bits \in Nat, NEW amounts \in Nat \X Nat \X Nat, NEW n \in Nat,
         NEW map \in [0 .. bits - 1 -> Word(bits)],
         \A x \in 0 .. bits - 1 : map[x] = After(amounts, bits, n, {x}),
         NEW w \in Word(bits)
  PROVE  Period!Apply(map, w) = After(amounts, bits, n, w)
<1> DEFINE T(u) == After(amounts, bits, n, u)
           Wrong(u) == u \in Word(bits) /\ Period!Apply(map, u) # T(u)
           Sizes == {c \in Nat : \E u \in Word(bits) : Wrong(u) /\ c = Cardinality(u)}
<1>1. \A u \in Word(bits) : IsFiniteSet(u) /\ Cardinality(u) \in Nat
  <2>1. IsFiniteSet(0 .. bits - 1)
    <3>1. 0 \in Int /\ bits - 1 \in Int
      OBVIOUS
    <3>2. QED
      BY <3>1, FS_Interval, Zenon
  <2>2. QED
    BY <2>1, FS_Subset, FS_CardinalityType DEF Word
<1> SUFFICES ASSUME Wrong(w) PROVE FALSE
  OBVIOUS
<1>2. PICK c \in Sizes : \A y \in Sizes : c <= y
  <2>1. Sizes \in SUBSET Nat /\ Cardinality(w) \in Sizes
    BY <1>1
  <2>2. QED
    <3> HIDE DEF Sizes
    <3>1. QED
      BY <2>1, Lowest
<1>3. PICK u \in Word(bits) : Wrong(u) /\ c = Cardinality(u)
  BY <1>2
<1>4. u # {}
  <2>1. Period!Apply(map, {}) = {}
    <3>1. \A y : {j \in {} : y \in map[j]} = {}
      OBVIOUS
    <3>2. Cardinality({}) = 0 /\ 0 % 2 # 1
      BY FS_EmptySet
    <3>3. QED
      BY <3>1, <3>2, PeriodCardinality DEF Period!Apply
  <2>2. QED
    BY <1>3, <2>1, AfterEmpty
<1>5. PICK x \in u : TRUE
  BY <1>4
<1> DEFINE r == u \ {x}
<1>6. /\ x \in 0 .. bits - 1 /\ r \in Word(bits) /\ {x} \in Word(bits)
      /\ x \notin r /\ r \cup {x} = u /\ Xor(r, {x}) = u
  BY <1>5 DEF Word, Xor
<1>7. ~Wrong(r)
  <2>1. Cardinality(r) = c - 1 /\ c \in Nat /\ Cardinality(r) \in Nat
    BY <1>1, <1>3, <1>5, <1>6, FS_RemoveElement
  <2>2. Cardinality(r) \notin Sizes
    <3>1. ~(c <= Cardinality(r))
      <4> HIDE DEF Sizes, r
      <4>1. QED
        BY <2>1
    <3>2. QED
      <4> HIDE DEF Sizes, r
      <4>1. QED
        BY <1>2, <3>1
  <2>3. QED
    BY <1>6, <2>1, <2>2
<1>8. Period!Apply(map, r) = T(r)
  BY <1>6, <1>7
<1>9. Period!Apply(map, u) = Xor(T(r), T({x}))
  <2>1. Period!Apply(map, r \cup {x}) = Xor(Period!Apply(map, r), map[x])
    <3> HIDE DEF r
    <3>1. QED
      BY <1>6, ApplyBit
  <2>2. QED
    BY <1>6, <1>8, <2>1
<1>10. T(u) = Xor(T(r), T({x}))
  <2>1. T(Xor(r, {x})) = Xor(T(r), T({x}))
    <3> HIDE DEF r
    <3>1. QED
      BY <1>6, AfterXor
  <2>2. QED
    BY <1>6, <2>1
<1>11. QED
  BY <1>3, <1>9, <1>10

-----------------------------------------------------------------------------
(* The machine of GeneratorPeriod: after k squarings power holds 2^k draws *)
(* and orbit the seed after as many draws as the last k digits of d say.   *)

PeriodCourse ==
  /\ PeriodRun
  /\ shift \in Nat \X Nat \X Nat
  /\ \A x \in 0 .. bits - 1 : power[x] = After(shift, bits, 2 ^ k, {x})
  /\ \A d \in DOMAIN orbit : orbit[d] = After(shift, bits, d % 2 ^ k, One)

LEMMA CourseNumbers ==
  ASSUME PeriodRun
  PROVE  /\ bits \in 4 .. 30 /\ bits \in Nat /\ k \in Nat /\ 2 ^ k \in Nat \ {0}
         /\ DOMAIN orbit \subseteq Nat
<1>1. bits \in 4 .. 30
  BY CaseBits DEF PeriodRun
<1>2. k \in Nat /\ bits \in Nat
  BY <1>1 DEF PeriodRun
<1>3. PICK n \in Nat : n = 2 ^ bits - 1
  BY <1>1, PowerOfTwo
<1>4. Period!Divisors(n) \subseteq Nat
  <2> DEFINE small == {d \in 1 .. 2 ^ 15 : n % d = 0}
  <2>1. PICK top \in Nat : top = 2 ^ 15
    <3>1. 15 \in Nat
      OBVIOUS
    <3>2. QED
      BY <3>1, PowerOfTwo
  <2>2. small \subseteq Nat \ {0}
    <3>1. small \subseteq 1 .. 2 ^ 15
      OBVIOUS
    <3>2. small \subseteq 1 .. top
      BY <2>1, <3>1
    <3>3. QED
      <4> HIDE DEF small
      <4>1. QED
        BY <3>2
  <2>3. \A d \in Nat \ {0} : n \div d \in Nat
    OBVIOUS
  <2>4. {n \div d : d \in small} \subseteq Nat
    <3> HIDE DEF small
    <3>1. QED
      BY <2>2, <2>3
  <2>5. Period!Divisors(n) = small \cup {n \div d : d \in small}
    BY DEF Period!Divisors
  <2>6. QED
    <3> HIDE DEF small
    <3>1. QED
      BY <2>2, <2>4, <2>5
<1>5. QED
  BY <1>1, <1>2, <1>3, <1>4, PowerOfTwo DEF PeriodRun

LEMMA PeriodShift ==
  ASSUME Period!Init
  PROVE  shift \in Nat \X Nat \X Nat
<1>1. PeriodRun
  BY PeriodInit
<1>2. copy \in Period!Copy /\ bits \in 4 .. 30
  BY <1>1, CaseBits DEF PeriodRun
<1>3. shift \in Period!Shifts(copy, bits)
  BY DEF Period!Init
<1>4. \/ shift \in ClassShifts(bits) \/ shift \in OpenCLShifts(bits)
      \/ shift = X64Macro(bits) \/ shift = ArmMacro(bits)
  BY <1>2, <1>3
  DEF Period!Copy, Period!Shifts, Period!ClassShifts, Period!CudaShifts, Period!OpenCLShifts,
      Period!X64Macro, Period!ArmMacro, Period!TableRow,
      ClassShifts, OpenCLShifts, X64Macro, ArmMacro, TableRow
<1>5. QED
  BY <1>2, <1>4, AllShifts

LEMMA PeriodBegins == Period!Init => PeriodCourse
<1> SUFFICES ASSUME Period!Init PROVE PeriodCourse
  OBVIOUS
<1>1. PeriodRun /\ shift \in Nat \X Nat \X Nat
  BY PeriodInit, PeriodShift
<1>2. bits \in Nat /\ DOMAIN orbit \subseteq Nat
  BY <1>1, CourseNumbers
<1>3. /\ k = 0 /\ power = [x \in 0 .. bits - 1 |-> Period!Draw(shift, bits, {x})]
      /\ orbit = [d \in Period!Divisors(2 ^ bits - 1) |-> Period!One]
  BY DEF Period!Init
<1>4. 2 ^ 0 = 1
  BY <1>2
<1>5. ASSUME NEW x \in 0 .. bits - 1 PROVE power[x] = After(shift, bits, 2 ^ k, {x})
  <2>1. {x} \in Word(bits)
    BY DEF Word
  <2>2. Period!Draw(shift, bits, {x}) = Draw(shift, bits, {x})
    BY Zenon
    DEF Period!Draw, Draw, Period!Xor, Xor, Period!ShiftRight, ShiftRight, Period!ShiftLeft, ShiftLeft
  <2>3. After(shift, bits, 0 + 1, {x}) = Draw(shift, bits, After(shift, bits, 0, {x}))
    BY <1>1, <1>2, <2>1, AfterNext
  <2>4. After(shift, bits, 0, {x}) = {x} /\ 0 + 1 = 1
    BY <1>1, <1>2, <2>1, AfterNext
  <2>5. QED
    BY <1>3, <1>4, <2>2, <2>3, <2>4
<1>6. ASSUME NEW d \in DOMAIN orbit PROVE orbit[d] = After(shift, bits, d % 2 ^ k, One)
  <2>1. One \in Word(bits) /\ Period!One = One
    BY <1>1, CourseNumbers, OneWord DEF Period!One, One
  <2>2. d \in Nat /\ d % 1 = 0
    BY <1>2
  <2>3. After(shift, bits, 0, One) = One
    BY <1>1, <1>2, <2>1, AfterNext
  <2>4. QED
    BY <1>3, <1>4, <2>1, <2>2, <2>3
<1>7. QED
  BY <1>1, <1>5, <1>6 DEF PeriodCourse

(* One more binary digit.                                                  *)
LEMMA NextDigit ==
  ASSUME NEW d \in Nat, NEW p \in Nat \ {0}
  PROVE  d % (2 * p) = IF (d \div p) % 2 = 1 THEN p + (d % p) ELSE d % p
<1>1. PICK q \in Nat, r \in 0 .. p - 1 : d = p * q + r /\ q = d \div p /\ r = d % p
  <2>1. PICK q \in Nat : q = d \div p /\ p * q <= d /\ d < p * q + p
    OBVIOUS
  <2>2. PICK r \in 0 .. p - 1 : r = d - p * q
    BY <2>1
  <2>3. d = p * q + r
    BY <2>1, <2>2
  <2>4. (p * q + r) % p = r
    BY Quotient
  <2>5. QED
    BY <2>1, <2>3, <2>4
<1>2. PICK s \in Nat, e \in {0, 1} : q = 2 * s + e /\ e = q % 2
  <2>1. PICK s \in Nat : s = q \div 2 /\ (q = 2 * s \/ q = 2 * s + 1)
    OBVIOUS
  <2>2. q % 2 = IF q = 2 * s THEN 0 ELSE 1
    BY <2>1
  <2>3. QED
    BY <2>1, <2>2
<1>3. PICK P \in Nat \ {0} : P = 2 * p
  OBVIOUS
<1>4. CASE e = 0
  <2>1. d = P * s + r /\ r \in 0 .. P - 1
    <3>1. p * (2 * s) = P * s
      BY <1>3
    <3>2. q = 2 * s
      BY <1>2, <1>4
    <3>3. p * q = P * s
      BY <3>1, <3>2
    <3>4. QED
      BY <1>1, <1>3, <3>3
  <2>2. (P * s + r) % P = r
    BY <2>1, Quotient
  <2>3. d % (2 * p) = r
    BY <1>3, <2>1, <2>2
  <2>4. QED
    BY <1>1, <1>2, <1>4, <2>3
<1>5. CASE e = 1
  <2>1. d = P * s + (p + r) /\ p + r \in 0 .. P - 1
    <3>1. p * (2 * s + 1) = P * s + p
      BY <1>3
    <3>2. q = 2 * s + 1
      BY <1>2, <1>5
    <3>3. p * q = P * s + p
      BY <3>1, <3>2
    <3>4. P * s \in Nat
      OBVIOUS
    <3>5. QED
      BY <1>1, <1>3, <3>3, <3>4
  <2>2. (P * s + (p + r)) % P = p + r
    BY <2>1, Quotient
  <2>3. d % (2 * p) = p + r
    BY <1>3, <2>1, <2>2
  <2>4. QED
    BY <1>1, <1>2, <1>5, <2>3
<1>6. QED
  BY <1>2, <1>4, <1>5

LEMMA PeriodGoesOn == PeriodCourse /\ [Period!Next]_periodVars => PeriodCourse'
<1> SUFFICES ASSUME PeriodCourse, [Period!Next]_periodVars PROVE PeriodCourse'
  OBVIOUS
<1>0. PeriodRun /\ PeriodRun'
  BY PeriodStep DEF PeriodCourse
<1>1. CASE Period!Square
  <2>1. /\ k < bits /\ k' = k + 1 /\ bits' = bits /\ shift' = shift
        /\ power' = [x \in DOMAIN power |-> Period!Apply(power, power[x])]
        /\ orbit' = [d \in DOMAIN orbit |->
                       IF (d \div 2 ^ k) % 2 = 1 THEN Period!Apply(power, orbit[d]) ELSE orbit[d]]
    BY <1>1 DEF Period!Square
  <2>2. /\ bits \in Nat \ {0} /\ k \in Nat /\ DOMAIN orbit \subseteq Nat
        /\ shift \in Nat \X Nat \X Nat
        /\ power \in [0 .. bits - 1 -> Word(bits)] /\ orbit \in [DOMAIN orbit -> Word(bits)]
    <3>1. /\ bits \in 4 .. 30 /\ k \in Nat /\ DOMAIN orbit \subseteq Nat
      BY <1>0, CourseNumbers
    <3>2. /\ shift \in Nat \X Nat \X Nat
          /\ power \in [0 .. bits - 1 -> Word(bits)] /\ orbit \in [DOMAIN orbit -> Word(bits)]
      BY <1>0 DEF PeriodCourse, PeriodRun
    <3>3. bits \in Nat \ {0}
      BY <3>1
    <3>4. QED
      BY <3>1, <3>2, <3>3
  <2>3. PICK p \in Nat \ {0} : p = 2 ^ k /\ 2 ^ k' = 2 * p /\ 2 * p = p + p
    <3>1. 2 ^ k \in Nat \ {0} /\ 2 ^ (k + 1) = 2 * 2 ^ k
      BY <2>2, PowerOfTwo, PowerDoubles
    <3>2. PICK p \in Nat \ {0} : p = 2 ^ k
      BY <3>1
    <3>3. 2 * p = p + p
      OBVIOUS
    <3>4. QED
      BY <2>1, <3>1, <3>2, <3>3
  <2>4. /\ \A x \in 0 .. bits - 1 : power[x] = After(shift, bits, p, {x})
        /\ \A d \in DOMAIN orbit : orbit[d] = After(shift, bits, d % p, One)
    BY <2>3 DEF PeriodCourse
  <2>5. \A w \in Word(bits) : Period!Apply(power, w) = After(shift, bits, p, w)
    BY <2>2, <2>4, ApplyAfter
  <2>6. ASSUME NEW x \in 0 .. bits - 1 PROVE power'[x] = After(shift, bits, 2 * p, {x})
    <3>1. power[x] \in Word(bits) /\ {x} \in Word(bits)
      BY <2>2 DEF Word
    <3>2. power'[x] = After(shift, bits, p, After(shift, bits, p, {x}))
      BY <2>1, <2>2, <2>4, <2>5, <3>1
    <3>3. After(shift, bits, p + p, {x}) = After(shift, bits, p, After(shift, bits, p, {x}))
      BY <2>2, <3>1, AfterSum
    <3>4. QED
      BY <2>3, <3>2, <3>3
  <2>7. ASSUME NEW d \in DOMAIN orbit PROVE orbit'[d] = After(shift, bits, d % (2 * p), One)
    <3>1. d \in Nat /\ d % p \in Nat /\ One \in Word(bits) /\ orbit[d] \in Word(bits)
      BY <2>2, OneWord
    <3>2. CASE (d \div p) % 2 = 1
      <4>1. orbit'[d] = After(shift, bits, p, After(shift, bits, d % p, One))
        BY <2>1, <2>3, <2>4, <2>5, <3>1, <3>2
      <4>2. After(shift, bits, p + (d % p), One) = After(shift, bits, p, After(shift, bits, d % p, One))
        BY <2>2, <3>1, AfterSum
      <4>3. d % (2 * p) = p + (d % p)
        BY <3>1, <3>2, NextDigit
      <4>4. QED
        BY <4>1, <4>2, <4>3
    <3>3. CASE (d \div p) % 2 # 1
      <4>1. orbit'[d] = After(shift, bits, d % p, One)
        BY <2>1, <2>3, <2>4, <3>3
      <4>2. d % (2 * p) = d % p
        BY <3>1, <3>3, NextDigit
      <4>3. QED
        BY <4>1, <4>2
    <3>4. QED
      BY <3>2, <3>3
  <2>8. DOMAIN orbit' = DOMAIN orbit
    BY <2>1
  <2>9. QED
    BY <1>0, <2>1, <2>2, <2>3, <2>6, <2>7, <2>8 DEF PeriodCourse
<1>2. CASE UNCHANGED periodVars \/ (k = bits /\ UNCHANGED Period!vars)
  <2>1. k' = k /\ bits' = bits /\ shift' = shift /\ power' = power /\ orbit' = orbit
    BY <1>2 DEF periodVars, Period!vars
  <2>2. QED
    BY <1>0, <2>1 DEF PeriodCourse
<1>3. QED
  BY <1>1, <1>2 DEF Period!Next

-----------------------------------------------------------------------------
(* The divisors GeneratorPeriod looks at are all there are: of two numbers *)
(* whose product is below 2^30 one is at most 2^15.                        *)

LEMMA PowerSum ==
  ASSUME NEW m \in Nat, NEW n \in Nat
  PROVE  2 ^ (m + n) = 2 ^ m * 2 ^ n
<1> DEFINE Bad == {x \in Nat : 2 ^ (m + x) # 2 ^ m * 2 ^ x}
<1> SUFFICES ASSUME n \in Bad PROVE FALSE
  OBVIOUS
<1>1. PICK x \in Bad : \A y \in Bad : x <= y
  <2>1. Bad \in SUBSET Nat /\ Bad # {}
    OBVIOUS
  <2>2. QED
    <3> HIDE DEF Bad
    <3>1. QED
      BY <2>1, Lowest
<1>2. x \in Nat /\ 2 ^ (m + x) # 2 ^ m * 2 ^ x
  BY <1>1
<1>3. x # 0
  <2>1. 2 ^ 0 = 1 /\ m + 0 = m /\ 2 ^ m \in Nat
    BY PowerOfTwo
  <2>2. 2 ^ (m + 0) = 2 ^ m * 2 ^ 0
    BY <2>1
  <2>3. QED
    BY <1>2, <2>2
<1>4. PICK y \in Nat : x = y + 1 /\ m + x = (m + y) + 1 /\ ~(x <= y)
  <2>1. x - 1 \in Nat /\ x = (x - 1) + 1 /\ m + x = (m + (x - 1)) + 1 /\ ~(x <= x - 1)
    BY <1>2, <1>3
  <2>2. QED
    BY <2>1
<1>5. 2 ^ (m + y) = 2 ^ m * 2 ^ y
  BY <1>1, <1>4
<1>6. 2 ^ (m + x) = 2 * 2 ^ (m + y) /\ 2 ^ x = 2 * 2 ^ y
  BY <1>4, PowerDoubles
<1>7. PICK a \in Nat, b \in Nat : a = 2 ^ m /\ b = 2 ^ y
  BY PowerOfTwo
<1>8. 2 * (a * b) = a * (2 * b)
  OBVIOUS
<1>9. QED
  BY <1>2, <1>5, <1>6, <1>7, <1>8

LEMMA AllDivisors ==
  ASSUME NEW size \in 4 .. 30, NEW N \in Nat, N = 2 ^ size - 1
  PROVE  /\ N > 0 /\ Period!Divisors(N) \subseteq 1 .. N
         /\ \A e \in 1 .. N : N % e = 0 => e \in Period!Divisors(N)
<1>1. PICK top \in Nat \ {0} : top = 2 ^ 15
  <2>1. 15 \in Nat
    OBVIOUS
  <2>2. QED
    BY <2>1, PowerOfTwo
<1>2. N < top * top /\ N > 0
  <2>1. 15 \in Nat /\ 15 + 15 = 30 /\ size \in Nat /\ 30 - size \in Nat /\ size + (30 - size) = 30
    OBVIOUS
  <2>2. 2 ^ 30 = top * top
    BY <1>1, <2>1, PowerSum
  <2>3. PICK a \in Nat \ {0}, b \in Nat \ {0} : a = 2 ^ size /\ b = 2 ^ (30 - size)
    BY <2>1, PowerOfTwo
  <2>4. 2 ^ 30 = a * b
    BY <2>1, <2>3, PowerSum
  <2>5. a <= a * b
    <3>1. a * 1 <= a * b
      OBVIOUS
    <3>2. QED
      BY <3>1
  <2>6. a > 1
    <3>1. size - 1 \in Nat /\ (size - 1) + 1 = size
      OBVIOUS
    <3>2. 2 ^ ((size - 1) + 1) = 2 * 2 ^ (size - 1) /\ 2 ^ (size - 1) \in Nat \ {0}
      BY <3>1, PowerDoubles, PowerOfTwo
    <3>3. PICK c \in Nat \ {0} : c = 2 ^ (size - 1)
      BY <3>2
    <3>4. a = 2 * c
      BY <2>3, <3>1, <3>2, <3>3
    <3>5. QED
      BY <3>4
  <2>7. N = a - 1
    BY <2>3
  <2>8. a <= top * top
    BY <2>2, <2>4, <2>5
  <2>9. top * top \in Nat
    OBVIOUS
  <2>10. QED
    BY <2>6, <2>7, <2>8, <2>9
<1> DEFINE small == {d \in 1 .. top : N % d = 0}
<1>4. Period!Divisors(N) = small \cup {N \div d : d \in small}
  <2> DEFINE few == {d \in 1 .. 2 ^ 15 : N % d = 0}
  <2>1. few = small
    BY <1>1, Zenon
  <2>2. Period!Divisors(N) = few \cup {N \div d : d \in few}
    BY DEF Period!Divisors
  <2>3. QED
    <3> HIDE DEF few, small
    <3>1. QED
      BY <2>1, <2>2
<1>5. ASSUME NEW d \in Nat \ {0}, N % d = 0
      PROVE  /\ N \div d \in 1 .. N /\ d <= N /\ N % (N \div d) = 0 /\ N \div (N \div d) = d
             /\ d * (N \div d) = N
  <2>1. PICK q \in Nat : q = N \div d /\ d * q = N
    <3>1. PICK q \in Nat : q = N \div d /\ d * q <= N /\ N < d * q + d /\ N % d = N - d * q
      OBVIOUS
    <3>2. QED
      BY <1>5, <3>1
  <2>2. q # 0
    BY <1>2, <2>1
  <2>3. q <= N /\ d <= N
    <3>1. 1 * q <= d * q /\ d * 1 <= d * q
      BY <2>2
    <3>2. QED
      BY <2>1, <3>1
  <2>4. q * d = N /\ (q * d + 0) \div q = d /\ (q * d + 0) % q = 0
    <3>1. q \in Nat \ {0} /\ 0 \in 0 .. q - 1 /\ q * d = d * q
      BY <2>2
    <3>2. QED
      BY <2>1, <3>1, Quotient
  <2>5. q * d + 0 = N
    BY <2>4
  <2>6. QED
    BY <2>1, <2>2, <2>3, <2>4, <2>5
<1>6. Period!Divisors(N) \subseteq 1 .. N
  <2>1. \A d \in small : d \in Nat \ {0} /\ N % d = 0
    BY <1>1
  <2>2. \A d \in small : d \in 1 .. N /\ N \div d \in 1 .. N
    <3> HIDE DEF small
    <3>1. QED
      BY <1>5, <2>1
  <2>3. QED
    <3> HIDE DEF small
    <3>1. QED
      BY <1>4, <2>2
<1>7. ASSUME NEW e \in 1 .. N, N % e = 0 PROVE e \in Period!Divisors(N)
  <2>1. CASE e <= top
    <3>1. e \in small
      BY <1>1, <1>7, <2>1
    <3>2. QED
      <4> HIDE DEF small
      <4>1. QED
        BY <1>4, <3>1
  <2>2. CASE e > top
    <3>1. PICK q \in 1 .. N : q = N \div e /\ N % q = 0 /\ N \div q = e /\ e * q = N
      <4>1. e \in Nat \ {0}
        OBVIOUS
      <4>2. /\ N \div e \in 1 .. N /\ N % (N \div e) = 0 /\ N \div (N \div e) = e
            /\ e * (N \div e) = N
        BY <1>5, <1>7, <4>1
      <4>3. QED
        BY <4>2
    <3>2. q <= top
      <4> SUFFICES ASSUME q > top PROVE FALSE
        BY <1>1
      <4>1. top * top <= e * q
        <5>1. top * top <= e * top
          BY <2>2
        <5>2. e * top <= e * q
          OBVIOUS
        <5>3. top * top \in Nat /\ e * top \in Nat /\ e * q \in Nat
          OBVIOUS
        <5>4. QED
          BY <5>1, <5>2, <5>3
      <4>2. top * top \in Nat
        OBVIOUS
      <4>3. QED
        BY <1>2, <3>1, <4>1, <4>2
    <3>3. q \in small
      <4>1. q \in 1 .. top
        BY <1>1, <3>2
      <4>2. N % q = 0
        BY <3>1
      <4>3. QED
        BY <4>1, <4>2, Zenon
    <3>4. QED
      <4> HIDE DEF small
      <4>1. QED
        BY <1>4, <3>1, <3>3
  <2>3. QED
    BY <1>1, <2>1, <2>2
<1>8. QED
  BY <1>2, <1>6, <1>7

-----------------------------------------------------------------------------
(* If the seed returns after 2^size - 1 draws, and after no smaller number *)
(* that divides this, the generator has a full period; and the other way   *)
(* round.                                                                  *)

LEMMA AfterTimes ==
  ASSUME NEW size \in Nat, NEW amounts \in Nat \X Nat \X Nat, NEW v \in Word(size),
         NEW p \in Nat, After(amounts, size, p, v) = v, NEW q \in Nat
  PROVE  After(amounts, size, p * q, v) = v
<1> DEFINE Bad == {x \in Nat : After(amounts, size, p * x, v) # v}
<1> SUFFICES ASSUME q \in Bad PROVE FALSE
  OBVIOUS
<1>1. PICK x \in Bad : \A y \in Bad : x <= y
  <2>1. Bad \in SUBSET Nat /\ Bad # {}
    OBVIOUS
  <2>2. QED
    <3> HIDE DEF Bad
    <3>1. QED
      BY <2>1, Lowest
<1>2. x \in Nat /\ After(amounts, size, p * x, v) # v
  BY <1>1
<1>3. x # 0
  <2>1. p * 0 = 0
    OBVIOUS
  <2>2. QED
    BY <1>2, <2>1, AfterNext
<1>4. PICK y \in Nat : x = y + 1 /\ ~(x <= y)
  <2>1. x - 1 \in Nat /\ x = (x - 1) + 1 /\ ~(x <= x - 1)
    BY <1>2, <1>3
  <2>2. QED
    BY <2>1
<1>5. After(amounts, size, p * y, v) = v
  BY <1>1, <1>4
<1>6. p * x = p + p * y /\ p * y \in Nat
  BY <1>4
<1>7. After(amounts, size, p + p * y, v) = After(amounts, size, p, After(amounts, size, p * y, v))
  BY <1>6, AfterSum
<1>8. QED
  BY <1>2, <1>5, <1>6, <1>7

LEMMA FullIsWhole ==
  ASSUME NEW size \in 4 .. 30, NEW amounts \in Nat \X Nat \X Nat, NEW N \in Nat, N = 2 ^ size - 1,
         After(amounts, size, N, One) = One,
         \A e \in 1 .. N : N % e = 0 /\ After(amounts, size, e, One) = One => e = N
  PROVE  Whole(amounts, size)
<1> DEFINE A(n) == After(amounts, size, n, One)
           Back == {e \in 1 .. N : A(e) = One}
<1>1. size \in Nat /\ size \in Nat \ {0} /\ One \in Word(size) /\ N > 0
  <2>1. size \in Nat /\ size \in Nat \ {0}
    OBVIOUS
  <2>2. QED
    BY <2>1, OneWord, AllDivisors
<1>2. /\ A(0) = One
      /\ \A n \in Nat : A(n) \in Word(size) /\ A(n + 1) = Draw(amounts, size, A(n))
      /\ \A m, n \in Nat : A(m + n) = After(amounts, size, m, A(n))
  <2>1. A(0) = One /\ \A n \in Nat : A(n + 1) = Draw(amounts, size, A(n))
    BY <1>1, AfterNext
  <2>2. \A n \in Nat : A(n) \in Word(size)
    BY <1>1, AfterWord
  <2>3. \A m, n \in Nat : A(m + n) = After(amounts, size, m, A(n))
    BY <1>1, AfterSum
  <2>4. QED
    BY <2>1, <2>2, <2>3
<1>3. A(N) = One
  OBVIOUS
<1>4. PICK p \in Back : \A e \in Back : p <= e
  <2>1. Back \in SUBSET Nat /\ N \in Back
    BY <1>1
  <2>2. QED
    <3> HIDE DEF Back
    <3>1. QED
      BY <2>1, Lowest
<1>5. p \in 1 .. N /\ A(p) = One
  BY <1>4
<1>6. PICK q \in Nat, r \in 0 .. p - 1 : N = p * q + r /\ r = N % p
  <2>1. PICK q \in Nat : q = N \div p /\ p * q <= N /\ N < p * q + p
    BY <1>5
  <2>2. PICK r \in 0 .. p - 1 : r = N - p * q
    BY <1>5, <2>1
  <2>3. N = p * q + r
    BY <1>5, <2>1, <2>2
  <2>4. (p * q + r) % p = r
    <3>1. p \in Nat \ {0}
      BY <1>5
    <3>2. QED
      BY <3>1, Quotient
  <2>5. QED
    BY <2>3, <2>4
<1>7. A(r) = One
  <2>1. p * q \in Nat /\ r \in Nat /\ p * q + r = r + p * q
    BY <1>5
  <2>2. A(p * q) = One
    BY <1>1, <1>5, AfterTimes
  <2>3. A(r + p * q) = After(amounts, size, r, A(p * q))
    BY <1>2, <2>1
  <2>4. QED
    BY <1>3, <1>6, <2>1, <2>2, <2>3
<1>8. p = N
  <2>1. r \notin Back
    <3>1. ~(p <= r)
      BY <1>5
    <3>2. QED
      <4> HIDE DEF Back
      <4>1. QED
        BY <1>4, <3>1
  <2>2. r = 0
    <3>1. r \notin 1 .. N
      BY <1>7, <2>1
    <3>2. r <= N
      BY <1>5
    <3>3. QED
      BY <3>1, <3>2
  <2>3. QED
    BY <1>5, <1>6, <2>2
<1>9. ASSUME NEW m \in 0 .. N - 1, A(m) = {} PROVE FALSE
  <2>1. m \in Nat /\ N - m \in Nat /\ (N - m) + m = N
    OBVIOUS
  <2>2. A(N) = After(amounts, size, N - m, A(m))
    BY <1>2, <2>1
  <2>3. After(amounts, size, N - m, {}) = {}
    BY <1>1, <2>1, AfterEmpty
  <2>4. QED
    BY <1>3, <1>9, <2>2, <2>3 DEF One
<1>10. ASSUME NEW a \in 0 .. N - 1, NEW b \in 0 .. N - 1, a < b, A(a) = A(b) PROVE FALSE
  <2>1. a \in Nat /\ b \in Nat /\ N - b \in Nat /\ (N - b) + b = N
    OBVIOUS
  <2>2. A(N) = After(amounts, size, N - b, A(b)) /\ A((N - b) + a) = After(amounts, size, N - b, A(a))
    <3>1. A((N - b) + b) = After(amounts, size, N - b, A(b))
      BY <1>2, <2>1
    <3>2. A((N - b) + a) = After(amounts, size, N - b, A(a))
      BY <1>2, <2>1
    <3>3. QED
      <4> HIDE DEF A
      <4>1. QED
        BY <2>1, <3>1, <3>2
  <2>3. A((N - b) + a) = One
    BY <1>3, <1>10, <2>2
  <2>4. (N - b) + a \in 1 .. N /\ ~(p <= (N - b) + a)
    BY <1>8, <1>10
  <2>5. QED
    BY <1>4, <2>3, <2>4
<1> HIDE DEF A
<1> DEFINE g == [m \in 0 .. N - 1 |-> A(m)]
           D == Nonzero(size)
<1>11. IsFiniteSet(D) /\ Cardinality(D) = N
  <2>1. <<1, 1, 1>> \in (Nat \ {0}) \X (Nat \ {0}) \X (Nat \ {0})
    OBVIOUS
  <2>2. QED
    BY <1>1, <2>1, NonzeroFacts
<1>12. g \in [0 .. N - 1 -> D]
  <2>1. ASSUME NEW m \in 0 .. N - 1 PROVE A(m) \in Word(size) /\ A(m) # {}
    <3>1. m \in Nat
      OBVIOUS
    <3>2. QED
      BY <1>2, <1>9, <3>1
  <2>2. QED
    BY <2>1 DEF Nonzero
<1>13. \A a, b \in 0 .. N - 1 : g[a] = g[b] => a = b
  <2> SUFFICES ASSUME NEW a \in 0 .. N - 1, NEW b \in 0 .. N - 1, g[a] = g[b], a # b PROVE FALSE
    OBVIOUS
  <2>1. A(a) = A(b) /\ (a < b \/ b < a)
    OBVIOUS
  <2>2. QED
    BY <1>10, <2>1
<1>14. g \in Injection(0 .. N - 1, D)
  <2> HIDE DEF g, D
  <2>1. QED
    BY <1>12, <1>13, Fun_IsInj, Zenon
<1>15. Cardinality(0 .. N - 1) = N
  <2>1. 0 \in Int /\ N - 1 \in Int
    OBVIOUS
  <2>2. Cardinality(0 .. N - 1) = IF 0 > N - 1 THEN 0 ELSE N - 1 - 0 + 1
    BY <2>1, FS_Interval, Zenon
  <2>3. QED
    BY <1>1, <2>2
<1>16. g \in Surjection(0 .. N - 1, D)
  <2>1. Cardinality(0 .. N - 1) = Cardinality(D)
    BY <1>11, <1>15
  <2> HIDE DEF g, D
  <2>2. QED
    BY <1>11, <1>14, <2>1, FS_Injection, Zenon
<1>17. \A w \in D : \E m \in 0 .. N - 1 : A(m) = w
  <2>1. \A w \in D : \E m \in 0 .. N - 1 : g[m] = w
    <3> HIDE DEF g, D
    <3>1. QED
      BY <1>16, Fun_SurjectionProperties
  <2>2. QED
    BY <2>1
<1>18. ASSUME NEW S \in SUBSET Word(size), One \in S, \A u \in S : Draw(amounts, size, u) \in S
       PROVE  Word(size) \ {{}} \subseteq S
  <2> DEFINE Out == {m \in Nat : A(m) \notin S}
  <2>1. Out = {}
    <3> SUFFICES ASSUME Out # {} PROVE FALSE
      OBVIOUS
    <3>1. PICK m \in Out : \A y \in Out : m <= y
      <4>1. Out \in SUBSET Nat
        OBVIOUS
      <4>2. QED
        <5> HIDE DEF Out
        <5>1. QED
          BY <4>1, Lowest
    <3>2. m \in Nat /\ A(m) \notin S
      BY <3>1
    <3>3. m # 0
      BY <1>2, <1>18, <3>2
    <3>4. m - 1 \in Nat /\ ~(m <= m - 1) /\ (m - 1) + 1 = m
      BY <3>2, <3>3
    <3>5. A(m - 1) \in S
      BY <3>1, <3>4
    <3>6. A(m) = Draw(amounts, size, A(m - 1))
      BY <1>2, <3>4
    <3>7. QED
      BY <1>18, <3>2, <3>5, <3>6
  <2>2. \A m \in 0 .. N - 1 : A(m) \in S
    BY <2>1
  <2>3. QED
    BY <1>17, <2>2 DEF Nonzero
<1>19. QED
  BY <1>18 DEF Whole

(* A generator that shifts by 0 goes to 0 at once.                         *)
LEMMA NoShift ==
  ASSUME NEW size \in Nat, NEW amounts \in Nat \X Nat \X Nat, NEW w \in Word(size),
         amounts \notin (Nat \ {0}) \X (Nat \ {0}) \X (Nat \ {0})
  PROVE  Draw(amounts, size, w) = {}
<1> DEFINE a == Xor(w, ShiftRight(w, amounts[1], size))
           b == Xor(a, ShiftLeft(a, amounts[2], size))
<1>0. /\ amounts = <<amounts[1], amounts[2], amounts[3]>>
      /\ amounts[1] \in Nat /\ amounts[2] \in Nat /\ amounts[3] \in Nat
  OBVIOUS
<1>1. \A u \in Word(size) : /\ Xor(u, ShiftRight(u, 0, size)) = {}
                            /\ Xor(u, ShiftLeft(u, 0, size)) = {}
  <2> SUFFICES ASSUME NEW u \in Word(size)
               PROVE  ShiftRight(u, 0, size) = u /\ ShiftLeft(u, 0, size) = u
    BY DEF Xor
  <2>1. u \subseteq 0 .. size - 1 /\ \A y \in 0 .. size - 1 : y + 0 = y /\ y - 0 = y /\ y >= 0
    BY DEF Word
  <2>2. QED
    BY <2>1 DEF ShiftRight, ShiftLeft
<1>2. \A n : Xor({}, ShiftRight({}, n, size)) = {} /\ Xor({}, ShiftLeft({}, n, size)) = {}
  BY DEF Xor, ShiftRight, ShiftLeft
<1>3. a \in Word(size)
  BY <1>0, ShiftWord, XorWord
<1>4. b \in Word(size)
  <2> HIDE DEF a
  <2>1. QED
    BY <1>0, <1>3, ShiftWord, XorWord
<1>5. Draw(amounts, size, w) = Xor(b, ShiftRight(b, amounts[3], size))
  BY DEF Draw
<1>6. amounts[1] = 0 => a = {}
  BY <1>1
<1>7. amounts[2] = 0 \/ a = {} => b = {}
  <2> HIDE DEF a
  <2>1. QED
    BY <1>1, <1>2, <1>3
<1>8. amounts[1] = 0 \/ amounts[2] = 0 \/ amounts[3] = 0
  BY <1>0
<1>9. QED
  <2> HIDE DEF a, b
  <2>1. QED
    BY <1>1, <1>2, <1>4, <1>5, <1>6, <1>7, <1>8

LEMMA WholeIsFull ==
  ASSUME NEW size \in 4 .. 30, NEW amounts \in Nat \X Nat \X Nat, NEW N \in Nat, N = 2 ^ size - 1,
         Whole(amounts, size)
  PROVE  /\ After(amounts, size, N, One) = One
         /\ \A e \in 1 .. N : After(amounts, size, e, One) = One => e = N
<1>1. size \in Nat /\ size \in Nat \ {0} /\ One \in Word(size) /\ N > 0
  <2>1. size \in Nat /\ size \in Nat \ {0}
    OBVIOUS
  <2>2. QED
    BY <2>1, OneWord, AllDivisors
<1>2. amounts \in (Nat \ {0}) \X (Nat \ {0}) \X (Nat \ {0})
  <2> SUFFICES ASSUME amounts \notin (Nat \ {0}) \X (Nat \ {0}) \X (Nat \ {0}) PROVE FALSE
    OBVIOUS
  <2> DEFINE S == {One, {}}
  <2>1. {} \in Word(size) /\ {1} \in Word(size) /\ {1} \notin S /\ {1} # {}
    BY DEF Word, One
  <2>2. \A u \in S : Draw(amounts, size, u) \in S
    BY <1>1, <2>1, NoShift
  <2>3. S \in SUBSET Word(size) /\ One \in S
    BY <1>1, <2>1
  <2>4. QED
    <3> HIDE DEF S
    <3>1. QED
      BY <2>1, <2>2, <2>3 DEF Whole
<1> DEFINE h == [n \in 0 .. N |-> After(amounts, size, n, One)]
<1>3. Walk(amounts, size, h, N)
  <2>1. ASSUME NEW n \in 0 .. N PROVE After(amounts, size, n, One) \in Nonzero(size)
    <3> DEFINE Out == {m \in Nat : After(amounts, size, m, One) \notin Nonzero(size)}
    <3> SUFFICES ASSUME n \in Out PROVE FALSE
      OBVIOUS
    <3>1. PICK m \in Out : \A y \in Out : m <= y
      <4>1. Out \in SUBSET Nat /\ Out # {}
        OBVIOUS
      <4>2. QED
        <5> HIDE DEF Out
        <5>1. QED
          BY <4>1, Lowest
    <3>2. m \in Nat /\ After(amounts, size, m, One) \notin Nonzero(size)
      BY <3>1
    <3>3. m # 0
      BY <1>1, <1>2, <3>2, AfterNext, NonzeroFacts
    <3>4. m - 1 \in Nat /\ ~(m <= m - 1) /\ (m - 1) + 1 = m
      BY <3>2, <3>3
    <3>5. After(amounts, size, m - 1, One) \in Nonzero(size)
      BY <3>1, <3>4
    <3>6. After(amounts, size, (m - 1) + 1, One) = Draw(amounts, size, After(amounts, size, m - 1, One))
      BY <1>1, <3>4, AfterNext
    <3>7. QED
      BY <1>1, <1>2, <3>2, <3>4, <3>5, <3>6, NonzeroFacts
  <2>2. ASSUME NEW l \in 1 .. N PROVE h[l] = Draw(amounts, size, h[l - 1])
    <3>1. l \in 0 .. N /\ l - 1 \in 0 .. N /\ l - 1 \in Nat /\ (l - 1) + 1 = l
      OBVIOUS
    <3>2. After(amounts, size, (l - 1) + 1, One) = Draw(amounts, size, After(amounts, size, l - 1, One))
      BY <1>1, <3>1, AfterNext
    <3>3. QED
      BY <3>1, <3>2
  <2>3. h \in [0 .. N -> Nonzero(size)]
    BY <2>1
  <2>4. QED
    <3> HIDE DEF h
    <3>1. QED
      BY <2>2, <2>3 DEF Walk
<1>4. h[0] = One /\ \A e \in 1 .. N : h[e] = After(amounts, size, e, One)
  BY <1>1, AfterNext
<1> HIDE DEF h
<1>5. h[N] = h[0]
  BY <1>1, <1>2, <1>3, Returns
<1>6. ASSUME NEW e \in 1 .. N, h[e] = h[0] PROVE e = N
  BY <1>1, <1>2, <1>3, <1>6, NoEarlyReturn
<1>7. QED
  BY <1>1, <1>4, <1>5, <1>6

(* Once the last square has been made, GeneratorPeriod finds a full period *)
(* if and only if the generator comes from the seed to every word but 0.   *)
LEMMA PeriodDecides ==
  ASSUME PeriodCourse, k = bits
  PROVE  Period!FullPeriod <=> Whole(shift, bits)
<1>1. bits \in 4 .. 30 /\ shift \in Nat \X Nat \X Nat
  BY CourseNumbers DEF PeriodCourse
<1>2. PICK N \in Nat : N = 2 ^ bits - 1 /\ 2 ^ bits = N + 1
  <2>1. bits \in Nat
    BY <1>1
  <2>2. QED
    BY <2>1, PowerOfTwo
<1>3. /\ N > 0 /\ DOMAIN orbit \subseteq 1 .. N
      /\ \A e \in 1 .. N : N % e = 0 => e \in DOMAIN orbit
  <2>1. DOMAIN orbit = Period!Divisors(N)
    BY <1>2 DEF PeriodCourse, PeriodRun
  <2>2. QED
    BY <1>1, <1>2, <2>1, AllDivisors
<1>4. \A d \in DOMAIN orbit : orbit[d] = After(shift, bits, d, One)
  <2>1. \A d \in 1 .. N : d % (N + 1) = d
    OBVIOUS
  <2>2. QED
    BY <1>2, <1>3, <2>1 DEF PeriodCourse
<1>5. Period!FullPeriod <=> {d \in DOMAIN orbit : orbit[d] = One} = {N}
  BY <1>2 DEF Period!FullPeriod, Period!One, One
<1>6. N \in 1 .. N /\ N % N = 0
  BY <1>3
<1>7. ASSUME Period!FullPeriod PROVE Whole(shift, bits)
  <2>1. After(shift, bits, N, One) = One
    BY <1>4, <1>5, <1>7
  <2>2. \A e \in 1 .. N : N % e = 0 /\ After(shift, bits, e, One) = One => e = N
    BY <1>3, <1>4, <1>5, <1>7
  <2>3. QED
    BY <1>1, <1>2, <2>1, <2>2, FullIsWhole
<1>8. ASSUME Whole(shift, bits) PROVE Period!FullPeriod
  <2>1. /\ After(shift, bits, N, One) = One
        /\ \A e \in 1 .. N : After(shift, bits, e, One) = One => e = N
    BY <1>1, <1>2, <1>8, WholeIsFull
  <2>2. QED
    BY <1>3, <1>4, <1>5, <1>6, <2>1
<1>9. QED
  BY <1>7, <1>8

(* What the run of the generators shows of each row, FullPeriods, is that  *)
(* the row's generator comes from the seed to every word but 0 exactly if  *)
(* it is not row 29 outside the ARM files: the hypothesis of the theorems  *)
(* on traverses and chases, for the row in question.                       *)
THEOREM PeriodDecided ==
  CpuSpec => [](bench = "generator" /\ k = bits =>
                  (FullPeriods <=> (Whole(shift, bits) <=> ~(bits = 29 /\ copy # "arm"))))
<1> DEFINE CourseInv == bench = "generator" => PeriodCourse
           Decided == bench = "generator" /\ k = bits =>
                        (FullPeriods <=> (Whole(shift, bits) <=> ~(bits = 29 /\ copy # "arm")))
<1>1. CpuInit => CourseInv
  <2>1. CpuInit /\ bench = "generator" => Period!Init
    BY DEF CpuInit
  <2>2. QED
    BY <2>1, PeriodBegins
<1>2. CourseInv /\ [CpuNext]_cpuVars => CourseInv'
  BY OneRuns, PeriodGoesOn
<1>3. CourseInv => Decided
  BY PeriodDecides DEF FullPeriods
<1>4. QED
  <2> HIDE DEF CourseInv
  <2>1. QED
    BY <1>1, <1>2, <1>3, PTL DEF CpuSpec

=============================================================================
