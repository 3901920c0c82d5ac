--------------------------- MODULE GeneratorPeriod ---------------------------
(***************************************************************************)
(* How long the generator of XorShift takes to return to the seed 1.  The  *)
(* draw is linear over GF(2), so 2^bits - 1 draws need not be made one by  *)
(* one: the machine squares the draw bits times (power is the draw         *)
(* repeated 2^k times, given by the images of the single bits) and applies *)
(* the squares to the seed as the binary digits of an exponent ask for.    *)
(***************************************************************************)
EXTENDS XorShift, FiniteSets

CONSTANT Cases     \* the <<copy, bits>> to look at

Copy == {"class", "cuda", "opencl", "x64", "arm"}

Shifts(copy, bits) ==
  CASE copy = "class"  -> ClassShifts(bits)
    [] copy = "cuda"   -> CudaShifts(bits)
    [] copy = "opencl" -> OpenCLShifts(bits)
    [] copy = "x64"    -> {X64Macro(bits)}
    [] copy = "arm"    -> {ArmMacro(bits)}

Parameters == Cases \subseteq Copy \X (4 .. 30)

VARIABLES
  copy, bits, shift,   \* the generator
  k,                   \* squarings made
  power,               \* power[i]: the bit i after 2^k draws
  orbit                \* orbit[d]: the seed after d % 2^k draws

vars == <<copy, bits, shift, k, power, orbit>>

(* The divisors of n = 2^b - 1; one of a pair of them is below 2^15.       *)
Divisors(n) ==
  LET small == {d \in 1 .. 2 ^ 15 : n % d = 0}
  IN  small \cup {n \div d : d \in small}

(* A linear map applied to a word. *)
Apply(map, w) ==
  {i \in 0 .. bits - 1 : Cardinality({j \in w : i \in map[j]}) % 2 = 1}

Init ==
  /\ \E c \in Cases : copy = c[1] /\ bits = c[2]
  /\ shift \in Shifts(copy, bits)
  /\ k = 0
  /\ power = [i \in 0 .. bits - 1 |-> Draw(shift, bits, {i})]
  /\ orbit = [d \in Divisors(2 ^ bits - 1) |-> One]

Square ==
  /\ k < bits
  /\ k' = k + 1
  /\ power' = [i \in DOMAIN power |-> Apply(power, power[i])]
  /\ orbit' = [d \in DOMAIN orbit |->
                 IF (d \div 2 ^ k) % 2 = 1 THEN Apply(power, orbit[d]) ELSE orbit[d]]
  /\ UNCHANGED <<copy, bits, shift>>

Next == Square \/ (k = bits /\ UNCHANGED vars)

Spec == Init /\ [][Next]_vars

-----------------------------------------------------------------------------

TypeOK ==
  /\ <<copy, bits>> \in Cases
  /\ k \in 0 .. bits
  /\ power \in [0 .. bits - 1 -> Word(bits)]
  /\ orbit \in [DOMAIN orbit -> Word(bits)] /\ 2 ^ bits - 1 \in DOMAIN orbit

(* The seed returns after 2^bits - 1 draws and after no smaller number of  *)
(* draws that divides it: a sequence of draws takes every value but 0      *)
(* before it repeats one, and so reaches all the elements of an array.     *)
FullPeriod ==
  k = bits => {d \in DOMAIN orbit : orbit[d] = One} = {2 ^ bits - 1}

=============================================================================
