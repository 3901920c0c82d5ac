------------------------------ MODULE XorShift ------------------------------
(***************************************************************************)
(* The index generator of the random-access benchmarks: class XorShift of  *)
(* generic/random-and-cache/main.cpp, the XORSHIFT_n macros of the         *)
(* assembly files, and findShifter with the loops that draw from it in the *)
(* OpenCL and CUDA hosts.                                                  *)
(*                                                                         *)
(* A word of `bits' bits is the set of the positions of its ones, so an    *)
(* exclusive or is a symmetric difference and a shift moves positions.     *)
(***************************************************************************)
EXTENDS Naturals

Word(bits) == SUBSET (0 .. bits - 1)

Xor(v, w) == (v \ w) \cup (w \ v)
ShiftRight(w, n, bits) == {i \in 0 .. bits - 1 : i + n \in w}
(* uint32_t << n, and the mask after it. *)
ShiftLeft(w, n, bits) == {i \in 0 .. bits - 1 : i >= n /\ i - n \in w}

(* Mutants: a mask that is one bit too wide, and a second exclusive or     *)
(* that takes the old state.                                               *)
Draw_WideMask(shift, bits, w) ==
  LET a == Xor(w, ShiftRight(w, shift[1], bits + 1))
      b == Xor(a, ShiftLeft(a, shift[2], bits + 1))
  IN  Xor(b, ShiftRight(b, shift[3], bits + 1))
Draw_OldState(shift, bits, w) ==
  LET a == Xor(w, ShiftRight(w, shift[1], bits))
      b == Xor(w, ShiftLeft(a, shift[2], bits))
  IN  Xor(b, ShiftRight(b, shift[3], bits))

(* XorShift::next: the state after w. *)
Draw(shift, bits, w) ==
  LET a == Xor(w, ShiftRight(w, shift[1], bits))
      b == Xor(a, ShiftLeft(a, shift[2], bits))
  IN  Xor(b, ShiftRight(b, shift[3], bits))

(* The seed 1u, at which every benchmark starts. *)
One == {0}

-----------------------------------------------------------------------------
(* The shift amounts. *)

(* Mutant: one digit of row 8 changed. *)
TableRow_Typo(bits) ==
  <<<<3, 1, 2>>, <<4, 3, 1>>, <<2, 3, 1>>, <<5, 2, 6>>, <<3, 1, 4>>, <<8, 4, 5>>, <<5, 1, 3>>,
    <<6, 4, 7>>, <<7, 5, 9>>, <<8, 5, 2>>, <<9, 7, 2>>, <<4, 1, 9>>, <<8, 9, 5>>, <<9, 6, 1>>,
    <<3, 9, 8>>, <<9, 6, 4>>, <<2, 1, 9>>, <<4, 3, 6>>, <<5, 3, 2>>, <<7, 8, 2>>, <<6, 1, 9>>,
    <<2, 1, 6>>, <<2, 5, 3>>, <<1, 2, 6>>, <<1, 3, 9>>, <<2, 4, 5>>, <<1, 11, 24>>>>[bits - 3]

(* Row 4 to row 30 as the cases of the switch give them, with the three    *)
(* amounts of row 17 in the order in which the source writes them.         *)
TableRow(bits) ==
  <<<<3, 1, 2>>, <<4, 3, 1>>, <<2, 3, 1>>, <<5, 2, 6>>, <<3, 1, 5>>, <<8, 4, 5>>, <<5, 1, 3>>,
    <<6, 4, 7>>, <<7, 5, 9>>, <<8, 5, 2>>, <<9, 7, 2>>, <<4, 1, 9>>, <<8, 9, 5>>, <<9, 6, 1>>,
    <<3, 9, 8>>, <<9, 6, 4>>, <<2, 1, 9>>, <<4, 3, 6>>, <<5, 3, 2>>, <<7, 8, 2>>, <<6, 1, 9>>,
    <<2, 1, 6>>, <<2, 5, 3>>, <<1, 2, 6>>, <<1, 3, 9>>, <<2, 4, 5>>, <<1, 11, 24>>>>[bits - 3]

(* XorShift::XorShift.  Case 17 assigns shift[0] twice and never shift[2], *)
(* which keeps whatever the stack held; x86 shifts by its low five bits.   *)
ClassShifts(bits) ==
  IF bits = 17 THEN {<<1, 6, any>> : any \in 0 .. 31} ELSE {TableRow(bits)}

(* findShifter of the CUDA hosts is a copy; in the OpenCL hosts case 17    *)
(* has no break and goes on into case 16.                                  *)
CudaShifts(bits) == ClassShifts(bits)
OpenCLShifts(bits) == {TableRow(IF bits = 17 THEN 16 ELSE bits)}

(* XORSHIFT_4 to XORSHIFT_29 of x64-random.asm and x64-random-atomic.asm,  *)
(* and XORSHIFT_4 to XORSHIFT_28 of k1om-random.asm.                       *)
X64Macro(bits) == TableRow(bits)

(* The macros of arm-random.asm and arm-random-atomic.asm. *)
ArmMacro(bits) == IF bits = 29 THEN <<3, 4, 5>> ELSE TableRow(bits)

=============================================================================
