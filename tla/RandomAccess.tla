---------------------------- MODULE RandomAccess ----------------------------
(***************************************************************************)
(* The on-the-fly random benchmarks of generic/random-and-cache: main.cpp  *)
(* calls an assembly function once to fill the caches and then             *)
(* random_iterations times between two time stamps.  The function draws    *)
(* words from a generator of its own, accesses the array at the word times *)
(* the stride and returns after the access at the seed, 1.                 *)
(*                                                                         *)
(*   MOV    x64-random.asm, k1om-random.asm: loads                         *)
(*   LDR    arm-random.asm: loads                                          *)
(*   INC    x64-random-atomic.asm: updates                                 *)
(*   LLSC   arm-random-atomic.asm: updates with LDREX and STREX            *)
(***************************************************************************)
EXTENDS XorShift

CONSTANTS
  Functions,     \* the <<kernel, n, stride>> of the functions called
  UpdatePasses,  \* random_iterations of the update benchmark
  ReadPasses     \* random_iterations / 64, what the read benchmark is given

Kernel == {"MOV", "LDR", "INC", "LLSC"}

ASSUME FunctionsAssumption == Functions \subseteq Kernel \X (13 .. 30) \X {32, 64, 128}
ASSUME PassesAssumption == UpdatePasses \in Nat /\ ReadPasses \in Nat

(* log2 of the stride. *)
StrideBits(fn) == CASE fn[3] = 32 -> 5 [] fn[3] = 64 -> 6 [] fn[3] = 128 -> 7

(* Mutant: the ARM functions for 2^16 bytes as well. *)
Bits_To16(fn) ==
  (fn[2] - StrideBits(fn)) + (IF fn[1] \in {"LDR", "LLSC"} /\ fn[2] <= 16 THEN 1 ELSE 0)

(* Lines of the array of 2^n bytes, and the generator the function draws   *)
(* from: in the ARM functions for 2^13, 2^14 and 2^15 bytes it is one bit  *)
(* wider than in all the others.                                           *)
LineBits(fn) == fn[2] - StrideBits(fn)
Bits(fn) == LineBits(fn) + (IF fn[1] \in {"LDR", "LLSC"} /\ fn[2] <= 15 THEN 1 ELSE 0)
Shift(fn) == IF fn[1] \in {"LDR", "LLSC"} THEN ArmMacro(Bits(fn)) ELSE X64Macro(Bits(fn))

(* The INC functions for strides of 64 and 128 bytes load.                 *)
Updates(fn) == fn[1] = "LLSC" \/ (fn[1] = "INC" /\ fn[3] = 32)
Passes(fn) == IF fn[1] \in {"INC", "LLSC"} THEN UpdatePasses ELSE ReadPasses

VARIABLES
  fn,        \* the function under test
  pass,      \* calls of it that have returned
  pc,
  state,     \* register: the generator
  temp,      \* register: what LDREX loaded
  exclusive, \* the exclusive monitor of the core
  mem,       \* mem[line]: increments the array holds
  touched    \* history: the lines accessed in this call

vars == <<fn, pass, pc, state, temp, exclusive, mem, touched>>

Init ==
  /\ fn \in Functions
  /\ pass = 0
  /\ pc = "call"
  /\ state = One
  /\ temp = 0
  /\ exclusive = FALSE
  /\ mem = [line \in Word(Bits(fn)) |-> 0]
  /\ touched = {}

Goto(here, there) == pc = here /\ pc' = there

(* memory_read_function(memory), for the caches and then for the clock;    *)
(* the function seeds the generator: MOV esi, 1.                           *)
Call ==
  /\ pass <= Passes(fn)
  /\ Goto("call", "draw")
  /\ state' = One
  /\ touched' = {}
  /\ UNCHANGED <<fn, pass, temp, exclusive, mem>>

(* XORSHIFT_n. *)
DrawIndex ==
  /\ Goto("draw", IF fn[1] = "LLSC" THEN "ldrex" ELSE "access")
  /\ state' = Draw(Shift(fn), Bits(fn), state)
  /\ UNCHANGED <<fn, pass, temp, exclusive, mem, touched>>

(* MOV and LDR load the line; LOCK INC increments it.                      *)
Access ==
  /\ Goto("access", "test")
  /\ mem' = IF Updates(fn) THEN [mem EXCEPT ![state] = @ + 1] ELSE mem
  /\ touched' = touched \cup {state}
  /\ UNCHANGED <<fn, pass, state, temp, exclusive>>

(* ATOMIC_INCREMENT: LDREX ... *)
LoadExclusive ==
  /\ Goto("ldrex", "strex")
  /\ temp' = mem[state]
  /\ exclusive' = TRUE
  /\ UNCHANGED <<fn, pass, state, mem, touched>>

(* ... ADD and a STREX that succeeds ... *)
StoreExclusive ==
  /\ Goto("strex", "test")
  /\ exclusive
  /\ exclusive' = FALSE
  /\ mem' = [mem EXCEPT ![state] = temp + 1]
  /\ touched' = touched \cup {state}
  /\ UNCHANGED <<fn, pass, state, temp>>

(* Mutant: BNE 42b left out. *)
StoreFails_NoRetry ==
  /\ Goto("strex", "test")
  /\ ~exclusive
  /\ touched' = touched \cup {state}
  /\ UNCHANGED <<fn, pass, state, temp, exclusive, mem>>

(* ... or fails, and is tried again.                                       *)
StoreFails ==
  /\ Goto("strex", "ldrex")
  /\ ~exclusive
  /\ UNCHANGED <<fn, pass, state, temp, exclusive, mem, touched>>

(* An exception between the two clears the monitor. *)
Interrupt ==
  /\ exclusive
  /\ exclusive' = FALSE
  /\ UNCHANGED <<fn, pass, pc, state, temp, mem, touched>>

(* Mutant: the loop ends at 0. *)
Test_ForZero ==
  /\ Goto("test", IF state = {} THEN "return" ELSE "draw")
  /\ UNCHANGED <<fn, pass, state, temp, exclusive, mem, touched>>

(* CMP esi, 1; JE .finish *)
Test ==
  /\ Goto("test", IF state = One THEN "return" ELSE "draw")
  /\ UNCHANGED <<fn, pass, state, temp, exclusive, mem, touched>>

Return ==
  /\ Goto("return", "call")
  /\ pass' = pass + 1
  /\ UNCHANGED <<fn, state, temp, exclusive, mem, touched>>

Report == Goto("call", "done") /\ pass > Passes(fn)
          /\ UNCHANGED <<fn, pass, state, temp, exclusive, mem, touched>>

Step ==
  \/ Call \/ DrawIndex \/ Access \/ LoadExclusive \/ StoreExclusive \/ StoreFails
  \/ Test \/ Return \/ Report

Next == Step \/ Interrupt \/ (pc = "done" /\ UNCHANGED vars)

Spec == Init /\ [][Next]_vars

-----------------------------------------------------------------------------

TypeOK ==
  /\ fn \in Functions
  /\ pass \in 0 .. Passes(fn) + 1
  /\ pc \in {"call", "draw", "access", "ldrex", "strex", "test", "return", "done"}
  /\ pc \notin {"call", "done"} => pass <= Passes(fn)
  /\ state \in Word(Bits(fn))
  /\ temp \in Nat
  /\ exclusive \in BOOLEAN
  /\ mem \in [Word(Bits(fn)) -> Nat]
  /\ touched \subseteq Word(Bits(fn))

(* Why no line is visited twice: every line accessed so far was drawn of   *)
(* the seed or of another such line, and nothing has been drawn of the     *)
(* last one yet, unless it is the seed and the call is over.               *)
Drawn(sources, lines) ==
  \A v \in lines : \E u \in sources : v = Draw(Shift(fn), Bits(fn), u)

Trail ==
  /\ pc \in {"access", "ldrex", "strex"} =>
       state \notin touched /\ Drawn(touched \cup {One}, touched \cup {state})
  /\ pc \in {"test", "draw"} => Drawn((touched \ {state}) \cup {One}, touched)
  /\ pc = "test" => state \in touched
  /\ pc = "draw" => \/ touched = {} /\ state = One
                    \/ state \in touched /\ state # One

(* The function of the array of 2^n bytes stays inside 2^n bytes.          *)
InsideArray == touched \subseteq Word(LineBits(fn))

(* A call accesses no line twice, however large the array: no part of the  *)
(* traverse is answered by a line the same traverse brought in.            *)
NoRevisit == [][(pc \in {"access", "strex"} /\ pc' = "test") => state \notin touched]_vars

(* A call that returns has accessed every line but line 0: the rate that   *)
(* is reported for bytes / stride accesses is one access off.              *)
Traverses == pc = "return" => Word(LineBits(fn)) \ {{}} \subseteq touched

(* In every call the update functions increment each line they come to     *)
(* exactly once: failed STREX neither lose nor repeat an update.  Only the *)
(* INC functions for strides of 64 and 128 bytes do not.                   *)
UpdatesCount ==
  pc \in {"test", "return"} /\ fn[1] \in {"INC", "LLSC"} =>
    ((\A line \in touched : mem[line] = pass + 1) <=> ~(fn[1] = "INC" /\ fn[3] > 32))

=============================================================================
