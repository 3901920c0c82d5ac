---------------------------- MODULE MCCpuKernels -----------------------------
EXTENDS CpuKernels

(* Every kernel; the array sizes the code offers begin at 2^13, which      *)
(* bounds the number of lines from below.                                  *)
SomeFunctions ==
  {<<"MOV", 13, 128>>, <<"MOV", 14, 64>>, <<"LDR", 16, 128>>,
   <<"INC", 13, 32>>, <<"INC", 13, 64>>, <<"LLSC", 13, 128>>}

(* main: random_iterations = 32, cut down to 1 for the updates.            *)
OnePass == 1
RandomIterations == 32 \div 64

(* Every copy of the shift table and every size, without the row of 17     *)
(* bits where it leaves a shift to chance; the macros of the assembly      *)
(* files end at 29 bits.                                                   *)
AllRows ==
  ({"class", "cuda", "opencl"} \X ((4 .. 30) \ {17}))
    \cup ({"x64", "arm"} \X (4 .. 29))
=============================================================================
