--------------------------- MODULE MCRandomAccess ----------------------------
(* One of the ARM functions whose generator is a bit too wide.              *)
EXTENDS RandomAccess

SmallArm == {<<"LDR", 15, 128>>}
OnePass == 1
RandomIterations == 32 \div 64
=============================================================================
