------------------------------ MODULE MCShapes -------------------------------
EXTENDS Bitwise, BarrierShapes

(* The digit arithmetic of TreeShape is the source's ID & MASK, and the    *)
(* master its ID & ~MASK (for IDs of 8 bits).                              *)
ASSUME DigitIsMask ==
  \A l \in 0 .. Levels - 1, id \in 0 .. MaxTree - 1 :
    LET MASK == (GROUP - 1) * TreeStride(GROUP, l)
    IN  /\ TreeDigit(GROUP, l, id) = (id & MASK)
        /\ TreeMaster(GROUP, l, id) = (id & (MaxTree - 1 - MASK))

=============================================================================
