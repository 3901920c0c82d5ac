--------------------------- MODULE MCHostPrograms ----------------------------
EXTENDS HostPrograms

(* Of the grid of the bandwidth search the smallest number of threads, and  *)
(* one that makes a block more than a Fermi grid may have.                  *)
AtTheLimit == <<1048576, 8388608>>
OneBlock == <<128>>

(* Every number of streams there is a case for and some there is none for,  *)
(* and likewise for the numbers of multiply-adds.                           *)
AllStreams == {2 ^ e : e \in 0 .. 8} \union {0, 3, 12, 96}
AllFlops ==
  (0 .. 34) \union {2 ^ e : e \in 6 .. 13} \union {40, 48, 56, 72, 160, 192}
=============================================================================
