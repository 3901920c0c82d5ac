---------------------------- MODULE MCGpuKernels -----------------------------
EXTENDS GpuKernels

(* The bandwidth kernels on launches of whole blocks, which are the ones    *)
(* the search tries; with sixteen streams also a block that is not full.    *)
WholeBlocks ==
  {<<4, 2, 1>>, <<4, 2, 2>>, <<4, 4, 2>>, <<2, 2, 4>>, <<3, 1, 2>>, <<2, 1, 8>>, <<2, 1, 16>>, <<3, 2, 16>>}
=============================================================================
