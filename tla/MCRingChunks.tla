---------------------------- MODULE MCRingChunks ----------------------------
(* The sizes of test_ccl.cpp's AllReduce: 10 elements, for whatever number  *)
(* of ranks it is started with.                                             *)
EXTENDS RingChunks

TenElements == {<<n, 10>> : n \in 3 .. 7}
=============================================================================
