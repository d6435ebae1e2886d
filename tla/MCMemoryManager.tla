--------------------------- MODULE MCMemoryManager ---------------------------
(***************************************************************************)
(* A heap of eleven bytes that ends exactly at the top of a 5-bit address *)
(* space, with two-byte headers.  The requests include the empty one and   *)
(* sizes so large that request + header + 1 exceeds the word.              *)
(***************************************************************************)
EXTENDS MemoryManager

MCRequests == {0, 1, 2, 3, 7, 9, 29, 31}
=============================================================================
