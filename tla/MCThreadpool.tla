---------------------------- MODULE MCThreadpool ----------------------------
(* Three threads, a node split by rows between a product of a chunk each   *)
(* and one whose chunks are drawn from the counter.                        *)
EXTENDS Threadpool

MCChunks == <<3, 0, 12, 12>>

=============================================================================
