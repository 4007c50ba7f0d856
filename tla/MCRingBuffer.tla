---------------------------- MODULE MCRingBuffer ----------------------------
(* Small instances of RingBuffer for TLC. *)
EXTENDS RingBuffer

(* Frame and packet queues move single pointers. *)
PointerSizes == {1}
(* A channel moves blocks; two elements stand for _frameAlignBytes. *)
BlockSizes == {2}
(* Any mixture of sizes the interface allows. *)
MixedSizes == {1, 2, 3}
=============================================================================
