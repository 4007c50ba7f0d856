---------------------------- MODULE BoundedFifo ----------------------------
(***************************************************************************)
(* What the users of an AudioRingBuffer rely on: a first-in first-out      *)
(* queue of bounded length between one producer and one consumer.  The     *)
(* producer adds a whole batch of elements at once, the consumer takes a   *)
(* whole batch at once, and nobody sees half of a batch.                   *)
(*                                                                         *)
(* Decoder::_packetQueue, Video::_frameQueue, Audio::_frameQueue and       *)
(* Audio::Channel::frameQueue are used this way.  RingBuffer implements    *)
(* this module (RingBuffer!RefinesFifo), and the player model replaces     *)
(* each of those buffers by its queue.                                     *)
(***************************************************************************)
EXTENDS Naturals, Sequences

CONSTANTS
  Bound,    \* how many elements the queue can hold
  Batches   \* the batches a producer can add (sequences of elements)

VARIABLES
  queue,    \* the elements not taken yet, oldest first
  got       \* the batch the consumer received last

fifoVars == <<queue, got>>

Init ==
  /\ queue = << >>
  /\ got = << >>

(* A producer adds a batch, all of it or nothing. *)
Put(batch) ==
  /\ Len(queue) + Len(batch) <= Bound
  /\ queue' = queue \o batch
  /\ UNCHANGED got

(* The consumer takes the n oldest elements, in the order they were put. *)
Get(n) ==
  /\ n <= Len(queue)
  /\ got' = SubSeq(queue, 1, n)
  /\ queue' = SubSeq(queue, n + 1, Len(queue))

(* The owner empties the queue. *)
Clear ==
  /\ queue' = << >>
  /\ UNCHANGED got

Next ==
  \/ \E batch \in Batches : Put(batch)
  \/ \E n \in 1 .. Bound : Get(n)
  \/ Clear

Spec == Init /\ [][Next]_fifoVars
=============================================================================
