----------------------------- MODULE RingBuffer -----------------------------
(***************************************************************************)
(* StaticAudioRingBuffer / DynamicAudioRingBuffer                          *)
(* (include/audioringbuffer.h): a lock-free ring shared by one writer and  *)
(* one reader.  Each side owns one position and only loads the other's.    *)
(*                                                                         *)
(* One action is one access to the position of the other side (an atomic   *)
(* load or store) or to one element of buf_.  begin_write loads its own    *)
(* position, which nobody else changes, and then read_pos_ once, so the    *)
(* whole call takes effect at that load; likewise begin_read.  The stores  *)
(* release and the loads of the other side acquire, so interleaving these  *)
(* accesses is the order the C++ memory model gives.                       *)
(*                                                                         *)
(* The writer is a caller that retries: every caller in src/ that is       *)
(* refused sleeps and calls again.  reset() is called here by the owner    *)
(* once both sides are idle, as the three close() functions do.            *)
(***************************************************************************)
EXTENDS Integers, Sequences

CONSTANTS
  Capacity,     \* Capacity / cap_
  Sizes,        \* the values of the argument frames
  Values,       \* values an element of buf_ can have
  Zero,         \* the value memset gives to an element
  ArithmeticT   \* std::is_arithmetic_v<T>: reset clears buf_

(* The static_assert and the constructor's check; a caller asks for at     *)
(* least one element.                                                      *)
ASSUME RingAssumption ==
  /\ Capacity \in Nat \ {0}
  /\ \E k \in 0 .. Capacity : 2 ^ k = Capacity
  /\ Sizes \subseteq Nat \ {0}
  /\ Zero \in Values
  /\ ArithmeticT \in BOOLEAN

VARIABLES
  write_pos, read_pos,   \* write_pos_, read_pos_
  buf,                   \* buf_
  wpc, wn, wk,           \* writer: where it is, frames, elements stored
  rpc, rn, dst,          \* reader: where it is, frames, elements loaded
  got                    \* what the last completed read returned

vars == <<write_pos, read_pos, buf, wpc, wn, wk, rpc, rn, dst, got>>
writerVars == <<write_pos, wpc, wn, wk>>
readerVars == <<read_pos, rpc, rn, dst, got>>

Slots == 0 .. Capacity - 1

available_read == (write_pos - read_pos) % Capacity
available_write == (read_pos - write_pos - 1) % Capacity

(* Neither position_ nor buf_ is set by anything but its initialiser: the  *)
(* elements start with whatever the memory held.                           *)
Init ==
  /\ write_pos = 0 /\ read_pos = 0
  /\ buf \in [Slots -> Values]
  /\ wpc = "idle" /\ wn = 0 /\ wk = 0
  /\ rpc = "idle" /\ rn = 0 /\ dst = << >>
  /\ got = << >>

-----------------------------------------------------------------------------
(* The writer *)

(* The caller decides to write n elements. *)
CallWrite(n) ==
  /\ wpc = "idle"
  /\ wpc' = "try" /\ wn' = n /\ wk' = 0
  /\ UNCHANGED <<write_pos, buf, readerVars>>

(* Mutant: a region may run past the end of buf_. *)
CanWriteWrapped == wn <= available_write

(* The elements must be free, and lie in one piece before the end of buf_. *)
CanWrite == wn <= available_write /\ wn <= Capacity - write_pos

begin_write ==
  /\ wpc = "try"
  /\ wpc' = IF CanWrite THEN "fill" ELSE "sleep"
  /\ UNCHANGED <<write_pos, wn, wk, buf, readerVars>>

(* The caller was given a null pointer; it sleeps and calls again. *)
RetryWrite ==
  /\ wpc = "sleep"
  /\ wpc' = "try"
  /\ UNCHANGED <<write_pos, wn, wk, buf, readerVars>>

(* memcpy, or the caller filling the region it was given: one element. *)
StoreElement(v) ==
  /\ wpc = "fill" /\ wk < wn
  /\ buf' = [buf EXCEPT ![write_pos + wk] = v]
  /\ wk' = wk + 1
  /\ UNCHANGED <<write_pos, wpc, wn, readerVars>>

(* Mutant: the position is not masked. *)
end_write_unmasked ==
  /\ wpc = "fill" /\ wk = wn
  /\ write_pos' = write_pos + wn
  /\ wpc' = "idle" /\ wn' = 0 /\ wk' = 0
  /\ UNCHANGED <<buf, readerVars>>

end_write ==
  /\ wpc = "fill" /\ wk = wn
  /\ write_pos' = (write_pos + wn) % Capacity
  /\ wpc' = "idle" /\ wn' = 0 /\ wk' = 0
  /\ UNCHANGED <<buf, readerVars>>

-----------------------------------------------------------------------------
(* The reader *)

CanRead(n) == n <= available_read /\ n <= Capacity - read_pos

(* A read that is refused returns a null pointer and changes nothing. *)
begin_read(n) ==
  /\ rpc = "idle" /\ CanRead(n)
  /\ rpc' = "take" /\ rn' = n /\ dst' = << >>
  /\ UNCHANGED <<read_pos, got, buf, writerVars>>

(* memcpy, or the caller reading the region it was given: one element. *)
LoadElement ==
  /\ rpc = "take" /\ Len(dst) < rn
  /\ dst' = Append(dst, buf[read_pos + Len(dst)])
  /\ UNCHANGED <<read_pos, rpc, rn, got, buf, writerVars>>

(* Mutant: the reader never frees what it has read. *)
end_read_unreleased ==
  /\ rpc = "take" /\ Len(dst) = rn
  /\ got' = dst
  /\ rpc' = "idle" /\ rn' = 0 /\ dst' = << >>
  /\ UNCHANGED <<read_pos, buf, writerVars>>

end_read ==
  /\ rpc = "take" /\ Len(dst) = rn
  /\ read_pos' = (read_pos + rn) % Capacity
  /\ got' = dst
  /\ rpc' = "idle" /\ rn' = 0 /\ dst' = << >>
  /\ UNCHANGED <<buf, writerVars>>

-----------------------------------------------------------------------------
(* Mutant: the owner does not wait for the reader to be done. *)
reset_while_read ==
  /\ wpc = "idle"
  /\ write_pos' = 0 /\ read_pos' = 0
  /\ buf' = IF ArithmeticT THEN [i \in Slots |-> Zero] ELSE buf
  /\ UNCHANGED <<wpc, wn, wk, rpc, rn, dst, got>>

(* Mutant: the read position is forgotten. *)
reset_write_only ==
  /\ wpc = "idle" /\ rpc = "idle"
  /\ write_pos' = 0
  /\ buf' = IF ArithmeticT THEN [i \in Slots |-> Zero] ELSE buf
  /\ UNCHANGED <<read_pos, wpc, wn, wk, rpc, rn, dst, got>>

(* Both sides are idle: the coroutines that used the buffer have ended. *)
reset ==
  /\ wpc = "idle" /\ rpc = "idle"
  /\ write_pos' = 0 /\ read_pos' = 0
  /\ buf' = IF ArithmeticT THEN [i \in Slots |-> Zero] ELSE buf
  /\ UNCHANGED <<wpc, wn, wk, rpc, rn, dst, got>>

WriterStep ==
  \/ begin_write
  \/ RetryWrite
  \/ \E v \in Values : StoreElement(v)
  \/ end_write

ReaderStep ==
  \/ \E n \in Sizes : begin_read(n)
  \/ LoadElement
  \/ end_read

Next ==
  \/ \E n \in Sizes : CallWrite(n)
  \/ WriterStep
  \/ ReaderStep
  \/ reset

Spec == Init /\ [][Next]_vars

(* A coroutine that is runnable is scheduled, and both the writer's retry  *)
(* loop and the reader's polling loop go on for ever.                      *)
FairSpec == Spec /\ WF_vars(WriterStep) /\ WF_vars(ReaderStep)

-----------------------------------------------------------------------------
(* Properties *)

TypeOK ==
  /\ write_pos \in Slots /\ read_pos \in Slots
  /\ buf \in [Slots -> Values]
  /\ wpc \in {"idle", "try", "sleep", "fill"}
  /\ wn \in Sizes \cup {0} /\ wk \in 0 .. wn
  /\ rpc \in {"idle", "take"}
  /\ rn \in Sizes \cup {0}
  /\ dst \in Seq(Values) /\ got \in Seq(Values)

(* The elements written and not read yet, and the two regions in use. *)
Unread == {(read_pos + i) % Capacity : i \in 0 .. available_read - 1}
WriteRegion == IF wpc = "fill" THEN write_pos .. write_pos + wn - 1 ELSE {}
ReadRegion == IF rpc = "take" THEN read_pos .. read_pos + rn - 1 ELSE {}

(* Zero-copy safety: however the two sides interleave, the region          *)
(* begin_write handed out lies inside buf_ and holds no element that is    *)
(* still to be read, and the region begin_read handed out lies inside buf_ *)
(* and stays written until end_read (begin_write, begin_read).             *)
RegionsSafe ==
  /\ WriteRegion \subseteq Slots \ Unread
  /\ ReadRegion \subseteq Slots \cap Unread

(* No torn read: what the reader has copied so far is still what the       *)
(* buffer holds, the writer has not come round and stored over it.         *)
CopyNotOverwritten ==
  \A i \in 1 .. Len(dst) : dst[i] = buf[read_pos + i - 1]

(* The contents of the ring as a queue, oldest element first. *)
queue == [i \in 1 .. available_read |-> buf[(read_pos + i - 1) % Capacity]]

BatchesOf(S) == UNION {[1 .. n -> S] : n \in Sizes}

Fifo == INSTANCE BoundedFifo
          WITH Bound <- Capacity - 1, Batches <- BatchesOf(Values)

(* The ring is a bounded first-in first-out queue of Capacity - 1          *)
(* elements: end_write adds the batch, end_read takes one, every other     *)
(* step is invisible (write, read, reset).                                 *)
RefinesFifo == Fifo!Spec

(* A writer that keeps retrying is let in, as long as the reader goes on   *)
(* reading.  It needs every call to use one size that divides Capacity:    *)
(* the callers use 1, and _frameAlignBytes with 8 * _frameAlignBytes.      *)
WriterServed == (wpc = "try") ~> (wpc = "fill")
=============================================================================
