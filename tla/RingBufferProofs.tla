-------------------------- MODULE RingBufferProofs --------------------------
(***************************************************************************)
(* The ring buffer of include/audioringbuffer.h, proved for every          *)
(* capacity, every set of request sizes and every set of element values.   *)
(*                                                                         *)
(* The inductive invariant says what the two loads of the opposite         *)
(* position leave behind: a region that was handed out stays inside the    *)
(* free (unread) part whatever the other side does meanwhile, because the  *)
(* reader only frees and the writer only fills.                            *)
(***************************************************************************)
EXTENDS RingBuffer, SequenceTheorems, TLAPS

(* What begin_write and begin_read established when they succeeded still   *)
(* holds, and the copy made so far is still what the buffer contains.      *)
GrantsHold ==
  /\ wpc = "fill" => wn # 0 /\ CanWrite
  /\ wpc # "idle" => wn # 0
  /\ rpc = "take" => rn # 0 /\ CanRead(rn) /\ Len(dst) <= rn
  /\ rpc = "idle" => dst = << >>

IInv == TypeOK /\ GrantsHold /\ CopyNotOverwritten

-----------------------------------------------------------------------------
(* The three uses of MASK, without the remainder. *)

(* (w - r) & MASK: how far the writer is ahead of the reader. *)
LEMMA Ahead ==
  ASSUME NEW w \in Slots, NEW r \in Slots
  PROVE  (w - r) % Capacity = IF r <= w THEN w - r ELSE w - r + Capacity
BY RingAssumption, SMT DEF Slots

(* (r - w - 1) & MASK: what the writer may still fill. *)
LEMMA Room ==
  ASSUME NEW w \in Slots, NEW r \in Slots
  PROVE  (r - w - 1) % Capacity =
           IF w < r THEN r - w - 1 ELSE r - w - 1 + Capacity
BY RingAssumption, SMT DEF Slots

(* (p + n) & MASK for a region that ends at or before the end of buf_. *)
LEMMA Advance ==
  ASSUME NEW p \in Slots, NEW n \in Nat \ {0}, n <= Capacity - p
  PROVE  /\ (p + n) % Capacity = IF p + n = Capacity THEN 0 ELSE p + n
         /\ (p + n) % Capacity \in Slots
BY RingAssumption, SMT DEF Slots

(* The slot of the i-th unread element. *)
LEMMA SlotOf ==
  ASSUME NEW r \in Slots, NEW i \in 0 .. Capacity - 1
  PROVE  /\ (r + i) % Capacity = IF r + i < Capacity THEN r + i ELSE r + i - Capacity
         /\ (r + i) % Capacity \in Slots
BY RingAssumption, SMT DEF Slots

-----------------------------------------------------------------------------
LEMMA InitInvariant == Init => IInv
BY RingAssumption DEF Init, IInv, TypeOK, GrantsHold, CopyNotOverwritten, Slots

(* Every step keeps the invariant, one step of the proof per action. *)
LEMMA StepInvariant == IInv /\ [Next]_vars => IInv'
<1> SUFFICES ASSUME IInv, [Next]_vars
             PROVE  IInv'
  OBVIOUS
<1> USE RingAssumption DEF IInv, TypeOK
<1>0. /\ available_read = IF read_pos <= write_pos THEN write_pos - read_pos
                          ELSE write_pos - read_pos + Capacity
      /\ available_write = IF write_pos < read_pos THEN read_pos - write_pos - 1
                           ELSE read_pos - write_pos - 1 + Capacity
  BY Ahead, Room DEF available_read, available_write
<1>1. ASSUME NEW n \in Sizes, CallWrite(n)
      PROVE  IInv'
  BY <1>1 DEF CallWrite, readerVars, GrantsHold, CanWrite, CanRead,
              CopyNotOverwritten, available_read, available_write
<1>2. CASE begin_write
  BY <1>2 DEF begin_write, readerVars, GrantsHold, CanWrite, CanRead,
              CopyNotOverwritten, available_read, available_write
<1>3. CASE RetryWrite
  BY <1>3 DEF RetryWrite, readerVars, GrantsHold, CanWrite, CanRead,
              CopyNotOverwritten, available_read, available_write
<1>4. ASSUME NEW v \in Values, StoreElement(v)
      PROVE  IInv'
  <2>1. TypeOK'
    <3>1. buf' \in [Slots -> Values]
      BY <1>4 DEF StoreElement
    <3>2. wn \in Nat /\ wk' \in 0 .. wn'
      BY <1>4 DEF StoreElement
    <3> QED
      BY <1>4, <3>1, <3>2 DEF StoreElement, readerVars
  <2>2. GrantsHold'
    BY <1>4 DEF StoreElement, readerVars, GrantsHold, CanWrite, CanRead,
                available_read, available_write
  <2>3. CopyNotOverwritten'
    <3> SUFFICES ASSUME NEW i \in 1 .. Len(dst)
                 PROVE  dst[i] = buf'[read_pos + i - 1]
      BY <1>4 DEF StoreElement, readerVars, CopyNotOverwritten
    <3>1. rpc = "take" /\ CanRead(rn) /\ i <= rn
      BY DEF GrantsHold
    <3>2. wn <= available_write /\ wn <= Capacity - write_pos
      BY <1>4 DEF StoreElement, GrantsHold, CanWrite
    <3>3. read_pos + i - 1 # write_pos + wk
      BY <1>0, <1>4, <3>1, <3>2 DEF StoreElement, CanRead, Slots
    <3>4. read_pos + i - 1 \in Slots
      BY <3>1 DEF CanRead, Slots
    <3> QED
      BY <1>4, <3>3, <3>4 DEF StoreElement, CopyNotOverwritten
  <2> QED
    BY <2>1, <2>2, <2>3
<1>5. CASE end_write
  <2>1. wn \in Nat \ {0} /\ wn <= available_write /\ wn <= Capacity - write_pos
    BY <1>5 DEF end_write, GrantsHold, CanWrite
  <2>2. /\ write_pos' = IF write_pos + wn = Capacity THEN 0 ELSE write_pos + wn
        /\ write_pos' \in Slots
    BY <1>5, <2>1, Advance DEF end_write
  <2>3. available_read' = IF read_pos <= write_pos' THEN write_pos' - read_pos
                          ELSE write_pos' - read_pos + Capacity
    BY <1>5, <2>2, Ahead DEF end_write, readerVars, available_read
  <2>4. available_read <= available_read'
    BY <1>0, <2>1, <2>2, <2>3 DEF Slots
  <2>5. TypeOK'
    BY <1>5, <2>2 DEF end_write, readerVars
  <2>6. GrantsHold'
    BY <1>0, <1>5, <2>2, <2>3, <2>4 DEF end_write, readerVars, GrantsHold, CanRead, Slots
  <2>7. CopyNotOverwritten'
    BY <1>5 DEF end_write, readerVars, CopyNotOverwritten
  <2> QED
    BY <2>5, <2>6, <2>7
<1>6. ASSUME NEW n \in Sizes, begin_read(n)
      PROVE  IInv'
  BY <1>6 DEF begin_read, writerVars, GrantsHold, CanWrite, CanRead,
              CopyNotOverwritten, available_read, available_write
<1>7. CASE LoadElement
  <2>1. read_pos + Len(dst) \in Slots
    BY <1>7 DEF LoadElement, GrantsHold, CanRead, Slots
  <2>2. dst' \in Seq(Values) /\ Len(dst') = Len(dst) + 1
    BY <1>7, <2>1 DEF LoadElement
  <2>3. TypeOK'
    BY <1>7, <2>2 DEF LoadElement, writerVars
  <2>4. GrantsHold'
    BY <1>7, <2>2 DEF LoadElement, writerVars, GrantsHold, CanWrite, CanRead,
                available_read, available_write
  <2>5. CopyNotOverwritten'
    BY <1>7, <2>1, <2>2 DEF LoadElement, writerVars, CopyNotOverwritten
  <2> QED
    BY <2>3, <2>4, <2>5
<1>8. CASE end_read
  <2>1. rn \in Nat \ {0} /\ rn <= available_read /\ rn <= Capacity - read_pos
    BY <1>8 DEF end_read, GrantsHold, CanRead
  <2>2. /\ read_pos' = IF read_pos + rn = Capacity THEN 0 ELSE read_pos + rn
        /\ read_pos' \in Slots
    BY <1>8, <2>1, Advance DEF end_read
  <2>3. available_write' = IF write_pos < read_pos' THEN read_pos' - write_pos - 1
                           ELSE read_pos' - write_pos - 1 + Capacity
    BY <1>8, <2>2, Room DEF end_read, writerVars, available_write
  <2>4. available_write <= available_write'
    BY <1>0, <2>1, <2>2, <2>3 DEF Slots
  <2>5. TypeOK'
    BY <1>8, <2>2 DEF end_read, writerVars
  <2>6. GrantsHold'
    BY <1>0, <1>8, <2>2, <2>3, <2>4 DEF end_read, writerVars, GrantsHold, CanWrite, Slots
  <2>7. CopyNotOverwritten'
    BY <1>8 DEF end_read, writerVars, CopyNotOverwritten
  <2> QED
    BY <2>5, <2>6, <2>7
<1>9. CASE reset
  <2>1. TypeOK'
    BY <1>9 DEF reset, Slots
  <2>2. GrantsHold' /\ CopyNotOverwritten'
    BY <1>9 DEF reset, GrantsHold, CopyNotOverwritten
  <2> QED
    BY <2>1, <2>2
<1>10. CASE UNCHANGED vars
  BY <1>10 DEF vars, GrantsHold, CanWrite, CanRead, CopyNotOverwritten,
               available_read, available_write
<1> QED
  BY <1>1, <1>2, <1>3, <1>4, <1>5, <1>6, <1>7, <1>8, <1>9, <1>10
  DEF Next, WriterStep, ReaderStep

LEMMA Invariance == Spec => []IInv
BY InitInvariant, StepInvariant, PTL DEF Spec

-----------------------------------------------------------------------------
(* Every variable keeps its type: in particular neither position leaves    *)
(* 0 .. Capacity - 1 (end_write, end_read, reset).                         *)
THEOREM TypeCorrect == Spec => []TypeOK
<1>1. IInv => TypeOK
  BY DEF IInv
<1> QED
  BY <1>1, Invariance, PTL

(* The reader never loads an element the writer has stored over since      *)
(* begin_read let it in (begin_read, LoadElement, StoreElement).           *)
THEOREM NoTornRead == Spec => []CopyNotOverwritten
<1>1. IInv => CopyNotOverwritten
  BY DEF IInv
<1> QED
  BY <1>1, Invariance, PTL

(* The region of a begin_write in progress lies inside buf_ and holds no   *)
(* unread element; that of a begin_read in progress lies inside buf_ and   *)
(* is unread as a whole (begin_write, begin_read).                         *)
THEOREM RegionsAreSafe == Spec => []RegionsSafe
<1>1. IInv => RegionsSafe
  <2> SUFFICES ASSUME IInv PROVE RegionsSafe
    OBVIOUS
  <2> USE RingAssumption DEF IInv, TypeOK
  <2>1. available_read = IF read_pos <= write_pos THEN write_pos - read_pos
                         ELSE write_pos - read_pos + Capacity
    BY Ahead DEF available_read
  <2>2. available_write = IF write_pos < read_pos THEN read_pos - write_pos - 1
                          ELSE read_pos - write_pos - 1 + Capacity
    BY Room DEF available_write
  <2>3. available_read \in 0 .. Capacity - 1
    BY <2>1 DEF Slots
  <2>4. ASSUME NEW x \in WriteRegion
        PROVE  x \in Slots \ Unread
    <3>1. /\ wn \in Nat /\ wn <= available_write /\ wn <= Capacity - write_pos
          /\ x \in write_pos .. write_pos + wn - 1
      BY <2>4 DEF WriteRegion, GrantsHold, CanWrite
    <3>2. x \in Slots
      BY <3>1 DEF Slots
    <3>3. ASSUME NEW i \in 0 .. available_read - 1
          PROVE  x # (read_pos + i) % Capacity
      <4>1. i \in 0 .. Capacity - 1 /\ i < available_read
        BY <2>3
      <4>2. (read_pos + i) % Capacity =
              IF read_pos + i < Capacity THEN read_pos + i ELSE read_pos + i - Capacity
        BY <4>1, SlotOf
      <4>3. x # IF read_pos + i < Capacity THEN read_pos + i ELSE read_pos + i - Capacity
        BY <2>1, <2>2, <3>1, <3>2, <4>1 DEF Slots
      <4> QED
        BY <4>2, <4>3
    <3> QED
      BY <3>2, <3>3 DEF Unread
  <2>5. ASSUME NEW x \in ReadRegion
        PROVE  x \in Slots \cap Unread
    <3>1. /\ rn \in Nat /\ rn <= available_read /\ rn <= Capacity - read_pos
          /\ x \in read_pos .. read_pos + rn - 1
      BY <2>5 DEF ReadRegion, GrantsHold, CanRead
    <3>2. x \in Slots
      BY <3>1 DEF Slots
    <3>3. PICK i \in 0 .. Capacity - 1 : i < available_read /\ read_pos + i = x
      <4>1. x - read_pos \in 0 .. Capacity - 1 /\ x - read_pos < available_read
        BY <2>3, <3>1, <3>2 DEF Slots
      <4> QED
        BY <3>2, <4>1 DEF Slots
    <3>4. (read_pos + i) % Capacity = x
      <4>1. (read_pos + i) % Capacity =
              IF read_pos + i < Capacity THEN read_pos + i ELSE read_pos + i - Capacity
        BY SlotOf
      <4>2. x = IF read_pos + i < Capacity THEN read_pos + i ELSE read_pos + i - Capacity
        BY <3>2, <3>3 DEF Slots
      <4> QED
        BY <4>1, <4>2
    <3>5. i \in 0 .. available_read - 1
      BY <2>3, <3>3
    <3> QED
      BY <3>2, <3>4, <3>5 DEF Unread
  <2> QED
    BY <2>4, <2>5 DEF RegionsSafe
<1> QED
  BY <1>1, Invariance, PTL

-----------------------------------------------------------------------------
(* The refinement: what each kind of step does to the abstract queue. *)

(* A sequence is known by its length and its elements. *)
LEMMA ConcatIs ==
  ASSUME NEW S, NEW s \in Seq(S), NEW t \in Seq(S), NEW u \in Seq(S),
         Len(u) = Len(s) + Len(t),
         \A i \in 1 .. Len(s) : u[i] = s[i],
         \A i \in 1 .. Len(t) : u[Len(s) + i] = t[i]
  PROVE  u = s \o t
<1>1. s \o t \in Seq(S) /\ Len(s \o t) = Len(s) + Len(t)
  BY ConcatProperties
<1>2. ASSUME NEW i \in 1 .. Len(u)
      PROVE  u[i] = (s \o t)[i]
  <2>1. CASE i <= Len(s)
    BY <2>1, ConcatProperties
  <2>2. CASE i > Len(s)
    <3>1. PICK j \in 1 .. Len(t) : i = Len(s) + j
      <4>1. i - Len(s) \in 1 .. Len(t) /\ i = Len(s) + (i - Len(s))
        BY <2>2, LenProperties
      <4> QED BY <4>1
    <3>2. (s \o t)[i] = t[i - Len(s)]
      BY <2>2, <3>1, ConcatProperties
    <3> QED
      BY <3>1, <3>2
  <2> QED
    BY <2>1, <2>2
<1> QED
  BY <1>1, <1>2, SeqEqual

LEMMA SliceIs ==
  ASSUME NEW S, NEW s \in Seq(S), NEW u \in Seq(S),
         NEW m \in 1 .. Len(s) + 1, NEW n \in 0 .. Len(s),
         m <= n + 1,
         Len(u) = n - m + 1,
         \A i \in 1 .. Len(u) : u[i] = s[m + i - 1]
  PROVE  u = SubSeq(s, m, n)
  BY SubSeqProperties

(* Steps that move neither position and store nothing leave the queue. *)
LEMMA QueueFixed ==
  ASSUME UNCHANGED <<write_pos, read_pos, buf>>
  PROVE  queue' = queue
BY DEF queue, available_read

(* The queue for given positions and contents of the buffer, so that one   *)
(* lemma speaks of the state before a step and of the state after it.      *)
Contents(w, r, b) ==
  [i \in 1 .. (w - r) % Capacity |-> b[(r + i - 1) % Capacity]]

LEMMA ContentsIsSeq ==
  ASSUME NEW w \in Slots, NEW r \in Slots, NEW b \in [Slots -> Values]
  PROVE  /\ (w - r) % Capacity \in 0 .. Capacity - 1
         /\ Contents(w, r, b) \in Seq(Values)
         /\ Len(Contents(w, r, b)) = (w - r) % Capacity
         /\ \A i \in 1 .. (w - r) % Capacity :
              Contents(w, r, b)[i] = b[IF r + i - 1 < Capacity THEN r + i - 1
                                       ELSE r + i - 1 - Capacity]
<1> USE RingAssumption
<1> DEFINE n == (w - r) % Capacity
<1>1. n \in 0 .. Capacity - 1
  BY Ahead DEF Slots
<1>2. ASSUME NEW i \in 1 .. n
      PROVE  /\ (r + i - 1) % Capacity = IF r + i - 1 < Capacity THEN r + i - 1
                                         ELSE r + i - 1 - Capacity
             /\ (r + i - 1) % Capacity \in Slots
  <2>1. i - 1 \in 0 .. Capacity - 1
    BY <1>1
  <2>2. r + (i - 1) = r + i - 1
    BY <1>1 DEF Slots
  <2> QED
    BY <2>1, <2>2, SlotOf
<1> HIDE DEF n
<1>3. Contents(w, r, b) = [i \in 1 .. n |-> b[(r + i - 1) % Capacity]]
  BY DEF Contents, n
<1>4. Contents(w, r, b) \in [1 .. n -> Values]
  BY <1>2, <1>3
<1>5. Contents(w, r, b) \in Seq(Values) /\ Len(Contents(w, r, b)) = n
  BY <1>1, <1>4
<1>6. \A i \in 1 .. n : Contents(w, r, b)[i] = b[IF r + i - 1 < Capacity THEN r + i - 1
                                                 ELSE r + i - 1 - Capacity]
  BY <1>2, <1>3
<1> QED
  BY <1>1, <1>5, <1>6 DEF n

LEMMA QueueIsContents ==
  /\ queue = Contents(write_pos, read_pos, buf)
  /\ queue' = Contents(write_pos', read_pos', buf')
  /\ available_read = (write_pos - read_pos) % Capacity
  /\ available_read' = (write_pos' - read_pos') % Capacity
BY DEF queue, Contents, available_read

(* Before a step and after it, the queue is a sequence of available_read   *)
(* elements.                                                               *)
LEMMA QueueIsSeq ==
  ASSUME TypeOK
  PROVE  /\ available_read \in 0 .. Capacity - 1
         /\ queue \in Seq(Values)
         /\ Len(queue) = available_read
         /\ \A i \in 1 .. available_read :
              queue[i] = buf[IF read_pos + i - 1 < Capacity THEN read_pos + i - 1
                             ELSE read_pos + i - 1 - Capacity]
BY QueueIsContents, ContentsIsSeq DEF TypeOK

LEMMA QueueIsSeqAfter ==
  ASSUME TypeOK'
  PROVE  /\ available_read' \in 0 .. Capacity - 1
         /\ queue' \in Seq(Values)
         /\ Len(queue') = available_read'
         /\ \A i \in 1 .. available_read' :
              queue'[i] = buf'[IF read_pos' + i - 1 < Capacity THEN read_pos' + i - 1
                               ELSE read_pos' + i - 1 - Capacity]
<1>1. write_pos' \in Slots /\ read_pos' \in Slots /\ buf' \in [Slots -> Values]
  BY DEF TypeOK
<1> QED
  BY <1>1, QueueIsContents, ContentsIsSeq

(* The writer stores only outside the queue. *)
LEMMA StoreIsInvisible ==
  ASSUME IInv, NEW v \in Values, StoreElement(v)
  PROVE  queue' = queue
<1> USE RingAssumption DEF IInv, TypeOK
<1>1. available_write = IF write_pos < read_pos THEN read_pos - write_pos - 1
                        ELSE read_pos - write_pos - 1 + Capacity
  BY Room DEF available_write
<1>2. available_read = IF read_pos <= write_pos THEN write_pos - read_pos
                       ELSE write_pos - read_pos + Capacity
  BY Ahead DEF available_read
<1>3. wk < wn /\ wk \in Nat /\ wn \in Nat /\ wn <= available_write
      /\ wn <= Capacity - write_pos
  BY DEF StoreElement, GrantsHold, CanWrite
<1>4. available_read' = available_read /\ read_pos' = read_pos
  BY DEF StoreElement, readerVars, available_read
<1>5. ASSUME NEW i \in 1 .. available_read
      PROVE  buf'[(read_pos + i - 1) % Capacity] = buf[(read_pos + i - 1) % Capacity]
  <2>1. i - 1 \in 0 .. Capacity - 1
    BY <1>2 DEF Slots
  <2>2. read_pos + (i - 1) = read_pos + i - 1
    BY <2>1 DEF Slots
  <2>3. /\ (read_pos + i - 1) % Capacity =
               IF read_pos + i - 1 < Capacity THEN read_pos + i - 1
               ELSE read_pos + i - 1 - Capacity
        /\ (read_pos + i - 1) % Capacity \in Slots
    BY <2>1, <2>2, SlotOf
  <2>4. write_pos + wk # IF read_pos + i - 1 < Capacity THEN read_pos + i - 1
                         ELSE read_pos + i - 1 - Capacity
    BY <1>1, <1>2, <1>3 DEF Slots
  <2>5. write_pos + wk # (read_pos + i - 1) % Capacity
    BY <2>3, <2>4
  <2> QED
    BY <2>3, <2>5 DEF StoreElement
<1> QED
  BY <1>4, <1>5 DEF queue

(* end_write adds the batch that was stored in the region. *)
LEMMA EndWriteIsPut ==
  ASSUME IInv, end_write
  PROVE  \E batch \in BatchesOf(Values) : Fifo!Put(batch)
<1> USE RingAssumption DEF IInv, TypeOK
<1> DEFINE batch == [i \in 1 .. wn |-> buf[write_pos + i - 1]]
<1>1. wn \in Nat \ {0} /\ wn \in Sizes /\ wn <= available_write /\ wn <= Capacity - write_pos
  BY DEF end_write, GrantsHold, CanWrite
<1>2. available_write = IF write_pos < read_pos THEN read_pos - write_pos - 1
                        ELSE read_pos - write_pos - 1 + Capacity
  BY Room DEF available_write
<1>3. available_read = IF read_pos <= write_pos THEN write_pos - read_pos
                       ELSE write_pos - read_pos + Capacity
  BY Ahead DEF available_read
<1>4. /\ write_pos' = IF write_pos + wn = Capacity THEN 0 ELSE write_pos + wn
      /\ write_pos' \in Slots
  BY <1>1, Advance DEF end_write
<1>5. /\ read_pos' = read_pos /\ buf' = buf /\ got' = got
      /\ available_read' = IF read_pos <= write_pos' THEN write_pos' - read_pos
                            ELSE write_pos' - read_pos + Capacity
  BY <1>4, Ahead DEF end_write, readerVars, available_read
<1>6. available_read' = available_read + wn /\ available_read + wn <= Capacity - 1
  BY <1>1, <1>2, <1>3, <1>4, <1>5 DEF Slots
<1>7. TypeOK'
  BY <1>4 DEF end_write, readerVars
<1>8. batch \in [1 .. wn -> Values] /\ batch \in Seq(Values) /\ Len(batch) = wn
  BY <1>1 DEF Slots
<1>9. batch \in BatchesOf(Values)
  BY <1>1, <1>8 DEF BatchesOf
<1>10. /\ queue \in Seq(Values) /\ Len(queue) = available_read
       /\ \A i \in 1 .. available_read :
            queue[i] = buf[IF read_pos + i - 1 < Capacity THEN read_pos + i - 1
                           ELSE read_pos + i - 1 - Capacity]
  BY QueueIsSeq
<1>11. /\ queue' \in Seq(Values) /\ Len(queue') = available_read + wn
       /\ \A i \in 1 .. available_read + wn :
            queue'[i] = buf[IF read_pos + i - 1 < Capacity THEN read_pos + i - 1
                            ELSE read_pos + i - 1 - Capacity]
  BY <1>5, <1>6, <1>7, QueueIsSeqAfter
<1>12. available_read \in Nat
  BY <1>3 DEF Slots
<1>13. queue' = queue \o batch
  <2>1. ASSUME NEW i \in 1 .. Len(queue)
        PROVE  queue'[i] = queue[i]
    <3>1. i \in 1 .. available_read /\ i \in 1 .. available_read + wn
      BY <1>1, <1>10, <1>12
    <3> HIDE DEF TypeOK, IInv
    <3> QED
      BY <1>10, <1>11, <3>1
  <2>2. ASSUME NEW i \in 1 .. Len(batch)
        PROVE  queue'[Len(queue) + i] = batch[i]
    <3>1. i \in 1 .. wn /\ available_read + i \in 1 .. available_read + wn
      BY <1>1, <1>8, <1>12
    <3>2. queue'[available_read + i] =
            buf[IF read_pos + (available_read + i) - 1 < Capacity
                THEN read_pos + (available_read + i) - 1
                ELSE read_pos + (available_read + i) - 1 - Capacity]
      BY <1>11, <3>1
    <3>3. write_pos + i - 1 =
            IF read_pos + (available_read + i) - 1 < Capacity
            THEN read_pos + (available_read + i) - 1
            ELSE read_pos + (available_read + i) - 1 - Capacity
      BY <1>1, <1>2, <1>3, <3>1 DEF Slots
    <3>4. batch[i] = buf[write_pos + i - 1]
      BY <3>1
    <3> QED
      BY <1>10, <3>2, <3>3, <3>4
  <2>3. Len(queue') = Len(queue) + Len(batch)
    BY <1>8, <1>10, <1>11
  <2> HIDE DEF batch
  <2> QED
    BY <1>8, <1>10, <1>11, <2>1, <2>2, <2>3, ConcatIs
<1>14. Len(queue) + Len(batch) <= Capacity - 1
  BY <1>6, <1>8, <1>10
<1> QED
  BY <1>5, <1>9, <1>13, <1>14 DEF Fifo!Put

(* end_read hands out the oldest rn elements and removes them. *)
LEMMA EndReadIsGet ==
  ASSUME IInv, end_read
  PROVE  \E n \in 1 .. Capacity - 1 : Fifo!Get(n)
<1> USE RingAssumption DEF IInv, TypeOK
<1>1. /\ rn \in Nat \ {0} /\ rn <= available_read /\ rn <= Capacity - read_pos
      /\ Len(dst) = rn
  BY DEF end_read, GrantsHold, CanRead
<1>2. available_read = IF read_pos <= write_pos THEN write_pos - read_pos
                       ELSE write_pos - read_pos + Capacity
  BY Ahead DEF available_read
<1>3. /\ read_pos' = IF read_pos + rn = Capacity THEN 0 ELSE read_pos + rn
      /\ read_pos' \in Slots
  BY <1>1, Advance DEF end_read
<1>4. /\ write_pos' = write_pos /\ buf' = buf /\ got' = dst
      /\ available_read' = IF read_pos' <= write_pos THEN write_pos - read_pos'
                            ELSE write_pos - read_pos' + Capacity
  BY <1>3, Ahead DEF end_read, writerVars, available_read
<1>5. /\ available_read' = available_read - rn
      /\ available_read \in Nat /\ available_read <= Capacity - 1
  BY <1>1, <1>2, <1>3, <1>4 DEF Slots
<1>6. TypeOK'
  BY <1>3 DEF end_read, writerVars
<1>7. /\ queue \in Seq(Values) /\ Len(queue) = available_read
      /\ \A i \in 1 .. available_read :
           queue[i] = buf[IF read_pos + i - 1 < Capacity THEN read_pos + i - 1
                          ELSE read_pos + i - 1 - Capacity]
  BY QueueIsSeq
<1>8. /\ queue' \in Seq(Values) /\ Len(queue') = available_read - rn
      /\ \A i \in 1 .. available_read - rn :
           queue'[i] = buf[IF read_pos' + i - 1 < Capacity THEN read_pos' + i - 1
                           ELSE read_pos' + i - 1 - Capacity]
  BY <1>4, <1>5, <1>6, QueueIsSeqAfter
<1>9. dst = SubSeq(queue, 1, rn)
  <2>1. ASSUME NEW i \in 1 .. Len(dst)
        PROVE  dst[i] = queue[1 + i - 1]
    <3>1. i \in 1 .. available_read /\ read_pos + i - 1 < Capacity /\ 1 + i - 1 = i
      BY <1>1, <1>5 DEF Slots
    <3>2. dst[i] = buf[read_pos + i - 1]
      BY DEF CopyNotOverwritten
    <3> QED
      BY <1>7, <3>1, <3>2
  <2>2. /\ 1 \in 1 .. Len(queue) + 1 /\ rn \in 0 .. Len(queue) /\ 1 <= rn + 1
        /\ Len(dst) = rn - 1 + 1
    BY <1>1, <1>5, <1>7
  <2>3. dst \in Seq(Values)
    OBVIOUS
  <2> HIDE DEF TypeOK, IInv
  <2> QED
    BY <1>7, <2>1, <2>2, <2>3, SliceIs
<1>10. queue' = SubSeq(queue, rn + 1, Len(queue))
  <2>1. ASSUME NEW i \in 1 .. Len(queue')
        PROVE  queue'[i] = queue[(rn + 1) + i - 1]
    <3>1. /\ i \in 1 .. available_read - rn /\ rn + i \in 1 .. available_read
          /\ (rn + 1) + i - 1 = rn + i
      BY <1>1, <1>5, <1>8
    <3>2. queue[rn + i] = buf[IF read_pos + (rn + i) - 1 < Capacity
                              THEN read_pos + (rn + i) - 1
                              ELSE read_pos + (rn + i) - 1 - Capacity]
      BY <1>7, <3>1
    <3>3. (IF read_pos + (rn + i) - 1 < Capacity THEN read_pos + (rn + i) - 1
           ELSE read_pos + (rn + i) - 1 - Capacity)
        = (IF read_pos' + i - 1 < Capacity THEN read_pos' + i - 1
           ELSE read_pos' + i - 1 - Capacity)
      BY <1>1, <1>3, <1>5, <3>1 DEF Slots
    <3> QED
      BY <1>8, <3>1, <3>2, <3>3
  <2>2. /\ rn + 1 \in 1 .. Len(queue) + 1 /\ Len(queue) \in 0 .. Len(queue)
        /\ rn + 1 <= Len(queue) + 1
        /\ Len(queue') = Len(queue) - (rn + 1) + 1
    BY <1>1, <1>5, <1>7, <1>8
  <2> QED
    BY <1>7, <1>8, <2>1, <2>2, SliceIs
<1>11. rn \in 1 .. Capacity - 1 /\ rn <= Len(queue)
  BY <1>1, <1>5, <1>7
<1> QED
  BY <1>4, <1>9, <1>10, <1>11 DEF Fifo!Get

(* reset empties the queue. *)
LEMMA ResetIsClear ==
  ASSUME IInv, reset
  PROVE  Fifo!Clear
<1> USE RingAssumption DEF IInv, TypeOK
<1>1. TypeOK'
  BY DEF reset, Slots
<1>2. available_read' = 0
  <2>1. write_pos' = 0 /\ read_pos' = 0 /\ 0 \in Slots
    BY DEF reset, Slots
  <2> QED
    BY <2>1, Ahead DEF available_read, Slots
<1>3. queue' \in Seq(Values) /\ Len(queue') = 0
  BY <1>1, <1>2, QueueIsSeqAfter
<1>4. queue' = << >>
  BY <1>3
<1> QED
  BY <1>4 DEF reset, Fifo!Clear

LEMMA InitRefines == Init => Fifo!Init
<1> SUFFICES ASSUME Init PROVE Fifo!Init
  OBVIOUS
<1>1. TypeOK
  BY InitInvariant DEF IInv
<1>2. available_read = 0
  <2>1. write_pos = 0 /\ read_pos = 0 /\ 0 \in Slots
    BY RingAssumption DEF Init, Slots
  <2> QED
    BY <2>1, Ahead DEF available_read
<1>3. queue \in Seq(Values) /\ Len(queue) = 0
  BY <1>1, <1>2, QueueIsSeq
<1> QED
  BY <1>3 DEF Init, Fifo!Init

(* Every step of the ring is a step of the queue or invisible to it. *)
LEMMA StepRefines == IInv /\ [Next]_vars => [Fifo!Next]_(Fifo!fifoVars)
<1> SUFFICES ASSUME IInv, [Next]_vars
             PROVE  Fifo!Next \/ UNCHANGED <<queue, got>>
  BY DEF Fifo!fifoVars
<1>1. ASSUME NEW n \in Sizes, CallWrite(n)
      PROVE  UNCHANGED <<queue, got>>
  BY <1>1, QueueFixed DEF CallWrite, readerVars
<1>2. CASE begin_write
  BY <1>2, QueueFixed DEF begin_write, readerVars
<1>3. CASE RetryWrite
  BY <1>3, QueueFixed DEF RetryWrite, readerVars
<1>4. ASSUME NEW v \in Values, StoreElement(v)
      PROVE  UNCHANGED <<queue, got>>
  BY <1>4, StoreIsInvisible DEF StoreElement, readerVars
<1>5. CASE end_write
  BY <1>5, EndWriteIsPut DEF Fifo!Next
<1>6. ASSUME NEW n \in Sizes, begin_read(n)
      PROVE  UNCHANGED <<queue, got>>
  BY <1>6, QueueFixed DEF begin_read, writerVars
<1>7. CASE LoadElement
  BY <1>7, QueueFixed DEF LoadElement, writerVars
<1>8. CASE end_read
  BY <1>8, EndReadIsGet DEF Fifo!Next
<1>9. CASE reset
  BY <1>9, ResetIsClear DEF Fifo!Next
<1>10. CASE UNCHANGED vars
  BY <1>10, QueueFixed DEF vars
<1> QED
  BY <1>1, <1>2, <1>3, <1>4, <1>5, <1>6, <1>7, <1>8, <1>9, <1>10
  DEF Next, WriterStep, ReaderStep

(* The ring implements the bounded first-in first-out queue: whatever the  *)
(* interleaving of the two sides, completed reads return the elements of   *)
(* completed writes, each once and in order (write, read, reset).          *)
THEOREM Refinement == Spec => RefinesFifo
<1>1. Init => Fifo!Init
  BY InitRefines
<1>2. IInv /\ [Next]_vars => [Fifo!Next]_(Fifo!fifoVars)
  BY StepRefines
<1> QED
  BY <1>1, <1>2, Invariance, PTL DEF Spec, RefinesFifo, Fifo!Spec
=============================================================================
