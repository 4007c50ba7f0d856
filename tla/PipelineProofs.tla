--------------------------- MODULE PipelineProofs ---------------------------
(***************************************************************************)
(* What travels through the player (src/play.cpp, src/decoder.cpp,         *)
(* src/video.cpp, src/audio.cpp), proved for every file, every capacity,   *)
(* every codec delay and every cut of frames into chunks.                  *)
(*                                                                         *)
(* The k-th element of a stream is its k-th packet, and the one after the  *)
(* last is the null packet.  At any time the elements that were read and   *)
(* are not shown or heard yet lie, in the order of k and without a gap, in *)
(* the frame queue, the decoder's hands, the codec, the packet queue and   *)
(* the reader's hands; and what is allocated is what lies there.  From the *)
(* same invariant follows how far the video, which waits for the audio     *)
(* clock, can be ahead of what was heard.                                  *)
(***************************************************************************)
EXTENDS PlayProofs, FiniteSetTheorems

Total(s) == Upto(s, Len(File))
Line(s) == [k \in Nat |-> IF k \in 1 .. Total(s) THEN PtsOf(s)[k] ELSE Null]

(* q lies in the line behind its first n elements. *)
Lies(q, line, n) == \A i \in 1 .. Len(q) : q[i] = line[n + i]

Bit(b) == IF b THEN 1 ELSE 0

(* How many elements are in the decoder's hands and in the reader's: the   *)
(* frame it gives out, the null packet, and the packet to be written.      *)
Out(s) == Bit(decoder[s] = "emit")
InHand(s) ==
  Bit(packet[s] = Null /\ (decoder[s] = "receive" \/ (decoder[s] = "emit" /\ frame[s] # Null)))
Writing(s) == Bit(reader = "write" /\ \E i \in DOMAIN toWrite : toWrite[i][1] = s)

(* The numbers of the last elements in the codec, in the packet queue, and *)
(* of all, when b elements have left the frame queue; and how many were    *)
(* read.                                                                   *)
AfterCodec(s, b) == b + Len(frameQueue[s]) + Out(s) + Len(codec[s])
AfterQueue(s, b) == AfterCodec(s, b) + InHand(s) + Len(packetQueue[s])
Last(s, b) == AfterQueue(s, b) + Writing(s)
ReadSoFar(s) == Upto(s, pos - 1) + Bit(eof)

Looping == reader \in {"loop", "read", "write"}

(* The line of elements from the frame queue to the reader; while a stream *)
(* is closed its end may be missing.                                       *)
DecoderLine(s, b) ==
  /\ Lies(frameQueue[s], Line(s), b)
  /\ decoder[s] = "emit" => frame[s] = Line(s)[b + Len(frameQueue[s]) + 1]
  /\ Lies(codec[s], Line(s), b + Len(frameQueue[s]) + Out(s))
  /\ decoder[s] \in {"receive", "emit"} => packet[s] = Line(s)[AfterCodec(s, b) + InHand(s)]
  /\ Lies(packetQueue[s], Line(s), AfterCodec(s, b) + InHand(s))
  /\ reader = "write" =>
       \A i \in DOMAIN toWrite : toWrite[i][1] = s => toWrite[i][2] = Line(s)[AfterQueue(s, b) + 1]
  /\ Last(s, b) <= ReadSoFar(s)
  /\ Looping => Last(s, b) = ReadSoFar(s)

(* The video: the frames shown, the frame held, and the line. *)
VideoTaken == Len(shown) + Bit(display = "delay") + Bit(videoEof)
VideoLine ==
  /\ shown \in Seq(Times("video")) /\ Len(shown) <= Total("video")
  /\ Lies(shown, Line("video"), 0)
  /\ display = "delay" =>
       ~videoEof /\ Len(shown) < Total("video") /\ held = Line("video")[Len(shown) + 1]
  /\ videoEof => Len(shown) = Total("video")
  /\ display # "none" => DecoderLine("video", VideoTaken)

(* The audio: the samples heard, those in the channel, whose chunks are    *)
(* full but for the last of the file, the chunk that is filled, and, when  *)
(* f frames have left the frame queue, the rest of the f-th, and the line. *)
InChannel ==
  IF channel = << >> THEN 0
  ELSE (Len(channel) - 1) * ChunkSamples + Len(channel[Len(channel)])
Handed == Len(heard) + InChannel
NullTaken == mixer \in {"flush", "drain"} \/ audioEof

AudioTaken(f) ==
  /\ f * FrameSamples = Handed + Len(chunk) + avail
  /\ mixer \in {"begin", "fill"} => f > 0 /\ sound = Line("audio")[f]
  /\ NullTaken => f = Total("audio")
  /\ DecoderLine("audio", f + Bit(NullTaken))

ChannelLine ==
  /\ heard \in Seq(Times("audio")) /\ Lies(heard, Samples, 0)
  /\ \A i \in 1 .. Len(channel) :
       /\ i < Len(channel) \/ mixer # "drain" => Len(channel[i]) = ChunkSamples
       /\ Lies(channel[i], Samples, Len(heard) + (i - 1) * ChunkSamples)
  /\ Lies(chunk, Samples, Handed)
  /\ Handed + Len(chunk) <= Len(Samples)

MixerLine ==
  /\ mixer \in {"begin", "fill"} \/ avail = 0
  /\ mixer \in {"begin", "fill"} => ~audioEof
  /\ mixer \in {"drain", "none"} => chunk = << >>
  /\ audioEof => /\ mixer \in {"none", "poll", "eof"}
                 /\ channel = << >> /\ chunk = << >> /\ Len(heard) = Len(Samples)
  /\ mixer # "none" => \E f \in 0 .. Total("audio") : AudioTaken(f)

(* While the reader loops, exactly the streams that are open are handled.  *)
EofOf(s) == IF s = "video" THEN videoEof ELSE audioEof
Handled ==
  /\ \A s \in Streams : ~Ended(s) /\ decoder[s] # "none" => alive[s]
  /\ Looping => \A s \in Streams : IF Ended(s) THEN ~EofOf(s) ELSE alive[s] /\ s \in opened
  /\ Looping /\ mixer = "none" => channel = << >> /\ heard = << >>

(* What the reader is about to read or to write. *)
Reading ==
  /\ reader = "read" => ~eof
  /\ Looping /\ eof => pos = Len(File) + 1
  /\ reader = "write" =>
       IF eof THEN toWrite \in {<< <<"video", Null>>, <<"audio", Null>> >>, << <<"audio", Null>> >>}
       ELSE \E s \in Streams : \E p \in Times(s) : toWrite = << <<s, p>> >>

(* What is allocated lies in a queue, in a decoder's hands, in the         *)
(* reader's, or in a display coroutine's.                                  *)
PacketHeld(s) == Bit(decoder[s] \in {"receive", "emit"} /\ packet[s] # Null)
WriteHeld(s) ==
  Bit(reader = "write" /\ \E i \in DOMAIN toWrite : toWrite[i][1] = s /\ toWrite[i][2] # Null)
FrameHeld(s) == Bit(decoder[s] = "emit" /\ frame[s] # Null)
OwnerHeld(s) == IF s = "video" THEN Bit(display = "delay") ELSE Bit(mixer \in {"begin", "fill"})

Account(s) ==
  /\ livePackets[s] = Count(packetQueue[s]) + PacketHeld(s) + WriteHeld(s)
  /\ liveFrames[s] = Count(frameQueue[s]) + FrameHeld(s) + OwnerHeld(s)
  /\ decoder[s] = "emit" /\ frame[s] = Null => packet[s] = Null
Accounts ==
  /\ DOMAIN livePackets = Streams /\ DOMAIN liveFrames = Streams
  /\ \A s \in Streams : Account(s)

LineInv == PInv /\ VideoLine /\ ChannelLine /\ MixerLine /\ Handled /\ Reading /\ Accounts

-----------------------------------------------------------------------------
(* The packets of a stream, in reading order *)

LEMMA UptoSets ==
  ASSUME NEW s \in Streams, NEW n \in Nat
  PROVE  /\ IsFiniteSet({i \in 1 .. n : File[i].stream = s})
         /\ Upto(s, n) \in Nat /\ Upto(s, n) <= n
<1>1. IsFiniteSet(1 .. n) /\ Cardinality(1 .. n) = n
  BY FS_Interval
<1>2. {i \in 1 .. n : File[i].stream = s} \in SUBSET (1 .. n)
  OBVIOUS
<1>3. /\ IsFiniteSet({i \in 1 .. n : File[i].stream = s})
      /\ Cardinality({i \in 1 .. n : File[i].stream = s}) <= n
  BY <1>1, <1>2, FS_Subset
<1> QED
  BY <1>3, FS_CardinalityType DEF Upto

LEMMA UptoZero == ASSUME NEW s \in Streams PROVE Upto(s, 0) = 0
<1>1. 0 \in Nat
  OBVIOUS
<1>2. Upto(s, 0) \in Nat /\ Upto(s, 0) <= 0
  BY <1>1, UptoSets
<1> QED
  BY <1>2

(* One packet more is one more of its stream, and no more of another. *)
LEMMA UptoNext ==
  ASSUME NEW s \in Streams, NEW n \in Nat \ {0}
  PROVE  Upto(s, n) = Upto(s, n - 1) + Bit(File[n].stream = s)
<1> DEFINE U(m) == {i \in 1 .. m : File[i].stream = s}
<1>0. n - 1 \in Nat
  OBVIOUS
<1>1. IsFiniteSet(U(n - 1)) /\ Upto(s, n - 1) = Cardinality(U(n - 1)) /\ Upto(s, n - 1) \in Nat
  BY <1>0, UptoSets DEF Upto
<1>2. Upto(s, n) = Cardinality(U(n))
  BY DEF Upto
<1>3. CASE File[n].stream = s
  <2>1. U(n) = U(n - 1) \cup {n} /\ n \notin U(n - 1)
    BY <1>3
  <2> HIDE DEF U
  <2>2. Cardinality(U(n)) = Cardinality(U(n - 1)) + 1
    BY <1>1, <2>1, FS_AddElement
  <2> QED
    BY <1>1, <1>2, <1>3, <2>2 DEF Bit
<1>4. CASE File[n].stream # s
  <2>1. U(n) = U(n - 1)
    BY <1>4
  <2>2. Upto(s, n) = Upto(s, n - 1)
    BY <1>1, <1>2, <2>1
  <2> QED
    BY <1>1, <1>4, <2>2 DEF Bit
<1> QED
  BY <1>3, <1>4

LEMMA UptoMonotonic ==
  ASSUME NEW s \in Streams, NEW n \in Nat, NEW m \in 0 .. n
  PROVE  Upto(s, m) <= Upto(s, n)
<1>1. {i \in 1 .. m : File[i].stream = s} \in SUBSET {i \in 1 .. n : File[i].stream = s}
  OBVIOUS
<1> QED
  BY <1>1, UptoSets, FS_Subset DEF Upto

(* No two packets of a stream have the same number. *)
LEMMA UptoDistinguishes ==
  ASSUME NEW s \in Streams, NEW i \in Nat \ {0}, NEW j \in Nat \ {0},
         File[i].stream = s, File[j].stream = s, Upto(s, i) = Upto(s, j)
  PROVE  i = j
<1>1. ASSUME NEW k \in Nat \ {0}, NEW n \in Nat \ {0}, File[n].stream = s, k < n
      PROVE  Upto(s, k) < Upto(s, n)
  <2>1. Upto(s, n) = Upto(s, n - 1) + 1
    BY <1>1, UptoNext DEF Bit
  <2>0. n - 1 \in Nat /\ k \in 0 .. n - 1 /\ k \in Nat
    BY <1>1
  <2>2. Upto(s, k) <= Upto(s, n - 1) /\ Upto(s, n - 1) \in Nat /\ Upto(s, k) \in Nat
    BY <2>0, UptoMonotonic, UptoSets
  <2> QED
    BY <2>1, <2>2
<1>2. Upto(s, i) \in Nat
  BY UptoSets
<1> QED
  BY <1>1, <1>2

LEMMA TotalIs == ASSUME NEW s \in Streams PROVE Total(s) \in Nat
BY UptoSets, FileTimes DEF Total

(* The time of a packet is found at its number. *)
LEMMA PtsAt ==
  ASSUME NEW s \in Streams, NEW i \in 1 .. Len(File), File[i].stream = s
  PROVE  /\ Upto(s, i) \in 1 .. Total(s)
         /\ PtsOf(s)[Upto(s, i)] = File[i].pts
<1>0. Len(File) \in Nat /\ DOMAIN File = 1 .. Len(File)
  BY FileTimes, PlayAssumption, LenProperties
<1>1. Upto(s, i) \in 1 .. Total(s)
  <2>0. i \in Nat \ {0} /\ i - 1 \in Nat /\ i \in 0 .. Len(File)
    BY <1>0
  <2>1. Upto(s, i) = Upto(s, i - 1) + 1 /\ Upto(s, i - 1) \in Nat
    BY <2>0, UptoNext, UptoSets DEF Bit
  <2>2. Upto(s, i) <= Total(s)
    BY <1>0, <2>0, UptoMonotonic DEF Total
  <2> QED
    BY <2>1, <2>2, TotalIs
<1>2. Place(s, Upto(s, i)) = i
  <2> DEFINE P(j) == j \in DOMAIN File /\ File[j].stream = s /\ Upto(s, j) = Upto(s, i)
  <2>1. P(i) /\ \A j : P(j) => j = i
    BY <1>0, UptoDistinguishes
  <2>2. Place(s, Upto(s, i)) = CHOOSE j : P(j)
    BY DEF Place
  <2> QED
    BY <2>1, <2>2
<1> QED
  BY <1>1, <1>2 DEF PtsOf, Total

(* Every number up to the last is that of a packet: there are as many      *)
(* numbers as packets, and no two packets share one.                       *)
LEMMA EveryNumber ==
  ASSUME NEW s \in Streams, NEW k \in 1 .. Total(s)
  PROVE  \E i \in 1 .. Len(File) : File[i].stream = s /\ Upto(s, i) = k
<1> DEFINE M == {i \in 1 .. Len(File) : File[i].stream = s}
           f == [i \in M |-> Upto(s, i)]
<1>0. Len(File) \in Nat /\ Total(s) \in Nat
  BY FileTimes, TotalIs
<1>1. f \in Injection(M, 1 .. Total(s))
  <2>1. \A i \in M : f[i] \in 1 .. Total(s)
    BY PtsAt
  <2>2. \A i, j \in M : f[i] = f[j] => i = j
    BY <1>0, UptoDistinguishes
  <2>3. f \in [M -> 1 .. Total(s)]
    BY <2>1
  <2> HIDE DEF M, f
  <2> QED
    BY <2>2, <2>3 DEF Injection, IsInjective
<1>2. IsFiniteSet(1 .. Total(s)) /\ Cardinality(1 .. Total(s)) = Total(s)
  BY <1>0, FS_Interval
<1>3. Cardinality(M) = Total(s)
  BY DEF Total, Upto
<1>4. f \in Surjection(M, 1 .. Total(s))
  <2> HIDE DEF M, f
  <2> QED
    BY <1>1, <1>2, <1>3, FS_Injection
<1> QED
  BY <1>4 DEF Surjection

LEMMA LineIs ==
  ASSUME NEW s \in Streams
  PROVE  /\ Null \notin Times(s)
         /\ \A k \in Nat : k \in 1 .. Total(s) => Line(s)[k] = PtsOf(s)[k] /\ Line(s)[k] \in Times(s)
         /\ \A k \in Nat : k \notin 1 .. Total(s) => Line(s)[k] = Null
         /\ \A k \in Nat : Line(s)[k] # Null <=> k \in 1 .. Total(s)
<1>1. Null \notin Times(s)
  BY FileTimes, PlayAssumption
<1>2. ASSUME NEW k \in 1 .. Total(s) PROVE PtsOf(s)[k] \in Times(s)
  <2>1. PICK i \in 1 .. Len(File) : File[i].stream = s /\ Upto(s, i) = k
    BY EveryNumber
  <2>2. PtsOf(s)[k] = File[i].pts
    BY <2>1, PtsAt
  <2> QED
    BY <2>1, <2>2, FileTimes
<1> QED
  BY <1>1, <1>2 DEF Line

LEMMA PtsOfIs ==
  ASSUME NEW s \in Streams
  PROVE  PtsOf(s) \in Seq(Times(s)) /\ Len(PtsOf(s)) = Total(s)
<1>1. \A k \in 1 .. Total(s) : PtsOf(s)[k] \in Times(s)
  BY LineIs, TotalIs
<1>2. PtsOf(s) = [k \in 1 .. Total(s) |-> PtsOf(s)[k]]
  BY DEF PtsOf, Total
<1>3. PtsOf(s) \in [1 .. Total(s) -> Times(s)]
  BY <1>1, <1>2
<1> QED
  BY <1>3, TotalIs

-----------------------------------------------------------------------------
(* Sequences that lie in a line *)

LEMMA LiesNowhere == ASSUME NEW line, NEW n PROVE Lies(<< >>, line, n)
BY EmptySeq DEF Lies

LEMMA LiesWithoutHead ==
  ASSUME NEW S, NEW q \in Seq(S), q # << >>, NEW line, NEW n \in Nat, Lies(q, line, n)
  PROVE  Head(q) = line[n + 1] /\ Lies(Tail(q), line, n + 1)
<1>1. /\ Len(q) \in Nat \ {0} /\ Len(Tail(q)) = Len(q) - 1 /\ Head(q) = q[1]
      /\ \A i \in 1 .. Len(Tail(q)) : Tail(q)[i] = q[i + 1]
  BY HeadTailProperties, EmptySeq
<1>2. Head(q) = line[n + 1]
  BY <1>1 DEF Lies
<1>3. ASSUME NEW i \in 1 .. Len(Tail(q)) PROVE Tail(q)[i] = line[n + 1 + i]
  <2>1. i + 1 \in 1 .. Len(q) /\ n + (i + 1) = n + 1 + i /\ Tail(q)[i] = q[i + 1]
    BY <1>1
  <2> QED
    BY <2>1 DEF Lies
<1> QED
  BY <1>2, <1>3 DEF Lies

LEMMA LiesWithOneMore ==
  ASSUME NEW S, NEW q \in Seq(S), NEW e \in S, NEW line, NEW n \in Nat, Lies(q, line, n),
         e = line[n + Len(q) + 1]
  PROVE  Lies(Append(q, e), line, n)
<1>1. /\ Len(Append(q, e)) = Len(q) + 1 /\ Len(q) \in Nat
      /\ \A i \in 1 .. Len(q) : Append(q, e)[i] = q[i] /\ Append(q, e)[Len(q) + 1] = e
  BY AppendProperties, LenProperties
<1>2. ASSUME NEW i \in 1 .. Len(Append(q, e)) PROVE Append(q, e)[i] = line[n + i]
  <2>1. CASE i \in 1 .. Len(q)
    BY <1>1, <2>1 DEF Lies
  <2>2. CASE i = Len(q) + 1
    <3>1. Append(q, e)[i] = e /\ n + i = n + Len(q) + 1
      BY <1>1, <2>2, AppendProperties
    <3> QED
      BY <3>1
  <2> QED
    BY <1>1, <2>1, <2>2
<1> QED
  BY <1>2 DEF Lies

LEMMA LieBehindEachOther ==
  ASSUME NEW S, NEW q \in Seq(S), NEW r \in Seq(S), NEW line, NEW n \in Nat,
         Lies(q, line, n), Lies(r, line, n + Len(q))
  PROVE  Lies(q \o r, line, n)
<1>1. /\ Len(q) \in Nat /\ Len(r) \in Nat /\ Len(q \o r) = Len(q) + Len(r)
      /\ \A i \in 1 .. Len(q) + Len(r) :
           (q \o r)[i] = IF i <= Len(q) THEN q[i] ELSE r[i - Len(q)]
  BY ConcatProperties, LenProperties
<1>2. ASSUME NEW i \in 1 .. Len(q \o r) PROVE (q \o r)[i] = line[n + i]
  <2>1. CASE i <= Len(q)
    BY <1>1, <2>1 DEF Lies
  <2>2. CASE i > Len(q)
    <3>1. i - Len(q) \in 1 .. Len(r) /\ n + Len(q) + (i - Len(q)) = n + i
      BY <1>1, <2>2
    <3>2. (q \o r)[i] = r[i - Len(q)]
      BY <1>1, <2>2
    <3> QED
      BY <3>1, <3>2 DEF Lies
  <2> QED
    BY <1>1, <2>1, <2>2
<1> QED
  BY <1>2 DEF Lies

(* What lies in a sequence behind nothing is its beginning. *)
LEMMA LiesAtFirst ==
  ASSUME NEW S, NEW q \in Seq(S), NEW line \in Seq(S), Lies(q, line, 0), Len(q) <= Len(line)
  PROVE  q = SubSeq(line, 1, Len(q)) /\ (Len(q) = Len(line) => q = line)
<1>1. /\ Len(q) \in Nat /\ Len(line) \in Nat /\ 1 \in Int
      /\ \A i \in 1 .. Len(q) : line[i] \in S
  BY LenProperties, ElementOfSeq
<1>2. /\ SubSeq(line, 1, Len(q)) \in Seq(S) /\ Len(SubSeq(line, 1, Len(q))) = Len(q)
      /\ \A i \in 1 .. Len(q) : SubSeq(line, 1, Len(q))[i] = line[i]
  <2>1. /\ SubSeq(line, 1, Len(q)) \in Seq(S)
        /\ Len(SubSeq(line, 1, Len(q))) = IF 1 <= Len(q) THEN Len(q) - 1 + 1 ELSE 0
        /\ \A i \in 1 .. Len(q) - 1 + 1 : SubSeq(line, 1, Len(q))[i] = line[1 + i - 1]
    BY <1>1, SubSeqProperties
  <2> QED
    BY <1>1, <2>1
<1>3. \A i \in 1 .. Len(q) : q[i] = line[i]
  BY <1>1 DEF Lies
<1>4. q = SubSeq(line, 1, Len(q))
  BY <1>2, <1>3, SeqEqual
<1> QED
  BY <1>3, <1>4, SeqEqual

-----------------------------------------------------------------------------
(* What a queue holds that has to be freed *)

LEMMA CountNothing == Count(<< >>) = 0
<1>1. {i \in DOMAIN << >> : << >>[i] # Null} = {}
  OBVIOUS
<1> QED
  BY <1>1, FS_EmptySet DEF Count

LEMMA CountIs ==
  ASSUME NEW S, NEW q \in Seq(S)
  PROVE  IsFiniteSet({i \in DOMAIN q : q[i] # Null}) /\ Count(q) \in Nat
<1>1. DOMAIN q = 1 .. Len(q) /\ Len(q) \in Nat
  BY LenProperties
<1>2. IsFiniteSet(1 .. Len(q))
  BY <1>1, FS_Interval
<1>3. {i \in DOMAIN q : q[i] # Null} \in SUBSET (1 .. Len(q))
  BY <1>1
<1>4. IsFiniteSet({i \in DOMAIN q : q[i] # Null})
  BY <1>2, <1>3, FS_Subset
<1> QED
  BY <1>4, FS_CardinalityType DEF Count

LEMMA CountOneMore ==
  ASSUME NEW S, NEW q \in Seq(S), NEW e \in S
  PROVE  Count(Append(q, e)) = Count(q) + Bit(e # Null)
<1> DEFINE C(r) == {i \in DOMAIN r : r[i] # Null}
<1>1. /\ DOMAIN q = 1 .. Len(q) /\ DOMAIN Append(q, e) = 1 .. Len(q) + 1 /\ Len(q) \in Nat
      /\ \A i \in 1 .. Len(q) : Append(q, e)[i] = q[i]
      /\ Append(q, e)[Len(q) + 1] = e
  <2>1. Append(q, e) \in Seq(S) /\ Len(Append(q, e)) = Len(q) + 1
    BY AppendProperties
  <2> QED
    BY <2>1, AppendProperties, LenProperties
<1>2. IsFiniteSet(C(q)) /\ Count(q) = Cardinality(C(q)) /\ Count(q) \in Nat
      /\ Count(Append(q, e)) = Cardinality(C(Append(q, e)))
  BY CountIs DEF Count
<1>3. CASE e # Null
  <2>1. C(Append(q, e)) = C(q) \cup {Len(q) + 1} /\ Len(q) + 1 \notin C(q)
    BY <1>1, <1>3
  <2> HIDE DEF C
  <2> QED
    BY <1>2, <1>3, <2>1, FS_AddElement DEF Bit
<1>4. CASE e = Null
  <2>1. C(Append(q, e)) = C(q)
    BY <1>1, <1>4
  <2> HIDE DEF C
  <2> QED
    BY <1>2, <1>4, <2>1 DEF Bit
<1> QED
  BY <1>3, <1>4

(* The places of the tail are those of the queue but the first, one on. *)
LEMMA CountWithoutHead ==
  ASSUME NEW S, NEW q \in Seq(S), q # << >>
  PROVE  Count(q) = Count(Tail(q)) + Bit(Head(q) # Null)
<1> DEFINE C == {i \in DOMAIN q : q[i] # Null}
           D == {i \in DOMAIN Tail(q) : Tail(q)[i] # Null}
           E == C \ {1}
           f == [i \in D |-> i + 1]
<1>1. /\ Tail(q) \in Seq(S) /\ Len(q) \in Nat \ {0}
      /\ DOMAIN q = 1 .. Len(q) /\ DOMAIN Tail(q) = 1 .. Len(q) - 1
      /\ \A i \in 1 .. Len(q) - 1 : Tail(q)[i] = q[i + 1]
      /\ Head(q) = q[1]
  <2>1. /\ Tail(q) \in Seq(S) /\ Len(Tail(q)) = Len(q) - 1 /\ Len(q) \in Nat \ {0}
        /\ \A i \in 1 .. Len(Tail(q)) : Tail(q)[i] = q[i + 1]
    BY HeadTailProperties, EmptySeq
  <2>2. DOMAIN q = 1 .. Len(q) /\ DOMAIN Tail(q) = 1 .. Len(Tail(q))
    BY <2>1, LenProperties
  <2> QED
    BY <2>1, <2>2
<1>2. IsFiniteSet(C) /\ IsFiniteSet(D) /\ Count(q) = Cardinality(C) /\ Count(Tail(q)) = Cardinality(D)
      /\ Count(Tail(q)) \in Nat
  BY <1>1, CountIs DEF Count
<1>3. f \in Bijection(D, E)
  <2>1. D \subseteq 1 .. Len(q) - 1 /\ \A i \in D : i + 1 \in E
    BY <1>1
  <2>2. \A i, j \in D : f[i] = f[j] => i = j
    BY <1>1, <2>1
  <2>3. \A k \in E : k - 1 \in D /\ f[k - 1] = k
    BY <1>1
  <2>4. f \in [D -> E]
    BY <2>1
  <2> HIDE DEF C, D, E, f
  <2>5. f \in Injection(D, E)
    BY <2>2, <2>4 DEF Injection, IsInjective
  <2>6. f \in Surjection(D, E)
    BY <2>3, <2>4 DEF Surjection
  <2> QED
    BY <2>5, <2>6 DEF Bijection
<1>4. 1 \in C <=> Head(q) # Null
  BY <1>1
<1> HIDE DEF C, D, f
<1>5. Cardinality(E) = Cardinality(D)
  BY <1>2, <1>3, FS_Bijection DEF ExistsBijection
<1>6. Cardinality(E) = IF 1 \in C THEN Cardinality(C) - 1 ELSE Cardinality(C)
  BY <1>2, FS_RemoveElement
<1>7. Cardinality(C) \in Nat
  BY <1>2, FS_CardinalityType
<1> QED
  BY <1>2, <1>4, <1>5, <1>6, <1>7 DEF Bit

-----------------------------------------------------------------------------
(* The samples of the file *)

LEMMA Divided ==
  ASSUME NEW d \in Nat \ {0}, NEW f \in Nat, NEW p \in Int, (f - 1) * d < p, p <= f * d, p > 0
  PROVE  (p - 1) \div d = f - 1
<1>1. PICK q \in Int : q = (p - 1) \div d
  OBVIOUS
<1>2. PICK r \in Int : r = (p - 1) % d
  OBVIOUS
<1>3. p - 1 = d * q + r /\ 0 <= r /\ r < d
  BY <1>1, <1>2
<1>4. ~(q < f - 1)
  <2> SUFFICES ASSUME q < f - 1 PROVE FALSE
    OBVIOUS
  <2>1. PICK x \in Nat : f - 1 = q + 1 + x
    <3>1. f - 1 - q - 1 \in Nat
      OBVIOUS
    <3> QED
      BY <3>1
  <2>2. (f - 1) * d = q * d + d + x * d /\ x * d >= 0
    BY <2>1
  <2> QED
    BY <1>3, <2>2
<1>5. ~(q > f - 1)
  <2> SUFFICES ASSUME q > f - 1 PROVE FALSE
    OBVIOUS
  <2>1. PICK x \in Nat : q = f + x
    <3>1. q - f \in Nat
      OBVIOUS
    <3> QED
      BY <3>1
  <2>2. d * q = f * d + x * d /\ x * d >= 0
    BY <2>1
  <2> QED
    BY <1>3, <2>2
<1> QED
  BY <1>1, <1>4, <1>5

LEMMA TimesMonotonic ==
  ASSUME NEW d \in Nat, NEW f \in Nat, NEW n \in Nat, f <= n
  PROVE  f * d \in Nat /\ f * d <= n * d
<1>1. PICK x \in Nat : n = f + x
  <2>1. n - f \in Nat
    OBVIOUS
  <2> QED
    BY <2>1
<1>2. n * d = f * d + x * d /\ x * d \in Nat /\ f * d \in Nat
  BY <1>1
<1> QED
  BY <1>2

(* The samples of the f-th frame are FrameSamples of its time. *)
LEMMA SamplesAre ==
  /\ Samples \in Seq(Times("audio")) /\ Len(Samples) = Total("audio") * FrameSamples
  /\ \A f \in 1 .. Total("audio") : \A p \in Nat :
       f * FrameSamples - FrameSamples < p /\ p <= f * FrameSamples => Samples[p] = Line("audio")[f]
<1>0. "audio" \in Streams /\ FrameSamples \in Nat \ {0} /\ Total("audio") \in Nat
  BY PlayAssumption, TotalIs
<1>1. Len(PtsOf("audio")) = Total("audio")
  BY <1>0, PtsOfIs
<1> DEFINE n == Total("audio") * FrameSamples
<1>2. n \in Nat
  BY <1>0
<1>3. Samples = [p \in 1 .. n |-> PtsOf("audio")[(p - 1) \div FrameSamples + 1]]
  BY <1>1 DEF Samples
<1>4. ASSUME NEW f \in 1 .. Total("audio"), NEW p \in Nat,
             f * FrameSamples - FrameSamples < p, p <= f * FrameSamples
      PROVE  p \in 1 .. n /\ Samples[p] = Line("audio")[f]
  <2>1. f * FrameSamples <= n
    BY <1>0, TimesMonotonic
  <2>2. (f - 1) * FrameSamples = f * FrameSamples - FrameSamples /\ (f - 1) * FrameSamples \in Nat
        /\ f * FrameSamples \in Nat
    BY <1>0
  <2>3. p \in 1 .. n
    BY <1>2, <1>4, <2>1, <2>2
  <2>4. (p - 1) \div FrameSamples = f - 1
    BY <1>0, <1>4, <2>2, <2>3, Divided
  <2> HIDE DEF n
  <2>5. Samples[p] = PtsOf("audio")[f - 1 + 1] /\ f - 1 + 1 = f
    BY <1>3, <2>3, <2>4
  <2> QED
    BY <1>0, <2>3, <2>5, LineIs
<1>5. ASSUME NEW p \in 1 .. n PROVE Samples[p] \in Times("audio")
  <2>1. PICK q \in Int : q = (p - 1) \div FrameSamples
    BY <1>0
  <2>2. PICK r \in Int : r = (p - 1) % FrameSamples
    BY <1>0
  <2>3. p - 1 = FrameSamples * q + r /\ 0 <= r /\ r < FrameSamples
    BY <1>0, <2>1, <2>2
  <2>4. q >= 0
    <3> SUFFICES ASSUME q < 0 PROVE FALSE
      OBVIOUS
    <3>1. PICK x \in Nat : q = -1 - x
      <4>1. -1 - q \in Nat
        OBVIOUS
      <4> QED
        BY <4>1
    <3>2. FrameSamples * q = -FrameSamples - FrameSamples * x /\ FrameSamples * x >= 0
      BY <1>0, <3>1
    <3> QED
      BY <1>0, <1>2, <2>3, <3>2
  <2>5. q < Total("audio")
    <3> SUFFICES ASSUME q >= Total("audio") PROVE FALSE
      BY <1>0
    <3>1. n <= q * FrameSamples /\ q * FrameSamples = FrameSamples * q
      BY <1>0, <2>4, TimesMonotonic
    <3> QED
      BY <1>0, <1>2, <2>3, <3>1
  <2>6. q + 1 \in 1 .. Total("audio")
    BY <1>0, <2>4, <2>5
  <2> HIDE DEF n
  <2>7. Samples[p] = PtsOf("audio")[q + 1]
    BY <1>3, <2>1
  <2> QED
    BY <1>0, <2>6, <2>7, LineIs
<1>6. Samples \in [1 .. n -> Times("audio")]
  <2> HIDE DEF n
  <2> QED
    BY <1>3, <1>5
<1>7. Samples \in Seq(Times("audio")) /\ Len(Samples) = n
  BY <1>2, <1>6
<1> QED
  BY <1>4, <1>7

-----------------------------------------------------------------------------
(* The line of one stream *)

LEMMA LineCounts ==
  ASSUME PInv, NEW s \in Streams, NEW b \in Nat
  PROVE  /\ Len(frameQueue[s]) \in Nat /\ Len(codec[s]) \in Nat /\ Len(packetQueue[s]) \in Nat
         /\ Out(s) \in Nat /\ InHand(s) \in Nat /\ Writing(s) \in Nat
         /\ AfterCodec(s, b) \in Nat /\ AfterQueue(s, b) \in Nat /\ Last(s, b) \in Nat
         /\ ReadSoFar(s) \in Nat /\ ReadSoFar(s) <= Total(s) + Bit(eof)
         /\ Total(s) \in Nat /\ Bit(eof) \in Nat
<1>1. Len(frameQueue[s]) \in Nat /\ Len(codec[s]) \in Nat /\ Len(packetQueue[s]) \in Nat
  BY LenProperties DEF PInv, DecodersOK, PacketsOK, FramesOK, CodecOK
<1>2. Out(s) \in Nat /\ InHand(s) \in Nat /\ Writing(s) \in Nat /\ Bit(eof) \in Nat
  BY DEF Out, InHand, Writing, Bit
<1>3. AfterCodec(s, b) \in Nat /\ AfterQueue(s, b) \in Nat /\ Last(s, b) \in Nat
  <2>1. AfterCodec(s, b) \in Nat
    BY <1>1, <1>2 DEF AfterCodec
  <2> QED
    BY <1>1, <1>2, <2>1 DEF AfterQueue, Last
<1>4. Upto(s, pos - 1) \in Nat /\ Upto(s, pos - 1) <= Total(s) /\ Total(s) \in Nat
  <2>1. pos - 1 \in Nat /\ pos - 1 \in 0 .. Len(File) /\ Len(File) \in Nat
    BY FileTimes DEF PInv, ReaderOK
  <2> QED
    BY <2>1, UptoSets, UptoMonotonic, TotalIs DEF Total
<1> QED
  BY <1>1, <1>2, <1>3, <1>4 DEF ReadSoFar

(* What the null packet, or a frame made of it, is followed by. *)
LEMMA LineEnds ==
  ASSUME PInv, NEW s \in Streams, NEW b \in Nat, DecoderLine(s, b)
  PROVE  /\ Last(s, b) <= Total(s) + 1
         /\ AfterCodec(s, b) + InHand(s) <= Last(s, b)
         /\ frameQueue[s] # << >> =>
              /\ Head(frameQueue[s]) = Line(s)[b + 1] /\ b + 1 <= Total(s) + 1
              /\ Head(frameQueue[s]) = Null => b = Total(s)
              /\ Head(frameQueue[s]) # Null => b + 1 <= Total(s)
         /\ decoder[s] = "emit" /\ frame[s] = Null => codec[s] = << >>
<1>q. /\ frameQueue[s] \in Seq(Elems(s)) /\ codec[s] \in Seq(Times(s))
  BY DEF PInv, DecodersOK, FramesOK, CodecOK
<1>f. PICK nf \in Nat : nf = Len(frameQueue[s])
  BY LineCounts
<1>c. PICK nc \in Nat : nc = Len(codec[s])
  BY LineCounts
<1>o. PICK o \in Nat : o = Out(s)
  BY LineCounts
<1>t. PICK t \in Nat : t = Total(s)
  BY LineCounts
<1>1. Last(s, b) <= t + 1
  <2>1. ReadSoFar(s) <= t + Bit(eof) /\ Bit(eof) \in Nat /\ ReadSoFar(s) \in Nat /\ Last(s, b) \in Nat
    BY <1>t, LineCounts
  <2>2. Bit(eof) <= 1
    BY DEF Bit
  <2>3. Last(s, b) <= ReadSoFar(s)
    BY DEF DecoderLine
  <2> QED
    BY <2>1, <2>2, <2>3
<1>2. AfterCodec(s, b) + InHand(s) <= Last(s, b) /\ AfterCodec(s, b) <= t + 1
  <2>1. /\ AfterCodec(s, b) \in Nat /\ InHand(s) \in Nat /\ Len(packetQueue[s]) \in Nat
        /\ Writing(s) \in Nat /\ Last(s, b) \in Nat
    BY LineCounts
  <2>2. Last(s, b) = AfterCodec(s, b) + InHand(s) + Len(packetQueue[s]) + Writing(s)
    BY DEF Last, AfterQueue
  <2> QED
    BY <1>1, <2>1, <2>2
<1>3. b + nf + o + nc <= t + 1
  BY <1>2, <1>f, <1>c, <1>o DEF AfterCodec
<1>4. ASSUME frameQueue[s] # << >>
      PROVE  /\ Head(frameQueue[s]) = Line(s)[b + 1] /\ b + 1 <= t + 1
             /\ Head(frameQueue[s]) = Null => b = t
             /\ Head(frameQueue[s]) # Null => b + 1 <= t
  <2>1. Head(frameQueue[s]) = Line(s)[b + 1]
    BY <1>4, <1>q, LiesWithoutHead DEF DecoderLine
  <2>2. nf >= 1
    BY <1>4, <1>f, <1>q, EmptySeq
  <2>3. Line(s)[b + 1] # Null <=> b + 1 <= t
    BY <1>t, LineIs
  <2>4. b + 1 <= t + 1
    BY <1>3, <2>2
  <2> QED
    BY <2>1, <2>3, <2>4
<1>5. ASSUME decoder[s] = "emit", frame[s] = Null, codec[s] # << >> PROVE FALSE
  <2>1. nc >= 1 /\ o = 1
    BY <1>5, <1>c, <1>o, <1>q, EmptySeq DEF Out, Bit
  <2>2. Line(s)[b + nf + 1] = Null
    BY <1>5, <1>f DEF DecoderLine
  <2>3. b + nf + 1 > t
    BY <1>t, <2>2, LineIs
  <2> QED
    BY <1>3, <2>1, <2>3
<1> QED
  BY <1>1, <1>2, <1>4, <1>5, <1>t

(* A step that leaves a stream's line alone. *)
LEMMA LineKept ==
  ASSUME NEW s, NEW b, DecoderLine(s, b), UNCHANGED <<reader, toWrite, pos, eof>>,
         /\ frameQueue'[s] = frameQueue[s] /\ packetQueue'[s] = packetQueue[s]
         /\ codec'[s] = codec[s] /\ decoder'[s] = decoder[s]
         /\ packet'[s] = packet[s] /\ frame'[s] = frame[s]
  PROVE  DecoderLine(s, b)'
BY DEF DecoderLine, AfterQueue, AfterCodec, Last, ReadSoFar, Out, InHand, Writing, Looping

(* A step of its decoder, which moves elements along the line. *)
LEMMA LineMoved ==
  ASSUME NEW s, NEW b, DecoderLine(s, b), UNCHANGED <<reader, toWrite, pos, eof>>,
         AfterQueue(s, b)' = AfterQueue(s, b),
         Lies(frameQueue'[s], Line(s), b),
         decoder'[s] = "emit" => frame'[s] = Line(s)[b + Len(frameQueue'[s]) + 1],
         Lies(codec'[s], Line(s), b + Len(frameQueue'[s]) + Out(s)'),
         decoder'[s] \in {"receive", "emit"} =>
           packet'[s] = Line(s)[AfterCodec(s, b)' + InHand(s)'],
         Lies(packetQueue'[s], Line(s), AfterCodec(s, b)' + InHand(s)')
  PROVE  DecoderLine(s, b)'
<1>1. UNCHANGED <<Writing(s), ReadSoFar(s), Looping>>
  BY DEF Writing, ReadSoFar, Looping
<1>2. Last(s, b)' = Last(s, b)
  BY <1>1 DEF Last
<1> QED
  BY <1>1, <1>2 DEF DecoderLine, Lies

LEMMA DecoderMoves ==
  ASSUME PInv, NEW s \in Streams, NEW b \in Nat, DecoderLine(s, b), DecoderRun(s), alive[s]
  PROVE  DecoderLine(s, b)'
<1>0. UNCHANGED <<reader, toWrite, pos, eof>>
  BY DEF DecoderRun, playVars
<1>t. /\ DecodersOK /\ PacketsOK(s) /\ FramesOK(s) /\ CodecOK(s)
      /\ packetQueue[s] \in Seq(Elems(s)) /\ frameQueue[s] \in Seq(Elems(s))
      /\ codec[s] \in Seq(Times(s)) /\ frame[s] \in Elems(s)
  BY DEF PInv, DecodersOK, PacketsOK, FramesOK, CodecOK
<1>f. PICK nf \in Nat : nf = Len(frameQueue[s])
  BY LineCounts
<1>c. PICK nc \in Nat : nc = Len(codec[s])
  BY LineCounts
<1>p. PICK np \in Nat : np = Len(packetQueue[s])
  BY LineCounts
<1>l. /\ Lies(frameQueue[s], Line(s), b)
      /\ decoder[s] = "emit" => frame[s] = Line(s)[b + nf + 1]
      /\ Lies(codec[s], Line(s), b + nf + Out(s))
      /\ decoder[s] \in {"receive", "emit"} => packet[s] = Line(s)[b + nf + Out(s) + nc + InHand(s)]
      /\ Lies(packetQueue[s], Line(s), b + nf + Out(s) + nc + InHand(s))
      /\ AfterQueue(s, b) = b + nf + Out(s) + nc + InHand(s) + np
  BY <1>f, <1>c, <1>p DEF DecoderLine, AfterQueue, AfterCodec
<1>a. /\ AfterCodec(s, b)' = b + Len(frameQueue'[s]) + Out(s)' + Len(codec'[s])
      /\ AfterQueue(s, b)' = AfterCodec(s, b)' + InHand(s)' + Len(packetQueue'[s])
  BY DEF AfterCodec, AfterQueue
<1>h. PICK h \in Nat : h = InHand(s)
  BY LineCounts
<1>1. CASE DecoderEnd(s)
  <2>1. /\ decoder[s] = "poll" /\ decoder'[s] = "none"
        /\ UNCHANGED <<packetQueue, frameQueue, packet, frame, codec>>
    BY <1>1, <1>t DEF DecoderEnd, DecodersOK
  <2>2. Out(s) = 0 /\ InHand(s) = 0 /\ Out(s)' = 0 /\ InHand(s)' = 0
    BY <2>1 DEF Out, InHand, Bit
  <2>n. Len(frameQueue'[s]) = nf /\ Len(codec'[s]) = nc /\ Len(packetQueue'[s]) = np
    BY <1>f, <1>c, <1>p, <2>1
  <2>3. AfterCodec(s, b)' = b + nf + nc
    BY <1>a, <2>n, <2>2
  <2>4. AfterQueue(s, b)' = AfterQueue(s, b)
    <3>1. AfterQueue(s, b) = b + nf + nc + np
      BY <1>l, <2>2
    <3> QED
      BY <1>a, <2>n, <2>2, <2>3, <3>1
  <2> QED
    BY <1>0, <1>f, <1>l, <2>1, <2>2, <2>3, <2>4, LineMoved
<1>2. CASE SendPacket(s)
  <2>1. /\ decoder[s] = "poll" /\ decoder'[s] = "receive" /\ packetQueue[s] # << >>
        /\ packet'[s] = Head(packetQueue[s]) /\ packetQueue'[s] = Tail(packetQueue[s])
        /\ codec'[s] = IF packet'[s] = Null THEN codec[s] ELSE Append(codec[s], packet'[s])
        /\ UNCHANGED <<frameQueue, frame>>
    BY <1>2, <1>t DEF SendPacket, DecodersOK
  <2>2. Out(s) = 0 /\ InHand(s) = 0 /\ Out(s)' = 0
    BY <2>1 DEF Out, InHand, Bit
  <2>3. /\ packet'[s] = Line(s)[b + nf + nc + 1]
        /\ Lies(packetQueue'[s], Line(s), b + nf + nc + 1)
        /\ Len(packetQueue'[s]) = np - 1 /\ packet'[s] \in Elems(s)
    BY <1>l, <1>p, <1>t, <2>1, <2>2, LiesWithoutHead, HeadAndTail
  <2>n. Len(packetQueue'[s]) = np - 1
    BY <2>3
  <2>q. AfterQueue(s, b) = b + nf + nc + np
    BY <1>l, <2>2
  <2>4. CASE packet'[s] = Null
    <3>1. codec'[s] = codec[s]
      BY <2>1, <2>4
    <3>6. InHand(s)' = 1
      BY <2>1, <2>4 DEF InHand, Bit
    <3>n. Len(frameQueue'[s]) = nf /\ Len(codec'[s]) = nc
      BY <1>f, <1>c, <2>1, <3>1
    <3>2. AfterCodec(s, b)' = b + nf + nc
      BY <1>a, <2>2, <3>n
    <3>4. AfterQueue(s, b)' = AfterQueue(s, b)
      BY <1>a, <2>n, <2>q, <3>2, <3>6
    <3>3. Lies(codec[s], Line(s), b + nf)
      BY <1>l, <2>2
    <3> QED
      BY <1>0, <1>f, <1>l, <2>1, <2>2, <2>3, <3>1, <3>2, <3>3, <3>4, <3>6, LineMoved
  <2>5. CASE packet'[s] # Null
    <3>1. codec'[s] = Append(codec[s], packet'[s]) /\ packet'[s] \in Times(s)
      BY <2>1, <2>3, <2>5 DEF Elems
    <3>2. Len(codec'[s]) = nc + 1
      BY <1>c, <1>t, <3>1, Appended
    <3>3. Lies(codec'[s], Line(s), b + nf)
      <4>1. Lies(codec[s], Line(s), b + nf) /\ b + nf \in Nat
        BY <1>l, <2>2
      <4> QED
        BY <1>c, <1>t, <2>3, <3>1, <4>1, LiesWithOneMore
    <3>n. Len(frameQueue'[s]) = nf
      BY <1>f, <2>1
    <3>4. AfterCodec(s, b)' = b + nf + nc + 1
      BY <1>a, <2>2, <3>2, <3>n
    <3>6. InHand(s)' = 0
      BY <2>1, <2>5 DEF InHand, Bit
    <3>5. AfterQueue(s, b)' = AfterQueue(s, b)
      BY <1>a, <2>n, <2>q, <3>4, <3>6
    <3>7. /\ b + Len(frameQueue'[s]) + Out(s)' = b + nf
          /\ AfterCodec(s, b)' + InHand(s)' = b + nf + nc + 1
      BY <2>2, <3>n, <3>4, <3>6
    <3>8. Lies(frameQueue'[s], Line(s), b) /\ decoder'[s] = "receive"
      BY <1>l, <2>1
    <3> QED
      BY <1>0, <2>3, <3>3, <3>5, <3>7, <3>8, LineMoved
  <2> QED
    BY <2>4, <2>5
<1>3. CASE ReceiveFrame(s)
  <2>1. /\ decoder[s] = "receive" /\ decoder'[s] = "emit" /\ FrameReady(s)
        /\ frame'[s] = Head(codec[s]) /\ codec'[s] = Tail(codec[s])
        /\ UNCHANGED <<packetQueue, frameQueue, packet>>
    BY <1>3, <1>t DEF ReceiveFrame, DecodersOK
  <2>2. codec[s] # << >>
    <3>1. nc > 0
      BY <1>c, <2>1, PlayAssumption DEF FrameReady
    <3> QED
      BY <1>c, <3>1, EmptySeq
  <2>3. Out(s) = 0 /\ Out(s)' = 1
    BY <2>1 DEF Out, Bit
  <2>4. Head(codec[s]) \in Times(s) /\ Len(codec'[s]) = nc - 1 /\ frame'[s] # Null
    BY <1>c, <1>t, <2>1, <2>2, HeadAndTail, LineIs
  <2>5. InHand(s)' = InHand(s)
    BY <2>1, <2>4 DEF InHand
  <2>6. frame'[s] = Line(s)[b + nf + 1] /\ Lies(codec'[s], Line(s), b + nf + 1)
    BY <1>l, <1>t, <2>1, <2>2, <2>3, LiesWithoutHead
  <2>n. Len(frameQueue'[s]) = nf /\ Len(codec'[s]) = nc - 1 /\ Len(packetQueue'[s]) = np
    BY <1>f, <1>p, <2>1, <2>4
  <2>8. AfterCodec(s, b)' = b + nf + nc
    BY <1>a, <2>3, <2>n
  <2>9. AfterQueue(s, b) = b + nf + nc + h + np /\ InHand(s)' = h
    BY <1>h, <1>l, <2>3, <2>5
  <2>7. AfterQueue(s, b)' = AfterQueue(s, b)
    BY <1>a, <2>8, <2>9, <2>n
  <2> QED
    BY <1>0, <1>f, <1>l, <2>1, <2>3, <2>5, <2>6, <2>7, <2>8, LineMoved
<1>4. CASE PacketDone(s)
  <2>0. decoder[s] = "receive" /\ ~FrameReady(s) /\ UNCHANGED <<packetQueue, frameQueue, codec>>
    BY <1>4 DEF PacketDone
  <2>1. CASE packet[s] = Null
    <3>n. Len(frameQueue'[s]) = nf /\ Len(codec'[s]) = nc /\ Len(packetQueue'[s]) = np
      BY <1>f, <1>c, <1>p, <2>0
    <3>1. decoder'[s] = "emit" /\ frame'[s] = Null /\ packet' = packet
      BY <1>4, <1>t, <2>1 DEF PacketDone, DecodersOK
    <3>2. nc = 0
      BY <1>c, <2>0, <2>1 DEF FrameReady
    <3>3. Out(s) = 0 /\ InHand(s) = 1 /\ Out(s)' = 1 /\ InHand(s)' = 0
      BY <2>0, <2>1, <3>1 DEF Out, InHand, Bit
    <3>4. Line(s)[b + nf + 1] = Null
      BY <1>l, <2>0, <2>1, <3>2, <3>3
    <3>5. AfterCodec(s, b)' = b + nf + 1
      BY <1>a, <3>2, <3>3, <3>n
    <3>8. AfterQueue(s, b) = b + nf + 1 + np
      BY <1>l, <3>2, <3>3
    <3>7. AfterQueue(s, b)' = AfterQueue(s, b)
      BY <1>a, <3>3, <3>5, <3>8, <3>n
    <3>6. Lies(codec'[s], Line(s), b + nf + 1)
      BY <1>c, <2>0, <3>2 DEF Lies
    <3> QED
      BY <1>0, <1>f, <1>l, <2>0, <2>1, <3>1, <3>2, <3>3, <3>4, <3>5, <3>6, <3>7, LineMoved
  <2>2. CASE packet[s] # Null
    <3>n. Len(frameQueue'[s]) = nf /\ Len(codec'[s]) = nc /\ Len(packetQueue'[s]) = np
      BY <1>f, <1>c, <1>p, <2>0
    <3>1. decoder'[s] = "poll"
      BY <1>4, <1>t, <2>2 DEF PacketDone, DecodersOK
    <3>3. Out(s) = 0 /\ InHand(s) = 0 /\ Out(s)' = 0 /\ InHand(s)' = 0
      BY <2>0, <2>2, <3>1 DEF Out, InHand, Bit
    <3>5. AfterCodec(s, b)' = b + nf + nc
      BY <1>a, <3>3, <3>n
    <3>7. AfterQueue(s, b) = b + nf + nc + np
      BY <1>l, <3>3
    <3>6. AfterQueue(s, b)' = AfterQueue(s, b)
      BY <1>a, <3>3, <3>5, <3>7, <3>n
    <3> QED
      BY <1>0, <1>f, <1>l, <2>0, <3>1, <3>3, <3>5, <3>6, LineMoved
  <2> QED
    BY <2>1, <2>2
<1>5. CASE OnFrame(s)
  <2>1. /\ decoder[s] = "emit" /\ decoder'[s] = IF frame[s] = Null THEN "poll" ELSE "receive"
        /\ frameQueue'[s] = Append(frameQueue[s], frame[s])
        /\ codec'[s] = IF frame[s] = Null THEN << >> ELSE codec[s]
        /\ UNCHANGED <<packetQueue, packet>>
    BY <1>5, <1>t DEF OnFrame, DecodersOK
  <2>2. codec'[s] = codec[s]
    BY <2>1, LineEnds
  <2>3. Out(s) = 1 /\ Out(s)' = 0 /\ InHand(s)' = InHand(s)
    BY <2>1 DEF Out, InHand, Bit
  <2>6. frame[s] = Line(s)[b + nf + 1]
    BY <1>l, <2>1
  <2>4. Len(frameQueue'[s]) = nf + 1 /\ Lies(frameQueue'[s], Line(s), b)
    <3>1. Lies(frameQueue[s], Line(s), b)
      BY <1>l
    <3>2. Len(Append(frameQueue[s], frame[s])) = nf + 1
      BY <1>f, <1>t, Appended
    <3>3. Lies(Append(frameQueue[s], frame[s]), Line(s), b)
      BY <1>f, <1>t, <2>6, <3>1, LiesWithOneMore
    <3> QED
      BY <2>1, <3>2, <3>3
  <2>n. Len(frameQueue'[s]) = nf + 1 /\ Len(codec'[s]) = nc /\ Len(packetQueue'[s]) = np
    BY <1>c, <1>p, <2>1, <2>2, <2>4
  <2>5. AfterCodec(s, b)' = b + nf + 1 + nc
    BY <1>a, <2>3, <2>n
  <2>7. AfterQueue(s, b) = b + nf + 1 + nc + h + np /\ InHand(s)' = h
    BY <1>h, <1>l, <2>3
  <2>8. AfterQueue(s, b)' = AfterQueue(s, b)
    BY <1>a, <2>5, <2>7, <2>n
  <2>9. /\ b + Len(frameQueue'[s]) + Out(s)' = b + nf + 1
        /\ AfterCodec(s, b)' + InHand(s)' = b + nf + 1 + nc + h
    BY <2>3, <2>5, <2>7, <2>n
  <2>10. /\ Lies(codec'[s], Line(s), b + nf + 1)
         /\ packet'[s] = Line(s)[b + nf + 1 + nc + h]
         /\ Lies(packetQueue'[s], Line(s), b + nf + 1 + nc + h)
    BY <1>h, <1>l, <2>1, <2>2, <2>3
  <2>11. decoder'[s] # "emit"
    BY <2>1
  <2> QED
    BY <1>0, <2>4, <2>8, <2>9, <2>10, <2>11, LineMoved
<1> QED
  BY <1>1, <1>2, <1>3, <1>4, <1>5 DEF DecoderRun, DecoderStep

(* Its display coroutine takes the first frame. *)
LEMMA LineTaken ==
  ASSUME PInv, NEW s \in Streams, NEW b \in Nat, DecoderLine(s, b),
         frameQueue[s] # << >>, frameQueue'[s] = Tail(frameQueue[s]),
         UNCHANGED <<packetQueue, decoder, packet, frame, codec, reader, toWrite, pos, eof>>
  PROVE  DecoderLine(s, b + 1)'
<1>q. frameQueue[s] \in Seq(Elems(s))
  BY DEF PInv, DecodersOK, FramesOK
<1>f. PICK nf \in Nat : nf = Len(frameQueue[s])
  BY LineCounts
<1>1. Lies(frameQueue'[s], Line(s), b + 1)
  BY <1>q, LiesWithoutHead DEF DecoderLine
<1>n. PICK m \in Nat : m = Len(frameQueue'[s]) /\ nf = m + 1
  <2>1. Len(frameQueue'[s]) = nf - 1 /\ nf # 0
    BY <1>f, <1>q, HeadAndTail, EmptySeq
  <2>2. nf # 0 => nf - 1 \in Nat /\ nf = (nf - 1) + 1
    OBVIOUS
  <2> QED
    BY <2>1, <2>2
<1>2. b + 1 + Len(frameQueue'[s]) = b + nf
  <2>1. b + 1 + m = b + (m + 1)
    OBVIOUS
  <2> QED
    BY <1>n, <2>1
<1>3. /\ Out(s)' = Out(s) /\ InHand(s)' = InHand(s) /\ Writing(s)' = Writing(s)
      /\ ReadSoFar(s)' = ReadSoFar(s) /\ Looping' = Looping
  BY DEF Out, InHand, Writing, ReadSoFar, Looping
<1>4. AfterCodec(s, b + 1)' = AfterCodec(s, b)
  BY <1>2, <1>3, <1>f DEF AfterCodec
<1>5. AfterQueue(s, b + 1)' = AfterQueue(s, b) /\ Last(s, b + 1)' = Last(s, b)
  BY <1>3, <1>4 DEF AfterQueue, Last
<1>6. /\ decoder[s] = "emit" => frame[s] = Line(s)[b + nf + 1]
      /\ Lies(codec[s], Line(s), b + nf + Out(s))
  BY <1>f DEF DecoderLine
<1>7. /\ decoder'[s] = "emit" => frame'[s] = Line(s)[b + 1 + Len(frameQueue'[s]) + 1]
      /\ Lies(codec'[s], Line(s), b + 1 + Len(frameQueue'[s]) + Out(s)')
  BY <1>2, <1>3, <1>6
<1>8. /\ decoder'[s] \in {"receive", "emit"} =>
           packet'[s] = Line(s)[AfterCodec(s, b + 1)' + InHand(s)']
      /\ Lies(packetQueue'[s], Line(s), AfterCodec(s, b + 1)' + InHand(s)')
      /\ reader' = "write" => \A i \in DOMAIN toWrite' :
           toWrite'[i][1] = s => toWrite'[i][2] = Line(s)[AfterQueue(s, b + 1)' + 1]
      /\ Last(s, b + 1)' <= ReadSoFar(s)'
      /\ Looping' => Last(s, b + 1)' = ReadSoFar(s)'
  BY <1>3, <1>4, <1>5 DEF DecoderLine
<1> QED
  BY <1>1, <1>7, <1>8 DEF DecoderLine, Lies

(* The line of a pass that begins. *)
LEMMA NewLine ==
  ASSUME NEW s \in Streams, decoder'[s] \in {"none", "poll"},
         frameQueue'[s] = << >>, codec'[s] = << >>, packetQueue'[s] = << >>,
         reader' = "loop", pos' = 1, eof' = FALSE
  PROVE  DecoderLine(s, 0)'
<1>0. Len(<< >>) = 0
  BY EmptySeq
<1>1. Out(s)' = 0 /\ InHand(s)' = 0 /\ Writing(s)' = 0
  BY DEF Out, InHand, Writing, Bit
<1>2. AfterCodec(s, 0)' = 0
  BY <1>0, <1>1 DEF AfterCodec
<1>3. Last(s, 0)' = 0
  BY <1>0, <1>1, <1>2 DEF AfterQueue, Last
<1>4. ReadSoFar(s)' = 0
  BY UptoZero DEF ReadSoFar, Bit
<1>5. \A n : Lies(<< >>, Line(s), n)
  BY LiesNowhere
<1> QED
  BY <1>3, <1>4, <1>5 DEF DecoderLine

(* A step of the reader, which moves only the end of the line. *)
LEMMA LineReaches ==
  ASSUME NEW s, NEW b, DecoderLine(s, b),
         /\ frameQueue'[s] = frameQueue[s] /\ packetQueue'[s] = packetQueue[s]
         /\ codec'[s] = codec[s] /\ decoder'[s] = decoder[s]
         /\ packet'[s] = packet[s] /\ frame'[s] = frame[s],
         reader' = "write" => \A i \in DOMAIN toWrite' :
           toWrite'[i][1] = s => toWrite'[i][2] = Line(s)[AfterQueue(s, b) + 1],
         AfterQueue(s, b) + Writing(s)' <= ReadSoFar(s)',
         Looping' => AfterQueue(s, b) + Writing(s)' = ReadSoFar(s)'
  PROVE  DecoderLine(s, b)'
<1>1. /\ Out(s)' = Out(s) /\ InHand(s)' = InHand(s)
  BY DEF Out, InHand
<1>2. AfterCodec(s, b)' = AfterCodec(s, b)
  BY <1>1 DEF AfterCodec
<1>3. AfterQueue(s, b)' = AfterQueue(s, b)
  BY <1>1, <1>2 DEF AfterQueue
<1>4. Last(s, b)' = AfterQueue(s, b) + Writing(s)'
  BY <1>3 DEF Last
<1> QED
  BY <1>1, <1>2, <1>3, <1>4 DEF DecoderLine

LEMMA LineRead ==
  ASSUME PInv, Reading, NEW s \in opened, NEW b \in Nat, DecoderLine(s, b), ReadPacket
  PROVE  DecoderLine(s, b)'
<1>0. /\ reader = "read" /\ ~eof /\ eof' = eof /\ pos' = pos + 1 /\ pos \in 1 .. Len(File)
      /\ UNCHANGED <<frameQueue, packetQueue, codec, decoder, packet, frame>>
      /\ s \in Streams /\ Len(File) \in Nat
  BY FileTimes DEF ReadPacket, Reading, PInv, ReaderOK
<1>1. pos \in Nat \ {0} /\ pos - 1 \in Nat /\ pos + 1 - 1 = pos
  BY <1>0
<1>a. PICK a \in Nat : a = AfterQueue(s, b)
  BY <1>0, LineCounts
<1>u. PICK u \in Nat : u = Upto(s, pos - 1)
  BY <1>0, <1>1, UptoSets
<1>2. a = u
  <2>1. Writing(s) = 0 /\ ReadSoFar(s) = u + 0 /\ Looping
    BY <1>0, <1>u DEF Writing, ReadSoFar, Bit, Looping
  <2> QED
    BY <1>a, <2>1 DEF DecoderLine, Last
<1>3. ReadSoFar(s)' = u + Bit(File[pos].stream = s)
  <2>1. Upto(s, pos) = u + Bit(File[pos].stream = s)
    BY <1>0, <1>1, <1>u, UptoNext
  <2>2. Bit(eof') = 0 /\ Upto(s, pos) \in Nat
    BY <1>0, <1>1, UptoSets DEF Bit
  <2> QED
    BY <1>0, <1>1, <2>1, <2>2 DEF ReadSoFar
<1>4. CASE File[pos].stream = s
  <2>1. toWrite' = << <<s, File[pos].pts>> >> /\ reader' = "write"
    BY <1>4 DEF ReadPacket
  <2>2. \A i \in DOMAIN toWrite' : toWrite'[i] = <<s, File[pos].pts>>
    BY <2>1
  <2>3. 1 \in DOMAIN toWrite'
    BY <2>1
  <2>4. Writing(s)' = 1 /\ Bit(File[pos].stream = s) = 1
    BY <1>4, <2>1, <2>2, <2>3 DEF Writing, Bit
  <2>5. File[pos].pts = Line(s)[a + 1]
    <3>1. Upto(s, pos) = u + 1
      BY <1>0, <1>1, <1>u, <2>4, UptoNext
    <3>2. PtsOf(s)[Upto(s, pos)] = File[pos].pts /\ Upto(s, pos) \in 1 .. Total(s)
      BY <1>0, <1>4, PtsAt
    <3> QED
      BY <1>0, <1>2, <3>1, <3>2, LineIs
  <2>6. AfterQueue(s, b) + Writing(s)' = ReadSoFar(s)' /\ ReadSoFar(s)' = u + 1
    BY <1>2, <1>3, <1>a, <2>4
  <2> QED
    BY <1>0, <1>a, <2>2, <2>5, <2>6, LineReaches
<1>5. CASE File[pos].stream # s
  <2>1. reader' = "write" => toWrite' = << <<File[pos].stream, File[pos].pts>> >>
    BY DEF ReadPacket
  <2>2. reader' = "write" => \A i \in DOMAIN toWrite' : toWrite'[i][1] # s
    BY <1>5, <2>1
  <2>3. Writing(s)' = 0 /\ Bit(File[pos].stream = s) = 0
    BY <1>5, <2>2 DEF Writing, Bit
  <2>4. AfterQueue(s, b) + Writing(s)' = ReadSoFar(s)' /\ ReadSoFar(s)' = u
    BY <1>2, <1>3, <1>a, <2>3
  <2> QED
    BY <1>0, <2>2, <2>4, LineReaches
<1> QED
  BY <1>4, <1>5

LEMMA LineEnded ==
  ASSUME PInv, Reading, NEW s \in Streams, NEW b \in Nat, DecoderLine(s, b), ReadEof
  PROVE  DecoderLine(s, b)'
<1>0. /\ reader = "read" /\ ~eof /\ eof' = TRUE /\ pos' = pos /\ pos = Len(File) + 1
      /\ reader' = "write" /\ toWrite' = << <<"video", Null>>, <<"audio", Null>> >>
      /\ UNCHANGED <<frameQueue, packetQueue, codec, decoder, packet, frame>>
      /\ Len(File) \in Nat
  BY FileTimes DEF ReadEof, Reading, PInv, ReaderOK, decoderVars
<1>t. PICK t \in Nat : t = Total(s)
  BY TotalIs
<1>a. PICK a \in Nat : a = AfterQueue(s, b)
  BY LineCounts
<1>1. Upto(s, pos - 1) = t
  BY <1>0, <1>t DEF Total
<1>2. a = t
  <2>1. Writing(s) = 0 /\ ReadSoFar(s) = t + 0 /\ Looping
    BY <1>0, <1>1 DEF Writing, ReadSoFar, Bit, Looping
  <2> QED
    BY <1>a, <2>1 DEF DecoderLine, Last
<1>3. \A i \in DOMAIN toWrite' : toWrite'[i][2] = Null
  BY <1>0
<1>4. Line(s)[a + 1] = Null
  BY <1>2, <1>t, LineIs
<1>5. Writing(s)' = 1
  <2>1. \E i \in DOMAIN toWrite' : toWrite'[i][1] = s
    <3>1. toWrite'[1][1] = "video" /\ toWrite'[2][1] = "audio" /\ {1, 2} \subseteq DOMAIN toWrite'
      BY <1>0
    <3> QED
      BY <3>1, PlayAssumption
  <2> QED
    BY <1>0, <2>1 DEF Writing, Bit
<1>6. ReadSoFar(s)' = t + 1
  BY <1>0, <1>1 DEF ReadSoFar, Bit
<1>7. AfterQueue(s, b) + Writing(s)' = t + 1
  BY <1>2, <1>5, <1>a
<1> QED
  BY <1>0, <1>3, <1>4, <1>6, <1>7, <1>a, LineReaches

(* What the reader writes: one packet, or the two null packets, the        *)
(* video's first.                                                          *)
LEMMA Written ==
  ASSUME PInv, Reading, WritePacket
  PROVE  \E t \in Streams : \E p \in Elems(t) :
           /\ toWrite[1] = <<t, p>> /\ packetQueue' = [packetQueue EXCEPT ![t] = Append(@, p)]
           /\ reader = "write"
           /\ \/ toWrite = << <<t, p>> >> /\ toWrite' = << >> /\ reader' = "loop"
              \/ /\ t = "video" /\ p = Null /\ eof /\ reader' = "write"
                 /\ toWrite = << <<"video", Null>>, <<"audio", Null>> >>
                 /\ toWrite' = << <<"audio", Null>> >>
<1>1. /\ reader = "write" /\ toWrite' = Tail(toWrite)
      /\ reader' = IF toWrite' = << >> THEN "loop" ELSE "write"
      /\ packetQueue' = [packetQueue EXCEPT ![toWrite[1][1]] = Append(@, toWrite[1][2])]
  BY DEF WritePacket, Write
<1>2. CASE toWrite = << <<"video", Null>>, <<"audio", Null>> >>
  <2>1. /\ toWrite[1] = <<"video", Null>> /\ toWrite' = << <<"audio", Null>> >>
        /\ toWrite' # << >>
    BY <1>1, <1>2
  <2>2. eof
    BY <1>1, <1>2 DEF Reading
  <2>3. "video" \in Streams /\ Null \in Elems("video")
    BY PlayAssumption DEF Elems
  <2> QED
    BY <1>1, <1>2, <2>1, <2>2, <2>3
<1>3. ASSUME NEW t \in Streams, NEW p \in Elems(t), toWrite = << <<t, p>> >>
      PROVE  /\ toWrite[1] = <<t, p>> /\ packetQueue' = [packetQueue EXCEPT ![t] = Append(@, p)]
             /\ toWrite' = << >> /\ reader' = "loop"
  BY <1>1, <1>3
<1>4. CASE toWrite = << <<"audio", Null>> >>
  <2>1. "audio" \in Streams /\ Null \in Elems("audio")
    BY PlayAssumption DEF Elems
  <2> QED
    BY <1>1, <1>3, <1>4, <2>1
<1>5. CASE \E s \in Streams : \E p \in Times(s) : toWrite = << <<s, p>> >>
  BY <1>1, <1>3, <1>5 DEF Elems
<1> QED
  BY <1>1, <1>2, <1>4, <1>5 DEF Reading

LEMMA LineWritten ==
  ASSUME PInv, Reading, NEW s \in Streams, NEW b \in Nat, DecoderLine(s, b), WritePacket
  PROVE  DecoderLine(s, b)'
<1>0. /\ UNCHANGED <<frameQueue, codec, decoder, packet, frame, eof, pos>>
      /\ DOMAIN packetQueue = Streams /\ packetQueue[s] \in Seq(Elems(s)) /\ Looping
  BY DEF WritePacket, PInv, DecodersOK, PacketsOK, Looping
<1>t. PICK t \in Streams : \E p \in Elems(t) :
        /\ toWrite[1] = <<t, p>> /\ packetQueue' = [packetQueue EXCEPT ![t] = Append(@, p)]
        /\ reader = "write"
        /\ \/ toWrite = << <<t, p>> >> /\ toWrite' = << >> /\ reader' = "loop"
           \/ /\ t = "video" /\ p = Null /\ eof /\ reader' = "write"
              /\ toWrite = << <<"video", Null>>, <<"audio", Null>> >>
              /\ toWrite' = << <<"audio", Null>> >>
  BY Written
<1>p. PICK p \in Elems(t) :
        /\ toWrite[1] = <<t, p>> /\ packetQueue' = [packetQueue EXCEPT ![t] = Append(@, p)]
        /\ reader = "write"
        /\ \/ toWrite = << <<t, p>> >> /\ toWrite' = << >> /\ reader' = "loop"
           \/ /\ t = "video" /\ p = Null /\ eof /\ reader' = "write"
              /\ toWrite = << <<"video", Null>>, <<"audio", Null>> >>
              /\ toWrite' = << <<"audio", Null>> >>
  BY <1>t
<1>a. PICK a \in Nat : a = AfterQueue(s, b)
  BY LineCounts
<1>1. ReadSoFar(s)' = ReadSoFar(s)
  BY <1>0 DEF ReadSoFar
<1>2. Last(s, b) = ReadSoFar(s)
  BY <1>0 DEF DecoderLine
<1>3. CASE s = t
  <2>1. 1 \in DOMAIN toWrite /\ toWrite[1][1] = s /\ toWrite[1][2] = p
    BY <1>3, <1>p
  <2>2. p = Line(s)[a + 1]
    BY <1>a, <1>p, <2>1 DEF DecoderLine
  <2>3. Writing(s) = 1
    BY <1>p, <2>1 DEF Writing, Bit
  <2>4. reader' = "write" => \A i \in DOMAIN toWrite' : toWrite'[i][1] # s
    BY <1>3, <1>p
  <2>5. Writing(s)' = 0
    BY <2>4 DEF Writing, Bit
  <2>6. packetQueue'[s] = Append(packetQueue[s], p)
    BY <1>0, <1>3, <1>p
  <2>7. Out(s)' = Out(s) /\ InHand(s)' = InHand(s) /\ AfterCodec(s, b)' = AfterCodec(s, b)
    BY <1>0 DEF Out, InHand, AfterCodec
  <2>b. PICK c \in Nat : c = AfterCodec(s, b) + InHand(s)
    <3>1. AfterCodec(s, b) \in Nat /\ InHand(s) \in Nat
      BY LineCounts
    <3> QED
      BY <3>1
  <2>n. PICK np \in Nat : np = Len(packetQueue[s])
    BY LineCounts
  <2>8. a = c + np
    BY <1>a, <2>b, <2>n DEF AfterQueue
  <2>9. Lies(packetQueue[s], Line(s), c)
    BY <2>b DEF DecoderLine
  <2>10. Lies(packetQueue'[s], Line(s), c) /\ Len(packetQueue'[s]) = np + 1
    <3>1. p = Line(s)[c + Len(packetQueue[s]) + 1]
      BY <2>2, <2>8, <2>n
    <3>2. p \in Elems(s)
      BY <1>3
    <3>3. Lies(Append(packetQueue[s], p), Line(s), c)
      BY <1>0, <2>9, <3>1, <3>2, LiesWithOneMore
    <3>4. Len(Append(packetQueue[s], p)) = np + 1
      BY <1>0, <2>n, <3>2, Appended
    <3> QED
      BY <2>6, <3>3, <3>4
  <2>11. AfterQueue(s, b)' = a + 1
    <3>1. AfterQueue(s, b)' = c + Len(packetQueue'[s])
      BY <2>7, <2>b DEF AfterQueue
    <3> QED
      BY <2>8, <2>10, <3>1
  <2>12. Last(s, b)' = Last(s, b)
    <3>1. Last(s, b)' = a + 1 + 0 /\ Last(s, b) = a + 1
      BY <1>a, <2>3, <2>5, <2>11 DEF Last
    <3> QED
      BY <3>1
  <2>13. /\ Lies(frameQueue'[s], Line(s), b)
         /\ decoder'[s] = "emit" => frame'[s] = Line(s)[b + Len(frameQueue'[s]) + 1]
         /\ Lies(codec'[s], Line(s), b + Len(frameQueue'[s]) + Out(s)')
         /\ decoder'[s] \in {"receive", "emit"} =>
              packet'[s] = Line(s)[AfterCodec(s, b)' + InHand(s)']
    BY <1>0, <2>7 DEF DecoderLine
  <2>14. Lies(packetQueue'[s], Line(s), AfterCodec(s, b)' + InHand(s)')
    BY <2>7, <2>b, <2>10
  <2>15. Last(s, b)' = ReadSoFar(s)' /\ Last(s, b)' <= ReadSoFar(s)'
    <3>1. ReadSoFar(s) \in Nat
      BY LineCounts
    <3> QED
      BY <1>1, <1>2, <2>12, <3>1
  <2> QED
    BY <2>4, <2>13, <2>14, <2>15 DEF DecoderLine, Lies
<1>4. CASE s # t
  <2>1. packetQueue'[s] = packetQueue[s]
    BY <1>0, <1>4, <1>p
  <2>2. reader' = "write" =>
          \A i \in DOMAIN toWrite' : i + 1 \in DOMAIN toWrite /\ toWrite'[i] = toWrite[i + 1]
    BY <1>p
  <2>3. Writing(s)' = Writing(s)
    <3>1. (reader' = "write" /\ \E i \in DOMAIN toWrite' : toWrite'[i][1] = s)
            <=> (reader = "write" /\ \E i \in DOMAIN toWrite : toWrite[i][1] = s)
      BY <1>4, <1>p
    <3> QED
      BY <3>1 DEF Writing, Bit
  <2>4. reader' = "write" => \A i \in DOMAIN toWrite' :
          toWrite'[i][1] = s => toWrite'[i][2] = Line(s)[AfterQueue(s, b) + 1]
    BY <1>p, <2>2 DEF DecoderLine
  <2>5. AfterQueue(s, b) + Writing(s)' = ReadSoFar(s)'
    BY <1>1, <1>2, <2>3 DEF Last
  <2>6. AfterQueue(s, b) + Writing(s)' <= ReadSoFar(s)'
    <3>1. ReadSoFar(s) \in Nat
      BY LineCounts
    <3> QED
      BY <1>1, <2>5, <3>1
  <2> QED
    BY <1>0, <2>1, <2>4, <2>5, <2>6, LineReaches
<1> QED
  BY <1>3, <1>4

(* The reader turns round, leaves the loop or closes a stream: what is     *)
(* left of the line keeps its order.                                       *)
LEMMA LineTurns ==
  ASSUME PInv, NEW s \in Streams, NEW b \in Nat, DecoderLine(s, b), LoopTop \/ ReadFails
  PROVE  DecoderLine(s, b)'
<1>0. /\ reader \in {"loop", "read"} /\ reader' \in {"read", "closeDecoder"} /\ Looping
      /\ UNCHANGED <<frameQueue, packetQueue, codec, decoder, packet, frame, eof, pos>>
  BY DEF LoopTop, ReadFails, decoderVars, Looping
<1>1. /\ Writing(s) = 0 /\ Writing(s)' = 0 /\ ReadSoFar(s)' = ReadSoFar(s)
  BY <1>0 DEF Writing, Bit, ReadSoFar
<1>2. /\ AfterQueue(s, b) + Writing(s)' = ReadSoFar(s)' /\ ReadSoFar(s) \in Nat
      /\ reader' # "write"
  BY <1>0, <1>1, LineCounts DEF DecoderLine, Last
<1> QED
  BY <1>0, <1>1, <1>2, LineReaches

LEMMA LineCloses ==
  ASSUME PInv, NEW s \in Streams, NEW b \in Nat, DecoderLine(s, b), ~Ended(s),
         CloseDecoder \/ JoinDecoder \/ JoinDisplay
  PROVE  DecoderLine(s, b)'
<1>0. /\ reader \in {"closeDecoder", "joinDecoder", "joinDisplay"}
      /\ reader' \in {"joinDecoder", "joinDisplay", "closeDecoder", "none"}
      /\ UNCHANGED <<decoder, packet, frame, eof, pos>>
  BY DEF CloseDecoder, JoinDecoder, JoinDisplay
<1>1. /\ Writing(s) = 0 /\ Writing(s)' = 0 /\ ReadSoFar(s)' = ReadSoFar(s) /\ ~Looping'
      /\ reader' # "write" /\ Last(s, b) <= ReadSoFar(s)
  BY <1>0 DEF Writing, Bit, ReadSoFar, Looping, DecoderLine
<1>a. PICK a \in Nat : a = AfterQueue(s, b)
  BY LineCounts
<1>r. PICK m \in Nat : m = ReadSoFar(s)
  BY LineCounts
<1>2. a <= m
  BY <1>1, <1>a, <1>r DEF Last
<1>3. frameQueue'[s] = frameQueue[s]
  <2>1. CASE CloseDecoder \/ JoinDecoder
    BY <2>1 DEF CloseDecoder, JoinDecoder
  <2>2. CASE JoinDisplay
    BY <2>2 DEF JoinDisplay, PInv, DecodersOK
  <2> QED
    BY <2>1, <2>2
<1>4. CASE packetQueue'[s] = packetQueue[s] /\ codec'[s] = codec[s]
  <2>1. AfterQueue(s, b) + Writing(s)' <= ReadSoFar(s)'
    BY <1>1, <1>2, <1>a, <1>r
  <2> QED
    BY <1>0, <1>1, <1>3, <1>4, <2>1, LineReaches
<1>5. CASE packetQueue'[s] = << >> /\ codec'[s] = << >> /\ decoder[s] = "none"
  <2>1. Len(<< >>) = 0
    BY EmptySeq
  <2>2. Out(s) = 0 /\ Out(s)' = 0 /\ InHand(s) = 0 /\ InHand(s)' = 0
    BY <1>0, <1>5 DEF Out, InHand, Bit
  <2>n. PICK nf \in Nat : nf = Len(frameQueue[s])
    BY LineCounts
  <2>3. Last(s, b)' = b + nf
    <3>1. AfterCodec(s, b)' = b + nf
      BY <1>3, <1>5, <2>1, <2>2, <2>n DEF AfterCodec
    <3>2. AfterQueue(s, b)' = b + nf
      BY <1>5, <2>1, <2>2, <3>1 DEF AfterQueue
    <3> QED
      BY <1>1, <3>2 DEF Last
  <2>4. b + nf <= m
    <3>1. PICK nc \in Nat : nc = Len(codec[s])
      BY LineCounts
    <3>2. PICK np \in Nat : np = Len(packetQueue[s])
      BY LineCounts
    <3>3. AfterCodec(s, b) = b + nf + nc
      BY <2>2, <2>n, <3>1 DEF AfterCodec
    <3>4. a = b + nf + nc + np
      BY <1>a, <2>2, <3>2, <3>3 DEF AfterQueue
    <3> QED
      BY <1>2, <3>4
  <2>5. Last(s, b)' <= ReadSoFar(s)'
    BY <1>1, <1>r, <2>3, <2>4
  <2>6. \A n : Lies(<< >>, Line(s), n)
    BY LiesNowhere
  <2>7. decoder'[s] = "none" /\ Lies(frameQueue'[s], Line(s), b)
    BY <1>0, <1>3, <1>5 DEF DecoderLine
  <2> QED
    BY <1>1, <1>5, <2>5, <2>6, <2>7 DEF DecoderLine
<1>6. \/ packetQueue'[s] = packetQueue[s] /\ codec'[s] = codec[s]
      \/ packetQueue'[s] = << >> /\ codec'[s] = << >> /\ decoder[s] = "none"
  <2>1. CASE CloseDecoder \/ JoinDisplay
    BY <2>1 DEF CloseDecoder, JoinDisplay
  <2>2. CASE JoinDecoder
    BY <2>2 DEF JoinDecoder, PInv, DecodersOK
  <2> QED
    BY <2>1, <2>2
<1> QED
  BY <1>4, <1>5, <1>6


-----------------------------------------------------------------------------
(* The video *)

(* The steps that neither open nor restart the file, nor are one of the    *)
(* display coroutines' or the callback's.                                  *)
Elsewhere ==
  \/ start \/ setIsPaused \/ stop \/ StopReturns
  \/ LoopTop \/ ReadPacket \/ ReadEof \/ ReadFails \/ WritePacket
  \/ CloseDecoder \/ JoinDecoder \/ JoinDisplay
  \/ (\E s \in Streams : DecoderRun(s))
  \/ Tick \/ UNCHANGED vars

LEMMA LineStep ==
  ASSUME PInv, Handled, Reading, Elsewhere,
         NEW s \in Streams, NEW b \in Nat, ~Ended(s), DecoderLine(s, b)
  PROVE  DecoderLine(s, b)'
<1>0. Streams = {"video", "audio"}
  BY PlayAssumption
<1>1. CASE setIsPaused \/ stop \/ StopReturns \/ Tick \/ UNCHANGED vars
  <2>1. UNCHANGED <<decoderVars, reader, toWrite, pos, eof>>
    BY <1>1 DEF setIsPaused, stop, StopReturns, Tick, vars, playVars
  <2> QED
    BY <2>1, LineKept DEF decoderVars
<1>2. CASE start
  <2>1. Closed(s)
    BY <1>0, <1>2 DEF start, PInv, Closing
  <2> QED
    BY <2>1 DEF Closed
<1>3. CASE LoopTop \/ ReadFails
  BY <1>3, LineTurns
<1>4. CASE ReadPacket
  <2>1. s \in opened
    BY <1>4 DEF ReadPacket, Handled, Looping
  <2> QED
    BY <1>4, <2>1, LineRead
<1>5. CASE ReadEof
  BY <1>5, LineEnded
<1>6. CASE WritePacket
  BY <1>6, LineWritten
<1>7. CASE CloseDecoder \/ JoinDecoder \/ JoinDisplay
  BY <1>7, LineCloses
<1>8. ASSUME NEW t \in Streams, DecoderRun(t) PROVE DecoderLine(s, b)'
  <2>1. CASE t = s
    <3>1. decoder[s] # "none"
      BY <1>8, <2>1 DEF DecoderRun, DecoderStep, DecoderEnd, SendPacket, ReceiveFrame,
                        PacketDone, OnFrame
    <3>2. alive[s]
      BY <3>1 DEF Handled
    <3> QED
      BY <1>8, <2>1, <3>2, DecoderMoves
  <2>2. CASE t # s
    <3>1. UNCHANGED <<reader, toWrite, pos, eof>>
      BY <1>8 DEF DecoderRun, playVars
    <3>2. /\ frameQueue'[s] = frameQueue[s] /\ packetQueue'[s] = packetQueue[s]
          /\ codec'[s] = codec[s] /\ decoder'[s] = decoder[s]
          /\ packet'[s] = packet[s] /\ frame'[s] = frame[s]
      BY <1>8, <2>2 DEF PInv, DecodersOK, DecoderRun, DecoderStep, DecoderEnd, SendPacket,
                        ReceiveFrame, PacketDone, OnFrame
    <3> QED
      BY <3>1, <3>2, LineKept
  <2> QED
    BY <2>1, <2>2
<1> QED
  BY <1>1, <1>2, <1>3, <1>4, <1>5, <1>6, <1>7, <1>8 DEF Elsewhere

(* When the null packet has left the frame queue, nothing is behind it. *)
LEMMA PassEnds ==
  ASSUME PInv, NEW s \in Streams, DecoderLine(s, Total(s) + 1)
  PROVE  /\ frameQueue[s] = << >> /\ codec[s] = << >> /\ packetQueue[s] = << >>
         /\ decoder[s] \in {"none", "poll"}
<1>q. /\ frameQueue[s] \in Seq(Elems(s)) /\ codec[s] \in Seq(Times(s))
      /\ packetQueue[s] \in Seq(Elems(s))
      /\ decoder[s] \in {"none", "poll", "receive", "emit"}
  BY DEF PInv, DecodersOK, PacketsOK, FramesOK, CodecOK
<1>b. PICK b \in Nat : b = Total(s) + 1
  BY TotalIs
<1>f. PICK nf \in Nat : nf = Len(frameQueue[s])
  BY LineCounts
<1>c. PICK nc \in Nat : nc = Len(codec[s])
  BY LineCounts
<1>p. PICK np \in Nat : np = Len(packetQueue[s])
  BY LineCounts
<1>o. PICK o \in Nat : o = Out(s)
  BY LineCounts
<1>h. PICK h \in Nat : h = InHand(s)
  BY LineCounts
<1>w. PICK w \in Nat : w = Writing(s)
  BY LineCounts
<1>1. AfterCodec(s, b) = b + nf + o + nc
  BY <1>f, <1>c, <1>o DEF AfterCodec
<1>2. Last(s, b) = b + nf + o + nc + h + np + w
  BY <1>1, <1>p, <1>h, <1>w DEF Last, AfterQueue
<1>3. Last(s, b) <= b
  BY <1>b, LineEnds
<1>4. nf = 0 /\ o = 0 /\ nc = 0 /\ h = 0 /\ np = 0
  BY <1>2, <1>3
<1>5. frameQueue[s] = << >> /\ codec[s] = << >> /\ packetQueue[s] = << >>
  BY <1>4, <1>f, <1>c, <1>p, <1>q, EmptySeq
<1>6. decoder[s] # "emit"
  BY <1>4, <1>o DEF Out, Bit
<1>7. decoder[s] # "receive"
  <2> SUFFICES ASSUME decoder[s] = "receive" PROVE FALSE
    OBVIOUS
  <2>1. packet[s] # Null
    BY <1>4, <1>h DEF InHand, Bit
  <2>2. packet[s] = Line(s)[AfterCodec(s, b) + InHand(s)]
    BY <1>b DEF DecoderLine
  <2>3. AfterCodec(s, b) + InHand(s) = b
    BY <1>1, <1>4, <1>h
  <2>4. b \notin 1 .. Total(s)
    BY <1>b, TotalIs
  <2> QED
    BY <2>1, <2>2, <2>3, <2>4, LineIs
<1> QED
  BY <1>5, <1>6, <1>7, <1>q

LEMMA VideoCounts ==
  ASSUME VideoLine
  PROVE  /\ Len(shown) \in Nat /\ VideoTaken \in Nat /\ Total("video") \in Nat
         /\ "video" \in Streams /\ 0 \in Nat
<1>1. "video" \in Streams
  BY PlayAssumption
<1>2. Len(shown) \in Nat
  BY LenProperties DEF VideoLine
<1>3. Bit(display = "delay") \in Nat /\ Bit(videoEof) \in Nat
  BY DEF Bit
<1>4. VideoTaken \in Nat
  BY <1>2, <1>3 DEF VideoTaken
<1> QED
  BY <1>1, <1>2, <1>4, TotalIs

LEMMA VideoStays ==
  ASSUME VideoLine, UNCHANGED videoVars,
         \A b \in Nat : display # "none" /\ DecoderLine("video", b) => DecoderLine("video", b)'
  PROVE  VideoLine'
<1>0. UNCHANGED <<display, held, videoEof, shown>>
  BY DEF videoVars
<1>1. VideoTaken' = VideoTaken
  BY <1>0 DEF VideoTaken
<1>2. display' # "none" => DecoderLine("video", VideoTaken)'
  <2>1. PICK b \in Nat : b = VideoTaken
    BY VideoCounts
  <2>2. display # "none" => DecoderLine("video", b)'
    BY <2>1 DEF VideoLine
  <2> QED
    BY <1>0, <1>1, <2>1, <2>2
<1> QED
  BY <1>0, <1>2 DEF VideoLine

LEMMA VideoElsewhere ==
  ASSUME PInv, VideoLine, Handled, Reading, Elsewhere
  PROVE  VideoLine'
<1>1. UNCHANGED videoVars
  BY DEF Elsewhere, start, setIsPaused, stop, StopReturns, LoopTop, ReadPacket, ReadEof,
         ReadFails, WritePacket, CloseDecoder, JoinDecoder, JoinDisplay, DecoderRun, Tick, vars
<1>2. ASSUME NEW b \in Nat, display # "none", DecoderLine("video", b)
      PROVE  DecoderLine("video", b)'
  <2>1. ~Ended("video") /\ "video" \in Streams
    BY <1>2, PlayAssumption DEF Ended
  <2> QED
    BY <1>2, <2>1, LineStep
<1> QED
  BY <1>1, <1>2, VideoStays

LEMMA VideoBeside ==
  ASSUME PInv, VideoLine, MixerRun \/ CallbackRun
  PROVE  VideoLine'
<1>1. UNCHANGED <<videoVars, playVars, packetQueue, codec, decoder, packet, frame>>
  BY DEF MixerRun, MixerStep, MixerEnd, TakeAudioFrame, BeginChunk, WaitForVideo, FillChunk,
         FlushChunk, DrainChannel, FollowAbsolute, CallbackRun, audioCallback, decoderVars
<1>2. frameQueue'["video"] = frameQueue["video"]
  <2>1. \/ frameQueue' = frameQueue
        \/ frameQueue' = [frameQueue EXCEPT !["audio"] = Tail(@)]
    BY DEF MixerRun, MixerStep, MixerEnd, TakeAudioFrame, BeginChunk, WaitForVideo, FillChunk,
           FlushChunk, DrainChannel, FollowAbsolute, CallbackRun, audioCallback, decoderVars
  <2> QED
    BY <2>1, PlayAssumption DEF PInv, DecodersOK
<1>3. UNCHANGED <<reader, toWrite, pos, eof>>
  BY <1>1 DEF playVars
<1>4. \A b \in Nat : DecoderLine("video", b) => DecoderLine("video", b)'
  BY <1>1, <1>2, <1>3, LineKept
<1> QED
  BY <1>1, <1>4, VideoStays

(* A pass of the file begins: nothing was shown, and if there is a video   *)
(* its line is empty.                                                      *)
LEMMA VideoBegins ==
  ASSUME shown' = << >>, videoEof' = FALSE, display' # "delay",
         display' # "none" => DecoderLine("video", 0)'
  PROVE  VideoLine'
<1>1. /\ << >> \in Seq(Times("video")) /\ Len(<< >>) = 0 /\ 0 <= Total("video")
  BY EmptySeq, TotalIs, PlayAssumption
<1>2. VideoTaken' = 0
  BY <1>1 DEF VideoTaken, Bit
<1>3. Lies(<< >>, Line("video"), 0)
  BY LiesNowhere
<1> QED
  BY <1>1, <1>2, <1>3 DEF VideoLine

(* Opening the streams, every line is new. *)
LEMMA LineOpens ==
  ASSUME PInv, OpenStreams, NEW s \in Streams
  PROVE  DecoderLine(s, 0)'
<1>0. Streams = {"video", "audio"} /\ reader = "open"
  BY PlayAssumption DEF OpenStreams
<1>1. frameQueue[s] = << >> /\ codec[s] = << >> /\ packetQueue[s] = << >>
  BY <1>0 DEF PInv, Closing, Closed
<1>2. /\ UNCHANGED <<frameQueue, codec, packetQueue>>
      /\ decoder'[s] \in {"none", "poll"}
      /\ reader' = "loop" /\ pos' = 1 /\ eof' = FALSE
  BY DEF OpenStreams, Open, BeginPass
<1> QED
  BY <1>1, <1>2, NewLine

LEMMA LineRestarts ==
  ASSUME PInv, Restart, NEW s \in Streams, DecoderLine(s, Total(s) + 1)
  PROVE  DecoderLine(s, 0)'
<1>1. frameQueue[s] = << >> /\ codec[s] = << >> /\ packetQueue[s] = << >>
      /\ decoder[s] \in {"none", "poll"}
  BY PassEnds
<1>2. /\ UNCHANGED <<frameQueue, codec, packetQueue, decoder>>
      /\ reader' = "loop" /\ pos' = 1 /\ eof' = FALSE
  BY DEF Restart, BeginPass, decoderVars
<1> QED
  BY <1>1, <1>2, NewLine

LEMMA VideoIsOpened ==
  ASSUME PInv, OpenFails \/ OpenStreams
  PROVE  VideoLine'
<1>0. "video" \in Streams
  BY PlayAssumption
<1>1. shown' = << >> /\ videoEof' = FALSE
  BY DEF OpenFails, OpenStreams, BeginPass
<1>2. display' # "delay" /\ (display' # "none" => OpenStreams)
  <2>1. CASE OpenFails
    BY <2>1 DEF OpenFails, PInv, Closing, Closed, Ended
  <2>2. CASE OpenStreams
    BY <2>2 DEF OpenStreams, OpenVideo
  <2> QED
    BY <2>1, <2>2
<1>3. display' # "none" => DecoderLine("video", 0)'
  BY <1>0, <1>2, LineOpens
<1> QED
  BY <1>1, <1>2, <1>3, VideoBegins

(* The reader restarts only when the video, if it plays, has ended. *)
LEMMA VideoEnded ==
  ASSUME PInv, VideoLine, Handled, Restart, display # "none"
  PROVE  display # "delay" /\ DecoderLine("video", Total("video") + 1)
<1>1. videoEof
  <2>1. "video" \in Streams /\ ~Ended("video") /\ Looping
    BY PlayAssumption DEF Ended, Restart, Looping
  <2>2. "video" \in opened
    BY <2>1 DEF Handled
  <2> QED
    BY <2>2 DEF Restart, AllEof, HasVideo
<1>2. display # "delay" /\ Len(shown) = Total("video")
  BY <1>1 DEF VideoLine
<1>3. VideoTaken = Total("video") + 1
  <2>1. Bit(display = "delay") = 0 /\ Bit(videoEof) = 1
    BY <1>1, <1>2 DEF Bit
  <2> QED
    BY <1>2, <2>1, VideoCounts DEF VideoTaken
<1> QED
  BY <1>2, <1>3 DEF VideoLine

LEMMA VideoRestarts ==
  ASSUME PInv, VideoLine, Handled, Restart
  PROVE  VideoLine'
<1>1. shown' = << >> /\ videoEof' = FALSE /\ display' = display
  BY DEF Restart, BeginPass
<1>2. display # "delay" /\ (display # "none" => DecoderLine("video", 0)')
  BY VideoEnded, LineRestarts, PlayAssumption
<1> QED
  BY <1>1, <1>2, VideoBegins

LEMMA VideoRuns ==
  ASSUME PInv, VideoLine, DisplayRun
  PROVE  VideoLine'
<1>n. PICK n \in Nat : n = Len(shown)
  BY VideoCounts
<1>t. PICK t \in Nat : t = Total("video")
  BY VideoCounts
<1>b. PICK b \in Nat : b = VideoTaken
  BY VideoCounts
<1>l. /\ shown \in Seq(Times("video")) /\ n <= t
      /\ Lies(shown, Line("video"), 0)
      /\ display = "delay" => ~videoEof /\ n < t /\ held = Line("video")[n + 1]
      /\ videoEof => n = t
      /\ display # "none" => DecoderLine("video", b)
  BY <1>n, <1>t, <1>b DEF VideoLine
<1>0. /\ UNCHANGED <<audioVars, playVars, packetQueue, decoder, packet, frame, codec>>
      /\ UNCHANGED <<reader, toWrite, pos, eof>> /\ "video" \in Streams
  BY PlayAssumption DEF DisplayRun, DisplayStep, DisplayEnd, TakeVideoFrame, ConsiderFrame,
                        decoderVars, playVars
<1>1. CASE DisplayEnd
  <2>1. display' = "none" /\ UNCHANGED <<shown, videoEof>>
    BY <1>1 DEF DisplayEnd
  <2> QED
    BY <2>1 DEF VideoLine
<1>2. CASE TakeVideoFrame
  <2>1. /\ display = "poll" /\ frameQueue["video"] # << >> /\ shown' = shown
        /\ frameQueue'["video"] = Tail(frameQueue["video"])
        /\ \/ /\ Head(frameQueue["video"]) = Null /\ videoEof' = TRUE /\ display' = display
           \/ /\ Head(frameQueue["video"]) # Null /\ held' = Head(frameQueue["video"])
              /\ display' = "delay" /\ videoEof' = videoEof
    BY <1>0, <1>2 DEF TakeVideoFrame, PInv, DecodersOK
  <2>2. DecoderLine("video", b + 1)'
    BY <1>0, <1>l, <2>1, LineTaken
  <2>3. /\ Head(frameQueue["video"]) = Line("video")[b + 1] /\ b + 1 <= t + 1
        /\ Head(frameQueue["video"]) = Null => b = t
        /\ Head(frameQueue["video"]) # Null => b + 1 <= t
    BY <1>0, <1>l, <1>t, <2>1, LineEnds
  <2>4. Bit(display = "delay") = 0
    BY <2>1 DEF Bit
  <2>5. ~videoEof /\ b = n
    <3>1. videoEof => Bit(videoEof) = 1
      BY DEF Bit
    <3>2. ~videoEof => Bit(videoEof) = 0
      BY DEF Bit
    <3>3. b = n + 0 + Bit(videoEof)
      BY <1>n, <1>b, <2>4 DEF VideoTaken
    <3>4. ~videoEof
      BY <1>l, <2>3, <3>1, <3>3
    <3> QED
      BY <3>2, <3>3, <3>4
  <2>6. CASE Head(frameQueue["video"]) = Null
    <3>1. videoEof' = TRUE /\ display' = "poll" /\ n = t
      BY <2>1, <2>3, <2>5, <2>6
    <3>2. Bit(display' = "delay") = 0 /\ Bit(videoEof') = 1
      BY <3>1 DEF Bit
    <3>3. VideoTaken' = b + 1
      BY <1>n, <2>1, <2>5, <3>2 DEF VideoTaken
    <3>4. DecoderLine("video", VideoTaken)'
      BY <2>2, <3>3
    <3> QED
      BY <1>l, <1>n, <1>t, <2>1, <3>1, <3>4 DEF VideoLine
  <2>7. CASE Head(frameQueue["video"]) # Null
    <3>1. ~videoEof' /\ display' = "delay" /\ n < t /\ held' = Line("video")[n + 1]
      BY <2>1, <2>3, <2>5, <2>7
    <3>2. Bit(display' = "delay") = 1 /\ Bit(videoEof') = 0
      BY <3>1 DEF Bit
    <3>3. VideoTaken' = b + 1
      BY <1>n, <2>1, <2>5, <3>2 DEF VideoTaken
    <3>4. DecoderLine("video", VideoTaken)'
      BY <2>2, <3>3
    <3> QED
      BY <1>l, <1>n, <1>t, <2>1, <3>1, <3>4 DEF VideoLine
  <2> QED
    BY <2>6, <2>7
<1>3. CASE ConsiderFrame
  <2>1. /\ display = "delay" /\ videoEof' = videoEof /\ frameQueue' = frameQueue
        /\ \/ UNCHANGED <<display, held, shown>>
           \/ shown' = Append(shown, held) /\ display' = "poll"
    BY <1>3 DEF ConsiderFrame
  <2>2. DecoderLine("video", b)'
    BY <1>0, <1>l, <2>1, LineKept
  <2>3. CASE UNCHANGED <<display, held, shown>>
    <3>1. VideoTaken' = b
      BY <1>b, <2>1, <2>3 DEF VideoTaken
    <3>2. DecoderLine("video", VideoTaken)'
      BY <2>2, <3>1
    <3> QED
      BY <2>1, <2>3, <3>2 DEF VideoLine
  <2>4. CASE shown' = Append(shown, held) /\ display' = "poll"
    <3>1. ~videoEof /\ n + 1 <= t /\ held = Line("video")[n + 1]
      BY <1>l, <2>1
    <3>2. held \in Times("video")
      BY <2>1 DEF PInv, DisplayOK
    <3>3. shown' \in Seq(Times("video")) /\ Len(shown') = n + 1
      BY <1>l, <1>n, <2>4, <3>2, Appended
    <3>4. Lies(shown', Line("video"), 0)
      <4>1. held = Line("video")[0 + Len(shown) + 1]
        BY <1>n, <3>1
      <4> QED
        BY <1>l, <2>4, <3>2, <4>1, LiesWithOneMore
    <3>5. /\ Bit(display = "delay") = 1 /\ Bit(display' = "delay") = 0
          /\ Bit(videoEof) = 0 /\ Bit(videoEof') = 0
      BY <2>1, <2>4, <3>1 DEF Bit
    <3>6. VideoTaken' = b
      BY <1>b, <1>n, <3>3, <3>5 DEF VideoTaken
    <3>7. DecoderLine("video", VideoTaken)'
      BY <2>2, <3>6
    <3> QED
      BY <1>t, <2>1, <2>4, <3>1, <3>3, <3>4, <3>7 DEF VideoLine
  <2> QED
    BY <2>1, <2>3, <2>4
<1> QED
  BY <1>1, <1>2, <1>3 DEF DisplayRun, DisplayStep

-----------------------------------------------------------------------------
(* The audio *)

LEMMA AudioIs ==
  /\ "audio" \in Streams /\ Total("audio") \in Nat
  /\ FrameSamples \in Nat \ {0} /\ ChunkSamples \in Nat \ {0}
  /\ Len(Samples) \in Nat /\ Len(Samples) = Total("audio") * FrameSamples
<1>1. /\ "audio" \in Streams /\ Total("audio") \in Nat
      /\ FrameSamples \in Nat \ {0} /\ ChunkSamples \in Nat \ {0}
  BY PlayAssumption, TotalIs
<1> QED
  BY <1>1, SamplesAre, LenProperties

LEMMA AudioCounts ==
  ASSUME PInv, ChannelLine
  PROVE  /\ Len(heard) \in Nat /\ Len(chunk) \in Nat /\ Len(channel) \in Nat
         /\ avail \in Nat /\ InChannel \in Nat /\ Handed \in Nat /\ 0 \in Nat
<1>1. /\ heard \in Seq(Times("audio")) /\ chunk \in Seq(Times("audio"))
      /\ channel \in Seq(Chunks) /\ avail \in Nat
  BY AudioIs DEF ChannelLine, PInv, MixerOK
<1>2. Len(heard) \in Nat /\ Len(chunk) \in Nat /\ Len(channel) \in Nat
  BY <1>1, LenProperties
<1>3. InChannel \in Nat
  <2>1. CASE channel = << >>
    BY <2>1 DEF InChannel
  <2>2. CASE channel # << >>
    <3>1. Len(channel) \in 1 .. Len(channel) /\ Len(channel) - 1 \in Nat
      BY <1>1, <1>2, <2>2, EmptySeq
    <3>2. channel[Len(channel)] \in Chunks
      BY <1>1, <3>1, ElementOfSeq
    <3>3. Len(channel[Len(channel)]) \in Nat
      BY <3>2, LenProperties DEF Chunks
    <3>4. (Len(channel) - 1) * ChunkSamples \in Nat
      BY <3>1, AudioIs, TimesMonotonic
    <3> QED
      BY <2>2, <3>3, <3>4 DEF InChannel
  <2> QED
    BY <2>1, <2>2
<1> QED
  BY <1>1, <1>2, <1>3 DEF Handed

LEMMA AudioStays ==
  ASSUME ChannelLine, MixerLine, UNCHANGED audioVars,
         \A b \in Nat : mixer # "none" /\ DecoderLine("audio", b) => DecoderLine("audio", b)'
  PROVE  ChannelLine' /\ MixerLine'
<1>0. UNCHANGED <<mixer, sound, avail, chunk, channel, audioEof, heard>>
  BY DEF audioVars
<1>1. UNCHANGED <<Handed, NullTaken>>
  BY <1>0 DEF Handed, InChannel, NullTaken
<1>2. ASSUME NEW f \in 0 .. Total("audio"), mixer # "none", AudioTaken(f)
      PROVE  AudioTaken(f)'
  <2>1. f + Bit(NullTaken) \in Nat
    BY AudioIs DEF Bit
  <2>2. DecoderLine("audio", f + Bit(NullTaken))
    BY <1>2 DEF AudioTaken
  <2>3. PICK b \in Nat : b = f + Bit(NullTaken)
    BY <2>1
  <2>4. DecoderLine("audio", b)'
    BY <1>2, <2>2, <2>3
  <2>5. f + Bit(NullTaken') = b
    BY <1>1, <2>3
  <2>6. DecoderLine("audio", f + Bit(NullTaken))'
    BY <2>4, <2>5
  <2> QED
    BY <1>0, <1>1, <1>2, <2>6 DEF AudioTaken
<1>3. mixer' # "none" => \E f \in 0 .. Total("audio") : AudioTaken(f)'
  BY <1>0, <1>2 DEF MixerLine
<1>4. MixerLine'
  BY <1>0, <1>3 DEF MixerLine
<1>5. ChannelLine'
  BY <1>0, <1>1 DEF ChannelLine
<1> QED
  BY <1>4, <1>5

(* A pass of the file begins: nothing was heard, and if there is audio its *)
(* line is empty.                                                          *)
LEMMA AudioBegins ==
  ASSUME heard' = << >>, audioEof' = FALSE, channel' = << >>, chunk' = << >>, avail' = 0,
         mixer' \in {"none", "poll", "eof"}, mixer' # "none" => DecoderLine("audio", 0)'
  PROVE  ChannelLine' /\ MixerLine'
<1>1. Len(<< >>) = 0 /\ << >> \in Seq(Times("audio"))
  BY EmptySeq
<1>2. Handed' = 0
  BY <1>1 DEF Handed, InChannel
<1>3. ~NullTaken'
  BY DEF NullTaken
<1>4. ChannelLine'
  BY <1>1, <1>2, AudioIs, LiesNowhere DEF ChannelLine
<1>5. mixer' # "none" => AudioTaken(0)'
  <2>1. 0 + Bit(NullTaken') = 0
    BY <1>3 DEF Bit
  <2>2. mixer' # "none" => DecoderLine("audio", 0 + Bit(NullTaken))'
    BY <2>1
  <2>3. 0 * FrameSamples = 0 + 0 + 0
    BY AudioIs
  <2> QED
    BY <1>1, <1>2, <1>3, <2>2, <2>3 DEF AudioTaken
<1>6. 0 \in 0 .. Total("audio")
  BY AudioIs
<1>7. mixer' # "none" => \E f \in 0 .. Total("audio") : AudioTaken(f)'
  BY <1>5, <1>6
<1> QED
  BY <1>4, <1>7 DEF MixerLine

LEMMA AudioElsewhere ==
  ASSUME PInv, ChannelLine, MixerLine, Handled, Reading, Elsewhere
  PROVE  ChannelLine' /\ MixerLine'
<1>1. ASSUME NEW b \in Nat, mixer # "none", DecoderLine("audio", b)
      PROVE  DecoderLine("audio", b)'
  <2>1. ~Ended("audio") /\ "audio" \in Streams
    BY <1>1, AudioIs DEF Ended
  <2> QED
    BY <1>1, <2>1, LineStep
<1>2. CASE UNCHANGED audioVars
  BY <1>1, <1>2, AudioStays
<1>3. CASE ~UNCHANGED audioVars
  <2>1. JoinDisplay
    BY <1>3 DEF Elsewhere, start, setIsPaused, stop, StopReturns, LoopTop, ReadPacket, ReadEof,
         ReadFails, WritePacket, CloseDecoder, JoinDecoder, DecoderRun, Tick, vars
  <2>2. /\ UNCHANGED <<mixer, sound, avail, chunk, audioEof, heard>>
        /\ mixer = "none" /\ channel' = << >>
    BY <1>3, <2>1 DEF JoinDisplay, Ended, audioVars
  <2>3. chunk = << >>
    BY <2>2 DEF MixerLine
  <2>4. Len(<< >>) = 0
    BY EmptySeq
  <2>5. Handed' = Len(heard)
    BY <2>2, <2>4, AudioCounts DEF Handed, InChannel
  <2>6. Len(heard) <= Handed /\ Handed <= Len(Samples)
    <3>1. Handed + Len(chunk) <= Len(Samples)
      BY DEF ChannelLine
    <3> QED
      BY <2>3, <2>4, <3>1, AudioCounts DEF Handed
  <2>7. ChannelLine'
    BY <2>2, <2>3, <2>4, <2>5, <2>6, AudioCounts, AudioIs, LiesNowhere DEF ChannelLine
  <2>8. MixerLine'
    BY <2>2 DEF MixerLine
  <2> QED
    BY <2>7, <2>8
<1> QED
  BY <1>2, <1>3

LEMMA AudioBeside ==
  ASSUME PInv, ChannelLine, MixerLine, DisplayRun
  PROVE  ChannelLine' /\ MixerLine'
<1>1. UNCHANGED <<audioVars, playVars, packetQueue, codec, decoder, packet, frame>>
  BY DEF DisplayRun, DisplayStep, DisplayEnd, TakeVideoFrame, ConsiderFrame, decoderVars
<1>2. frameQueue'["audio"] = frameQueue["audio"]
  <2>1. \/ frameQueue' = frameQueue
        \/ frameQueue' = [frameQueue EXCEPT !["video"] = Tail(@)]
    BY DEF DisplayRun, DisplayStep, DisplayEnd, TakeVideoFrame, ConsiderFrame, decoderVars
  <2> QED
    BY <2>1, AudioIs DEF PInv, DecodersOK
<1>3. UNCHANGED <<reader, toWrite, pos, eof>>
  BY <1>1 DEF playVars
<1>4. \A b \in Nat : DecoderLine("audio", b) => DecoderLine("audio", b)'
  BY <1>1, <1>2, <1>3, LineKept
<1> QED
  BY <1>1, <1>4, AudioStays

LEMMA AudioIsOpened ==
  ASSUME PInv, MixerLine, OpenFails \/ OpenStreams
  PROVE  ChannelLine' /\ MixerLine'
<1>0. /\ heard' = << >> /\ audioEof' = FALSE /\ UNCHANGED <<channel, chunk, avail>>
      /\ reader = "open"
  BY DEF OpenFails, OpenStreams, OpenAudio, BeginPass
<1>1. mixer = "none" /\ channel = << >>
  BY <1>0 DEF PInv, Closing, Closed, Ended
<1>2. chunk = << >> /\ avail = 0
  BY <1>1 DEF MixerLine
<1>3. mixer' \in {"none", "poll"} /\ (mixer' # "none" => OpenStreams)
  BY <1>1 DEF OpenFails, OpenStreams, OpenAudio
<1>4. mixer' # "none" => DecoderLine("audio", 0)'
  BY <1>3, LineOpens, AudioIs
<1> QED
  BY <1>0, <1>1, <1>2, <1>3, <1>4, AudioBegins

(* The reader restarts only when the audio, if it plays, has ended. *)
LEMMA AudioEnded ==
  ASSUME PInv, MixerLine, Handled, Restart
  PROVE  /\ mixer \in {"none", "poll", "eof"} /\ channel = << >> /\ chunk = << >> /\ avail = 0
         /\ mixer # "none" => DecoderLine("audio", Total("audio") + 1)
<1>0. Looping
  BY DEF Restart, Looping
<1>1. CASE mixer = "none"
  BY <1>0, <1>1 DEF Handled, MixerLine
<1>2. CASE mixer # "none"
  <2>1. audioEof
    <3>1. "audio" \in opened
      BY <1>0, <1>2, AudioIs DEF Handled, Ended
    <3> QED
      BY <3>1 DEF Restart, AllEof, HasAudio
  <2>2. mixer \in {"none", "poll", "eof"} /\ channel = << >> /\ chunk = << >> /\ avail = 0
    BY <2>1 DEF MixerLine
  <2>3. PICK f \in 0 .. Total("audio") : AudioTaken(f)
    BY <1>2 DEF MixerLine
  <2>4. f + Bit(NullTaken) = Total("audio") + 1
    <3>1. NullTaken
      BY <2>1 DEF NullTaken
    <3> QED
      BY <2>3, <3>1, AudioIs DEF AudioTaken, Bit
  <2> QED
    BY <2>2, <2>3, <2>4 DEF AudioTaken
<1> QED
  BY <1>1, <1>2

LEMMA AudioRestarts ==
  ASSUME PInv, MixerLine, Handled, Restart
  PROVE  ChannelLine' /\ MixerLine'
<1>1. heard' = << >> /\ audioEof' = FALSE /\ UNCHANGED <<channel, chunk, avail, mixer>>
  BY DEF Restart, BeginPass
<1>2. mixer # "none" => DecoderLine("audio", 0)'
  BY AudioEnded, LineRestarts, AudioIs
<1> QED
  BY <1>1, <1>2, AudioEnded, AudioBegins

(* The steps of the mixer and the callback that take no frame keep the     *)
(* audio's line ...                                                        *)
AudioMoves ==
  \/ CallbackRun
  \/ (MixerEnd \/ BeginChunk \/ WaitForVideo \/ FillChunk \/ FlushChunk \/ DrainChannel
      \/ FollowAbsolute) /\ UNCHANGED <<videoVars, playVars>>

LEMMA AudioLineStays ==
  ASSUME AudioMoves, NEW b \in Nat, DecoderLine("audio", b)
  PROVE  DecoderLine("audio", b)'
<1>1. UNCHANGED <<playVars, packetQueue, frameQueue, codec, decoder, packet, frame>>
  BY DEF AudioMoves, MixerEnd, BeginChunk, WaitForVideo, FillChunk, FlushChunk, DrainChannel,
         FollowAbsolute, CallbackRun, audioCallback, decoderVars
<1>2. UNCHANGED <<reader, toWrite, pos, eof>>
  BY <1>1 DEF playVars
<1> QED
  BY <1>1, <1>2, LineKept

(* ... and what they do with the samples of the frames taken adds up.      *)
LEMMA TakenStill ==
  ASSUME AudioMoves, MixerLine, mixer # "none", NullTaken' <=> NullTaken,
         Handed' + Len(chunk') + avail' = Handed + Len(chunk) + avail,
         mixer' \in {"begin", "fill"} => mixer \in {"begin", "fill"} /\ sound' = sound
  PROVE  \E f \in 0 .. Total("audio") : AudioTaken(f)'
<1>1. PICK f \in 0 .. Total("audio") : AudioTaken(f)
  BY DEF MixerLine
<1>2. PICK b \in Nat : b = f + Bit(NullTaken)
  <2>1. f + Bit(NullTaken) \in Nat
    BY AudioIs DEF Bit
  <2> QED
    BY <2>1
<1>3. DecoderLine("audio", b)'
  BY <1>1, <1>2, AudioLineStays DEF AudioTaken
<1>4. f + Bit(NullTaken') = b
  BY <1>2 DEF Bit
<1>5. DecoderLine("audio", f + Bit(NullTaken))'
  BY <1>3, <1>4
<1>6. AudioTaken(f)'
  BY <1>1, <1>5 DEF AudioTaken
<1> QED
  BY <1>6

(* A chunk that enters the channel lies behind the others. *)
LEMMA ChannelGrows ==
  ASSUME PInv, ChannelLine, mixer # "drain", NEW c \in Chunks, Lies(c, Samples, Handed),
         channel' = Append(channel, c), heard' = heard
  PROVE  /\ Handed' = Handed + Len(c) /\ Len(channel') = Len(channel) + 1
         /\ \A i \in 1 .. Len(channel') :
              /\ Lies(channel'[i], Samples, Len(heard) + (i - 1) * ChunkSamples)
              /\ i < Len(channel') => Len(channel'[i]) = ChunkSamples
         /\ channel'[Len(channel')] = c
<1>q. channel \in Seq(Chunks)
  BY DEF PInv, MixerOK
<1>n. PICK n \in Nat : n = Len(channel)
  BY AudioCounts
<1>h. PICK h \in Nat : h = Len(heard)
  BY AudioCounts
<1>1. Len(channel') = n + 1 /\ channel'[n + 1] = c /\ \A i \in 1 .. n : channel'[i] = channel[i]
  BY <1>q, <1>n, AppendProperties
<1>2. Handed = h + n * ChunkSamples
  <2>1. CASE channel = << >>
    <3>1. n = 0
      BY <1>n, <2>1, EmptySeq
    <3>2. 0 * ChunkSamples = 0
      BY AudioIs
    <3> QED
      BY <1>h, <2>1, <3>1, <3>2 DEF Handed, InChannel
  <2>2. CASE channel # << >>
    <3>1. n \in 1 .. Len(channel) /\ n # 0
      BY <1>n, <1>q, <2>2, EmptySeq
    <3>2. Len(channel[n]) = ChunkSamples
      BY <3>1 DEF ChannelLine
    <3>3. (n - 1) * ChunkSamples + ChunkSamples = n * ChunkSamples
      BY <3>1, AudioIs
    <3> QED
      BY <1>h, <1>n, <2>2, <3>2, <3>3 DEF Handed, InChannel
  <2> QED
    BY <2>1, <2>2
<1>3. channel' # << >>
  <2>1. Len(channel') # 0
    BY <1>1
  <2> QED
    BY <2>1, EmptySeq
<1>4. Handed' = Handed + Len(c)
  <2>1. InChannel' = (n + 1 - 1) * ChunkSamples + Len(c)
    BY <1>1, <1>3 DEF InChannel
  <2>2. n + 1 - 1 = n
    OBVIOUS
  <2>3. n * ChunkSamples \in Nat /\ Len(c) \in Nat
    BY AudioIs, TimesMonotonic, LenProperties DEF Chunks
  <2>4. Handed' = h + (n * ChunkSamples + Len(c))
    BY <1>h, <2>1, <2>2 DEF Handed
  <2> QED
    BY <1>2, <2>3, <2>4
<1>5. ASSUME NEW i \in 1 .. n
      PROVE  /\ Lies(channel'[i], Samples, h + (i - 1) * ChunkSamples)
             /\ Len(channel'[i]) = ChunkSamples
  BY <1>1, <1>h, <1>n DEF ChannelLine
<1>6. ASSUME NEW i \in 1 .. n + 1
      PROVE  /\ Lies(channel'[i], Samples, h + (i - 1) * ChunkSamples)
             /\ i < n + 1 => Len(channel'[i]) = ChunkSamples
  <2>1. CASE i = n + 1
    <3>1. i - 1 = n /\ ~(i < n + 1)
      BY <2>1
    <3>2. channel'[i] = c /\ h + (i - 1) * ChunkSamples = Handed
      BY <1>1, <1>2, <2>1, <3>1
    <3> QED
      BY <3>1, <3>2
  <2>2. CASE i # n + 1
    <3>1. i \in 1 .. n
      BY <2>2
    <3> QED
      BY <1>5, <3>1
  <2> QED
    BY <2>1, <2>2
<1> QED
  BY <1>1, <1>4, <1>6, <1>h, <1>n

(* The callback plays the oldest chunk: the others move up. *)
LEMMA CallbackPlays ==
  ASSUME PInv, ChannelLine, MixerLine, CallbackRun
  PROVE  ChannelLine' /\ MixerLine'
<1>0. /\ channel # << >> /\ channel' = Tail(channel) /\ heard' = heard \o Head(channel)
      /\ UNCHANGED <<mixer, sound, avail, chunk, audioEof>>
  BY DEF CallbackRun, audioCallback
<1>q. channel \in Seq(Chunks) /\ heard \in Seq(Times("audio"))
  BY DEF PInv, MixerOK, ChannelLine
<1>n. PICK n \in Nat : n = Len(channel)
  BY AudioCounts
<1>h. PICK h \in Nat : h = Len(heard)
  BY AudioCounts
<1>1. /\ Head(channel) \in Chunks /\ Head(channel) = channel[1] /\ n # 0
      /\ Len(channel') = n - 1 /\ \A i \in 1 .. n - 1 : channel'[i] = channel[i + 1]
  BY <1>0, <1>q, <1>n, HeadTailProperties, EmptySeq
<1>a. PICK a \in Nat : a = Len(channel[1])
  BY <1>1, LenProperties DEF Chunks
<1>2. heard' \in Seq(Times("audio")) /\ Len(heard') = h + a
  BY <1>0, <1>1, <1>a, <1>h, <1>q, ConcatProperties DEF Chunks
<1>3. Lies(heard', Samples, 0)
  <2>1. /\ Lies(heard, Samples, 0)
        /\ \A i \in 1 .. n : Lies(channel[i], Samples, h + (i - 1) * ChunkSamples)
    BY <1>n, <1>h DEF ChannelLine
  <2>2. 1 \in 1 .. n /\ h + (1 - 1) * ChunkSamples = h /\ 0 + h = h /\ 0 \in Nat
    BY <1>1, AudioIs
  <2>3. Lies(channel[1], Samples, h + (1 - 1) * ChunkSamples)
    BY <2>1, <2>2
  <2>4. Lies(channel[1], Samples, 0 + Len(heard))
    BY <1>h, <2>2, <2>3
  <2> QED
    BY <1>0, <1>1, <1>q, <2>1, <2>2, <2>4, LieBehindEachOther DEF Chunks
<1>4. n > 1 => a = ChunkSamples
  BY <1>a, <1>n DEF ChannelLine
<1>5. ASSUME NEW i \in 1 .. n - 1
      PROVE  /\ i < n - 1 \/ mixer' # "drain" => Len(channel'[i]) = ChunkSamples
             /\ Lies(channel'[i], Samples, Len(heard') + (i - 1) * ChunkSamples)
  <2>1. i + 1 \in 1 .. Len(channel) /\ channel'[i] = channel[i + 1]
    BY <1>1, <1>n
  <2>2. /\ i + 1 < n \/ mixer # "drain" => Len(channel[i + 1]) = ChunkSamples
        /\ Lies(channel[i + 1], Samples, h + (i + 1 - 1) * ChunkSamples)
    BY <1>n, <1>h, <2>1 DEF ChannelLine
  <2>3. Len(heard') + (i - 1) * ChunkSamples = h + (i + 1 - 1) * ChunkSamples
    <3>1. a = ChunkSamples /\ n > 1
      BY <1>4
    <3>2. ChunkSamples + (i - 1) * ChunkSamples = (i + 1 - 1) * ChunkSamples
      BY AudioIs
    <3>3. (i - 1) * ChunkSamples \in Int
      BY AudioIs
    <3> QED
      BY <1>2, <3>1, <3>2, <3>3, AudioIs
  <2>4. i < n - 1 => i + 1 < n
    OBVIOUS
  <2> QED
    BY <1>0, <2>1, <2>2, <2>3, <2>4
<1>6. Handed' = Handed
  <2>1. Handed = h + ((n - 1) * ChunkSamples + Len(channel[n]))
    BY <1>0, <1>h, <1>n DEF Handed, InChannel
  <2>2. CASE n = 1
    <3>1. channel' = << >>
      BY <1>0, <1>1, <1>q, <2>2, HeadTailProperties, EmptySeq
    <3>2. (n - 1) * ChunkSamples = 0 /\ channel[n] = channel[1]
      BY <2>2, AudioIs
    <3>3. Handed' = (h + a) + 0
      BY <1>2, <3>1 DEF Handed, InChannel
    <3> QED
      BY <1>a, <2>1, <3>2, <3>3
  <2>3. CASE n # 1
    <3>1. n > 1 /\ a = ChunkSamples /\ n - 1 \in 1 .. n - 1 /\ n - 1 + 1 = n
      BY <1>1, <1>4, <2>3
    <3>2. channel' # << >> /\ channel'[n - 1] = channel[n]
      <4>1. channel'[n - 1] = channel[n - 1 + 1]
        BY <1>1, <3>1
      <4>2. Len(channel') # 0
        BY <1>1, <2>3
      <4> QED
        BY <3>1, <4>1, <4>2, EmptySeq
    <3>3. Handed' = (h + a) + ((n - 1 - 1) * ChunkSamples + Len(channel[n]))
      BY <1>1, <1>2, <3>2 DEF Handed, InChannel
    <3>4. ChunkSamples + (n - 1 - 1) * ChunkSamples = (n - 1) * ChunkSamples
      BY AudioIs
    <3>5. (n - 1 - 1) * ChunkSamples \in Int /\ Len(channel[n]) \in Nat
      <4>1. n \in 1 .. Len(channel)
        BY <1>n, <3>1
      <4>2. channel[n] \in Chunks
        BY <1>q, <4>1, ElementOfSeq
      <4> QED
        BY <4>2, AudioIs, LenProperties DEF Chunks
    <3>6. PICK l \in Nat : l = Len(channel[n])
      BY <3>5
    <3>7. PICK x \in Int : x = (n - 1 - 1) * ChunkSamples
      BY <3>5
    <3>8. Handed' = (h + a) + (x + l) /\ Handed = h + ((a + x) + l)
      BY <2>1, <3>1, <3>3, <3>4, <3>6, <3>7
    <3>9. (h + a) + (x + l) = h + ((a + x) + l)
      OBVIOUS
    <3> QED
      BY <3>8, <3>9
  <2> QED
    BY <2>2, <2>3
<1>7. ChannelLine'
  BY <1>0, <1>1, <1>2, <1>3, <1>5, <1>6 DEF ChannelLine
<1>8. ~audioEof
  BY <1>0 DEF MixerLine
<1>9. mixer' # "none" => \E f \in 0 .. Total("audio") : AudioTaken(f)'
  <2>1. NullTaken' <=> NullTaken
    BY <1>0 DEF NullTaken
  <2>2. Handed' + Len(chunk') + avail' = Handed + Len(chunk) + avail
    BY <1>0, <1>6
  <2> QED
    BY <1>0, <2>1, <2>2, TakenStill DEF AudioMoves
<1>10. MixerLine'
  BY <1>0, <1>8, <1>9 DEF MixerLine
<1> QED
  BY <1>7, <1>10

(* The mixer takes a frame. *)
LEMMA MixerTakesFrame ==
  ASSUME PInv, ChannelLine, MixerLine, TakeAudioFrame, UNCHANGED <<videoVars, playVars>>
  PROVE  ChannelLine' /\ MixerLine'
<1>0. /\ mixer = "poll" /\ frameQueue["audio"] # << >>
      /\ sound' = Head(frameQueue["audio"])
      /\ frameQueue'["audio"] = Tail(frameQueue["audio"])
      /\ avail' = IF sound' = Null THEN 0 ELSE FrameSamples
      /\ mixer' = IF sound' = Null THEN "flush" ELSE IF chunk = << >> THEN "begin" ELSE "fill"
      /\ UNCHANGED <<chunk, channel, audioEof, heard>>
      /\ UNCHANGED <<packetQueue, decoder, packet, frame, codec, reader, toWrite, pos, eof>>
  BY AudioIs DEF TakeAudioFrame, PInv, DecodersOK, playVars
<1>t. PICK t \in Nat : t = Total("audio")
  BY AudioIs
<1>f. PICK f \in 0 .. t : AudioTaken(f)
  BY <1>0, <1>t DEF MixerLine
<1>h. PICK h \in Nat : h = Handed + Len(chunk)
  <2>1. Handed + Len(chunk) \in Nat
    BY AudioCounts
  <2> QED
    BY <2>1
<1>b. PICK b \in Nat : b = f + Bit(NullTaken)
  <2>1. f + Bit(NullTaken) \in Nat
    BY DEF Bit
  <2> QED
    BY <2>1
<1>1. /\ NullTaken => f = t
      /\ DecoderLine("audio", b) /\ f * FrameSamples = h + avail /\ avail = 0
  BY <1>0, <1>t, <1>f, <1>b, <1>h DEF AudioTaken, MixerLine
<1>2. /\ Head(frameQueue["audio"]) = Line("audio")[b + 1] /\ b + 1 <= t + 1
      /\ Head(frameQueue["audio"]) = Null => b = t
      /\ Head(frameQueue["audio"]) # Null => b + 1 <= t
  BY <1>0, <1>1, <1>t, AudioIs, LineEnds
<1>3. DecoderLine("audio", b + 1)'
  BY <1>0, <1>1, AudioIs, LineTaken
<1>4. ~NullTaken /\ b = f
  <2>1. NullTaken => b = f + 1
    BY <1>b DEF Bit
  <2>2. ~NullTaken => b = f + 0
    BY <1>b DEF Bit
  <2>3. ~NullTaken
    BY <1>1, <1>2, <2>1
  <2> QED
    BY <2>2, <2>3
<1>5. ~audioEof
  BY <1>4 DEF NullTaken
<1>6. Handed' + Len(chunk') = h
  BY <1>0, <1>h DEF Handed, InChannel
<1>7. ChannelLine'
  BY <1>0 DEF ChannelLine, Handed, InChannel
<1>8. CASE sound' = Null
  <2>1. mixer' = "flush" /\ avail' = 0 /\ f = t
    BY <1>0, <1>2, <1>4, <1>8
  <2>2. NullTaken' /\ f + Bit(NullTaken') = b + 1
    <3>1. NullTaken'
      BY <2>1 DEF NullTaken
    <3> QED
      BY <1>4, <3>1 DEF Bit
  <2>3. DecoderLine("audio", f + Bit(NullTaken))'
    BY <1>3, <2>2
  <2>4. AudioTaken(f)'
    BY <1>1, <1>6, <1>t, <2>1, <2>3 DEF AudioTaken
  <2> QED
    BY <1>0, <1>5, <1>7, <1>t, <2>1, <2>4 DEF MixerLine
<1>9. CASE sound' # Null
  <2>1. mixer' \in {"begin", "fill"} /\ avail' = FrameSamples /\ f + 1 <= t
        /\ sound' = Line("audio")[f + 1]
    BY <1>0, <1>2, <1>4, <1>9
  <2>2. ~NullTaken'
    BY <1>0, <1>5, <2>1 DEF NullTaken
  <2>3. f + 1 + Bit(NullTaken') = b + 1
    BY <1>4, <2>2 DEF Bit
  <2>4. DecoderLine("audio", f + 1 + Bit(NullTaken))'
    BY <1>3, <2>3
  <2>5. (f + 1) * FrameSamples = Handed' + Len(chunk') + avail'
    <3>1. (f + 1) * FrameSamples = f * FrameSamples + FrameSamples
      BY AudioIs
    <3> QED
      BY <1>1, <1>6, <2>1, <3>1
  <2>6. f + 1 > 0 /\ f + 1 \in 0 .. t
    BY <2>1
  <2>7. AudioTaken(f + 1)'
    BY <2>1, <2>2, <2>4, <2>5, <2>6 DEF AudioTaken
  <2> QED
    BY <1>0, <1>5, <1>7, <1>t, <2>1, <2>6, <2>7 DEF MixerLine
<1> QED
  BY <1>8, <1>9

(* The samples of a frame continue the chunk where the frame before ended. *)
LEMMA MixerFillsChunk ==
  ASSUME PInv, ChannelLine, MixerLine, FillChunk, UNCHANGED <<videoVars, playVars>>
  PROVE  ChannelLine' /\ MixerLine'
<1> DEFINE room == ChunkSamples - Len(chunk)
           fill == IF room < avail THEN room ELSE avail
           more == [i \in 1 .. fill |-> sound]
           filled == chunk \o more
           full == Len(filled) = ChunkSamples
<1>0. /\ mixer = "fill" /\ sound \in Times("audio") /\ avail \in 1 .. FrameSamples
      /\ FrameSamples \in Nat /\ ChunkSamples \in Nat
      /\ chunk \in Seq(Times("audio")) /\ Len(chunk) < ChunkSamples /\ Len(chunk) \in Nat
  <2>1. mixer = "fill"
    BY DEF FillChunk
  <2> QED
    BY <2>1, AudioIs, LenProperties DEF PInv, MixerOK
<1>1. fill \in Nat \ {0} /\ fill <= room /\ fill <= avail
  BY <1>0
<1> HIDE DEF fill
<1>2. more \in Seq(Times("audio")) /\ Len(more) = fill /\ \A i \in 1 .. fill : more[i] = sound
  BY <1>0, <1>1
<1> HIDE DEF more
<1>3. filled \in Seq(Times("audio")) /\ Len(filled) = Len(chunk) + fill
  BY <1>0, <1>2, ConcatProperties
<1> HIDE DEF filled
<1>4. /\ avail' = avail - fill
      /\ chunk' = IF full THEN << >> ELSE filled
      /\ channel' = IF full THEN Append(channel, filled) ELSE channel
      /\ IF avail' = 0 THEN sound' = Null /\ mixer' = "poll" ELSE mixer' = "begin" /\ sound' = sound
      /\ audioEof' = audioEof /\ heard' = heard
  BY DEF FillChunk, room, fill, more, filled
<1>f. PICK f \in 0 .. Total("audio") : AudioTaken(f)
  BY <1>0 DEF MixerLine
<1>p. PICK h \in Nat : h = Handed
  BY AudioCounts
<1>c. PICK c \in Nat : c = Len(chunk)
  BY <1>0
<1>e. f * FrameSamples = h + c + avail /\ f > 0 /\ sound = Line("audio")[f]
  BY <1>0, <1>f, <1>p, <1>c DEF AudioTaken
<1>5. Lies(more, Samples, h + c)
  <2> SUFFICES ASSUME NEW i \in 1 .. fill PROVE Samples[h + c + i] = sound
    BY <1>2 DEF Lies
  <2>1. f \in 1 .. Total("audio")
    BY <1>e, AudioIs
  <2>x. PICK x \in Nat : x = f * FrameSamples
    BY <2>1, AudioIs, TimesMonotonic
  <2>2. h + c + i \in Nat /\ x - FrameSamples < h + c + i /\ h + c + i <= x
    BY <1>0, <1>1, <1>e, <2>x
  <2> QED
    BY <1>e, <2>1, <2>2, <2>x, SamplesAre
<1>6. Lies(filled, Samples, h)
  <2>1. Lies(chunk, Samples, h) /\ Lies(more, Samples, h + Len(chunk))
    BY <1>5, <1>p, <1>c DEF ChannelLine
  <2> QED
    BY <1>0, <1>2, <2>1, LieBehindEachOther DEF filled
<1>7. h + Len(filled) <= Len(Samples)
  <2>1. f * FrameSamples <= Total("audio") * FrameSamples
    BY AudioIs, TimesMonotonic
  <2>2. h + c + avail <= Len(Samples)
    BY <1>e, <2>1, AudioIs
  <2>3. h + Len(filled) = h + c + fill
    BY <1>1, <1>3, <1>c
  <2>4. Len(Samples) \in Nat
    BY AudioIs
  <2> QED
    BY <1>0, <1>1, <2>2, <2>3, <2>4
<1>8. ASSUME full PROVE ChannelLine' /\ Handed' + Len(chunk') = h + c + fill
  <2>1. filled \in Chunks /\ Len(filled) = ChunkSamples
    BY <1>0, <1>3, <1>8 DEF Chunks
  <2>2. channel' = Append(channel, filled) /\ chunk' = << >> /\ heard' = heard
    BY <1>4, <1>8
  <2>3. /\ Handed' = h + Len(filled) /\ Len(channel') = Len(channel) + 1
        /\ \A i \in 1 .. Len(channel') :
             /\ Lies(channel'[i], Samples, Len(heard) + (i - 1) * ChunkSamples)
             /\ i < Len(channel') => Len(channel'[i]) = ChunkSamples
        /\ channel'[Len(channel')] = filled
    BY <1>0, <1>6, <1>p, <2>1, <2>2, ChannelGrows
  <2>4. \A i \in 1 .. Len(channel') : Len(channel'[i]) = ChunkSamples
    <3>1. ASSUME NEW i \in 1 .. Len(channel') PROVE Len(channel'[i]) = ChunkSamples
      <4>1. Len(channel') \in Nat
        BY <2>3, AudioCounts
      <4>2. CASE i = Len(channel')
        BY <2>1, <2>3, <4>2
      <4>3. CASE i # Len(channel')
        BY <2>3, <4>1, <4>3
      <4> QED
        BY <4>2, <4>3
    <3> QED
      BY <3>1
  <2>5. Len(<< >>) = 0
    BY EmptySeq
  <2>6. Handed' + Len(chunk') <= Len(Samples)
    BY <1>0, <1>7, <1>p, <2>1, <2>2, <2>3, <2>5
  <2>7. ChannelLine'
    BY <2>2, <2>3, <2>4, <2>6, LiesNowhere DEF ChannelLine
  <2>8. Handed' + Len(chunk') = h + c + fill
    BY <1>0, <1>1, <1>3, <1>p, <1>c, <2>2, <2>3, <2>5
  <2> QED
    BY <2>7, <2>8
<1>9. ASSUME ~full PROVE ChannelLine' /\ Handed' + Len(chunk') = h + c + fill
  <2>1. channel' = channel /\ chunk' = filled /\ heard' = heard
    BY <1>4, <1>9
  <2>2. Handed' = h
    BY <1>p, <2>1 DEF Handed, InChannel
  <2>3. mixer # "drain"
    BY <1>0
  <2>4. ChannelLine'
    BY <1>6, <1>7, <2>1, <2>2, <2>3 DEF ChannelLine
  <2>5. Handed' + Len(chunk') = h + c + fill
    BY <1>0, <1>1, <1>3, <1>p, <1>c, <2>1, <2>2
  <2> QED
    BY <2>4, <2>5
<1>10. ChannelLine' /\ Handed' + Len(chunk') = h + c + fill
  BY <1>8, <1>9
<1>11. ~audioEof /\ ~audioEof' /\ mixer' \in {"poll", "begin"}
  BY <1>0, <1>4 DEF MixerLine
<1>12. \E g \in 0 .. Total("audio") : AudioTaken(g)'
  <2>1. NullTaken' <=> NullTaken
    BY <1>0, <1>11 DEF NullTaken
  <2>2. Handed' + Len(chunk') + avail' = Handed + Len(chunk) + avail
    BY <1>0, <1>1, <1>4, <1>10, <1>p, <1>c
  <2>3. mixer' = "begin" => sound' = sound
    BY <1>4
  <2> QED
    BY <1>0, <1>11, <2>1, <2>2, <2>3, TakenStill DEF AudioMoves
<1>13. avail' # 0 => mixer' = "begin"
  BY <1>4
<1> QED
  BY <1>10, <1>11, <1>12, <1>13 DEF MixerLine

(* At the end of the file the chunk that was begun is handed out. *)
LEMMA MixerFlushes ==
  ASSUME PInv, ChannelLine, MixerLine, FlushChunk, UNCHANGED <<videoVars, playVars>>
  PROVE  ChannelLine' /\ MixerLine'
<1>0. /\ mixer = "flush" /\ mixer' = "drain" /\ chunk' = << >> /\ avail = 0
      /\ channel' = IF chunk = << >> THEN channel ELSE Append(channel, chunk)
      /\ UNCHANGED <<sound, avail, audioEof, heard>>
  BY DEF FlushChunk, MixerLine
<1>1. Len(<< >>) = 0
  BY EmptySeq
<1>2. ChannelLine' /\ Handed' = Handed + Len(chunk)
  <2>1. CASE chunk = << >>
    <3>1. Handed' = Handed /\ channel' = channel
      BY <1>0, <2>1 DEF Handed, InChannel
    <3> QED
      BY <1>0, <1>1, <2>1, <3>1, AudioCounts DEF ChannelLine
  <2>2. CASE chunk # << >>
    <3>1. chunk \in Chunks
      <4>1. chunk \in Seq(Times("audio")) /\ Len(chunk) < ChunkSamples
        BY DEF PInv, MixerOK
      <4>2. Len(chunk) \in Nat \ {0}
        BY <2>2, <4>1, EmptySeq, LenProperties
      <4> QED
        BY <4>1, <4>2, AudioIs DEF Chunks
    <3>2. channel' = Append(channel, chunk)
      BY <1>0, <2>2
    <3>3. Lies(chunk, Samples, Handed) /\ Handed + Len(chunk) <= Len(Samples)
      BY DEF ChannelLine
    <3>4. /\ Handed' = Handed + Len(chunk)
          /\ \A i \in 1 .. Len(channel') :
               /\ Lies(channel'[i], Samples, Len(heard) + (i - 1) * ChunkSamples)
               /\ i < Len(channel') => Len(channel'[i]) = ChunkSamples
      BY <1>0, <3>1, <3>2, <3>3, ChannelGrows
    <3>5. Handed' + Len(chunk') <= Len(Samples)
      BY <1>0, <1>1, <3>3, <3>4, AudioCounts
    <3>6. ChannelLine'
      BY <1>0, <3>4, <3>5, LiesNowhere DEF ChannelLine
    <3> QED
      BY <3>4, <3>6
  <2> QED
    BY <2>1, <2>2
<1>3. ~audioEof
  BY <1>0 DEF MixerLine
<1>4. \E f \in 0 .. Total("audio") : AudioTaken(f)'
  <2>1. NullTaken' <=> NullTaken
    BY <1>0 DEF NullTaken
  <2>2. Handed' + Len(chunk') + avail' = Handed + Len(chunk) + avail
    BY <1>0, <1>1, <1>2, AudioCounts
  <2> QED
    BY <1>0, <2>1, <2>2, TakenStill DEF AudioMoves
<1> QED
  BY <1>0, <1>2, <1>3, <1>4 DEF MixerLine

(* The end is reported when the channel was played. *)
LEMMA MixerDrains ==
  ASSUME PInv, ChannelLine, MixerLine, DrainChannel, UNCHANGED <<videoVars, playVars>>
  PROVE  ChannelLine' /\ MixerLine'
<1>0. /\ mixer = "drain" /\ mixer' = "eof" /\ channel = << >> /\ audioEof' = TRUE
      /\ UNCHANGED <<sound, avail, chunk, channel, heard>> /\ chunk = << >> /\ avail = 0
  BY DEF DrainChannel, MixerLine
<1>1. Len(<< >>) = 0
  BY EmptySeq
<1>2. Handed' = Handed /\ Handed = Len(heard)
  BY <1>0, AudioCounts DEF Handed, InChannel
<1>3. ChannelLine'
  BY <1>0, <1>1, <1>2, AudioCounts DEF ChannelLine
<1>4. Len(heard) = Len(Samples)
  <2>1. PICK f \in 0 .. Total("audio") : AudioTaken(f)
    BY <1>0 DEF MixerLine
  <2>2. f = Total("audio")
    BY <1>0, <2>1 DEF AudioTaken, NullTaken
  <2>3. f * FrameSamples = Len(heard) + 0 + 0
    BY <1>0, <1>1, <1>2, <2>1 DEF AudioTaken
  <2> QED
    BY <2>2, <2>3, AudioIs, AudioCounts
<1>5. \E f \in 0 .. Total("audio") : AudioTaken(f)'
  <2>1. NullTaken' <=> NullTaken
    BY <1>0 DEF NullTaken
  <2>2. Handed' + Len(chunk') + avail' = Handed + Len(chunk) + avail
    BY <1>0, <1>2
  <2> QED
    BY <1>0, <2>1, <2>2, TakenStill DEF AudioMoves
<1> QED
  BY <1>0, <1>3, <1>4, <1>5 DEF MixerLine

LEMMA AudioRuns ==
  ASSUME PInv, ChannelLine, MixerLine, MixerRun
  PROVE  ChannelLine' /\ MixerLine'
<1>0. UNCHANGED <<videoVars, playVars>>
  BY DEF MixerRun
<1>1. CASE MixerEnd
  <2>1. /\ mixer = "poll" /\ mixer' = "none" /\ chunk' = << >>
        /\ UNCHANGED <<sound, avail, channel, audioEof, heard>>
    BY <1>1 DEF MixerEnd
  <2>2. Len(<< >>) = 0
    BY EmptySeq
  <2>3. Handed' = Handed
    BY <2>1 DEF Handed, InChannel
  <2>4. Handed' + Len(chunk') <= Len(Samples)
    <3>1. Handed + Len(chunk) <= Len(Samples)
      BY DEF ChannelLine
    <3> QED
      BY <2>1, <2>2, <2>3, <3>1, AudioCounts, AudioIs
  <2>5. ChannelLine'
    BY <2>1, <2>3, <2>4, LiesNowhere DEF ChannelLine
  <2> QED
    BY <2>1, <2>5 DEF MixerLine
<1>2. CASE BeginChunk
  <2>1. /\ mixer = "begin" /\ mixer' = "fill"
        /\ UNCHANGED <<sound, avail, chunk, channel, audioEof, heard>>
    BY <1>2 DEF BeginChunk
  <2>2. Handed' = Handed
    BY <2>1 DEF Handed, InChannel
  <2>3. ChannelLine'
    BY <2>1, <2>2 DEF ChannelLine
  <2>4. \E f \in 0 .. Total("audio") : AudioTaken(f)'
    <3>1. NullTaken' <=> NullTaken
      BY <2>1 DEF NullTaken
    <3> QED
      BY <1>0, <1>2, <2>1, <2>2, <3>1, TakenStill DEF AudioMoves
  <2> QED
    BY <2>1, <2>3, <2>4 DEF MixerLine
<1>3. CASE WaitForVideo
  <2>1. UNCHANGED audioVars
    BY <1>3 DEF WaitForVideo
  <2> QED
    BY <1>0, <1>3, <2>1, AudioLineStays, AudioStays DEF AudioMoves
<1>4. CASE FollowAbsolute
  <2>1. /\ mixer = "eof" /\ mixer' = "poll"
        /\ UNCHANGED <<sound, avail, chunk, channel, audioEof, heard>>
    BY <1>4 DEF FollowAbsolute
  <2>2. Handed' = Handed
    BY <2>1 DEF Handed, InChannel
  <2>3. ChannelLine'
    BY <2>1, <2>2 DEF ChannelLine
  <2>4. \E f \in 0 .. Total("audio") : AudioTaken(f)'
    <3>1. NullTaken' <=> NullTaken
      BY <2>1 DEF NullTaken
    <3> QED
      BY <1>0, <1>4, <2>1, <2>2, <3>1, TakenStill DEF AudioMoves
  <2> QED
    BY <2>1, <2>3, <2>4 DEF MixerLine
<1> QED
  BY <1>0, <1>1, <1>2, <1>3, <1>4, MixerTakesFrame, MixerFillsChunk, MixerFlushes, MixerDrains
  DEF MixerRun, MixerStep

-----------------------------------------------------------------------------
(* The reader *)

LEMMA ReadingHolds ==
  ASSUME PInv, Reading, [Next]_vars
  PROVE  Reading'
<1>1. CASE UNCHANGED <<reader, eof, pos, toWrite>>
  BY <1>1 DEF Reading, Looping
<1>2. CASE reader' \notin {"loop", "read", "write"}
  BY <1>2 DEF Reading, Looping
<1>3. CASE OpenStreams \/ Restart
  <2>1. reader' = "loop" /\ eof' = FALSE
    BY <1>3 DEF OpenStreams, Restart, BeginPass
  <2> QED
    BY <2>1 DEF Reading
<1>4. CASE LoopTop
  <2>1. /\ reader = "loop" /\ ((reader' = "read" /\ ~eof) \/ reader' = "closeDecoder")
        /\ UNCHANGED <<eof, pos, toWrite>>
    BY <1>4 DEF LoopTop
  <2> QED
    BY <2>1 DEF Reading, Looping
<1>5. CASE ReadPacket
  <2>1. /\ reader = "read" /\ eof' = eof /\ ~eof /\ pos \in 1 .. Len(File)
        /\ reader' \in {"loop", "write"}
        /\ reader' = "write" => toWrite' = << <<File[pos].stream, File[pos].pts>> >>
    BY <1>5, FileTimes DEF ReadPacket, Reading, PInv, ReaderOK
  <2>2. File[pos].stream \in Streams /\ File[pos].pts \in Times(File[pos].stream)
    BY <2>1, FileTimes
  <2> QED
    BY <2>1, <2>2 DEF Reading
<1>6. CASE ReadEof
  <2>1. /\ eof' = TRUE /\ pos' = pos /\ pos = Len(File) + 1 /\ reader' = "write"
        /\ toWrite' = << <<"video", Null>>, <<"audio", Null>> >>
    BY <1>6, FileTimes DEF ReadEof, PInv, ReaderOK
  <2> QED
    BY <2>1 DEF Reading
<1>7. CASE WritePacket
  <2>1. /\ reader = "write" /\ UNCHANGED <<eof, pos>>
        /\ \/ reader' = "loop"
           \/ reader' = "write" /\ eof /\ toWrite' = << <<"audio", Null>> >>
    BY <1>7, Written DEF WritePacket
  <2> QED
    BY <2>1 DEF Reading, Looping
<1>8. ASSUME ReaderStep PROVE Reading'
  <2>1. OpenFails \/ ReadFails \/ CloseDecoder \/ JoinDecoder \/ JoinDisplay
          => reader' \notin {"loop", "read", "write"}
    BY DEF OpenFails, ReadFails, CloseDecoder, JoinDecoder, JoinDisplay
  <2> QED
    BY <1>2, <1>3, <1>4, <1>5, <1>6, <1>7, <1>8, <2>1 DEF ReaderStep
<1>9. start => reader' \notin {"loop", "read", "write"}
  BY DEF start
<1>10. ASSUME setIsPaused \/ stop \/ StopReturns \/ (\E s \in Streams : DecoderRun(s))
                \/ DisplayRun \/ MixerRun \/ CallbackRun \/ Tick \/ UNCHANGED vars
       PROVE  UNCHANGED <<reader, eof, pos, toWrite>>
  BY <1>10 DEF setIsPaused, stop, StopReturns, DecoderRun, DisplayRun, MixerRun, CallbackRun,
               Tick, vars, playVars
<1> QED
  BY <1>1, <1>2, <1>8, <1>9, <1>10 DEF Next

LEMMA HandledElsewhere ==
  ASSUME PInv, Handled, Elsewhere
  PROVE  Handled'
<1>1. UNCHANGED <<opened, display, mixer, videoEof, audioEof, heard>> /\ (Looping' => Looping)
  BY DEF Elsewhere, start, setIsPaused, stop, StopReturns, LoopTop, ReadPacket, ReadEof,
         ReadFails, WritePacket, CloseDecoder, JoinDecoder, JoinDisplay, DecoderRun, Tick, vars,
         playVars, videoVars, audioVars, Looping
<1>2. Looping' => alive' = alive /\ channel' = channel
  BY DEF Elsewhere, start, setIsPaused, stop, StopReturns, LoopTop, ReadPacket, ReadEof,
         ReadFails, WritePacket, CloseDecoder, JoinDecoder, JoinDisplay, DecoderRun, DecoderStep,
         DecoderEnd, SendPacket, ReceiveFrame, PacketDone, OnFrame, Tick, vars,
         playVars, videoVars, audioVars, decoderVars, Looping
<1>3. ASSUME NEW s \in Streams, decoder'[s] # "none"
      PROVE  decoder[s] # "none" /\ alive'[s] = alive[s]
  <2>1. CASE JoinDecoder
    <3>1. decoder' = decoder /\ decoder[closing[1]] = "none"
          /\ alive' = [alive EXCEPT ![closing[1]] = FALSE]
      BY <2>1 DEF JoinDecoder
    <3> QED
      BY <1>3, <3>1 DEF PInv, DecodersOK
  <2>2. ASSUME NEW t \in Streams, DecoderRun(t)
        PROVE  decoder[s] # "none" /\ alive'[s] = alive[s]
    <3>1. alive' = alive /\ decoder[t] # "none" /\ (t # s => decoder'[s] = decoder[s])
      BY <2>2 DEF DecoderRun, DecoderStep, DecoderEnd, SendPacket, ReceiveFrame, PacketDone,
                  OnFrame, PInv, DecodersOK
    <3> QED
      BY <1>3, <3>1
  <2>3. CASE ~JoinDecoder /\ ~(\E t \in Streams : DecoderRun(t))
    <3>1. UNCHANGED <<decoder, alive>>
      BY <2>3 DEF Elsewhere, start, setIsPaused, stop, StopReturns, LoopTop, ReadPacket, ReadEof,
           ReadFails, WritePacket, CloseDecoder, JoinDisplay, Tick, vars, decoderVars
    <3> QED
      BY <1>3, <3>1
  <2> QED
    BY <2>1, <2>2, <2>3
<1> QED
  BY <1>1, <1>2, <1>3 DEF Handled, Ended, EofOf

LEMMA HandledOpened ==
  ASSUME PInv, Handled, OpenFails \/ OpenStreams
  PROVE  Handled'
<1>0. reader = "open" /\ Streams = {"video", "audio"}
  BY PlayAssumption DEF OpenFails, OpenStreams
<1>1. channel = << >> /\ \A s \in Streams : decoder[s] = "none"
  BY <1>0 DEF PInv, Closing, Closed
<1>2. CASE OpenFails
  <2>1. ~Looping' /\ decoder' = decoder
    BY <1>2 DEF OpenFails, Looping, decoderVars
  <2> QED
    BY <1>1, <2>1 DEF Handled
<1>3. CASE OpenStreams
  <2>1. /\ videoEof' = FALSE /\ audioEof' = FALSE /\ heard' = << >> /\ channel' = channel
    BY <1>3 DEF OpenStreams, OpenAudio, BeginPass
  <2>2. ASSUME NEW s \in Streams, ~Ended(s)' PROVE alive'[s] = TRUE /\ s \in opened'
    <3>1. PICK v \in VideoOpens, a \in AudioOpens :
            LET outcome == [x \in Streams |-> IF x = "video" THEN v ELSE a] IN
            /\ opened' = {x \in Streams : outcome[x] \in {"open", "noSDL"}}
            /\ OpenVideo(v) /\ OpenAudio(a)
            /\ alive' = [x \in Streams |-> outcome[x] = "open" \/ alive[x]]
      BY <1>3 DEF OpenStreams
    <3>2. CASE s = "video"
      <4>1. v = "open"
        BY <2>2, <3>1, <3>2 DEF OpenVideo, Ended
      <4> QED
        BY <3>1, <3>2, <4>1
    <3>3. CASE s = "audio"
      <4>1. a = "open"
        BY <2>2, <3>1, <3>3 DEF OpenAudio, Ended
      <4> QED
        BY <3>1, <3>3, <4>1
    <3> QED
      BY <1>0, <3>2, <3>3
  <2> QED
    BY <1>1, <2>1, <2>2 DEF Handled, EofOf
<1> QED
  BY <1>2, <1>3

LEMMA HandledRuns ==
  ASSUME PInv, Handled, Restart \/ DisplayRun \/ MixerRun \/ CallbackRun
  PROVE  Handled'
<1>0. /\ UNCHANGED <<reader, opened, alive, decoder>> /\ (Looping' <=> Looping)
      /\ Streams = {"video", "audio"}
  BY PlayAssumption
     DEF Restart, DisplayRun, DisplayStep, DisplayEnd, TakeVideoFrame, ConsiderFrame,
         MixerRun, MixerStep, MixerEnd, TakeAudioFrame, BeginChunk, WaitForVideo, FillChunk,
         FlushChunk, DrainChannel, FollowAbsolute, CallbackRun, audioCallback, playVars,
         decoderVars, Looping
<1>1. CASE Restart
  <2>1. /\ videoEof' = FALSE /\ audioEof' = FALSE /\ heard' = << >>
        /\ UNCHANGED <<channel, display, mixer>>
    BY <1>1 DEF Restart, BeginPass
  <2> QED
    BY <1>0, <2>1 DEF Handled, Ended, EofOf
<1>2. CASE DisplayRun
  <2>1. /\ display # "none" /\ (display' = "none" => ~alive["video"])
        /\ UNCHANGED <<mixer, channel, audioEof, heard>>
    BY <1>2 DEF DisplayRun, DisplayStep, DisplayEnd, TakeVideoFrame, ConsiderFrame, audioVars
  <2>2. Ended("video")' => ~alive["video"]
    BY <2>1 DEF Ended
  <2>3. ~Ended("video") /\ (Ended("audio")' <=> Ended("audio"))
    BY <2>1 DEF Ended
  <2>4. Looping' => ~Ended("video")'
    BY <1>0, <2>2, <2>3 DEF Handled
  <2>5. EofOf("audio")' = EofOf("audio")
    BY <2>1 DEF EofOf
  <2> QED
    BY <1>0, <2>1, <2>3, <2>4, <2>5 DEF Handled
<1>3. CASE MixerRun
  <2>1. /\ mixer # "none" /\ (mixer' = "none" => ~alive["audio"])
        /\ UNCHANGED <<display, videoEof>>
    BY <1>3 DEF MixerRun, MixerStep, MixerEnd, TakeAudioFrame, BeginChunk, WaitForVideo,
                FillChunk, FlushChunk, DrainChannel, FollowAbsolute, videoVars, audioVars
  <2>2. Ended("audio")' => ~alive["audio"]
    BY <2>1 DEF Ended
  <2>3. ~Ended("audio") /\ (Ended("video")' <=> Ended("video"))
    BY <2>1 DEF Ended
  <2>4. Looping' => ~Ended("audio")'
    BY <1>0, <2>2, <2>3 DEF Handled
  <2>5. EofOf("video")' = EofOf("video")
    BY <2>1 DEF EofOf
  <2>6. Looping' => mixer' # "none"
    BY <2>4 DEF Ended
  <2> QED
    BY <1>0, <2>3, <2>4, <2>5, <2>6 DEF Handled
<1>4. CASE CallbackRun
  <2>1. channel # << >> /\ UNCHANGED <<mixer, display, videoEof, audioEof>>
    BY <1>4 DEF CallbackRun, audioCallback, videoVars
  <2>2. ~(Looping /\ mixer = "none")
    BY <2>1 DEF Handled
  <2> QED
    BY <1>0, <2>1, <2>2 DEF Handled, Ended, EofOf
<1> QED
  BY <1>1, <1>2, <1>3, <1>4

-----------------------------------------------------------------------------
(* What is allocated *)

LEMMA HeldIs ==
  ASSUME PInv, NEW s \in Streams
  PROVE  /\ PacketHeld(s) \in Nat /\ WriteHeld(s) \in Nat
         /\ FrameHeld(s) \in Nat /\ OwnerHeld(s) \in Nat
         /\ Count(packetQueue[s]) \in Nat /\ Count(frameQueue[s]) \in Nat
<1>1. /\ PacketHeld(s) \in Nat /\ WriteHeld(s) \in Nat
      /\ FrameHeld(s) \in Nat /\ OwnerHeld(s) \in Nat
  BY DEF PacketHeld, WriteHeld, FrameHeld, OwnerHeld, Bit
<1>2. packetQueue[s] \in Seq(Elems(s)) /\ frameQueue[s] \in Seq(Elems(s))
  BY DEF PInv, DecodersOK, PacketsOK, FramesOK
<1> QED
  BY <1>1, <1>2, CountIs

LEMMA AccountStays ==
  ASSUME NEW s, Account(s),
         /\ livePackets'[s] = livePackets[s] /\ liveFrames'[s] = liveFrames[s]
         /\ packetQueue'[s] = packetQueue[s] /\ frameQueue'[s] = frameQueue[s]
         /\ decoder'[s] = decoder[s] /\ packet'[s] = packet[s] /\ frame'[s] = frame[s],
         WriteHeld(s)' = WriteHeld(s), OwnerHeld(s)' = OwnerHeld(s)
  PROVE  Account(s)'
BY DEF Account, PacketHeld, FrameHeld

(* A step that leaves the queues, the decoders and what the others hold    *)
(* alone.                                                                  *)
LEMMA AccountsStay ==
  ASSUME Accounts,
         UNCHANGED <<livePackets, liveFrames, packetQueue, frameQueue, decoder, packet, frame>>,
         \A s \in Streams : WriteHeld(s)' = WriteHeld(s),
         \A s \in Streams : OwnerHeld(s)' = OwnerHeld(s)
  PROVE  Accounts'
BY AccountStays DEF Accounts

LEMMA AccountsUndisturbed ==
  ASSUME PInv, Accounts,
         \/ start \/ setIsPaused \/ stop \/ StopReturns \/ OpenFails \/ LoopTop \/ ReadEof
         \/ ReadFails \/ Restart \/ CloseDecoder \/ CallbackRun \/ Tick \/ UNCHANGED vars
  PROVE  Accounts'
<1>1. UNCHANGED <<livePackets, liveFrames, packetQueue, frameQueue, decoder, packet, frame,
                  display, mixer>>
  BY DEF start, setIsPaused, stop, StopReturns, OpenFails, LoopTop, ReadEof, ReadFails, Restart,
         CloseDecoder, CallbackRun, audioCallback, Tick, vars, decoderVars, videoVars, audioVars
<1>2. \A s \in Streams : OwnerHeld(s)' = OwnerHeld(s)
  BY <1>1 DEF OwnerHeld
<1>3. \A s \in Streams : WriteHeld(s)' = WriteHeld(s)
  <2>1. CASE UNCHANGED <<reader, toWrite>>
    BY <2>1 DEF WriteHeld
  <2>2. CASE reader # "write" /\ reader' # "write"
    BY <2>2 DEF WriteHeld, Bit
  <2>3. CASE ReadEof
    <3>1. /\ reader # "write"
          /\ \A i \in DOMAIN toWrite' : toWrite'[i][2] = Null
      BY <2>3 DEF ReadEof
    <3> QED
      BY <3>1 DEF WriteHeld, Bit
  <2>4. ReadEof \/ UNCHANGED <<reader, toWrite>> \/ (reader # "write" /\ reader' # "write")
    BY DEF start, setIsPaused, stop, StopReturns, OpenFails, LoopTop, ReadFails, Restart,
           CloseDecoder, CallbackRun, Tick, vars, playVars, PInv, Closing
  <2> QED
    BY <2>1, <2>2, <2>3, <2>4
<1> QED
  BY <1>1, <1>2, <1>3, AccountsStay

LEMMA AccountsOpened ==
  ASSUME PInv, Accounts, OpenStreams
  PROVE  Accounts'
<1>0. /\ reader = "open" /\ reader' = "loop" /\ Streams = {"video", "audio"}
      /\ UNCHANGED <<livePackets, liveFrames, packetQueue, frameQueue, packet, frame>>
      /\ \A s \in Streams : decoder'[s] \in {"none", "poll"}
      /\ display' \in {"none", "poll"} /\ mixer' \in {"none", "poll"}
  BY PlayAssumption DEF OpenStreams, Open, OpenVideo, OpenAudio
<1>1. display = "none" /\ mixer = "none" /\ \A s \in Streams : decoder[s] = "none"
  BY <1>0 DEF PInv, Closing, Closed, Ended
<1>2. ASSUME NEW s \in Streams PROVE Account(s)'
  <2>1. /\ PacketHeld(s) = 0 /\ WriteHeld(s) = 0 /\ FrameHeld(s) = 0 /\ OwnerHeld(s) = 0
    BY <1>0, <1>1 DEF PacketHeld, WriteHeld, FrameHeld, OwnerHeld, Bit
  <2>2. /\ PacketHeld(s)' = 0 /\ WriteHeld(s)' = 0 /\ FrameHeld(s)' = 0 /\ OwnerHeld(s)' = 0
    BY <1>0 DEF PacketHeld, WriteHeld, FrameHeld, OwnerHeld, Bit
  <2>3. Account(s)
    BY DEF Accounts
  <2> QED
    BY <1>0, <2>1, <2>2, <2>3 DEF Account
<1> QED
  BY <1>0, <1>2 DEF Accounts

LEMMA AccountsRead ==
  ASSUME PInv, Accounts, ReadPacket
  PROVE  Accounts'
<1>0. /\ reader = "read" /\ pos \in 1 .. Len(File)
      /\ UNCHANGED <<packetQueue, frameQueue, decoder, packet, frame, liveFrames, display, mixer>>
  BY FileTimes DEF ReadPacket, PInv, ReaderOK, videoVars, audioVars
<1>t. PICK t \in Streams : t = File[pos].stream
  BY <1>0, FileTimes
<1>p. PICK p \in Times(t) : p = File[pos].pts
  BY <1>0, <1>t, FileTimes
<1>1. \A s \in Streams : OwnerHeld(s)' = OwnerHeld(s) /\ WriteHeld(s) = 0
  BY <1>0 DEF OwnerHeld, WriteHeld, Bit
<1>2. CASE t \notin opened
  <2>1. reader' = "loop" /\ UNCHANGED livePackets
    BY <1>2, <1>t DEF ReadPacket
  <2>2. \A s \in Streams : WriteHeld(s)' = WriteHeld(s)
    BY <1>1, <2>1 DEF WriteHeld, Bit
  <2> QED
    BY <1>0, <1>1, <2>1, <2>2, AccountsStay
<1>3. CASE t \in opened
  <2>1. /\ reader' = "write" /\ toWrite' = << <<t, p>> >>
        /\ livePackets' = [livePackets EXCEPT ![t] = @ + 1]
    BY <1>3, <1>t, <1>p DEF ReadPacket
  <2>2. ASSUME NEW s \in Streams PROVE Account(s)'
    <3>1. \A i \in DOMAIN toWrite' : toWrite'[i] = <<t, p>>
      BY <2>1
    <3>2. CASE s = t
      <4>1. 1 \in DOMAIN toWrite' /\ p # Null
        BY <2>1, LineIs
      <4>2. WriteHeld(s)' = 1
        BY <2>1, <3>1, <3>2, <4>1 DEF WriteHeld, Bit
      <4>3. livePackets'[s] = livePackets[s] + 1
        BY <2>1, <3>2 DEF Accounts
      <4>4. PacketHeld(s)' = PacketHeld(s) /\ FrameHeld(s)' = FrameHeld(s)
        BY <1>0 DEF PacketHeld, FrameHeld
      <4>5. Account(s) /\ Count(packetQueue[s]) \in Nat /\ PacketHeld(s) \in Nat
        BY HeldIs DEF Accounts
      <4>6. livePackets[s] = Count(packetQueue[s]) + PacketHeld(s) + 0
        BY <1>1, <4>5 DEF Account
      <4>7. livePackets'[s] = Count(packetQueue[s]) + PacketHeld(s) + 1
        BY <4>3, <4>5, <4>6
      <4> QED
        BY <1>0, <1>1, <4>2, <4>4, <4>5, <4>7 DEF Account
    <3>3. CASE s # t
      <4>1. WriteHeld(s)' = 0
        BY <3>1, <3>3 DEF WriteHeld, Bit
      <4>2. livePackets'[s] = livePackets[s] /\ Account(s)
        BY <2>1, <3>3 DEF Accounts
      <4> QED
        BY <1>0, <1>1, <4>1, <4>2, AccountStays
    <3> QED
      BY <3>2, <3>3
  <2> QED
    BY <1>0, <2>1, <2>2 DEF Accounts
<1> QED
  BY <1>2, <1>3

LEMMA AccountsWritten ==
  ASSUME PInv, Reading, Accounts, WritePacket
  PROVE  Accounts'
<1>0. /\ UNCHANGED <<livePackets, liveFrames, frameQueue, decoder, packet, frame, display, mixer>>
      /\ DOMAIN packetQueue = Streams
  BY DEF WritePacket, videoVars, audioVars, PInv, DecodersOK
<1>t. PICK t \in Streams : \E p \in Elems(t) :
        /\ toWrite[1] = <<t, p>> /\ packetQueue' = [packetQueue EXCEPT ![t] = Append(@, p)]
        /\ reader = "write"
        /\ \/ toWrite = << <<t, p>> >> /\ toWrite' = << >> /\ reader' = "loop"
           \/ /\ t = "video" /\ p = Null /\ eof /\ reader' = "write"
              /\ toWrite = << <<"video", Null>>, <<"audio", Null>> >>
              /\ toWrite' = << <<"audio", Null>> >>
  BY Written
<1>p. PICK p \in Elems(t) :
        /\ toWrite[1] = <<t, p>> /\ packetQueue' = [packetQueue EXCEPT ![t] = Append(@, p)]
        /\ reader = "write"
        /\ \/ toWrite = << <<t, p>> >> /\ toWrite' = << >> /\ reader' = "loop"
           \/ /\ t = "video" /\ p = Null /\ eof /\ reader' = "write"
              /\ toWrite = << <<"video", Null>>, <<"audio", Null>> >>
              /\ toWrite' = << <<"audio", Null>> >>
  BY <1>t
<1>1. \A s \in Streams : OwnerHeld(s)' = OwnerHeld(s)
  BY <1>0 DEF OwnerHeld
<1>2. \A s \in Streams : WriteHeld(s)' = 0
  <2>1. reader' = "write" => \A i \in DOMAIN toWrite' : toWrite'[i][2] = Null
    BY <1>p
  <2> QED
    BY <2>1 DEF WriteHeld, Bit
<1>3. \A s \in Streams : WriteHeld(s) = IF s = t THEN Bit(p # Null) ELSE 0
  <2>1. CASE toWrite = << <<t, p>> >>
    <3>1. 1 \in DOMAIN toWrite /\ \A i \in DOMAIN toWrite : toWrite[i] = <<t, p>>
      BY <2>1
    <3> QED
      BY <1>p, <3>1 DEF WriteHeld, Bit
  <2>2. CASE p = Null /\ toWrite = << <<"video", Null>>, <<"audio", Null>> >>
    <3>1. \A i \in DOMAIN toWrite : toWrite[i][2] = Null
      BY <2>2
    <3> QED
      BY <2>2, <3>1 DEF WriteHeld, Bit
  <2> QED
    BY <1>p, <2>1, <2>2
<1>4. ASSUME NEW s \in Streams PROVE Account(s)'
  <2>0. Account(s) /\ Count(packetQueue[s]) \in Nat /\ PacketHeld(s) \in Nat
    BY HeldIs DEF Accounts
  <2>1. CASE s = t
    <3>1. packetQueue'[s] = Append(packetQueue[s], p) /\ packetQueue[s] \in Seq(Elems(s))
      BY <1>0, <1>p, <2>1 DEF PInv, DecodersOK, PacketsOK
    <3>2. Count(packetQueue'[s]) = Count(packetQueue[s]) + Bit(p # Null)
      BY <2>1, <3>1, CountOneMore
    <3>3. PacketHeld(s)' = PacketHeld(s) /\ FrameHeld(s)' = FrameHeld(s)
      BY <1>0 DEF PacketHeld, FrameHeld
    <3>4. livePackets[s] = Count(packetQueue[s]) + PacketHeld(s) + Bit(p # Null)
      BY <1>3, <2>0, <2>1 DEF Account
    <3>5. Bit(p # Null) \in Nat
      BY DEF Bit
    <3>6. livePackets[s] = Count(packetQueue'[s]) + PacketHeld(s)' + WriteHeld(s)'
      BY <1>2, <2>0, <3>2, <3>3, <3>4, <3>5
    <3> QED
      BY <1>0, <1>1, <2>0, <3>3, <3>6 DEF Account
  <2>2. CASE s # t
    <3>1. packetQueue'[s] = packetQueue[s] /\ WriteHeld(s)' = WriteHeld(s)
      BY <1>0, <1>2, <1>3, <1>p, <2>2
    <3> QED
      BY <1>0, <1>1, <2>0, <3>1, AccountStays
  <2> QED
    BY <2>1, <2>2
<1> QED
  BY <1>0, <1>4 DEF Accounts

(* Closing a stream frees what is left in its queues. *)
LEMMA AccountsClosed ==
  ASSUME PInv, Accounts, JoinDecoder \/ JoinDisplay
  PROVE  Accounts'
<1>0. /\ reader \in {"joinDecoder", "joinDisplay"} /\ reader' \in {"joinDisplay", "closeDecoder", "none"}
      /\ UNCHANGED <<decoder, packet, frame, display, mixer>>
      /\ DOMAIN packetQueue = Streams /\ DOMAIN frameQueue = Streams
  BY DEF JoinDecoder, JoinDisplay, videoVars, audioVars, PInv, DecodersOK
<1>c. PICK t : t = closing[1]
  OBVIOUS
<1>1. \A s \in Streams : /\ OwnerHeld(s)' = OwnerHeld(s) /\ WriteHeld(s)' = WriteHeld(s)
                         /\ PacketHeld(s)' = PacketHeld(s) /\ FrameHeld(s)' = FrameHeld(s)
  BY <1>0 DEF OwnerHeld, WriteHeld, PacketHeld, FrameHeld, Bit
<1>2. ASSUME NEW s \in Streams PROVE Account(s)'
  <2>0. /\ Account(s) /\ Count(packetQueue[s]) \in Nat /\ Count(frameQueue[s]) \in Nat
        /\ PacketHeld(s) \in Nat /\ WriteHeld(s) \in Nat
        /\ FrameHeld(s) \in Nat /\ OwnerHeld(s) \in Nat
    BY HeldIs DEF Accounts
  <2>1. CASE JoinDecoder /\ s = t
    <3>1. /\ livePackets'[s] = livePackets[s] - Count(packetQueue[s])
          /\ packetQueue'[s] = << >> /\ UNCHANGED <<liveFrames, frameQueue>>
      BY <1>0, <1>c, <2>1 DEF JoinDecoder, Accounts
    <3>2. Count(packetQueue'[s]) = 0
      BY <3>1, CountNothing
    <3>3. livePackets'[s] = 0 + PacketHeld(s) + WriteHeld(s)
      BY <2>0, <3>1 DEF Account
    <3> QED
      BY <1>0, <1>1, <2>0, <3>1, <3>2, <3>3 DEF Account
  <2>2. CASE JoinDisplay /\ s = t
    <3>1. /\ liveFrames'[s] = liveFrames[s] - Count(frameQueue[s])
          /\ frameQueue'[s] = << >> /\ UNCHANGED <<livePackets, packetQueue>>
      BY <1>0, <1>c, <2>2 DEF JoinDisplay, Accounts
    <3>2. Count(frameQueue'[s]) = 0
      BY <3>1, CountNothing
    <3>3. liveFrames'[s] = 0 + FrameHeld(s) + OwnerHeld(s)
      BY <2>0, <3>1 DEF Account
    <3> QED
      BY <1>0, <1>1, <2>0, <3>1, <3>2, <3>3 DEF Account
  <2>3. CASE s # t
    <3>1. /\ livePackets'[s] = livePackets[s] /\ liveFrames'[s] = liveFrames[s]
          /\ packetQueue'[s] = packetQueue[s] /\ frameQueue'[s] = frameQueue[s]
      BY <1>0, <1>c, <2>3 DEF JoinDecoder, JoinDisplay, Accounts
    <3> QED
      BY <1>0, <1>1, <2>0, <3>1, AccountStays
  <2> QED
    BY <2>1, <2>2, <2>3
<1>3. DOMAIN livePackets' = Streams /\ DOMAIN liveFrames' = Streams
  BY DEF JoinDecoder, JoinDisplay, Accounts
<1> QED
  BY <1>2, <1>3 DEF Accounts

(* The decoder hands on what it takes, or frees it. *)
LEMMA AccountsDecoded ==
  ASSUME PInv, Accounts, NEW s \in Streams, DecoderRun(s)
  PROVE  Accounts'
<1>0. /\ UNCHANGED <<reader, toWrite, display, mixer>>
      /\ DOMAIN livePackets = Streams /\ DOMAIN liveFrames = Streams /\ DecodersOK
      /\ packetQueue[s] \in Seq(Elems(s)) /\ frameQueue[s] \in Seq(Elems(s))
      /\ codec[s] \in Seq(Times(s)) /\ frame[s] \in Elems(s)
  BY DEF DecoderRun, playVars, videoVars, audioVars, Accounts, PInv, DecodersOK, PacketsOK,
         FramesOK, CodecOK
<1>w. \A t \in Streams : WriteHeld(t)' = WriteHeld(t) /\ OwnerHeld(t)' = OwnerHeld(t)
  BY <1>0 DEF WriteHeld, OwnerHeld
<1>1. /\ DOMAIN livePackets' = Streams /\ DOMAIN liveFrames' = Streams
      /\ \A t \in Streams \ {s} :
           /\ livePackets'[t] = livePackets[t] /\ liveFrames'[t] = liveFrames[t]
           /\ packetQueue'[t] = packetQueue[t] /\ frameQueue'[t] = frameQueue[t]
           /\ decoder'[t] = decoder[t] /\ packet'[t] = packet[t] /\ frame'[t] = frame[t]
  BY <1>0 DEF DecodersOK, DecoderRun, DecoderStep, DecoderEnd, SendPacket, ReceiveFrame,
              PacketDone, OnFrame
<1>2. ASSUME NEW t \in Streams, t # s PROVE Account(t)'
  BY <1>w, <1>1, <1>2, AccountStays DEF Accounts
<1>p. PICK np \in Nat : np = Count(packetQueue[s])
  BY HeldIs
<1>f. PICK nf \in Nat : nf = Count(frameQueue[s])
  BY HeldIs
<1>x. PICK w \in Nat : w = WriteHeld(s)
  BY HeldIs
<1>y. PICK o \in Nat : o = OwnerHeld(s)
  BY HeldIs
<1>a. /\ livePackets[s] = np + PacketHeld(s) + w
      /\ liveFrames[s] = nf + FrameHeld(s) + o
      /\ decoder[s] = "emit" /\ frame[s] = Null => packet[s] = Null
  BY <1>p, <1>f, <1>x, <1>y DEF Accounts, Account
<1>b. ASSUME livePackets'[s] = Count(packetQueue'[s]) + PacketHeld(s)' + w,
             liveFrames'[s] = Count(frameQueue'[s]) + FrameHeld(s)' + o,
             decoder'[s] = "emit" /\ frame'[s] = Null => packet'[s] = Null
      PROVE  Account(s)'
  BY <1>b, <1>w, <1>x, <1>y DEF Account
<1>3. CASE DecoderEnd(s)
  <2>1. /\ decoder[s] = "poll" /\ decoder'[s] = "none"
        /\ UNCHANGED <<packetQueue, frameQueue, livePackets, liveFrames>>
    BY <1>0, <1>3 DEF DecoderEnd, DecodersOK
  <2>2. PacketHeld(s) = 0 /\ FrameHeld(s) = 0 /\ PacketHeld(s)' = 0 /\ FrameHeld(s)' = 0
    BY <2>1 DEF PacketHeld, FrameHeld, Bit
  <2>3. Account(s)'
    BY <1>a, <1>b, <1>p, <1>f, <2>1, <2>2
  <2> QED
    BY <1>1, <1>2, <2>3 DEF Accounts
<1>4. CASE SendPacket(s)
  <2>1. /\ decoder[s] = "poll" /\ decoder'[s] = "receive" /\ packetQueue[s] # << >>
        /\ packet'[s] = Head(packetQueue[s]) /\ packetQueue'[s] = Tail(packetQueue[s])
        /\ UNCHANGED <<frameQueue, livePackets, liveFrames>>
    BY <1>0, <1>4 DEF SendPacket, DecodersOK
  <2>2. PacketHeld(s) = 0 /\ FrameHeld(s) = 0 /\ FrameHeld(s)' = 0
    BY <2>1 DEF PacketHeld, FrameHeld, Bit
  <2>3. PacketHeld(s)' = Bit(Head(packetQueue[s]) # Null)
    BY <2>1 DEF PacketHeld, Bit
  <2>4. np = Count(packetQueue'[s]) + PacketHeld(s)'
    BY <1>0, <1>p, <2>1, <2>3, CountWithoutHead
  <2>5. livePackets'[s] = Count(packetQueue'[s]) + PacketHeld(s)' + w
    <3>1. livePackets'[s] = np + 0 + w
      BY <1>a, <2>1, <2>2
    <3> QED
      BY <2>4, <3>1
  <2>6. liveFrames'[s] = Count(frameQueue'[s]) + FrameHeld(s)' + o
    BY <1>a, <1>f, <2>1, <2>2
  <2>7. Account(s)'
    BY <1>b, <2>1, <2>5, <2>6
  <2> QED
    BY <1>1, <1>2, <2>7 DEF Accounts
<1>5. CASE ReceiveFrame(s)
  <2>1. /\ decoder[s] = "receive" /\ decoder'[s] = "emit" /\ FrameReady(s)
        /\ frame'[s] = Head(codec[s]) /\ liveFrames'[s] = liveFrames[s] + 1
        /\ UNCHANGED <<packetQueue, frameQueue, packet, livePackets>>
    BY <1>0, <1>5 DEF ReceiveFrame, DecodersOK
  <2>2. frame'[s] # Null
    <3>1. codec[s] # << >>
      <4>1. Len(codec[s]) > 0
        BY <1>0, <2>1, LenProperties, PlayAssumption DEF FrameReady
      <4> QED
        BY <4>1, EmptySeq
    <3>2. Head(codec[s]) \in Times(s)
      BY <1>0, <3>1, HeadAndTail
    <3> QED
      BY <2>1, <3>2, LineIs
  <2>3. PacketHeld(s)' = PacketHeld(s) /\ FrameHeld(s) = 0 /\ FrameHeld(s)' = 1
    BY <2>1, <2>2 DEF PacketHeld, FrameHeld, Bit
  <2>4. liveFrames'[s] = Count(frameQueue'[s]) + FrameHeld(s)' + o
    <3>1. liveFrames'[s] = (nf + 0 + o) + 1
      BY <1>a, <2>1, <2>3
    <3> QED
      BY <1>f, <2>1, <2>3, <3>1
  <2>5. livePackets'[s] = Count(packetQueue'[s]) + PacketHeld(s)' + w
    BY <1>a, <1>p, <2>1, <2>3
  <2>6. Account(s)'
    BY <1>b, <2>2, <2>4, <2>5
  <2> QED
    BY <1>1, <1>2, <2>6 DEF Accounts
<1>6. CASE PacketDone(s)
  <2>0. decoder[s] = "receive" /\ UNCHANGED <<packetQueue, frameQueue, liveFrames>>
    BY <1>6 DEF PacketDone
  <2>1. ASSUME packet[s] = Null PROVE Account(s)'
    <3>1. decoder'[s] = "emit" /\ frame'[s] = Null /\ packet' = packet /\ livePackets' = livePackets
      BY <1>0, <1>6, <2>1 DEF PacketDone, DecodersOK
    <3>2. PacketHeld(s) = 0 /\ PacketHeld(s)' = 0 /\ FrameHeld(s) = 0 /\ FrameHeld(s)' = 0
      BY <2>0, <2>1, <3>1 DEF PacketHeld, FrameHeld, Bit
    <3> QED
      BY <1>a, <1>b, <1>p, <1>f, <2>0, <2>1, <3>1, <3>2
  <2>2. ASSUME packet[s] # Null PROVE Account(s)'
    <3>1. decoder'[s] = "poll" /\ livePackets'[s] = livePackets[s] - 1
      BY <1>0, <1>6, <2>2 DEF PacketDone, DecodersOK
    <3>2. PacketHeld(s) = 1 /\ PacketHeld(s)' = 0 /\ FrameHeld(s) = 0 /\ FrameHeld(s)' = 0
      BY <2>0, <2>2, <3>1 DEF PacketHeld, FrameHeld, Bit
    <3>3. livePackets'[s] = Count(packetQueue'[s]) + PacketHeld(s)' + w
      <4>1. livePackets'[s] = (np + 1 + w) - 1
        BY <1>a, <3>1, <3>2
      <4> QED
        BY <1>p, <2>0, <3>2, <4>1
    <3>4. liveFrames'[s] = Count(frameQueue'[s]) + FrameHeld(s)' + o
      BY <1>a, <1>f, <2>0, <3>2
    <3> QED
      BY <1>b, <3>1, <3>3, <3>4
  <2>3. Account(s)'
    BY <2>1, <2>2
  <2> QED
    BY <1>1, <1>2, <2>3 DEF Accounts
<1>7. CASE OnFrame(s)
  <2>0. /\ decoder[s] = "emit" /\ decoder'[s] = (IF frame[s] = Null THEN "poll" ELSE "receive")
        /\ UNCHANGED <<packetQueue, packet, livePackets>>
    BY <1>0, <1>7 DEF OnFrame, DecodersOK
  <2>1. FrameHeld(s)' = 0 /\ FrameHeld(s) = Bit(frame[s] # Null)
    BY <2>0 DEF FrameHeld, Bit
  <2>2. PacketHeld(s)' = PacketHeld(s)
    BY <1>a, <2>0 DEF PacketHeld, Bit
  <2>b. PICK x \in Nat : x = Bit(frame[s] # Null)
    BY DEF Bit
  <2>3. liveFrames'[s] = Count(frameQueue'[s]) + FrameHeld(s)' + o
    <3>0. liveFrames[s] = nf + x + o
      BY <1>a, <2>1, <2>b
    <3>1. CASE frameQueue'[s] = Append(frameQueue[s], frame[s]) /\ liveFrames' = liveFrames
      <4>1. Count(frameQueue'[s]) = nf + x
        BY <1>0, <1>f, <2>b, <3>1, CountOneMore
      <4> QED
        BY <2>1, <3>0, <3>1, <4>1
    <3>2. CASE frameQueue' = frameQueue /\ liveFrames'[s] = liveFrames[s] - x
      BY <1>f, <2>1, <3>0, <3>2
    <3>3. \/ frameQueue'[s] = Append(frameQueue[s], frame[s]) /\ liveFrames' = liveFrames
          \/ /\ frameQueue' = frameQueue
             /\ liveFrames'[s] = IF frame[s] = Null THEN liveFrames[s] ELSE liveFrames[s] - 1
      BY <1>0, <1>7 DEF OnFrame, DecodersOK
    <3>4. (IF frame[s] = Null THEN liveFrames[s] ELSE liveFrames[s] - 1) = liveFrames[s] - x
      <4>1. x = IF frame[s] = Null THEN 0 ELSE 1
        BY <2>b DEF Bit
      <4>2. liveFrames[s] \in Nat
        BY <3>0
      <4> QED
        BY <4>1, <4>2
    <3> QED
      BY <3>1, <3>2, <3>3, <3>4
  <2>4. livePackets'[s] = Count(packetQueue'[s]) + PacketHeld(s)' + w
    BY <1>a, <1>p, <2>0, <2>2
  <2>5. decoder'[s] # "emit"
    BY <2>0
  <2>6. Account(s)'
    BY <1>b, <2>3, <2>4, <2>5
  <2> QED
    BY <1>1, <1>2, <2>6 DEF Accounts
<1> QED
  BY <1>3, <1>4, <1>5, <1>6, <1>7 DEF DecoderRun, DecoderStep

(* A display coroutine holds the frame it takes until it frees it. *)
LEMMA AccountsTaken ==
  ASSUME PInv, Accounts, NEW s \in Streams, frameQueue[s] # << >>,
         frameQueue' = [frameQueue EXCEPT ![s] = Tail(@)],
         UNCHANGED <<livePackets, liveFrames, packetQueue, decoder, packet, frame, reader, toWrite>>,
         \A t \in Streams :
           OwnerHeld(t)' = OwnerHeld(t) + IF t = s THEN Bit(Head(frameQueue[s]) # Null) ELSE 0
  PROVE  Accounts'
<1>0. DOMAIN frameQueue = Streams /\ frameQueue[s] \in Seq(Elems(s))
  BY DEF PInv, DecodersOK, FramesOK
<1>w. \A t \in Streams : WriteHeld(t)' = WriteHeld(t)
  BY DEF WriteHeld
<1>1. ASSUME NEW t \in Streams, t # s PROVE Account(t)'
  <2>1. OwnerHeld(t)' = OwnerHeld(t) /\ frameQueue'[t] = frameQueue[t]
    BY <1>0, <1>1, HeldIs
  <2> QED
    BY <1>w, <2>1, AccountStays DEF Accounts
<1>2. Account(s)'
  <2>x. PICK x \in Nat : x = Bit(Head(frameQueue[s]) # Null)
    BY DEF Bit
  <2>h. PICK h \in Nat : h = FrameHeld(s)
    BY HeldIs
  <2>o. PICK o \in Nat : o = OwnerHeld(s)
    BY HeldIs
  <2>n. PICK n \in Nat : n = Count(Tail(frameQueue[s]))
    BY <1>0, HeadAndTail, CountIs
  <2>1. OwnerHeld(s)' = o + x
    BY <2>x, <2>o
  <2>2. Count(frameQueue[s]) = n + x /\ Count(frameQueue'[s]) = n
    BY <1>0, <2>n, <2>x, CountWithoutHead
  <2>3. liveFrames[s] = n + x + h + o
    BY <2>h, <2>o, <2>2 DEF Accounts, Account
  <2>4. FrameHeld(s)' = h /\ PacketHeld(s)' = PacketHeld(s)
    BY <2>h DEF FrameHeld, PacketHeld
  <2>5. liveFrames'[s] = Count(frameQueue'[s]) + FrameHeld(s)' + OwnerHeld(s)'
    <3>1. n + x + h + o = n + h + (o + x)
      OBVIOUS
    <3> QED
      BY <2>1, <2>2, <2>3, <2>4, <3>1
  <2>6. livePackets'[s] = Count(packetQueue'[s]) + PacketHeld(s)' + WriteHeld(s)'
    BY <1>w, <2>4 DEF Accounts, Account
  <2>7. decoder'[s] = "emit" /\ frame'[s] = Null => packet'[s] = Null
    BY DEF Accounts, Account
  <2> QED
    BY <2>5, <2>6, <2>7 DEF Account
<1> QED
  BY <1>1, <1>2 DEF Accounts

LEMMA AccountsFreed ==
  ASSUME PInv, Accounts, NEW s \in Streams,
         liveFrames' = [liveFrames EXCEPT ![s] = @ - 1],
         UNCHANGED <<livePackets, packetQueue, frameQueue, decoder, packet, frame, reader, toWrite>>,
         OwnerHeld(s) = 1, OwnerHeld(s)' = 0,
         \A t \in Streams \ {s} : OwnerHeld(t)' = OwnerHeld(t)
  PROVE  Accounts'
<1>w. \A t \in Streams : WriteHeld(t)' = WriteHeld(t)
  BY DEF WriteHeld
<1>1. ASSUME NEW t \in Streams, t # s PROVE Account(t)'
  BY <1>1, <1>w, AccountStays DEF Accounts
<1>2. Account(s)'
  <2>h. PICK h \in Nat : h = FrameHeld(s)
    BY HeldIs
  <2>n. PICK n \in Nat : n = Count(frameQueue[s])
    BY HeldIs
  <2>1. liveFrames[s] = n + h + 1
    BY <2>h, <2>n DEF Accounts, Account
  <2>2. liveFrames'[s] = liveFrames[s] - 1
    BY DEF Accounts
  <2>3. FrameHeld(s)' = h /\ PacketHeld(s)' = PacketHeld(s)
    BY <2>h DEF FrameHeld, PacketHeld
  <2>4. liveFrames'[s] = Count(frameQueue'[s]) + FrameHeld(s)' + OwnerHeld(s)'
    <3>1. n + h + 1 - 1 = n + h + 0
      OBVIOUS
    <3> QED
      BY <2>n, <2>1, <2>2, <2>3, <3>1
  <2>5. livePackets'[s] = Count(packetQueue'[s]) + PacketHeld(s)' + WriteHeld(s)'
    BY <1>w, <2>3 DEF Accounts, Account
  <2>6. decoder'[s] = "emit" /\ frame'[s] = Null => packet'[s] = Null
    BY DEF Accounts, Account
  <2> QED
    BY <2>4, <2>5, <2>6 DEF Account
<1> QED
  BY <1>1, <1>2 DEF Accounts

LEMMA AccountsShown ==
  ASSUME PInv, Accounts, DisplayRun
  PROVE  Accounts'
<1>0. "video" \in Streams /\ UNCHANGED <<reader, toWrite, mixer>>
  BY PlayAssumption DEF DisplayRun, playVars, audioVars
<1>1. CASE display' = "delay" <=> display = "delay"
  <2>1. UNCHANGED <<livePackets, liveFrames, packetQueue, decoder, packet, frame>>
        /\ (TakeVideoFrame \/ UNCHANGED frameQueue)
    BY <1>1 DEF DisplayRun, DisplayStep, DisplayEnd, TakeVideoFrame, ConsiderFrame, decoderVars
  <2>2. \A t \in Streams : OwnerHeld(t)' = OwnerHeld(t) /\ WriteHeld(t)' = WriteHeld(t)
    BY <1>0, <1>1 DEF OwnerHeld, WriteHeld, Bit
  <2>3. CASE UNCHANGED frameQueue
    BY <2>1, <2>2, <2>3, AccountsStay
  <2>4. CASE TakeVideoFrame
    <3>1. /\ frameQueue["video"] # << >> /\ Head(frameQueue["video"]) = Null
          /\ frameQueue' = [frameQueue EXCEPT !["video"] = Tail(@)]
      BY <1>1, <2>4 DEF TakeVideoFrame
    <3>2. Bit(Head(frameQueue["video"]) # Null) = 0
      BY <3>1 DEF Bit
    <3>3. \A t \in Streams : OwnerHeld(t)' = OwnerHeld(t)
              + IF t = "video" THEN Bit(Head(frameQueue["video"]) # Null) ELSE 0
      BY <2>2, <3>2, HeldIs
    <3> QED
      BY <1>0, <2>1, <3>1, <3>3, AccountsTaken
  <2> QED
    BY <2>1, <2>3, <2>4
<1>2. CASE display' = "delay" /\ display # "delay"
  <2>1. /\ UNCHANGED <<livePackets, liveFrames, packetQueue, decoder, packet, frame>>
        /\ frameQueue["video"] # << >> /\ Head(frameQueue["video"]) # Null
        /\ frameQueue' = [frameQueue EXCEPT !["video"] = Tail(@)]
    BY <1>2 DEF DisplayRun, DisplayStep, DisplayEnd, TakeVideoFrame, ConsiderFrame
  <2>2. Bit(Head(frameQueue["video"]) # Null) = 1
    BY <2>1 DEF Bit
  <2>3. OwnerHeld("video") = 0 /\ OwnerHeld("video")' = 1
    BY <1>2 DEF OwnerHeld, Bit
  <2>4. \A t \in Streams : t # "video" => OwnerHeld(t)' = OwnerHeld(t) /\ OwnerHeld(t) \in Nat
    BY <1>0, HeldIs DEF OwnerHeld
  <2>5. \A t \in Streams : OwnerHeld(t)' = OwnerHeld(t)
              + IF t = "video" THEN Bit(Head(frameQueue["video"]) # Null) ELSE 0
    BY <2>2, <2>3, <2>4
  <2> QED
    BY <1>0, <2>1, <2>5, AccountsTaken
<1>3. CASE display' # "delay" /\ display = "delay"
  <2>1. /\ liveFrames' = [liveFrames EXCEPT !["video"] = @ - 1]
        /\ UNCHANGED <<livePackets, packetQueue, frameQueue, decoder, packet, frame>>
    BY <1>3 DEF DisplayRun, DisplayStep, DisplayEnd, TakeVideoFrame, ConsiderFrame
  <2>2. OwnerHeld("video") = 1 /\ OwnerHeld("video")' = 0
    BY <1>3 DEF OwnerHeld, Bit
  <2>3. \A t \in Streams \ {"video"} : OwnerHeld(t)' = OwnerHeld(t)
    BY <1>0 DEF OwnerHeld
  <2> QED
    BY <1>0, <2>1, <2>2, <2>3, AccountsFreed
<1> QED
  BY <1>1, <1>2, <1>3

LEMMA AccountsMixed ==
  ASSUME PInv, Accounts, MixerRun
  PROVE  Accounts'
<1>0. /\ "audio" \in Streams /\ "audio" # "video"
      /\ UNCHANGED <<reader, toWrite, display>>
  BY AudioIs DEF MixerRun, playVars, videoVars
<1>1. CASE TakeAudioFrame
  <2>1. /\ frameQueue["audio"] # << >> /\ mixer = "poll"
        /\ frameQueue' = [frameQueue EXCEPT !["audio"] = Tail(@)]
        /\ UNCHANGED <<livePackets, liveFrames, packetQueue, decoder, packet, frame>>
        /\ mixer' \in {"begin", "fill"} <=> Head(frameQueue["audio"]) # Null
    BY <1>1 DEF TakeAudioFrame
  <2>2. OwnerHeld("audio") = 0
        /\ OwnerHeld("audio")' = Bit(Head(frameQueue["audio"]) # Null)
        /\ OwnerHeld("audio")' \in Nat
    BY <1>0, <2>1 DEF OwnerHeld, Bit
  <2>3. \A t \in Streams : t # "audio" => OwnerHeld(t)' = OwnerHeld(t) /\ OwnerHeld(t) \in Nat
    BY <1>0, HeldIs, PlayAssumption DEF OwnerHeld
  <2>4. \A t \in Streams : OwnerHeld(t)' = OwnerHeld(t)
              + IF t = "audio" THEN Bit(Head(frameQueue["audio"]) # Null) ELSE 0
    BY <2>2, <2>3
  <2> QED
    BY <1>0, <2>1, <2>4, AccountsTaken
<1>2. CASE FillChunk /\ mixer' = "poll"
  <2>1. mixer = "fill"
    BY <1>2 DEF FillChunk
  <2>2. /\ liveFrames' = [liveFrames EXCEPT !["audio"] = @ - 1]
        /\ UNCHANGED <<livePackets, packetQueue, frameQueue, decoder, packet, frame>>
    BY <1>2 DEF FillChunk
  <2>3. OwnerHeld("audio") = 1 /\ OwnerHeld("audio")' = 0
    BY <1>0, <1>2, <2>1 DEF OwnerHeld, Bit
  <2>4. \A t \in Streams \ {"audio"} : OwnerHeld(t)' = OwnerHeld(t)
    BY <1>0, PlayAssumption DEF OwnerHeld
  <2> QED
    BY <1>0, <2>2, <2>3, <2>4, AccountsFreed
<1>3. CASE ~TakeAudioFrame /\ ~(FillChunk /\ mixer' = "poll")
  <2>1. /\ UNCHANGED <<livePackets, liveFrames, packetQueue, frameQueue, decoder, packet, frame>>
        /\ (mixer' \in {"begin", "fill"} <=> mixer \in {"begin", "fill"})
    <3>1. CASE FillChunk
      BY <1>3, <3>1 DEF FillChunk
    <3>2. CASE ~FillChunk
      BY <1>3, <3>2 DEF MixerRun, MixerStep, MixerEnd, BeginChunk, WaitForVideo, FlushChunk,
                        DrainChannel, FollowAbsolute, decoderVars, audioVars
    <3> QED
      BY <3>1, <3>2
  <2>2. \A t \in Streams : OwnerHeld(t)' = OwnerHeld(t) /\ WriteHeld(t)' = WriteHeld(t)
    BY <1>0, <2>1 DEF OwnerHeld, WriteHeld, Bit
  <2> QED
    BY <2>1, <2>2, AccountsStay
<1> QED
  BY <1>1, <1>2, <1>3

-----------------------------------------------------------------------------
LEMMA InitLine == Init => LineInv
<1> SUFFICES ASSUME Init PROVE LineInv
  OBVIOUS
<1>0. /\ Len(<< >>) = 0 /\ << >> \in Seq(Times("video")) /\ << >> \in Seq(Times("audio"))
  BY EmptySeq
<1>1. PInv
  BY InitInvariant
<1>2. VideoLine
  <2>1. shown = << >> /\ display = "none" /\ ~videoEof /\ 0 <= Total("video")
    BY PlayAssumption, TotalIs DEF Init
  <2> QED
    BY <1>0, <2>1, LiesNowhere DEF VideoLine
<1>3. ChannelLine /\ MixerLine
  <2>1. /\ mixer = "none" /\ channel = << >> /\ chunk = << >> /\ heard = << >> /\ avail = 0
        /\ ~audioEof
    BY DEF Init
  <2>2. Handed = 0
    BY <1>0, <2>1 DEF Handed, InChannel
  <2>3. ChannelLine
    BY <1>0, <2>1, <2>2, AudioIs, LiesNowhere DEF ChannelLine
  <2> QED
    BY <2>1, <2>3 DEF MixerLine
<1>4. Handled /\ Reading
  <2>1. reader = "none" /\ \A s \in Streams : decoder[s] = "none"
    BY DEF Init
  <2> QED
    BY <2>1 DEF Handled, Reading, Looping
<1>5. Accounts
  <2>1. DOMAIN livePackets = Streams /\ DOMAIN liveFrames = Streams
    BY DEF Init
  <2>2. ASSUME NEW s \in Streams PROVE Account(s)
    <3>1. /\ livePackets[s] = 0 /\ liveFrames[s] = 0 /\ packetQueue[s] = << >> /\ frameQueue[s] = << >>
          /\ decoder[s] = "none" /\ reader = "none" /\ display = "none" /\ mixer = "none"
      BY DEF Init
    <3>2. PacketHeld(s) = 0 /\ WriteHeld(s) = 0 /\ FrameHeld(s) = 0 /\ OwnerHeld(s) = 0
      BY <3>1 DEF PacketHeld, WriteHeld, FrameHeld, OwnerHeld, Bit
    <3> QED
      BY <3>1, <3>2, CountNothing DEF Account
  <2> QED
    BY <2>1, <2>2 DEF Accounts
<1> QED
  BY <1>1, <1>2, <1>3, <1>4, <1>5 DEF LineInv

LEMMA StepLine == LineInv /\ [Next]_vars => LineInv'
<1> SUFFICES ASSUME LineInv, [Next]_vars PROVE LineInv'
  OBVIOUS
<1>0. /\ PInv /\ VideoLine /\ ChannelLine /\ MixerLine /\ Handled /\ Reading /\ Accounts
      /\ PInv' /\ Reading'
  BY StepInvariant, ReadingHolds DEF LineInv
<1>1. ASSUME Elsewhere PROVE LineInv'
  <2>1. Accounts'
    BY <1>0, <1>1, AccountsUndisturbed, AccountsRead, AccountsWritten, AccountsClosed,
       AccountsDecoded DEF Elsewhere
  <2> QED
    BY <1>0, <1>1, <2>1, VideoElsewhere, AudioElsewhere, HandledElsewhere DEF LineInv
<1>2. ASSUME OpenFails \/ OpenStreams PROVE LineInv'
  BY <1>0, <1>2, VideoIsOpened, AudioIsOpened, HandledOpened, AccountsUndisturbed, AccountsOpened
  DEF LineInv
<1>3. ASSUME Restart PROVE LineInv'
  BY <1>0, <1>3, VideoRestarts, AudioRestarts, HandledRuns, AccountsUndisturbed DEF LineInv
<1>4. ASSUME DisplayRun PROVE LineInv'
  BY <1>0, <1>4, VideoRuns, AudioBeside, HandledRuns, AccountsShown DEF LineInv
<1>5. ASSUME MixerRun PROVE LineInv'
  BY <1>0, <1>5, VideoBeside, AudioRuns, HandledRuns, AccountsMixed DEF LineInv
<1>6. ASSUME CallbackRun PROVE LineInv'
  BY <1>0, <1>6, VideoBeside, CallbackPlays, HandledRuns, AccountsUndisturbed DEF LineInv
<1> QED
  BY <1>1, <1>2, <1>3, <1>4, <1>5, <1>6 DEF Next, ReaderStep, Elsewhere

LEMMA LineInvariance == Spec => []LineInv
BY InitLine, StepLine, PTL DEF Spec

-----------------------------------------------------------------------------
(* What the line says of what was shown and heard. *)
LEMMA ShownIs ==
  ASSUME VideoLine
  PROVE  /\ shown = SubSeq(PtsOf("video"), 1, Len(shown))
         /\ videoEof => shown = PtsOf("video")
<1>1. /\ shown \in Seq(Times("video")) /\ Lies(shown, Line("video"), 0)
      /\ Len(shown) <= Total("video") /\ "video" \in Streams
      /\ videoEof => Len(shown) = Total("video")
  BY PlayAssumption DEF VideoLine
<1>2. PtsOf("video") \in Seq(Times("video")) /\ Len(PtsOf("video")) = Total("video")
  BY <1>1, PtsOfIs
<1>3. Lies(shown, PtsOf("video"), 0)
  <2> SUFFICES ASSUME NEW i \in 1 .. Len(shown) PROVE shown[i] = PtsOf("video")[0 + i]
    BY DEF Lies
  <2>1. shown[i] = Line("video")[0 + i]
    BY <1>1 DEF Lies
  <2>2. 0 + i \in Nat /\ 0 + i \in 1 .. Total("video")
    BY <1>1, TotalIs, LenProperties
  <2> QED
    BY <1>1, <2>1, <2>2, LineIs
<1> QED
  BY <1>1, <1>2, <1>3, LiesAtFirst

LEMMA HeardIs ==
  ASSUME PInv, ChannelLine, MixerLine
  PROVE  /\ heard = SubSeq(Samples, 1, Len(heard))
         /\ audioEof => heard = Samples
<1>1. heard \in Seq(Times("audio")) /\ Lies(heard, Samples, 0)
  BY DEF ChannelLine
<1>2. Len(heard) <= Len(Samples)
  <2>1. Handed + Len(chunk) <= Len(Samples)
    BY DEF ChannelLine
  <2> QED
    BY <2>1, AudioCounts, AudioIs DEF Handed
<1>3. audioEof => Len(heard) = Len(Samples)
  BY DEF MixerLine
<1> QED
  BY <1>1, <1>2, <1>3, SamplesAre, LiesAtFirst

(* In each pass of the file the frames are shown, and the samples heard,   *)
(* once and in their order (Decoder::open, _displayThread of Video and     *)
(* Audio, _audioCallback).                                                 *)
THEOREM PlayedInOrder == Spec => []PlaysInOrder
<1>1. LineInv => PlaysInOrder
  BY ShownIs, HeardIs DEF LineInv, PlaysInOrder
<1> QED
  BY <1>1, LineInvariance, PTL

(* The end of a stream is reported only when all of it was shown or played *)
(* (Decoder::open, Video::_displayThread, Audio::_displayThread).          *)
THEOREM EofComesLast == Spec => []EofIsLast
<1>1. LineInv => EofIsLast
  BY ShownIs, HeardIs DEF LineInv, EofIsLast
<1> QED
  BY <1>1, LineInvariance, PTL

LEMMA NothingHeld ==
  ASSUME LineInv, NEW s \in Streams, decoder[s] \in {"none", "poll"},
         packetQueue[s] = << >>, frameQueue[s] = << >>, reader # "write",
         IF s = "video" THEN display # "delay" ELSE mixer \notin {"begin", "fill"}
  PROVE  livePackets[s] = 0 /\ liveFrames[s] = 0
<1>1. PacketHeld(s) = 0 /\ WriteHeld(s) = 0 /\ FrameHeld(s) = 0 /\ OwnerHeld(s) = 0
  BY DEF PacketHeld, WriteHeld, FrameHeld, OwnerHeld, Bit
<1> QED
  BY <1>1, CountNothing DEF LineInv, Accounts, Account

(* No packet and no frame is freed twice, and none is left when            *)
(* _readThread returns (Decoder::open, the close() of each class).         *)
THEOREM AllIsFreedOnce == Spec => []FreedOnce
<1>1. LineInv => FreedOnce
  <2> SUFFICES ASSUME LineInv PROVE FreedOnce
    OBVIOUS
  <2>1. ASSUME NEW s \in Streams PROVE livePackets[s] >= 0 /\ liveFrames[s] >= 0
    <3>1. PInv /\ Account(s)
      BY DEF LineInv, Accounts
    <3> QED
      BY <3>1, HeldIs DEF Account
  <2>2. ASSUME NEW s \in Streams, reader = "none" PROVE livePackets[s] = 0 /\ liveFrames[s] = 0
    <3>1. Closed(s)
      BY <2>2, PlayAssumption DEF LineInv, PInv, Closing
    <3> QED
      BY <2>2, <3>1, NothingHeld DEF Closed, Ended
  <2> QED
    BY <2>1, <2>2 DEF FreedOnce
<1> QED
  BY <1>1, LineInvariance, PTL

(* When a pass of the file begins, nothing of the pass before is left in   *)
(* the streams that are open (Play::_readThread, Video::_onEof,            *)
(* Audio::_onEof).                                                         *)
THEOREM BeginsClean == Spec => RestartsClean
<1> DEFINE Clean == /\ chunk = << >> /\ channel = << >>
                    /\ \A s \in opened : /\ livePackets[s] = 0 /\ liveFrames[s] = 0
                                         /\ packetQueue[s] = << >> /\ codec[s] = << >>
           A == eof /\ ~eof' => Clean
<1>1. LineInv /\ [Next]_vars => [A]_vars
  <2> SUFFICES ASSUME LineInv, Next, eof, ~eof' PROVE Clean
    OBVIOUS
  <2>0. PInv /\ VideoLine /\ MixerLine /\ Handled /\ opened \subseteq Streams
        /\ Streams = {"video", "audio"}
    BY PlayAssumption DEF LineInv, PInv, ReaderOK
  <2>1. OpenFails \/ OpenStreams \/ Restart
    BY DEF Next, ReaderStep, start, setIsPaused, stop, StopReturns, LoopTop, ReadPacket, ReadEof,
           ReadFails, WritePacket, CloseDecoder, JoinDecoder, JoinDisplay, DecoderRun, DisplayRun,
           MixerRun, CallbackRun, Tick, playVars
  <2>2. CASE OpenFails \/ OpenStreams
    <3>1. reader = "open"
      BY <2>2 DEF OpenFails, OpenStreams
    <3>2. \A s \in Streams : Closed(s)
      BY <2>0, <3>1 DEF PInv, Closing
    <3>3. mixer = "none" /\ channel = << >> /\ chunk = << >>
      BY <2>0, <3>2 DEF Closed, Ended, MixerLine
    <3>4. \A s \in opened : livePackets[s] = 0 /\ liveFrames[s] = 0
      BY <2>0, <3>1, <3>2, NothingHeld DEF Closed, Ended
    <3> QED
      BY <2>0, <3>2, <3>3, <3>4 DEF Closed
  <2>3. CASE Restart
    <3>1. reader = "loop" /\ Looping /\ AllEof
      BY <2>3 DEF Restart, Looping
    <3>2. channel = << >> /\ chunk = << >> /\ mixer \in {"none", "poll", "eof"}
      BY <2>0, <2>3, AudioEnded
    <3>3. ASSUME NEW s \in opened
          PROVE  /\ packetQueue[s] = << >> /\ codec[s] = << >>
                 /\ livePackets[s] = 0 /\ liveFrames[s] = 0
      <4>1. s \in Streams /\ EofOf(s)
        BY <2>0, <3>1 DEF AllEof, HasVideo, HasAudio, EofOf
      <4>2. ~Ended(s)
        BY <2>0, <3>1, <4>1 DEF Handled
      <4>3. DecoderLine(s, Total(s) + 1) /\ (s = "video" => display # "delay")
        <5>1. CASE s = "video"
          BY <2>0, <2>3, <4>2, <5>1, VideoEnded DEF Ended
        <5>2. CASE s = "audio"
          BY <2>0, <2>3, <4>2, <5>2, AudioEnded DEF Ended
        <5> QED
          BY <2>0, <4>1, <5>1, <5>2
      <4>4. /\ frameQueue[s] = << >> /\ codec[s] = << >> /\ packetQueue[s] = << >>
            /\ decoder[s] \in {"none", "poll"}
        BY <2>0, <4>1, <4>3, PassEnds
      <4> QED
        BY <3>1, <3>2, <4>1, <4>3, <4>4, NothingHeld
    <3> QED
      BY <3>2, <3>3
  <2> QED
    BY <2>1, <2>2, <2>3
<1>2. RestartsClean <=> [][A]_vars
  BY DEF RestartsClean
<1> QED
  BY <1>1, <1>2, LineInvariance, PTL DEF Spec

-----------------------------------------------------------------------------
(* The video follows the audio: the clocks *)

(* Each clock starts with the first time of its stream; the audio clock    *)
(* starts before anything enters a chunk, and shows the chunk heard last.  *)
ClocksInTime ==
  /\ sync.video.startPts = NaN => shown = << >>
  /\ sync.video.startPts # NaN => sync.video.startPts = Line("video")[1]
  /\ sync.audio.startPts = NaN => heard = << >> /\ channel = << >> /\ chunk = << >>
  /\ sync.audio.startPts # NaN => sync.audio.startPts = Line("audio")[1]
  /\ heard = << >> => sync.audio.currentPts = sync.audio.startPts
  /\ heard # << >> => sync.audio.currentPts \in ChunkTimes
  /\ HasAudio => ~sync.audio.isDisabled

(* The chunks heard are full, as long as another can come. *)
MoreToHear == channel # << >> \/ (mixer \notin {"none", "drain"} /\ ~audioEof)
HeardFull == MoreToHear => \E c \in Nat : Len(heard) = c * ChunkSamples

InTime == ClocksInTime /\ HeardFull /\ VideoFollowsAudio
SyncInv == LineInv /\ InTime

LEMMA FirstShown ==
  ASSUME VideoLine, shown # << >>
  PROVE  shown[1] = Line("video")[1] /\ shown[1] \in Int
<1>1. shown \in Seq(Times("video")) /\ Lies(shown, Line("video"), 0)
  BY DEF VideoLine
<1>2. 1 \in 1 .. Len(shown)
  BY <1>1, EmptySeq, LenProperties
<1>3. shown[1] \in Times("video") /\ shown[1] = Line("video")[0 + 1]
  BY <1>1, <1>2, ElementOfSeq DEF Lies
<1> QED
  BY <1>3, FileTimes, PlayAssumption

LEMMA FirstHeard ==
  ASSUME PInv, ChannelLine, heard # << >>
  PROVE  heard[1] = Line("audio")[1] /\ heard[1] \in Int
<1>1. /\ heard \in Seq(Times("audio")) /\ Lies(heard, Samples, 0)
      /\ Handed + Len(chunk) <= Len(Samples)
  BY DEF ChannelLine
<1>2. 1 \in 1 .. Len(heard) /\ Len(heard) <= Len(Samples)
  BY <1>1, EmptySeq, AudioCounts, AudioIs DEF Handed
<1>3. heard[1] \in Times("audio") /\ heard[1] = Samples[0 + 1]
  BY <1>1, <1>2, ElementOfSeq DEF Lies
<1>4. 1 \in 1 .. Total("audio")
  <2>1. Total("audio") # 0
    <3>1. 0 * FrameSamples = 0
      BY AudioIs
    <3> QED
      BY <1>2, <3>1, AudioIs, AudioCounts
  <2> QED
    BY <2>1, AudioIs
<1>5. 1 * FrameSamples - FrameSamples < 1 /\ 1 <= 1 * FrameSamples /\ 1 \in Nat
  BY AudioIs
<1>6. Samples[1] = Line("audio")[1]
  BY <1>4, <1>5, SamplesAre
<1> QED
  BY <1>3, <1>6, FileTimes, AudioIs

LEMMA TimesHeard ==
  ASSUME PInv, ChannelLine
  PROVE  ChunkTimes \subseteq Int
<1>1. heard \in Seq(Times("audio")) /\ Len(heard) \in Nat
  BY AudioCounts DEF ChannelLine
<1> SUFFICES ASSUME NEW n \in 0 .. Len(heard), n * ChunkSamples < Len(heard)
             PROVE  heard[n * ChunkSamples + 1] \in Int
  BY DEF ChunkTimes
<1>2. n * ChunkSamples \in Nat
  BY <1>1, AudioIs, TimesMonotonic
<1>3. n * ChunkSamples + 1 \in 1 .. Len(heard)
  BY <1>1, <1>2
<1> QED
  BY <1>1, <1>3, ElementOfSeq, FileTimes, AudioIs

(* What is played is added to the chunks heard. *)
LEMMA ChunkTimesGrow ==
  ASSUME PInv, ChannelLine, NEW c \in Chunks, heard' = heard \o c
  PROVE  /\ ChunkTimes \subseteq ChunkTimes' /\ heard' # << >>
         /\ heard # << >> => heard'[1] = heard[1]
         /\ \A n \in Nat : Len(heard) = n * ChunkSamples => c[1] \in ChunkTimes'
<1>q. heard \in Seq(Times("audio")) /\ c \in Seq(Times("audio"))
  BY DEF ChannelLine, Chunks
<1>h. PICK h \in Nat : h = Len(heard)
  BY AudioCounts
<1>a. PICK a \in Nat \ {0} : a = Len(c)
  BY <1>q, LenProperties DEF Chunks
<1>1. /\ Len(heard') = h + a
      /\ \A i \in 1 .. h : heard'[i] = heard[i]
      /\ heard'[h + 1] = c[1]
  <2>1. /\ Len(heard \o c) = h + a
        /\ \A i \in 1 .. h + a :
             (heard \o c)[i] = IF i <= h THEN heard[i] ELSE c[i - h]
    BY <1>q, <1>h, <1>a, ConcatProperties
  <2>2. h + 1 \in 1 .. h + a /\ ~(h + 1 <= h) /\ (h + 1) - h = 1
    OBVIOUS
  <2>3. \A i \in 1 .. h : i \in 1 .. h + a /\ i <= h
    OBVIOUS
  <2> QED
    BY <2>1, <2>2, <2>3
<1>2. heard' # << >>
  <2>1. h + a # 0
    OBVIOUS
  <2> QED
    BY <1>1, <2>1, EmptySeq
<1>3. heard # << >> => heard'[1] = heard[1]
  <2>1. heard # << >> => 1 \in 1 .. h
    BY <1>q, <1>h, EmptySeq
  <2> QED
    BY <1>1, <2>1
<1>4. ChunkTimes \subseteq ChunkTimes'
  <2> SUFFICES ASSUME NEW n \in 0 .. h, n * ChunkSamples < h
               PROVE  heard[n * ChunkSamples + 1] \in ChunkTimes'
    BY <1>h DEF ChunkTimes
  <2>1. n \in 0 .. h + a /\ n * ChunkSamples \in Nat
    BY AudioIs, TimesMonotonic
  <2>2. n * ChunkSamples < h + a /\ n * ChunkSamples + 1 \in 1 .. h
    BY <2>1
  <2>3. heard'[n * ChunkSamples + 1] = heard[n * ChunkSamples + 1]
    BY <1>1, <2>2
  <2> QED
    BY <1>1, <2>1, <2>2, <2>3 DEF ChunkTimes
<1>5. ASSUME NEW n \in Nat, h = n * ChunkSamples
      PROVE  c[1] \in ChunkTimes'
  <2>1. n * 1 <= n * ChunkSamples
    <3>1. PICK k \in Nat : ChunkSamples = k + 1
      <4>1. ChunkSamples - 1 \in Nat
        BY AudioIs
      <4> QED
        BY <4>1, AudioIs
    <3>2. n * (k + 1) = n * k + n /\ n * k \in Nat
      BY <3>1
    <3> QED
      BY <3>1, <3>2
  <2>2. n \in 0 .. h + a /\ n * ChunkSamples < h + a
    BY <1>5, <2>1
  <2>3. heard'[n * ChunkSamples + 1] = c[1]
    BY <1>1, <1>5
  <2> QED
    BY <1>1, <2>2, <2>3 DEF ChunkTimes
<1> QED
  BY <1>2, <1>3, <1>4, <1>5, <1>h

(* What the methods of the clock object do to the members read here. *)
LEMMA PtsUpdated ==
  ASSUME NEW c \in Clock, NEW pts \in Int
  PROVE  /\ updatePts(c, pts).isDisabled = c.isDisabled /\ updatePts(c, pts).currentPts = pts
         /\ updatePts(c, pts).startPts = IF c.startPts = NaN THEN pts ELSE c.startPts
BY DEF updatePts, Clock

LEMMA ClockParts ==
  ASSUME NEW s \in SyncObject
  PROVE  s.audio \in Clock /\ s.video \in Clock /\ s.absolute \in Clock
BY DEF SyncObject

LEMMA VideoUpdated ==
  ASSUME NEW s \in SyncObject, NEW pts \in Int
  PROVE  LET t == updateVideoPts(s, pts) IN
         /\ t.audio = s.audio /\ t.type = s.type
         /\ t.video.startPts = IF s.video.startPts = NaN THEN pts ELSE s.video.startPts
<1> DEFINE v == updatePts(s.video, pts)
<1>1. v.startPts = IF s.video.startPts = NaN THEN pts ELSE s.video.startPts
  BY ClockParts, PtsUpdated
<1> HIDE DEF v
<1>2. /\ updateVideoPts(s, pts).audio = s.audio /\ updateVideoPts(s, pts).type = s.type
      /\ updateVideoPts(s, pts).video = v
  BY DEF updateVideoPts, SyncObject, v
<1> QED
  BY <1>1, <1>2

LEMMA AudioUpdated ==
  ASSUME NEW s \in SyncObject, NEW pts \in Int
  PROVE  LET t == updateAudioPts(s, pts) IN
         /\ t.video = s.video /\ t.type = s.type
         /\ t.audio.startPts = IF s.audio.startPts = NaN THEN pts ELSE s.audio.startPts
         /\ t.audio.currentPts = pts /\ t.audio.isDisabled = s.audio.isDisabled
<1> DEFINE a == updatePts(s.audio, pts)
<1>1. /\ a.startPts = IF s.audio.startPts = NaN THEN pts ELSE s.audio.startPts
      /\ a.currentPts = pts /\ a.isDisabled = s.audio.isDisabled
  BY ClockParts, PtsUpdated
<1> HIDE DEF a
<1>2. /\ updateAudioPts(s, pts).video = s.video /\ updateAudioPts(s, pts).type = s.type
      /\ updateAudioPts(s, pts).audio = a
  BY DEF updateAudioPts, SyncObject, a
<1> QED
  BY <1>1, <1>2

LEMMA AudioStarted ==
  ASSUME NEW s \in SyncObject, NEW pts \in Int
  PROVE  LET t == StartAudio(s, pts) IN
         /\ t.video = s.video /\ t.type = s.type
         /\ s.audio.startPts # NaN => t.audio = s.audio
         /\ s.audio.startPts = NaN => t.audio.startPts = pts /\ t.audio.currentPts = pts
         /\ t.audio.isDisabled = s.audio.isDisabled
<1> DEFINE u == updatePts(s.audio, pts)
           a == IF s.audio.startPts = NaN THEN u ELSE s.audio
<1>1. /\ u.startPts = IF s.audio.startPts = NaN THEN pts ELSE s.audio.startPts
      /\ u.currentPts = pts /\ u.isDisabled = s.audio.isDisabled
  BY ClockParts, PtsUpdated
<1>2. /\ StartAudio(s, pts).video = s.video /\ StartAudio(s, pts).type = s.type
      /\ StartAudio(s, pts).audio = a
  BY DEF StartAudio, SyncObject
<1> HIDE DEF u
<1> QED
  BY <1>1, <1>2

LEMMA VideoStarted ==
  ASSUME NEW s \in SyncObject, NEW pts \in Int
  PROVE  LET t == StartVideo(s, pts) IN
         /\ t.audio = s.audio /\ t.type = s.type
         /\ t.video.startPts = IF s.video.startPts = NaN THEN pts ELSE s.video.startPts
<1> DEFINE v == IF s.video.startPts = NaN THEN updatePts(s.video, pts) ELSE s.video
           t == [s EXCEPT !.absolute = updatePts(s.absolute, now), !.video = v]
           w == updatePts(t.video, t.audio.startPts)
<1>1. v \in Clock /\ v.startPts = IF s.video.startPts = NaN THEN pts ELSE s.video.startPts
  BY ClockParts, PtsUpdated, Updated
<1>2. v.startPts # NaN
  BY <1>1, PlayAssumption
<1>3. StartVideo(s, pts) = IF ~t.audio.isDisabled /\ t.audio.startPts \notin {NaN, t.video.startPts}
                           THEN [t EXCEPT !.video = w] ELSE t
  BY DEF StartVideo, SyncObject
<1> HIDE DEF v
<1>4. t.audio = s.audio /\ t.type = s.type /\ t.video = v /\ DOMAIN t = DOMAIN s
  BY DEF SyncObject
<1>5. t.audio.startPts # NaN => w.startPts = v.startPts
  <2>1. s.audio.startPts \in Int \cup {NaN}
    BY ClockParts DEF Clock
  <2> QED
    BY <1>1, <1>2, <1>4, <2>1, PtsUpdated
<1>6. /\ [t EXCEPT !.video = w].audio = t.audio /\ [t EXCEPT !.video = w].type = t.type
      /\ [t EXCEPT !.video = w].video = w
  <2> HIDE DEF w
  <2> QED
    BY DEF SyncObject
<1> HIDE DEF t, w
<1> QED
  BY <1>1, <1>3, <1>4, <1>5, <1>6

(* The steps that change neither the clocks nor what was shown and heard. *)
Calm ==
  /\ UNCHANGED <<sync, shown, heard, opened>>
  /\ alive'["video"] => alive["video"]
  /\ MoreToHear' => MoreToHear
  /\ channel = << >> /\ chunk = << >> => channel' = << >> /\ chunk' = << >>

LEMMA CalmKeeps ==
  ASSUME InTime, Calm
  PROVE  InTime'
<1>0. /\ ClocksInTime /\ HeardFull /\ VideoFollowsAudio
      /\ UNCHANGED <<sync, shown, heard, opened>>
  BY DEF InTime, Calm
<1>1. UNCHANGED ChunkTimes
  BY <1>0 DEF ChunkTimes
<1>2. ClocksInTime'
  BY <1>0, <1>1 DEF Calm, ClocksInTime, HasAudio
<1>3. HeardFull'
  BY <1>0 DEF Calm, HeardFull
<1>4. VideoFollowsAudio'
  BY <1>0, <1>1 DEF Calm, VideoFollowsAudio, HasVideo, HasAudio
<1> QED
  BY <1>2, <1>3, <1>4 DEF InTime

LEMMA CalmElsewhere ==
  ASSUME PInv, Elsewhere
  PROVE  Calm
<1>1. CASE JoinDisplay
  <2>1. /\ UNCHANGED <<sync, shown, heard, opened, alive, chunk, mixer, audioEof>>
        /\ channel' \in {channel, << >>}
    BY <1>1 DEF JoinDisplay, clockVars, videoVars
  <2> QED
    BY <2>1 DEF Calm, MoreToHear
<1>2. CASE JoinDecoder
  <2>1. /\ UNCHANGED <<sync, shown, heard, opened, chunk, channel, mixer, audioEof>>
        /\ alive' = [alive EXCEPT ![closing[1]] = FALSE]
    BY <1>2 DEF JoinDecoder, clockVars, videoVars, audioVars
  <2>2. alive \in [Streams -> BOOLEAN] /\ "video" \in Streams
    BY PlayAssumption DEF PInv, DecodersOK
  <2> QED
    BY <2>1, <2>2 DEF Calm, MoreToHear
<1>3. CASE ~JoinDisplay /\ ~JoinDecoder
  <2>1. UNCHANGED <<sync, shown, heard, opened, chunk, channel, mixer, audioEof, alive>>
    BY <1>3 DEF Elsewhere, start, setIsPaused, stop, StopReturns, LoopTop, ReadPacket, ReadEof,
         ReadFails, WritePacket, CloseDecoder, DecoderRun, DecoderStep, DecoderEnd, SendPacket,
         ReceiveFrame, PacketDone, OnFrame, Tick, vars, clockVars, videoVars, audioVars, playVars,
         decoderVars
  <2> QED
    BY <2>1 DEF Calm, MoreToHear
<1> QED
  BY <1>1, <1>2, <1>3

LEMMA CalmDisplay ==
  ASSUME DisplayEnd \/ TakeVideoFrame, UNCHANGED <<audioVars, playVars>>
  PROVE  Calm
<1>1. UNCHANGED <<sync, shown, heard, opened, chunk, channel, mixer, audioEof, alive>>
  BY DEF DisplayEnd, TakeVideoFrame, clockVars, audioVars, playVars, decoderVars
<1> QED
  BY <1>1 DEF Calm, MoreToHear

LEMMA CalmMixer ==
  ASSUME MixerLine, UNCHANGED <<videoVars, playVars>>,
         MixerEnd \/ TakeAudioFrame \/ BeginChunk \/ FlushChunk \/ DrainChannel
  PROVE  Calm
<1>0. UNCHANGED <<sync, shown, heard, opened, alive>>
  BY DEF MixerEnd, TakeAudioFrame, BeginChunk, FlushChunk, DrainChannel, clockVars, videoVars,
         playVars, decoderVars
<1>1. CASE MixerEnd
  BY <1>0, <1>1 DEF MixerEnd, Calm, MoreToHear
<1>2. CASE TakeAudioFrame
  BY <1>0, <1>2 DEF TakeAudioFrame, Calm, MoreToHear
<1>3. CASE BeginChunk
  BY <1>0, <1>3 DEF BeginChunk, Calm, MoreToHear
<1>4. CASE FlushChunk
  <2>1. mixer = "flush" /\ ~audioEof
    BY <1>4 DEF FlushChunk, MixerLine
  <2>2. /\ MoreToHear /\ chunk' = << >>
        /\ chunk = << >> => channel' = channel
    BY <1>4, <2>1 DEF FlushChunk, MoreToHear
  <2> QED
    BY <1>0, <2>2 DEF Calm
<1>5. CASE DrainChannel
  BY <1>0, <1>5 DEF DrainChannel, Calm, MoreToHear
<1> QED
  BY <1>1, <1>2, <1>3, <1>4, <1>5

(* A pass of the file begins: all clocks are new. *)
LEMMA PassBegins ==
  ASSUME shown' = << >>, heard' = << >>, channel' = << >>, chunk' = << >>,
         sync'.video.startPts = NaN, sync'.audio.startPts = NaN, sync'.audio.currentPts = NaN,
         HasAudio' => ~sync'.audio.isDisabled
  PROVE  InTime'
<1>1. ClocksInTime'
  BY DEF ClocksInTime
<1>2. HeardFull'
  <2>1. Len(heard') = 0 * ChunkSamples /\ 0 \in Nat
    BY EmptySeq, AudioIs
  <2> QED
    BY <2>1 DEF HeardFull
<1>3. VideoFollowsAudio'
  BY DEF VideoFollowsAudio
<1> QED
  BY <1>1, <1>2, <1>3 DEF InTime

LEMMA PassIsBegun ==
  ASSUME LineInv, OpenFails \/ OpenStreams \/ Restart
  PROVE  InTime'
<1>0. PInv /\ MixerLine /\ Handled
  BY DEF LineInv
<1>1. shown' = << >> /\ heard' = << >> /\ UNCHANGED <<chunk, channel>>
  BY DEF OpenFails, OpenStreams, OpenAudio, Restart, BeginPass
<1>2. chunk = << >> /\ channel = << >>
  <2>1. CASE OpenFails \/ OpenStreams
    <3>1. mixer = "none" /\ channel = << >>
      BY <1>0, <2>1 DEF OpenFails, OpenStreams, PInv, Closing, Closed, Ended
    <3> QED
      BY <1>0, <3>1 DEF MixerLine
  <2>2. CASE Restart
    BY <1>0, <2>2, AudioEnded
  <2> QED
    BY <2>1, <2>2
<1>3. /\ sync'.video.startPts = NaN /\ sync'.audio.startPts = NaN /\ sync'.audio.currentPts = NaN
      /\ HasAudio' => ~sync'.audio.isDisabled
  <2>1. CASE OpenFails
    <3>1. sync' = NewSync("audio", {}) /\ opened' = {}
      BY <2>1 DEF OpenFails
    <3> QED
      BY <3>1 DEF NewSync, NewClock, HasAudio
  <2>2. CASE OpenStreams
    <3>1. PICK type : sync' = NewSync(type, Streams \ opened')
      BY <2>2 DEF OpenStreams
    <3> QED
      BY <3>1 DEF NewSync, NewClock, HasAudio
  <2>3. CASE Restart
    <3>1. sync' = [reset(sync) EXCEPT !.type = "audio"]
      BY <2>3 DEF Restart
    <3>2. sync \in SyncObject
      BY <1>0 DEF PInv, ClockTypeOK, SyncObject
    <3> QED
      BY <3>1, <3>2 DEF reset, NewClock, HasAudio, SyncObject
  <2> QED
    BY <2>1, <2>2, <2>3
<1> QED
  BY <1>1, <1>2, <1>3, PassBegins

(* The frame considered starts the video clock if it is the first; a later *)
(* one waits until the audio clock has come as far.                        *)
LEMMA FrameInTime ==
  ASSUME LineInv, InTime, ConsiderFrame, UNCHANGED <<audioVars, playVars>>
  PROVE  InTime'
<1> DEFINE s == StartVideo(sync, held)
           first == Line("video")[1]
<1>0. /\ PInv /\ VideoLine /\ ChannelLine /\ ClocksInTime /\ HeardFull /\ VideoFollowsAudio
      /\ sync \in SyncObject
  BY DEF LineInv, InTime, PInv, ClockTypeOK, SyncObject
<1>1. /\ display = "delay" /\ held \in Int /\ held \in Times("video")
      /\ held = Line("video")[Len(shown) + 1] /\ shown \in Seq(Times("video"))
  <2>1. display = "delay"
    BY DEF ConsiderFrame
  <2>2. held \in Times("video")
    BY <1>0, <2>1 DEF PInv, DisplayOK
  <2> QED
    BY <1>0, <2>1, <2>2, FileTimes, PlayAssumption DEF VideoLine
<1>2. /\ UNCHANGED <<heard, channel, chunk, mixer, audioEof, opened, alive>>
      /\ \/ sync' = s /\ UNCHANGED shown
         \/ /\ shown' = Append(shown, held)
            /\ sync' \in {s, updateVideoPts(s, held)}
            /\ calVideoDelay(s, held, VideoDuration) # "early" \/ ~alive["video"]
  BY DEF ConsiderFrame, audioVars, playVars
<1>3. /\ s \in SyncObject /\ s.audio = sync.audio /\ s.type = sync.type
      /\ s.video.startPts = IF sync.video.startPts = NaN THEN held ELSE sync.video.startPts
  BY <1>0, <1>1, VideoStarted, ClocksSet DEF PInv
<1> HIDE DEF s
<1>4. s.video.startPts = first /\ first \in Int
  <2>1. CASE sync.video.startPts = NaN
    <3>1. Len(shown) + 1 = 1
      BY <1>0, <2>1, EmptySeq DEF ClocksInTime
    <3> QED
      BY <1>1, <1>3, <2>1, <3>1
  <2>2. CASE sync.video.startPts # NaN
    <3>1. sync.video.startPts \in Int
      BY <1>0, <2>2, ClockParts DEF Clock
    <3> QED
      BY <1>0, <1>3, <2>2, <3>1 DEF ClocksInTime
  <2> QED
    BY <2>1, <2>2
<1>5. sync'.audio = sync.audio /\ sync'.type = sync.type /\ sync'.video.startPts = first
  BY <1>1, <1>2, <1>3, <1>4, PlayAssumption, VideoUpdated
<1> HIDE DEF first
<1>6. UNCHANGED ChunkTimes
  BY <1>2 DEF ChunkTimes
<1>7. ClocksInTime'
  <2>1. sync'.video.startPts # NaN
    BY <1>4, <1>5, PlayAssumption
  <2> QED
    BY <1>0, <1>2, <1>5, <1>6, <2>1 DEF ClocksInTime, HasAudio, first
<1>8. HeardFull'
  BY <1>0, <1>2 DEF HeardFull, MoreToHear
<1>9. VideoFollowsAudio'
  <2>1. CASE UNCHANGED shown
    BY <1>0, <1>2, <1>5, <1>6, <2>1 DEF VideoFollowsAudio, HasVideo, HasAudio
  <2>2. CASE shown' = Append(shown, held)
    <3>1. /\ shown' \in Seq(Times("video")) /\ Len(shown') = Len(shown) + 1 /\ Len(shown) \in Nat
          /\ shown'[Len(shown')] = held
      BY <1>1, <2>2, AppendProperties
    <3>2. shown'[1] = first
      <4>1. CASE shown = << >>
        <5>1. Len(shown') = 1
          BY <3>1, <4>1, EmptySeq
        <5>2. held = first
          BY <1>1, <4>1, EmptySeq DEF first
        <5> QED
          BY <3>1, <5>1, <5>2
      <4>2. CASE shown # << >>
        <5>1. 1 \in 1 .. Len(shown)
          BY <1>1, <4>2, EmptySeq, LenProperties
        <5>2. shown'[1] = shown[1]
          BY <1>1, <2>2, <5>1, AppendProperties
        <5> QED
          BY <1>0, <4>2, <5>2, FirstShown DEF first
      <4> QED
        BY <4>1, <4>2
    <3>3. ASSUME HasVideo, HasAudio, sync.type = "audio", alive["video"], held > first
          PROVE  \E t \in ChunkTimes : held - first <= t - heard[1]
      <4>1. calVideoDelay(s, held, VideoDuration) # "early"
        <5>1. shown' # shown
          BY <3>1
        <5> QED
          BY <1>2, <3>3, <5>1
      <4>2. ~s.audio.isDisabled /\ s.audio \in Clock
        BY <1>0, <1>3, <3>3, ClockParts DEF ClocksInTime
      <4>3. s.audio.startPts # NaN
        BY <4>1, <4>2 DEF calVideoDelay
      <4>4. PICK a \in Int : a = s.audio.startPts
        BY <4>2, <4>3 DEF Clock
      <4>5. s.audio.currentPts \in Int
        <5>1. s.audio.currentPts # NaN
          <6>1. CASE heard = << >>
            BY <1>0, <1>3, <4>3, <6>1 DEF ClocksInTime
          <6>2. CASE heard # << >>
            <7>1. ChunkTimes \subseteq Int
              BY <1>0, TimesHeard
            <7> QED
              BY <1>0, <1>3, <6>2, <7>1, PlayAssumption DEF ClocksInTime
          <6> QED
            BY <6>1, <6>2
        <5> QED
          BY <4>2, <5>1 DEF Clock
      <4>6. PICK c \in Int : c = s.audio.currentPts
        BY <4>5
      <4>7. getTime(getMasterClock(s)) = c - a
        <5>1. getMasterClock(s) = s.audio
          BY <1>3, <3>3 DEF getMasterClock
        <5> QED
          BY <4>4, <4>6, <5>1, PlayAssumption DEF getTime
      <4>8. held - first - (c - a) <= 0
        <5> SUFFICES ASSUME held - first - (c - a) > 0 PROVE FALSE
          BY <1>1, <1>4
        <5>1. c - a # NaN /\ c - a \in Int
          BY PlayAssumption
        <5>2. held - first - (c - a) \notin -2 * VideoDuration .. 0
          BY <1>1, <1>4, PlayAssumption
        <5>3. calVideoDelay(s, held, VideoDuration) = "early"
          BY <1>4, <4>3, <4>7, <5>1, <5>2 DEF calVideoDelay
        <5> QED
          BY <4>1, <5>3
      <4>9. heard # << >>
        <5> SUFFICES ASSUME heard = << >> PROVE FALSE
          OBVIOUS
        <5>1. c = a
          BY <1>0, <1>3, <4>4, <4>6 DEF ClocksInTime
        <5> QED
          BY <1>1, <1>4, <3>3, <4>8, <5>1
      <4>10. c \in ChunkTimes /\ a = heard[1]
        <5>1. sync.audio.startPts # NaN
          BY <1>3, <4>3
        <5> QED
          BY <1>0, <1>3, <4>4, <4>6, <4>9, <5>1, FirstHeard DEF ClocksInTime
      <4>11. held - first <= c - a
        BY <1>1, <1>4, <4>8
      <4> QED
        BY <4>10, <4>11
    <3>4. UNCHANGED <<HasVideo, HasAudio, alive, heard>> /\ sync'.type = sync.type
      BY <1>2, <1>5 DEF HasVideo, HasAudio
    <3> QED
      BY <1>6, <3>1, <3>2, <3>3, <3>4 DEF VideoFollowsAudio
  <2> QED
    BY <1>2, <2>1, <2>2
<1> QED
  BY <1>7, <1>8, <1>9 DEF InTime

(* When the audio clock has not started, the coroutine works on the first  *)
(* frame.                                                                  *)
LEMMA SoundIsFirst ==
  ASSUME LineInv, ClocksInTime, mixer = "fill", sync.audio.startPts = NaN
  PROVE  sound = Line("audio")[1]
<1>1. heard = << >> /\ channel = << >> /\ chunk = << >> /\ Len(<< >>) = 0
  BY EmptySeq DEF ClocksInTime
<1>2. Handed = 0
  BY <1>1 DEF Handed, InChannel
<1>3. PICK f \in 0 .. Total("audio") : AudioTaken(f)
  BY DEF LineInv, MixerLine
<1>4. f > 0 /\ sound = Line("audio")[f] /\ f * FrameSamples = 0 + 0 + avail
  BY <1>1, <1>2, <1>3 DEF AudioTaken
<1>5. avail \in 0 .. FrameSamples
  BY DEF LineInv, PInv, MixerOK
<1>6. ~(f > 1)
  <2> SUFFICES ASSUME f > 1 PROVE FALSE
    OBVIOUS
  <2>1. 2 * FrameSamples <= f * FrameSamples
    BY AudioIs, TimesMonotonic
  <2> QED
    BY <1>4, <1>5, <2>1, AudioIs
<1>7. f = 1
  BY <1>3, <1>4, <1>6, AudioIs
<1> QED
  BY <1>4, <1>7

LEMMA SoundInTime ==
  ASSUME LineInv, InTime, WaitForVideo \/ FillChunk, UNCHANGED <<videoVars, playVars>>
  PROVE  InTime'
<1>0. /\ PInv /\ MixerLine /\ ClocksInTime /\ HeardFull /\ VideoFollowsAudio
      /\ sync \in SyncObject
  BY DEF LineInv, InTime, PInv, ClockTypeOK, SyncObject
<1>1. /\ UNCHANGED <<shown, heard, opened, alive, audioEof>> /\ mixer = "fill"
      /\ sync' = IF chunk = << >> THEN StartAudio(sync, sound) ELSE sync
  BY DEF WaitForVideo, FillChunk, decoderVars, audioVars, videoVars, playVars
<1>2. sound \in Int
  BY <1>0, <1>1, FileTimes, AudioIs DEF PInv, MixerOK
<1>3. /\ sync'.video = sync.video /\ sync'.type = sync.type
      /\ sync'.audio.isDisabled = sync.audio.isDisabled
      /\ sync.audio.startPts # NaN => sync'.audio = sync.audio
      /\ sync.audio.startPts = NaN =>
           sync'.audio.startPts = sound /\ sync'.audio.currentPts = sound
  <2>1. CASE chunk = << >>
    BY <1>0, <1>1, <1>2, <2>1, AudioStarted
  <2>2. CASE chunk # << >>
    BY <1>0, <1>1, <2>2 DEF ClocksInTime
  <2> QED
    BY <2>1, <2>2
<1>4. sync'.audio.startPts # NaN
  BY <1>2, <1>3, PlayAssumption
<1>5. UNCHANGED ChunkTimes
  BY <1>1 DEF ChunkTimes
<1>6. ClocksInTime'
  <2>1. CASE sync.audio.startPts = NaN
    <3>1. sound = Line("audio")[1] /\ heard = << >>
      BY <1>0, <1>1, <2>1, SoundIsFirst DEF ClocksInTime
    <3> QED
      BY <1>0, <1>1, <1>3, <1>4, <2>1, <3>1 DEF ClocksInTime, HasAudio
  <2>2. CASE sync.audio.startPts # NaN
    BY <1>0, <1>1, <1>3, <1>5, <2>2 DEF ClocksInTime, HasAudio
  <2> QED
    BY <2>1, <2>2
<1>7. HeardFull'
  <2>1. MoreToHear
    BY <1>0, <1>1 DEF MoreToHear, MixerLine
  <2> QED
    BY <1>0, <1>1, <2>1 DEF HeardFull
<1>8. VideoFollowsAudio'
  BY <1>0, <1>1, <1>3, <1>5 DEF VideoFollowsAudio, HasVideo, HasAudio
<1> QED
  BY <1>6, <1>7, <1>8 DEF InTime

LEMMA AbsoluteInTime ==
  ASSUME LineInv, InTime, FollowAbsolute, UNCHANGED <<videoVars, playVars>>
  PROVE  InTime'
<1>0. /\ ClocksInTime /\ HeardFull /\ sync \in SyncObject
  BY DEF LineInv, InTime, PInv, ClockTypeOK, SyncObject
<1>1. /\ UNCHANGED <<shown, heard, opened, channel, chunk, audioEof>>
      /\ mixer = "eof" /\ mixer' = "poll"
      /\ sync' = [sync EXCEPT !.type = "absolute"]
  BY DEF FollowAbsolute, videoVars, playVars
<1>2. sync'.audio = sync.audio /\ sync'.video = sync.video /\ sync'.type = "absolute"
  BY <1>0, <1>1 DEF SyncObject
<1>3. UNCHANGED ChunkTimes
  BY <1>1 DEF ChunkTimes
<1>4. ClocksInTime'
  BY <1>0, <1>1, <1>2, <1>3 DEF ClocksInTime, HasAudio
<1>5. HeardFull'
  BY <1>0, <1>1 DEF HeardFull, MoreToHear
<1>6. VideoFollowsAudio'
  BY <1>2 DEF VideoFollowsAudio
<1> QED
  BY <1>4, <1>5, <1>6 DEF InTime

(* The callback sets the audio clock to the chunk it plays. *)
LEMMA ChunkInTime ==
  ASSUME LineInv, InTime, CallbackRun
  PROVE  InTime'
<1>0. /\ PInv /\ ChannelLine /\ MixerLine /\ ClocksInTime /\ HeardFull /\ VideoFollowsAudio
      /\ sync \in SyncObject
  BY DEF LineInv, InTime, PInv, ClockTypeOK, SyncObject
<1>1. /\ UNCHANGED <<shown, opened, alive, chunk, mixer, audioEof>>
      /\ channel # << >> /\ channel' = Tail(channel) /\ heard' = heard \o Head(channel)
      /\ sync' = updateAudioPts(sync, Head(channel)[1])
  BY DEF CallbackRun, audioCallback, decoderVars, videoVars, playVars
<1>2. channel \in Seq(Chunks)
  BY <1>0 DEF PInv, MixerOK
<1>n. PICK n \in Nat : n = Len(channel)
  BY <1>2, LenProperties
<1>3. /\ Head(channel) \in Chunks /\ Head(channel) = channel[1] /\ n # 0
      /\ Len(channel') = n - 1 /\ channel' \in Seq(Chunks)
  BY <1>1, <1>2, <1>n, HeadTailProperties, EmptySeq
<1>c. PICK c \in Chunks : c = Head(channel)
  BY <1>3
<1>4. c \in Seq(Times("audio")) /\ c[1] \in Int
  <2>1. c \in Seq(Times("audio")) /\ 1 \in 1 .. Len(c)
    BY DEF Chunks
  <2>2. c[1] \in Times("audio")
    BY <2>1, ElementOfSeq
  <2> QED
    BY <2>1, <2>2, FileTimes, AudioIs
<1>5. PICK k \in Nat : Len(heard) = k * ChunkSamples
  BY <1>0, <1>1 DEF HeardFull, MoreToHear
<1>6. /\ ChunkTimes \subseteq ChunkTimes' /\ heard' # << >> /\ c[1] \in ChunkTimes'
      /\ heard # << >> => heard'[1] = heard[1]
  BY <1>0, <1>1, <1>5, <1>c, ChunkTimesGrow
<1>7. sync.audio.startPts # NaN
  BY <1>0, <1>1 DEF ClocksInTime
<1>8. /\ sync'.video = sync.video /\ sync'.type = sync.type
      /\ sync'.audio.startPts = sync.audio.startPts /\ sync'.audio.currentPts = c[1]
      /\ sync'.audio.isDisabled = sync.audio.isDisabled
  BY <1>0, <1>1, <1>4, <1>7, <1>c, AudioUpdated
<1>9. ClocksInTime'
  BY <1>0, <1>1, <1>6, <1>7, <1>8 DEF ClocksInTime, HasAudio
<1>10. HeardFull'
  <2> SUFFICES ASSUME MoreToHear' PROVE \E m \in Nat : Len(heard') = m * ChunkSamples
    BY DEF HeardFull
  <2>1. n > 1 \/ mixer # "drain"
    <3>1. CASE channel' # << >>
      <4>1. n - 1 # 0
        BY <1>3, <3>1, EmptySeq
      <4> QED
        BY <1>3, <4>1
    <3>2. CASE channel' = << >>
      BY <1>1, <3>2 DEF MoreToHear
    <3> QED
      BY <3>1, <3>2
  <2>2. Len(c) = ChunkSamples
    <3>1. 1 \in 1 .. n
      BY <1>3
    <3> QED
      BY <1>0, <1>3, <1>c, <1>n, <2>1, <3>1 DEF ChannelLine
  <2>3. Len(heard') = Len(heard) + Len(c)
    BY <1>0, <1>1, <1>4, <1>c, ConcatProperties DEF ChannelLine
  <2>4. Len(heard') = (k + 1) * ChunkSamples /\ k + 1 \in Nat
    BY <1>5, <2>2, <2>3, AudioIs
  <2> QED
    BY <2>4
<1>11. VideoFollowsAudio'
  <2> DEFINE last == shown[Len(shown)]
  <2> SUFFICES ASSUME HasVideo', HasAudio', sync'.type = "audio", alive'["video"], shown' # << >>,
                      last' > shown'[1]
               PROVE  \E t \in ChunkTimes' : last' - shown'[1] <= t - heard'[1]
    BY DEF VideoFollowsAudio
  <2>1. PICK t \in ChunkTimes : last - shown[1] <= t - heard[1]
    BY <1>0, <1>1, <1>8 DEF VideoFollowsAudio, HasVideo, HasAudio
  <2>2. heard # << >>
    <3>1. PICK m \in 0 .. Len(heard) : m * ChunkSamples < Len(heard)
      BY <2>1 DEF ChunkTimes
    <3>2. Len(heard) \in Nat /\ m * ChunkSamples \in Nat
      BY <1>0, AudioCounts, AudioIs, TimesMonotonic
    <3>3. Len(heard) # 0
      BY <3>1, <3>2
    <3> QED
      BY <3>3, EmptySeq
  <2> QED
    BY <1>1, <1>6, <2>1, <2>2
<1> QED
  BY <1>9, <1>10, <1>11 DEF InTime

LEMMA InitInTime == Init => InTime
<1> SUFFICES ASSUME Init PROVE InTime
  OBVIOUS
<1>1. shown = << >> /\ heard = << >> /\ channel = << >> /\ chunk = << >> /\ opened = {}
  BY DEF Init
<1>2. /\ sync.video.startPts = NaN /\ sync.audio.startPts = NaN /\ sync.audio.currentPts = NaN
  BY DEF Init, NewSync, NewClock
<1>3. Len(heard) = 0 * ChunkSamples /\ 0 \in Nat
  BY <1>1, EmptySeq, AudioIs
<1> QED
  BY <1>1, <1>2, <1>3
  DEF InTime, ClocksInTime, HeardFull, VideoFollowsAudio, HasAudio

LEMMA StepInTime == SyncInv /\ [Next]_vars => SyncInv'
<1> SUFFICES ASSUME SyncInv, [Next]_vars PROVE SyncInv'
  OBVIOUS
<1>0. LineInv /\ InTime /\ LineInv' /\ PInv /\ MixerLine
  BY StepLine DEF SyncInv, LineInv
<1>1. CASE Elsewhere
  BY <1>0, <1>1, CalmElsewhere, CalmKeeps DEF SyncInv
<1>2. CASE OpenFails \/ OpenStreams \/ Restart
  BY <1>0, <1>2, PassIsBegun DEF SyncInv
<1>3. CASE DisplayRun
  BY <1>0, <1>3, CalmDisplay, CalmKeeps, FrameInTime DEF SyncInv, DisplayRun, DisplayStep
<1>4. CASE MixerRun
  BY <1>0, <1>4, CalmMixer, CalmKeeps, SoundInTime, AbsoluteInTime DEF SyncInv, MixerRun, MixerStep
<1>5. CASE CallbackRun
  BY <1>0, <1>5, ChunkInTime DEF SyncInv
<1> QED
  BY <1>1, <1>2, <1>3, <1>4, <1>5 DEF Next, ReaderStep, Elsewhere

(* While the audio clock is followed, no frame is shown or dropped before  *)
(* the callback plays a chunk that comes as long after the first sample as *)
(* the frame after the first frame, wherever the streams begin             *)
(* (calVideoDelay, Video::_displayThread, _audioCallback).                 *)
THEOREM VideoIsNotAhead == Spec => []VideoFollowsAudio
<1>1. Init => SyncInv
  BY InitLine, InitInTime DEF SyncInv
<1>2. SyncInv => VideoFollowsAudio
  BY DEF SyncInv, InTime
<1> QED
  BY <1>1, <1>2, StepInTime, PTL DEF Spec
=============================================================================
