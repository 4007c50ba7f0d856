----------------------------- MODULE PlayProofs -----------------------------
(***************************************************************************)
(* The player (src/play.cpp with src/video.cpp, src/audio.cpp,             *)
(* src/decoder.cpp), proved for every file, every capacity of its queues,  *)
(* every codec delay and every cut of frames into chunks: the queues keep  *)
(* their bounds, and nothing is left when the reading coroutine returns.   *)
(*                                                                         *)
(* The second follows from the order in which a stream is closed: once its *)
(* decoder has ended nothing enters its packet and frame queues, and once  *)
(* its display coroutine has ended nothing enters the channel.             *)
(***************************************************************************)
EXTENDS Play, SequenceTheorems, TLAPS

Elems(s) == Times(s) \cup {Null}
Chunks == {c \in Seq(Times("audio")) : Len(c) \in 1 .. ChunkSamples}
Writes == UNION {{s} \X Elems(s) : s \in Streams}

(* One stream's decoder: the codec keeps CodecDelay packets, one more only *)
(* while a packet is being decoded.                                        *)
PacketsOK(s) == packetQueue[s] \in Seq(Elems(s)) /\ Len(packetQueue[s]) <= PacketCap
FramesOK(s) == frameQueue[s] \in Seq(Elems(s)) /\ Len(frameQueue[s]) <= FrameCap[s]
CodecOK(s) ==
  /\ packet[s] \in Elems(s) /\ frame[s] \in Elems(s)
  /\ codec[s] \in Seq(Times(s))
  /\ Len(codec[s]) <= IF decoder[s] = "receive" /\ packet[s] # Null THEN CodecDelay + 1
                      ELSE CodecDelay

DecodersOK ==
  /\ Streams = DOMAIN packetQueue /\ Streams = DOMAIN frameQueue
  /\ Streams = DOMAIN packet /\ Streams = DOMAIN frame /\ Streams = DOMAIN codec
  /\ decoderAlive \in [Streams -> BOOLEAN] /\ alive \in [Streams -> BOOLEAN]
  /\ decoder \in [Streams -> {"none", "poll", "receive", "emit"}]
  /\ \A s \in Streams : PacketsOK(s) /\ FramesOK(s) /\ CodecOK(s)

DisplayOK ==
  /\ display \in {"none", "poll", "delay"} /\ held \in Elems("video")
  /\ display = "delay" => held \in Times("video")
  /\ videoEof \in BOOLEAN

(* A chunk that is being filled has its place in the channel. *)
MixerOK ==
  /\ mixer \in {"none", "poll", "begin", "fill", "flush", "drain", "eof"}
  /\ sound \in Elems("audio") /\ avail \in 0 .. FrameSamples
  /\ mixer \in {"begin", "fill"} => sound \in Times("audio")
  /\ mixer = "begin" => chunk = << >>
  /\ mixer = "fill" => avail > 0
  /\ mixer = "begin" => avail > 0
  /\ chunk \in Seq(Times("audio")) /\ Len(chunk) < ChunkSamples
  /\ channel \in Seq(Chunks) /\ Len(channel) <= ChannelCap
  /\ mixer = "fill" \/ chunk # << >> => Len(channel) < ChannelCap
  /\ audioEof \in BOOLEAN

ReaderOK ==
  /\ user \in {"idle", "playing", "stopping"}
  /\ reader \in {"none", "open", "loop", "read", "write", "closeDecoder",
                 "joinDecoder", "joinDisplay"}
  /\ playing \in BOOLEAN /\ paused \in BOOLEAN /\ eof \in BOOLEAN
  /\ opened \subseteq Streams /\ pos \in 1 .. Len(File) + 1
  /\ lost \in {0, 1} /\ (reader \in {"loop", "read", "write"} => lost = 0)
  /\ reader = "write" => toWrite \in Seq(Writes) /\ toWrite # << >>

(* What a stream is once it is closed, and before it is opened. *)
Closed(s) ==
  /\ decoder[s] = "none" /\ codec[s] = << >>
  /\ packetQueue[s] = << >> /\ frameQueue[s] = << >>
  /\ Ended(s) /\ (s = "audio" => channel = << >>)

(* The streams are closed one after the other, the video first. *)
Closing ==
  /\ user = "idle" => reader = "none"
  /\ reader \in {"none", "open", "loop", "read", "write"} => closing = << >>
  /\ reader \in {"closeDecoder", "joinDecoder", "joinDisplay"} =>
       closing = <<"video", "audio">> \/ closing = <<"audio">>
  /\ reader = "joinDisplay" => /\ decoder[closing[1]] = "none" /\ codec[closing[1]] = << >>
                               /\ packetQueue[closing[1]] = << >>
  /\ reader \in {"none", "open"} => Closed("video") /\ Closed("audio")
  /\ closing = <<"audio">> => Closed("video")

PInv == ClockTypeOK /\ DecodersOK /\ DisplayOK /\ MixerOK /\ ReaderOK /\ Closing

-----------------------------------------------------------------------------
(* Sequences *)

LEMMA HeadAndTail ==
  ASSUME NEW S, NEW q \in Seq(S), q # << >>
  PROVE  Head(q) \in S /\ Tail(q) \in Seq(S) /\ Len(Tail(q)) = Len(q) - 1 /\ Len(q) \in Nat
BY HeadTailProperties, LenProperties

LEMMA Appended ==
  ASSUME NEW S, NEW q \in Seq(S), NEW e \in S
  PROVE  Append(q, e) \in Seq(S) /\ Len(Append(q, e)) = Len(q) + 1 /\ Len(q) \in Nat
BY AppendProperties, LenProperties

(* The times of the file are numbers. *)
LEMMA FileTimes ==
  /\ \A s \in Streams : Times(s) \subseteq Int
  /\ Len(File) \in Nat
  /\ \A i \in 1 .. Len(File) : File[i].stream \in Streams /\ File[i].pts \in Times(File[i].stream)
<1>1. File \in Seq([stream : Streams, pts : Int])
  BY PlayAssumption
<1>2. Len(File) \in Nat /\ DOMAIN File = 1 .. Len(File)
      /\ \A i \in 1 .. Len(File) : File[i] \in [stream : Streams, pts : Int]
  BY <1>1, LenProperties, ElementOfSeq
<1> QED
  BY <1>2 DEF Times

LEMMA NewSyncOK ==
  ASSUME NEW type \in ClockSyncType, NEW disabled
  PROVE  NewSync(type, disabled) \in
           [type : ClockSyncType, audio : Clock, video : Clock, absolute : Clock]
<1>1. NewClock \in Clock
  BY DEF NewClock, Clock
<1>2. ASSUME NEW off \in BOOLEAN PROVE [NewClock EXCEPT !.isDisabled = off] \in Clock
  BY <1>1 DEF Clock
<1>3. ("audio" \in disabled) \in BOOLEAN /\ ("video" \in disabled) \in BOOLEAN
  OBVIOUS
<1> DEFINE a == [NewClock EXCEPT !.isDisabled = "audio" \in disabled]
           v == [NewClock EXCEPT !.isDisabled = "video" \in disabled]
<1>4. a \in Clock /\ v \in Clock
  BY <1>2, <1>3
<1>5. NewSync(type, disabled) = [type |-> type, audio |-> a, video |-> v, absolute |-> NewClock]
  BY DEF NewSync
<1> HIDE DEF a, v
<1> QED
  BY <1>1, <1>4, <1>5

-----------------------------------------------------------------------------
LEMMA InitInvariant == Init => PInv
<1> SUFFICES ASSUME Init PROVE PInv
  OBVIOUS
<1> USE PlayAssumption DEF Init
<1>0. << >> \in Seq(Times("audio")) /\ << >> \in Seq(Chunks) /\ Len(<< >>) = 0
  BY EmptySeq
<1>1. ClockTypeOK
  BY NewSyncOK DEF ClockTypeOK, ClockSyncType
<1>2. DecodersOK
  <2>1. ASSUME NEW s \in Streams PROVE PacketsOK(s) /\ FramesOK(s) /\ CodecOK(s)
    BY EmptySeq DEF PacketsOK, FramesOK, CodecOK, Elems
  <2> QED
    BY <2>1 DEF DecodersOK
<1>3. DisplayOK
  BY DEF DisplayOK, Elems
<1>4. MixerOK
  <2>1. /\ mixer = "none" /\ sound = Null /\ avail = 0 /\ chunk = << >> /\ channel = << >>
        /\ audioEof = FALSE
    OBVIOUS
  <2>2. FrameSamples \in Nat /\ ChunkSamples \in Nat \ {0} /\ ChannelCap \in Nat
    OBVIOUS
  <2> HIDE PlayAssumption DEF Init
  <2>3. sound \in Elems("audio") /\ avail \in 0 .. FrameSamples
    BY <2>1, <2>2 DEF Elems
  <2>7. audioEof \in BOOLEAN
    BY <2>1
  <2>4. chunk \in Seq(Times("audio")) /\ Len(chunk) < ChunkSamples
    BY <1>0, <2>1, <2>2
  <2>5. channel \in Seq(Chunks) /\ Len(channel) <= ChannelCap
    BY <1>0, <2>1, <2>2
  <2>6. mixer \in {"none", "poll", "begin", "fill", "flush", "drain", "eof"}
    BY <2>1
  <2> QED
    BY <2>1, <2>3, <2>4, <2>5, <2>6, <2>7 DEF MixerOK
<1>5. ReaderOK
  <2>1. /\ user = "idle" /\ playing = FALSE /\ paused = FALSE /\ reader = "none"
        /\ opened = {} /\ pos = 1 /\ eof = FALSE /\ lost = 0
    OBVIOUS
  <2>2. 1 \in 1 .. Len(File) + 1
    BY FileTimes
  <2> HIDE PlayAssumption DEF Init
  <2> QED
    BY <2>1, <2>2 DEF ReaderOK
<1>6. Closing
  BY DEF Closing, Closed, Ended
<1> QED
  BY <1>1, <1>2, <1>3, <1>4, <1>5, <1>6 DEF PInv

-----------------------------------------------------------------------------
(* What a step leaves alone keeps its part of the invariant. *)

LEMMA Kept ==
  /\ ClockTypeOK /\ UNCHANGED clockVars => ClockTypeOK'
  /\ DecodersOK /\ UNCHANGED decoderVars => DecodersOK'
  /\ DisplayOK /\ UNCHANGED videoVars => DisplayOK'
  /\ MixerOK /\ UNCHANGED audioVars => MixerOK'
  /\ ReaderOK /\ UNCHANGED playVars => ReaderOK'
<1>1. ClockTypeOK /\ UNCHANGED clockVars => ClockTypeOK'
  BY DEF ClockTypeOK, clockVars
<1>2. DecodersOK /\ UNCHANGED decoderVars => DecodersOK'
  BY DEF DecodersOK, PacketsOK, FramesOK, CodecOK, decoderVars
<1>3. DisplayOK /\ UNCHANGED videoVars => DisplayOK'
  BY DEF DisplayOK, videoVars
<1>4. MixerOK /\ UNCHANGED audioVars => MixerOK'
  BY DEF MixerOK, audioVars
<1>5. ReaderOK /\ UNCHANGED playVars => ReaderOK'
  BY DEF ReaderOK, playVars
<1> QED
  BY <1>1, <1>2, <1>3, <1>4, <1>5

(* A decoder that runs belongs to a stream that is not closed. *)
LEMMA DecoderKeepsClosing ==
  ASSUME Closing, DecodersOK, NEW s \in Streams, decoder[s] # "none",
         \A t \in Streams \ {s} : /\ decoder'[t] = decoder[t] /\ codec'[t] = codec[t]
                                  /\ packetQueue'[t] = packetQueue[t]
                                  /\ frameQueue'[t] = frameQueue[t],
         UNCHANGED <<user, reader, closing, display, mixer, channel>>
  PROVE  Closing'
<1>0. "video" \in Streams /\ "audio" \in Streams /\ Streams = {"video", "audio"}
  BY PlayAssumption
<1>1. reader \notin {"none", "open"}
  BY <1>0 DEF Closing, Closed
<1>2. closing = <<"audio">> => Closed("video")'
  <2> SUFFICES ASSUME closing = <<"audio">> PROVE Closed("video")'
    OBVIOUS
  <2>1. Closed("video")
    BY DEF Closing
  <2>2. s # "video"
    BY <2>1 DEF Closed
  <2> QED
    BY <1>0, <2>1, <2>2 DEF Closed, Ended
<1>3. reader = "joinDisplay" => /\ decoder'[closing[1]] = "none" /\ codec'[closing[1]] = << >>
                                /\ packetQueue'[closing[1]] = << >>
  <2> SUFFICES ASSUME reader = "joinDisplay"
               PROVE  /\ decoder'[closing[1]] = "none" /\ codec'[closing[1]] = << >>
                      /\ packetQueue'[closing[1]] = << >>
    OBVIOUS
  <2>1. closing[1] \in Streams
    BY <1>0 DEF Closing
  <2>2. /\ decoder[closing[1]] = "none" /\ codec[closing[1]] = << >>
        /\ packetQueue[closing[1]] = << >>
    BY DEF Closing
  <2> QED
    BY <2>1, <2>2
<1> QED
  BY <1>1, <1>2, <1>3 DEF Closing

-----------------------------------------------------------------------------
(* The decoders *)

(* A step of one decoder, and what it has to show of that stream alone. *)
LEMMA OneDecoder ==
  ASSUME PInv, NEW s \in Streams, DecoderRun(s),
         decoder'[s] \in {"none", "poll", "receive", "emit"},
         PacketsOK(s)', FramesOK(s)', CodecOK(s)'
  PROVE  PInv'
<1>1. /\ decoder[s] # "none"
      /\ decoderAlive' = decoderAlive /\ alive' = alive
      /\ UNCHANGED <<clockVars, videoVars, audioVars, playVars>>
  BY DEF DecoderRun, DecoderStep, DecoderEnd, SendPacket, ReceiveFrame, PacketDone, OnFrame
<1>2. /\ Streams = DOMAIN packetQueue' /\ Streams = DOMAIN frameQueue'
      /\ Streams = DOMAIN packet' /\ Streams = DOMAIN frame' /\ Streams = DOMAIN codec'
      /\ Streams = DOMAIN decoder' /\ decoder' = [t \in Streams |-> decoder'[t]]
      /\ \A t \in Streams \ {s} :
           /\ packetQueue'[t] = packetQueue[t] /\ frameQueue'[t] = frameQueue[t]
           /\ packet'[t] = packet[t] /\ frame'[t] = frame[t] /\ codec'[t] = codec[t]
           /\ decoder'[t] = decoder[t]
  BY DEF PInv, DecodersOK, DecoderRun, DecoderStep, DecoderEnd, SendPacket, ReceiveFrame,
         PacketDone, OnFrame
<1>3. \A t \in Streams : PacketsOK(t)' /\ FramesOK(t)' /\ CodecOK(t)'
  <2>1. ASSUME NEW t \in Streams, t # s PROVE PacketsOK(t)' /\ FramesOK(t)' /\ CodecOK(t)'
    BY <1>2, <2>1 DEF PInv, DecodersOK, PacketsOK, FramesOK, CodecOK
  <2> QED
    BY <2>1
<1>4. decoder' \in [Streams -> {"none", "poll", "receive", "emit"}]
  BY <1>2 DEF PInv, DecodersOK
<1>5. DecodersOK'
  BY <1>1, <1>2, <1>3, <1>4 DEF PInv, DecodersOK
<1>6. Closing'
  <2>1. UNCHANGED <<user, reader, closing, display, mixer, channel>>
    BY <1>1 DEF playVars, videoVars, audioVars
  <2> QED
    BY <1>1, <1>2, <2>1, DecoderKeepsClosing DEF PInv
<1> QED
  BY <1>1, <1>5, <1>6, Kept DEF PInv

LEMMA DecoderRuns ==
  ASSUME PInv, NEW s \in Streams, DecoderRun(s)
  PROVE  PInv'
<1>0. /\ PacketsOK(s) /\ FramesOK(s) /\ CodecOK(s) /\ DecodersOK
      /\ CodecDelay \in Nat /\ PacketCap \in Nat /\ FrameCap[s] \in Nat
      /\ Len(codec[s]) \in Nat
  BY PlayAssumption, LenProperties DEF PInv, DecodersOK, CodecOK
<1> SUFFICES /\ decoder'[s] \in {"none", "poll", "receive", "emit"}
             /\ PacketsOK(s)' /\ FramesOK(s)' /\ CodecOK(s)'
  BY OneDecoder
<1> USE <1>0
<1>1. CASE DecoderEnd(s)
  BY <1>1 DEF DecoderEnd, DecodersOK, PacketsOK, FramesOK, CodecOK
<1>2. CASE SendPacket(s)
  <2>1. /\ packetQueue'[s] = Tail(packetQueue[s]) /\ packet'[s] = Head(packetQueue[s])
        /\ codec'[s] = IF packet'[s] = Null THEN codec[s] ELSE Append(codec[s], packet'[s])
        /\ decoder'[s] = "receive" /\ decoder[s] = "poll" /\ packetQueue[s] # << >>
        /\ frameQueue' = frameQueue /\ frame' = frame
    BY <1>2 DEF SendPacket, DecodersOK
  <2>2. /\ packet'[s] \in Elems(s) /\ packetQueue'[s] \in Seq(Elems(s))
        /\ Len(packetQueue'[s]) = Len(packetQueue[s]) - 1 /\ Len(packetQueue[s]) \in Nat
    BY <2>1, HeadAndTail DEF PacketsOK
  <2>3. /\ codec'[s] \in Seq(Times(s))
        /\ Len(codec'[s]) = IF packet'[s] = Null THEN Len(codec[s]) ELSE Len(codec[s]) + 1
    <3>1. CASE packet'[s] = Null
      BY <2>1, <3>1 DEF CodecOK
    <3>2. CASE packet'[s] # Null
      <4>1. packet'[s] \in Times(s)
        BY <2>2, <3>2 DEF Elems
      <4> QED
        BY <2>1, <3>2, <4>1, Appended DEF CodecOK
    <3> QED
      BY <3>1, <3>2
  <2> QED
    BY <2>1, <2>2, <2>3 DEF PacketsOK, FramesOK, CodecOK
<1>3. CASE ReceiveFrame(s)
  <2>1. /\ frame'[s] = Head(codec[s]) /\ codec'[s] = Tail(codec[s])
        /\ decoder'[s] = "emit" /\ decoder[s] = "receive" /\ FrameReady(s)
        /\ UNCHANGED <<packetQueue, frameQueue, packet>>
    BY <1>3 DEF ReceiveFrame, DecodersOK
  <2>2. codec[s] # << >> /\ Len(codec[s]) <= CodecDelay + 1
    <3>1. Len(codec[s]) > 0
      BY <2>1 DEF FrameReady
    <3> QED
      BY <3>1, EmptySeq DEF CodecOK
  <2>3. Head(codec[s]) \in Times(s) /\ Tail(codec[s]) \in Seq(Times(s))
        /\ Len(Tail(codec[s])) = Len(codec[s]) - 1
    BY <2>2, HeadAndTail DEF CodecOK
  <2> QED
    BY <2>1, <2>2, <2>3 DEF PacketsOK, FramesOK, CodecOK, Elems
<1>4. CASE PacketDone(s)
  <2>1. /\ decoder'[s] \in {"emit", "poll"} /\ decoder[s] = "receive" /\ ~FrameReady(s)
        /\ packet'[s] \in {packet[s], Null} /\ frame'[s] \in {frame[s], Null}
        /\ UNCHANGED <<packetQueue, frameQueue, codec>>
    BY <1>4 DEF PacketDone, DecodersOK
  <2>2. Len(codec[s]) <= CodecDelay
    BY <2>1 DEF FrameReady
  <2> QED
    BY <2>1, <2>2 DEF PacketsOK, FramesOK, CodecOK, Elems
<1>5. CASE OnFrame(s)
  <2>1. /\ decoder'[s] \in {"poll", "receive"} /\ decoder[s] = "emit"
        /\ frame'[s] = Null /\ codec'[s] \in {codec[s], << >>}
        /\ UNCHANGED <<packetQueue, packet>>
        /\ \/ frameQueue' = frameQueue
           \/ frameQueue'[s] = Append(frameQueue[s], frame[s]) /\ Len(frameQueue[s]) < FrameCap[s]
    BY <1>5 DEF OnFrame, DecodersOK
  <2>2. frameQueue'[s] \in Seq(Elems(s)) /\ Len(frameQueue'[s]) <= FrameCap[s]
    <3>1. CASE frameQueue' = frameQueue
      BY <3>1 DEF FramesOK
    <3>2. CASE frameQueue'[s] = Append(frameQueue[s], frame[s]) /\ Len(frameQueue[s]) < FrameCap[s]
      <4>1. frameQueue[s] \in Seq(Elems(s)) /\ frame[s] \in Elems(s)
        BY DEF FramesOK, CodecOK
      <4>2. /\ Append(frameQueue[s], frame[s]) \in Seq(Elems(s))
            /\ Len(Append(frameQueue[s], frame[s])) = Len(frameQueue[s]) + 1
            /\ Len(frameQueue[s]) \in Nat
        BY <4>1, Appended
      <4> QED
        BY <3>2, <4>2
    <3> QED
      BY <2>1, <3>1, <3>2
  <2>3. codec'[s] \in Seq(Times(s)) /\ Len(codec'[s]) <= CodecDelay
    <3>1. << >> \in Seq(Times(s)) /\ Len(<< >>) = 0
      BY EmptySeq
    <3>2. Len(codec[s]) <= CodecDelay /\ codec[s] \in Seq(Times(s))
      BY <2>1 DEF CodecOK
    <3>3. CASE codec'[s] = codec[s]
      BY <3>2, <3>3
    <3>4. CASE codec'[s] = << >>
      BY <3>1, <3>4
    <3> QED
      BY <2>1, <3>3, <3>4
  <2> QED
    BY <2>1, <2>2, <2>3 DEF PacketsOK, FramesOK, CodecOK, Elems
<1> QED
  BY <1>1, <1>2, <1>3, <1>4, <1>5 DEF DecoderRun, DecoderStep

-----------------------------------------------------------------------------
(* The clocks *)

SyncObject == [type : ClockSyncType, audio : Clock, video : Clock, absolute : Clock]

LEMMA Updated ==
  ASSUME NEW c \in Clock, NEW pts \in Int
  PROVE  updatePts(c, pts) \in Clock
BY DEF updatePts, Clock

LEMMA SetClocks ==
  ASSUME NEW s \in SyncObject, NEW a \in Clock, NEW v \in Clock, NEW b \in Clock
  PROVE  /\ [s EXCEPT !.video = v] \in SyncObject
         /\ [s EXCEPT !.absolute = b, !.video = v] \in SyncObject
         /\ [s EXCEPT !.absolute = b, !.audio = a] \in SyncObject
BY DEF SyncObject

LEMMA ClocksSet ==
  ASSUME ClockTypeOK, NEW pts \in Int
  PROVE  /\ updateVideoPts(sync, pts) \in SyncObject /\ updateAudioPts(sync, pts) \in SyncObject
         /\ StartAudio(sync, pts) \in SyncObject /\ StartVideo(sync, pts) \in SyncObject
<1>0. /\ sync \in SyncObject /\ now \in Int
      /\ sync.audio \in Clock /\ sync.video \in Clock /\ sync.absolute \in Clock
  BY DEF ClockTypeOK, SyncObject
<1>1. /\ updatePts(sync.absolute, now) \in Clock /\ updatePts(sync.audio, pts) \in Clock
      /\ updatePts(sync.video, pts) \in Clock
  BY <1>0, Updated
<1>2. updateVideoPts(sync, pts) \in SyncObject /\ updateAudioPts(sync, pts) \in SyncObject
  BY <1>0, <1>1, SetClocks DEF updateVideoPts, updateAudioPts
<1>3. StartAudio(sync, pts) \in SyncObject
  <2> DEFINE a == IF sync.audio.startPts = NaN THEN updatePts(sync.audio, pts) ELSE sync.audio
  <2>1. a \in Clock
    BY <1>0, <1>1
  <2>2. StartAudio(sync, pts) = [sync EXCEPT !.absolute = updatePts(sync.absolute, now), !.audio = a]
    BY <1>0 DEF StartAudio, SyncObject
  <2> HIDE DEF a
  <2>3. [sync EXCEPT !.absolute = updatePts(sync.absolute, now), !.audio = a] \in SyncObject
    BY <1>0, <1>1, <2>1, SetClocks
  <2> QED
    BY <2>2, <2>3
<1>4. StartVideo(sync, pts) \in SyncObject
  <2> DEFINE v == IF sync.video.startPts = NaN THEN updatePts(sync.video, pts) ELSE sync.video
             t == [sync EXCEPT !.absolute = updatePts(sync.absolute, now), !.video = v]
             w == updatePts(t.video, t.audio.startPts)
  <2>1. v \in Clock
    BY <1>0, <1>1
  <2>2. t \in SyncObject
    <3> HIDE DEF v
    <3> QED
      BY <1>0, <1>1, <2>1, SetClocks
  <2> HIDE DEF v
  <2>3. StartVideo(sync, pts) = IF ~t.audio.isDisabled /\ t.audio.startPts \notin {NaN, t.video.startPts}
                                THEN [t EXCEPT !.video = w] ELSE t
    BY <1>0 DEF StartVideo, SyncObject, v
  <2> HIDE DEF t
  <2>4. t.audio.startPts # NaN => w \in Clock
    <3>1. t.video \in Clock /\ (t.audio.startPts # NaN => t.audio.startPts \in Int)
      BY <2>2 DEF SyncObject, Clock
    <3> QED
      BY <3>1, Updated
  <2> HIDE DEF w
  <2>5. t.audio.startPts # NaN => [t EXCEPT !.video = w] \in SyncObject
    BY <1>0, <2>2, <2>4, SetClocks
  <2> QED
    BY <2>2, <2>3, <2>5
<1> QED
  BY <1>2, <1>3, <1>4

-----------------------------------------------------------------------------
(* The video's display coroutine *)

LEMMA DisplayKeepsClosing ==
  ASSUME Closing, display # "none",
         UNCHANGED <<user, reader, closing, decoder, packetQueue, codec>>
  PROVE  Closing'
<1>1. ~Closed("video")
  BY DEF Closed, Ended
<1> QED
  BY <1>1 DEF Closing

LEMMA DisplayRuns ==
  ASSUME PInv, DisplayRun
  PROVE  PInv'
<1> USE DEF PInv, DisplayRun
<1>0. "video" \in Streams /\ Times("video") \subseteq Int
  BY PlayAssumption, FileTimes
<1>1. MixerOK' /\ ReaderOK' /\ Closing'
  <2>1. display # "none" /\ UNCHANGED <<decoder, packetQueue, codec>>
    BY DEF DisplayStep, DisplayEnd, TakeVideoFrame, ConsiderFrame, decoderVars
  <2> QED
    BY <2>1, Kept, DisplayKeepsClosing DEF playVars
<1>2. CASE DisplayEnd
  <2>1. DecodersOK' /\ ClockTypeOK'
    BY <1>2, Kept DEF DisplayEnd
  <2> QED
    BY <1>1, <1>2, <2>1 DEF DisplayEnd, DisplayOK
<1>3. CASE TakeVideoFrame
  <2>1. /\ frameQueue["video"] # << >> /\ frameQueue["video"] \in Seq(Elems("video"))
        /\ frameQueue' = [frameQueue EXCEPT !["video"] = Tail(@)]
        /\ UNCHANGED <<packetQueue, decoderAlive, alive, decoder, packet, frame, codec, clockVars>>
    BY <1>0, <1>3 DEF TakeVideoFrame, DecodersOK, FramesOK
  <2>2. /\ Head(frameQueue["video"]) \in Elems("video")
        /\ Tail(frameQueue["video"]) \in Seq(Elems("video"))
        /\ Len(Tail(frameQueue["video"])) = Len(frameQueue["video"]) - 1
        /\ Len(frameQueue["video"]) \in Nat
    BY <2>1, HeadAndTail
  <2>3. ClockTypeOK'
    BY <2>1, Kept
  <2>4. DisplayOK'
    BY <1>3, <2>2 DEF TakeVideoFrame, DisplayOK, Elems
  <2>5. FramesOK("video")'
    <3>1. frameQueue'["video"] = Tail(frameQueue["video"])
      BY <1>0, <2>1 DEF DecodersOK
    <3>2. Len(frameQueue["video"]) <= FrameCap["video"] /\ FrameCap["video"] \in Nat
      BY <1>0, PlayAssumption DEF DecodersOK, FramesOK
    <3> QED
      BY <2>2, <3>1, <3>2 DEF FramesOK
  <2>6. \A t \in Streams : PacketsOK(t)' /\ FramesOK(t)' /\ CodecOK(t)'
    BY <2>1, <2>5 DEF DecodersOK, PacketsOK, FramesOK, CodecOK
  <2>7. DecodersOK'
    BY <2>1, <2>6 DEF DecodersOK
  <2> QED
    BY <1>1, <2>3, <2>4, <2>7
<1>4. CASE ConsiderFrame
  <2>1. held \in Times("video") /\ held \in Int
    BY <1>0, <1>4 DEF ConsiderFrame, DisplayOK
  <2>2. sync' \in {StartVideo(sync, held), updateVideoPts(StartVideo(sync, held), held)} /\ now' = now
    BY <1>4 DEF ConsiderFrame
  <2>3. ClockTypeOK'
    <3>1. StartVideo(sync, held) \in SyncObject
      BY <2>1, ClocksSet
    <3>2. updateVideoPts(StartVideo(sync, held), held) \in SyncObject
      <4>1. ASSUME NEW s \in SyncObject PROVE updateVideoPts(s, held) \in SyncObject
        <5>1. s.absolute \in Clock /\ s.video \in Clock /\ now \in Int
          BY DEF SyncObject, ClockTypeOK
        <5>2. updatePts(s.absolute, now) \in Clock /\ updatePts(s.video, held) \in Clock
          BY <2>1, <5>1, Updated
        <5> QED
          BY <5>1, <5>2, SetClocks DEF updateVideoPts
      <4> QED
        BY <3>1, <4>1
    <3> QED
      BY <2>2, <3>1, <3>2 DEF ClockTypeOK, SyncObject
  <2>4. DecodersOK'
    BY <1>4 DEF ConsiderFrame, DecodersOK, PacketsOK, FramesOK, CodecOK
  <2>5. display' \in {"poll", "delay"} /\ held' \in {held, Null} /\ videoEof' = videoEof
        /\ (display' = "delay" => held' = held)
    BY <1>4 DEF ConsiderFrame
  <2>6. DisplayOK'
    BY <2>1, <2>5 DEF DisplayOK, Elems
  <2> QED
    BY <1>1, <2>3, <2>4, <2>6
<1> QED
  BY <1>2, <1>3, <1>4 DEF DisplayStep

-----------------------------------------------------------------------------
(* The audio's display coroutine and SDL's callback *)

LEMMA AudioKeepsClosing ==
  ASSUME Closing, mixer # "none" \/ channel # << >>,
         UNCHANGED <<user, reader, closing, decoder, packetQueue, codec, display>>,
         frameQueue'["video"] = frameQueue["video"]
  PROVE  Closing'
<1>1. ~Closed("audio")
  BY DEF Closed, Ended
<1>2. Closed("video") => Closed("video")'
  BY DEF Closed, Ended
<1> QED
  BY <1>1, <1>2 DEF Closing

(* A step that changes only what the coroutine has in its hands. *)
LEMMA MixerMoves ==
  ASSUME PInv, MixerRun, MixerOK', ClockTypeOK', DecodersOK'
  PROVE  PInv'
<1>1. /\ mixer # "none" /\ UNCHANGED <<decoder, packetQueue, codec>>
      /\ frameQueue'["video"] = frameQueue["video"]
      /\ UNCHANGED <<videoVars, playVars>>
  <2>1. DOMAIN frameQueue = Streams
    BY DEF PInv, DecodersOK
  <2>2. UNCHANGED <<videoVars, playVars>>
    BY DEF MixerRun
  <2>3. mixer # "none" /\ UNCHANGED <<decoder, packetQueue, codec>>
    BY DEF MixerRun, MixerStep, MixerEnd, TakeAudioFrame, BeginChunk, WaitForVideo,
           FillChunk, FlushChunk, DrainChannel, FollowAbsolute, decoderVars
  <2>4. frameQueue' = frameQueue \/ frameQueue' = [frameQueue EXCEPT !["audio"] = Tail(@)]
    BY DEF MixerRun, MixerStep, MixerEnd, TakeAudioFrame, BeginChunk, WaitForVideo,
           FillChunk, FlushChunk, DrainChannel, FollowAbsolute, decoderVars
  <2>5. frameQueue'["video"] = frameQueue["video"]
    BY <2>1, <2>4, PlayAssumption
  <2> QED
    BY <2>2, <2>3, <2>5
<1>2. Closing'
  BY <1>1, AudioKeepsClosing DEF PInv, playVars, videoVars
<1> QED
  BY <1>1, <1>2, Kept DEF PInv

LEMMA MixerTakes ==
  ASSUME PInv, MixerRun, TakeAudioFrame
  PROVE  PInv'
<1> USE DEF PInv
<1>0. "audio" \in Streams /\ FrameSamples \in Nat \ {0}
  BY PlayAssumption
<1>1. /\ frameQueue["audio"] # << >> /\ frameQueue["audio"] \in Seq(Elems("audio"))
      /\ frameQueue' = [frameQueue EXCEPT !["audio"] = Tail(@)]
      /\ UNCHANGED <<packetQueue, decoderAlive, alive, decoder, packet, frame, codec, clockVars>>
  BY <1>0 DEF TakeAudioFrame, DecodersOK, FramesOK
<1>2. /\ Head(frameQueue["audio"]) \in Elems("audio")
      /\ Tail(frameQueue["audio"]) \in Seq(Elems("audio"))
      /\ Len(Tail(frameQueue["audio"])) = Len(frameQueue["audio"]) - 1
      /\ Len(frameQueue["audio"]) \in Nat
  BY <1>1, HeadAndTail
<1>3. FramesOK("audio")'
  <2>1. frameQueue'["audio"] = Tail(frameQueue["audio"])
    BY <1>0, <1>1 DEF DecodersOK
  <2>2. Len(frameQueue["audio"]) <= FrameCap["audio"] /\ FrameCap["audio"] \in Nat
    BY <1>0, PlayAssumption DEF DecodersOK, FramesOK
  <2> QED
    BY <1>2, <2>1, <2>2 DEF FramesOK
<1>4. \A t \in Streams : PacketsOK(t)' /\ FramesOK(t)' /\ CodecOK(t)'
  BY <1>1, <1>3 DEF DecodersOK, PacketsOK, FramesOK, CodecOK
<1>5. DecodersOK'
  BY <1>1, <1>4 DEF DecodersOK
<1>6. MixerOK'
  <2>1. sound' \in Elems("audio") /\ (sound' # Null => sound' \in Times("audio"))
    BY <1>2 DEF TakeAudioFrame, Elems
  <2>2. avail' = IF sound' = Null THEN 0 ELSE FrameSamples
    BY DEF TakeAudioFrame
  <2>3. mixer' = IF sound' = Null THEN "flush" ELSE IF chunk = << >> THEN "begin" ELSE "fill"
    BY DEF TakeAudioFrame
  <2>4. UNCHANGED <<chunk, channel, audioEof>>
    BY DEF TakeAudioFrame
  <2> QED
    BY <1>0, <2>1, <2>2, <2>3, <2>4 DEF MixerOK
<1> QED
  BY <1>1, <1>5, <1>6, Kept, MixerMoves

LEMMA MixerFills ==
  ASSUME PInv, MixerRun, FillChunk
  PROVE  PInv'
<1> DEFINE room == ChunkSamples - Len(chunk)
           fill == IF room < avail THEN room ELSE avail
           more == [i \in 1 .. fill |-> sound]
           filled == chunk \o more
           full == Len(filled) = ChunkSamples
<1>0. /\ FrameSamples \in Nat /\ ChunkSamples \in Nat \ {0} /\ ChannelCap \in Nat \ {0}
      /\ mixer = "fill" /\ sound \in Times("audio") /\ Times("audio") \subseteq Int
      /\ avail \in 1 .. FrameSamples
      /\ chunk \in Seq(Times("audio")) /\ Len(chunk) < ChunkSamples /\ Len(chunk) \in Nat
      /\ channel \in Seq(Chunks) /\ Len(channel) < ChannelCap /\ Len(channel) \in Nat
  <2>1. mixer = "fill"
    BY DEF FillChunk
  <2> QED
    BY <2>1, PlayAssumption, FileTimes, LenProperties DEF PInv, MixerOK
<1>1. fill \in Nat \ {0} /\ fill <= room /\ fill <= avail
  BY <1>0
<1> HIDE DEF fill
<1>2. more \in Seq(Times("audio")) /\ Len(more) = fill
  BY <1>0, <1>1
<1> HIDE DEF more
<1>3. filled \in Seq(Times("audio")) /\ Len(filled) = Len(chunk) + fill
  BY <1>0, <1>2, ConcatProperties
<1> HIDE DEF filled
<1>4. /\ avail' = avail - fill
      /\ chunk' = IF full THEN << >> ELSE filled
      /\ channel' = IF full THEN Append(channel, filled) ELSE channel
      /\ IF avail' = 0 THEN sound' = Null /\ mixer' = "poll" ELSE mixer' = "begin" /\ sound' = sound
      /\ audioEof' = audioEof
  BY DEF FillChunk, room, fill, more, filled
<1>5. ClockTypeOK'
  <2>1. ClockTypeOK /\ sound \in Int
    BY <1>0 DEF PInv
  <2>2. sync' \in {StartAudio(sync, sound), sync} /\ now' = now
    BY DEF FillChunk
  <2> QED
    BY <2>1, <2>2, ClocksSet DEF ClockTypeOK, SyncObject
<1>6. DecodersOK'
  BY DEF FillChunk, PInv, DecodersOK, PacketsOK, FramesOK, CodecOK
<1>7. chunk' \in Seq(Times("audio")) /\ Len(chunk') < ChunkSamples
  <2>1. << >> \in Seq(Times("audio")) /\ Len(<< >>) = 0
    BY EmptySeq
  <2>2. CASE full
    BY <1>0, <1>4, <2>1, <2>2
  <2>3. CASE ~full
    <3>1. chunk' = filled
      BY <1>4, <2>3
    <3>2. Len(filled) < ChunkSamples
      BY <1>0, <1>1, <1>3, <2>3 DEF room
    <3> QED
      BY <1>3, <3>1, <3>2
  <2> QED
    BY <2>2, <2>3
<1>8. /\ channel' \in Seq(Chunks) /\ Len(channel') <= ChannelCap
      /\ ~full => Len(channel') < ChannelCap
  <2>1. CASE full
    <3>1. filled \in Chunks
      BY <1>0, <1>3, <2>1 DEF Chunks
    <3>2. Append(channel, filled) \in Seq(Chunks) /\ Len(Append(channel, filled)) = Len(channel) + 1
      BY <1>0, <3>1, Appended
    <3> QED
      BY <1>0, <1>4, <2>1, <3>2
  <2>2. CASE ~full
    BY <1>0, <1>4, <2>2
  <2> QED
    BY <2>1, <2>2
<1>9. MixerOK'
  <2>1. avail' \in 0 .. FrameSamples /\ (avail' # 0 => avail' > 0 /\ full)
    BY <1>0, <1>1, <1>3, <1>4 DEF fill, room
  <2>2. sound' \in Elems("audio") /\ mixer' \in {"poll", "begin"}
        /\ (mixer' = "begin" => sound' \in Times("audio") /\ avail' > 0 /\ chunk' = << >>)
    BY <1>0, <1>4, <2>1 DEF Elems
  <2>3. chunk' # << >> => ~full
    BY <1>4
  <2>4. audioEof' \in BOOLEAN
    BY <1>4 DEF PInv, MixerOK
  <2> QED
    BY <1>7, <1>8, <2>1, <2>2, <2>3, <2>4 DEF MixerOK
<1> QED
  BY <1>5, <1>6, <1>9, MixerMoves

LEMMA MixerRuns ==
  ASSUME PInv, MixerRun
  PROVE  PInv'
<1>0. /\ ClockTypeOK /\ DecodersOK /\ MixerOK
      /\ "audio" \in Streams /\ FrameSamples \in Nat /\ ChunkSamples \in Nat \ {0}
      /\ ChannelCap \in Nat \ {0} /\ Times("audio") \subseteq Int
      /\ << >> \in Seq(Times("audio")) /\ Len(<< >>) = 0
      /\ Len(channel) \in Nat
  BY PlayAssumption, FileTimes, EmptySeq, LenProperties DEF PInv, MixerOK
<1>1. CASE MixerEnd
  BY <1>0, <1>1, Kept, MixerMoves DEF MixerEnd, MixerOK
<1>2. CASE BeginChunk
  BY <1>0, <1>2, Kept, MixerMoves DEF BeginChunk, MixerOK
<1>3. CASE WaitForVideo
  <2>1. sound \in Int /\ sync' = StartAudio(sync, sound) /\ now' = now
    BY <1>0, <1>3 DEF WaitForVideo, MixerOK
  <2>2. ClockTypeOK'
    BY <1>0, <2>1, ClocksSet DEF ClockTypeOK, SyncObject
  <2> QED
    BY <1>0, <1>3, <2>2, Kept, MixerMoves DEF WaitForVideo
<1>4. CASE FlushChunk
  <2>1. /\ channel' = IF chunk = << >> THEN channel ELSE Append(channel, chunk)
        /\ chunk' = << >> /\ mixer' = "drain"
        /\ UNCHANGED <<decoderVars, clockVars, sound, avail, audioEof>>
    BY <1>4 DEF FlushChunk
  <2>2. channel' \in Seq(Chunks) /\ Len(channel') <= ChannelCap
    <3>1. CASE chunk = << >>
      BY <1>0, <2>1, <3>1 DEF MixerOK
    <3>2. CASE chunk # << >>
      <4>1. Len(chunk) \in Nat \ {0} /\ Len(chunk) < ChunkSamples /\ chunk \in Seq(Times("audio"))
        BY <1>0, <3>2, EmptySeq DEF MixerOK
      <4>2. chunk \in Chunks
        BY <1>0, <4>1 DEF Chunks
      <4>3. channel \in Seq(Chunks) /\ Len(channel) < ChannelCap
        BY <1>0, <3>2 DEF MixerOK
      <4> QED
        BY <1>0, <2>1, <3>2, <4>2, <4>3, Appended
    <3> QED
      BY <3>1, <3>2
  <2>3. MixerOK'
    BY <1>0, <2>1, <2>2 DEF MixerOK
  <2> QED
    BY <1>0, <2>1, <2>3, Kept, MixerMoves
<1>5. CASE DrainChannel
  BY <1>0, <1>5, Kept, MixerMoves DEF DrainChannel, MixerOK
<1>6. CASE FollowAbsolute
  <2>1. ClockTypeOK'
    BY <1>0, <1>6 DEF FollowAbsolute, ClockTypeOK, ClockSyncType
  <2>2. MixerOK'
    BY <1>0, <1>6 DEF FollowAbsolute, MixerOK
  <2> QED
    BY <1>0, <1>6, <2>1, <2>2, Kept, MixerMoves DEF FollowAbsolute
<1> QED
  BY <1>1, <1>2, <1>3, <1>4, <1>5, <1>6, MixerTakes, MixerFills DEF MixerRun, MixerStep

LEMMA CallbackRuns ==
  ASSUME PInv, CallbackRun
  PROVE  PInv'
<1> USE DEF PInv
<1>1. /\ channel # << >> /\ channel' = Tail(channel)
      /\ sync' = updateAudioPts(sync, Head(channel)[1]) /\ now' = now
      /\ UNCHANGED <<decoderVars, mixer, sound, avail, chunk, audioEof, videoVars, playVars>>
  BY DEF CallbackRun, audioCallback
<1>2. /\ Head(channel) \in Chunks /\ channel' \in Seq(Chunks)
      /\ Len(channel') = Len(channel) - 1 /\ Len(channel) \in Nat
  BY <1>1, HeadAndTail DEF MixerOK
<1>3. Head(channel)[1] \in Int
  BY <1>2, ElementOfSeq, FileTimes, PlayAssumption DEF Chunks
<1>4. ClockTypeOK'
  BY <1>1, <1>3, ClocksSet DEF ClockTypeOK, SyncObject
<1>5. MixerOK'
  BY <1>1, <1>2, PlayAssumption DEF MixerOK
<1>6. Closing'
  BY <1>1, AudioKeepsClosing DEF decoderVars, videoVars, playVars
<1> QED
  BY <1>1, <1>4, <1>5, <1>6, Kept

-----------------------------------------------------------------------------
(* The user, and the passing of time *)

LEMMA UserActs ==
  ASSUME PInv, start \/ setIsPaused \/ stop \/ StopReturns
  PROVE  PInv'
<1> USE DEF PInv
<1>1. UNCHANGED <<decoderVars, clockVars, videoVars, audioVars, opened, closing, pos, eof,
                  toWrite, lost>>
      /\ playing' \in {playing, TRUE, FALSE} /\ paused' \in {paused, ~paused}
  BY DEF start, setIsPaused, stop, StopReturns
<1>2. ReaderOK'
  <2>1. playing' \in BOOLEAN /\ paused' \in BOOLEAN
    BY <1>1 DEF ReaderOK
  <2>2. user' \in {"idle", "playing", "stopping"}
        /\ (reader' = reader \/ reader' = "open")
    BY DEF start, setIsPaused, stop, StopReturns, ReaderOK
  <2> QED
    BY <1>1, <2>1, <2>2 DEF ReaderOK
<1>3. Closing'
  <2>1. UNCHANGED <<decoder, packetQueue, frameQueue, codec, display, mixer, channel, closing>>
    BY <1>1 DEF decoderVars, videoVars, audioVars
  <2>2. Closed("video")' = Closed("video") /\ Closed("audio")' = Closed("audio")
    BY <2>1 DEF Closed, Ended
  <2> QED
    BY <2>1, <2>2 DEF Closing, start, setIsPaused, stop, StopReturns
<1> QED
  BY <1>1, <1>2, <1>3, Kept

LEMMA TimePasses ==
  ASSUME PInv, Tick
  PROVE  PInv'
<1>1. ClockTypeOK'
  BY PlayAssumption DEF PInv, Tick, ClockTypeOK
<1>2. Closing'
  BY DEF PInv, Tick, Closing, Closed, Ended, decoderVars, videoVars, audioVars, playVars
<1> QED
  BY <1>1, <1>2, Kept DEF PInv, Tick

-----------------------------------------------------------------------------
(* The reading coroutine *)

LEMMA ReaderFailsToOpen ==
  ASSUME PInv, OpenFails
  PROVE  PInv'
<1> USE DEF PInv, OpenFails, BeginPass
<1>1. ClockTypeOK'
  BY NewSyncOK DEF ClockTypeOK, ClockSyncType
<1>2. DisplayOK'
  BY DEF DisplayOK
<1>3. MixerOK'
  BY DEF MixerOK
<1>4. ReaderOK'
  <2>1. 1 \in 1 .. Len(File) + 1
    BY FileTimes
  <2>2. pos' = 1 /\ opened' = {} /\ lost' = 0 /\ reader' = "closeDecoder"
        /\ UNCHANGED <<user, playing, paused>>
    OBVIOUS
  <2>3. eof' \in BOOLEAN
    OBVIOUS
  <2> HIDE DEF OpenFails, BeginPass
  <2> QED
    BY <2>1, <2>2, <2>3 DEF ReaderOK
<1>5. Closing'
  BY DEF Closing
<1> QED
  BY <1>1, <1>2, <1>3, <1>4, <1>5, Kept

LEMMA ReaderOpens ==
  ASSUME PInv, OpenStreams
  PROVE  PInv'
<1> USE DEF PInv
<1>0. reader = "open" /\ closing = << >> /\ \A s \in Streams : decoder[s] = "none"
  BY PlayAssumption DEF OpenStreams, Closing, Closed
<1>1. PICK v \in VideoOpens, a \in AudioOpens :
        LET outcome == [s \in Streams |-> IF s = "video" THEN v ELSE a] IN
        /\ opened' = {s \in Streams : outcome[s] \in {"open", "noSDL"}}
        /\ Open({s \in Streams : outcome[s] # "absent"})
        /\ OpenVideo(v) /\ OpenAudio(a)
        /\ alive' = [s \in Streams |-> outcome[s] = "open" \/ alive[s]]
        /\ sync' = NewSync(IF "audio" \in opened' THEN "audio" ELSE "video", Streams \ opened')
        /\ BeginPass /\ lost' = 0
        /\ reader' = "loop"
        /\ UNCHANGED <<user, playing, paused, closing, toWrite>>
  BY DEF OpenStreams
<1>2. opened' \subseteq Streams /\ reader' = "loop" /\ lost' = 0 /\ pos' = 1 /\ eof' = FALSE
      /\ UNCHANGED <<user, playing, paused, closing>>
  BY <1>1 DEF BeginPass
<1>3. ClockTypeOK'
  <2>1. (IF "audio" \in opened' THEN "audio" ELSE "video") \in ClockSyncType
    BY DEF ClockSyncType
  <2>2. now' = 0
    BY <1>1 DEF BeginPass
  <2> QED
    BY <1>1, <2>1, <2>2, NewSyncOK DEF ClockTypeOK
<1>4. DecodersOK'
  <2>1. /\ UNCHANGED <<packetQueue, frameQueue, packet, frame, codec>>
        /\ decoder' \in [Streams -> {"none", "poll", "receive", "emit"}]
        /\ \A s \in Streams : decoder'[s] # "receive"
    BY <1>1 DEF Open
  <2>2. decoderAlive' \in [Streams -> BOOLEAN]
    BY <1>1 DEF Open
  <2>3. alive' \in [Streams -> BOOLEAN]
    BY <1>1
  <2>4. \A s \in Streams : PacketsOK(s)' /\ FramesOK(s)' /\ CodecOK(s)'
    BY <1>0, <2>1 DEF DecodersOK, PacketsOK, FramesOK, CodecOK
  <2> QED
    BY <2>1, <2>2, <2>3, <2>4 DEF DecodersOK
<1>5. DisplayOK'
  <2>1. display' \in {"none", "poll"} /\ held' = held /\ videoEof' = FALSE
    BY <1>1 DEF OpenVideo, BeginPass
  <2> QED
    BY <2>1 DEF DisplayOK
<1>6. MixerOK'
  <2>1. mixer' \in {"none", "poll"} /\ audioEof' = FALSE
        /\ UNCHANGED <<sound, avail, chunk, channel>>
    BY <1>1 DEF OpenAudio, BeginPass
  <2> QED
    BY <2>1 DEF MixerOK
<1>7. ReaderOK'
  <2>1. 1 \in 1 .. Len(File) + 1
    BY FileTimes
  <2>2. eof' \in BOOLEAN
    BY <1>2
  <2> QED
    BY <1>2, <2>1, <2>2 DEF ReaderOK
<1>8. Closing'
  BY <1>0, <1>2 DEF Closing
<1> QED
  BY <1>3, <1>4, <1>5, <1>6, <1>7, <1>8

(* The steps of the loop that leave the streams alone. *)
LEMMA ReaderLoops ==
  ASSUME PInv, LoopTop \/ ReadEof \/ ReadFails
  PROVE  PInv'
<1> USE DEF PInv
<1>1. /\ UNCHANGED <<decoderVars, clockVars, videoVars, audioVars, user, playing, paused, opened, pos>>
      /\ reader \in {"loop", "read"} /\ reader' \in {"read", "write", "closeDecoder"}
  BY DEF LoopTop, ReadEof, ReadFails
<1>2. closing' = IF reader' = "closeDecoder" THEN <<"video", "audio">> ELSE << >>
  BY DEF LoopTop, ReadEof, ReadFails, Closing
<1>3. Closing'
  BY <1>1, <1>2 DEF Closing
<1>4. ReaderOK'
  <2>1. eof' \in BOOLEAN
    BY DEF LoopTop, ReadEof, ReadFails, ReaderOK
  <2>2. lost' \in {0, 1} /\ (reader' \in {"loop", "read", "write"} => lost' = 0)
    BY DEF LoopTop, ReadEof, ReadFails, ReaderOK
  <2>3. reader' = "write" => toWrite' \in Seq(Writes) /\ toWrite' # << >>
    <3> SUFFICES ASSUME reader' = "write" PROVE toWrite' \in Seq(Writes) /\ toWrite' # << >>
      OBVIOUS
    <3>1. toWrite' = << <<"video", Null>>, <<"audio", Null>> >>
      BY DEF LoopTop, ReadEof, ReadFails
    <3>2. <<"video", Null>> \in Writes /\ <<"audio", Null>> \in Writes
      BY PlayAssumption DEF Writes, Elems
    <3> QED
      BY <3>1, <3>2
  <2> QED
    BY <1>1, <2>1, <2>2, <2>3 DEF ReaderOK
<1> QED
  BY <1>1, <1>3, <1>4, Kept

LEMMA ReaderReads ==
  ASSUME PInv, ReadPacket
  PROVE  PInv'
<1> USE DEF PInv
<1>1. /\ reader = "read" /\ pos \in 1 .. Len(File) /\ pos' = pos + 1
      /\ UNCHANGED <<packetQueue, frameQueue, decoderAlive, alive, decoder, packet, frame,
                     codec, clockVars, videoVars, audioVars,
                     user, playing, paused, opened, closing, eof, lost>>
  BY FileTimes DEF ReadPacket, ReaderOK
<1>2. \/ reader' = "loop"
      \/ reader' = "write" /\ toWrite' = << <<File[pos].stream, File[pos].pts>> >>
  BY DEF ReadPacket
<1>3. <<File[pos].stream, File[pos].pts>> \in Writes
  BY <1>1, FileTimes DEF Writes, Elems
<1>4. DecodersOK'
  BY <1>1 DEF DecodersOK, PacketsOK, FramesOK, CodecOK
<1>5. ReaderOK'
  <2>1. pos' \in 1 .. Len(File) + 1
    BY <1>1, FileTimes
  <2>2. reader' = "write" => toWrite' \in Seq(Writes) /\ toWrite' # << >>
    <3>1. << <<File[pos].stream, File[pos].pts>> >> \in Seq(Writes)
      BY <1>3
    <3>2. << <<File[pos].stream, File[pos].pts>> >> # << >>
      OBVIOUS
    <3> QED
      BY <1>2, <3>1, <3>2
  <2>3. reader' \in {"loop", "write"}
    BY <1>2
  <2> QED
    BY <1>1, <2>1, <2>2, <2>3 DEF ReaderOK
<1>6. Closing'
  BY <1>1, <1>2 DEF Closing
<1> QED
  BY <1>1, <1>4, <1>5, <1>6, Kept

LEMMA ReaderWrites ==
  ASSUME PInv, WritePacket
  PROVE  PInv'
<1> USE DEF PInv
<1>1. /\ reader = "write" /\ toWrite \in Seq(Writes) /\ toWrite # << >>
      /\ toWrite' = Tail(toWrite)
      /\ reader' = IF toWrite' = << >> THEN "loop" ELSE "write"
      /\ UNCHANGED <<frameQueue, decoderAlive, alive, decoder, packet, frame, codec,
                     clockVars, videoVars, audioVars,
                     user, playing, paused, opened, closing, pos, eof, lost>>
  BY DEF WritePacket, ReaderOK
<1>2. Head(toWrite) \in Writes /\ Tail(toWrite) \in Seq(Writes) /\ Head(toWrite) = toWrite[1]
  BY <1>1, HeadAndTail
<1>s. PICK s \in Streams : \E e \in Elems(s) : toWrite[1] = <<s, e>>
  BY <1>2 DEF Writes
<1>3. PICK p \in Elems(s) : toWrite[1] = <<s, p>>
  BY <1>s
<1>w. Len(packetQueue[s]) < PacketCap /\ packetQueue' = [packetQueue EXCEPT ![s] = Append(@, p)]
  BY <1>3 DEF WritePacket, Write
<1>4. PacketsOK(s)'
  <2>1. packetQueue[s] \in Seq(Elems(s)) /\ packetQueue'[s] = Append(packetQueue[s], p)
    BY <1>3, <1>w DEF DecodersOK, PacketsOK
  <2>2. packetQueue'[s] \in Seq(Elems(s)) /\ Len(packetQueue'[s]) = Len(packetQueue[s]) + 1
        /\ Len(packetQueue[s]) \in Nat
    BY <1>3, <2>1, Appended
  <2> QED
    BY <1>w, <2>2, PlayAssumption DEF PacketsOK
<1>5. \A t \in Streams : PacketsOK(t)' /\ FramesOK(t)' /\ CodecOK(t)'
  BY <1>1, <1>3, <1>w, <1>4 DEF DecodersOK, PacketsOK, FramesOK, CodecOK
<1>6. DecodersOK'
  BY <1>1, <1>3, <1>w, <1>5 DEF DecodersOK
<1>7. ReaderOK'
  BY <1>1, <1>2 DEF ReaderOK
<1>8. Closing'
  BY <1>1 DEF Closing
<1> QED
  BY <1>1, <1>6, <1>7, <1>8, Kept

LEMMA ReaderRestarts ==
  ASSUME PInv, Restart
  PROVE  PInv'
<1> USE DEF PInv
<1>1. /\ reader = "loop" /\ pos' = 1 /\ eof' = FALSE /\ now' = 0
      /\ videoEof' = FALSE /\ audioEof' = FALSE
      /\ UNCHANGED <<decoderVars, display, held, mixer, sound, avail, chunk, channel,
                     user, playing, paused, reader, opened, closing, toWrite, lost>>
  BY DEF Restart, BeginPass
<1>2. ClockTypeOK'
  <2>1. NewClock \in Clock
    BY DEF NewClock, Clock
  <2>2. sync' = [reset(sync) EXCEPT !.type = "audio"] /\ sync \in SyncObject
    BY DEF Restart, ClockTypeOK, SyncObject
  <2>3. sync' \in SyncObject
    BY <2>1, <2>2 DEF reset, SyncObject, ClockSyncType
  <2> QED
    BY <1>1, <2>3 DEF ClockTypeOK, SyncObject
<1>3. DisplayOK'
  BY <1>1 DEF DisplayOK
<1>4. MixerOK'
  BY <1>1 DEF MixerOK
<1>5. ReaderOK'
  <2>1. 1 \in 1 .. Len(File) + 1
    BY FileTimes
  <2>2. eof' \in BOOLEAN
    BY <1>1
  <2> QED
    BY <1>1, <2>1, <2>2 DEF ReaderOK
<1>6. Closing'
  BY <1>1 DEF Closing
<1> QED
  BY <1>1, <1>2, <1>3, <1>4, <1>5, <1>6, Kept

(* Closing a stream: its decoder ends, then its display coroutine, and the *)
(* queue that each of them was fed or fed is emptied.                      *)
LEMMA ReaderCloses ==
  ASSUME PInv, CloseDecoder \/ JoinDecoder \/ JoinDisplay
  PROVE  PInv'
<1> USE DEF PInv
<1>s. PICK s : s = closing[1]
  OBVIOUS
<1>0. /\ closing = <<"video", "audio">> \/ closing = <<"audio">>
      /\ reader \in {"closeDecoder", "joinDecoder", "joinDisplay"}
      /\ s \in Streams /\ Streams = {"video", "audio"}
  BY <1>s, PlayAssumption DEF CloseDecoder, JoinDecoder, JoinDisplay, Closing
<1>a. s = IF closing = <<"audio">> THEN "audio" ELSE "video"
  BY <1>0, <1>s
<1>b. /\ Tail(<<"video", "audio">>) = <<"audio">> /\ Tail(<<"audio">>) = << >>
      /\ <<"video", "audio">> # <<"audio">>
  OBVIOUS
<1>c. \A t \in Streams : << >> \in Seq(Elems(t)) /\ << >> \in Seq(Times(t))
  BY EmptySeq
<1>d. /\ Len(<< >>) = 0 /\ PacketCap \in Nat /\ CodecDelay \in Nat /\ ChannelCap \in Nat \ {0}
      /\ \A t \in Streams : FrameCap[t] \in Nat
  BY PlayAssumption, EmptySeq
<1>1. CASE CloseDecoder
  <2>1. /\ decoderAlive' = [decoderAlive EXCEPT ![s] = FALSE] /\ reader' = "joinDecoder"
        /\ UNCHANGED <<packetQueue, frameQueue, alive, decoder, packet, frame, codec,
                       clockVars, videoVars, audioVars,
                       user, playing, paused, opened, closing, pos, eof, toWrite, lost>>
        /\ reader = "closeDecoder"
    BY <1>s, <1>1 DEF CloseDecoder
  <2>2. DecodersOK'
    <3>1. decoderAlive' \in [Streams -> BOOLEAN]
      BY <2>1 DEF DecodersOK
    <3> QED
      BY <2>1, <3>1 DEF DecodersOK, PacketsOK, FramesOK, CodecOK
  <2>3. ReaderOK'
    BY <2>1 DEF ReaderOK
  <2>4. Closing'
    BY <2>1 DEF Closing, Closed, Ended, videoVars, audioVars
  <2> QED
    BY <2>1, <2>2, <2>3, <2>4, Kept
<1>2. CASE JoinDecoder
  <2>1. /\ packetQueue' = [packetQueue EXCEPT ![s] = << >>] /\ codec' = [codec EXCEPT ![s] = << >>]
        /\ alive' = [alive EXCEPT ![s] = FALSE]
        /\ reader = "joinDecoder" /\ reader' = "joinDisplay" /\ decoder[s] = "none"
        /\ UNCHANGED <<frameQueue, decoderAlive, decoder, packet, frame,
                       clockVars, videoVars, audioVars,
                       user, playing, paused, opened, closing, pos, eof, toWrite, lost>>
    BY <1>s, <1>2 DEF JoinDecoder
  <2>2. DecodersOK'
    <3>1. alive' \in [Streams -> BOOLEAN]
      BY <2>1 DEF DecodersOK
    <3>2. PacketsOK(s)' /\ CodecOK(s)'
      BY <1>0, <1>c, <1>d, <2>1 DEF DecodersOK, PacketsOK, CodecOK
    <3>3. \A t \in Streams : PacketsOK(t)' /\ FramesOK(t)' /\ CodecOK(t)'
      BY <2>1, <3>2 DEF DecodersOK, PacketsOK, FramesOK, CodecOK
    <3> QED
      BY <2>1, <3>1, <3>3 DEF DecodersOK
  <2>3. ReaderOK'
    BY <2>1 DEF ReaderOK
  <2>4. packetQueue'[s] = << >> /\ codec'[s] = << >>
    BY <1>0, <2>1 DEF DecodersOK
  <2>5. closing = <<"audio">> => Closed("video")'
    BY <1>a, <2>1, PlayAssumption DEF Closing, Closed, Ended, DecodersOK, videoVars
  <2>6. Closing'
    BY <1>0, <1>s, <2>1, <2>4, <2>5 DEF Closing
  <2> QED
    BY <2>1, <2>2, <2>3, <2>6, Kept
<1>3. CASE JoinDisplay
  <2>1. /\ frameQueue' = [frameQueue EXCEPT ![s] = << >>]
        /\ channel' = IF s = "audio" THEN << >> ELSE channel
        /\ closing' = Tail(closing)
        /\ reader = "joinDisplay" /\ reader' = IF s = "audio" THEN "none" ELSE "closeDecoder"
        /\ Ended(s)
        /\ UNCHANGED <<packetQueue, decoderAlive, alive, decoder, packet, frame, codec,
                       clockVars, videoVars, mixer, sound, avail, chunk, audioEof,
                       user, playing, paused, opened, pos, eof, toWrite, lost>>
    BY <1>s, <1>3 DEF JoinDisplay
  <2>2. DecodersOK'
    <3>1. FramesOK(s)'
      BY <1>0, <1>c, <1>d, <2>1 DEF DecodersOK, FramesOK
    <3>2. \A t \in Streams : PacketsOK(t)' /\ FramesOK(t)' /\ CodecOK(t)'
      BY <2>1, <3>1 DEF DecodersOK, PacketsOK, FramesOK, CodecOK
    <3> QED
      BY <2>1, <3>2 DEF DecodersOK
  <2>3. MixerOK'
    <3>1. << >> \in Seq(Chunks)
      BY EmptySeq
    <3> QED
      BY <1>d, <2>1, <3>1 DEF MixerOK
  <2>4. ReaderOK'
    BY <2>1 DEF ReaderOK
  <2>5. /\ frameQueue'[s] = << >> /\ decoder'[s] = "none" /\ packetQueue'[s] = << >>
        /\ codec'[s] = << >>
        /\ \A t \in Streams : t # s => frameQueue'[t] = frameQueue[t]
    BY <1>0, <1>s, <2>1 DEF DecodersOK, Closing
  <2>6. Closed(s)'
    BY <2>1, <2>5 DEF Closed, Ended, videoVars
  <2>7. closing = <<"audio">> => Closed("video")'
    BY <1>0, <1>a, <2>1, <2>5 DEF Closing, Closed, Ended, videoVars
  <2>8. Closing'
    <3>1. CASE closing = <<"audio">>
      BY <1>a, <1>b, <2>1, <2>6, <2>7, <3>1 DEF Closing
    <3>2. CASE closing = <<"video", "audio">>
      BY <1>a, <1>b, <2>1, <2>6, <3>2 DEF Closing
    <3> QED
      BY <1>0, <3>1, <3>2
  <2> QED
    BY <2>1, <2>2, <2>3, <2>4, <2>8, Kept
<1> QED
  BY <1>1, <1>2, <1>3

-----------------------------------------------------------------------------
LEMMA Stuttering ==
  ASSUME PInv, UNCHANGED vars
  PROVE  PInv'
<1>1. UNCHANGED <<decoderVars, clockVars, videoVars, audioVars, playVars>>
  BY DEF vars
<1>2. Closing'
  BY <1>1 DEF PInv, Closing, Closed, Ended, decoderVars, videoVars, audioVars, playVars
<1> QED
  BY <1>1, <1>2, Kept DEF PInv

LEMMA StepInvariant == PInv /\ [Next]_vars => PInv'
<1> SUFFICES ASSUME PInv, [Next]_vars PROVE PInv'
  OBVIOUS
<1>1. CASE ReaderStep
  BY <1>1, ReaderFailsToOpen, ReaderOpens, ReaderLoops, ReaderReads, ReaderWrites,
     ReaderRestarts, ReaderCloses DEF ReaderStep
<1>2. CASE \E s \in Streams : DecoderRun(s)
  BY <1>2, DecoderRuns
<1> QED
  BY <1>1, <1>2, UserActs, DisplayRuns, MixerRuns, CallbackRuns, TimePasses, Stuttering DEF Next

LEMMA Invariance == Spec => []PInv
BY InitInvariant, StepInvariant, PTL DEF Spec

(* The types of the player's state hold, and with them the bounds: no      *)
(* queue is overfilled and no chunk enters a channel that is full          *)
(* (AudioRingBuffer's users in decoder.cpp, video.cpp and audio.cpp).      *)
THEOREM PlayTypeCorrect == Spec => []PlayTypeOK
<1>1. PInv => PlayTypeOK
  <2> SUFFICES ASSUME PInv PROVE PlayTypeOK
    OBVIOUS
  <2> USE DEF PInv
  <2>1. \A s \in Streams :
          /\ packetQueue[s] \in Seq(Times(s) \cup {Null}) /\ Len(packetQueue[s]) <= PacketCap
          /\ frameQueue[s] \in Seq(Times(s) \cup {Null}) /\ Len(frameQueue[s]) <= FrameCap[s]
          /\ packet[s] \in Times(s) \cup {Null} /\ frame[s] \in Times(s) \cup {Null}
          /\ codec[s] \in Seq(Times(s)) /\ Len(codec[s]) <= CodecDelay + 1
    <3> SUFFICES ASSUME NEW s \in Streams
                 PROVE  /\ PacketsOK(s) /\ FramesOK(s) /\ CodecOK(s)
                        /\ Len(codec[s]) <= CodecDelay + 1
      BY DEF PacketsOK, FramesOK, CodecOK, Elems
    <3>1. PacketsOK(s) /\ FramesOK(s) /\ CodecOK(s)
      BY DEF DecodersOK
    <3>2. Len(codec[s]) \in Nat
      BY <3>1, LenProperties DEF CodecOK
    <3> QED
      BY <3>1, <3>2, PlayAssumption DEF CodecOK
  <2>2. \A i \in DOMAIN channel : /\ channel[i] \in Seq(Times("audio"))
                                  /\ Len(channel[i]) \in 1 .. ChunkSamples
    <3>1. channel \in Seq(Chunks)
      BY DEF MixerOK
    <3>2. \A i \in DOMAIN channel : channel[i] \in Chunks
      BY <3>1, LenProperties, ElementOfSeq
    <3> QED
      BY <3>2 DEF Chunks
  <2>3. {playing, paused, eof, videoEof, audioEof} \subseteq BOOLEAN
    BY DEF ReaderOK, DisplayOK, MixerOK
  <2>4. /\ decoderAlive \in [Streams -> BOOLEAN] /\ alive \in [Streams -> BOOLEAN]
        /\ decoder \in [Streams -> {"none", "poll", "receive", "emit"}]
    BY DEF DecodersOK
  <2>5. /\ display \in {"none", "poll", "delay"} /\ held \in Times("video") \cup {Null}
        /\ sound \in Times("audio") \cup {Null} /\ avail \in 0 .. FrameSamples
        /\ mixer \in {"none", "poll", "begin", "fill", "flush", "drain", "eof"}
        /\ Len(chunk) < ChunkSamples /\ Len(channel) <= ChannelCap
    BY DEF DisplayOK, MixerOK, Elems
  <2>6. /\ user \in {"idle", "playing", "stopping"}
        /\ reader \in {"none", "open", "loop", "read", "write", "closeDecoder",
                       "joinDecoder", "joinDisplay"}
        /\ opened \subseteq Streams /\ pos \in 1 .. Len(File) + 1 /\ lost \in {0, 1}
    BY DEF ReaderOK
  <2> QED
    BY <2>1, <2>2, <2>3, <2>4, <2>5, <2>6 DEF PlayTypeOK
<1> QED
  BY <1>1, Invariance, PTL

(* Whatever failed to open, and wherever stop(), a failed read or an       *)
(* interruption ended the loop: when _readThread returns no coroutine of   *)
(* the player is left, and every queue is empty (Play::_readThread,        *)
(* Video::close, Audio::close, Decoder::close).                            *)
THEOREM NothingIsLeft == Spec => []NothingOutlivesReader
<1>1. PInv => NothingOutlivesReader
  BY PlayAssumption DEF PInv, Closing, Closed, Ended, NothingOutlivesReader, CoroutinesEnded
<1> QED
  BY <1>1, Invariance, PTL
=============================================================================
