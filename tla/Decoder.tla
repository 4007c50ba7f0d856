------------------------------ MODULE Decoder ------------------------------
(***************************************************************************)
(* Decoder (src/decoder.cpp): a queue of packets, a coroutine that feeds   *)
(* them to the codec, and the sink onFrame that the owner (Video or Audio) *)
(* gave it.  Both sinks wait until the owner's frame queue has room.       *)
(*                                                                         *)
(* A packet or a frame is its presentation time; Null is nullptr, which    *)
(* tells the codec, and then the owner, that the file has ended.  The      *)
(* queues are the bounded queues that RingBuffer implements, and _wg.Wait()*)
(* waits until the coroutine is "none", as WaitGroup!WaitMeansDone says.   *)
(***************************************************************************)
EXTENDS Integers, Sequences

CONSTANTS
  Streams,      \* the streams a player handles, each with its own decoder
  Null,         \* nullptr
  PacketCap,    \* elements _packetQueue can hold (2047 in the code)
  FrameCap,     \* elements each stream's _frameQueue can hold (1 and 7)
  CodecDelay    \* packets a codec keeps before it gives the first frame

VARIABLES
  packetQueue, frameQueue,
  decoderAlive,   \* Decoder::_isAlive
  alive,          \* Video::_isAlive, Audio::_isAlive
  decoder,        \* where the decoder's coroutine is
  packet,         \* pkt: the packet being decoded
  frame,          \* out: the frame being handed to onFrame
  codec,          \* the packets the codec keeps
  livePackets,    \* history: AVPackets allocated and not freed
  liveFrames      \* history: AVFrames allocated and not freed

decoderVars == <<packetQueue, frameQueue, decoderAlive, alive, decoder, packet,
                 frame, codec, livePackets, liveFrames>>

(* open(): the coroutines of the decoders in S are started. *)
Open(S) ==
  /\ decoderAlive' = [s \in Streams |-> s \in S]
  /\ decoder' = [s \in Streams |-> IF s \in S THEN "poll" ELSE "none"]
  /\ UNCHANGED <<packetQueue, frameQueue, packet, frame, codec, livePackets, liveFrames>>

(* write(): the reading thread waits while the queue is full. *)
Write(s, pkt) ==
  /\ Len(packetQueue[s]) < PacketCap
  /\ packetQueue' = [packetQueue EXCEPT ![s] = Append(@, pkt)]

(* The coroutine ends. *)
DecoderEnd(s) ==
  /\ decoder[s] = "poll" /\ ~decoderAlive[s]
  /\ decoder' = [decoder EXCEPT ![s] = "none"]
  /\ UNCHANGED <<packetQueue, frameQueue, decoderAlive, alive, packet, frame,
                 codec, livePackets, liveFrames>>

(* It takes a packet and sends it to the codec. *)
SendPacket(s) ==
  /\ decoder[s] = "poll" /\ decoderAlive[s] /\ packetQueue[s] # << >>
  /\ packet' = [packet EXCEPT ![s] = Head(packetQueue[s])]
  /\ packetQueue' = [packetQueue EXCEPT ![s] = Tail(@)]
  /\ codec' = [codec EXCEPT ![s] = IF packet'[s] = Null THEN @ ELSE Append(@, packet'[s])]
  /\ decoder' = [decoder EXCEPT ![s] = "receive"]
  /\ UNCHANGED <<frameQueue, decoderAlive, alive, frame, livePackets, liveFrames>>

(* A codec gives a frame once it keeps more than CodecDelay packets, and   *)
(* after a null packet it gives all it has.                                *)
FrameReady(s) == Len(codec[s]) > IF packet[s] = Null THEN 0 ELSE CodecDelay

ReceiveFrame(s) ==
  /\ decoder[s] = "receive" /\ FrameReady(s)
  /\ frame' = [frame EXCEPT ![s] = Head(codec[s])]
  /\ codec' = [codec EXCEPT ![s] = Tail(@)]
  /\ liveFrames' = [liveFrames EXCEPT ![s] = @ + 1]
  /\ decoder' = [decoder EXCEPT ![s] = "emit"]
  /\ UNCHANGED <<packetQueue, frameQueue, decoderAlive, alive, packet, livePackets>>

(* No frame is left: a null packet is passed on, any other is freed. *)
PacketDone(s) ==
  /\ decoder[s] = "receive" /\ ~FrameReady(s)
  /\ \/ /\ packet[s] = Null
        /\ frame' = [frame EXCEPT ![s] = Null]
        /\ decoder' = [decoder EXCEPT ![s] = "emit"]
        /\ UNCHANGED <<packet, livePackets>>
     \/ /\ packet[s] # Null
        /\ livePackets' = [livePackets EXCEPT ![s] = @ - 1]
        /\ packet' = [packet EXCEPT ![s] = Null]
        /\ decoder' = [decoder EXCEPT ![s] = "poll"]
        /\ UNCHANGED frame
  /\ UNCHANGED <<packetQueue, frameQueue, decoderAlive, alive, codec, liveFrames>>

(* Mutant: a frame that finds the queue full is freed. *)
OnFrameOrFree(s) ==
  /\ decoder[s] = "emit"
  /\ IF Len(frameQueue[s]) < FrameCap[s] \/ frame[s] = Null
     THEN frameQueue' = [frameQueue EXCEPT ![s] = Append(@, frame[s])] /\ UNCHANGED liveFrames
     ELSE liveFrames' = [liveFrames EXCEPT ![s] = @ - 1] /\ UNCHANGED frameQueue
  /\ codec' = [codec EXCEPT ![s] = IF frame[s] = Null THEN << >> ELSE @]
  /\ decoder' = [decoder EXCEPT ![s] = IF frame[s] = Null THEN "poll" ELSE "receive"]
  /\ frame' = [frame EXCEPT ![s] = Null]
  /\ UNCHANGED <<packetQueue, decoderAlive, alive, packet, livePackets>>

(* onFrame(): the frame enters the owner's queue; Audio's sink frees it    *)
(* when the owner is closing.  After the null frame the codec is flushed.  *)
OnFrame(s) ==
  /\ decoder[s] = "emit"
  /\ \/ /\ s = "video" \/ alive[s]
        /\ Len(frameQueue[s]) < FrameCap[s]
        /\ frameQueue' = [frameQueue EXCEPT ![s] = Append(@, frame[s])]
        /\ UNCHANGED liveFrames
     \/ /\ s = "audio" /\ ~alive[s]
        /\ liveFrames' = [liveFrames EXCEPT ![s] = IF frame[s] = Null THEN @ ELSE @ - 1]
        /\ UNCHANGED frameQueue
  /\ codec' = [codec EXCEPT ![s] = IF frame[s] = Null THEN << >> ELSE @]
  /\ decoder' = [decoder EXCEPT ![s] = IF frame[s] = Null THEN "poll" ELSE "receive"]
  /\ frame' = [frame EXCEPT ![s] = Null]
  /\ UNCHANGED <<packetQueue, decoderAlive, alive, packet, livePackets>>

DecoderStep(s) ==
  DecoderEnd(s) \/ SendPacket(s) \/ ReceiveFrame(s) \/ PacketDone(s) \/ OnFrame(s)
=============================================================================
