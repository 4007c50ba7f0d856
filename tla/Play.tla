-------------------------------- MODULE Play --------------------------------
(***************************************************************************)
(* Play (src/play.cpp): the player.  A user starts, pauses and stops it;   *)
(* its reading coroutine opens the file, hands each packet to the decoder  *)
(* of its stream, starts again at the end of the file, and closes the      *)
(* streams.  This module composes it with the decoder and display          *)
(* coroutines of both streams, SDL's audio callback and the clock.         *)
(***************************************************************************)
EXTENDS Video, Audio, FiniteSets

CONSTANTS
  File,          \* the packets of the file: [stream, pts], in reading order
  VideoOpens,    \* how opening the video stream can end: "open", "absent" ...
  AudioOpens,    \* ... and the audio stream, for which SDL may have "noDevice",
                 \* or not start at all: "noSDL"
  IsLoop,        \* _isLoop
  CanStop, CanPause, CanFail,   \* what the environment does in this instance
  MaxNow         \* bound on the time that passes in one pass of the file

ASSUME PlayAssumption ==
  /\ Streams = {"video", "audio"}
  /\ PacketCap \in Nat \ {0} /\ ChannelCap \in Nat \ {0}
  /\ FrameCap \in [Streams -> Nat \ {0}]
  /\ FrameSamples \in Nat \ {0} /\ ChunkSamples \in Nat \ {0}
  /\ CodecDelay \in Nat /\ VideoDuration \in Nat /\ MaxNow \in Nat
  /\ VideoOpens \subseteq {"open", "absent"}
  /\ AudioOpens \subseteq {"open", "absent", "noDevice", "noSDL"}
  /\ "absent" \notin VideoOpens \cap AudioOpens
  /\ File \in Seq([stream : Streams, pts : Int])
  /\ Null \notin Int /\ NaN \notin Int

VARIABLES
  user,         \* the thread that calls start() and stop()
  playing,      \* Play::_isAlive
  paused,       \* _isPaused
  reader,       \* where the reading coroutine is
  opened,       \* the streams whose index is not -1
  closing,      \* the streams it has still to close, in order
  pos,          \* the next packet of the file
  eof,          \* eof
  toWrite,      \* what it is writing to the decoders: <<stream, packet>>
  lost          \* history: the packet allocated for a read that failed

playVars == <<user, playing, paused, reader, opened, closing, pos, eof, toWrite, lost>>
vars == <<decoderVars, clockVars, videoVars, audioVars, playVars>>

(* The packets of stream s among the first n of the file, the place of its *)
(* k-th packet, and the times of all, in reading order.                    *)
Upto(s, n) == Cardinality({i \in 1 .. n : File[i].stream = s})
Place(s, k) == CHOOSE i \in DOMAIN File : File[i].stream = s /\ Upto(s, i) = k
PtsOf(s) == [k \in 1 .. Upto(s, Len(File)) |-> File[Place(s, k)].pts]

(* All samples of the file. *)
Samples ==
  LET pts == PtsOf("audio")
  IN  [i \in 1 .. Len(pts) * FrameSamples |-> pts[(i - 1) \div FrameSamples + 1]]

HasVideo == "video" \in opened
HasAudio == "audio" \in opened

Init ==
  /\ packetQueue = [s \in Streams |-> << >>] /\ frameQueue = [s \in Streams |-> << >>]
  /\ decoderAlive = [s \in Streams |-> FALSE]
  /\ alive \in [Streams -> BOOLEAN]       \* no initialiser
  /\ decoder = [s \in Streams |-> "none"]
  /\ packet = [s \in Streams |-> Null] /\ frame = [s \in Streams |-> Null]
  /\ codec = [s \in Streams |-> << >>]
  /\ livePackets = [s \in Streams |-> 0] /\ liveFrames = [s \in Streams |-> 0]
  /\ sync = NewSync("audio", {}) /\ now = 0
  /\ display = "none" /\ held = Null /\ videoEof = FALSE /\ shown = << >>
  /\ mixer = "none" /\ sound = Null /\ avail = 0 /\ chunk = << >> /\ channel = << >> /\ audioEof = FALSE /\ heard = << >>
  /\ user = "idle" /\ playing = FALSE /\ paused = FALSE
  /\ reader = "none" /\ opened = {} /\ closing = << >> /\ pos = 1 /\ eof = FALSE /\ toWrite = << >>
  /\ lost = 0

-----------------------------------------------------------------------------
(* The user *)

start ==
  /\ user = "idle"
  /\ user' = "playing" /\ playing' = TRUE
  /\ reader' = "open"
  /\ UNCHANGED <<decoderVars, clockVars, videoVars, audioVars,
                 paused, opened, closing, pos, eof, toWrite, lost>>

setIsPaused ==
  /\ CanPause /\ user = "playing"
  /\ paused' = ~paused
  /\ UNCHANGED <<decoderVars, clockVars, videoVars, audioVars,
                 user, playing, reader, opened, closing, pos, eof, toWrite, lost>>

stop ==
  /\ CanStop /\ user = "playing"
  /\ user' = "stopping" /\ playing' = FALSE
  /\ UNCHANGED <<decoderVars, clockVars, videoVars, audioVars,
                 paused, reader, opened, closing, pos, eof, toWrite, lost>>

(* _wg.Wait() in stop() returns: the reading coroutine has ended. *)
StopReturns ==
  /\ user = "stopping" /\ reader = "none"
  /\ user' = "idle"
  /\ UNCHANGED <<decoderVars, clockVars, videoVars, audioVars,
                 playing, paused, reader, opened, closing, pos, eof, toWrite, lost>>

-----------------------------------------------------------------------------
(* The reading coroutine *)

(* The locals of _readThread and what the end of a file resets. *)
BeginPass ==
  /\ pos' = 1 /\ eof' = FALSE /\ now' = 0
  /\ videoEof' = FALSE /\ shown' = << >>
  /\ audioEof' = FALSE /\ heard' = << >>

(* A file or its information that cannot be read: nothing was opened. *)
OpenFails ==
  /\ CanFail /\ reader = "open"
  /\ BeginPass /\ lost' = 0
  /\ sync' = NewSync("audio", {}) /\ opened' = {}
  /\ reader' = "closeDecoder" /\ closing' = <<"video", "audio">>
  /\ UNCHANGED <<decoderVars, display, held, mixer, sound, avail, chunk, channel,
                 user, playing, paused, toWrite>>

(* A new ClockSync, then Video::open and Audio::open, which start one      *)
(* decoder and one display coroutine each.  Audio::open has started its    *)
(* decoder when it asks for the device.  When SDL cannot be initialised it *)
(* returns -1, which is true: the stream counts as opened, without a       *)
(* channel, a coroutine, or a value in _isAlive.                           *)
OpenStreams ==
  \E v \in VideoOpens, a \in AudioOpens :
    LET outcome == [s \in Streams |-> IF s = "video" THEN v ELSE a] IN
    /\ reader = "open"
    /\ opened' = {s \in Streams : outcome[s] \in {"open", "noSDL"}}
    /\ Open({s \in Streams : outcome[s] # "absent"})
    /\ OpenVideo(v) /\ OpenAudio(a)
    /\ alive' = [s \in Streams |-> outcome[s] = "open" \/ alive[s]]
    /\ sync' = NewSync(IF "audio" \in opened' THEN "audio" ELSE "video", Streams \ opened')
    /\ BeginPass /\ lost' = 0
    /\ reader' = "loop"
    /\ UNCHANGED <<user, playing, paused, closing, toWrite>>

(* The top of the loop: stopped, or paused (it sleeps), or on to read. *)
LoopTop ==
  /\ reader = "loop"
  /\ \/ /\ ~playing
        /\ reader' = "closeDecoder" /\ closing' = <<"video", "audio">>
     \/ /\ playing /\ ~paused /\ ~eof
        /\ reader' = "read"
        /\ UNCHANGED closing
  /\ UNCHANGED <<decoderVars, clockVars, videoVars, audioVars,
                 user, playing, paused, opened, pos, eof, toWrite, lost>>

(* av_read_frame returns a packet; one of an unopened stream is freed. *)
ReadPacket ==
  /\ reader = "read" /\ pos <= Len(File)
  /\ LET p == File[pos] IN
     IF p.stream \in opened
     THEN /\ toWrite' = << <<p.stream, p.pts>> >>
          /\ livePackets' = [livePackets EXCEPT ![p.stream] = @ + 1]
          /\ reader' = "write"
     ELSE reader' = "loop" /\ UNCHANGED <<toWrite, livePackets>>
  /\ pos' = pos + 1
  /\ UNCHANGED <<packetQueue, frameQueue, decoderAlive, alive, decoder, packet, frame,
                 codec, liveFrames, clockVars, videoVars, audioVars,
                 user, playing, paused, opened, closing, eof, lost>>

(* av_read_frame reports the end of the file; both decoders are told. *)
ReadEof ==
  /\ reader = "read" /\ pos > Len(File)
  /\ eof' = TRUE
  /\ toWrite' = << <<"video", Null>>, <<"audio", Null>> >>
  /\ reader' = "write"
  /\ UNCHANGED <<decoderVars, clockVars, videoVars, audioVars,
                 user, playing, paused, opened, closing, pos, lost>>

(* av_read_frame fails, or stop() interrupts it: the loop ends, and the    *)
(* packet allocated for the call is not freed.                             *)
ReadFails ==
  /\ reader = "read" /\ (CanFail \/ ~playing)
  /\ lost' = lost + 1
  /\ reader' = "closeDecoder" /\ closing' = <<"video", "audio">>
  /\ UNCHANGED <<decoderVars, clockVars, videoVars, audioVars,
                 user, playing, paused, opened, pos, eof, toWrite>>

(* Video::write, Audio::write: Decoder::write waits for room. *)
WritePacket ==
  /\ reader = "write"
  /\ Write(toWrite[1][1], toWrite[1][2])
  /\ toWrite' = Tail(toWrite)
  /\ reader' = IF toWrite' = << >> THEN "loop" ELSE "write"
  /\ UNCHANGED <<frameQueue, decoderAlive, alive, decoder, packet, frame, codec,
                 livePackets, liveFrames, clockVars, videoVars, audioVars,
                 user, playing, paused, opened, closing, pos, eof, lost>>

(* Every stream has played to its end: seek back and start again. *)
AnyEof == (HasVideo /\ videoEof) \/ (HasAudio /\ audioEof)   \* Mutant: one is enough.
AllEof == (HasVideo => videoEof) /\ (HasAudio => audioEof)

Restart ==
  /\ reader = "loop" /\ playing /\ ~paused /\ eof
  /\ AllEof /\ IsLoop
  /\ BeginPass
  /\ sync' = [reset(sync) EXCEPT !.type = "audio"]
  /\ UNCHANGED <<decoderVars, display, held, mixer, sound, avail, chunk, channel,
                 user, playing, paused, reader, opened, closing, toWrite, lost>>

-----------------------------------------------------------------------------
(* Video::close and Audio::close, one after the other: the decoder ends,   *)
(* then the display coroutine, and what is left in their queues is freed.  *)
CountOldest(q) == IF q = << >> \/ Head(q) = Null THEN 0 ELSE 1   \* Mutant: only the oldest is freed.
Count(q) == Cardinality({i \in DOMAIN q : q[i] # Null})

(* Mutant: the decoder is not told to end. *)
CloseDecoderUntold ==
  /\ reader = "closeDecoder"
  /\ reader' = "joinDecoder"
  /\ UNCHANGED <<decoderVars, clockVars, videoVars, audioVars,
                 user, playing, paused, opened, closing, pos, eof, toWrite, lost>>

CloseDecoder ==
  /\ reader = "closeDecoder"
  /\ decoderAlive' = [decoderAlive EXCEPT ![closing[1]] = FALSE]
  /\ reader' = "joinDecoder"
  /\ UNCHANGED <<packetQueue, frameQueue, alive, decoder, packet, frame, codec,
                 livePackets, liveFrames, clockVars, videoVars, audioVars,
                 user, playing, paused, opened, closing, pos, eof, toWrite, lost>>

JoinDecoder ==
  LET s == closing[1] IN
  /\ reader = "joinDecoder" /\ decoder[s] = "none"
  /\ livePackets' = [livePackets EXCEPT ![s] = @ - Count(packetQueue[s])]
  /\ packetQueue' = [packetQueue EXCEPT ![s] = << >>]
  /\ codec' = [codec EXCEPT ![s] = << >>]
  /\ alive' = [alive EXCEPT ![s] = FALSE]
  /\ reader' = "joinDisplay"
  /\ UNCHANGED <<frameQueue, decoderAlive, decoder, packet, frame, liveFrames,
                 clockVars, videoVars, audioVars,
                 user, playing, paused, opened, closing, pos, eof, toWrite, lost>>

EndedUnwaited(s) == s \in Streams   \* Mutant: without _wg.Wait().
Ended(s) == IF s = "video" THEN display = "none" ELSE mixer = "none"

JoinDisplay ==
  LET s == closing[1] IN
  /\ reader = "joinDisplay" /\ Ended(s)
  /\ liveFrames' = [liveFrames EXCEPT ![s] = @ - Count(frameQueue[s])]
  /\ frameQueue' = [frameQueue EXCEPT ![s] = << >>]
  /\ channel' = IF s = "audio" THEN << >> ELSE channel
  /\ closing' = Tail(closing)
  /\ reader' = IF s = "audio" THEN "none" ELSE "closeDecoder"
  /\ UNCHANGED <<packetQueue, decoderAlive, alive, decoder, packet, frame, codec,
                 livePackets, clockVars, videoVars, mixer, sound, avail, chunk, audioEof, heard,
                 user, playing, paused, opened, pos, eof, toWrite, lost>>

-----------------------------------------------------------------------------
(* Time passes; it is observed only once the absolute clock is followed. *)
Tick ==
  /\ sync.type = "absolute" /\ now < MaxNow
  /\ now' \in now + 1 .. MaxNow
  /\ UNCHANGED <<decoderVars, sync, videoVars, audioVars, playVars>>

ReaderStep ==
  \/ OpenFails \/ OpenStreams \/ LoopTop \/ ReadPacket \/ ReadEof \/ ReadFails
  \/ WritePacket \/ Restart \/ CloseDecoder \/ JoinDecoder \/ JoinDisplay

DecoderRun(s) == DecoderStep(s) /\ UNCHANGED <<clockVars, videoVars, audioVars, playVars>>
DisplayRun == DisplayStep /\ UNCHANGED <<audioVars, playVars>>
MixerRun == MixerStep /\ UNCHANGED <<videoVars, playVars>>
CallbackRun == audioCallback /\ UNCHANGED <<videoVars, playVars>>

Next ==
  \/ start \/ setIsPaused \/ stop \/ StopReturns
  \/ ReaderStep
  \/ \E s \in Streams : DecoderRun(s)
  \/ DisplayRun \/ MixerRun \/ CallbackRun
  \/ Tick

Spec == Init /\ [][Next]_vars

(* Every coroutine that can run is scheduled, SDL calls back, time passes; *)
(* a user who called stop() is given its return.                           *)
FairSpec ==
  /\ Spec
  /\ WF_vars(ReaderStep) /\ WF_vars(StopReturns)
  /\ \A s \in Streams : WF_vars(DecoderRun(s))
  /\ WF_vars(DisplayRun) /\ WF_vars(MixerRun) /\ WF_vars(CallbackRun)
  /\ WF_vars(Tick)

-----------------------------------------------------------------------------
(* Properties *)

Times(s) == {File[i].pts : i \in {j \in DOMAIN File : File[j].stream = s}}

PlayTypeOK ==
  /\ ClockTypeOK
  /\ \A s \in Streams :
       /\ packetQueue[s] \in Seq(Times(s) \cup {Null}) /\ Len(packetQueue[s]) <= PacketCap
       /\ frameQueue[s] \in Seq(Times(s) \cup {Null}) /\ Len(frameQueue[s]) <= FrameCap[s]
       /\ packet[s] \in Times(s) \cup {Null} /\ frame[s] \in Times(s) \cup {Null}
       /\ codec[s] \in Seq(Times(s)) /\ Len(codec[s]) <= CodecDelay + 1
  /\ decoderAlive \in [Streams -> BOOLEAN] /\ alive \in [Streams -> BOOLEAN]
  /\ decoder \in [Streams -> {"none", "poll", "receive", "emit"}]
  /\ display \in {"none", "poll", "delay"} /\ held \in Times("video") \cup {Null}
  /\ mixer \in {"none", "poll", "begin", "fill", "flush", "drain", "eof"}
  /\ sound \in Times("audio") \cup {Null} /\ avail \in 0 .. FrameSamples
  /\ Len(chunk) < ChunkSamples /\ Len(channel) <= ChannelCap
  /\ \A i \in DOMAIN channel : channel[i] \in Seq(Times("audio")) /\ Len(channel[i]) \in 1 .. ChunkSamples
  /\ user \in {"idle", "playing", "stopping"}
  /\ reader \in {"none", "open", "loop", "read", "write", "closeDecoder",
                 "joinDecoder", "joinDisplay"}
  /\ {playing, paused, eof, videoEof, audioEof} \subseteq BOOLEAN
  /\ opened \subseteq Streams /\ pos \in 1 .. Len(File) + 1 /\ lost \in {0, 1}

(* In each pass of the file the frames are shown, and the samples heard,   *)
(* once and in their order, however frames are cut into chunks, whatever   *)
(* the queues, the codec's delay, a pause or a restart do (Decoder::open,  *)
(* _displayThread, _audioCallback).                                        *)
PlaysInOrder ==
  /\ shown = SubSeq(PtsOf("video"), 1, Len(shown))
  /\ heard = SubSeq(Samples, 1, Len(heard))

(* The end of a stream is reported only when its last frame was shown or   *)
(* dropped, its last sample was played, which need not fill a chunk: the   *)
(* null packet overtakes nothing, and nothing is left behind               *)
(* (Decoder::open, Video::_displayThread, Audio::_displayThread).          *)
EofIsLast ==
  /\ videoEof => shown = PtsOf("video")
  /\ audioEof => heard = Samples

(* Seeking back to the start, the reader finds no packet, frame or chunk   *)
(* of the pass before in the pipeline of an opened stream; so the clocks   *)
(* that are reset with it are not set again from old times.                *)
RestartsClean ==
  [][eof /\ ~eof' => /\ chunk = << >> /\ channel = << >>
                     /\ \A s \in opened : /\ livePackets[s] = 0 /\ liveFrames[s] = 0
                                          /\ packetQueue[s] = << >> /\ codec[s] = << >>
    ]_vars

(* The times of the chunks heard in this pass; all but the last are full. *)
ChunkTimes ==
  {heard[c * ChunkSamples + 1] : c \in {n \in 0 .. Len(heard) : n * ChunkSamples < Len(heard)}}

(* While the audio clock is followed, and until the player is closed, no   *)
(* frame that comes some time after the first is shown or dropped before   *)
(* the callback plays a chunk that comes as long after the first sample,   *)
(* wherever the streams begin (calVideoDelay, Video::_displayThread,       *)
(* _audioCallback).                                                        *)
VideoFollowsAudio ==
  LET last == shown[Len(shown)] IN
  HasVideo /\ HasAudio /\ sync.type = "audio" /\ alive["video"] /\ shown # << >> /\ last > shown[1]
    => \E t \in ChunkTimes : last - shown[1] <= t - heard[1]

CoroutinesEnded == display = "none" /\ mixer = "none" /\ \A s \in Streams : decoder[s] = "none"

(* When _readThread returns, whose locals the callbacks refer to and which *)
(* has closed the file, no coroutine of the player is left, and every      *)
(* queue is empty (Video::close, Audio::close, Decoder::close).            *)
NothingOutlivesReader ==
  reader = "none" =>
    /\ CoroutinesEnded /\ channel = << >>
    /\ \A s \in Streams : packetQueue[s] = << >> /\ frameQueue[s] = << >>

(* No packet and no frame is freed twice, and when _readThread returns     *)
(* none is still to be freed; only the packet of a read that failed is     *)
(* lost (Decoder::open, the close() of each class, Audio's sink).          *)
FreedOnce ==
  /\ \A s \in Streams : livePackets[s] >= 0 /\ liveFrames[s] >= 0
  /\ reader = "none" => \A s \in Streams : livePackets[s] = 0 /\ liveFrames[s] = 0

(* "Audio and video take the same starting point" (the comment in          *)
(* calVideoDelay) before the first frame is shown.                         *)
SameOrigin ==
  HasVideo /\ HasAudio /\ alive["video"] /\ Len(shown) > 0
    => sync.video.startPts = sync.audio.startPts

(* stop() returns (Play::stop, Video::close, Audio::close). *)
StopTerminates == (user = "stopping") ~> (user = "idle")

(* A pass of the file that begins comes to its end, and a player that      *)
(* loops begins the next one, unless it is stopped or a read fails first   *)
(* (Play::_readThread, calVideoDelay, calAudioDelay).                      *)
PlaysOn ==
  /\ (reader = "loop" /\ pos = 1) ~> ((eof /\ AllEof) \/ closing # << >>)
  /\ (reader = "loop" /\ eof /\ AllEof) ~> ((reader = "loop" /\ pos = 1) \/ closing # << >>)
=============================================================================
