------------------------------- MODULE Audio -------------------------------
(***************************************************************************)
(* Audio::_displayThread and Audio::_audioCallback (src/audio.cpp): a      *)
(* coroutine moves the decoded frames into the channel, a ring of chunks,  *)
(* and SDL's audio thread takes one chunk at a time and sets the audio     *)
(* clock to its time.                                                      *)
(*                                                                         *)
(* A chunk is filled by several frames, and a frame may be cut between two *)
(* chunks.  A sample is the time of its frame, and the time of a chunk is  *)
(* that of its first sample, rounded down to its frame.  Behind the        *)
(* samples of a chunk that is handed out before it is full lies what the   *)
(* ring held there before; the model leaves that part out.                 *)
(* The resampling, the volume and the mixing change no state of the        *)
(* player.  The callback applies the messages that add and remove channels *)
(* before it mixes, so the channel exists from open() to close().          *)
(***************************************************************************)
EXTENDS Decoder, ClockSync

CONSTANTS
  ChannelCap,    \* chunks the channel can hold (7 in the code)
  FrameSamples,  \* samples of a frame
  ChunkSamples   \* samples of a chunk, _spec.samples

VARIABLES
  mixer,        \* where the display coroutine is
  sound,        \* frame: the frame it works on
  avail,        \* its samples that are not in a chunk yet
  chunk,        \* the samples in buf, which are writtenSamples
  channel,      \* _channel->frameQueue
  audioEof,     \* set by _onEof
  heard         \* history: the samples played since the file began

audioVars == <<mixer, sound, avail, chunk, channel, audioEof, heard>>

(* open(): without a device the decoder is left running. *)
OpenAudio(outcome) ==
  /\ mixer' = IF outcome = "open" THEN "poll" ELSE "none"
  /\ UNCHANGED <<sound, avail, chunk, channel>>

(* The coroutine ends; a chunk it has begun is not handed out. *)
MixerEnd ==
  /\ mixer = "poll" /\ ~alive["audio"]
  /\ mixer' = "none" /\ chunk' = << >>
  /\ UNCHANGED <<decoderVars, clockVars, sound, avail, channel, audioEof, heard>>

TakeAudioFrame ==
  /\ mixer = "poll" /\ alive["audio"] /\ frameQueue["audio"] # << >>
  /\ sound' = Head(frameQueue["audio"])
  /\ frameQueue' = [frameQueue EXCEPT !["audio"] = Tail(@)]
  /\ avail' = IF sound' = Null THEN 0 ELSE FrameSamples
  /\ mixer' = IF sound' = Null THEN "flush" ELSE IF chunk = << >> THEN "begin" ELSE "fill"
  /\ UNCHANGED <<packetQueue, decoderAlive, alive, decoder, packet, frame, codec,
                 livePackets, liveFrames, clockVars, chunk, channel, audioEof, heard>>

(* Mutant: the chunk is filled whether or not begin_write succeeds. *)
BeginChunkUnchecked ==
  /\ mixer = "begin"
  /\ mixer' = "fill"
  /\ UNCHANGED <<decoderVars, clockVars, sound, avail, chunk, channel, audioEof, heard>>

(* begin_write succeeds: a new chunk can be filled. *)
BeginChunk ==
  /\ mixer = "begin" /\ Len(channel) < ChannelCap
  /\ mixer' = "fill"
  /\ UNCHANGED <<decoderVars, clockVars, sound, avail, chunk, channel, audioEof, heard>>

(* Before the first sample of a chunk it waits for the video's first       *)
(* frame, unless the player is closing.                                    *)
WaitForVideo ==
  LET s == StartAudio(sync, sound) IN
  /\ mixer = "fill" /\ chunk = << >> /\ ~AudioDue(s) /\ alive["audio"]
  /\ sync' = s
  /\ UNCHANGED <<decoderVars, now, audioVars>>

(* It puts what it can of the frame into the chunk.  A full chunk is handed *)
(* to the callback, and a frame whose samples are all in chunks is freed.  *)
FillChunk ==
  LET s == IF chunk = << >> THEN StartAudio(sync, sound) ELSE sync
      room == ChunkSamples - Len(chunk)
      fill == IF room < avail THEN room ELSE avail
      filled == chunk \o [i \in 1 .. fill |-> sound]
      full == Len(filled) = ChunkSamples
  IN
  /\ mixer = "fill" /\ (chunk = << >> => AudioDue(s) \/ ~alive["audio"])
  /\ sync' = s
  /\ avail' = avail - fill
  /\ chunk' = IF full THEN << >> ELSE filled
  /\ channel' = IF full THEN Append(channel, filled) ELSE channel
  /\ IF avail' = 0
     THEN /\ liveFrames' = [liveFrames EXCEPT !["audio"] = @ - 1]
          /\ sound' = Null /\ mixer' = "poll"
     ELSE mixer' = "begin" /\ UNCHANGED <<liveFrames, sound>>
  /\ UNCHANGED <<packetQueue, frameQueue, decoderAlive, alive, decoder, packet,
                 frame, codec, livePackets, now, audioEof, heard>>

(* Mutant: the last chunk is dropped unless it is full. *)
DropLastChunk ==
  /\ mixer = "flush"
  /\ chunk' = << >> /\ mixer' = "drain"
  /\ UNCHANGED <<decoderVars, clockVars, sound, avail, channel, audioEof, heard>>

(* At the end of the file it hands out the chunk it has begun ... *)
FlushChunk ==
  /\ mixer = "flush"
  /\ channel' = IF chunk = << >> THEN channel ELSE Append(channel, chunk)
  /\ chunk' = << >> /\ mixer' = "drain"
  /\ UNCHANGED <<decoderVars, clockVars, sound, avail, audioEof, heard>>

(* Mutant: it does not wait until the channel was played. *)
DrainChannelUnwaited ==
  /\ mixer = "drain"
  /\ audioEof' = TRUE
  /\ mixer' = "eof"
  /\ UNCHANGED <<decoderVars, clockVars, sound, avail, chunk, channel, heard>>

(* ... waits until the channel was played, resets it and reports the end:  *)
(* first the flag ...                                                      *)
DrainChannel ==
  /\ mixer = "drain" /\ channel = << >>
  /\ audioEof' = TRUE
  /\ mixer' = "eof"
  /\ UNCHANGED <<decoderVars, clockVars, sound, avail, chunk, channel, heard>>

(* ... then, in a second statement, the clock that is left to follow. *)
FollowAbsolute ==
  /\ mixer = "eof"
  /\ sync' = [sync EXCEPT !.type = "absolute"]
  /\ mixer' = "poll"
  /\ UNCHANGED <<decoderVars, now, sound, avail, chunk, channel, audioEof, heard>>

MixerStep ==
  \/ MixerEnd \/ TakeAudioFrame \/ BeginChunk \/ WaitForVideo \/ FillChunk
  \/ FlushChunk \/ DrainChannel \/ FollowAbsolute

-----------------------------------------------------------------------------
(* The callback plays the oldest chunk; without one it plays silence. *)
audioCallback ==
  /\ channel # << >>
  /\ sync' = updateAudioPts(sync, Head(channel)[1])
  /\ heard' = heard \o Head(channel)
  /\ channel' = Tail(channel)
  /\ UNCHANGED <<decoderVars, now, mixer, sound, avail, chunk, audioEof>>
=============================================================================
