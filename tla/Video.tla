------------------------------- MODULE Video -------------------------------
(***************************************************************************)
(* Video::_displayThread (src/video.cpp): takes frames from the queue the  *)
(* decoder fills, and shows each when the clock says it is due.  _present  *)
(* converts the picture and calls onDisplay: it changes no state of the    *)
(* player, and is the history variable played here.                        *)
(***************************************************************************)
EXTENDS Decoder, ClockSync

CONSTANT VideoDuration   \* frame->duration

VARIABLES
  display,      \* where the display coroutine is
  held,         \* frame: the frame it works on
  videoEof,     \* set by _onEof
  shown         \* history: the frames shown or dropped since the file began

videoVars == <<display, held, videoEof, shown>>

(* open(): the decoder could be opened, or not. *)
OpenVideo(outcome) ==
  /\ display' = IF outcome = "open" THEN "poll" ELSE "none"
  /\ UNCHANGED held

(* The coroutine ends. *)
DisplayEnd ==
  /\ display = "poll" /\ ~alive["video"]
  /\ display' = "none"
  /\ UNCHANGED <<decoderVars, clockVars, held, videoEof, shown>>

(* It takes a frame; a null frame is the end of the file. *)
TakeVideoFrame ==
  /\ display = "poll" /\ alive["video"] /\ frameQueue["video"] # << >>
  /\ frameQueue' = [frameQueue EXCEPT !["video"] = Tail(@)]
  /\ \/ /\ Head(frameQueue["video"]) = Null
        /\ videoEof' = TRUE
        /\ UNCHANGED <<display, held>>
     \/ /\ Head(frameQueue["video"]) # Null
        /\ held' = Head(frameQueue["video"])
        /\ display' = "delay"
        /\ UNCHANGED videoEof
  /\ UNCHANGED <<packetQueue, decoderAlive, alive, decoder, packet, frame, codec,
                 livePackets, liveFrames, clockVars, shown>>

(* It asks the clock how long to wait, and asks again after each sleep, as *)
(* long as the frame is early; when the player is closing it does not wait.*)
(* A late frame is freed unseen, any other is shown and then freed.        *)
ConsiderFrame ==
  LET s == StartVideo(sync, held)
      delay == calVideoDelay(s, held, VideoDuration)
  IN
  /\ display = "delay"
  /\ IF delay = "early" /\ alive["video"]
     THEN sync' = s /\ UNCHANGED <<display, held, shown, liveFrames>>
     ELSE /\ sync' = IF delay = "late" THEN s ELSE updateVideoPts(s, held)
          /\ shown' = Append(shown, held)
          /\ liveFrames' = [liveFrames EXCEPT !["video"] = @ - 1]
          /\ held' = Null
          /\ display' = "poll"
  /\ UNCHANGED <<packetQueue, frameQueue, decoderAlive, alive, decoder, packet,
                 frame, codec, livePackets, now, videoEof>>

DisplayStep == DisplayEnd \/ TakeVideoFrame \/ ConsiderFrame
=============================================================================
