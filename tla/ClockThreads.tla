---------------------------- MODULE ClockThreads ----------------------------
(***************************************************************************)
(* The ClockSync object as its three threads really share it               *)
(* (src/clocksync.cpp): no member is atomic and no lock is taken.  The     *)
(* video display coroutine runs calVideoDelay and updateVideoPts, the      *)
(* audio display coroutine calAudioDelay, and SDL's callback               *)
(* updateAudioPts.  One action is one access to a member that another      *)
(* thread writes.  In Clock::updatePts the two assignments are two steps,  *)
(* with a printf between them when the clock starts.                       *)
(*                                                                         *)
(* The absolute clock is left out: it is read only after the audio ended.  *)
(* Play uses the same methods as single steps; this module looks into      *)
(* them, for a player with both streams.                                   *)
(***************************************************************************)
EXTENDS ClockSync, Sequences

CONSTANTS
  Frames,      \* the times of the video frames, in order
  Chunks,      \* the times of the audio chunks, in order
  Duration,    \* of a frame
  ChannelCap   \* chunks the channel can hold

ASSUME ThreadsAssumption ==
  /\ NaN \notin Int
  /\ Frames \in Seq(Int) /\ Chunks \in Seq(Int)
  /\ \A i, j \in DOMAIN Chunks : i <= j => Chunks[i] <= Chunks[j]
  /\ Duration \in Nat /\ ChannelCap \in Nat

VARIABLES
  vpc, nextFrame,     \* video display: where it is, the frame it works on
  apc, nextChunk,     \* audio display: where it is, the chunk it fills
  cpc, channel        \* callback: where it is, the chunks to be played

vars == <<clockVars, vpc, nextFrame, apc, nextChunk, cpc, channel>>
videoThread == <<vpc, nextFrame>>
audioThread == <<apc, nextChunk>>

Init ==
  /\ sync = NewSync("audio", {})
  /\ now = 0
  /\ vpc = "start" /\ nextFrame = 1
  /\ apc = "start" /\ nextChunk = 1
  /\ cpc = "idle" /\ channel = << >>

SetStart(clock, pts) == sync' = [sync EXCEPT ![clock].startPts = pts]
SetCurrent(clock, pts) == sync' = [sync EXCEPT ![clock].currentPts = pts]

-----------------------------------------------------------------------------
(* calVideoDelay, with the loop of Video::_displayThread around it *)

(* The video clock starts with the first frame. *)
VideoStart ==
  /\ vpc = "start" /\ nextFrame <= Len(Frames)
  /\ sync' = IF sync.video.startPts = NaN
             THEN [sync EXCEPT !.video = updatePts(@, Frames[nextFrame])] ELSE sync
  /\ vpc' = "audio"
  /\ UNCHANGED <<now, nextFrame, audioThread, cpc, channel>>

(* It looks whether the audio clock has started; if not it sleeps. *)
VideoWaitsForAudio ==
  /\ vpc = "audio"
  /\ IF sync.audio.startPts = NaN
     THEN vpc' = "start" /\ UNCHANGED sync
     ELSE /\ vpc' = "time"
          /\ IF sync.audio.startPts = sync.video.startPts THEN UNCHANGED sync
             ELSE sync' = [sync EXCEPT !.video = updatePts(@, sync.audio.startPts)]
  /\ UNCHANGED <<now, nextFrame, audioThread, cpc, channel>>

(* It reads the master clock; an early frame is considered again. *)
VideoReadsTime ==
  LET pts == Frames[nextFrame]
      delay == calVideoDelay(sync, pts, Duration)
  IN
  /\ vpc = "time"
  /\ vpc' = "start"
  /\ nextFrame' = IF delay = "early" THEN nextFrame ELSE nextFrame + 1
  /\ sync' = IF delay = "due" THEN [sync EXCEPT !.video = updatePts(@, pts)] ELSE sync
  /\ UNCHANGED <<now, audioThread, cpc, channel>>

-----------------------------------------------------------------------------
(* calAudioDelay, with the loop of Audio::_displayThread around it *)

(* Mutant: the clock is set for every chunk, started or not. *)
AudioStartAlways ==
  /\ apc = "start" /\ nextChunk <= Len(Chunks) /\ Len(channel) < ChannelCap
  /\ apc' = "set"
  /\ UNCHANGED <<clockVars, nextChunk, videoThread, cpc, channel>>

(* Mutant: begin_write is not tried before the chunk is filled. *)
AudioStartUnchecked ==
  /\ apc = "start" /\ nextChunk <= Len(Chunks)
  /\ apc' = IF sync.audio.startPts = NaN THEN "set" ELSE "video"
  /\ UNCHANGED <<clockVars, nextChunk, videoThread, cpc, channel>>

AudioStart ==
  /\ apc = "start" /\ nextChunk <= Len(Chunks) /\ Len(channel) < ChannelCap
  /\ apc' = IF sync.audio.startPts = NaN THEN "set" ELSE "video"
  /\ UNCHANGED <<clockVars, nextChunk, videoThread, cpc, channel>>

AudioSetStart ==
  /\ apc = "set"
  /\ SetStart("audio", Chunks[nextChunk])
  /\ apc' = "current"
  /\ UNCHANGED <<now, nextChunk, videoThread, cpc, channel>>

AudioSetCurrent ==
  /\ apc = "current"
  /\ SetCurrent("audio", Chunks[nextChunk])
  /\ apc' = "video"
  /\ UNCHANGED <<now, nextChunk, videoThread, cpc, channel>>

(* It waits until the video clock has started, then hands the chunk over. *)
AudioWaitsForVideo ==
  /\ apc = "video"
  /\ apc' = "start"
  /\ IF sync.video.startPts = NaN
     THEN UNCHANGED <<nextChunk, channel>>
     ELSE nextChunk' = nextChunk + 1 /\ channel' = Append(channel, Chunks[nextChunk])
  /\ UNCHANGED <<clockVars, videoThread, cpc>>

-----------------------------------------------------------------------------
(* updateAudioPts, in the callback *)

(* Mutant: updatePts starts a clock that has started. *)
CallbackStartAlways ==
  /\ cpc = "idle" /\ channel # << >>
  /\ cpc' = "set"
  /\ UNCHANGED <<clockVars, videoThread, audioThread, channel>>

CallbackStart ==
  /\ cpc = "idle" /\ channel # << >>
  /\ cpc' = IF sync.audio.startPts = NaN THEN "set" ELSE "current"
  /\ UNCHANGED <<clockVars, videoThread, audioThread, channel>>

(* The two assignments of updatePts; after the second the chunk is freed.  *)
CallbackSet ==
  /\ cpc \in {"set", "current"}
  /\ IF cpc = "set"
     THEN SetStart("audio", Head(channel)) /\ cpc' = "current" /\ UNCHANGED channel
     ELSE SetCurrent("audio", Head(channel)) /\ cpc' = "idle" /\ channel' = Tail(channel)
  /\ UNCHANGED <<now, videoThread, audioThread>>

-----------------------------------------------------------------------------
VideoStep == VideoStart \/ VideoWaitsForAudio \/ VideoReadsTime
AudioStep == AudioStart \/ AudioSetStart \/ AudioSetCurrent \/ AudioWaitsForVideo
CallbackStep == CallbackStart \/ CallbackSet

Next == VideoStep \/ AudioStep \/ CallbackStep

Spec == Init /\ [][Next]_vars

(* Both coroutines and SDL's audio thread keep running. *)
FairSpec == Spec /\ WF_vars(VideoStep) /\ WF_vars(AudioStep) /\ WF_vars(CallbackStep)

-----------------------------------------------------------------------------
(* Properties *)

ThreadsTypeOK ==
  /\ ClockTypeOK
  /\ vpc \in {"start", "audio", "time"} /\ nextFrame \in 1 .. Len(Frames) + 1
  /\ apc \in {"start", "set", "current", "video"} /\ nextChunk \in 1 .. Len(Chunks) + 1
  /\ cpc \in {"idle", "set", "current"}
  /\ channel \in Seq(Int) /\ Len(channel) <= ChannelCap

(* Two threads can start the audio clock, each by a test and a later       *)
(* assignment; still it is started once, because the callback has nothing  *)
(* to play before the other thread has started it (Clock::updatePts).      *)
StartsOnce ==
  [][\A c \in {"audio", "video"} :
       sync[c].startPts # NaN => sync'[c].startPts = sync[c].startPts]_vars

(* The audio clock, which two threads set, never runs backwards: the       *)
(* display coroutine sets it only before the callback plays (calAudioDelay,*)
(* updateAudioPts).                                                        *)
AudioTimeNeverBack ==
  [][sync.audio.currentPts # NaN
       => sync'.audio.currentPts >= sync.audio.currentPts]_vars

(* Each stream waits until the other's clock has started, and the video    *)
(* then follows the audio; nobody waits for ever (calVideoDelay,           *)
(* calAudioDelay).                                                         *)
AllPlayed == <>(nextFrame > Len(Frames) /\ sync.audio.currentPts = Chunks[Len(Chunks)])

(* "All clocks are initialised" (the comment in calVideoDelay) by the time *)
(* the master clock is read: the time is a number.                         *)
ClocksInitialised == vpc = "time" => getTime(getMasterClock(sync)) # NaN
=============================================================================
