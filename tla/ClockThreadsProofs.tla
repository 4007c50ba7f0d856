------------------------- MODULE ClockThreadsProofs -------------------------
(***************************************************************************)
(* The clocks that three threads share without a lock (src/clocksync.cpp), *)
(* proved for every sequence of frames, every nondecreasing sequence of    *)
(* chunks and every capacity of the channel.                               *)
(*                                                                         *)
(* Both threads that set the audio clock test it before they do.  What     *)
(* keeps them apart is the channel: while the audio clock has not started, *)
(* no chunk was ever handed over, so the callback has nothing to play.     *)
(***************************************************************************)
EXTENDS ClockThreads, SequenceTheorems, TLAPS

(* The audio display has not handed over a chunk. *)
Silent == nextChunk = 1 /\ channel = << >> /\ cpc = "idle"

Starting ==
  /\ sync.audio.startPts = NaN =>
       Silent /\ apc \in {"start", "set"} /\ sync.audio.currentPts = NaN
  /\ apc = "set" => sync.audio.startPts = NaN
  /\ apc = "current" => Silent
  /\ apc \in {"set", "current"} => sync.audio.currentPts = NaN
  /\ sync.video.startPts = NaN => vpc = "start"
  /\ cpc # "set" /\ (cpc = "current" => channel # << >>)

Working ==
  /\ vpc # "start" => nextFrame <= Len(Frames)
  /\ apc # "start" => nextChunk <= Len(Chunks) /\ Len(channel) < ChannelCap

(* The channel holds the chunks handed over last, and the audio clock has  *)
(* not passed the next of them.                                            *)
NextPlayed == nextChunk - Len(channel)

Behind ==
  /\ NextPlayed >= 1
  /\ \A i \in 1 .. Len(channel) : channel[i] = Chunks[NextPlayed + i - 1]
  /\ sync.audio.currentPts # NaN =>
       \A j \in NextPlayed .. Len(Chunks) : sync.audio.currentPts <= Chunks[j]

SyncObject == [type : ClockSyncType, audio : Clock, video : Clock, absolute : Clock]

CInv == ThreadsTypeOK /\ Starting /\ Working /\ Behind

-----------------------------------------------------------------------------
LEMMA InitInvariant == Init => CInv
<1> SUFFICES ASSUME Init PROVE CInv
  OBVIOUS
<1> USE ThreadsAssumption DEF Init
<1>0. NewClock \in Clock
  BY DEF NewClock, Clock
<1>a. ASSUME NEW off \in BOOLEAN PROVE [NewClock EXCEPT !.isDisabled = off] \in Clock
  BY <1>0 DEF Clock
<1>b. ("audio" \in {}) \in BOOLEAN /\ ("video" \in {}) \in BOOLEAN
  OBVIOUS
<1>1. sync \in SyncObject
  <2> DEFINE a == [NewClock EXCEPT !.isDisabled = "audio" \in {}]
             v == [NewClock EXCEPT !.isDisabled = "video" \in {}]
  <2>1. a \in Clock /\ v \in Clock
    BY <1>a, <1>b
  <2>2. sync = [type |-> "audio", audio |-> a, video |-> v, absolute |-> NewClock]
    BY DEF NewSync
  <2> HIDE DEF a, v
  <2> QED
    BY <1>0, <2>1, <2>2 DEF SyncObject, ClockSyncType
<1>2. sync.audio.startPts = NaN /\ sync.audio.currentPts = NaN /\ sync.video.startPts = NaN
  BY DEF NewSync, NewClock
<1>3. ThreadsTypeOK
  BY <1>1 DEF ThreadsTypeOK, ClockTypeOK, SyncObject
<1>4. Starting /\ Working
  BY <1>2 DEF Starting, Silent, Working
<1>5. Behind
  BY <1>2 DEF Behind, NextPlayed
<1> QED
  BY <1>3, <1>4, <1>5 DEF CInv

-----------------------------------------------------------------------------
(* What a step does to the clocks. *)

LEMMA Updated ==
  ASSUME NEW clock \in Clock, NEW pts \in Int
  PROVE  /\ updatePts(clock, pts) \in Clock
         /\ updatePts(clock, pts).startPts = IF clock.startPts = NaN THEN pts ELSE clock.startPts
BY DEF updatePts, Clock

(* Assigning to one clock of the object leaves the others. *)
LEMMA SetClock ==
  ASSUME ClockTypeOK, NEW clock \in Clock
  PROVE  LET v == [sync EXCEPT !.video = clock]
             a == [sync EXCEPT !.audio = clock]
         IN  /\ v \in SyncObject /\ v.video = clock /\ v.audio = sync.audio
             /\ a \in SyncObject /\ a.audio = clock /\ a.video = sync.video
BY DEF ClockTypeOK, SyncObject

(* The video's steps set its clock and leave the audio's. *)
VideoClockKept ==
  /\ ClockTypeOK'
  /\ sync'.audio = sync.audio
  /\ sync.video.startPts # NaN => sync'.video.startPts = sync.video.startPts

LEMMA VideoUpdated ==
  ASSUME ClockTypeOK, NEW pts \in Int, now' = now,
         sync' = [sync EXCEPT !.video = updatePts(@, pts)]
  PROVE  VideoClockKept /\ sync'.video.startPts # NaN
<1>1. sync.video \in Clock
  BY DEF ClockTypeOK
<1>2. updatePts(sync.video, pts) \in Clock
  BY <1>1, Updated
<1>3. sync' \in SyncObject /\ sync'.video = updatePts(sync.video, pts) /\ sync'.audio = sync.audio
  BY <1>2, SetClock
<1>4. pts # NaN
  BY ThreadsAssumption
<1>5. sync'.video.startPts = IF sync.video.startPts = NaN THEN pts ELSE sync.video.startPts
  BY <1>1, <1>3, Updated
<1>6. ClockTypeOK'
  BY <1>3 DEF ClockTypeOK, SyncObject
<1> QED
  BY <1>3, <1>4, <1>5, <1>6 DEF VideoClockKept

LEMMA VideoSets ==
  ASSUME CInv, VideoStep
  PROVE  /\ VideoClockKept
         /\ vpc' # "start" => sync'.video.startPts # NaN /\ nextFrame' <= Len(Frames)
         /\ vpc' \in {"start", "audio", "time"} /\ nextFrame' \in 1 .. Len(Frames) + 1
         /\ UNCHANGED <<apc, nextChunk, cpc, channel>>
<1> USE ThreadsAssumption DEF CInv, ThreadsTypeOK, Starting, Working, audioThread
<1>0. sync' = sync /\ now' = now => VideoClockKept
  BY DEF VideoClockKept, ClockTypeOK
<1>1. CASE VideoStart
  <2>1. Frames[nextFrame] \in Int
    BY <1>1 DEF VideoStart
  <2>2. now' = now /\ vpc' = "audio" /\ nextFrame' = nextFrame /\ nextFrame <= Len(Frames)
        /\ UNCHANGED <<apc, nextChunk, cpc, channel>>
    BY <1>1 DEF VideoStart
  <2>3. CASE sync.video.startPts = NaN
    <3>1. sync' = [sync EXCEPT !.video = updatePts(@, Frames[nextFrame])]
      BY <1>1, <2>3 DEF VideoStart
    <3> QED
      BY <2>1, <2>2, <3>1, VideoUpdated
  <2>4. CASE sync.video.startPts # NaN
    BY <1>0, <1>1, <2>2, <2>4 DEF VideoStart
  <2> QED
    BY <2>3, <2>4
<1>2. CASE VideoWaitsForAudio
  <2>1. now' = now /\ nextFrame' = nextFrame /\ nextFrame <= Len(Frames)
        /\ sync.video.startPts # NaN /\ UNCHANGED <<apc, nextChunk, cpc, channel>>
    BY <1>2 DEF VideoWaitsForAudio
  <2>2. CASE sync' = sync
    BY <1>0, <1>2, <2>1, <2>2 DEF VideoWaitsForAudio
  <2>3. CASE sync' # sync
    <3>1. sync.audio.startPts # NaN /\ vpc' = "time"
          /\ sync' = [sync EXCEPT !.video = updatePts(@, sync.audio.startPts)]
      BY <1>2, <2>3 DEF VideoWaitsForAudio
    <3>2. sync.audio.startPts \in Int
      BY <3>1 DEF ClockTypeOK, Clock
    <3>3. VideoClockKept /\ sync'.video.startPts # NaN
      BY <2>1, <3>1, <3>2, VideoUpdated
    <3> QED
      BY <2>1, <3>1, <3>3
  <2> QED
    BY <2>2, <2>3
<1>3. CASE VideoReadsTime
  <2>1. now' = now /\ nextFrame' \in 1 .. Len(Frames) + 1 /\ vpc' = "start"
        /\ UNCHANGED <<apc, nextChunk, cpc, channel>>
    BY <1>3 DEF VideoReadsTime
  <2>2. CASE sync' = sync
    BY <1>0, <2>1, <2>2
  <2>3. CASE sync' # sync
    <3>1. sync' = [sync EXCEPT !.video = updatePts(@, Frames[nextFrame])]
      BY <1>3, <2>3 DEF VideoReadsTime
    <3>2. Frames[nextFrame] \in Int
      BY <1>3 DEF VideoReadsTime
    <3> QED
      BY <2>1, <3>1, <3>2, VideoUpdated
  <2> QED
    BY <2>2, <2>3
<1> QED
  BY <1>1, <1>2, <1>3 DEF VideoStep

LEMMA VideoKeeps == ASSUME CInv, VideoStep PROVE CInv'
<1>1. ThreadsTypeOK'
  BY VideoSets DEF CInv, ThreadsTypeOK, VideoClockKept
<1>2. Starting'
  BY VideoSets DEF CInv, Starting, Silent, VideoClockKept
<1>3. Working' /\ Behind'
  BY VideoSets DEF CInv, Working, Behind, NextPlayed, VideoClockKept
<1> QED
  BY <1>1, <1>2, <1>3 DEF CInv

-----------------------------------------------------------------------------
(* Assigning to one member of the audio clock. *)
LEMMA AudioMember ==
  ASSUME ClockTypeOK, NEW pts \in Int
  PROVE  /\ LET s == [sync EXCEPT !["audio"].startPts = pts]
            IN  /\ s \in SyncObject /\ s.video = sync.video
                /\ s.audio.startPts = pts /\ s.audio.currentPts = sync.audio.currentPts
         /\ LET s == [sync EXCEPT !["audio"].currentPts = pts]
            IN  /\ s \in SyncObject /\ s.video = sync.video
                /\ s.audio.currentPts = pts /\ s.audio.startPts = sync.audio.startPts
<1>1. sync.audio \in Clock /\ sync \in SyncObject
  BY DEF ClockTypeOK, SyncObject
<1>2. [sync.audio EXCEPT !.startPts = pts] \in Clock /\ [sync.audio EXCEPT !.currentPts = pts] \in Clock
  BY <1>1 DEF Clock
<1>3. /\ [sync EXCEPT !["audio"].startPts = pts] = [sync EXCEPT !.audio = [sync.audio EXCEPT !.startPts = pts]]
      /\ [sync EXCEPT !["audio"].currentPts = pts] = [sync EXCEPT !.audio = [sync.audio EXCEPT !.currentPts = pts]]
  OBVIOUS
<1>4. /\ [sync.audio EXCEPT !.startPts = pts].startPts = pts
      /\ [sync.audio EXCEPT !.startPts = pts].currentPts = sync.audio.currentPts
      /\ [sync.audio EXCEPT !.currentPts = pts].currentPts = pts
      /\ [sync.audio EXCEPT !.currentPts = pts].startPts = sync.audio.startPts
  BY <1>1 DEF Clock
<1> QED
  BY <1>2, <1>3, <1>4, SetClock

LEMMA AudioStartKeeps == ASSUME CInv, AudioStart PROVE CInv'
<1> USE DEF CInv, AudioStart, clockVars, videoThread
<1>1. ThreadsTypeOK'
  BY DEF ThreadsTypeOK, ClockTypeOK
<1>2. Starting'
  BY DEF Starting, Silent
<1>3. Working' /\ Behind'
  BY DEF Working, Behind, NextPlayed
<1> QED
  BY <1>1, <1>2, <1>3

LEMMA AudioSetStartKeeps ==
  ASSUME CInv, AudioSetStart
  PROVE  CInv' /\ sync.audio.startPts = NaN /\ sync'.video = sync.video
<1> USE ThreadsAssumption DEF CInv, AudioSetStart, videoThread
<1>1. Chunks[nextChunk] \in Int /\ Silent /\ sync.audio.startPts = NaN
  BY DEF ThreadsTypeOK, Working, Starting
<1>2. /\ sync' \in SyncObject /\ sync'.video = sync.video
      /\ sync'.audio.startPts \in Int /\ sync'.audio.currentPts = sync.audio.currentPts
  BY <1>1, AudioMember DEF ThreadsTypeOK, SetStart
<1>3. ThreadsTypeOK'
  BY <1>2 DEF ThreadsTypeOK, ClockTypeOK, SyncObject
<1>4. Starting'
  BY <1>1, <1>2 DEF Starting, Silent
<1>5. Working' /\ Behind'
  BY <1>2 DEF Working, Behind, NextPlayed
<1> QED
  BY <1>1, <1>2, <1>3, <1>4, <1>5

LEMMA AudioSetCurrentKeeps ==
  ASSUME CInv, AudioSetCurrent
  PROVE  /\ CInv' /\ sync.audio.currentPts = NaN
         /\ sync'.video = sync.video /\ sync'.audio.startPts = sync.audio.startPts
<1> USE ThreadsAssumption DEF CInv, AudioSetCurrent, videoThread
<1>1. Chunks[nextChunk] \in Int /\ Silent /\ sync.audio.currentPts = NaN
  BY DEF ThreadsTypeOK, Working, Starting
<1>2. /\ sync' \in SyncObject /\ sync'.video = sync.video
      /\ sync'.audio.currentPts = Chunks[nextChunk] /\ sync'.audio.startPts = sync.audio.startPts
  BY <1>1, AudioMember DEF ThreadsTypeOK, SetCurrent
<1>3. ThreadsTypeOK'
  BY <1>2 DEF ThreadsTypeOK, ClockTypeOK, SyncObject
<1>4. Starting'
  BY <1>1, <1>2 DEF Starting, Silent
<1>5. Working' /\ Behind'
  <2>1. Working' /\ NextPlayed' = 1 /\ channel' = << >>
    BY <1>1 DEF Working, NextPlayed, Silent
  <2>2. \A j \in 1 .. Len(Chunks) : sync'.audio.currentPts <= Chunks[j]
    BY <1>1, <1>2 DEF Silent
  <2> QED
    BY <2>1, <2>2 DEF Behind
<1> QED
  BY <1>1, <1>2, <1>3, <1>4, <1>5

LEMMA AudioWaitsKeeps == ASSUME CInv, AudioWaitsForVideo PROVE CInv'
<1> USE ThreadsAssumption DEF CInv, AudioWaitsForVideo, clockVars, videoThread
<1>1. CASE sync.video.startPts = NaN
  <2>1. ThreadsTypeOK'
    BY <1>1 DEF ThreadsTypeOK, ClockTypeOK
  <2>2. Starting'
    BY <1>1 DEF Starting, Silent
  <2>3. Working' /\ Behind'
    BY <1>1 DEF Working, Behind, NextPlayed
  <2> QED
    BY <2>1, <2>2, <2>3
<1>2. CASE sync.video.startPts # NaN
  <2>1. Chunks[nextChunk] \in Int /\ nextChunk <= Len(Chunks) /\ Len(channel) < ChannelCap
    BY DEF ThreadsTypeOK, Working
  <2>2. /\ channel' \in Seq(Int) /\ Len(channel') = Len(channel) + 1
        /\ channel'[Len(channel) + 1] = Chunks[nextChunk]
        /\ \A i \in 1 .. Len(channel) : channel'[i] = channel[i]
    <3>1. channel \in Seq(Int) /\ channel' = Append(channel, Chunks[nextChunk])
      BY <1>2 DEF ThreadsTypeOK
    <3> QED
      BY <2>1, <3>1, AppendProperties
  <2>3. ThreadsTypeOK'
    BY <1>2, <2>1, <2>2 DEF ThreadsTypeOK, ClockTypeOK
  <2>4. Starting'
    <3>1. sync.audio.startPts # NaN
      BY DEF Starting
    <3>2. channel' # << >>
      BY <2>2 DEF ThreadsTypeOK
    <3> QED
      BY <1>2, <3>1, <3>2 DEF Starting
  <2>5. Working'
    BY <1>2 DEF Working
  <2>6. Behind'
    <3>1. NextPlayed' = NextPlayed /\ NextPlayed \in Int /\ NextPlayed + Len(channel) = nextChunk
      BY <1>2, <2>2 DEF NextPlayed, ThreadsTypeOK
    <3>2. \A i \in 1 .. Len(channel') : channel'[i] = Chunks[NextPlayed + i - 1]
      <4> SUFFICES ASSUME NEW i \in 1 .. Len(channel')
                   PROVE  channel'[i] = Chunks[NextPlayed + i - 1]
        OBVIOUS
      <4>1. CASE i = Len(channel) + 1
        BY <2>2, <3>1, <4>1 DEF ThreadsTypeOK
      <4>2. CASE i # Len(channel) + 1
        <5>1. i \in 1 .. Len(channel)
          BY <2>2, <4>2 DEF ThreadsTypeOK
        <5> QED
          BY <2>2, <5>1 DEF Behind
      <4> QED
        BY <4>1, <4>2
    <3> QED
      BY <3>1, <3>2 DEF Behind
  <2> QED
    BY <2>3, <2>4, <2>5, <2>6
<1> QED
  BY <1>1, <1>2

-----------------------------------------------------------------------------
LEMMA CallbackStartKeeps ==
  ASSUME CInv, CallbackStart
  PROVE  CInv'
<1> USE DEF CInv, CallbackStart, clockVars, videoThread, audioThread
<1>1. sync.audio.startPts # NaN
  BY DEF Starting, Silent
<1>2. ThreadsTypeOK'
  BY DEF ThreadsTypeOK, ClockTypeOK
<1>3. Starting'
  BY <1>1 DEF Starting, Silent
<1>4. Working' /\ Behind'
  BY DEF Working, Behind, NextPlayed
<1> QED
  BY <1>2, <1>3, <1>4

LEMMA CallbackSetKeeps ==
  ASSUME CInv, CallbackSet
  PROVE  /\ CInv' /\ sync'.video = sync.video /\ sync'.audio.startPts = sync.audio.startPts
         /\ sync.audio.currentPts # NaN => sync'.audio.currentPts >= sync.audio.currentPts
<1> USE ThreadsAssumption DEF CInv, CallbackSet, videoThread, audioThread
<1>1. cpc = "current" /\ channel # << >> /\ sync.audio.startPts # NaN /\ apc # "current" /\ apc # "set"
  BY DEF Starting, Silent
<1>a. /\ SetCurrent("audio", Head(channel)) /\ channel' = Tail(channel) /\ channel \in Seq(Int)
      /\ UNCHANGED <<now, vpc, nextFrame, apc, nextChunk>>
  BY <1>1 DEF ThreadsTypeOK
<1>2. /\ Head(channel) = channel[1] /\ Len(channel) >= 1
      /\ channel' \in Seq(Int) /\ Len(channel') = Len(channel) - 1
      /\ \A i \in 1 .. Len(channel') : channel'[i] = channel[i + 1]
  <2>1. Len(channel) >= 1
    BY <1>1, <1>a
  <2>2. Head(channel) = channel[1]
    OBVIOUS
  <2> QED
    BY <1>1, <1>a, <2>1, <2>2, HeadTailProperties
<1>3. /\ NextPlayed \in 1 .. Len(Chunks) /\ NextPlayed' = NextPlayed + 1
      /\ Head(channel) = Chunks[NextPlayed]
  BY <1>1, <1>2, <1>a DEF ThreadsTypeOK, Behind, NextPlayed
<1>4. Head(channel) \in Int /\ \A j \in NextPlayed .. Len(Chunks) : Head(channel) <= Chunks[j]
  BY <1>3
<1> HIDE DEF CallbackSet
<1>5. /\ sync' \in SyncObject /\ sync'.video = sync.video
      /\ sync'.audio.currentPts = Head(channel) /\ sync'.audio.startPts = sync.audio.startPts
  <2>1. ClockTypeOK
    BY DEF ThreadsTypeOK
  <2> QED
    BY <1>4, <1>a, <2>1, AudioMember DEF SetCurrent
<1>6. ThreadsTypeOK'
  BY <1>1, <1>2, <1>5 DEF ThreadsTypeOK, ClockTypeOK, SyncObject, CallbackSet
<1>7. Starting'
  BY <1>1, <1>5 DEF Starting, CallbackSet
<1>8. Working'
  BY <1>2, <1>a DEF Working, ThreadsTypeOK
<1>9. Behind'
  <2>1. \A i \in 1 .. Len(channel') : channel'[i] = Chunks[NextPlayed' + i - 1]
    <3> SUFFICES ASSUME NEW i \in 1 .. Len(channel')
                 PROVE  channel'[i] = Chunks[NextPlayed' + i - 1]
      OBVIOUS
    <3>1. i + 1 \in 1 .. Len(channel) /\ NextPlayed + (i + 1) - 1 = NextPlayed' + i - 1
      BY <1>2, <1>3, <1>a
    <3> QED
      BY <1>2, <3>1 DEF Behind
  <2>2. \A j \in NextPlayed' .. Len(Chunks) : sync'.audio.currentPts <= Chunks[j]
    BY <1>3, <1>4, <1>5
  <2> QED
    BY <1>3, <2>1, <2>2 DEF Behind
<1>10. sync.audio.currentPts # NaN => sync'.audio.currentPts >= sync.audio.currentPts
  BY <1>3, <1>4, <1>5 DEF Behind, ThreadsTypeOK, ClockTypeOK, Clock
<1> QED
  BY <1>5, <1>6, <1>7, <1>8, <1>9, <1>10

-----------------------------------------------------------------------------
(* What a step does to the clocks, in the words of the two properties. *)
StartKept ==
  \A c \in {"audio", "video"} :
    sync[c].startPts # NaN => sync'[c].startPts = sync[c].startPts

TimeKept == sync.audio.currentPts # NaN => sync'.audio.currentPts >= sync.audio.currentPts

LEMMA StepInvariant ==
  ASSUME CInv, [Next]_vars
  PROVE  CInv' /\ StartKept /\ TimeKept
<1>0. sync.audio.currentPts # NaN => sync.audio.currentPts >= sync.audio.currentPts
  BY DEF CInv, ThreadsTypeOK, ClockTypeOK, Clock
<1>1. CASE VideoStep
  BY <1>0, <1>1, VideoKeeps, VideoSets DEF StartKept, TimeKept, VideoClockKept
<1>2. CASE AudioStart
  BY <1>0, <1>2, AudioStartKeeps DEF StartKept, TimeKept, AudioStart, clockVars
<1>3. CASE AudioSetStart
  <2>1. sync.audio.currentPts = NaN
    BY <1>3 DEF CInv, Starting, AudioSetStart
  <2> QED
    BY <1>3, <2>1, AudioSetStartKeeps DEF StartKept, TimeKept
<1>4. CASE AudioSetCurrent
  BY <1>4, AudioSetCurrentKeeps DEF StartKept, TimeKept
<1>5. CASE AudioWaitsForVideo
  BY <1>0, <1>5, AudioWaitsKeeps DEF StartKept, TimeKept, AudioWaitsForVideo, clockVars
<1>6. CASE CallbackStart
  BY <1>0, <1>6, CallbackStartKeeps DEF StartKept, TimeKept, CallbackStart, clockVars
<1>7. CASE CallbackSet
  BY <1>7, CallbackSetKeeps DEF StartKept, TimeKept
<1>8. CASE UNCHANGED vars
  <2> USE <1>8 DEF vars, clockVars
  <2>1. ThreadsTypeOK'
    BY DEF CInv, ThreadsTypeOK, ClockTypeOK
  <2>2. Starting' /\ Working' /\ Behind'
    BY DEF CInv, Starting, Silent, Working, Behind, NextPlayed
  <2> QED
    BY <1>0, <2>1, <2>2 DEF CInv, StartKept, TimeKept
<1> QED
  BY <1>1, <1>2, <1>3, <1>4, <1>5, <1>6, <1>7, <1>8
     DEF Next, AudioStep, CallbackStep

LEMMA Invariant == Spec => []CInv
<1>1. CInv /\ [Next]_vars => CInv'
  BY StepInvariant
<1> QED
  BY InitInvariant, <1>1, PTL DEF Spec

-----------------------------------------------------------------------------
(* The clocks, the three threads and the channel keep their types: the     *)
(* channel never holds more than its capacity.                             *)
THEOREM ThreadsTypeCorrect == Spec => []ThreadsTypeOK
<1>1. CInv => ThreadsTypeOK
  BY DEF CInv
<1> QED
  BY Invariant, <1>1, PTL

(* Neither clock is started twice, whatever the three threads interleave.  *)
THEOREM ClocksStartOnce == Spec => StartsOnce
<1>1. CInv /\ [Next]_vars => [StartKept]_vars
  BY StepInvariant
<1>2. Spec => [][StartKept]_vars
  BY Invariant, <1>1, PTL DEF Spec
<1> QED
  BY <1>2 DEF StartsOnce, StartKept

(* The audio clock never runs backwards. *)
THEOREM AudioTimeAdvances == Spec => AudioTimeNeverBack
<1>1. CInv /\ [Next]_vars => [TimeKept]_vars
  BY StepInvariant
<1>2. Spec => [][TimeKept]_vars
  BY Invariant, <1>1, PTL DEF Spec
<1> QED
  BY <1>2 DEF AudioTimeNeverBack, TimeKept
=============================================================================
