----------------------------- MODULE ClockSync -----------------------------
(***************************************************************************)
(* ClockSync and Clock (src/clocksync.cpp): the three clocks a player      *)
(* compares frames with.  Video and Audio hold a pointer to one object;    *)
(* here it is the variable sync, and a method is an operator on its value. *)
(*                                                                         *)
(* Time is counted in frame durations.  A delay matters only by its sign   *)
(* (the caller sleeps while it is positive, drops the frame when it is     *)
(* negative), so calVideoDelay returns "early", "due" or "late".  Every    *)
(* comparison with a NaN is false, so a NaN delay is "due".                *)
(***************************************************************************)
EXTENDS Integers

CONSTANT NaN   \* the value of a time that was never set

VARIABLES
  sync,        \* the ClockSync object
  now          \* getCurrentTime()

clockVars == <<sync, now>>

Clock == [isDisabled : BOOLEAN, startPts : Int \cup {NaN}, currentPts : Int \cup {NaN}]

(* A type names the clock that getMasterClock() returns. *)
ClockSyncType == {"audio", "video", "absolute"}

NewClock == [isDisabled |-> FALSE, startPts |-> NaN, currentPts |-> NaN]

(* A new object, and the clocks that Play::_readThread disables in it. *)
NewSync(type, disabled) ==
  [type |-> type,
   audio |-> [NewClock EXCEPT !.isDisabled = "audio" \in disabled],
   video |-> [NewClock EXCEPT !.isDisabled = "video" \in disabled],
   absolute |-> NewClock]

updatePts(clock, pts) ==
  [clock EXCEPT !.startPts = IF @ = NaN THEN pts ELSE @, !.currentPts = pts]

getTime(clock) ==
  IF NaN \in {clock.startPts, clock.currentPts} THEN NaN
  ELSE clock.currentPts - clock.startPts

getMasterVideo(s) == s.video  \* Mutant: video always leads.
getMasterClock(s) == s[s.type]

(* All three clocks are forgotten, and with them which is disabled. *)
reset(s) == [s EXCEPT !.audio = NewClock, !.video = NewClock, !.absolute = NewClock]

updateVideoPts(s, pts) ==
  [s EXCEPT !.absolute = updatePts(@, now), !.video = updatePts(@, pts)]

updateAudioPts(s, pts) ==
  [s EXCEPT !.absolute = updatePts(@, now), !.audio = updatePts(@, pts)]

-----------------------------------------------------------------------------
(* calVideoDelay: what it does to the clocks ... *)
StartVideo(s, pts) ==
  LET t == [s EXCEPT !.absolute = updatePts(@, now),
                     !.video = IF @.startPts = NaN THEN updatePts(@, pts) ELSE @]
  IN  IF ~t.audio.isDisabled /\ t.audio.startPts \notin {NaN, t.video.startPts}
      THEN [t EXCEPT !.video = updatePts(@, t.audio.startPts)]
      ELSE t

(* ... and what it returns, from the clocks it leaves. *)
calVideoDelay(t, pts, duration) ==
  IF ~t.audio.isDisabled /\ t.audio.startPts = NaN THEN "early"
  ELSE LET time == getTime(getMasterClock(t))
           diff == pts - t.video.startPts - time
       IN  IF time = NaN \/ diff \in -2 * duration .. 0 THEN "due"
           ELSE IF diff > 0 THEN "early" ELSE "late"

(* calAudioDelay: what it does to the clocks, and whether it returns 0. *)
StartAudioAlways(s, pts) ==   \* Mutant: without the test of startPts.
  [s EXCEPT !.absolute = updatePts(@, now), !.audio = updatePts(@, pts)]
StartAudio(s, pts) ==
  [s EXCEPT !.absolute = updatePts(@, now),
            !.audio = IF @.startPts = NaN THEN updatePts(@, pts) ELSE @]

AudioDue(t) == t.video.isDisabled \/ t.video.startPts # NaN

-----------------------------------------------------------------------------
ClockTypeOK ==
  /\ sync \in [type : ClockSyncType, audio : Clock, video : Clock, absolute : Clock]
  /\ now \in Nat
=============================================================================
