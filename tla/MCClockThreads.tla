--------------------------- MODULE MCClockThreads ---------------------------
(* Small instances of ClockThreads for TLC. *)
EXTENDS ClockThreads

(* The two streams do not begin at the same time, and the video goes on    *)
(* after the audio has ended.                                              *)
FrameTimes == << 1, 2, 3 >>
ChunkTimes == << 2, 3, 4, 5 >>
=============================================================================
