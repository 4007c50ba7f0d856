------------------------------- MODULE MCPlay -------------------------------
(* Small instances of Play for TLC. *)
EXTENDS Play

BothStreams == {"video", "audio"}

V(t) == [stream |-> "video", pts |-> t]
A(t) == [stream |-> "audio", pts |-> t]

(* Well interleaved; the audio starts first. *)
ShortFile == << A(1), V(1), V(2), A(2), A(3), V(3), V(4) >>
(* The video begins later than the audio. *)
OffsetFile == << A(1), V(2), A(2), V(3), A(3) >>
VideoFile == << V(1), V(2), V(3), V(4), V(5) >>
AudioFile == << A(1), A(2), A(3) >>

(* One element in the video's frame queue, as in the code; two instead of  *)
(* seven in the audio's.                                                   *)
SmallQueues == [s \in BothStreams |-> IF s = "video" THEN 1 ELSE 2]
=============================================================================
