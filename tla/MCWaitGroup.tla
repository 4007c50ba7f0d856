---------------------------- MODULE MCWaitGroup ----------------------------
(* Small instances of WaitGroup for TLC. *)
EXTENDS WaitGroup

CONSTANTS owner, other, t1, t2, t3

ThreeTasks == {t1, t2, t3}
TwoWaiters == {owner, other}
=============================================================================
