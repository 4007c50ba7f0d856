------------------------------- MODULE MCLog -------------------------------
(* Small instances of Log for TLC. *)
EXTENDS Log

CONSTANTS a, b
TwoCallers == {a, b}
=============================================================================
