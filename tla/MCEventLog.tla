----------------------------- MODULE MCEventLog -----------------------------
(* Small instances of EventLog for TLC. *)
EXTENDS EventLog, TLC

CONSTANTS c1, c2

TwoCpus   == {c1, c2}
OneLen  == {4}
===========================================================================
