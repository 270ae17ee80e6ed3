------------------------------- MODULE MCWLExt -------------------------------
(* Small instances of WLExt for TLC. *)
EXTENDS WLExt, TLC

\* Nothing is promised after a failure that the code does not recover from.
NoFault == ~fault
==============================================================================
