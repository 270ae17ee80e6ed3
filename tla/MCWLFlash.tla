------------------------------ MODULE MCWLFlash ------------------------------
(* Small instances of WLFlash for TLC. *)
EXTENDS WLFlash

\* Nothing is promised to the user after a failure that the code does not recover
\* from; the moves, wraps and repairs that follow one are explored on a partition
\* whose contents do not matter.
Explored == fault => Fresh
==============================================================================
