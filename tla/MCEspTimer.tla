----------------------------- MODULE MCEspTimer ------------------------------
(* Small instances of EspTimer for TLC. *)
EXTENDS EspTimer, TLC

\* Once a list has been corrupted there is nothing left to check; a build with
\* ISR dispatch is followed for one instant less, its states being many more.
Explored == ~stale /\ (isr => now < MaxTime)
==============================================================================
