----------------------------- MODULE SectorStore -----------------------------
(***************************************************************************)
(* What a flash translation layer promises its user: an array of sectors.  *)
(* A call erases or writes some of them, in one or several goes; if it is  *)
(* cut short, the sectors it had still to change are unknown or as they    *)
(* were, and every other sector keeps what it holds.  Losing power at any  *)
(* other moment changes nothing.  After a failure the layer does not       *)
(* recover from (broken) nothing is promised any more.                     *)
(***************************************************************************)
EXTENDS Integers

CONSTANTS Sector,   \* sector numbers
          Content,  \* what a sector can hold
          Junk      \* the unknown content left by an interrupted change

VARIABLES store,    \* content of each sector, as the user would read it
          busy,     \* the sectors the call under way has still to change
          val,      \* the content they are to get
          broken    \* a failure that is not recovered from has happened

vars == <<store, busy, val, broken>>

Init ==
    /\ store \in [Sector -> Content]
    /\ busy = {} /\ val = Junk
    /\ broken = FALSE

Begin ==
    /\ busy = {} /\ busy' \in (SUBSET Sector) \ {{}} /\ val' \in Content
    /\ UNCHANGED <<store, broken>>

\* Some of the sectors are changed; the call is over when all are.
Finish ==
    /\ busy' \subseteq busy
    /\ store' = [s \in Sector |-> IF s \in busy \ busy' THEN val ELSE store[s]]
    /\ val' = IF busy' = {} THEN Junk ELSE val
    /\ UNCHANGED broken

\* Power loss or an error in the middle of the call.
Abort ==
    /\ busy' = {} /\ val' = Junk
    /\ store' \in [Sector -> Content]
    /\ \A s \in Sector : store'[s] = store[s] \/ (s \in busy /\ store'[s] = Junk)
    /\ UNCHANGED broken

\* From here on nothing is promised.
Break ==
    /\ broken' = TRUE
    /\ store' \in [Sector -> Content]
    /\ busy' \in SUBSET Sector
    /\ val' \in Content

Next == Begin \/ Finish \/ Abort \/ Break

Spec == Init /\ [][Next]_vars
==============================================================================
