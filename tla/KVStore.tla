------------------------------- MODULE KVStore -------------------------------
(***************************************************************************)
(* What a key-value store on flash promises its user: one call at a time   *)
(* sets or erases one key.  The call takes effect at one moment (Commit)   *)
(* or fails and has no effect; a power loss at any moment leaves every key *)
(* as it was, except that the call under way may have taken effect.  After *)
(* a failure the store does not recover from (broken) nothing is promised. *)
(***************************************************************************)
CONSTANTS Key,   \* the keys
          Value, \* what a key can hold
          Absent \* the value of a key that is not stored

VARIABLES store, \* the value of each key
          call,  \* the call under way: a key and the value it is to get
          phase, \* "idle", "busy", "done" (took effect) or "failed"
          broken \* a failure that is not recovered from has happened

vars == <<store, call, phase, broken>>

Held == Value \cup {Absent}

NoCall == [key |-> Absent, val |-> Absent]

Init ==
    /\ store = [k \in Key |-> Absent]
    /\ call = NoCall
    /\ phase = "idle"
    /\ broken = FALSE

Begin ==
    /\ phase = "idle"
    /\ \E k \in Key, v \in Held : call' = [key |-> k, val |-> v]
    /\ phase' = "busy"
    /\ UNCHANGED <<store, broken>>

Effect == [store EXCEPT ![call.key] = call.val]

Commit ==
    /\ phase = "busy" /\ phase' = "done"
    /\ store' = Effect
    /\ UNCHANGED <<call, broken>>

Fail ==
    /\ phase = "busy" /\ phase' = "failed"
    /\ UNCHANGED <<store, call, broken>>

Return ==
    /\ phase \in {"done", "failed"} /\ phase' = "idle"
    /\ call' = NoCall
    /\ UNCHANGED <<store, broken>>

PowerLoss ==
    /\ phase' = "idle" /\ call' = NoCall
    /\ store' = store \/ (phase = "busy" /\ store' = Effect)
    /\ UNCHANGED broken

\* From here on nothing is promised.
Break ==
    /\ broken' = TRUE
    /\ store' \in [Key -> Held]
    /\ phase' \in {"idle", "busy", "done", "failed"}
    /\ call' \in [key : Key \cup {Absent}, val : Held]

Next == Begin \/ Commit \/ Fail \/ Return \/ PowerLoss \/ Break

Spec == Init /\ [][Next]_vars
==============================================================================
