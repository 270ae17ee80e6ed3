------------------------------ MODULE MCEspEvent ------------------------------
(* Small instances of EspEvent for TLC. *)
EXTENDS EspEvent

CONSTANTS a, b, c

\* One handler of each level, an event that reaches all three and one that does
\* not reach the most specific.
MCKeyOf == (a :> <<ANY, ANY>>) @@ (b :> <<"B", ANY>>) @@ (c :> <<"B", "1">>)
MCEvents == {<<"B", "1">>, <<"B", "2">>}

\* Behaviours are followed up to the first failure of the code that is known.
NoFault == fault = "none" /\ ~Deadlocked
==============================================================================
