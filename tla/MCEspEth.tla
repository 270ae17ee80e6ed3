------------------------------ MODULE MCEspEth ------------------------------
(* Small instances of EspEth for TLC. *)
EXTENDS EspEth

\* Behaviours are followed up to the first failure of the code that is known.
NoFault == fault = "none"
==============================================================================
