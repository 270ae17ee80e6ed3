-------------------------------- MODULE MCOTA --------------------------------
(* Small instances of OTA for TLC. *)
EXTENDS OTA, TLC

\* Three slots and no factory app under documented use; two slots, a factory
\* app and any use.
MCBuilds ==
    {[slots |-> 3, factory |-> FALSE, rollback |-> TRUE, uses |-> {}],
     [slots |-> 2, factory |-> TRUE, rollback |-> TRUE, uses |-> AllUses]}

==============================================================================
