----------------------------- MODULE ConfigStore -----------------------------
(***************************************************************************)
(* What the firmware may expect of CONFIG_save and CONFIG_load             *)
(* (src/Src/config.c): a store of one configuration.  It never makes up a  *)
(* configuration; what it can lose is the one it holds, and then it falls  *)
(* back to the factory default.                                            *)
(***************************************************************************)
CONSTANTS Configs, Default

VARIABLES inEffect,   \* the configuration the firmware works with
          stored      \* the one a restart would bring back

vars == <<inEffect, stored>>

Init == inEffect = Default /\ stored = Default

\* The operator changes the configuration in effect.
Edit == inEffect' \in Configs /\ UNCHANGED stored

\* Saving replaces the stored configuration, or loses it.
Save == stored' \in {inEffect, Default} /\ UNCHANGED inEffect

\* A restart brings the stored configuration back; it may break into a save.
Restart == stored' \in {stored, Default} /\ inEffect' = stored'

Next == Edit \/ Save \/ Restart

Spec == Init /\ [][Next]_vars

=============================================================================
