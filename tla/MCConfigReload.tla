--------------------------- MODULE MCConfigReload ---------------------------
(* A small instance of ConfigReload for TLC. *)
EXTENDS ConfigReload

(* Two configurations, and the first with a flag of its own. *)
MCClientFile ==
  {[core |-> "c1", flag |-> "unset"], [core |-> "c1", flag |-> "on"],
   [core |-> "c2", flag |-> "unset"]}

=============================================================================
