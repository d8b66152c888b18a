-------------------------- MODULE MCConfigHistory --------------------------
(* A small instance of ConfigHistory for TLC. *)
EXTENDS ConfigHistory

(* One configuration with sections of its own, what is left of it without     *)
(* them, and one that the schema refuses. *)
MCView == [c \in {"plain", "rich", "bad"} |-> IF c = "rich" THEN "plain" ELSE c]

=============================================================================
