-------------------------- MODULE MCFeedbackHints --------------------------
(* A small instance of FeedbackHints for TLC. *)
EXTENDS FeedbackHints, TLC

(* Two false positives of one rule, on which the analysis was wrong: together *)
(* they earn the rule a hint. *)
MCFeedback == [i \in Row |-> [rule |-> 1, fp |-> TRUE, correct |-> FALSE]]

RowSymmetry == Permutations(Row)

=============================================================================
