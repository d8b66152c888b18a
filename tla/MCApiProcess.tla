---------------------------- MODULE MCApiProcess ----------------------------
(* A small instance of ApiProcess for TLC. *)
EXTENDS ApiProcess, TLC

CONSTANTS c1, i1, i2

(* Rows of one client: a false positive and a later row that is not of one rule, *)
(* and two false positives of another: the table of rules has room for one. *)
MCFeedback ==
  [i \in Row |-> [client |-> c1, rule |-> IF i \in {i1, i2} THEN "r" ELSE "s",
                 fp |-> i # i2, noted |-> TRUE]]

(* Due in the second minute, with an address; and one whose hour is no number. *)
Weekly == [due |-> {1}, bad |-> {}, format |-> "csv", enabled |-> TRUE, email |-> TRUE]
MCSchedules == {Weekly, [Weekly EXCEPT !.due = {}, !.bad = {0, 1}]}

MCTraffic ==
  {{"analyze", "restart"}, {"analyze", "health"},
   {"reports", "feedback"}, {"reports", "locks"}, {"reports", "schedules"}, {"schedules", "restart"}}

Symmetry == Permutations(Request) \cup Permutations(Probe)

=============================================================================
