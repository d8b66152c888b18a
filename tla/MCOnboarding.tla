---------------------------- MODULE MCOnboarding ----------------------------
(* Two clients, and setups that are begun anew, resumed and repeated.  Two of *)
(* the answers about the environment name no framework. *)
EXTENDS Onboarding

MCChoice ==
  << {}, {"sonnet"}, {"splunk", "none"}, {"bank", "lab", "declined"}, {"limits"} >>
MCSteps == [k \in 2..Last |-> MCChoice[k]]
MCCompliance == [answer \in {"bank", "lab", "declined"} |->
                   IF answer = "bank" THEN "PCI-DSS" ELSE "no framework"]
=============================================================================
