---------------------------- MODULE MCTriageCycle ----------------------------
(* run_client started twice against a SIEM whose page is shorter than its    *)
(* queue.  Processes share only the SIEM, which no run changes.              *)
EXTENDS TriageCycle

MCSiem == {"elk", "splunk", "webhook", "none"}
MCMalformed == {2}
MCRetryAfter == {0, 5}
=============================================================================
