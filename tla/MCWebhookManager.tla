--------------------------- MODULE MCWebhookManager ---------------------------
(* Small instances of WebhookManager for TLC. *)
EXTENDS WebhookManager

(* One of the two settings does not subscribe to the last event. *)
CONSTANTS h1, all, some, e1, e2, e3

MCTroubles == {{"write", "read"}, {"edit", "read"}}

MCWants == [s \in Settings |-> IF s = all THEN Event ELSE Event \ {e3}]

===============================================================================
