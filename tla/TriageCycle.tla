----------------------------- MODULE TriageCycle -----------------------------
(***************************************************************************)
(* The run_client command against a SIEM (scripts/run_client.py, the       *)
(* connectors of src/integrations, with_retry of src/retry.py).            *)
(*                                                                         *)
(* Each process makes one triage cycle per run: health check, fetch, batch *)
(* analysis, write-back.  Nothing locks a client, so the runs of an eager  *)
(* timer overlap.  What a process does between two awaits is one step; the *)
(* SIEM raises alerts, analysts close them and time passes in between.     *)
(* analyze_batch is one alert at a time here, in any order: how it spends  *)
(* and retries is the subject of AlertAnalyzer.                            *)
(***************************************************************************)
EXTENDS Integers, FiniteSets

CONSTANTS
  Run,           \* run_client processes
  Siem,          \* the values of siem.type that may be configured
  NoSiem,        \* siem.type is "none" or one run_client does not know
  MaxAlerts,     \* bounds the alerts the SIEM ever raises: 1 is the oldest
  Malformed,     \* the alerts whose row the connector cannot parse
  Limit,         \* --limit
  Lookback,      \* time_range: how long an open alert stays in the search
  MaxAttempts,   \* retry_max_attempts
  InitialDelay, MaxDelay, Factor,   \* the other retry_ settings
  RetryAfter,    \* the Retry-After a 429 response may carry
  MaxRuns,       \* bounds how often run_client is started
  MaxTime        \* bounds the time

ASSUME SearchAssumption ==
  /\ MaxAlerts \in Nat
  /\ Malformed \subseteq 1..MaxAlerts
  /\ Limit \in Nat \ {0}
  /\ Lookback \in Nat

ASSUME RetryAssumption ==
  /\ MaxAttempts \in Nat \ {0}
  /\ InitialDelay \in Nat
  /\ MaxDelay \in Nat
  /\ Factor \in Nat
  /\ RetryAfter \subseteq Nat

ASSUME CycleBoundAssumption == MaxRuns \in Nat /\ MaxTime \in Nat

VARIABLES
  siem,       \* the client's siem.type
  now,        \* the time
  raisedAt,   \* when the SIEM raised each alert it has raised
  open,       \* the alerts whose status is still open (unassigned)
  degraded,   \* whether a search of Elasticsearch may miss alerts that it asks for
  pc,         \* where each process is in run()
  attempt,    \* with_retry's attempt
  delay,      \* with_retry's delay
  wait,       \* what with_retry sleeps, while it does
  found,      \* the alerts of the process's fetch that are not analysed yet
  judged,     \* those that are
  code,       \* the exit code of the process's last run, once it has ended
  runs        \* how many runs were started

siemVars == <<siem, now, raisedAt, open, degraded>>
callVars == <<attempt, delay, wait>>
runVars == <<pc, callVars, found, judged, code, runs>>
vars == <<siemVars, runVars>>

Alert == 1..MaxAlerts
Raised == DOMAIN raisedAt
Asking == {"health", "fetch"}
Exit == {"none", "done", "unreachable", "bad_config", "traceback", "killed"}
Cap == IF InitialDelay > MaxDelay THEN InitialDelay ELSE MaxDelay

TypeOK ==
  /\ siem \in Siem
  /\ now \in 0..MaxTime
  /\ \E n \in 0..MaxAlerts : raisedAt \in [1..n -> 0..MaxTime]
  /\ open \subseteq Raised
  /\ degraded \in BOOLEAN
  /\ pc \in [Run -> {"idle", "analyze", "send"} \cup Asking]
  /\ attempt \in [Run -> 0..MaxAttempts]
  /\ delay \in [Run -> Nat]
  /\ wait \in [Run -> (-1)..Cap]
  /\ \A p \in Run : wait[p] >= 0 => pc[p] \in Asking /\ attempt[p] < MaxAttempts
  /\ \A p \in Run : /\ found[p] \cup judged[p] \subseteq Raised
                    /\ found[p] \cap judged[p] = {}
  /\ code \in [Run -> Exit]
  /\ runs \in 0..MaxRuns

----------------------------------------------------------------------------
(* The SIEM's side. *)

(* Splunk's default search reads a lookup of the open notables, which no *)
(* earliest_time narrows; the answer holds as many rows as were asked for, in *)
(* an order of its own. *)
SplunkMatching == open
SplunkPages ==
  {S \in SUBSET SplunkMatching :
     \/ S = SplunkMatching /\ Cardinality(S) <= Limit
     \/ Cardinality(S) = Limit}

(* Elasticsearch's query filters on the status and the time range, sorts the *)
(* newest first and cuts at the limit. *)
ElkMatching == {a \in open : raisedAt[a] + Lookback >= now}
Newer(a, S) == {b \in S : b > a}
Newest(S) == {a \in S : Cardinality(Newer(a, S)) < Limit}

(* The answer covers what the index pattern and the shards that did answer in   *)
(* time hold, and says so where the connector does not look; one with no hits   *)
(* at all, null or {}, of a proxy, say, is a page without alerts. *)
ElkPages == {Newest(S) : S \in IF degraded THEN SUBSET ElkMatching ELSE {ElkMatching}}

(* The rows that the answer to fetch_alerts' search may hold. *)
Pages == IF siem = "elk" THEN ElkPages ELSE SplunkPages

(* The alerts fetch_alerts makes of the rows: a row it cannot parse is *)
(* dropped, after it has counted against the limit. *)
SplunkParsed(rows) == rows \ Malformed
ElkParsed(rows) == rows \ Malformed
Parsed(rows) == IF siem = "elk" THEN ElkParsed(rows) ELSE SplunkParsed(rows)

Raise ==
  /\ Cardinality(Raised) < MaxAlerts
  /\ raisedAt' = [a \in 1..(Cardinality(Raised) + 1) |->
                    IF a \in Raised THEN raisedAt[a] ELSE now]
  /\ open' = open \cup (DOMAIN raisedAt' \ Raised)
  /\ UNCHANGED <<siem, now, degraded, runVars>>

Close(a) ==
  /\ a \in open
  /\ open' = open \ {a}
  /\ UNCHANGED <<siem, now, raisedAt, degraded, runVars>>

Tick ==
  /\ now < MaxTime
  /\ now' = now + 1
  /\ UNCHANGED <<siem, raisedAt, open, degraded, runVars>>

(* Shards fail and come back, and so do index patterns that match. *)
Degrade ==
  /\ siem = "elk"
  /\ degraded' = ~degraded
  /\ UNCHANGED <<siem, now, raisedAt, open, runVars>>

----------------------------------------------------------------------------
(* The process. *)

(* run() ends: finally closes the connector's session. *)
Leave(p, c) ==
  /\ pc' = [pc EXCEPT ![p] = "idle"]
  /\ attempt' = [attempt EXCEPT ![p] = 0]
  /\ delay' = [delay EXCEPT ![p] = 0]
  /\ wait' = [wait EXCEPT ![p] = -1]
  /\ found' = [found EXCEPT ![p] = {}]
  /\ judged' = [judged EXCEPT ![p] = {}]
  /\ code' = [code EXCEPT ![p] = c]
  /\ UNCHANGED runs

(* A connector operation begins: with_retry makes its first request. *)
Ask(p, operation) ==
  /\ pc' = [pc EXCEPT ![p] = operation]
  /\ attempt' = [attempt EXCEPT ![p] = 1]
  /\ delay' = [delay EXCEPT ![p] = InitialDelay]
  /\ wait' = [wait EXCEPT ![p] = -1]
  /\ code' = [code EXCEPT ![p] = "none"]
  /\ UNCHANGED <<found, judged>>

(* The connectors _build_connector can make.  WebhookOutput is none of them: *)
(* it leaves get_field_names abstract, so to construct it is a TypeError. *)
Connectable == {"splunk", "elk"}

(* run() up to its first await.  The configuration may be unreadable, or lack *)
(* the host, which the connector's constructor refuses outside run()'s try; *)
(* without a connector there is nothing to process. *)
Start(p) ==
  /\ pc[p] = "idle"
  /\ runs < MaxRuns
  /\ \/ /\ siem \in Connectable
        /\ Ask(p, "health")
        /\ runs' = runs + 1
     \/ /\ siem = NoSiem
        /\ Leave(p, "done")
     \/ /\ siem \notin Connectable \cup {NoSiem}
        /\ Leave(p, "traceback")
     \/ Leave(p, "bad_config")
     \/ siem \in Connectable /\ Leave(p, "traceback")
  /\ UNCHANGED siemVars

(* A request of p is out. *)
Out(p) == pc[p] \in Asking /\ wait[p] = -1

(* The last attempt has failed too: health_check answers False, *)
(* fetch_alerts an empty list, after which there is nothing to process. *)
Exhausted(p) == Leave(p, IF pc[p] = "health" THEN "unreachable" ELSE "done")

AtMost(n, bound) == IF n < bound THEN n ELSE bound

(* with_retry sleeps s before the next attempt, with delay d from then on. *)
Sleep(p, s, d) ==
  /\ wait' = [wait EXCEPT ![p] = s]
  /\ delay' = [delay EXCEPT ![p] = d]
  /\ UNCHANGED <<pc, attempt, found, judged, code, runs>>

(* A variation: the attempt that is still due is not made. *)
GiveUpAtOnce(p, s, d) == Exhausted(p)

(* It sleeps, or gives up after the last attempt. *)
SleepOrGiveUp(p, s, d) ==
  \/ attempt[p] < MaxAttempts /\ Sleep(p, s, d)
  \/ attempt[p] >= MaxAttempts /\ Exhausted(p)

(* Status 429, with or without a usable Retry-After. *)
RateLimited(p) ==
  /\ Out(p)
  /\ \E asked \in RetryAfter \cup {delay[p]} :
       SleepOrGiveUp(p, AtMost(asked, MaxDelay), delay[p])
  /\ UNCHANGED siemVars

(* Status 5xx, a timeout, a lost connection: the jittered delay, which grows. *)
Transient(p) ==
  /\ Out(p)
  /\ \E s \in (delay[p] \div 2)..delay[p] :
       SleepOrGiveUp(p, s, AtMost(delay[p] * Factor, MaxDelay))
  /\ UNCHANGED siemVars

(* Another error status, such as 401 for a missing token, or a failure of *)
(* httpx that is no lost connection: neither the connector nor run() handles *)
(* the exception. *)
Refused(p) ==
  /\ Out(p)
  /\ Leave(p, "traceback")
  /\ UNCHANGED siemVars

(* A body that is no JSON, or for ELK JSON of a shape without get, such as     *)
(* {"hits": null}.  The ELK connector reads every body as a whole and lets the *)
(* exception go; Splunk's decodes the search's line by line, and a line that   *)
(* is no JSON is no row. *)
Garbled(p) ==
  /\ Out(p)
  /\ \/ siem = "elk" /\ Leave(p, "traceback")
     \/ siem = "splunk" /\ pc[p] = "fetch" /\ Leave(p, "done")
  /\ UNCHANGED siemVars

(* A variation: an attempt is not counted. *)
AskAgainUncounted(p) ==
  /\ wait[p] >= 0
  /\ wait' = [wait EXCEPT ![p] = -1]
  /\ UNCHANGED <<siemVars, pc, attempt, delay, found, judged, code, runs>>

(* The sleep is over: the next attempt. *)
AskAgain(p) ==
  /\ wait[p] >= 0
  /\ wait' = [wait EXCEPT ![p] = -1]
  /\ attempt' = [attempt EXCEPT ![p] = attempt[p] + 1]
  /\ UNCHANGED <<siemVars, pc, delay, found, judged, code, runs>>

(* Splunk's health check is answered with status 200, or another that is no *)
(* error. *)
SplunkHealthy(p) ==
  /\ siem = "splunk"
  /\ Out(p) /\ pc[p] = "health"
  /\ \/ Ask(p, "fetch") /\ UNCHANGED runs
     \/ Leave(p, "unreachable")
  /\ UNCHANGED siemVars

(* The cluster says it is green or yellow, or that it is red. *)
ElkHealthy(p) ==
  /\ siem = "elk"
  /\ Out(p) /\ pc[p] = "health"
  /\ \/ Ask(p, "fetch") /\ UNCHANGED runs
     \/ Leave(p, "unreachable")
  /\ UNCHANGED siemVars

(* The search is answered: with nothing to process the run ends. *)
Fetched(p) ==
  /\ Out(p) /\ pc[p] = "fetch"
  /\ \E rows \in Pages :
       IF Parsed(rows) = {}
         THEN Leave(p, "done")
         ELSE /\ found' = [found EXCEPT ![p] = Parsed(rows)]
              /\ pc' = [pc EXCEPT ![p] = "analyze"]
              /\ attempt' = [attempt EXCEPT ![p] = 0]
              /\ delay' = [delay EXCEPT ![p] = 0]
              /\ UNCHANGED <<wait, judged, code, runs>>
  /\ UNCHANGED siemVars

(* One analysis of the batch ends, with a verdict or as UNKNOWN, dry run or *)
(* not; the last one ends analyze_batch. *)
Analyze(p, a) ==
  /\ pc[p] = "analyze"
  /\ a \in found[p]
  /\ found' = [found EXCEPT ![p] = @ \ {a}]
  /\ judged' = [judged EXCEPT ![p] = @ \cup {a}]
  /\ pc' = [pc EXCEPT ![p] = IF found'[p] = {} THEN "send" ELSE "analyze"]
  /\ UNCHANGED <<siemVars, callVars, code, runs>>

(* The results whose metadata holds the source_alert_id that send_result *)
(* needs: the analyzer does not copy it from the alert to the result. *)
Identified(results) == {}

(* The results are sent, unless the run was started with --dry-run, which is *)
(* read here for the first time; send_result skips a result it cannot relate *)
(* to an alert, and sets the status of the others. *)
SendResults(p) ==
  /\ pc[p] = "send"
  /\ \E dry_run \in BOOLEAN :
       open' = IF dry_run THEN open ELSE open \ Identified(judged[p])
  /\ Leave(p, "done")
  /\ UNCHANGED <<siem, now, raisedAt, degraded>>

(* The process is killed. *)
Kill(p) ==
  /\ pc[p] # "idle"
  /\ Leave(p, "killed")
  /\ UNCHANGED siemVars

Init ==
  /\ siem \in Siem
  /\ now = 0
  /\ raisedAt = [a \in 1..0 |-> 0]
  /\ open = {}
  /\ degraded \in IF siem = "elk" THEN BOOLEAN ELSE {FALSE}
  /\ pc = [p \in Run |-> "idle"]
  /\ attempt = [p \in Run |-> 0]
  /\ delay = [p \in Run |-> 0]
  /\ wait = [p \in Run |-> -1]
  /\ found = [p \in Run |-> {}]
  /\ judged = [p \in Run |-> {}]
  /\ code = [p \in Run |-> "none"]
  /\ runs = 0

Answered(p) ==
  \/ RateLimited(p) \/ Transient(p) \/ Refused(p) \/ Garbled(p)
  \/ SplunkHealthy(p) \/ ElkHealthy(p) \/ Fetched(p)

(* What asyncio and the socket timeout see to: answers or timeouts arrive, *)
(* sleeps end, and so do analyses. *)
Proceed(p) ==
  \/ Answered(p)
  \/ AskAgain(p)
  \/ \E a \in Alert : Analyze(p, a)
  \/ SendResults(p)

Next ==
  \/ \E p \in Run : Proceed(p) \/ Kill(p) \/ Start(p)
  \/ \E a \in Alert : Close(a)
  \/ Raise
  \/ Tick
  \/ Degrade

Fairness == \A p \in Run : WF_vars(Proceed(p))

Spec == Init /\ [][Next]_vars /\ Fairness

----------------------------------------------------------------------------
(* A run against Elasticsearch that ends with code 0 and has analysed nothing *)
(* met an answer that may lack alerts, a SIEM that failed every attempt of the  *)
(* fetch before the last, or no parsable alert on the newest page.  "No alerts   *)
(* to process" says no more than that, and in the first two cases there may be  *)
(* alerts (run_client.py:80-82, elk_connector.py:222-240). *)
QuietIsExplained ==
  [][\A p \in Run :
       /\ siem = "elk"
       /\ pc[p] # "idle" /\ pc'[p] = "idle" /\ code'[p] = "done"
       /\ pc[p] # "send"
       => \/ degraded
          \/ attempt[p] = MaxAttempts
          \/ Newest(ElkMatching) \subseteq Malformed]_vars

(* Every run ends: attempts are bounded, requests time out and no alert of the *)
(* batch is waited for twice. *)
RunEnds == \A p \in Run : pc[p] # "idle" ~> pc[p] = "idle"
=============================================================================
