----------------------------- MODULE ApiProcess -----------------------------
(***************************************************************************)
(* The API process (src/api/app.py): one event loop under one clock, with  *)
(* the limiter, the analyses and the result store, the health monitor and  *)
(* the report scheduler, all lost and begun anew by a restart; the         *)
(* schedules, the feedback and the report files stay.                      *)
(*                                                                         *)
(* An analysis holds no lock while it waits for a model: others start and  *)
(* end meanwhile, in any order.  What a model answers and what it costs is *)
(* the matter of AlertAnalyzer.                                            *)
(***************************************************************************)
EXTENDS RateLimiter, HealthMonitor, ReportScheduler

CONSTANTS
  Request,     \* the requests for an analysis, each once
  MaxResults,  \* max_size of the result store, 10000 in the code
  Traffic,     \* what may go on together in one behaviour: sets of "analyze",
               \* "health", "reports", "schedules", "feedback", "locks", "restart"
  FirstRows,   \* the feedback there is at the start, if no query fails
  MaxRestarts  \* bounds the restarts

ASSUME ApiAssumption ==
  /\ MaxResults \in Nat \ {0} /\ MaxRestarts \in Nat /\ FirstRows \subseteq Row
  /\ Traffic \subseteq SUBSET {"analyze", "health", "reports", "schedules",
                             "feedback", "locks", "restart"}

VARIABLES
  traffic,   \* what goes on in this behaviour
  requests,  \* what each request does
  results,   \* the keys of _result_store, oldest insertion first
  restarts   \* how often the process was restarted

apiVars == <<requests, results>>
vars == <<now, limiterVars, healthVars, reportVars, traffic, apiVars, restarts>>

TypeOK ==
  /\ ClockTypeOK /\ LimiterTypeOK /\ HealthTypeOK /\ ReportTypeOK
  /\ traffic \in Traffic
  /\ requests \in [Request -> {"new", "running", "over"}]
  /\ results \in Seq(Request) /\ Len(results) <= MaxResults
  /\ restarts \in 0..MaxRestarts

----------------------------------------------------------------------------
(* A variation: the store grows by one more. *)
CacheOneMore(q) ==
  results' = IF Len(results) <= MaxResults THEN Append(results, q)
             ELSE Tail(Append(results, q))

(* _cache_result: every alert has an id of its own, so that an entry is always *)
(* a new one. *)
CacheResult(q) ==
  LET all == Append(results, q)
  IN  results' = IF Len(all) > MaxResults THEN Tail(all) ELSE all

(* POST /analyze, up to the wait for the analyzer. *)
BeginAnalysis(c, q) ==
  /\ "analyze" \in traffic /\ LoopFree
  /\ requests[q] = "new"
  /\ Admit(c)
  /\ requests' = [requests EXCEPT ![q] = "running"]
  /\ UNCHANGED <<now, healthVars, reportVars, traffic, results, restarts>>

(* 429. *)
RejectRequest(c) ==
  /\ "analyze" \in traffic /\ LoopFree
  /\ Refuse(c)
  /\ UNCHANGED <<now, healthVars, reportVars, traffic, apiVars, restarts>>

(* The analyzer returned: the latency is recorded, the result kept. *)
EndAnalysis(q, ms) ==
  /\ LoopFree
  /\ requests[q] = "running"
  /\ requests' = [requests EXCEPT ![q] = "over"]
  /\ Record(ms)
  /\ CacheResult(q)
  /\ UNCHANGED <<now, limiterVars, storeVars, noticeVars, reportVars, traffic, restarts>>

(* It raised: 500, and nothing is recorded. *)
FailAnalysis(q) ==
  /\ LoopFree
  /\ requests[q] = "running"
  /\ requests' = [requests EXCEPT ![q] = "over"]
  /\ UNCHANGED <<now, limiterVars, healthVars, reportVars, traffic, results, restarts>>

(* POST /feedback counts in the same bucket; the client has a FeedbackSystem    *)
(* from then on, and another accuracy. *)
SubmitFeedback(c, a) ==
  /\ "analyze" \in traffic /\ "health" \in traffic /\ LoopFree
  /\ Admit(c)
  /\ database = "good" \/ (database = "missing" /\ ~opened)
  /\ database' = "good" /\ opened' = TRUE /\ accuracy' = a
  /\ UNCHANGED <<now, metricVars, noticeVars, reportVars, traffic, apiVars, restarts>>

HealthStep ==
  /\ "health" \in traffic /\ LoopFree
  /\ \/ \E p \in Probe : CheckHealth(p) \/ EndNotification(p)
     \/ DatabaseChanges
  /\ UNCHANGED <<now, limiterVars, reportVars, traffic, apiVars, restarts>>

ReportStep ==
  /\ \/ ReportNext
     \/ "reports" \in traffic /\ DownloadNext
     \/ "schedules" \in traffic /\ ScheduleNext
     \/ "feedback" \in traffic /\ DashboardNext
     \/ "locks" \in traffic /\ QueryFails
  /\ UNCHANGED <<now, limiterVars, healthVars, traffic, apiVars, restarts>>

Tick ==
  /\ Advance
  /\ UNCHANGED <<limiterVars, healthVars, reportVars, traffic, apiVars, restarts>>

(* The process ends, whatever it is doing, and another one starts. *)
Restart ==
  /\ "restart" \in traffic
  /\ restarts < MaxRestarts
  /\ restarts' = restarts + 1
  /\ stamps' = [c \in Caller |-> <<>>] /\ accepted' = [c \in Caller |-> <<>>]
  /\ HealthRestart
  /\ ReportRestart
  /\ requests' = [q \in Request |-> IF requests[q] = "running" THEN "over" ELSE requests[q]]
  /\ results' = <<>>
  /\ UNCHANGED <<now, traffic>>

Init ==
  /\ ClockInit /\ LimiterInit /\ HealthInit /\ ReportInit
  /\ traffic \in Traffic
  /\ "locks" \notin traffic => table = FirstRows
  /\ "schedules" \notin traffic => schedules = [c \in Client |-> Nothing]
  /\ requests = [q \in Request |-> "new"]
  /\ results = <<>>
  /\ restarts = 0

Next ==
  \/ \E c \in Caller : \/ RejectRequest(c)
                       \/ \E q \in Request : BeginAnalysis(c, q)
                       \/ \E a \in Accuracy : SubmitFeedback(c, a)
  \/ \E q \in Request : FailAnalysis(q) \/ \E ms \in Latency : EndAnalysis(q, ms)
  \/ HealthStep \/ ReportStep
  \/ Tick \/ Restart

Spec == Init /\ [][Next]_vars

=============================================================================
