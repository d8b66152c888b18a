--------------------------- MODULE HealthMonitor ---------------------------
(***************************************************************************)
(* The health of the API process: the rolling metrics and the health check *)
(* (src/monitoring/health_monitor.py) and the notifier (notifier.py).      *)
(*                                                                         *)
(* A check runs without a break up to its notification: _last_sent is set  *)
(* before the channels are tried, and the check answers only after all of  *)
(* them have succeeded or failed.  Other requests run meanwhile.           *)
(***************************************************************************)
EXTENDS Clock, Integers, Sequences, FiniteSets

CONSTANTS
  Probe,             \* requests for the health of the system
  Latency,           \* the latencies that requests have
  LatencyThreshold,  \* latency_threshold_ms
  Percent,           \* the percentile that is watched, 95 in the code
  LatencyWindow,     \* how long a latency counts, an hour in the code
  Day,               \* 86400 seconds in the code
  Accuracy,          \* the accuracies that a client may have, in percent
  AccuracyThreshold, \* accuracy_threshold, in percent
  Channel,           \* the channels that are configured; without any there
                     \* is no Notifier
  Cooldown,          \* cooldown_sec, 300 in the code
  NoCheck            \* no check so far

ASSUME HealthAssumption ==
  /\ Latency \subseteq Nat /\ LatencyThreshold \in Nat
  /\ Percent \in 0..100 /\ LatencyWindow \in Nat /\ Day \in Nat
  /\ Accuracy \subseteq 0..100 /\ 0 \in Accuracy /\ AccuracyThreshold \in 0..100
  /\ Cooldown \in Nat \ {0}

VARIABLES
  latencies,  \* MetricsStore._latencies
  today,      \* _alerts_today
  anchor,     \* _today_anchor
  database,   \* the client's feedback.db: "missing", "good", "corrupt", "barred"
  opened,     \* whether the API has a FeedbackSystem for the client
  accuracy,   \* the client's accuracy
  lastHealth, \* _last_health
  lastSent,   \* Notifier._last_sent
  sending,    \* the checks that wait for their notification
  attempts    \* when a notification was tried (not program state)

metricVars == <<latencies, today, anchor>>
storeVars == <<database, opened, accuracy>>
noticeVars == <<lastHealth, lastSent, sending, attempts>>
healthVars == <<metricVars, storeVars, noticeVars>>

Sample == [at : Time, ms : Latency]
Health == {"healthy", "degraded", "unhealthy"}

HealthTypeOK ==
  /\ latencies \in Seq(Sample)
  /\ today \in Nat /\ anchor \in Time
  /\ database \in {"missing", "good", "corrupt", "barred"}
  /\ opened \in BOOLEAN /\ accuracy \in Accuracy
  /\ lastHealth \in [status : Health, at : Time] \cup {NoCheck}
  /\ lastSent \in Time /\ sending \subseteq Probe
  /\ attempts \in Seq(Time)

----------------------------------------------------------------------------
(* How many latencies the loop of record() pops from the left: all before the *)
(* first that still counts. *)
Aged ==
  CHOOSE n \in 0..Len(latencies) :
    /\ \A i \in 1..n : latencies[i].at < now - LatencyWindow
    /\ n = Len(latencies) \/ latencies[n + 1].at >= now - LatencyWindow

(* record: a day lasts from the first request after the last one ended;       *)
(* latencies that are too old leave only here. *)
Record(ms) ==
  LET newDay == now - anchor >= Day
      recent == SubSeq(latencies, Aged + 1, Len(latencies))
  IN  /\ today' = IF newDay THEN 1 ELSE today + 1
      /\ anchor' = IF newDay THEN now ELSE anchor
      /\ latencies' = Append(recent, [at |-> now, ms |-> ms])

(* percentile: the value at position len * pct / 100, counted from 0, of the  *)
(* latencies in order; 0 if there is none. *)
Percentile(pct) ==
  LET size == Len(latencies)
      position == IF (size * pct) \div 100 < size THEN (size * pct) \div 100 ELSE size - 1
      AtMost(ms) == Cardinality({i \in 1..size : latencies[i].ms <= ms})
      Less(ms) == Cardinality({i \in 1..size : latencies[i].ms < ms})
  IN  IF size = 0 THEN 0
      ELSE CHOOSE ms \in {latencies[i].ms : i \in 1..size} :
             Less(ms) <= position /\ position < AtMost(ms)

(* _check_databases looks only whether the file opens: SELECT 1 reads nothing *)
(* of it. *)
DatabaseUp == database # "barred"

(* _check_thresholds: an accuracy of 0 never alarms. *)
Slow == Percentile(Percent) > LatencyThreshold
Inaccurate == opened /\ accuracy < AccuracyThreshold /\ accuracy > 0

Status ==
  IF ~DatabaseUp THEN "unhealthy"
  ELSE IF Slow \/ Inaccurate THEN "degraded"
  ELSE "healthy"

(* A variation: a suppressed notification starts the cooldown again. *)
NotifyRestartingCooldown(p) ==
  IF Status = "healthy" \/ Channel = {}
  THEN UNCHANGED <<lastSent, sending, attempts>>
  ELSE IF now - lastSent < Cooldown
  THEN lastSent' = now /\ UNCHANGED <<sending, attempts>>
  ELSE /\ lastSent' = now
       /\ sending' = sending \cup {p}
       /\ attempts' = Append(attempts, now)

(* _maybe_notify and send_alert, up to the wait for the channels. *)
Notify(p) ==
  IF Status = "healthy" \/ Channel = {} \/ now - lastSent < Cooldown
  THEN UNCHANGED <<lastSent, sending, attempts>>
  ELSE /\ lastSent' = now
       /\ sending' = sending \cup {p}
       /\ attempts' = Append(attempts, now)

(* GET /health and GET /dashboard/health read every open FeedbackSystem first, *)
(* and fail if one cannot be read. *)
ReadsAccuracy == opened => database = "good"

CheckHealth(p) ==
  /\ p \notin sending
  /\ ReadsAccuracy
  /\ lastHealth' = [status |-> Status, at |-> now]
  /\ Notify(p)
  /\ UNCHANGED <<metricVars, storeVars>>

(* The channels have answered, or their errors were logged. *)
EndNotification(p) ==
  /\ p \in sending
  /\ sending' = sending \ {p}
  /\ UNCHANGED <<metricVars, storeVars, lastHealth, lastSent, attempts>>

(* What happens to the file outside. *)
DatabaseChanges ==
  /\ \/ /\ database = "good" /\ database' \in {"missing", "corrupt", "barred"}
     \/ /\ database = "barred" /\ database' = "good"
  /\ UNCHANGED <<metricVars, noticeVars, opened, accuracy>>

HealthInit ==
  /\ latencies = <<>>
  /\ today = 0 /\ anchor = now
  /\ database \in {"missing", "good"} /\ opened = FALSE /\ accuracy = 0
  /\ lastHealth = NoCheck /\ lastSent = 0
  /\ sending = {} /\ attempts = <<>>

(* A new process: the counters and the notifier start again. *)
HealthRestart ==
  /\ latencies' = <<>>
  /\ today' = 0 /\ anchor' = now
  /\ opened' = FALSE
  /\ lastHealth' = NoCheck /\ lastSent' = 0
  /\ sending' = {} /\ attempts' = <<>>
  /\ UNCHANGED <<database, accuracy>>

----------------------------------------------------------------------------
(* Trouble that a check has seen is announced: a notification was tried then, *)
(* or less than a cooldown before.  Right after the machine's start the clock   *)
(* has not passed a cooldown yet, and nothing is sent. *)
TroubleAnnounced ==
  (/\ lastHealth # NoCheck
   /\ lastHealth.status # "healthy"
   /\ Channel # {}
   /\ lastHealth.at >= Cooldown)
  => /\ attempts # <<>>
     /\ attempts[Len(attempts)] + Cooldown > lastHealth.at
     /\ attempts[Len(attempts)] <= lastHealth.at

=============================================================================
