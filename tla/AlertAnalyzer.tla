---------------------------- MODULE AlertAnalyzer ----------------------------
(***************************************************************************)
(* Alert triage (src/core/analyzer.py) over the cost controller and the    *)
(* model router (src/models/model_router.py, src/retry.py).                *)
(*                                                                         *)
(* An API server analyses one alert per request; the run_client command    *)
(* hands one batch to analyze_batch, whose coroutines share a semaphore.   *)
(* All coroutines of a process run on one event loop, so what lies between *)
(* two awaits is one step: the budget check and everything up to the first *)
(* backend request (Begin), and everything from a backend's response to    *)
(* the saved cost (Respond).                                               *)
(***************************************************************************)
EXTENDS CostController, FiniteSets, Sequences

CONSTANTS
  Server,       \* API server processes
  Cli,          \* run_client processes
  Alert,        \* the alerts that may be under analysis at the same time
  Nobody,       \* no process has the alert
  Chain,        \* the client's model followed by its model_fallbacks
  Backends,     \* the model ids the router has a backend for
  MaxAttempts,  \* retry.max_attempts
  Concurrency,  \* concurrency.max_in_flight
  Costs,        \* what one response may cost
  MaxCost,      \* the dearest response
  MaxCrashes,   \* bounds how often a process may die
  MaxBilled     \* bounds the supply of alerts: none comes after this was spent

ASSUME ProcessAssumption ==
  /\ Worker = Server \cup Cli
  /\ Server \cap Cli = {}
  /\ Nobody \notin Worker

ASSUME AlertAssumption == IsFiniteSet(Alert)

ASSUME RouteAssumption ==
  /\ Chain \in Seq(STRING)
  /\ MaxAttempts \in Nat \ {0}
  /\ Concurrency \in Nat

ASSUME CostAssumption == MaxCost \in Nat /\ Costs \subseteq 0..MaxCost

ASSUME BoundAssumption == MaxCrashes \in Nat /\ MaxBilled \in Nat

VARIABLES
  phase,        \* how far the analysis of each alert is
  at,           \* the process that analyses it
  backend,      \* the position in Chain of the backend being called
  attempt,      \* with_retry's attempt counter for that backend
  batch,        \* the alerts of each run_client process's analyze_batch call
  crashes,      \* how often a process has died
  billed,       \* what the providers have charged (not program state)
  booked        \* what record() has been able to save (not program state)

taskVars == <<phase, at, backend, attempt, batch, crashes>>
ghostVars == <<billed, booked>>
vars == <<today, cache, disk, taskVars, ghostVars>>

InFlightPhase == {"calling", "backoff"}
Answer == {"verdict", "dry_run", "http_500", "unknown"}
Phase == {"new", "queued", "lost"} \cup InFlightPhase \cup Answer

TaskTypeOK ==
  /\ phase \in [Alert -> Phase]
  /\ at \in [Alert -> Worker \cup {Nobody}]
  /\ \A a \in Alert : phase[a] \in InFlightPhase \cup {"queued"} <=> at[a] # Nobody
  /\ backend \in [Alert -> 0..Len(Chain)]
  /\ attempt \in [Alert -> 0..MaxAttempts]
  /\ \A a \in Alert : phase[a] = "backoff" => attempt[a] < MaxAttempts
  /\ batch \in [Cli -> SUBSET Alert]
  /\ crashes \in 0..MaxCrashes

TypeOK ==
  /\ CostTypeOK
  /\ TaskTypeOK
  /\ billed \in Nat
  /\ booked \in Nat

(* The analyses of process w that wait for a provider or for a backoff. *)
InFlight(w) == {a \in Alert : at[a] = w /\ phase[a] \in InFlightPhase}

Slots == IF Concurrency >= 1 THEN Concurrency ELSE 1

(* The analysis of a has ended with outcome o. *)
End(a, o) ==
  /\ phase' = [phase EXCEPT ![a] = o]
  /\ at' = [at EXCEPT ![a] = Nobody]
  /\ backend' = [backend EXCEPT ![a] = 0]
  /\ attempt' = [attempt EXCEPT ![a] = 0]
  /\ UNCHANGED <<batch, crashes>>

(* An exception leaves analyze(): the API turns it into a 500 response, *)
(* analyze_batch into an UNKNOWN placeholder. *)
Fail(w, a) == End(a, IF w \in Server THEN "http_500" ELSE "unknown")

(* The backends route() would try after position i. *)
Later(i) == {j \in (i + 1)..Len(Chain) : Chain[j] \in Backends}

(* Process w sends the first request for a to the backend at position j. *)
Send(w, a, j) ==
  /\ phase' = [phase EXCEPT ![a] = "calling"]
  /\ at' = [at EXCEPT ![a] = w]
  /\ backend' = [backend EXCEPT ![a] = j]
  /\ attempt' = [attempt EXCEPT ![a] = 1]
  /\ UNCHANGED <<batch, crashes>>

(* A variation: every failure starts the chain from its beginning. *)
AdvanceFromStart(w, a, i) ==
  \E j \in Later(0) : (\A k \in Later(0) : j <= k) /\ Send(w, a, j)

(* route() goes on to the next backend of the chain it has, or gives up. *)
Advance(w, a, i) ==
  \/ \E j \in Later(i) : (\A k \in Later(i) : j <= k) /\ Send(w, a, j)
  \/ Later(i) = {} /\ Fail(w, a)

(* analyze() up to its first await.  The last disjunct is an exception before *)
(* any call, as when route() cannot read the client's configuration either. *)
Begin(w, a) ==
  /\ \E s \in Loaded(w) :
       /\ Look(w, s)
       /\ \/ OverBudget(s) /\ Fail(w, a)
          \/ Admissible(s) /\ Advance(w, a, 0)
          \/ Fail(w, a)
  /\ UNCHANGED <<today, ghostVars>>

----------------------------------------------------------------------------
(* Another alert comes in where one has been answered, or was lost. *)
NextAlert(a) ==
  /\ billed < MaxBilled
  /\ phase[a] \in Answer \cup {"lost"}
  /\ \A w \in Cli : a \notin batch[w]
  /\ phase' = [phase EXCEPT ![a] = "new"]
  /\ UNCHANGED <<costVars, at, backend, attempt, batch, crashes, ghostVars>>

(* POST /analyze: nothing limits how many run at once. *)
Request(w, a) ==
  /\ w \in Server
  /\ phase[a] = "new"
  /\ Begin(w, a)

(* POST /analyze with dry_run: the budget is checked, nothing is called. *)
RequestDryRun(w, a) ==
  /\ w \in Server
  /\ phase[a] = "new"
  /\ \E s \in Loaded(w) :
       /\ Look(w, s)
       /\ \/ OverBudget(s) /\ Fail(w, a)
          \/ Admissible(s) /\ End(a, "dry_run")
  /\ UNCHANGED <<today, ghostVars>>

(* run_client starts, fetches the alerts of B and calls analyze_batch. *)
SubmitBatch(w, B) ==
  /\ w \in Cli
  /\ batch[w] = {}
  /\ B # {} /\ \A a \in B : phase[a] = "new"
  /\ batch' = [batch EXCEPT ![w] = B]
  /\ phase' = [a \in Alert |-> IF a \in B THEN "queued" ELSE phase[a]]
  /\ at' = [a \in Alert |-> IF a \in B THEN w ELSE at[a]]
  /\ UNCHANGED <<costVars, backend, attempt, crashes, ghostVars>>

(* A variation: the semaphore lets one too many in. *)
AcquireOneMore(a) ==
  /\ phase[a] = "queued"
  /\ Cardinality(InFlight(at[a])) <= Slots
  /\ Begin(at[a], a)

(* A coroutine of the batch gets past the semaphore and starts to analyse. *)
Acquire(a) ==
  /\ phase[a] = "queued"
  /\ Cardinality(InFlight(at[a])) < Slots
  /\ Begin(at[a], a)

(* The provider's response becomes a result, and its cost is recorded.  A    *)
(* cost file that cannot be written fails the analysis after it was charged. *)
Respond(a, cost) ==
  /\ phase[a] = "calling"
  /\ billed' = billed + cost
  /\ \/ /\ cost = 0
        /\ End(a, "verdict")
        /\ UNCHANGED <<cache, disk, booked>>
     \/ /\ cost > 0
        /\ \E s \in Loaded(at[a]) : Update(at[a], AddCost(s, cost), TRUE)
        /\ End(a, "verdict")
        /\ booked' = booked + cost
     \/ /\ cost > 0
        /\ \E s \in Loaded(at[a]) : Update(at[a], AddCost(s, cost), FALSE)
        /\ Fail(at[a], a)
        /\ UNCHANGED booked
  /\ UNCHANGED today

(* The provider has charged for a response no result can be built from: the *)
(* exception sends route() to the next backend, and nothing is recorded. *)
RespondUnusable(a, cost) ==
  /\ phase[a] = "calling"
  /\ billed' = billed + cost
  /\ Advance(at[a], a, backend[a])
  /\ UNCHANGED <<costVars, booked>>

(* A variation: the attempts are not counted against the limit. *)
RetryLaterAlways(a) ==
  /\ phase[a] = "calling"
  /\ phase' = [phase EXCEPT ![a] = "backoff"]
  /\ UNCHANGED <<costVars, at, backend, attempt, batch, crashes, ghostVars>>

(* A rate limit or a transient error with attempts left: with_retry sleeps. *)
RetryLater(a) ==
  /\ phase[a] = "calling"
  /\ attempt[a] < MaxAttempts
  /\ phase' = [phase EXCEPT ![a] = "backoff"]
  /\ UNCHANGED <<costVars, at, backend, attempt, batch, crashes, ghostVars>>

Retry(a) ==
  /\ phase[a] = "backoff"
  /\ phase' = [phase EXCEPT ![a] = "calling"]
  /\ attempt' = [attempt EXCEPT ![a] = @ + 1]
  /\ UNCHANGED <<costVars, at, backend, batch, crashes, ghostVars>>

(* An error that is not retried, or one that is on the last attempt. *)
BackendFails(a) ==
  /\ phase[a] = "calling"
  /\ Advance(at[a], a, backend[a])
  /\ UNCHANGED <<costVars, ghostVars>>

(* A variation: one failed alert keeps gather() from returning. *)
BatchReturnsWhenAllSucceed(w) ==
  /\ w \in Cli
  /\ batch[w] # {}
  /\ \A a \in batch[w] : phase[a] = "verdict"
  /\ batch' = [batch EXCEPT ![w] = {}]
  /\ Forget(w)
  /\ UNCHANGED <<today, phase, at, backend, attempt, crashes, ghostVars>>

(* gather() returns when every alert has its result; run_client then exits. *)
BatchReturns(w) ==
  /\ w \in Cli
  /\ batch[w] # {}
  /\ \A a \in batch[w] : phase[a] \in Answer
  /\ batch' = [batch EXCEPT ![w] = {}]
  /\ Forget(w)
  /\ UNCHANGED <<today, phase, at, backend, attempt, crashes, ghostVars>>

(* The spend shown by the dashboard and the metrics endpoint. *)
GetSpend(w) ==
  /\ w \in Server
  /\ \E s \in Loaded(w) : Look(w, s)
  /\ UNCHANGED <<today, taskVars, ghostVars>>

ResetDaily(w, written) ==
  /\ w \in Server
  /\ \E s \in Loaded(w) : Update(w, ClearDaily(s), written)
  /\ UNCHANGED <<today, taskVars, ghostVars>>

ResetMonthly(w, written) ==
  /\ w \in Server
  /\ \E s \in Loaded(w) : Update(w, ClearMonthly(s), written)
  /\ UNCHANGED <<today, taskVars, ghostVars>>

(* A process dies, and is started again with nothing but the file. *)
Crash(w) ==
  /\ crashes < MaxCrashes
  /\ crashes' = crashes + 1
  /\ Forget(w)
  /\ phase' = [a \in Alert |-> IF at[a] = w THEN "lost" ELSE phase[a]]
  /\ at' = [a \in Alert |-> IF at[a] = w THEN Nobody ELSE at[a]]
  /\ backend' = [a \in Alert |-> IF at[a] = w THEN 0 ELSE backend[a]]
  /\ attempt' = [a \in Alert |-> IF at[a] = w THEN 0 ELSE attempt[a]]
  /\ batch' = [c \in Cli |-> IF c = w THEN {} ELSE batch[c]]
  /\ UNCHANGED <<today, ghostVars>>

NewDay ==
  /\ today < LastDay
  /\ today' = today + 1
  /\ UNCHANGED <<cache, disk, taskVars, ghostVars>>

----------------------------------------------------------------------------
Init ==
  /\ CostInit
  /\ phase = [a \in Alert |-> "new"]
  /\ at = [a \in Alert |-> Nobody]
  /\ backend = [a \in Alert |-> 0]
  /\ attempt = [a \in Alert |-> 0]
  /\ batch = [w \in Cli |-> {}]
  /\ crashes = 0
  /\ billed = 0
  /\ booked = 0

(* What the provider does about the request for a. *)
Provider(a) ==
  \/ \E cost \in Costs : Respond(a, cost) \/ RespondUnusable(a, cost)
  \/ RetryLater(a)
  \/ BackendFails(a)

Next ==
  \/ \E w \in Worker, a \in Alert : Request(w, a) \/ RequestDryRun(w, a)
  \/ \E w \in Worker, B \in SUBSET Alert : SubmitBatch(w, B)
  \/ \E a \in Alert : NextAlert(a) \/ Acquire(a) \/ Provider(a) \/ Retry(a)
  \/ \E w \in Worker : BatchReturns(w) \/ GetSpend(w) \/ Crash(w)
  \/ \E w \in Worker, written \in BOOLEAN : ResetDaily(w, written) \/ ResetMonthly(w, written)
  \/ NewDay

Spec == Init /\ [][Next]_vars

(* Every request to a provider ends (the clients time out), sleeps end, and  *)
(* the event loop runs what is ready.  Nothing obliges anyone to submit      *)
(* alerts, to ask for totals, to crash or to let a day pass. *)
Fairness ==
  /\ \A a \in Alert : WF_vars(Acquire(a)) /\ WF_vars(Provider(a)) /\ WF_vars(Retry(a))
  /\ \A w \in Worker : WF_vars(BatchReturns(w))

FairSpec == Spec /\ Fairness

----------------------------------------------------------------------------
(* How many analyses one process can have in flight: a batch is held to the *)
(* semaphore, requests to a server are not held to anything. *)
MaxInFlight == IF Server = {} THEN Slots ELSE Cardinality(Alert)

(* analyze_batch never has more analyses in flight than max_in_flight, through *)
(* retries, fallbacks, failures and restarts. *)
WithinConcurrency == \A w \in Cli : Cardinality(InFlight(w)) <= Slots

(* What the documentation promises (docs/CLIENT_SETUP.md:65-69, README.md:61): *)
(* the daily limit is a hard stop, refused when it would be exceeded.  It does *)
(* not hold: a call is admitted whenever the total is still below the limit. *)
HardLimit ==
  \A w \in Worker :
    cache[w] # Absent /\ DailyCap # NoLimit => cache[w].daily <= DailyCap

(* What README.md:61 and the class's own documentation promise: recorded spend *)
(* survives restarts.  With several processes on one data directory it does    *)
(* not hold: each rewrites the file from the copy it read when it started. *)
SpendSurvives == booked <= (IF disk = Absent THEN 0 ELSE disk.total)

(* What n analyses can cost. *)
Exposure(n) == n * MaxCost

(* A record that, with limits that are always enforced, no more than n admitted *)
(* analyses have taken past a cap. *)
WithinRoom(s, n) ==
  ~ConfigFaults =>
    /\ DailyCap # NoLimit => s.daily <= DailyCap - 1 + Exposure(n)
    /\ MonthlyCap # NoLimit => s.monthly <= MonthlyCap - 1 + Exposure(n)

(* The budget is looked at before an analysis and charged after it, so a       *)
(* process can exceed its budget, but never by more than the analyses that it  *)
(* had admitted while there was room: one less than the cap, plus the dearest  *)
(* response for each analysis in flight.  True of what every process believes  *)
(* and of the file, on every day, after every restart. *)
OverrunBound ==
  /\ disk # Absent => WithinRoom(disk, MaxInFlight)
  /\ \A w \in Worker : cache[w] # Absent => WithinRoom(cache[w], MaxInFlight)

(* The inductive form of OverrunBound and WithinConcurrency: every analysis   *)
(* that is not in flight leaves room for one dearest response, a process that *)
(* has not looked at its budget yet has nothing in flight, and a batch's      *)
(* process works on the alerts of its batch only. *)
BudgetInv ==
  /\ disk # Absent => WithinRoom(disk, MaxInFlight)
  /\ \A w \in Worker :
       /\ Cardinality(InFlight(w)) <= MaxInFlight
       /\ cache[w] = Absent => InFlight(w) = {}
       /\ cache[w] # Absent =>
            WithinRoom(cache[w], MaxInFlight - Cardinality(InFlight(w)))
  /\ WithinConcurrency
  /\ \A w \in Cli, a \in Alert : at[a] = w => a \in batch[w]

(* With one process and a readable file, no recorded cost is ever lost or      *)
(* counted twice: what record() saved is on disk, a live process knows at      *)
(* least what is on disk, and nobody knows of more than the providers charged. *)
Accounting ==
  /\ SpendSurvives
  /\ \A w \in Worker :
       cache[w] # Absent =>
         /\ disk # Absent => disk.total <= cache[w].total
         /\ cache[w].total <= billed
  /\ disk # Absent => disk.total <= billed

(* Every alert that was accepted is answered, or lost with its process. *)
EveryAlertAnswered ==
  \A a \in Alert : phase[a] # "new" ~> phase[a] \in Answer \cup {"lost"}

(* analyze_batch always returns: a failing alert gets its placeholder and does *)
(* not keep the others, or the batch, from ending. *)
BatchCompletes == \A w \in Cli : batch[w] # {} ~> batch[w] = {}

(***************************************************************************)
(* With one process and a readable file, the cached, lazily rolled-over    *)
(* and persisted record behaves like the eager ledger of SpendLedger.      *)
(***************************************************************************)
TheWorker == CHOOSE w \in Worker : TRUE

OnDisk == IF disk = Absent THEN EmptyState ELSE disk

Totals(s) ==
  [daily |-> Rollover(s).daily, monthly |-> Rollover(s).monthly, total |-> s.total]

Ledger ==
  INSTANCE SpendLedger WITH
    Call   <- Alert,
    day    <- today,
    ledger <- Totals(IF cache[TheWorker] = Absent THEN OnDisk ELSE cache[TheWorker]),
    saved  <- Totals(OnDisk),
    open   <- InFlight(TheWorker)

(* The single-process controller implements the ledger: an analysis is only    *)
(* admitted while both budgets have room, every charge is counted once and in  *)
(* the day and month it is made, and a restart keeps all that was saved. *)
ImplementsLedger == Ledger!Spec

==============================================================================
