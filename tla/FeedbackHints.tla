--------------------------- MODULE FeedbackHints ---------------------------
(***************************************************************************)
(* Analyst feedback and the prompt hints learned from it, for one client:  *)
(* the SQLite store and its recovery (src/feedback/feedback_system.py),    *)
(* the rules that earn a hint (learning_engine.py), the hints that the     *)
(* analyzer caches for a while (prompt_enhancer.py, core/analyzer.py), the *)
(* routes of the API (src/api/app.py) and the dashboard's                  *)
(* (dashboard/app.py).                                                     *)
(*                                                                         *)
(* The API is one process with one event loop, and sqlite calls block it.  *)
(* It keeps two FeedbackSystem objects, one for its routes and one for the *)
(* hints; each creates the table when it is made, and never again.  The    *)
(* dashboard is another process over the same file: it writes rows itself, *)
(* and makes a FeedbackSystem for every look at what was learned.  Any     *)
(* error of sqlite while one is being made, a lock that is held too long   *)
(* included, takes the file for corrupt and moves it aside.                *)
(*                                                                         *)
(* The clock counts seconds: a backup is named after the second.           *)
(***************************************************************************)
EXTENDS Integers, FiniteSets

CONSTANTS
  Row,         \* the feedback records that analysts send, each once
  Feedback,    \* what each says: its rule, whether the verdict was
               \* false_positive, whether the analysis was correct
  Rule,        \* rule names, as numbers in the order GROUP BY returns them
  Threshold,   \* fp_rate_threshold, in percent
  MinSamples,  \* min_sample_size
  MaxHints,    \* max_hints
  Ttl,         \* cache_ttl_sec, 0 disables the cache
  Faults,      \* whether sqlite may fail on a good file (a lock held too long)
  Damage,      \* whether the file may become corrupt
  LastSecond,  \* bounds the clock
  MaxCrashes,  \* bounds the crashes
  MaxFailures, \* bounds the times that a file does not open
  None         \* no cached hints, nobody is recovering

ASSUME FeedbackAssumption ==
  /\ Rule \subseteq Nat
  /\ Feedback \in [Row -> [rule : Rule, fp : BOOLEAN, correct : BOOLEAN]]
  /\ IsFiniteSet(Row) /\ IsFiniteSet(Rule)

ASSUME SettingAssumption ==
  /\ Threshold \in 0..100 /\ MinSamples \in Nat /\ MaxHints \in Nat \ {0}
  /\ Ttl \in Nat /\ LastSecond \in Nat /\ MaxCrashes \in Nat /\ MaxFailures \in Nat
  /\ Faults \in BOOLEAN /\ Damage \in BOOLEAN

Time == 0..LastSecond
Opener == {"routes", "hints", "dashboard"}
Process == {"api", "dashboard"}
Host(o) == IF o = "dashboard" THEN "dashboard" ELSE "api"
Entry == [hints : SUBSET Rule, expires : Nat, failed : BOOLEAN, basis : SUBSET Row]
Recovery == [opener : Opener, step : {"move", "create"}]

ASSUME NoneAssumption == None \notin Entry /\ None \notin Recovery

VARIABLES
  now,       \* the clock
  db,        \* the file: "missing", "bare" (no feedback table), "ready", "corrupt"
  rows,      \* the rows of its feedback table
  made,      \* the seconds in which a backup was made
  backups,   \* the rows of each of them
  opened,    \* the FeedbackSystem objects that the API has
  cache,     \* PromptEnhancer._cache[client]
  recovery,  \* what each process is doing about a file that did not open
  crashes,   \* how often a process ended while it was
  failures,  \* how often the file did not open
  ackAt,     \* when each row was accepted, -1 before (not program state)
  goneAt,    \* when each row left the table, -1 before (not program state)
  byApi,     \* the rows the API accepted (not program state)
  erased,    \* the rows that a reset deleted (not program state)
  clash,     \* whether a backup replaced another (not program state)
  halfway    \* whether a recovery ended after moving the file (not program state)

counters == <<crashes, failures>>
ghostVars == <<ackAt, goneAt, byApi, erased, clash, halfway>>
vars == <<now, db, rows, made, backups, opened, cache, recovery, counters, ghostVars>>

TypeOK ==
  /\ now \in Time
  /\ db \in {"missing", "bare", "ready", "corrupt"}
  /\ rows \subseteq Row
  /\ made \subseteq Time /\ backups \in [Time -> SUBSET Row]
  /\ opened \subseteq {"routes", "hints"}
  /\ cache \in Entry \cup {None}
  /\ recovery \in [Process -> Recovery \cup {None}]
  /\ crashes \in 0..MaxCrashes /\ failures \in 0..MaxFailures
  /\ ackAt \in [Row -> Time \cup {-1}] /\ goneAt \in [Row -> Time \cup {-1}]
  /\ byApi \subseteq Row /\ erased \subseteq Row
  /\ clash \in BOOLEAN /\ halfway \in BOOLEAN

----------------------------------------------------------------------------
(* rule_stats: the rows of one rule, and how many say false positive or that  *)
(* the analysis was correct. *)
OfRule(S, r) == {i \in S : Feedback[i].rule = r}
Total(S, r) == Cardinality(OfRule(S, r))
FalsePositives(S, r) == Cardinality({i \in OfRule(S, r) : Feedback[i].fp})
Correct(S, r) == Cardinality({i \in OfRule(S, r) : Feedback[i].correct})

(* compute_rule_insights sorts by accuracy, worst first; sorting is stable. *)
Worse(S, q, r) ==
  LET left == Correct(S, q) * Total(S, r)
      right == Correct(S, r) * Total(S, q)
  IN  left < right \/ (left = right /\ q < r)

(* A rule earns a hint by its false-positive rate, with enough rows. *)
Flagged(S) ==
  {r \in Rule : /\ Total(S, r) > 0 /\ Total(S, r) >= MinSamples
                /\ 100 * FalsePositives(S, r) >= Threshold * Total(S, r)}

(* generate_prompt_hints: the worst of them, MaxHints at most. *)
Hints(S) ==
  {r \in Flagged(S) :
     Cardinality({q \in Flagged(S) : Worse(S, q, r)}) < MaxHints}

(* A variation: a copy is used once more in the second it expires. *)
UsableOneSecondMore(e) == e # None /\ e.expires >= now

(* _get_hints takes a cached copy until the second it expires. *)
Usable(e) == e # None /\ e.expires > now

----------------------------------------------------------------------------
Idle(p) == recovery[p] = None

(* A file that opens has the table from then on, with the rows it had. *)
OpensWell == db # "corrupt"

(* Rows leave the table: which, and when. *)
Leave(S) == goneAt' = [i \in Row |-> IF i \in S THEN now ELSE goneAt[i]]

Insert(i) ==
  /\ ackAt[i] = -1
  /\ rows' = rows \cup {i}
  /\ ackAt' = [ackAt EXCEPT ![i] = now]
  /\ UNCHANGED <<goneAt, erased, clash, halfway>>

(* A variation: the cached hints stay. *)
RecordKeepingHints(i) ==
  /\ Idle("api")
  /\ db = "ready" \/ ("routes" \notin opened /\ OpensWell)
  /\ db' = "ready"
  /\ opened' = opened \cup {"routes"}
  /\ Insert(i)
  /\ byApi' = byApi \cup {i}
  /\ UNCHANGED <<now, made, backups, cache, recovery, counters>>

(* POST /feedback: the row is committed, then the cached hints are dropped.   *)
(* It fails, and is not accepted, when there is no table. *)
RecordFeedback(i) ==
  /\ Idle("api")
  /\ db = "ready" \/ ("routes" \notin opened /\ OpensWell)
  /\ db' = "ready"
  /\ opened' = opened \cup {"routes"}
  /\ Insert(i)
  /\ byApi' = byApi \cup {i}
  /\ cache' = None
  /\ UNCHANGED <<now, made, backups, recovery, counters>>

(* A request fails for want of the table, or on a corrupt file.  A connection *)
(* to a file that is not there makes an empty one. *)
RequestFails ==
  /\ Idle("api")
  /\ "routes" \in opened
  /\ db # "ready"
  /\ db' = IF db = "missing" THEN "bare" ELSE db
  /\ UNCHANGED <<now, rows, made, backups, opened, cache, recovery, counters, ghostVars>>

(* A variation: the rows are kept in place of what was learned from them. *)
KeptRows(S, failed) ==
  IF Ttl = 0 THEN cache
  ELSE [hints |-> S, expires |-> now + Ttl, failed |-> failed, basis |-> S]

(* What _get_hints keeps: hints from the rows in S, or nothing after a failure. *)
Kept(S, failed) ==
  IF Ttl = 0 THEN cache
  ELSE [hints |-> IF failed THEN {} ELSE Hints(S), expires |-> now + Ttl,
        failed |-> failed, basis |-> S]

(* An analysis needs hints that are not cached, or not fresh any more. *)
BuildHints ==
  /\ Idle("api")
  /\ ~Usable(cache)
  /\ db = "ready" \/ ("hints" \notin opened /\ OpensWell)
  /\ db' = "ready"
  /\ opened' = opened \cup {"hints"}
  /\ cache' = Kept(rows, FALSE)
  /\ UNCHANGED <<now, rows, made, backups, recovery, counters, ghostVars>>

(* The store cannot be read: the analysis goes on without hints, and so do    *)
(* others for a while. *)
BuildNoHints ==
  /\ Idle("api")
  /\ ~Usable(cache)
  /\ "hints" \in opened
  /\ Faults \/ db # "ready"
  /\ db' = IF db = "missing" THEN "bare" ELSE db
  /\ cache' = Kept(rows, TRUE)
  /\ UNCHANGED <<now, rows, made, backups, opened, recovery, counters, ghostVars>>

----------------------------------------------------------------------------
(* sqlite fails while a FeedbackSystem is made. *)
FailToOpen(o) ==
  /\ Idle(Host(o))
  /\ o \notin opened
  /\ o = "hints" => ~Usable(cache)
  /\ Faults \/ db = "corrupt"
  /\ failures < MaxFailures
  /\ failures' = failures + 1
  /\ recovery' = [recovery EXCEPT ![Host(o)] = [opener |-> o, step |-> "move"]]
  /\ UNCHANGED <<now, db, rows, made, backups, opened, cache, crashes, ghostVars>>

(* A variation: the file is deleted. *)
DeleteInsteadOfMove(p) ==
  /\ recovery[p] # None /\ recovery[p].step = "move"
  /\ db # "missing"
  /\ db' = "missing"
  /\ rows' = {}
  /\ Leave(rows)
  /\ recovery' = [recovery EXCEPT ![p].step = "create"]
  /\ UNCHANGED <<now, made, backups, opened, cache, counters, ackAt, byApi, erased, clash, halfway>>

(* _recover_corrupt_db moves whatever file is there by now, and the move      *)
(* replaces a backup that was made in the same second. *)
MoveAside(p) ==
  /\ recovery[p] # None /\ recovery[p].step = "move"
  /\ db # "missing"
  /\ backups' = [backups EXCEPT ![now] = rows]
  /\ made' = made \cup {now}
  /\ clash' = (clash \/ now \in made)
  /\ db' = "missing"
  /\ rows' = {}
  /\ Leave(rows)
  /\ recovery' = [recovery EXCEPT ![p].step = "create"]
  /\ UNCHANGED <<now, opened, cache, counters, ackAt, byApi, erased, halfway>>

(* Somebody else has moved it: FeedbackStoreError.  For the hints that is one *)
(* more failure. *)
NothingToMove(p) ==
  /\ recovery[p] # None /\ recovery[p].step = "move"
  /\ db = "missing"
  /\ recovery' = [recovery EXCEPT ![p] = None]
  /\ cache' = IF recovery[p].opener = "hints" THEN Kept(rows, TRUE) ELSE cache
  /\ UNCHANGED <<now, db, rows, made, backups, opened, counters, ghostVars>>

(* A variation: the object is kept without the table. *)
CreateNothing(p) ==
  /\ recovery[p] # None /\ recovery[p].step = "create"
  /\ opened' = opened \cup ({recovery[p].opener} \ {"dashboard"})
  /\ recovery' = [recovery EXCEPT ![p] = None]
  /\ UNCHANGED <<now, db, rows, made, backups, cache, counters, ghostVars>>

(* The new file, or one that somebody else has made meanwhile, gets its table. *)
CreateTable(p) ==
  /\ recovery[p] # None /\ recovery[p].step = "create"
  /\ OpensWell
  /\ db' = "ready"
  /\ opened' = opened \cup ({recovery[p].opener} \ {"dashboard"})
  /\ recovery' = [recovery EXCEPT ![p] = None]
  /\ UNCHANGED <<now, rows, made, backups, cache, counters, ghostVars>>

(* That fails as well: the file may stay without its table. *)
FailToCreate(p) ==
  /\ recovery[p] # None /\ recovery[p].step = "create"
  /\ Faults \/ ~OpensWell
  /\ db' = IF db = "missing" THEN "bare" ELSE db
  /\ recovery' = [recovery EXCEPT ![p] = None]
  /\ cache' = IF recovery[p].opener = "hints" THEN Kept(rows, TRUE) ELSE cache
  /\ halfway' = TRUE
  /\ UNCHANGED <<now, rows, made, backups, opened, counters, ackAt, goneAt, byApi, erased, clash>>

----------------------------------------------------------------------------
(* The dashboard's POST /api/feedback writes the row itself, if it finds the  *)
(* table, and tells nobody. *)
DashboardRecord(i) ==
  /\ Idle("dashboard")
  /\ db = "ready"
  /\ Insert(i)
  /\ UNCHANGED <<now, db, made, backups, opened, cache, recovery, counters, byApi>>

(* POST /api/admin/reset deletes every row. *)
DashboardReset ==
  /\ Idle("dashboard")
  /\ db = "ready"
  /\ rows' = {}
  /\ erased' = erased \cup rows
  /\ Leave(rows)
  /\ UNCHANGED <<now, db, made, backups, opened, cache, recovery, counters,
                 ackAt, byApi, clash, halfway>>

(* Any page of the dashboard that reads the file makes it if need be. *)
DashboardConnect ==
  /\ Idle("dashboard")
  /\ db' = IF db = "missing" THEN "bare" ELSE db
  /\ UNCHANGED <<now, rows, made, backups, opened, cache, recovery, counters, ghostVars>>

(* GET /api/learning makes a FeedbackSystem. *)
DashboardLearning ==
  /\ Idle("dashboard")
  /\ OpensWell
  /\ db' = "ready"
  /\ UNCHANGED <<now, rows, made, backups, opened, cache, recovery, counters, ghostVars>>

----------------------------------------------------------------------------
Tick ==
  /\ now < LastSecond
  /\ now' = now + 1
  /\ UNCHANGED <<db, rows, made, backups, opened, cache, recovery, counters, ghostVars>>

Corrupt ==
  /\ Damage
  /\ db = "ready"
  /\ db' = "corrupt"
  /\ UNCHANGED <<now, rows, made, backups, opened, cache, recovery, counters, ghostVars>>

(* A process ends in the middle of a recovery; the API loses its objects. *)
Crash(p) ==
  /\ ~Idle(p)
  /\ crashes < MaxCrashes
  /\ crashes' = crashes + 1
  /\ halfway' = (halfway \/ recovery[p].step = "create")
  /\ recovery' = [recovery EXCEPT ![p] = None]
  /\ opened' = IF p = "api" THEN {} ELSE opened
  /\ cache' = IF p = "api" THEN None ELSE cache
  /\ UNCHANGED <<now, db, rows, made, backups, failures, ackAt, goneAt, byApi, erased, clash>>

Init ==
  /\ now = 0
  /\ db \in {"missing", "bare", "ready"}
  /\ rows = {}
  /\ made = {} /\ backups = [t \in Time |-> {}]
  /\ opened = {}
  /\ cache = None
  /\ recovery = [p \in Process |-> None]
  /\ crashes = 0 /\ failures = 0
  /\ ackAt = [i \in Row |-> -1] /\ goneAt = [i \in Row |-> -1]
  /\ byApi = {} /\ erased = {}
  /\ clash = FALSE /\ halfway = FALSE

Next ==
  \/ \E i \in Row : RecordFeedback(i) \/ DashboardRecord(i)
  \/ RequestFails \/ BuildHints \/ BuildNoHints
  \/ \E o \in Opener : FailToOpen(o)
  \/ \E p \in Process : \/ MoveAside(p) \/ NothingToMove(p)
                          \/ CreateTable(p) \/ FailToCreate(p) \/ Crash(p)
  \/ DashboardReset \/ DashboardConnect \/ DashboardLearning
  \/ Tick \/ Corrupt

Spec == Init /\ [][Next]_vars

----------------------------------------------------------------------------
(* Hints that the API still uses take account of every row that the API       *)
(* itself accepted and the table still has: "the prompt-hint cache for this    *)
(* client is invalidated so the learning engine will rebuild hints on the next *)
(* analysis call" (app.py:444-445). *)
OwnFeedbackSeen ==
  (Usable(cache) /\ ~cache.failed) => byApi \cap rows \subseteq cache.basis

(* Whatever another process did to the table is in the hints after cache_ttl_sec *)
(* at the latest: a row that it added, and a row that a reset or a recovery took *)
(* away. *)
FreshWithinTtl ==
  (Usable(cache) /\ ~cache.failed) =>
    /\ \A i \in rows : ackAt[i] + Ttl <= now => i \in cache.basis
    /\ \A i \in cache.basis \ rows : goneAt[i] + Ttl > now

(* A row that was accepted and not deleted by a reset is in the table or in a *)
(* backup, whichever processes recover at the same time, unless two recoveries *)
(* fell into one second. *)
AcceptedSurvives ==
  ~clash =>
    \A i \in Row : ackAt[i] >= 0 /\ i \notin erased =>
      i \in rows \/ \E t \in made : i \in backups[t]

(* The API has an object over a file without a table only while somebody      *)
(* recovers the file, or after somebody gave up in the middle of that: then     *)
(* feedback fails until the table is made by a process that opens the file. *)
TableOrRecovery ==
  (opened # {} /\ db \in {"missing", "bare"}) =>
    \/ halfway
    \/ \E p \in Process : recovery[p] # None /\ recovery[p].step = "create"

=============================================================================
