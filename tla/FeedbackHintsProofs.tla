------------------------- MODULE FeedbackHintsProofs -------------------------
(***************************************************************************)
(* What holds of the feedback store and the hints learned from it for any  *)
(* rows, rules, settings and faults.                                       *)
(***************************************************************************)
EXTENDS FeedbackHints, TLAPS

(* Copies that hold hints. *)
Learned == cache # None /\ ~cache.failed

(* A copy expires Ttl after it was made, at the latest; what the table gained *)
(* or lost since, it gained or lost since then. *)
BasisAge ==
  /\ cache # None => cache.expires <= now + Ttl
  /\ Learned =>
       /\ byApi \cap rows \subseteq cache.basis
       /\ \A i \in rows \ cache.basis : ackAt[i] + Ttl >= cache.expires
       /\ \A i \in cache.basis \ rows : goneAt[i] + Ttl >= cache.expires

HintsInv ==
  /\ TypeOK
  /\ BasisAge
  /\ \A i \in byApi : ackAt[i] >= 0
  /\ AcceptedSurvives
  /\ TableOrRecovery

----------------------------------------------------------------------------
(* What _get_hints keeps is an entry. *)
LEMMA KeptEntry ==
  ASSUME NEW S \in SUBSET Row, NEW failed \in BOOLEAN, TypeOK
  PROVE  /\ Kept(S, failed) \in Entry \cup {None}
         /\ Kept(S, failed) # cache =>
              /\ Kept(S, failed) # None
              /\ Kept(S, failed).expires = now + Ttl
              /\ Kept(S, failed).failed = failed
              /\ Kept(S, failed).basis = S
         /\ Ttl = 0 => Kept(S, failed) = cache
<1>1. CASE Ttl = 0
  BY <1>1 DEF Kept, TypeOK
<1>2. CASE Ttl # 0
  <2>1. Hints(S) \in SUBSET Rule /\ {} \in SUBSET Rule
    BY DEF Hints, Flagged
  <2>2. now + Ttl \in Nat
    BY SettingAssumption DEF TypeOK, Time
  <2>3. /\ Kept(S, failed) \in Entry
        /\ Kept(S, failed).expires = now + Ttl
        /\ Kept(S, failed).failed = failed
        /\ Kept(S, failed).basis = S
    BY <1>2, <2>1, <2>2 DEF Kept, Entry
  <2>4. QED
    BY <1>2, <2>3, NoneAssumption
<1>3. QED
  BY <1>1, <1>2

(* The hosts and the objects they have. *)
LEMMA Hosts ==
  /\ \A o \in Opener : Host(o) \in Process
  /\ \A p \in Process : p = "api" \/ p = "dashboard"
BY DEF Host, Opener, Process

(* A row comes into the table. *)
LEMMA InsertKeeps ==
  ASSUME HintsInv, NEW i \in Row, Insert(i),
         UNCHANGED <<now, made, backups, recovery, counters>>,
         db' = "ready", opened' \subseteq opened \cup {"routes"},
         \/ cache' = None /\ byApi' = byApi \cup {i}
         \/ UNCHANGED <<cache, byApi>>
  PROVE  HintsInv'
<1>1. now \in Time /\ Ttl \in Nat /\ now \in Nat
  BY SettingAssumption DEF HintsInv, TypeOK, Time
<1>2. TypeOK'
  BY <1>1 DEF HintsInv, TypeOK, Insert, counters
<1>3. /\ rows' = rows \cup {i} /\ ackAt[i] = -1 /\ ackAt'[i] = now
      /\ \A j \in Row \ {i} : ackAt'[j] = ackAt[j]
      /\ goneAt' = goneAt
  BY DEF Insert, HintsInv, TypeOK
<1>4. \A j \in byApi' : ackAt'[j] >= 0
  BY <1>1, <1>3 DEF HintsInv, TypeOK
<1>5. BasisAge'
  <2>1. CASE cache' = None
    BY <2>1 DEF BasisAge, Learned
  <2>2. CASE UNCHANGED <<cache, byApi>> /\ cache # None
    <3>1. i \notin byApi
      BY <1>3 DEF HintsInv, TypeOK
    <3>2. cache \in Entry /\ cache.expires \in Nat /\ cache.expires <= now + Ttl
      BY <2>2 DEF HintsInv, TypeOK, BasisAge, Entry
    <3>3. Learned => byApi' \cap rows' \subseteq cache'.basis
      BY <1>3, <2>2, <3>1 DEF HintsInv, BasisAge
    <3>4. Learned => \A j \in rows' \ cache'.basis : ackAt'[j] + Ttl >= cache'.expires
      BY <1>1, <1>3, <2>2, <3>2 DEF HintsInv, TypeOK, BasisAge
    <3>5. Learned => \A j \in cache'.basis \ rows' : goneAt'[j] + Ttl >= cache'.expires
      BY <1>3, <2>2 DEF HintsInv, BasisAge
    <3>6. QED
      BY <2>2, <3>2, <3>3, <3>4, <3>5 DEF BasisAge, Learned
  <2>3. CASE cache = None /\ UNCHANGED cache
    BY <2>3 DEF BasisAge, Learned
  <2>4. QED
    BY <2>1, <2>2, <2>3
<1>6. AcceptedSurvives'
  BY <1>3 DEF HintsInv, AcceptedSurvives, Insert
<1>7. TableOrRecovery'
  BY DEF TableOrRecovery
<1>8. QED
  BY <1>2, <1>4, <1>5, <1>6, <1>7 DEF HintsInv

(* The table keeps its rows, and what is learned is what was learned before, *)
(* all of the table or nothing. *)
LEMMA RowsStay ==
  ASSUME HintsInv, TypeOK', TableOrRecovery', now' \in {now, now + 1},
         UNCHANGED <<rows, made, backups, ackAt, goneAt, byApi, erased, clash>>,
         \/ cache' \in {cache, None}
         \/ \E failed \in BOOLEAN : cache' = Kept(rows, failed)
  PROVE  HintsInv'
<1>1. now \in Nat /\ now' \in Nat /\ Ttl \in Nat /\ now' >= now
  BY SettingAssumption DEF HintsInv, TypeOK, Time
<1>2. BasisAge'
  <2>1. CASE cache' = None
    BY <2>1 DEF BasisAge, Learned
  <2>2. CASE cache' = cache /\ cache # None
    <3>1. cache.expires \in Nat
      BY <2>2 DEF HintsInv, TypeOK, Entry
    <3>2. QED
      BY <1>1, <2>2, <3>1 DEF HintsInv, BasisAge, Learned
  <2>3. CASE cache' # cache /\ \E failed \in BOOLEAN : cache' = Kept(rows, failed)
    <3>1. PICK failed \in BOOLEAN : cache' = Kept(rows, failed)
      BY <2>3
    <3>2. cache'.expires = now + Ttl /\ cache'.basis = rows
      BY <2>3, <3>1, KeptEntry DEF HintsInv, TypeOK
    <3>3. QED
      BY <1>1, <3>2 DEF BasisAge, Learned
  <2>4. QED
    BY <2>1, <2>2, <2>3
<1>3. AcceptedSurvives' /\ \A i \in byApi' : ackAt'[i] >= 0
  BY DEF HintsInv, AcceptedSurvives
<1>4. QED
  BY <1>2, <1>3 DEF HintsInv

(* Rows leave the table, for a backup or for good. *)
LEMMA RowsLeave ==
  ASSUME HintsInv, TypeOK', TableOrRecovery', AcceptedSurvives',
         rows' = {}, Leave(rows), UNCHANGED <<now, cache, ackAt, byApi>>
  PROVE  HintsInv'
<1>1. now \in Nat /\ Ttl \in Nat
  BY SettingAssumption DEF HintsInv, TypeOK, Time
<1>2. CASE cache = None
  BY <1>2 DEF HintsInv, BasisAge, Learned
<1>3. CASE cache # None
  <2>1. cache.expires \in Nat /\ cache.expires <= now + Ttl /\ cache.basis \subseteq Row
    BY <1>3 DEF HintsInv, TypeOK, Entry, BasisAge
  <2>2. Learned => \A i \in cache.basis : goneAt'[i] + Ttl >= cache.expires
    BY <1>1, <2>1 DEF HintsInv, TypeOK, BasisAge, Leave
  <2>3. QED
    BY <2>1, <2>2 DEF HintsInv, BasisAge, Learned
<1>4. QED
  BY <1>2, <1>3

----------------------------------------------------------------------------
(* Requests of the API. *)
LEMMA RequestsKeep ==
  ASSUME HintsInv,
         (\E i \in Row : RecordFeedback(i)) \/ RequestFails \/ BuildHints \/ BuildNoHints
  PROVE  HintsInv'
<1>1. ASSUME NEW i \in Row, RecordFeedback(i)
      PROVE  HintsInv'
  BY <1>1, InsertKeeps DEF RecordFeedback
<1>2. CASE RequestFails
  <2>1. TypeOK'
    BY <1>2 DEF RequestFails, HintsInv, TypeOK, counters, ghostVars
  <2>2. TableOrRecovery'
    BY <1>2 DEF RequestFails, HintsInv, TypeOK, TableOrRecovery, ghostVars
  <2>3. QED
    BY <1>2, <2>1, <2>2, RowsStay DEF RequestFails, ghostVars
<1>3. CASE BuildHints
  <2>1. cache' \in Entry \cup {None} /\ cache' = Kept(rows, FALSE)
    BY <1>3, KeptEntry DEF BuildHints, HintsInv, TypeOK
  <2>2. TypeOK'
    BY <1>3, <2>1 DEF BuildHints, HintsInv, TypeOK, counters, ghostVars
  <2>3. TableOrRecovery'
    BY <1>3 DEF BuildHints, TableOrRecovery
  <2>4. QED
    BY <1>3, <2>1, <2>2, <2>3, RowsStay DEF BuildHints, ghostVars
<1>4. CASE BuildNoHints
  <2>1. cache' \in Entry \cup {None} /\ cache' = Kept(rows, TRUE)
    BY <1>4, KeptEntry DEF BuildNoHints, HintsInv, TypeOK
  <2>2. TypeOK'
    BY <1>4, <2>1 DEF BuildNoHints, HintsInv, TypeOK, counters, ghostVars
  <2>3. TableOrRecovery'
    BY <1>4 DEF BuildNoHints, HintsInv, TypeOK, TableOrRecovery, ghostVars
  <2>4. QED
    BY <1>4, <2>1, <2>2, <2>3, RowsStay DEF BuildNoHints, ghostVars
<1>5. QED
  BY <1>1, <1>2, <1>3, <1>4

(* A recovery begins, or the second step of one ends it. *)
LEMMA RecoveryKeeps ==
  ASSUME HintsInv,
         \/ \E o \in Opener : FailToOpen(o)
         \/ \E p \in Process : CreateTable(p) \/ FailToCreate(p) \/ NothingToMove(p)
  PROVE  HintsInv'
<1>1. ASSUME NEW o \in Opener, FailToOpen(o)
      PROVE  HintsInv'
  <2>1. Host(o) \in Process /\ [opener |-> o, step |-> "move"] \in Recovery
    BY Hosts DEF Recovery
  <2>2. TypeOK'
    BY <1>1, <2>1, SettingAssumption DEF FailToOpen, HintsInv, TypeOK, ghostVars
  <2>3. TableOrRecovery'
    BY <1>1, <2>1 DEF FailToOpen, Idle, HintsInv, TypeOK, TableOrRecovery, ghostVars
  <2>4. QED
    BY <1>1, <2>2, <2>3, RowsStay DEF FailToOpen, ghostVars
<1>2. ASSUME NEW p \in Process, CreateTable(p)
      PROVE  HintsInv'
  <2>1. recovery[p] \in Recovery /\ recovery[p].opener \in Opener
    BY <1>2 DEF CreateTable, HintsInv, TypeOK, Recovery
  <2>2. opened' \subseteq {"routes", "hints"}
    BY <1>2, <2>1 DEF CreateTable, HintsInv, TypeOK, Opener
  <2>3. TypeOK'
    BY <1>2, <2>2 DEF CreateTable, HintsInv, TypeOK, counters, ghostVars
  <2>4. TableOrRecovery'
    BY <1>2 DEF CreateTable, TableOrRecovery
  <2>5. QED
    BY <1>2, <2>3, <2>4, RowsStay DEF CreateTable, ghostVars
<1>3. ASSUME NEW p \in Process, FailToCreate(p)
      PROVE  HintsInv'
  <2>1. cache' \in Entry \cup {None} /\ cache' \in {cache, Kept(rows, TRUE)}
    BY <1>3, KeptEntry DEF FailToCreate, HintsInv, TypeOK
  <2>2. TypeOK'
    BY <1>3, <2>1 DEF FailToCreate, HintsInv, TypeOK, counters
  <2>3. TableOrRecovery'
    BY <1>3 DEF FailToCreate, TableOrRecovery
  <2>4. QED
    BY <1>3, <2>1, <2>2, <2>3, RowsStay DEF FailToCreate
<1>4. ASSUME NEW p \in Process, NothingToMove(p)
      PROVE  HintsInv'
  <2>1. cache' \in Entry \cup {None} /\ cache' \in {cache, Kept(rows, TRUE)}
    BY <1>4, KeptEntry DEF NothingToMove, HintsInv, TypeOK
  <2>2. TypeOK'
    BY <1>4, <2>1 DEF NothingToMove, HintsInv, TypeOK, counters, ghostVars
  <2>3. TableOrRecovery'
    BY <1>4 DEF NothingToMove, HintsInv, TypeOK, TableOrRecovery, ghostVars
  <2>4. QED
    BY <1>4, <2>1, <2>2, <2>3, RowsStay DEF NothingToMove, ghostVars
<1>5. QED
  BY <1>1, <1>2, <1>3, <1>4

(* The file is moved: its rows are in the new backup, and in no second of the *)
(* clock have two been made. *)
LEMMA MoveAsideKeeps ==
  ASSUME HintsInv, NEW p \in Process, MoveAside(p)
  PROVE  HintsInv'
<1>1. now \in Time /\ recovery[p] \in Recovery
  BY DEF MoveAside, HintsInv, TypeOK
<1>2. /\ recovery' \in [Process -> Recovery \cup {None}]
      /\ recovery'[p] \in Recovery /\ recovery'[p].step = "create"
  <2>1. [recovery[p] EXCEPT !.step = "create"] \in Recovery
    BY <1>1 DEF Recovery
  <2>2. QED
    BY <2>1 DEF MoveAside, HintsInv, TypeOK, Recovery
<1>3. goneAt' \in [Row -> Time \cup {-1}]
  BY <1>1 DEF MoveAside, Leave, HintsInv, TypeOK
<1>4. TypeOK'
  BY <1>1, <1>2, <1>3 DEF MoveAside, HintsInv, TypeOK, counters
<1>5. TableOrRecovery'
  BY <1>2, NoneAssumption DEF TableOrRecovery
<1>6. AcceptedSurvives'
  <2>1. ASSUME ~clash', NEW i \in Row, ackAt'[i] >= 0, i \notin erased'
        PROVE  \E t \in made' : i \in backups'[t]
    <3>1. ~clash /\ now \notin made /\ ackAt[i] >= 0 /\ i \notin erased
      BY <2>1 DEF MoveAside
    <3>2. /\ made' = made \cup {now} /\ backups'[now] = rows
          /\ \A t \in made : backups'[t] = backups[t]
      BY <1>1, <3>1 DEF MoveAside, HintsInv, TypeOK
    <3>3. i \in rows \/ \E t \in made : i \in backups[t]
      BY <3>1 DEF HintsInv, AcceptedSurvives
    <3>4. QED
      BY <3>2, <3>3
  <2>2. QED
    BY <2>1 DEF AcceptedSurvives
<1>7. QED
  BY <1>4, <1>5, <1>6, RowsLeave DEF MoveAside

(* The dashboard. *)
LEMMA DashboardKeeps ==
  ASSUME HintsInv,
         \/ \E i \in Row : DashboardRecord(i)
         \/ DashboardReset \/ DashboardConnect \/ DashboardLearning
  PROVE  HintsInv'
<1>1. ASSUME NEW i \in Row, DashboardRecord(i)
      PROVE  HintsInv'
  BY <1>1, InsertKeeps DEF DashboardRecord
<1>2. CASE DashboardReset
  <2>1. now \in Time
    BY DEF HintsInv, TypeOK
  <2>2. goneAt' \in [Row -> Time \cup {-1}]
    BY <1>2, <2>1 DEF DashboardReset, Leave, HintsInv, TypeOK
  <2>3. TypeOK'
    BY <1>2, <2>2 DEF DashboardReset, HintsInv, TypeOK, counters
  <2>4. AcceptedSurvives' /\ TableOrRecovery'
    BY <1>2 DEF DashboardReset, HintsInv, AcceptedSurvives, TableOrRecovery
  <2>5. QED
    BY <1>2, <2>3, <2>4, RowsLeave DEF DashboardReset
<1>3. CASE DashboardConnect
  <2>1. TypeOK'
    BY <1>3 DEF DashboardConnect, HintsInv, TypeOK, counters, ghostVars
  <2>2. TableOrRecovery'
    BY <1>3 DEF DashboardConnect, HintsInv, TypeOK, TableOrRecovery, ghostVars
  <2>3. QED
    BY <1>3, <2>1, <2>2, RowsStay DEF DashboardConnect, ghostVars
<1>4. CASE DashboardLearning
  <2>1. TypeOK'
    BY <1>4 DEF DashboardLearning, HintsInv, TypeOK, counters, ghostVars
  <2>2. TableOrRecovery'
    BY <1>4 DEF DashboardLearning, TableOrRecovery
  <2>3. QED
    BY <1>4, <2>1, <2>2, RowsStay DEF DashboardLearning, ghostVars
<1>5. QED
  BY <1>1, <1>2, <1>3, <1>4

(* Time passes, the file is damaged, a process ends. *)
LEMMA MishapsKeep ==
  ASSUME HintsInv, Tick \/ Corrupt \/ \E p \in Process : Crash(p)
  PROVE  HintsInv'
<1>1. CASE Tick
  <2>1. TypeOK'
    BY <1>1, SettingAssumption DEF Tick, HintsInv, TypeOK, Time, counters, ghostVars
  <2>2. TableOrRecovery'
    BY <1>1 DEF Tick, HintsInv, TableOrRecovery, ghostVars
  <2>3. QED
    BY <1>1, <2>1, <2>2, RowsStay DEF Tick, ghostVars
<1>2. CASE Corrupt
  <2>1. TypeOK'
    BY <1>2 DEF Corrupt, HintsInv, TypeOK, counters, ghostVars
  <2>2. TableOrRecovery'
    BY <1>2 DEF Corrupt, TableOrRecovery
  <2>3. QED
    BY <1>2, <2>1, <2>2, RowsStay DEF Corrupt, ghostVars
<1>3. ASSUME NEW p \in Process, Crash(p)
      PROVE  HintsInv'
  <2>1. TypeOK'
    <3>1. /\ crashes' \in 0..MaxCrashes /\ halfway' \in BOOLEAN
          /\ recovery' \in [Process -> Recovery \cup {None}]
      BY <1>3, SettingAssumption DEF Crash, HintsInv, TypeOK
    <3>2. opened' \subseteq {"routes", "hints"} /\ cache' \in Entry \cup {None}
      BY <1>3 DEF Crash, HintsInv, TypeOK
    <3>3. UNCHANGED <<now, db, rows, made, backups, failures, ackAt, goneAt, byApi, erased,
                      clash>>
      BY <1>3 DEF Crash
    <3>4. QED
      BY <3>1, <3>2, <3>3 DEF HintsInv, TypeOK
  <2>2. TableOrRecovery'
    BY <1>3 DEF Crash, Idle, HintsInv, TypeOK, TableOrRecovery
  <2>3. QED
    BY <1>3, <2>1, <2>2, RowsStay DEF Crash
<1>4. QED
  BY <1>1, <1>2, <1>3

(* The invariant of the store, its recovery and the cached hints               *)
(* (feedback_system.py:183-222, prompt_enhancer.py:86-110). *)
THEOREM HintsInvariant == Spec => []HintsInv
<1>1. Init => HintsInv
  <2>1. SUFFICES ASSUME Init
                 PROVE  HintsInv
    OBVIOUS
  <2>2. 0 \in Time
    BY SettingAssumption DEF Time
  <2>3. TypeOK
    <3>1. /\ now \in Time /\ made \subseteq Time /\ backups \in [Time -> SUBSET Row]
          /\ crashes \in 0..MaxCrashes /\ failures \in 0..MaxFailures
      BY <2>1, <2>2, SettingAssumption DEF Init
    <3>2. ackAt \in [Row -> Time \cup {-1}] /\ goneAt \in [Row -> Time \cup {-1}]
      BY <2>1 DEF Init
    <3>3. recovery \in [Process -> Recovery \cup {None}]
      BY <2>1 DEF Init
    <3>4. /\ db \in {"missing", "bare", "ready", "corrupt"}
          /\ rows = {} /\ opened = {} /\ cache = None /\ byApi = {} /\ erased = {}
          /\ clash = FALSE /\ halfway = FALSE
      BY <2>1 DEF Init
    <3>5. QED
      BY <3>1, <3>2, <3>3, <3>4 DEF TypeOK
  <2>4. QED
    BY <2>1, <2>3 DEF Init, HintsInv, BasisAge, Learned, AcceptedSurvives, TableOrRecovery
<1>2. HintsInv /\ [Next]_vars => HintsInv'
  <2>1. CASE Next
    BY <2>1, RequestsKeep, RecoveryKeeps, MoveAsideKeeps, DashboardKeeps, MishapsKeep DEF Next
  <2>2. CASE UNCHANGED vars
    BY <2>2 DEF vars, counters, ghostVars, HintsInv, TypeOK, BasisAge, Learned,
      AcceptedSurvives, TableOrRecovery
  <2>3. QED
    BY <2>1, <2>2
<1>3. QED
  BY <1>1, <1>2, PTL DEF Spec

(* Types, for any rows, rules and settings. *)
THEOREM HintsTypes == Spec => []TypeOK
<1>1. HintsInv => TypeOK
  BY DEF HintsInv
<1>2. QED
  BY <1>1, HintsInvariant, PTL

(* The hints in use take account of the API's own feedback (app.py:444-445). *)
THEOREM OwnFeedbackIsSeen == Spec => []OwnFeedbackSeen
<1>1. HintsInv => OwnFeedbackSeen
  BY DEF HintsInv, BasisAge, Learned, OwnFeedbackSeen, Usable
<1>2. QED
  BY <1>1, HintsInvariant, PTL

(* The hints in use are cache_ttl_sec behind the table at most, whatever other *)
(* processes did to it (prompt_enhancer.py:86-110). *)
THEOREM HintsFreshWithinTtl == Spec => []FreshWithinTtl
<1>1. HintsInv => FreshWithinTtl
  <2>1. SUFFICES ASSUME HintsInv, Usable(cache), ~cache.failed
                 PROVE  /\ \A i \in rows : ackAt[i] + Ttl <= now => i \in cache.basis
                        /\ \A i \in cache.basis \ rows : goneAt[i] + Ttl > now
    BY DEF FreshWithinTtl
  <2>2. /\ cache # None /\ cache.expires > now /\ Learned /\ now \in Nat /\ Ttl \in Nat
        /\ cache.expires \in Nat /\ cache.basis \subseteq Row /\ rows \subseteq Row
        /\ \A i \in Row : ackAt[i] \in Int /\ goneAt[i] \in Int
    BY <2>1, SettingAssumption DEF HintsInv, TypeOK, Entry, Usable, Learned, Time
  <2>3. /\ \A i \in rows \ cache.basis : ackAt[i] + Ttl >= cache.expires
        /\ \A i \in cache.basis \ rows : goneAt[i] + Ttl >= cache.expires
    BY <2>1, <2>2 DEF HintsInv, BasisAge
  <2>4. QED
    BY <2>2, <2>3
<1>2. QED
  BY <1>1, HintsInvariant, PTL

(* Recovering from a corrupt file, by whichever processes at the same time,     *)
(* loses no accepted row unless two recoveries fall into one second             *)
(* (feedback_system.py:201-222). *)
THEOREM RecoveryLosesNothing == Spec => []AcceptedSurvives
<1>1. HintsInv => AcceptedSurvives
  BY DEF HintsInv
<1>2. QED
  BY <1>1, HintsInvariant, PTL

(* The API is without its table only during a recovery or after one that was   *)
(* given up halfway (feedback_system.py:183-222). *)
THEOREM TableIsThere == Spec => []TableOrRecovery
<1>1. HintsInv => TableOrRecovery
  BY DEF HintsInv
<1>2. QED
  BY <1>1, HintsInvariant, PTL

=============================================================================
