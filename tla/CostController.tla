--------------------------- MODULE CostController ---------------------------
(***************************************************************************)
(* Per-client spend tracking (src/cost_controller.py).  A CostController   *)
(* lives inside one process, keeps one mutable record per client in a dict *)
(* that it fills from data/<client>/cost.json on first use and never reads *)
(* again, and rewrites the whole file on every charge.  Several processes  *)
(* may run over the same data directory: uvicorn workers, and the          *)
(* scripts/run_client.py command.                                          *)
(*                                                                         *)
(* One client is modelled: no operation touches two clients' records.      *)
(* Money is a natural number of the smallest unit.  A file is replaced     *)
(* atomically (temporary file, os.replace), so the file is a record or is  *)
(* not there.                                                              *)
(***************************************************************************)
EXTENDS Integers

CONSTANTS
  Worker,      \* processes that own a CostController
  DailyCap,    \* cost_limits.daily_usd, or NoLimit
  MonthlyCap,  \* cost_limits.monthly_usd, or NoLimit
  NoLimit,     \* the value None of a limit
  Absent,      \* no dict entry, or no file
  ReadFaults,  \* whether reading an existing cost.json may fail
  ConfigFaults,\* whether looking up the client's limits may fail
  LastDay,     \* bounds the calendar
  MonthOf      \* the month a day belongs to: days of a month are consecutive

CostState == [daily : Nat, monthly : Nat, total : Nat,
              dailyAnchor : Nat, monthlyAnchor : Nat]

ASSUME CalendarAssumption ==
  /\ LastDay \in Nat
  /\ MonthOf \in [0..LastDay -> Nat]
  /\ \A d, e \in 0..LastDay : d <= e => MonthOf[d] <= MonthOf[e]

ASSUME LimitAssumption ==
  /\ DailyCap \in (Nat \ {0}) \cup {NoLimit}
  /\ MonthlyCap \in (Nat \ {0}) \cup {NoLimit}
  /\ NoLimit \notin Nat

ASSUME AbsentAssumption == Absent \notin CostState

ASSUME FaultAssumption == ReadFaults \in BOOLEAN /\ ConfigFaults \in BOOLEAN

VARIABLES
  today,       \* date.today()
  cache,       \* each process's dict entry for the client
  disk         \* data/<client>/cost.json

costVars == <<today, cache, disk>>

CostTypeOK ==
  /\ today \in 0..LastDay
  /\ cache \in [Worker -> CostState \cup {Absent}]
  /\ disk \in CostState \cup {Absent}

(* What a controller starts a client with. *)
EmptyState ==
  [daily |-> 0, monthly |-> 0, total |-> 0,
   dailyAnchor |-> today, monthlyAnchor |-> MonthOf[today]]

(* A variation: the month is never looked at. *)
RolloverOfDayOnly(s) ==
  [s EXCEPT !.daily       = IF s.dailyAnchor = today THEN @ ELSE 0,
            !.dailyAnchor = today]

(* Counters whose anchor is not the current day or month start again at zero. *)
Rollover(s) ==
  [daily         |-> IF s.dailyAnchor = today THEN s.daily ELSE 0,
   dailyAnchor   |-> today,
   monthly       |-> IF s.monthlyAnchor = MonthOf[today] THEN s.monthly ELSE 0,
   monthlyAnchor |-> MonthOf[today],
   total         |-> s.total]

(* What is read from the file: a file that is missing or that cannot be read *)
(* or decoded counts as a client that never spent anything. *)
Stored ==
  {IF disk = Absent THEN EmptyState ELSE disk}
    \cup (IF ReadFaults THEN {EmptyState} ELSE {})

(* The records that _load may hand to its caller in process w. *)
Loaded(w) ==
  {Rollover(s) : s \in IF cache[w] = Absent THEN Stored ELSE {cache[w]}}

(* A variation: a budget that is exactly used up still admits. *)
OverBudgetPastCap(s) ==
  \/ DailyCap # NoLimit /\ s.daily > DailyCap
  \/ MonthlyCap # NoLimit /\ s.monthly > MonthlyCap

(* A record that has used up one of its budgets. *)
OverBudget(s) ==
  \/ DailyCap # NoLimit /\ s.daily >= DailyCap
  \/ MonthlyCap # NoLimit /\ s.monthly >= MonthlyCap

(* check_limit lets such a record through: there is room in both budgets, or  *)
(* the limits could not be looked up and none are enforced. *)
Admissible(s) == ~OverBudget(s) \/ ConfigFaults

AddCost(s, cost) ==
  [daily |-> s.daily + cost, monthly |-> s.monthly + cost, total |-> s.total + cost,
   dailyAnchor |-> s.dailyAnchor, monthlyAnchor |-> s.monthlyAnchor]

ClearDaily(s) ==
  [daily |-> 0, monthly |-> s.monthly, total |-> s.total,
   dailyAnchor |-> today, monthlyAnchor |-> s.monthlyAnchor]

ClearMonthly(s) ==
  [daily |-> s.daily, monthly |-> 0, total |-> s.total,
   dailyAnchor |-> s.dailyAnchor, monthlyAnchor |-> MonthOf[today]]

(* A variation: the file gets the record as it was before the change. *)
UpdateWritingOldRecord(w, s, written) ==
  /\ cache' = [cache EXCEPT ![w] = s]
  /\ disk' = IF written /\ cache[w] # Absent THEN cache[w] ELSE disk

(* The dict entry is changed in place before the file is written, and keeps  *)
(* the change when writing fails. *)
Update(w, s, written) ==
  /\ cache' = [cache EXCEPT ![w] = s]
  /\ disk' = IF written THEN s ELSE disk

(* A process that only looks at a record leaves it in its dict, rolled over. *)
Look(w, s) ==
  /\ cache' = [cache EXCEPT ![w] = s]
  /\ UNCHANGED disk

(* The dict of a process that ends is gone. *)
Forget(w) ==
  /\ cache' = [cache EXCEPT ![w] = Absent]
  /\ UNCHANGED disk

CostInit ==
  /\ today = 0
  /\ cache = [w \in Worker |-> Absent]
  /\ disk = Absent

=============================================================================
