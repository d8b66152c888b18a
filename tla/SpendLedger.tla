---------------------------- MODULE SpendLedger ----------------------------
(***************************************************************************)
(* What cost control promises for one client served by one process: a      *)
(* ledger of what was spent today, this month and since the beginning,     *)
(* from which an analysis is admitted only while both budgets have room.   *)
(* The ledger is eager: it is empty again the moment the day or the month  *)
(* changes.  "saved" is the part of it that a restart brings back.         *)
(* AlertAnalyzer implements this specification with a lazily rolled-over   *)
(* cache in front of a file.                                               *)
(***************************************************************************)
EXTENDS Integers

CONSTANTS
  Call,        \* analyses that may ask for admission
  Costs,       \* what one analysis may cost
  DailyCap,    \* cost_limits.daily_usd, or NoLimit
  MonthlyCap,  \* cost_limits.monthly_usd, or NoLimit
  NoLimit,     \* the value None of a limit
  LastDay,     \* bounds the calendar
  MonthOf      \* the month a day belongs to

VARIABLES
  day,         \* the wall-clock day
  ledger,      \* the totals budgets are checked against
  saved,       \* the totals a restart comes back with
  open         \* admitted analyses that have not been settled

ledgerVars == <<day, ledger, saved, open>>

Zero == [daily |-> 0, monthly |-> 0, total |-> 0]

Charge(l, cost) == [daily   |-> l.daily + cost,
                    monthly |-> l.monthly + cost,
                    total   |-> l.total + cost]

HasRoom(l) ==
  /\ DailyCap # NoLimit => l.daily < DailyCap
  /\ MonthlyCap # NoLimit => l.monthly < MonthlyCap

(* The ledger at the start of the day after the current one. *)
Overnight(l) == [daily   |-> 0,
                 monthly |-> IF MonthOf[day + 1] = MonthOf[day] THEN l.monthly ELSE 0,
                 total   |-> l.total]

Init ==
  /\ day = 0
  /\ ledger = Zero
  /\ saved = Zero
  /\ open = {}

(* The budgets are looked at once, when an analysis is admitted. *)
Admit(c) ==
  /\ c \notin open
  /\ HasRoom(ledger)
  /\ open' = open \cup {c}
  /\ UNCHANGED <<day, ledger, saved>>

(* An admitted analysis is charged; if saving fails the charge still counts *)
(* until the next restart. *)
Settle(c, cost) ==
  /\ c \in open
  /\ open' = open \ {c}
  /\ ledger' = Charge(ledger, cost)
  /\ saved' \in {saved, ledger'}
  /\ UNCHANGED day

(* An admitted analysis ends without a charge. *)
Abandon(c) ==
  /\ c \in open
  /\ open' = open \ {c}
  /\ UNCHANGED <<day, ledger, saved>>

(* An operator clears the daily or the monthly total. *)
Clear ==
  /\ ledger' \in {[ledger EXCEPT !.daily = 0], [ledger EXCEPT !.monthly = 0]}
  /\ saved' \in {saved, ledger'}
  /\ UNCHANGED <<day, open>>

(* The process ends: every open analysis is gone, and so is every charge that *)
(* was not saved. *)
Restart ==
  /\ ledger' = saved
  /\ open' = {}
  /\ UNCHANGED <<day, saved>>

NextDay ==
  /\ day < LastDay
  /\ day' = day + 1
  /\ ledger' = Overnight(ledger)
  /\ saved' = Overnight(saved)
  /\ UNCHANGED open

Next ==
  \/ \E c \in Call : Admit(c) \/ Abandon(c) \/ \E cost \in Costs : Settle(c, cost)
  \/ Clear
  \/ Restart
  \/ NextDay

Spec == Init /\ [][Next]_ledgerVars

============================================================================
