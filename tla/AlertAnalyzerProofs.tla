------------------------- MODULE AlertAnalyzerProofs -------------------------
(***************************************************************************)
(* Theorems about AlertAnalyzer, for any number of processes and alerts,   *)
(* any limits, costs, calendar and fallback chain.                         *)
(***************************************************************************)
EXTENDS AlertAnalyzer, FiniteSetTheorems, TLAPS

(* Every record a process may load, change or write is well-formed. *)
LEMMA EmptyStateType == CostTypeOK => EmptyState \in CostState
  BY CalendarAssumption DEF CostTypeOK, EmptyState, CostState

LEMMA RolloverType ==
  ASSUME CostTypeOK, NEW s \in CostState
  PROVE  /\ Rollover(s) \in CostState
         /\ Rollover(s).total = s.total
         /\ Rollover(s).daily <= s.daily
         /\ Rollover(s).monthly <= s.monthly
  BY CalendarAssumption DEF CostTypeOK, CostState, Rollover

LEMMA LoadedType ==
  ASSUME CostTypeOK, NEW w \in Worker, NEW s \in Loaded(w)
  PROVE  s \in CostState
<1>1. Stored \subseteq CostState
  BY EmptyStateType DEF Stored, CostTypeOK
<1>2. cache[w] # Absent => cache[w] \in CostState
  BY DEF CostTypeOK
<1>3. QED
  BY <1>1, <1>2, RolloverType DEF Loaded

LEMMA UpdateType ==
  ASSUME CostTypeOK, NEW w \in Worker, NEW s \in CostState, NEW written \in BOOLEAN,
         Update(w, s, written), today' = today
  PROVE  CostTypeOK'
  BY DEF CostTypeOK, Update

LEMMA LookType ==
  ASSUME CostTypeOK, NEW w \in Worker, NEW s \in Loaded(w), Look(w, s), today' = today
  PROVE  CostTypeOK'
  BY LoadedType DEF CostTypeOK, Look

LEMMA ForgetType ==
  ASSUME CostTypeOK, NEW w \in Worker, Forget(w), today' = today
  PROVE  CostTypeOK'
  BY DEF CostTypeOK, Forget

(* What one response costs. *)
LEMMA CostsType == MaxCost \in Nat /\ Costs \subseteq Nat /\ \A c \in Costs : c <= MaxCost
  BY CostAssumption

LEMMA ChargedType ==
  ASSUME NEW s \in CostState, NEW cost \in Costs
  PROVE  AddCost(s, cost) \in CostState
  BY CostsType DEF AddCost, CostState

LEMMA ClearedType ==
  ASSUME CostTypeOK, NEW s \in CostState
  PROVE  ClearDaily(s) \in CostState /\ ClearMonthly(s) \in CostState
  BY CalendarAssumption DEF ClearDaily, ClearMonthly, CostState, CostTypeOK

(* How the steps of one analysis leave the bookkeeping of all of them. *)
LEMMA EndType ==
  ASSUME TaskTypeOK, NEW a \in Alert, NEW o \in Answer, End(a, o)
  PROVE  TaskTypeOK'
  BY ProcessAssumption, RouteAssumption DEF TaskTypeOK, End, Answer, Phase, InFlightPhase

LEMMA FailType ==
  ASSUME TaskTypeOK, NEW w \in Worker, NEW a \in Alert, Fail(w, a)
  PROVE  TaskTypeOK'
  BY EndType DEF Fail, Answer

LEMMA AdvanceType ==
  ASSUME TaskTypeOK, NEW w \in Worker, NEW a \in Alert, NEW i \in 0..Len(Chain),
         Advance(w, a, i)
  PROVE  TaskTypeOK'
<1>1. ASSUME NEW j \in Later(i), Send(w, a, j)
      PROVE  TaskTypeOK'
  <2>1. j \in 0..Len(Chain)
    BY <1>1 DEF Later
  <2>2. QED
    BY <1>1, <2>1, ProcessAssumption, RouteAssumption DEF TaskTypeOK, Send, Phase, InFlightPhase
<1>2. QED
  BY <1>1, FailType DEF Advance

LEMMA BeginType ==
  ASSUME TypeOK, NEW w \in Worker, NEW a \in Alert, Begin(w, a)
  PROVE  TypeOK'
<1>1. PICK s \in Loaded(w) :
        /\ Look(w, s)
        /\ Advance(w, a, 0) \/ Fail(w, a)
  BY DEF Begin
<1>2. CostTypeOK'
  BY <1>1, LookType DEF Begin, TypeOK
<1>3. TaskTypeOK'
  BY <1>1, FailType, AdvanceType, Len(Chain) \in Nat DEF TypeOK
<1>4. QED
  BY <1>2, <1>3 DEF TypeOK, Begin, ghostVars

(* The type invariant of the composed system. *)
THEOREM TypeCorrect == Spec => []TypeOK
<1>1. Init => TypeOK
  <2>1. CostInit => CostTypeOK
    BY CalendarAssumption DEF CostInit, CostTypeOK
  <2>2. QED
    BY <2>1, ProcessAssumption, RouteAssumption, BoundAssumption DEF Init, TypeOK, TaskTypeOK, Phase, InFlightPhase
<1>2. TypeOK /\ [Next]_vars => TypeOK'
  <2> SUFFICES ASSUME TypeOK, [Next]_vars
               PROVE  TypeOK'
    OBVIOUS
  <2> USE DEF TypeOK
  <2>1. ASSUME NEW w \in Worker, NEW a \in Alert, Request(w, a)
        PROVE  TypeOK'
    BY <2>1, BeginType DEF Request
  <2>2. ASSUME NEW w \in Worker, NEW a \in Alert, RequestDryRun(w, a)
        PROVE  TypeOK'
    <3>1. TaskTypeOK'
      BY <2>2, FailType, EndType DEF RequestDryRun, Answer
    <3>2. CostTypeOK'
      BY <2>2, LookType DEF RequestDryRun
    <3>3. QED
      BY <2>2, <3>1, <3>2 DEF RequestDryRun, ghostVars
  <2>3. ASSUME NEW w \in Worker, NEW B \in SUBSET Alert, SubmitBatch(w, B)
        PROVE  TypeOK'
    BY <2>3, ProcessAssumption DEF SubmitBatch, CostTypeOK, TaskTypeOK, costVars, ghostVars, Phase, InFlightPhase
  <2>4. ASSUME NEW a \in Alert, Acquire(a)
        PROVE  TypeOK'
    <3>1. at[a] \in Worker
      BY <2>4 DEF Acquire, TaskTypeOK
    <3>2. QED
      BY <2>4, <3>1, BeginType DEF Acquire
  <2>5. ASSUME NEW a \in Alert, NEW cost \in Costs, Respond(a, cost)
        PROVE  TypeOK'
    <3>1. at[a] \in Worker
      BY <2>5 DEF Respond, TaskTypeOK, InFlightPhase
    <3>2. TaskTypeOK'
      BY <2>5, <3>1, EndType, FailType DEF Respond, Answer
    <3>3. CostTypeOK'
      <4>1. CASE UNCHANGED <<cache, disk>>
        BY <4>1, <2>5 DEF Respond, CostTypeOK
      <4>2. CASE \E s \in Loaded(at[a]), written \in BOOLEAN :
                   Update(at[a], AddCost(s, cost), written)
        BY <4>2, <2>5, <3>1, LoadedType, ChargedType, UpdateType DEF Respond
      <4>3. QED
        BY <4>1, <4>2, <2>5 DEF Respond
    <3>4. billed' \in Nat /\ booked' \in Nat
      <4>1. cost \in Nat
        BY CostsType
      <4>2. billed' = billed + cost /\ booked' \in {booked, booked + cost}
        BY <2>5 DEF Respond
      <4>3. QED
        BY <4>1, <4>2
    <3>5. QED
      BY <3>2, <3>3, <3>4
  <2>6. ASSUME NEW a \in Alert, NEW cost \in Costs, RespondUnusable(a, cost)
        PROVE  TypeOK'
    <3>1. at[a] \in Worker /\ backend[a] \in 0..Len(Chain)
      BY <2>6 DEF RespondUnusable, TaskTypeOK, InFlightPhase
    <3>2. TaskTypeOK'
      BY <2>6, <3>1, AdvanceType DEF RespondUnusable
    <3>3. QED
      BY <2>6, <3>2, CostsType DEF RespondUnusable, CostTypeOK, costVars
  <2>7. ASSUME NEW a \in Alert, RetryLater(a)
        PROVE  TypeOK'
    BY <2>7 DEF RetryLater, TaskTypeOK, CostTypeOK, costVars, ghostVars, Phase, InFlightPhase
  <2>8. ASSUME NEW a \in Alert, BackendFails(a)
        PROVE  TypeOK'
    <3>1. at[a] \in Worker /\ backend[a] \in 0..Len(Chain)
      BY <2>8 DEF BackendFails, TaskTypeOK, InFlightPhase
    <3>2. TaskTypeOK'
      BY <2>8, <3>1, AdvanceType DEF BackendFails
    <3>3. QED
      BY <2>8, <3>2 DEF BackendFails, CostTypeOK, costVars, ghostVars
  <2>9. ASSUME NEW a \in Alert, Retry(a)
        PROVE  TypeOK'
    BY <2>9, RouteAssumption DEF Retry, TaskTypeOK, CostTypeOK, costVars, ghostVars, Phase, InFlightPhase
  <2>10. ASSUME NEW w \in Worker, BatchReturns(w)
         PROVE  TypeOK'
    <3>1. CostTypeOK'
      BY <2>10, ForgetType DEF BatchReturns
    <3>2. QED
      BY <2>10, <3>1 DEF BatchReturns, TaskTypeOK, ghostVars
  <2>11. ASSUME NEW w \in Worker, GetSpend(w)
         PROVE  TypeOK'
    <3>1. CostTypeOK'
      BY <2>11, LookType DEF GetSpend
    <3>2. QED
      BY <2>11, <3>1 DEF GetSpend, TaskTypeOK, taskVars, ghostVars
  <2>12. ASSUME NEW w \in Worker, Crash(w)
         PROVE  TypeOK'
    <3>1. CostTypeOK'
      BY <2>12, ForgetType DEF Crash
    <3>2. TaskTypeOK'
      BY <2>12, ProcessAssumption, RouteAssumption, BoundAssumption DEF Crash, TaskTypeOK, Phase, InFlightPhase
    <3>3. QED
      BY <2>12, <3>1, <3>2 DEF Crash, ghostVars
  <2>13. ASSUME NEW w \in Worker, NEW written \in BOOLEAN, ResetDaily(w, written)
         PROVE  TypeOK'
    <3>1. CostTypeOK'
      BY <2>13, LoadedType, ClearedType, UpdateType DEF ResetDaily
    <3>2. QED
      BY <2>13, <3>1 DEF ResetDaily, TaskTypeOK, taskVars, ghostVars
  <2>14. ASSUME NEW w \in Worker, NEW written \in BOOLEAN, ResetMonthly(w, written)
         PROVE  TypeOK'
    <3>1. CostTypeOK'
      BY <2>14, LoadedType, ClearedType, UpdateType DEF ResetMonthly
    <3>2. QED
      BY <2>14, <3>1 DEF ResetMonthly, TaskTypeOK, taskVars, ghostVars
  <2>15. CASE NewDay
    BY <2>15, CalendarAssumption DEF NewDay, CostTypeOK, TaskTypeOK, taskVars, ghostVars
  <2>16. CASE UNCHANGED vars
    BY <2>16 DEF vars, taskVars, ghostVars, CostTypeOK, TaskTypeOK
  <2>17. ASSUME NEW a \in Alert, NextAlert(a)
         PROVE  TypeOK'
    BY <2>17 DEF NextAlert, TaskTypeOK, CostTypeOK, costVars, ghostVars, Phase, InFlightPhase, Answer
  <2>18. QED
    BY <2>1, <2>2, <2>3, <2>4, <2>5, <2>6, <2>7, <2>8, <2>9, <2>10, <2>11, <2>12,
       <2>13, <2>14, <2>15, <2>16, <2>17 DEF Next, Provider
<1>3. QED
  BY <1>1, <1>2, PTL DEF Spec

----------------------------------------------------------------------------
(* Counting the analyses in flight. *)
LEMMA FlightCount ==
  ASSUME NEW w
  PROVE  /\ IsFiniteSet(InFlight(w))
         /\ Cardinality(InFlight(w)) \in Nat
         /\ Cardinality(InFlight(w)) <= Cardinality(Alert)
         /\ Cardinality(Alert) \in Nat
<1>1. InFlight(w) \subseteq Alert
  BY DEF InFlight
<1>2. QED
  BY <1>1, AlertAssumption, FS_Subset, FS_CardinalityType

LEMMA MaxInFlightType == MaxInFlight \in Nat /\ Slots \in Nat
  BY AlertAssumption, RouteAssumption, FS_CardinalityType DEF MaxInFlight, Slots

LEMMA CountAdded ==
  ASSUME NEW S, IsFiniteSet(S), NEW x, x \notin S
  PROVE  Cardinality(S \cup {x}) = Cardinality(S) + 1
  BY FS_AddElement

LEMMA CountRemoved ==
  ASSUME NEW S, IsFiniteSet(S), NEW x, x \in S
  PROVE  Cardinality(S \ {x}) = Cardinality(S) - 1
  BY FS_RemoveElement

(* An analysis that ends, and one that is sent to a backend. *)
LEMMA EndInFlight ==
  ASSUME TaskTypeOK, NEW a \in Alert, NEW o \in Answer, End(a, o), NEW v \in Worker
  PROVE  InFlight(v)' = InFlight(v) \ {a}
  BY DEF TaskTypeOK, End, InFlight, Answer, InFlightPhase

LEMMA FailInFlight ==
  ASSUME TaskTypeOK, NEW w \in Worker, NEW a \in Alert, Fail(w, a), NEW v \in Worker
  PROVE  InFlight(v)' = InFlight(v) \ {a}
  BY EndInFlight DEF Fail, Answer

LEMMA SendInFlight ==
  ASSUME TaskTypeOK, NEW w \in Worker, NEW a \in Alert, NEW j, Send(w, a, j),
         NEW v \in Worker
  PROVE  InFlight(v)' = IF v = w THEN InFlight(v) \cup {a} ELSE InFlight(v) \ {a}
  BY DEF TaskTypeOK, Send, InFlight, InFlightPhase

(* What analyses can cost grows with their number, by the dearest response *)
(* for each. *)
LEMMA ExposureType ==
  /\ \A n \in Int : Exposure(n) \in Int
  /\ \A n \in Nat : Exposure(n) \in Nat
  BY CostsType DEF Exposure

LEMMA ExposureGrows ==
  ASSUME NEW j \in Int, NEW k \in Int, j <= k
  PROVE  Exposure(j) <= Exposure(k)
<1>1. (k - j) * MaxCost >= 0
  BY CostsType, k - j \in Nat
<1>2. k * MaxCost = j * MaxCost + (k - j) * MaxCost
  BY CostsType
<1>3. j * MaxCost \in Int /\ k * MaxCost \in Int /\ (k - j) * MaxCost \in Int
  BY CostsType
<1>4. QED
  BY <1>1, <1>2, <1>3, CostsType DEF Exposure

LEMMA ExposureOfOneMore ==
  ASSUME NEW k \in Int
  PROVE  Exposure(k + 1) = Exposure(k) + MaxCost
  BY CostsType DEF Exposure

LEMMA WithinMoreRoom ==
  ASSUME NEW s \in CostState, NEW j \in Int, NEW k \in Int, j <= k, WithinRoom(s, j)
  PROVE  WithinRoom(s, k)
  BY LimitAssumption, ExposureType, ExposureGrows DEF WithinRoom, CostState

LEMMA WithinOfSmaller ==
  ASSUME NEW s \in CostState, NEW t \in CostState, NEW k \in Int,
         t.daily <= s.daily, t.monthly <= s.monthly, WithinRoom(s, k)
  PROVE  WithinRoom(t, k)
  BY LimitAssumption, ExposureType DEF WithinRoom, CostState

(* A record check_limit lets through has all the room there is. *)
LEMMA WithinWhenAdmitted ==
  ASSUME NEW s \in CostState, Admissible(s), NEW k \in Nat
  PROVE  WithinRoom(s, k)
  BY LimitAssumption, ExposureType DEF WithinRoom, Admissible, OverBudget, CostState

(* So has a record of a client that spent nothing. *)
LEMMA WithinWhenEmpty ==
  ASSUME CostTypeOK, NEW k \in Nat
  PROVE  WithinRoom(EmptyState, k)
<1>1. EmptyState.daily = 0 /\ EmptyState.monthly = 0
  BY DEF EmptyState
<1>2. QED
  BY <1>1, LimitAssumption, ExposureType DEF WithinRoom

(* Charging one response uses up the room of one analysis. *)
LEMMA WithinAfterCharge ==
  ASSUME NEW s \in CostState, NEW cost \in Costs, NEW k \in Int, WithinRoom(s, k)
  PROVE  WithinRoom(AddCost(s, cost), k + 1)
  BY LimitAssumption, CostsType, ExposureType, ExposureOfOneMore DEF WithinRoom, CostState, AddCost

(* Whatever a process loads is within the room its idle analyses leave. *)
LEMMA LoadedWithin ==
  ASSUME TypeOK, BudgetInv, NEW w \in Worker, NEW s \in Loaded(w)
  PROVE  WithinRoom(s, MaxInFlight - Cardinality(InFlight(w)))
<1> DEFINE room == MaxInFlight - Cardinality(InFlight(w))
<1>1. room \in Nat
  <2>1. Cardinality(InFlight(w)) <= MaxInFlight
    BY DEF BudgetInv
  <2>2. QED
    BY <2>1, FlightCount, MaxInFlightType
<1>2. CostTypeOK
  BY DEF TypeOK
<1>3. PICK t \in CostState : s = Rollover(t) /\ WithinRoom(t, room)
  <2>1. CASE cache[w] # Absent
    BY <2>1 DEF Loaded, BudgetInv, TypeOK, CostTypeOK
  <2>2. CASE cache[w] = Absent
    <3>1. PICK t \in Stored : s = Rollover(t)
      BY <2>2 DEF Loaded
    <3>2. InFlight(w) = {} /\ Cardinality(InFlight(w)) = 0
      BY <2>2, FS_EmptySet DEF BudgetInv
    <3>3. CASE t = EmptyState
      BY <1>1, <1>2, <3>1, <3>3, EmptyStateType, WithinWhenEmpty
    <3>4. CASE t # EmptyState
      <4>1. t = disk /\ disk # Absent
        BY <3>1, <3>4 DEF Stored
      <4>2. WithinRoom(t, MaxInFlight) /\ t \in CostState
        BY <4>1 DEF BudgetInv, TypeOK, CostTypeOK
      <4>3. QED
        BY <3>1, <3>2, <4>2, MaxInFlightType
    <3>5. QED
      BY <3>3, <3>4
  <2>3. QED
    BY <2>1, <2>2
<1>4. QED
  BY <1>1, <1>2, <1>3, RolloverType, WithinOfSmaller

(* The alerts a run_client process holds are those of its batch. *)
Belongs == \A w \in Cli, a \in Alert : at[a] = w => a \in batch[w]

LEMMA FlightCountAfter ==
  ASSUME NEW v, InFlight(v)' \subseteq InFlight(v)
  PROVE  /\ Cardinality(InFlight(v)') \in Nat
         /\ Cardinality(InFlight(v)') <= Cardinality(InFlight(v))
  BY FlightCount, FS_Subset, FS_CardinalityType

LEMMA MaxInFlightSame == MaxInFlight' = MaxInFlight /\ Slots' = Slots
  BY DEF MaxInFlight, Slots

(* What BudgetInv says of one process. *)
ProcessWithin(v) ==
  /\ Cardinality(InFlight(v)) <= MaxInFlight
  /\ cache[v] = Absent => InFlight(v) = {}
  /\ cache[v] # Absent => WithinRoom(cache[v], MaxInFlight - Cardinality(InFlight(v)))
  /\ v \in Cli => Cardinality(InFlight(v)) <= Slots

LEMMA BudgetInvByProcess ==
  BudgetInv <=> /\ disk # Absent => WithinRoom(disk, MaxInFlight)
                /\ \A v \in Worker : ProcessWithin(v)
                /\ Belongs
  BY ProcessAssumption DEF BudgetInv, ProcessWithin, Belongs, WithinConcurrency

(* A process that keeps its record and sends nothing new. *)
LEMMA ProcessKept ==
  ASSUME TypeOK, NEW v \in Worker, ProcessWithin(v), cache'[v] = cache[v],
         InFlight(v)' \subseteq InFlight(v)
  PROVE  ProcessWithin(v)'
<1> DEFINE n == Cardinality(InFlight(v))
           m == Cardinality(InFlight(v)')
<1>1. m \in Nat /\ n \in Nat /\ m <= n
  BY FlightCountAfter, FlightCount
<1>2. m <= MaxInFlight /\ (v \in Cli => m <= Slots)
  BY <1>1, MaxInFlightType DEF ProcessWithin
<1>3. cache'[v] = Absent => InFlight(v)' = {}
  BY DEF ProcessWithin
<1>4. ASSUME cache'[v] # Absent
      PROVE  WithinRoom(cache'[v], MaxInFlight - m)
  <2>1. cache[v] \in CostState /\ WithinRoom(cache[v], MaxInFlight - n)
    BY <1>4 DEF ProcessWithin, TypeOK, CostTypeOK
  <2>2. MaxInFlight - n <= MaxInFlight - m
    BY <1>1, MaxInFlightType
  <2>3. QED
    BY <1>1, <2>1, <2>2, MaxInFlightType, WithinMoreRoom
<1>5. QED
  BY <1>2, <1>3, <1>4, MaxInFlightSame DEF ProcessWithin, WithinRoom, Exposure

(* A process that ends. *)
LEMMA ProcessEnded ==
  ASSUME NEW v \in Worker, cache'[v] = Absent, InFlight(v)' = {}
  PROVE  ProcessWithin(v)'
<1>1. Cardinality(InFlight(v)') = 0
  BY FS_EmptySet
<1>2. QED
  BY <1>1, MaxInFlightType, MaxInFlightSame DEF ProcessWithin

(* A step that touches no record and sends nothing new. *)
LEMMA QuietStep ==
  ASSUME TypeOK, BudgetInv, UNCHANGED <<cache, disk>>, Belongs',
         \A v \in Worker : InFlight(v)' \subseteq InFlight(v)
  PROVE  BudgetInv'
<1>1. \A v \in Worker : ProcessWithin(v)'
  BY ProcessKept, BudgetInvByProcess
<1>2. (disk # Absent => WithinRoom(disk, MaxInFlight))'
  BY MaxInFlightSame DEF BudgetInv, WithinRoom, Exposure
<1>3. QED
  BY <1>1, <1>2, ProcessAssumption DEF BudgetInv, ProcessWithin, Belongs, WithinConcurrency

(* A step in which process w ends. *)
LEMMA ForgetStep ==
  ASSUME TypeOK, BudgetInv, NEW w \in Worker, Forget(w), Belongs', InFlight(w)' = {},
         \A v \in Worker : InFlight(v)' \subseteq InFlight(v)
  PROVE  BudgetInv'
<1>1. ASSUME NEW v \in Worker
      PROVE  ProcessWithin(v)'
  <2>1. cache'[v] = IF v = w THEN Absent ELSE cache[v]
    BY DEF Forget, TypeOK, CostTypeOK
  <2>2. QED
    BY <2>1, ProcessKept, ProcessEnded, BudgetInvByProcess
<1>2. (disk # Absent => WithinRoom(disk, MaxInFlight))'
  BY MaxInFlightSame DEF BudgetInv, Forget, WithinRoom, Exposure
<1>3. QED
  BY <1>1, <1>2, ProcessAssumption DEF BudgetInv, ProcessWithin, Belongs, WithinConcurrency

(* A step in which process w puts a record in its dict, and perhaps on disk, *)
(* that fits the room its analyses leave after the step. *)
LEMMA RecordStep ==
  ASSUME TypeOK, BudgetInv, NEW w \in Worker, NEW s \in CostState,
         cache' = [cache EXCEPT ![w] = s], disk' \in {disk, s}, Belongs',
         WithinRoom(s, MaxInFlight - Cardinality(InFlight(w)')),
         Cardinality(InFlight(w)') \in Nat,
         Cardinality(InFlight(w)') <= MaxInFlight,
         w \in Cli => Cardinality(InFlight(w)') <= Slots,
         \A v \in Worker \ {w} : InFlight(v)' \subseteq InFlight(v)
  PROVE  BudgetInv'
<1>1. WithinRoom(s, MaxInFlight)
  <2>1. MaxInFlight - Cardinality(InFlight(w)') <= MaxInFlight
    BY MaxInFlightType
  <2>2. QED
    BY <2>1, MaxInFlightType, WithinMoreRoom
<1>2. (disk # Absent => WithinRoom(disk, MaxInFlight))'
  BY <1>1, MaxInFlightSame DEF BudgetInv, WithinRoom, Exposure
<1>3. ProcessWithin(w)'
  <2>1. cache'[w] = s /\ s # Absent
    BY AbsentAssumption DEF TypeOK, CostTypeOK
  <2>2. QED
    BY <2>1, MaxInFlightSame DEF ProcessWithin, WithinRoom, Exposure
<1>4. ASSUME NEW v \in Worker \ {w}
      PROVE  ProcessWithin(v)'
  <2>1. cache'[v] = cache[v]
    BY DEF TypeOK, CostTypeOK
  <2>2. QED
    BY <2>1, ProcessKept, BudgetInvByProcess
<1>5. QED
  BY <1>2, <1>3, <1>4, ProcessAssumption DEF BudgetInv, ProcessWithin, Belongs, WithinConcurrency

(* What route() leaves in flight. *)
LEMMA AdvanceInFlight ==
  ASSUME TaskTypeOK, NEW w \in Worker, NEW a \in Alert, NEW i, Advance(w, a, i)
  PROVE  /\ \A v \in Worker \ {w} : InFlight(v)' \subseteq InFlight(v)
         /\ InFlight(w)' \in {InFlight(w) \cup {a}, InFlight(w) \ {a}}
         /\ \A v \in Worker \ {w} : \A b \in Alert : at'[b] = v => at[b] = v
         /\ \A b \in Alert : at'[b] = w => at[b] = w \/ b = a
         /\ batch' = batch
<1>1. CASE Fail(w, a)
  <2>1. batch' = batch /\ \A b \in Alert : at'[b] \in {at[b], Nobody}
    BY <1>1 DEF Fail, End, TaskTypeOK
  <2>2. QED
    BY <1>1, <2>1, FailInFlight, ProcessAssumption
<1>2. CASE \E j \in Later(i) : Send(w, a, j)
  <2>1. PICK j \in Later(i) : Send(w, a, j)
    BY <1>2
  <2>2. batch' = batch /\ \A b \in Alert : at'[b] = IF b = a THEN w ELSE at[b]
    BY <2>1 DEF Send, TaskTypeOK
  <2>3. QED
    BY <2>1, <2>2, SendInFlight
<1>3. QED
  BY <1>1, <1>2 DEF Advance

(* analyze() up to its first await: with a slot free, an analysis that is  *)
(* admitted found room in both budgets, one that is not leaves things be. *)
LEMMA BeginStep ==
  ASSUME TypeOK, BudgetInv, NEW w \in Worker, NEW a \in Alert, Begin(w, a),
         a \notin InFlight(w), w \in Cli => a \in batch[w],
         Cardinality(InFlight(w)) + 1 <= MaxInFlight,
         w \in Cli => Cardinality(InFlight(w)) + 1 <= Slots
  PROVE  BudgetInv'
<1> DEFINE n == Cardinality(InFlight(w))
           m == Cardinality(InFlight(w)')
<1>1. PICK s \in Loaded(w) :
        /\ Look(w, s)
        /\ Fail(w, a) \/ (Admissible(s) /\ Advance(w, a, 0))
  BY DEF Begin
<1>2. s \in CostState /\ cache' = [cache EXCEPT ![w] = s] /\ disk' = disk
  BY <1>1, LoadedType DEF Look, TypeOK
<1>3. n \in Nat /\ IsFiniteSet(InFlight(w)) /\ MaxInFlight \in Nat /\ Slots \in Nat
  BY FlightCount, MaxInFlightType
<1>4. CASE Fail(w, a)
  <2>1. \A v \in Worker : InFlight(v)' = InFlight(v) \ {a}
    BY <1>4, FailInFlight DEF TypeOK
  <2>2. m = n
    BY <2>1
  <2>3. Belongs'
    <3>1. batch' = batch /\ \A b \in Alert : at'[b] \in {at[b], Nobody}
      BY <1>4 DEF Fail, End, TypeOK, TaskTypeOK
    <3>2. QED
      BY <3>1, ProcessAssumption DEF Belongs, BudgetInv
  <2>4. WithinRoom(s, MaxInFlight - m)
    BY <1>1, <2>2, LoadedWithin
  <2>5. m \in Nat /\ m <= MaxInFlight /\ (w \in Cli => m <= Slots)
    BY <1>3, <2>2
  <2>6. QED
    BY <1>2, <2>1, <2>3, <2>4, <2>5, RecordStep
<1>5. CASE Admissible(s) /\ Advance(w, a, 0)
  <2>1. /\ \A v \in Worker \ {w} : InFlight(v)' \subseteq InFlight(v)
        /\ InFlight(w)' \in {InFlight(w) \cup {a}, InFlight(w)}
    BY <1>5, AdvanceInFlight DEF TypeOK
  <2>2. m \in {n, n + 1}
    BY <1>3, <2>1, CountAdded
  <2>3. Belongs'
    BY <1>5, AdvanceInFlight, ProcessAssumption DEF Belongs, BudgetInv, TypeOK
  <2>4. m \in Nat /\ m <= MaxInFlight /\ (w \in Cli => m <= Slots)
    BY <1>3, <2>2
  <2>5. WithinRoom(s, MaxInFlight - m)
    <3>1. MaxInFlight - m \in Nat
      BY <1>3, <2>4
    <3>2. QED
      BY <1>2, <1>5, <3>1, WithinWhenAdmitted
  <2>6. QED
    BY <1>2, <2>1, <2>3, <2>4, <2>5, RecordStep
<1>6. QED
  BY <1>1, <1>4, <1>5

LEMMA OneMoreOfAll ==
  ASSUME NEW w, NEW a \in Alert, a \notin InFlight(w)
  PROVE  Cardinality(InFlight(w)) + 1 <= Cardinality(Alert)
<1>1. InFlight(w) \cup {a} \subseteq Alert
  BY DEF InFlight
<1>2. QED
  BY <1>1, AlertAssumption, FlightCount, CountAdded, FS_Subset

(* An analysis that ends leaves every process what it had in flight, less it. *)
LEMMA EndBelongs ==
  ASSUME TypeOK, BudgetInv, NEW a \in Alert, NEW o, End(a, o)
  PROVE  Belongs'
<1>1. batch' = batch /\ \A b \in Alert : at'[b] \in {at[b], Nobody}
  BY DEF End, TypeOK, TaskTypeOK
<1>2. QED
  BY <1>1, ProcessAssumption DEF Belongs, BudgetInv

(* Going on to another backend, or giving up, after a failure. *)
LEMMA FailoverStep ==
  ASSUME TypeOK, BudgetInv, NEW a \in Alert, phase[a] = "calling",
         Advance(at[a], a, backend[a]), UNCHANGED <<cache, disk>>
  PROVE  BudgetInv'
<1>1. at[a] \in Worker /\ a \in InFlight(at[a])
  BY DEF TypeOK, TaskTypeOK, InFlight, InFlightPhase
<1>2. \A v \in Worker : InFlight(v)' \subseteq InFlight(v)
  BY <1>1, AdvanceInFlight DEF TypeOK
<1>3. Belongs'
  BY <1>1, AdvanceInFlight, ProcessAssumption DEF Belongs, BudgetInv, TypeOK
<1>4. QED
  BY <1>2, <1>3, QuietStep

(* A record is charged when its analysis ends: the cost takes the room that *)
(* the analysis no longer needs. *)
LEMMA ChargeStep ==
  ASSUME TypeOK, BudgetInv, NEW a \in Alert, NEW w \in Worker,
         phase[a] = "calling", at[a] = w,
         NEW o \in Answer, End(a, o), NEW cost \in Costs, NEW s \in Loaded(w),
         NEW written \in BOOLEAN, Update(w, AddCost(s, cost), written)
  PROVE  BudgetInv'
<1> DEFINE n == Cardinality(InFlight(w))
<1>1. a \in InFlight(w)
  BY DEF InFlight, InFlightPhase
<1>2. \A v \in Worker : InFlight(v)' = InFlight(v) \ {a}
  BY EndInFlight DEF TypeOK
<1>3. n \in Nat /\ Cardinality(InFlight(w)') = n - 1 /\ Cardinality(InFlight(w)') \in Nat
  BY <1>1, <1>2, FlightCount, CountRemoved, FlightCountAfter, InFlight(w)' \subseteq InFlight(w)
<1>4. s \in CostState
  BY <1>1, LoadedType DEF TypeOK
<1>5. WithinRoom(AddCost(s, cost), MaxInFlight - Cardinality(InFlight(w)'))
  <2>1. WithinRoom(s, MaxInFlight - n)
    BY LoadedWithin
  <2>2. MaxInFlight - n \in Int /\ (MaxInFlight - n) + 1 = MaxInFlight - (n - 1)
    BY <1>3, MaxInFlightType
  <2>3. QED
    BY <1>3, <1>4, <2>1, <2>2, WithinAfterCharge
<1>6. n <= MaxInFlight /\ (w \in Cli => n <= Slots)
  BY <1>1 DEF BudgetInv, WithinConcurrency
<1>7. /\ Cardinality(InFlight(w)') <= MaxInFlight
      /\ w \in Cli => Cardinality(InFlight(w)') <= Slots
  BY <1>3, <1>6, MaxInFlightType
<1>8. /\ AddCost(s, cost) \in CostState
      /\ cache' = [cache EXCEPT ![w] = AddCost(s, cost)]
      /\ disk' \in {disk, AddCost(s, cost)}
  BY <1>4, ChargedType DEF Update
<1>9. Belongs'
  BY EndBelongs
<1>10. QED
  BY <1>1, <1>2, <1>3, <1>5, <1>7, <1>8, <1>9, RecordStep

(* Looking at, or clearing, a record changes nothing that is in flight. *)
LEMMA LookStep ==
  ASSUME TypeOK, BudgetInv, NEW w \in Worker, NEW s \in Loaded(w), NEW t \in CostState,
         t.daily <= s.daily, t.monthly <= s.monthly,
         cache' = [cache EXCEPT ![w] = t], disk' \in {disk, t}, Belongs',
         \A v \in Worker : InFlight(v)' = InFlight(v)
  PROVE  BudgetInv'
<1> DEFINE n == Cardinality(InFlight(w))
<1>1. n \in Nat /\ Cardinality(InFlight(w)') = n
  BY FlightCount
<1>2. n <= MaxInFlight /\ (w \in Cli => n <= Slots)
  BY DEF BudgetInv, WithinConcurrency
<1>3. WithinRoom(t, MaxInFlight - n)
  <2>1. WithinRoom(s, MaxInFlight - n) /\ MaxInFlight - n \in Int /\ s \in CostState
    BY <1>1, LoadedWithin, LoadedType, MaxInFlightType DEF TypeOK
  <2>2. QED
    BY <2>1, WithinOfSmaller
<1>4. QED
  BY <1>1, <1>2, <1>3, RecordStep

----------------------------------------------------------------------------
LEMMA BudgetInit == Init => BudgetInv
<1> SUFFICES ASSUME Init PROVE BudgetInv
  OBVIOUS
<1>1. \A v : InFlight(v) = {}
  BY DEF Init, InFlight, InFlightPhase
<1>2. \A v : Cardinality(InFlight(v)) = 0
  BY <1>1, FS_EmptySet
<1>3. QED
  BY <1>1, <1>2, MaxInFlightType, ProcessAssumption
  DEF Init, CostInit, BudgetInv, WithinConcurrency

LEMMA BudgetStep == TypeOK /\ BudgetInv /\ [Next]_vars => BudgetInv'
<1> SUFFICES ASSUME TypeOK, BudgetInv, [Next]_vars
             PROVE  BudgetInv'
  OBVIOUS
<1>1. ASSUME NEW w \in Worker, NEW a \in Alert, Request(w, a)
      PROVE  BudgetInv'
  <2>1. a \notin InFlight(w) /\ w \notin Cli /\ Begin(w, a)
    BY <1>1, ProcessAssumption DEF Request, InFlight, InFlightPhase
  <2>2. Cardinality(InFlight(w)) + 1 <= MaxInFlight
    BY <1>1, <2>1, OneMoreOfAll DEF MaxInFlight, Request
  <2>3. QED
    BY <2>1, <2>2, BeginStep
<1>2. ASSUME NEW w \in Worker, NEW a \in Alert, RequestDryRun(w, a)
      PROVE  BudgetInv'
  <2>1. PICK o \in Answer : End(a, o)
    BY <1>2 DEF RequestDryRun, Fail, Answer
  <2>2. PICK s \in Loaded(w) : Look(w, s)
    BY <1>2 DEF RequestDryRun
  <2>3. a \notin UNION {InFlight(v) : v \in Worker}
    BY <1>2 DEF RequestDryRun, InFlight, InFlightPhase
  <2>4. \A v \in Worker : InFlight(v)' = InFlight(v)
    BY <2>1, <2>3, EndInFlight DEF TypeOK
  <2>5. s \in CostState /\ s.daily <= s.daily /\ s.monthly <= s.monthly
    BY <2>2, LoadedType DEF TypeOK, CostState
  <2>6. QED
    BY <2>1, <2>2, <2>4, <2>5, EndBelongs, LookStep DEF Look
<1>3. ASSUME NEW w \in Worker, NEW B \in SUBSET Alert, SubmitBatch(w, B)
      PROVE  BudgetInv'
  <2>1. \A v \in Worker : InFlight(v)' \subseteq InFlight(v)
    BY <1>3 DEF SubmitBatch, InFlight, InFlightPhase
  <2>2. Belongs'
    BY <1>3 DEF SubmitBatch, Belongs, BudgetInv, TypeOK, TaskTypeOK
  <2>3. QED
    BY <1>3, <2>1, <2>2, QuietStep DEF SubmitBatch, costVars
<1>4. ASSUME NEW a \in Alert, Acquire(a)
      PROVE  BudgetInv'
  <2>1. PICK w \in Worker : w = at[a]
    BY <1>4 DEF Acquire, TypeOK, TaskTypeOK
  <2>2. a \notin InFlight(w) /\ (w \in Cli => a \in batch[w]) /\ Begin(w, a)
    BY <1>4, <2>1 DEF Acquire, InFlight, InFlightPhase, BudgetInv
  <2>3. Cardinality(InFlight(w)) + 1 <= Slots
    BY <1>4, <2>1, FlightCount, MaxInFlightType DEF Acquire
  <2>4. Cardinality(InFlight(w)) + 1 <= MaxInFlight
    BY <2>2, <2>3, OneMoreOfAll DEF MaxInFlight
  <2>5. QED
    BY <2>2, <2>3, <2>4, BeginStep
<1>5. ASSUME NEW a \in Alert, NEW cost \in Costs, Respond(a, cost)
      PROVE  BudgetInv'
  <2>1. PICK w \in Worker : w = at[a]
    BY <1>5 DEF Respond, TypeOK, TaskTypeOK, InFlightPhase
  <2>2. PICK o \in Answer : End(a, o)
    BY <1>5 DEF Respond, Fail, Answer
  <2>3. CASE UNCHANGED <<cache, disk>>
    <3>1. \A v \in Worker : InFlight(v)' \subseteq InFlight(v)
      BY <2>2, EndInFlight DEF TypeOK
    <3>2. QED
      BY <2>2, <2>3, <3>1, EndBelongs, QuietStep
  <2>4. CASE \E s \in Loaded(w), written \in BOOLEAN : Update(w, AddCost(s, cost), written)
    BY <1>5, <2>1, <2>2, <2>4, ChargeStep DEF Respond
  <2>5. QED
    BY <1>5, <2>1, <2>3, <2>4 DEF Respond
<1>6. ASSUME NEW a \in Alert, NEW cost \in Costs, RespondUnusable(a, cost)
      PROVE  BudgetInv'
  BY <1>6, FailoverStep DEF RespondUnusable, costVars
<1>7. ASSUME NEW a \in Alert, RetryLater(a) \/ Retry(a)
      PROVE  BudgetInv'
  <2>1. \A v \in Worker : InFlight(v)' \subseteq InFlight(v)
    BY <1>7 DEF RetryLater, Retry, InFlight, InFlightPhase, TypeOK, TaskTypeOK
  <2>2. Belongs'
    BY <1>7 DEF RetryLater, Retry, Belongs, BudgetInv
  <2>3. QED
    BY <1>7, <2>1, <2>2, QuietStep DEF RetryLater, Retry, costVars
<1>8. ASSUME NEW a \in Alert, BackendFails(a)
      PROVE  BudgetInv'
  BY <1>8, FailoverStep DEF BackendFails, costVars
<1>9. ASSUME NEW w \in Worker, BatchReturns(w)
      PROVE  BudgetInv'
  <2>1. InFlight(w) = {}
    BY <1>9 DEF BatchReturns, InFlight, InFlightPhase, Answer, BudgetInv
  <2>2. \A v \in Worker : InFlight(v)' = InFlight(v)
    BY <1>9 DEF BatchReturns, InFlight
  <2>3. \A b \in Alert : at[b] # w
    <3>1. ASSUME NEW b \in Alert, at[b] = w
          PROVE  phase[b] \in InFlightPhase \cup {"queued"}
      BY <1>9, <3>1, ProcessAssumption DEF TypeOK, TaskTypeOK
    <3>2. \A b \in batch[w] : phase[b] \in Answer
      BY <1>9 DEF BatchReturns
    <3>3. QED
      BY <1>9, <3>1, <3>2 DEF BatchReturns, BudgetInv, Answer, InFlightPhase
  <2>4. Belongs'
    BY <1>9, <2>3 DEF BatchReturns, Belongs, BudgetInv, TypeOK, TaskTypeOK
  <2>5. QED
    BY <1>9, <2>1, <2>2, <2>4, ForgetStep DEF BatchReturns
<1>10. ASSUME NEW w \in Worker, GetSpend(w)
       PROVE  BudgetInv'
  <2>1. PICK s \in Loaded(w) : Look(w, s)
    BY <1>10 DEF GetSpend
  <2>2. s \in CostState /\ s.daily <= s.daily /\ s.monthly <= s.monthly
    BY LoadedType DEF TypeOK, CostState
  <2>3. Belongs' /\ \A v \in Worker : InFlight(v)' = InFlight(v)
    BY <1>10 DEF GetSpend, taskVars, InFlight, Belongs, BudgetInv
  <2>4. QED
    BY <2>1, <2>2, <2>3, LookStep DEF Look
<1>11. ASSUME NEW w \in Worker, NEW written \in BOOLEAN,
              ResetDaily(w, written) \/ ResetMonthly(w, written)
       PROVE  BudgetInv'
  <2>0. PICK s \in Loaded(w) : Update(w, ClearDaily(s), written) \/ Update(w, ClearMonthly(s), written)
    BY <1>11 DEF ResetDaily, ResetMonthly
  <2>1. PICK t \in {ClearDaily(s), ClearMonthly(s)} : Update(w, t, written)
    BY <2>0
  <2>2. s \in CostState /\ t \in CostState
    BY <2>1, LoadedType, ClearedType DEF TypeOK
  <2>3. t.daily <= s.daily /\ t.monthly <= s.monthly
    BY <2>1, <2>2 DEF CostState, ClearDaily, ClearMonthly
  <2>4. Belongs' /\ \A v \in Worker : InFlight(v)' = InFlight(v)
    BY <1>11 DEF ResetDaily, ResetMonthly, taskVars, InFlight, Belongs, BudgetInv
  <2>5. cache' = [cache EXCEPT ![w] = t] /\ disk' \in {disk, t}
    BY <2>1 DEF Update
  <2>6. QED
    BY <2>2, <2>3, <2>4, <2>5, LookStep
<1>12. ASSUME NEW w \in Worker, Crash(w)
       PROVE  BudgetInv'
  <2>1. InFlight(w)' = {} /\ \A v \in Worker : InFlight(v)' \subseteq InFlight(v)
    BY <1>12, ProcessAssumption DEF Crash, InFlight, InFlightPhase, TypeOK, TaskTypeOK
  <2>2. Belongs'
    BY <1>12, ProcessAssumption DEF Crash, Belongs, BudgetInv, TypeOK, TaskTypeOK
  <2>3. QED
    BY <1>12, <2>1, <2>2, ForgetStep DEF Crash
<1>13. CASE NewDay \/ UNCHANGED vars
  <2>1. /\ UNCHANGED <<cache, disk>>
        /\ Belongs'
        /\ \A v \in Worker : InFlight(v)' = InFlight(v)
    BY <1>13 DEF NewDay, vars, taskVars, InFlight, Belongs, BudgetInv
  <2>2. QED
    BY <2>1, QuietStep
<1>14. ASSUME NEW a \in Alert, NextAlert(a)
       PROVE  BudgetInv'
  <2>1. \A v \in Worker : InFlight(v)' \subseteq InFlight(v)
    BY <1>14 DEF NextAlert, InFlight, InFlightPhase, TypeOK, TaskTypeOK
  <2>2. Belongs'
    BY <1>14 DEF NextAlert, Belongs, BudgetInv
  <2>3. QED
    BY <1>14, <2>1, <2>2, QuietStep DEF NextAlert, costVars
<1>15. QED
  BY <1>1, <1>2, <1>3, <1>4, <1>5, <1>6, <1>7, <1>8, <1>9, <1>10, <1>11, <1>12, <1>13, <1>14
  DEF Next, Provider

(* Every process, in every reachable state, leaves room for the analyses it *)
(* has in flight. *)
THEOREM BudgetKept == Spec => []BudgetInv
<1>1. QED
  BY TypeCorrect, BudgetInit, BudgetStep, PTL DEF Spec

(* However requests, batches, retries, fallbacks, resets, crashes and days    *)
(* interleave, no record exceeds its budget by more than the dearest response *)
(* for each analysis that can be in flight (check_limit before, record after  *)
(* the call in analyze()). *)
THEOREM OverrunBounded == Spec => []OverrunBound
<1>1. TypeOK /\ BudgetInv => OverrunBound
  <2> SUFFICES ASSUME TypeOK, BudgetInv, NEW w \in Worker, cache[w] # Absent
               PROVE  WithinRoom(cache[w], MaxInFlight)
    BY DEF OverrunBound, BudgetInv
  <2>1. cache[w] \in CostState
    BY DEF TypeOK, CostTypeOK
  <2>2. WithinRoom(cache[w], MaxInFlight - Cardinality(InFlight(w)))
    BY DEF BudgetInv
  <2>3. QED
    BY <2>1, <2>2, FlightCount, MaxInFlightType, WithinMoreRoom
<1>2. QED
  BY <1>1, TypeCorrect, BudgetKept, PTL

(* analyze_batch keeps to concurrency.max_in_flight for any configuration. *)
THEOREM ConcurrencyBounded == Spec => []WithinConcurrency
<1>1. BudgetInv => WithinConcurrency
  BY DEF BudgetInv
<1>2. QED
  BY <1>1, BudgetKept, PTL

----------------------------------------------------------------------------
(* A process loads a record that is in its dict, on disk or empty, and keeps *)
(* its total. *)
LEMMA LoadedFrom ==
  ASSUME CostTypeOK, NEW w \in Worker, NEW s \in Loaded(w)
  PROVE  \E r \in CostState :
           /\ s = Rollover(r)
           /\ cache[w] # Absent => r = cache[w]
           /\ cache[w] = Absent => r \in Stored
<1>1. Stored \subseteq CostState /\ (cache[w] # Absent => cache[w] \in CostState)
  BY EmptyStateType DEF Stored, CostTypeOK
<1>2. QED
  BY <1>1 DEF Loaded

(* Process w replaces the record s that it loaded by t, which has been charged *)
(* cost; the file gets it too, or keeps what it has. *)
Replaces(w, s, t, cost) ==
  /\ t.total = s.total + cost
  /\ t.dailyAnchor = s.dailyAnchor /\ t.monthlyAnchor = s.monthlyAnchor
  /\ cache' = [cache EXCEPT ![w] = t]
  /\ today' = today
  /\ billed' = billed + cost
  /\ \/ disk' = disk /\ booked' = booked
     \/ disk' = t /\ booked' = booked + cost

(* The three things a step can do to the records: nothing (a provider may have *)
(* charged for it all the same), forget them, or replace one. *)
LEMMA RecordSteps ==
  ASSUME TypeOK, [Next]_vars
  PROVE  \/ /\ UNCHANGED <<cache, disk, booked>>
            /\ billed' \in Nat /\ billed <= billed'
            /\ today' = today \/ NewDay
         \/ \E w \in Worker : Forget(w) /\ UNCHANGED <<today, billed, booked>>
         \/ \E w \in Worker : \E s \in Loaded(w), t \in CostState, cost \in Costs \cup {0} :
              Replaces(w, s, t, cost)
<1> DEFINE Quiet == /\ UNCHANGED <<cache, disk, booked>>
                    /\ billed' \in Nat /\ billed <= billed'
                    /\ today' = today \/ NewDay
           Gone == \E w \in Worker : Forget(w) /\ UNCHANGED <<today, billed, booked>>
           Other == \E w \in Worker : \E s \in Loaded(w), t \in CostState, cost \in Costs \cup {0} :
                      Replaces(w, s, t, cost)
<1> SUFFICES Quiet \/ Gone \/ Other
  OBVIOUS
<1>1. CostTypeOK /\ billed \in Nat /\ booked \in Nat /\ \A a \in Alert : phase[a] = "calling" => at[a] \in Worker
  BY DEF TypeOK, TaskTypeOK, InFlightPhase
<1>2. ASSUME NEW w \in Worker, NEW s \in Loaded(w), Look(w, s), UNCHANGED <<today, ghostVars>>
      PROVE  Other
  <2>1. s \in CostState
    BY <1>1, LoadedType
  <2>2. Replaces(w, s, s, 0)
    BY <1>1, <1>2, <2>1 DEF Look, Replaces, CostState, ghostVars
  <2> QED
    BY <2>1, <2>2
<1>3. ASSUME NEW w \in Worker, NEW a \in Alert, Request(w, a) \/ RequestDryRun(w, a)
      PROVE  Other
  BY <1>2, <1>3 DEF Request, Begin, RequestDryRun
<1>4. ASSUME NEW a \in Alert, Acquire(a)
      PROVE  Other
  <2>1. at[a] \in Worker
    BY <1>4 DEF Acquire, TypeOK, TaskTypeOK
  <2>2. QED
    BY <1>2, <1>4, <2>1 DEF Acquire, Begin
<1>5. ASSUME NEW a \in Alert, NEW cost \in Costs, Respond(a, cost)
      PROVE  Quiet \/ Other
  <2>1. at[a] \in Worker /\ cost \in Nat
    BY <1>1, <1>5, CostsType DEF Respond
  <2>2. CASE cost = 0
    BY <1>1, <1>5, <2>2 DEF Respond
  <2>3. CASE cost > 0
    <3>1. PICK s \in Loaded(at[a]) :
            /\ cache' = [cache EXCEPT ![at[a]] = AddCost(s, cost)]
            /\ \/ disk' = AddCost(s, cost) /\ booked' = booked + cost
               \/ disk' = disk /\ booked' = booked
      BY <1>5, <2>1, <2>3 DEF Respond, Update
    <3>2. s \in CostState /\ AddCost(s, cost) \in CostState
      BY <1>1, <2>1, LoadedType, ChargedType
    <3>3. Replaces(at[a], s, AddCost(s, cost), cost)
      BY <1>5, <3>1 DEF Replaces, Respond, AddCost
    <3>4. QED
      BY <2>1, <3>2, <3>3
  <2>4. QED
    BY <1>5, <2>1, <2>2, <2>3
<1>6. ASSUME NEW a \in Alert, NEW cost \in Costs, RespondUnusable(a, cost)
      PROVE  Quiet
  BY <1>1, <1>6, CostsType DEF RespondUnusable, costVars
<1>7. ASSUME NEW w \in Worker, BatchReturns(w) \/ Crash(w)
      PROVE  Gone
  BY <1>7 DEF BatchReturns, Crash, ghostVars
<1>8. ASSUME NEW w \in Worker, GetSpend(w)
      PROVE  Other
  BY <1>2, <1>8 DEF GetSpend
<1>9. ASSUME NEW w \in Worker, NEW written \in BOOLEAN,
             ResetDaily(w, written) \/ ResetMonthly(w, written)
      PROVE  Other
  <2>1. PICK s \in Loaded(w) : Update(w, ClearDaily(s), written) \/ Update(w, ClearMonthly(s), written)
    BY <1>9 DEF ResetDaily, ResetMonthly
  <2>2. PICK t \in {ClearDaily(s), ClearMonthly(s)} : Update(w, t, written)
    BY <2>1
  <2>3. s \in CostState /\ t \in CostState
    BY <1>1, <2>2, LoadedType, ClearedType
  <2>4. s.dailyAnchor = today /\ s.monthlyAnchor = MonthOf[today]
    BY DEF Loaded, Rollover
  <2>5. Replaces(w, s, t, 0)
    BY <1>1, <1>9, <2>2, <2>3, <2>4
    DEF Replaces, ResetDaily, ResetMonthly, Update, ClearDaily, ClearMonthly, CostState, ghostVars
  <2>6. QED
    BY <2>3, <2>5
<1>10. ASSUME NEW a \in Alert, NextAlert(a) \/ BackendFails(a) \/ RetryLater(a) \/ Retry(a)
       PROVE  Quiet
  BY <1>1, <1>10 DEF NextAlert, BackendFails, RetryLater, Retry, costVars, ghostVars
<1>11. ASSUME NEW w \in Worker, NEW B \in SUBSET Alert, SubmitBatch(w, B)
       PROVE  Quiet
  BY <1>1, <1>11 DEF SubmitBatch, costVars, ghostVars
<1>12. CASE NewDay \/ UNCHANGED vars
  BY <1>1, <1>12 DEF NewDay, vars, ghostVars
<1>13. QED
  BY <1>3, <1>4, <1>5, <1>6, <1>7, <1>8, <1>9, <1>10, <1>11, <1>12 DEF Next, Provider

----------------------------------------------------------------------------
(* No record, in memory or in the file, holds more than was charged. *)
NothingCountedTwice ==
  /\ \A w \in Worker : cache[w] # Absent => cache[w].total <= billed
  /\ disk # Absent => disk.total <= billed

LEMMA LoadedIsBilled ==
  ASSUME TypeOK, NothingCountedTwice, NEW w \in Worker, NEW s \in Loaded(w)
  PROVE  s \in CostState /\ s.total <= billed
<1>1. PICK r \in CostState :
        /\ s = Rollover(r)
        /\ cache[w] # Absent => r = cache[w]
        /\ cache[w] = Absent => r \in Stored
  BY LoadedFrom DEF TypeOK
<1>2. r.total <= billed
  BY <1>1 DEF NothingCountedTwice, Stored, EmptyState, TypeOK
<1>3. QED
  BY <1>1, <1>2, RolloverType DEF TypeOK

(* However many processes share the file, and whatever is lost when they       *)
(* overwrite one another's copies, no charge is ever recorded twice: no record *)
(* exceeds what the providers charged (record() adds to the loaded state). *)
THEOREM ChargesCountedOnce == Spec => []NothingCountedTwice
<1>1. TypeOK /\ Init => NothingCountedTwice
  BY DEF Init, CostInit, NothingCountedTwice
<1>2. TypeOK /\ NothingCountedTwice /\ [Next]_vars => NothingCountedTwice'
  <2> SUFFICES ASSUME TypeOK, NothingCountedTwice, [Next]_vars
               PROVE  NothingCountedTwice'
    OBVIOUS
  <2>1. \A v \in Worker : cache[v] \in CostState \cup {Absent}
    BY DEF TypeOK, CostTypeOK
  <2>2. billed \in Nat /\ disk \in CostState \cup {Absent}
    BY DEF TypeOK, CostTypeOK
  <2>3. CASE UNCHANGED <<cache, disk, booked>> /\ billed' \in Nat /\ billed <= billed'
    BY <2>1, <2>2, <2>3 DEF NothingCountedTwice, CostState
  <2>4. CASE \E w \in Worker : Forget(w) /\ UNCHANGED <<today, billed, booked>>
    BY <2>4 DEF NothingCountedTwice, Forget, TypeOK, CostTypeOK
  <2>5. ASSUME NEW w \in Worker, NEW s \in Loaded(w), NEW t \in CostState,
               NEW cost \in Costs \cup {0}, Replaces(w, s, t, cost)
        PROVE  NothingCountedTwice'
    <3>1. s \in CostState /\ s.total <= billed /\ cost \in Nat
      BY LoadedIsBilled, CostsType
    <3>2. t.total <= billed' /\ billed <= billed' /\ billed' \in Nat
      BY <2>2, <2>5, <3>1 DEF Replaces, CostState
    <3>3. \A v \in Worker : cache'[v] = IF v = w THEN t ELSE cache[v]
      BY <2>5 DEF Replaces, TypeOK, CostTypeOK
    <3>4. disk' \in {disk, t}
      BY <2>5 DEF Replaces
    <3>5. QED
      BY <2>1, <2>2, <3>2, <3>3, <3>4 DEF NothingCountedTwice, CostState
  <2>6. QED
    BY <2>3, <2>4, <2>5, RecordSteps
<1>3. QED
  BY <1>1, <1>2, TypeCorrect, PTL DEF Spec

(* One process on the data directory: a server, or one run_client command. *)
OneProcess == \E w \in Worker : Worker = {w}

(* With one process and a readable file no recorded charge is lost or counted *)
(* twice, through failed writes, crashes, resets and changes of the day: what *)
(* record() saved is on disk, and the process knows at least what is on disk. *)
THEOREM AccountsKept ==
  ASSUME OneProcess, ~ReadFaults
  PROVE  Spec => []Accounting
<1>1. Init => Accounting
  BY DEF Init, CostInit, Accounting, SpendSurvives
<1>2. TypeOK /\ Accounting /\ [Next]_vars => Accounting'
  <2> SUFFICES ASSUME TypeOK, Accounting, [Next]_vars
               PROVE  Accounting'
    OBVIOUS
  <2>1. PICK w \in Worker : Worker = {w}
    BY DEF OneProcess
  <2>2. /\ cache[w] \in CostState \cup {Absent}
        /\ disk \in CostState \cup {Absent}
        /\ billed \in Nat /\ booked \in Nat
        /\ Absent \notin CostState
    BY AbsentAssumption DEF TypeOK, CostTypeOK
  <2>3. CASE UNCHANGED <<cache, disk, booked>> /\ billed' \in Nat /\ billed <= billed'
    BY <2>1, <2>2, <2>3 DEF Accounting, SpendSurvives, CostState
  <2>4. CASE \E v \in Worker : Forget(v) /\ UNCHANGED <<today, billed, booked>>
    BY <2>4, <2>1 DEF Accounting, SpendSurvives, Forget, TypeOK, CostTypeOK
  <2>5. ASSUME NEW s \in Loaded(w), NEW t \in CostState,
               NEW cost \in Costs \cup {0}, Replaces(w, s, t, cost)
        PROVE  Accounting'
    <3>1. PICK r \in CostState :
            /\ s = Rollover(r)
            /\ cache[w] # Absent => r = cache[w]
            /\ cache[w] = Absent => r = IF disk = Absent THEN EmptyState ELSE disk
      BY LoadedFrom DEF TypeOK, Stored
    <3>2. /\ s \in CostState /\ s.total <= billed
          /\ disk # Absent => disk.total <= s.total
          /\ cost \in Nat
      <4>1. /\ r.total <= billed
            /\ disk # Absent => disk.total <= r.total
        BY <2>2, <3>1 DEF Accounting, EmptyState, CostState
      <4>2. QED
        BY <3>1, <4>1, RolloverType, CostsType DEF TypeOK
    <3>3. /\ t.total = s.total + cost
          /\ billed' = billed + cost
          /\ cache'[w] = t
          /\ \/ disk' = disk /\ booked' = booked
             \/ disk' = t /\ booked' = booked + cost
      BY <2>5 DEF Replaces, TypeOK, CostTypeOK
    <3>4. CASE disk' = disk /\ booked' = booked
      BY <2>1, <2>2, <3>2, <3>3, <3>4 DEF Accounting, SpendSurvives, CostState
    <3>5. CASE disk' = t /\ booked' = booked + cost
      <4>1. booked <= s.total
        BY <2>2, <3>2 DEF Accounting, SpendSurvives, CostState
      <4>2. QED
        BY <2>1, <2>2, <3>2, <3>3, <3>5, <4>1 DEF Accounting, SpendSurvives, CostState
    <3>6. QED
      BY <3>3, <3>4, <3>5
  <2>6. QED
    BY <2>1, <2>3, <2>4, <2>5, RecordSteps
<1>3. QED
  BY <1>1, <1>2, TypeCorrect, PTL DEF Spec

----------------------------------------------------------------------------
(* No record is anchored in a day or a month that has not come yet. *)
AnchoredBy(s) == s # Absent => s.dailyAnchor <= today /\ s.monthlyAnchor <= MonthOf[today]

Anchored == AnchoredBy(disk) /\ \A w \in Worker : AnchoredBy(cache[w])

LEMMA TodayType ==
  ASSUME CostTypeOK
  PROVE  today \in 0..LastDay /\ today \in Nat /\ MonthOf[today] \in Nat
  BY CalendarAssumption DEF CostTypeOK

(* Rollover anchors a record in the present (_rollover_if_needed), so no       *)
(* process, on however many copies of the file, ever has one from the future. *)
THEOREM NeverFromTheFuture == Spec => []Anchored
<1>1. Init => Anchored
  BY DEF Init, CostInit, Anchored, AnchoredBy
<1>2. TypeOK /\ Anchored /\ [Next]_vars => Anchored'
  <2> SUFFICES ASSUME TypeOK, Anchored, [Next]_vars
               PROVE  Anchored'
    OBVIOUS
  <2>1. \A v \in Worker : cache[v] \in CostState \cup {Absent}
    BY DEF TypeOK, CostTypeOK
  <2>2. CostTypeOK /\ disk \in CostState \cup {Absent}
    BY DEF TypeOK, CostTypeOK
  <2>3. CASE UNCHANGED <<cache, disk>> /\ (today' = today \/ NewDay)
    <3>1. today <= today' /\ today' \in Nat /\ MonthOf[today] <= MonthOf[today'] /\ MonthOf[today'] \in Nat
      <4>1. CASE NewDay
        BY <2>2, <4>1, TodayType, CalendarAssumption DEF NewDay
      <4>2. QED
        BY <2>2, <2>3, <4>1, TodayType
    <3>2. QED
      BY <2>1, <2>2, <2>3, <3>1, TodayType DEF Anchored, AnchoredBy, CostState
  <2>4. CASE \E w \in Worker : Forget(w) /\ UNCHANGED <<today, billed, booked>>
    BY <2>4 DEF Anchored, AnchoredBy, Forget, TypeOK, CostTypeOK
  <2>5. ASSUME NEW w \in Worker, NEW s \in Loaded(w), NEW t \in CostState,
               NEW cost \in Costs \cup {0}, Replaces(w, s, t, cost)
        PROVE  Anchored'
    <3>1. s.dailyAnchor = today /\ s.monthlyAnchor = MonthOf[today]
      BY DEF Loaded, Rollover
    <3>2. today' = today /\ t.dailyAnchor <= today' /\ t.monthlyAnchor <= MonthOf[today']
      BY <2>2, <2>5, <3>1, TodayType DEF Replaces
    <3>3. /\ \A v \in Worker : cache'[v] = IF v = w THEN t ELSE cache[v]
          /\ disk' \in {disk, t}
      BY <2>5 DEF Replaces, TypeOK, CostTypeOK
    <3>4. QED
      BY <3>2, <3>3 DEF Anchored, AnchoredBy
  <2>6. QED
    BY <2>3, <2>4, <2>5, RecordSteps
<1>3. QED
  BY <1>1, <1>2, TypeCorrect, PTL DEF Spec

----------------------------------------------------------------------------
(* The record of the one process, as the next call would load it. *)
Rec == IF cache[TheWorker] = Absent THEN OnDisk ELSE cache[TheWorker]

(* What a record is worth on day d. *)
TotalsOn(s, d) ==
  [daily   |-> IF s.dailyAnchor = d THEN s.daily ELSE 0,
   monthly |-> IF s.monthlyAnchor = MonthOf[d] THEN s.monthly ELSE 0,
   total   |-> s.total]

LEMMA TotalsOfToday == \A s : Totals(s) = TotalsOn(s, today)
  BY DEF Totals, TotalsOn, Rollover

LEMMA TotalsOfTodayAfter == \A s : Totals(s)' = TotalsOn(s', today')
  BY DEF Totals, TotalsOn, Rollover

LEMMA TheWorkerIs == ASSUME OneProcess PROVE TheWorker \in Worker /\ Worker = {TheWorker}
  BY DEF OneProcess, TheWorker

LEMMA RecType == ASSUME TypeOK, OneProcess PROVE Rec \in CostState /\ OnDisk \in CostState
  BY EmptyStateType, TheWorkerIs DEF Rec, OnDisk, TypeOK, CostTypeOK

LEMMA LoadedIsRec ==
  ASSUME TypeOK, ~ReadFaults
  PROVE  Loaded(TheWorker) = {Rollover(Rec)}
  BY DEF Loaded, Stored, Rec, OnDisk

(* How what is done to a rolled-over record shows in its totals. *)
LEMMA TotalsOfRolled ==
  ASSUME CostTypeOK, NEW r \in CostState
  PROVE  /\ TotalsOn(Rollover(r), today) = TotalsOn(r, today)
         /\ \A cost : TotalsOn(AddCost(Rollover(r), cost), today) = Ledger!Charge(TotalsOn(r, today), cost)
         /\ TotalsOn(ClearDaily(Rollover(r)), today) = [TotalsOn(r, today) EXCEPT !.daily = 0]
         /\ TotalsOn(ClearMonthly(Rollover(r)), today) = [TotalsOn(r, today) EXCEPT !.monthly = 0]
         /\ Ledger!HasRoom(TotalsOn(r, today)) <=> ~OverBudget(Rollover(r))
<1>1. TotalsOn(Rollover(r), today) = TotalsOn(r, today)
  BY DEF TotalsOn, Rollover
<1>2. \A cost : TotalsOn(AddCost(Rollover(r), cost), today) = Ledger!Charge(TotalsOn(r, today), cost)
  BY DEF TotalsOn, Rollover, AddCost, Ledger!Charge
<1>3. /\ TotalsOn(ClearDaily(Rollover(r)), today) = [TotalsOn(r, today) EXCEPT !.daily = 0]
      /\ TotalsOn(ClearMonthly(Rollover(r)), today) = [TotalsOn(r, today) EXCEPT !.monthly = 0]
  BY DEF TotalsOn, Rollover, ClearDaily, ClearMonthly
<1>4. Ledger!HasRoom(TotalsOn(r, today)) <=> ~OverBudget(Rollover(r))
  <2>1. TotalsOn(r, today).daily = Rollover(r).daily /\ TotalsOn(r, today).monthly = Rollover(r).monthly
    BY DEF TotalsOn, Rollover
  <2>2. Rollover(r).daily \in Nat /\ Rollover(r).monthly \in Nat
    BY RolloverType DEF CostState
  <2>3. QED
    BY <2>1, <2>2, LimitAssumption DEF Ledger!HasRoom, OverBudget
<1>5. QED
  BY <1>1, <1>2, <1>3, <1>4

----------------------------------------------------------------------------
(* What the ledger shows of a step that changes one record, none, or drops one. *)
LEMMA RecAfter ==
  ASSUME TypeOK, OneProcess, NEW t \in CostState, cache' = [cache EXCEPT ![TheWorker] = t]
  PROVE  Rec' = t
  BY TheWorkerIs, AbsentAssumption DEF Rec, TypeOK, CostTypeOK

LEMMA KeptAfter ==
  ASSUME CostTypeOK, disk' = disk, today' = today
  PROVE  Totals(OnDisk)' = Totals(OnDisk)
  BY DEF Totals, OnDisk, Rollover, EmptyState

LEMMA RecKept ==
  ASSUME CostTypeOK, UNCHANGED <<today, cache, disk>>
  PROVE  Totals(Rec)' = Totals(Rec) /\ Totals(OnDisk)' = Totals(OnDisk)
  BY DEF Totals, Rec, OnDisk, Rollover, EmptyState

LEMMA RecLooked ==
  ASSUME TypeOK, OneProcess, ~ReadFaults, NEW s \in Loaded(TheWorker),
         Look(TheWorker, s), today' = today
  PROVE  Totals(Rec)' = Totals(Rec) /\ Totals(OnDisk)' = Totals(OnDisk)
<1>1. CostTypeOK /\ s = Rollover(Rec) /\ s \in CostState /\ Rec \in CostState
  BY LoadedIsRec, RecType, LoadedType, TheWorkerIs DEF TypeOK
<1>2. Rec' = s
  BY <1>1, RecAfter DEF Look
<1>3. Totals(Rec)' = Totals(Rec)
  BY <1>1, <1>2, TotalsOfToday, TotalsOfTodayAfter, TotalsOfRolled
<1>4. QED
  BY <1>1, <1>3, KeptAfter DEF Look

LEMMA RecForgotten ==
  ASSUME TypeOK, OneProcess, Forget(TheWorker), today' = today
  PROVE  Totals(Rec)' = Totals(OnDisk) /\ Totals(OnDisk)' = Totals(OnDisk)
<1>1. Rec' = OnDisk' /\ OnDisk' = OnDisk
  BY TheWorkerIs DEF Rec, OnDisk, Forget, EmptyState, TypeOK, CostTypeOK
<1>2. QED
  BY <1>1, TotalsOfToday, TotalsOfTodayAfter

LEMMA RecUpdated ==
  ASSUME TypeOK, OneProcess, NEW t \in CostState,
         cache' = [cache EXCEPT ![TheWorker] = t], disk' \in {disk, t}, today' = today
  PROVE  /\ Totals(Rec)' = TotalsOn(t, today)
         /\ Totals(OnDisk)' \in {Totals(OnDisk), Totals(Rec)'}
<1>1. Rec' = t
  BY RecAfter
<1>2. Totals(Rec)' = TotalsOn(t, today)
  BY <1>1, TotalsOfTodayAfter
<1>3. CASE disk' = disk
  BY <1>2, <1>3, KeptAfter DEF TypeOK
<1>4. CASE disk' = t
  <2>1. OnDisk' = t
    BY <1>4, AbsentAssumption DEF OnDisk
  <2>2. QED
    BY <1>1, <2>1, <1>2, TotalsOfTodayAfter
<1>5. QED
  BY <1>2, <1>3, <1>4

(* A new day empties what it must, and only that. *)
LEMMA Overnight ==
  ASSUME TypeOK, NEW r \in CostState, AnchoredBy(r), NewDay
  PROVE  TotalsOn(r, today') = Ledger!Overnight(TotalsOn(r, today))
<1>1. /\ today \in 0..LastDay /\ today + 1 \in 0..LastDay /\ today' = today + 1
      /\ MonthOf[today] \in Nat /\ MonthOf[today + 1] \in Nat
      /\ MonthOf[today] <= MonthOf[today + 1]
  BY CalendarAssumption DEF NewDay, TypeOK, CostTypeOK
<1>2. r.dailyAnchor <= today /\ r.monthlyAnchor <= MonthOf[today]
  BY AbsentAssumption DEF AnchoredBy
<1>3. r.dailyAnchor # today + 1
  BY <1>1, <1>2 DEF CostState
<1>4. r.monthlyAnchor = MonthOf[today + 1] =>
        MonthOf[today + 1] = MonthOf[today] /\ r.monthlyAnchor = MonthOf[today]
  BY <1>1, <1>2 DEF CostState
<1>5. QED
  BY <1>1, <1>3, <1>4 DEF TotalsOn, Ledger!Overnight

LEMMA DayTurned ==
  ASSUME TypeOK, OneProcess, Anchored, NewDay
  PROVE  /\ Totals(Rec)' = Ledger!Overnight(Totals(Rec))
         /\ Totals(OnDisk)' = Ledger!Overnight(Totals(OnDisk))
<1>1. \A r \in CostState : r # Absent
  BY AbsentAssumption
<1>2. Totals(OnDisk)' = Ledger!Overnight(Totals(OnDisk))
  <2>1. CASE disk = Absent
    <3>1. OnDisk = EmptyState /\ OnDisk' = EmptyState'
      BY <2>1 DEF OnDisk, NewDay
    <3>2. Totals(OnDisk) = Ledger!Zero /\ Totals(OnDisk)' = Ledger!Zero
      BY <3>1 DEF Totals, EmptyState, Rollover, Ledger!Zero
    <3>3. QED
      BY <3>2 DEF Ledger!Overnight, Ledger!Zero
  <2>2. CASE disk # Absent
    <3>1. OnDisk = disk /\ OnDisk' = disk /\ disk \in CostState /\ AnchoredBy(disk)
      BY <2>2 DEF OnDisk, NewDay, TypeOK, CostTypeOK, Anchored
    <3>2. QED
      BY <3>1, Overnight, TotalsOfToday, TotalsOfTodayAfter
  <2>3. QED
    BY <2>1, <2>2
<1>3. Totals(Rec)' = Ledger!Overnight(Totals(Rec))
  <2>1. CASE cache[TheWorker] = Absent
    <3>1. Rec = OnDisk /\ Rec' = OnDisk'
      BY <2>1 DEF Rec, NewDay
    <3>2. Totals(Rec)' = Totals(OnDisk)'
      BY <3>1, TotalsOfTodayAfter
    <3>3. QED
      BY <1>2, <3>1, <3>2
  <2>2. CASE cache[TheWorker] # Absent
    <3>1. Rec = cache[TheWorker] /\ Rec' = Rec /\ Rec \in CostState /\ AnchoredBy(Rec)
      BY <2>2, TheWorkerIs DEF Rec, NewDay, TypeOK, CostTypeOK, Anchored
    <3>2. QED
      BY <3>1, Overnight, TotalsOfToday, TotalsOfTodayAfter
  <2>3. QED
    BY <2>1, <2>2
<1>4. QED
  BY <1>2, <1>3

----------------------------------------------------------------------------
(* The steps of the ledger, in terms of the record and the analyses in flight. *)
Books == <<today, Totals(Rec), Totals(OnDisk), InFlight(TheWorker)>>

LEMMA LedgerStutters ==
  ASSUME Books' = Books
  PROVE  UNCHANGED Ledger!ledgerVars
  BY DEF Books, Rec, Ledger!ledgerVars

LEMMA LedgerAdmits ==
  ASSUME NEW a \in Alert, a \notin InFlight(TheWorker), Ledger!HasRoom(Totals(Rec)),
         InFlight(TheWorker)' = InFlight(TheWorker) \cup {a},
         today' = today, Totals(Rec)' = Totals(Rec), Totals(OnDisk)' = Totals(OnDisk)
  PROVE  Ledger!Next
  BY DEF Ledger!Next, Ledger!Admit, Rec

LEMMA LedgerSettles ==
  ASSUME NEW a \in Alert, NEW cost \in Costs, a \in InFlight(TheWorker),
         InFlight(TheWorker)' = InFlight(TheWorker) \ {a}, today' = today,
         Totals(Rec)' = Ledger!Charge(Totals(Rec), cost),
         Totals(OnDisk)' \in {Totals(OnDisk), Totals(Rec)'}
  PROVE  Ledger!Next
  BY DEF Ledger!Next, Ledger!Settle, Rec

LEMMA LedgerAbandons ==
  ASSUME NEW a \in Alert, a \in InFlight(TheWorker),
         InFlight(TheWorker)' = InFlight(TheWorker) \ {a},
         today' = today, Totals(Rec)' = Totals(Rec), Totals(OnDisk)' = Totals(OnDisk)
  PROVE  Ledger!Next
  BY DEF Ledger!Next, Ledger!Abandon, Rec

LEMMA LedgerClears ==
  ASSUME Totals(Rec)' \in {[Totals(Rec) EXCEPT !.daily = 0], [Totals(Rec) EXCEPT !.monthly = 0]},
         Totals(OnDisk)' \in {Totals(OnDisk), Totals(Rec)'},
         today' = today, InFlight(TheWorker)' = InFlight(TheWorker)
  PROVE  Ledger!Next
  BY DEF Ledger!Next, Ledger!Clear, Rec

LEMMA LedgerRestarts ==
  ASSUME Totals(Rec)' = Totals(OnDisk), Totals(OnDisk)' = Totals(OnDisk),
         today' = today, InFlight(TheWorker)' = {}
  PROVE  Ledger!Next
  BY DEF Ledger!Next, Ledger!Restart, Rec

LEMMA LedgerTurnsDay ==
  ASSUME NewDay, Totals(Rec)' = Ledger!Overnight(Totals(Rec)),
         Totals(OnDisk)' = Ledger!Overnight(Totals(OnDisk)),
         InFlight(TheWorker)' = InFlight(TheWorker)
  PROVE  Ledger!Next
  BY DEF Ledger!Next, Ledger!NextDay, NewDay, Rec

(* A failure sends the analysis on to another backend, where it stays open, or *)
(* ends it without a charge. *)
LEMMA LedgerAtFailover ==
  ASSUME TypeOK, OneProcess, NEW a \in Alert, phase[a] = "calling",
         Advance(at[a], a, backend[a]), UNCHANGED costVars
  PROVE  [Ledger!Next]_(Ledger!ledgerVars)
<1>1. /\ at[a] = TheWorker /\ TheWorker \in Worker /\ a \in InFlight(TheWorker)
      /\ TaskTypeOK /\ CostTypeOK
  BY TheWorkerIs DEF TypeOK, TaskTypeOK, InFlight, InFlightPhase
<1>2. today' = today /\ Totals(Rec)' = Totals(Rec) /\ Totals(OnDisk)' = Totals(OnDisk)
  BY <1>1, RecKept DEF costVars
<1>3. CASE Fail(at[a], a)
  <2>1. InFlight(TheWorker)' = InFlight(TheWorker) \ {a}
    BY <1>1, <1>3, FailInFlight
  <2>2. QED
    BY <1>1, <1>2, <2>1, LedgerAbandons
<1>4. CASE \E j \in Later(backend[a]) : Send(at[a], a, j)
  <2>1. InFlight(TheWorker)' = InFlight(TheWorker)
    BY <1>1, <1>4, SendInFlight
  <2>2. QED
    BY <1>2, <2>1, LedgerStutters DEF Books
<1>5. QED
  BY <1>3, <1>4 DEF Advance

(* analyze() up to its first await: it is admitted, or the ledger stays as it is. *)
LEMMA LedgerAtBegin ==
  ASSUME TypeOK, OneProcess, ~ReadFaults, ~ConfigFaults,
         NEW a \in Alert, a \notin InFlight(TheWorker), Begin(TheWorker, a)
  PROVE  [Ledger!Next]_(Ledger!ledgerVars)
<1>1. TaskTypeOK /\ CostTypeOK /\ TheWorker \in Worker /\ Rec \in CostState
  BY TheWorkerIs, RecType DEF TypeOK
<1>2. PICK s \in Loaded(TheWorker) :
        /\ Look(TheWorker, s)
        /\ Fail(TheWorker, a) \/ (Admissible(s) /\ Advance(TheWorker, a, 0))
  BY DEF Begin
<1>3. today' = today /\ Totals(Rec)' = Totals(Rec) /\ Totals(OnDisk)' = Totals(OnDisk)
  BY <1>2, RecLooked DEF Begin
<1>4. CASE Fail(TheWorker, a)
  <2>1. InFlight(TheWorker)' = InFlight(TheWorker)
    BY <1>1, <1>4, FailInFlight
  <2>2. QED
    BY <1>3, <2>1, LedgerStutters DEF Books
<1>5. CASE Admissible(s) /\ \E j \in Later(0) : Send(TheWorker, a, j)
  <2>1. InFlight(TheWorker)' = InFlight(TheWorker) \cup {a}
    BY <1>1, <1>5, SendInFlight
  <2>2. Ledger!HasRoom(Totals(Rec))
    <3>1. s = Rollover(Rec) /\ ~OverBudget(s)
      BY <1>5, LoadedIsRec DEF Admissible
    <3>2. QED
      BY <1>1, <3>1, TotalsOfToday, TotalsOfRolled
  <2>3. QED
    BY <1>3, <2>1, <2>2, LedgerAdmits
<1>6. QED
  BY <1>2, <1>4, <1>5 DEF Advance

(* A response settles an open analysis; one that costs nothing abandons it. *)
LEMMA LedgerAtResponse ==
  ASSUME TypeOK, OneProcess, ~ReadFaults, NEW a \in Alert, NEW cost \in Costs, Respond(a, cost)
  PROVE  [Ledger!Next]_(Ledger!ledgerVars)
<1>1. /\ at[a] = TheWorker /\ TheWorker \in Worker /\ a \in InFlight(TheWorker)
      /\ TaskTypeOK /\ CostTypeOK /\ cost \in Nat /\ Rec \in CostState
  BY TheWorkerIs, RecType, CostsType DEF Respond, TypeOK, TaskTypeOK, InFlight, InFlightPhase
<1>2. InFlight(TheWorker)' = InFlight(TheWorker) \ {a}
  <2>1. PICK o \in Answer : End(a, o)
    BY DEF Respond, Fail, Answer
  <2>2. QED
    BY <1>1, <2>1, EndInFlight
<1>3. CASE cost = 0
  <2>1. today' = today /\ Totals(Rec)' = Totals(Rec) /\ Totals(OnDisk)' = Totals(OnDisk)
    BY <1>1, <1>3, RecKept DEF Respond
  <2>2. QED
    BY <1>1, <1>2, <2>1, LedgerAbandons
<1>4. CASE cost > 0
  <2>1. PICK s \in Loaded(TheWorker) :
          /\ cache' = [cache EXCEPT ![TheWorker] = AddCost(s, cost)]
          /\ disk' \in {disk, AddCost(s, cost)}
    BY <1>1, <1>4 DEF Respond, Update
  <2>2. s = Rollover(Rec) /\ AddCost(s, cost) \in CostState
    BY <1>1, LoadedIsRec, RolloverType, ChargedType
  <2>3. today' = today
    BY DEF Respond
  <2>4. /\ Totals(Rec)' = Ledger!Charge(Totals(Rec), cost)
        /\ Totals(OnDisk)' \in {Totals(OnDisk), Totals(Rec)'}
    BY <1>1, <2>1, <2>2, <2>3, RecUpdated, TotalsOfToday, TotalsOfRolled
  <2>5. QED
    BY <1>1, <1>2, <2>3, <2>4, LedgerSettles
<1>5. QED
  BY <1>1, <1>3, <1>4

LEMMA LedgerAtReset ==
  ASSUME TypeOK, OneProcess, ~ReadFaults, NEW written \in BOOLEAN,
         ResetDaily(TheWorker, written) \/ ResetMonthly(TheWorker, written)
  PROVE  [Ledger!Next]_(Ledger!ledgerVars)
<1>1. CostTypeOK /\ Rec \in CostState
  BY RecType DEF TypeOK
<1>2. PICK s \in Loaded(TheWorker) :
        Update(TheWorker, ClearDaily(s), written) \/ Update(TheWorker, ClearMonthly(s), written)
  BY DEF ResetDaily, ResetMonthly
<1>3. PICK t \in {ClearDaily(s), ClearMonthly(s)} : Update(TheWorker, t, written)
  BY <1>2
<1>4. s = Rollover(Rec) /\ t \in CostState
  BY <1>1, <1>3, LoadedIsRec, RolloverType, ClearedType
<1>5. today' = today /\ InFlight(TheWorker)' = InFlight(TheWorker)
  BY DEF ResetDaily, ResetMonthly, taskVars, InFlight
<1>6. cache' = [cache EXCEPT ![TheWorker] = t] /\ disk' \in {disk, t}
  BY <1>3 DEF Update
<1>7. TotalsOn(t, today) \in {[Totals(Rec) EXCEPT !.daily = 0], [Totals(Rec) EXCEPT !.monthly = 0]}
  BY <1>1, <1>3, <1>4, TotalsOfToday, TotalsOfRolled
<1>8. QED
  BY <1>4, <1>5, <1>6, <1>7, RecUpdated, LedgerClears

(* When the process ends, by itself or not, nothing is open any more. *)
LEMMA NothingInFlight ==
  ASSUME TypeOK, BudgetInv, NEW w \in Worker, BatchReturns(w) \/ Crash(w)
  PROVE  InFlight(w)' = {}
<1>1. CASE BatchReturns(w)
  BY <1>1 DEF BatchReturns, InFlight, InFlightPhase, Answer, BudgetInv
<1>2. CASE Crash(w)
  BY <1>2, ProcessAssumption DEF Crash, InFlight, InFlightPhase, TypeOK, TaskTypeOK
<1>3. QED
  BY <1>1, <1>2

(* Every step of the one process is a step of the ledger, or leaves it as it is. *)
LEMMA LedgerStep ==
  ASSUME OneProcess, ~ReadFaults, ~ConfigFaults,
         TypeOK, BudgetInv, Anchored, [Next]_vars
  PROVE  [Ledger!Next]_(Ledger!ledgerVars)
<1> DEFINE Goal == [Ledger!Next]_(Ledger!ledgerVars)
<1>1. /\ Worker = {TheWorker} /\ CostTypeOK /\ TaskTypeOK
      /\ \A a \in Alert : at[a] \in {TheWorker, Nobody}
  BY TheWorkerIs DEF TypeOK, TaskTypeOK
<1>2. ASSUME UNCHANGED costVars, InFlight(TheWorker)' = InFlight(TheWorker)
      PROVE  Goal
  BY <1>1, <1>2, RecKept, LedgerStutters DEF Books, costVars
<1>3. ASSUME NEW a \in Alert, Request(TheWorker, a)
      PROVE  Goal
  BY <1>3, LedgerAtBegin DEF Request, InFlight, InFlightPhase
<1>4. ASSUME NEW a \in Alert, RequestDryRun(TheWorker, a)
      PROVE  Goal
  <2>1. PICK o \in Answer : End(a, o)
    BY <1>4 DEF RequestDryRun, Fail, Answer
  <2>2. a \notin InFlight(TheWorker)
    BY <1>4 DEF RequestDryRun, InFlight, InFlightPhase
  <2>3. InFlight(TheWorker)' = InFlight(TheWorker)
    BY <1>1, <2>1, <2>2, EndInFlight
  <2>4. today' = today /\ Totals(Rec)' = Totals(Rec) /\ Totals(OnDisk)' = Totals(OnDisk)
    BY <1>4, RecLooked DEF RequestDryRun
  <2>5. QED
    BY <2>3, <2>4, LedgerStutters DEF Books
<1>5. ASSUME NEW a \in Alert, Acquire(a)
      PROVE  Goal
  <2>1. at[a] = TheWorker /\ a \notin InFlight(TheWorker)
    BY <1>1, <1>5 DEF Acquire, InFlight, InFlightPhase, TaskTypeOK
  <2>2. QED
    BY <1>5, <2>1, LedgerAtBegin DEF Acquire
<1>6. ASSUME NEW a \in Alert, NEW cost \in Costs, Respond(a, cost)
      PROVE  Goal
  BY <1>6, LedgerAtResponse
<1>7. ASSUME NEW a \in Alert,
             BackendFails(a) \/ \E cost \in Costs : RespondUnusable(a, cost)
      PROVE  Goal
  BY <1>7, LedgerAtFailover DEF BackendFails, RespondUnusable
<1>8. ASSUME NEW a \in Alert, NextAlert(a) \/ RetryLater(a) \/ Retry(a)
      PROVE  Goal
  <2>1. InFlight(TheWorker)' = InFlight(TheWorker)
    BY <1>1, <1>8 DEF NextAlert, RetryLater, Retry, InFlight, InFlightPhase, Answer, TaskTypeOK
  <2>2. QED
    BY <1>2, <1>8, <2>1 DEF NextAlert, RetryLater, Retry
<1>9. ASSUME NEW B \in SUBSET Alert, SubmitBatch(TheWorker, B)
      PROVE  Goal
  <2>1. InFlight(TheWorker)' = InFlight(TheWorker)
    BY <1>1, <1>9 DEF SubmitBatch, InFlight, InFlightPhase, TaskTypeOK
  <2>2. QED
    BY <1>2, <1>9, <2>1 DEF SubmitBatch
<1>10. ASSUME BatchReturns(TheWorker) \/ Crash(TheWorker)
       PROVE  Goal
  <2>1. InFlight(TheWorker)' = {}
    BY <1>1, <1>10, NothingInFlight
  <2>2. Forget(TheWorker) /\ today' = today
    BY <1>10 DEF BatchReturns, Crash
  <2>3. QED
    BY <2>1, <2>2, RecForgotten, LedgerRestarts
<1>11. ASSUME GetSpend(TheWorker)
       PROVE  Goal
  <2>1. today' = today /\ Totals(Rec)' = Totals(Rec) /\ Totals(OnDisk)' = Totals(OnDisk)
    BY <1>11, RecLooked DEF GetSpend
  <2>2. QED
    BY <1>11, <2>1, LedgerStutters DEF Books, GetSpend, taskVars, InFlight
<1>12. ASSUME NEW written \in BOOLEAN, ResetDaily(TheWorker, written) \/ ResetMonthly(TheWorker, written)
       PROVE  Goal
  BY <1>12, LedgerAtReset
<1>13. CASE NewDay
  BY <1>13, DayTurned, LedgerTurnsDay DEF NewDay, taskVars, InFlight
<1>14. CASE UNCHANGED vars
  BY <1>2, <1>14 DEF vars, costVars, taskVars, InFlight
<1>15. QED
  BY <1>1, <1>3, <1>4, <1>5, <1>6, <1>7, <1>8, <1>9, <1>10, <1>11, <1>12, <1>13, <1>14
  DEF Next, Provider

LEMMA LedgerInit == ASSUME OneProcess, Init PROVE Ledger!Init
<1>1. cache[TheWorker] = Absent /\ disk = Absent /\ today = 0
  BY TheWorkerIs DEF Init, CostInit
<1>2. InFlight(TheWorker) = {}
  BY DEF Init, InFlight, InFlightPhase
<1>3. Totals(OnDisk) = Ledger!Zero
  BY <1>1 DEF Totals, OnDisk, EmptyState, Rollover, Ledger!Zero
<1>4. QED
  BY <1>1, <1>2, <1>3 DEF Ledger!Init

(* One process with a readable file and a readable configuration implements the *)
(* eager ledger: an analysis is only admitted while both budgets have room,     *)
(* every charge counts once, in the day and month it is made, and a restart     *)
(* brings back all that was saved (check_limit, record and _rollover_if_needed  *)
(* of src/cost_controller.py, called around the awaits of analyze()). *)
THEOREM LedgerImplemented ==
  ASSUME OneProcess, ~ReadFaults, ~ConfigFaults
  PROVE  Spec => ImplementsLedger
<1>1. Init => Ledger!Init
  BY LedgerInit
<1>2. TypeOK /\ BudgetInv /\ Anchored /\ [Next]_vars => [Ledger!Next]_(Ledger!ledgerVars)
  BY LedgerStep
<1>3. QED
  BY <1>1, <1>2, TypeCorrect, BudgetKept, NeverFromTheFuture, PTL
  DEF Spec, ImplementsLedger, Ledger!Spec

==============================================================================
