------------------------- MODULE TriageCycleProofs -------------------------
(***************************************************************************)
(* What holds of the runs of run_client for any number of them, any alerts *)
(* and any retry settings.                                                 *)
(***************************************************************************)
EXTENDS TriageCycle, FiniteSetTheorems, TLAPS

(* What with_retry sleeps next is bounded like what it sleeps, and a run has   *)
(* judged nothing before it has fetched. *)
CycleInv ==
  /\ TypeOK
  /\ \A p \in Run : delay[p] <= Cap
  /\ found \in [Run -> SUBSET Alert] /\ judged \in [Run -> SUBSET Alert]
  /\ \A p \in Run : pc[p] \in {"idle"} \cup Asking => judged[p] = {}

----------------------------------------------------------------------------
(* The settings are numbers, and so is the longest sleep. *)
LEMMA Settings ==
  /\ MaxAttempts \in Nat /\ MaxAttempts >= 1
  /\ InitialDelay \in Nat /\ MaxDelay \in Nat /\ Factor \in Nat /\ RetryAfter \subseteq Nat
  /\ Cap \in Nat /\ InitialDelay <= Cap /\ MaxDelay <= Cap
  /\ MaxAlerts \in Nat /\ MaxRuns \in Nat /\ MaxTime \in Nat
BY SearchAssumption, RetryAssumption, CycleBoundAssumption DEF Cap

(* The smaller of two numbers. *)
LEMMA AtMostOf ==
  ASSUME NEW n \in Nat, NEW bound \in Nat
  PROVE  AtMost(n, bound) \in Nat /\ AtMost(n, bound) <= bound
BY DEF AtMost

(* The alerts that were raised are the first ones. *)
LEMMA RaisedAre ==
  ASSUME TypeOK
  PROVE  \E n \in 0..MaxAlerts : Raised = 1..n /\ Cardinality(Raised) = n
<1>1. PICK n \in 0..MaxAlerts : raisedAt \in [1..n -> 0..MaxTime]
  BY DEF TypeOK
<1>2. n \in Nat
  BY Settings
<1>3. Raised = 1..n
  BY <1>1 DEF Raised
<1>4. Cardinality(1..n) = n
  BY <1>2, FS_Interval
<1>5. QED
  BY <1>3, <1>4

(* What a search returns are open alerts, and what is made of it too. *)
LEMMA PagesAreOpen ==
  ASSUME NEW rows \in Pages
  PROVE  Parsed(rows) \subseteq open
BY DEF Pages, ElkPages, Newest, SplunkPages, ElkMatching, SplunkMatching, Parsed, ElkParsed,
       SplunkParsed

(* One process moves, and the others stay where they are. *)
LEMMA OneMoves ==
  ASSUME CycleInv, NEW p \in Run, UNCHANGED siemVars,
         NEW to \in {"idle", "analyze", "send"} \cup Asking,
         NEW tries \in 0..MaxAttempts, NEW next \in Nat, NEW sleep \in (-1)..Cap,
         NEW left \in SUBSET Raised, NEW over \in SUBSET Raised, NEW exit \in Exit,
         pc' = [pc EXCEPT ![p] = to], attempt' = [attempt EXCEPT ![p] = tries],
         delay' = [delay EXCEPT ![p] = next], wait' = [wait EXCEPT ![p] = sleep],
         found' = [found EXCEPT ![p] = left], judged' = [judged EXCEPT ![p] = over],
         code' = [code EXCEPT ![p] = exit], runs' \in 0..MaxRuns,
         next <= Cap, sleep >= 0 => to \in Asking /\ tries < MaxAttempts,
         left \cap over = {}, to \in {"idle"} \cup Asking => over = {}
  PROVE  CycleInv'
<1>1. UNCHANGED <<siem, now, raisedAt, open, degraded>>
  BY DEF siemVars
<1>2. Raised' = Raised /\ Raised \subseteq Alert
  BY <1>1, RaisedAre, Settings DEF CycleInv, Raised, Alert
<1>3. /\ pc' \in [Run -> {"idle", "analyze", "send"} \cup Asking]
      /\ attempt' \in [Run -> 0..MaxAttempts] /\ delay' \in [Run -> Nat]
      /\ wait' \in [Run -> (-1)..Cap] /\ code' \in [Run -> Exit]
  BY DEF CycleInv, TypeOK
<1>4. found' \in [Run -> SUBSET Alert] /\ judged' \in [Run -> SUBSET Alert]
  BY <1>2 DEF CycleInv
<1>5. ASSUME NEW q \in Run
      PROVE  /\ wait'[q] >= 0 => pc'[q] \in Asking /\ attempt'[q] < MaxAttempts
             /\ found'[q] \cup judged'[q] \subseteq Raised
             /\ found'[q] \cap judged'[q] = {}
             /\ delay'[q] <= Cap
             /\ pc'[q] \in {"idle"} \cup Asking => judged'[q] = {}
  <2>1. CASE q = p
    BY <2>1 DEF CycleInv, TypeOK
  <2>2. CASE q # p
    BY <2>2 DEF CycleInv, TypeOK
  <2>3. QED
    BY <2>1, <2>2
<1>6. TypeOK'
  <2>1. \E n \in 0..MaxAlerts : raisedAt' \in [1..n -> 0..MaxTime]
    BY <1>1 DEF CycleInv, TypeOK
  <2>2. /\ siem' \in Siem /\ now' \in 0..MaxTime /\ open' \subseteq Raised'
        /\ degraded' \in BOOLEAN
    BY <1>1, <1>2 DEF CycleInv, TypeOK
  <2>3. QED
    BY <1>2, <1>3, <1>5, <2>1, <2>2 DEF TypeOK
<1>7. QED
  BY <1>4, <1>5, <1>6 DEF CycleInv

(* A run ends. *)
LEMMA LeaveKeeps ==
  ASSUME CycleInv, NEW p \in Run, NEW c \in Exit, Leave(p, c), UNCHANGED siemVars
  PROVE  CycleInv'
<1>1. /\ 0 \in 0..MaxAttempts /\ 0 \in Nat /\ -1 \in (-1)..Cap /\ 0 <= Cap /\ ~(-1 >= 0)
      /\ {} \in SUBSET Raised /\ runs' \in 0..MaxRuns
  BY Settings DEF Leave, CycleInv, TypeOK
<1>2. QED
  BY <1>1, OneMoves DEF Leave

(* An operation of the connector begins. *)
LEMMA AskKeeps ==
  ASSUME CycleInv, NEW p \in Run, NEW operation \in Asking, Ask(p, operation),
         runs' \in 0..MaxRuns, UNCHANGED siemVars, pc[p] \in {"idle"} \cup Asking
  PROVE  CycleInv'
<1>1. /\ 1 \in 0..MaxAttempts /\ -1 \in (-1)..Cap /\ ~(-1 >= 0) /\ "none" \in Exit
      /\ InitialDelay \in Nat /\ InitialDelay <= Cap
  BY Settings DEF Exit
<1>2. /\ found[p] \in SUBSET Raised /\ judged[p] = {} /\ judged[p] \in SUBSET Raised
      /\ found' = [found EXCEPT ![p] = found[p]]
      /\ judged' = [judged EXCEPT ![p] = judged[p]]
  BY DEF CycleInv, TypeOK, Ask
<1>3. /\ operation \in {"idle", "analyze", "send"} \cup Asking
      /\ found[p] \cap judged[p] = {}
  BY <1>2
<1>4. /\ pc' = [pc EXCEPT ![p] = operation] /\ attempt' = [attempt EXCEPT ![p] = 1]
      /\ delay' = [delay EXCEPT ![p] = InitialDelay]
      /\ wait' = [wait EXCEPT ![p] = -1] /\ code' = [code EXCEPT ![p] = "none"]
  BY DEF Ask
<1>5. QED
  BY <1>1, <1>2, <1>3, <1>4, OneMoves

(* with_retry sleeps, or gives up. *)
LEMMA SleepKeeps ==
  ASSUME CycleInv, NEW p \in Run, Out(p), NEW s \in Nat, s <= Cap,
         NEW d \in Nat, d <= Cap, SleepOrGiveUp(p, s, d), UNCHANGED siemVars
  PROVE  CycleInv'
<1>1. CASE attempt[p] < MaxAttempts /\ Sleep(p, s, d)
  <2>1. /\ pc[p] \in Asking /\ pc[p] \in {"idle", "analyze", "send"} \cup Asking
        /\ attempt[p] \in 0..MaxAttempts /\ s \in (-1)..Cap /\ runs \in 0..MaxRuns
        /\ found[p] \in SUBSET Raised /\ judged[p] \in SUBSET Raised
        /\ found[p] \cap judged[p] = {} /\ judged[p] = {} /\ code[p] \in Exit
    BY Settings DEF Out, CycleInv, TypeOK
  <2>2. /\ pc' = [pc EXCEPT ![p] = pc[p]] /\ attempt' = [attempt EXCEPT ![p] = attempt[p]]
        /\ found' = [found EXCEPT ![p] = found[p]]
        /\ judged' = [judged EXCEPT ![p] = judged[p]]
        /\ code' = [code EXCEPT ![p] = code[p]] /\ runs' = runs
        /\ wait' = [wait EXCEPT ![p] = s] /\ delay' = [delay EXCEPT ![p] = d]
    BY <1>1 DEF Sleep, CycleInv, TypeOK
  <2>3. QED
    BY <1>1, <2>1, <2>2, OneMoves
<1>2. CASE Exhausted(p)
  BY <1>2, LeaveKeeps DEF Exhausted, Exit
<1>3. QED
  BY <1>1, <1>2 DEF SleepOrGiveUp

(* A request is answered, or times out. *)
LEMMA AnsweredKeeps ==
  ASSUME CycleInv, NEW p \in Run, Answered(p)
  PROVE  CycleInv'
<1>1. delay[p] \in Nat /\ delay[p] <= Cap
  BY DEF CycleInv, TypeOK
<1>2. CASE RateLimited(p)
  <2>1. PICK asked \in RetryAfter \cup {delay[p]} :
          SleepOrGiveUp(p, AtMost(asked, MaxDelay), delay[p])
    BY <1>2 DEF RateLimited
  <2>2. AtMost(asked, MaxDelay) \in Nat /\ AtMost(asked, MaxDelay) <= MaxDelay
    BY <1>1, AtMostOf, Settings
  <2>3. AtMost(asked, MaxDelay) <= Cap
    BY <2>2, Settings
  <2>4. QED
    BY <1>1, <1>2, <2>1, <2>2, <2>3, SleepKeeps DEF RateLimited
<1>3. CASE Transient(p)
  <2>1. PICK s \in (delay[p] \div 2)..delay[p] :
          SleepOrGiveUp(p, s, AtMost(delay[p] * Factor, MaxDelay))
    BY <1>3 DEF Transient
  <2>2. s \in Nat /\ s <= Cap
    BY <1>1, <2>1, Settings
  <2>3. delay[p] * Factor \in Nat
    BY <1>1, Settings
  <2>4. /\ AtMost(delay[p] * Factor, MaxDelay) \in Nat
        /\ AtMost(delay[p] * Factor, MaxDelay) <= MaxDelay
    BY <2>3, AtMostOf, Settings
  <2>5. AtMost(delay[p] * Factor, MaxDelay) <= Cap
    BY <2>4, Settings
  <2>6. QED
    BY <1>3, <2>1, <2>2, <2>4, <2>5, SleepKeeps DEF Transient
<1>4. CASE Refused(p) \/ Garbled(p)
  BY <1>4, LeaveKeeps DEF Refused, Garbled, Exit
<1>5. CASE SplunkHealthy(p) \/ ElkHealthy(p)
  <2>1. /\ pc[p] \in {"idle"} \cup Asking /\ UNCHANGED siemVars
        /\ (Ask(p, "fetch") /\ UNCHANGED runs) \/ Leave(p, "unreachable")
    BY <1>5 DEF SplunkHealthy, ElkHealthy, Out
  <2>2. runs \in 0..MaxRuns /\ "fetch" \in Asking /\ "unreachable" \in Exit
    BY DEF CycleInv, TypeOK, Asking, Exit
  <2>3. QED
    BY <2>1, <2>2, AskKeeps, LeaveKeeps
<1>6. CASE Fetched(p)
  <2>1. PICK rows \in Pages :
          IF Parsed(rows) = {}
            THEN Leave(p, "done")
            ELSE /\ found' = [found EXCEPT ![p] = Parsed(rows)]
                 /\ pc' = [pc EXCEPT ![p] = "analyze"]
                 /\ attempt' = [attempt EXCEPT ![p] = 0]
                 /\ delay' = [delay EXCEPT ![p] = 0]
                 /\ UNCHANGED <<wait, judged, code, runs>>
    BY <1>6 DEF Fetched
  <2>2. UNCHANGED siemVars /\ wait[p] = -1 /\ pc[p] \in Asking
    BY <1>6 DEF Fetched, Out
  <2>3. CASE Leave(p, "done")
    BY <2>2, <2>3, LeaveKeeps DEF Exit
  <2>4. CASE /\ found' = [found EXCEPT ![p] = Parsed(rows)]
             /\ pc' = [pc EXCEPT ![p] = "analyze"]
             /\ attempt' = [attempt EXCEPT ![p] = 0]
             /\ delay' = [delay EXCEPT ![p] = 0]
             /\ UNCHANGED <<wait, judged, code, runs>>
    <3>1. /\ Parsed(rows) \in SUBSET Raised /\ judged[p] = {} /\ judged[p] \in SUBSET Raised
          /\ Parsed(rows) \cap judged[p] = {}
          /\ code[p] \in Exit /\ wait' = [wait EXCEPT ![p] = -1]
          /\ judged' = [judged EXCEPT ![p] = judged[p]]
          /\ code' = [code EXCEPT ![p] = code[p]] /\ runs' \in 0..MaxRuns
      BY <2>2, <2>4, PagesAreOpen DEF CycleInv, TypeOK
    <3>2. /\ 0 \in 0..MaxAttempts /\ 0 \in Nat /\ -1 \in (-1)..Cap /\ ~(-1 >= 0) /\ 0 <= Cap
          /\ "analyze" \in {"idle", "analyze", "send"} \cup Asking
          /\ "analyze" \notin {"idle"} \cup Asking
      BY Settings DEF Asking
    <3>3. PICK left \in SUBSET Raised :
            left \cap judged[p] = {} /\ found' = [found EXCEPT ![p] = left]
      BY <2>4, <3>1
    <3>4. /\ pc' = [pc EXCEPT ![p] = "analyze"] /\ attempt' = [attempt EXCEPT ![p] = 0]
          /\ delay' = [delay EXCEPT ![p] = 0]
      BY <2>4
    <3>5. QED
      BY <2>2, <3>1, <3>2, <3>3, <3>4, OneMoves
  <2>5. QED
    BY <2>1, <2>3, <2>4
<1>7. QED
  BY <1>2, <1>3, <1>4, <1>5, <1>6 DEF Answered

(* A sleep ends, an analysis ends, the results are sent. *)
LEMMA ProceedKeeps ==
  ASSUME CycleInv, NEW p \in Run, Proceed(p)
  PROVE  CycleInv'
<1>1. CASE AskAgain(p)
  <2>1. /\ wait[p] >= 0 /\ pc[p] \in Asking /\ attempt[p] < MaxAttempts
        /\ attempt[p] \in 0..MaxAttempts /\ delay[p] \in Nat /\ delay[p] <= Cap
        /\ found[p] \in SUBSET Raised /\ judged[p] \in SUBSET Raised
        /\ found[p] \cap judged[p] = {} /\ judged[p] = {} /\ code[p] \in Exit
        /\ pc[p] \in {"idle", "analyze", "send"} \cup Asking /\ runs \in 0..MaxRuns
    BY <1>1 DEF AskAgain, CycleInv, TypeOK
  <2>2. /\ pc' = [pc EXCEPT ![p] = pc[p]]
        /\ attempt' = [attempt EXCEPT ![p] = attempt[p] + 1]
        /\ delay' = [delay EXCEPT ![p] = delay[p]] /\ wait' = [wait EXCEPT ![p] = -1]
        /\ found' = [found EXCEPT ![p] = found[p]]
        /\ judged' = [judged EXCEPT ![p] = judged[p]]
        /\ code' = [code EXCEPT ![p] = code[p]] /\ runs' = runs /\ UNCHANGED siemVars
    BY <1>1 DEF AskAgain, CycleInv, TypeOK
  <2>3. attempt[p] + 1 \in 0..MaxAttempts /\ -1 \in (-1)..Cap /\ ~(-1 >= 0)
    BY <2>1, Settings
  <2>4. QED
    BY <2>1, <2>2, <2>3, OneMoves
<1>2. ASSUME NEW a \in Alert, Analyze(p, a)
      PROVE  CycleInv'
  <2> DEFINE left == found[p] \ {a}
             over == judged[p] \cup {a}
             to == IF left = {} THEN "send" ELSE "analyze"
  <2>1. /\ attempt[p] \in 0..MaxAttempts /\ delay[p] \in Nat /\ delay[p] <= Cap
        /\ wait[p] \in (-1)..Cap /\ code[p] \in Exit /\ runs \in 0..MaxRuns
        /\ wait[p] >= 0 => pc[p] \in Asking
    BY DEF CycleInv, TypeOK
  <2>2. pc[p] = "analyze" /\ "analyze" \notin {"idle"} \cup Asking
        /\ "send" \notin {"idle"} \cup Asking
    BY <1>2 DEF Analyze, Asking
  <2>3. left \in SUBSET Raised /\ over \in SUBSET Raised /\ left \cap over = {}
    BY <1>2 DEF Analyze, CycleInv, TypeOK
  <2>4. /\ found' = [found EXCEPT ![p] = left] /\ judged' = [judged EXCEPT ![p] = over]
        /\ pc' = [pc EXCEPT ![p] = to]
    BY <1>2 DEF Analyze, CycleInv
  <2>5. /\ attempt' = [attempt EXCEPT ![p] = attempt[p]]
        /\ delay' = [delay EXCEPT ![p] = delay[p]]
        /\ wait' = [wait EXCEPT ![p] = wait[p]]
        /\ code' = [code EXCEPT ![p] = code[p]] /\ runs' = runs /\ UNCHANGED siemVars
    BY <1>2 DEF Analyze, callVars, CycleInv, TypeOK
  <2>6. ~(wait[p] >= 0)
    BY <2>1, <2>2
  <2>7. to \in {"idle", "analyze", "send"} \cup Asking /\ to \notin {"idle"} \cup Asking
    BY <2>2
  <2> HIDE DEF left, over, to
  <2>8. QED
    BY <2>1, <2>3, <2>4, <2>5, <2>6, <2>7, OneMoves
<1>3. CASE SendResults(p)
  <2>1. open' = open
    BY <1>3 DEF SendResults, Identified
  <2>2. UNCHANGED siemVars /\ Leave(p, "done")
    BY <1>3, <2>1 DEF SendResults, siemVars
  <2>3. QED
    BY <2>2, LeaveKeeps DEF Exit
<1>4. QED
  BY <1>1, <1>2, <1>3, AnsweredKeeps DEF Proceed

(* A run begins, or ends at once. *)
LEMMA StartKeeps ==
  ASSUME CycleInv, NEW p \in Run, Start(p)
  PROVE  CycleInv'
<1>1. UNCHANGED siemVars /\ pc[p] \in {"idle"} \cup Asking /\ "health" \in Asking
  BY DEF Start, Asking
<1>2. CASE Ask(p, "health") /\ runs' = runs + 1
  <2>1. runs \in 0..MaxRuns /\ runs < MaxRuns
    BY DEF Start, CycleInv, TypeOK
  <2>2. runs' \in 0..MaxRuns
    BY <1>2, <2>1, Settings
  <2>3. QED
    BY <1>1, <1>2, <2>2, AskKeeps
<1>3. CASE \E c \in {"done", "traceback", "bad_config"} : Leave(p, c)
  BY <1>1, <1>3, LeaveKeeps DEF Exit
<1>4. QED
  BY <1>2, <1>3 DEF Start

(* What the SIEM does is no matter of the runs. *)
LEMMA SiemKeeps ==
  ASSUME CycleInv, Raise \/ Tick \/ Degrade \/ \E a \in Alert : Close(a)
  PROVE  CycleInv'
<1>1. UNCHANGED <<siem, pc, attempt, delay, wait, found, judged, code, runs>>
  BY DEF Raise, Tick, Close, Degrade, runVars, callVars
<1>2. PICK n \in 0..MaxAlerts :
        raisedAt \in [1..n -> 0..MaxTime] /\ Raised = 1..n /\ Cardinality(Raised) = n
  <2>1. PICK n \in 0..MaxAlerts : raisedAt \in [1..n -> 0..MaxTime]
    BY DEF CycleInv, TypeOK
  <2>2. Raised = 1..n /\ n \in Nat
    BY <2>1, Settings DEF Raised
  <2>3. QED
    <3>1. Cardinality(1..n) = n
      BY <2>2, FS_Interval
    <3>2. QED
      BY <2>1, <2>2, <3>1
<1>3. now \in 0..MaxTime /\ open \subseteq Raised /\ degraded \in BOOLEAN
  BY DEF CycleInv, TypeOK
<1>4. ASSUME \E m \in 0..MaxAlerts : raisedAt' \in [1..m -> 0..MaxTime],
             now' \in 0..MaxTime, Raised \subseteq Raised', open' \subseteq Raised',
             degraded' \in BOOLEAN
      PROVE  CycleInv'
  BY <1>1, <1>4 DEF CycleInv, TypeOK
<1>5. CASE Raise
  <2>1. n + 1 \in 0..MaxAlerts /\ n \in Nat
    BY <1>2, <1>5, Settings DEF Raise
  <2>2. raisedAt' = [a \in 1..(n + 1) |-> IF a \in Raised THEN raisedAt[a] ELSE now]
    BY <1>2, <1>5 DEF Raise
  <2>3. raisedAt' \in [1..(n + 1) -> 0..MaxTime]
    BY <1>2, <1>3, <2>2
  <2>4. Raised' = 1..(n + 1)
    BY <2>2 DEF Raised
  <2>5. Raised \subseteq Raised'
    BY <1>2, <2>1, <2>4
  <2>6. open' \subseteq Raised' /\ now' = now /\ degraded' = degraded
    BY <1>3, <1>5, <2>5 DEF Raise, Raised
  <2>7. QED
    BY <1>3, <1>4, <2>1, <2>3, <2>5, <2>6
<1>6. CASE Tick
  <2>1. now' \in 0..MaxTime
    BY <1>3, <1>6, Settings DEF Tick
  <2>2. QED
    BY <1>2, <1>3, <1>4, <1>6, <2>1 DEF Tick, Raised
<1>7. ASSUME NEW a \in Alert, Close(a)
      PROVE  CycleInv'
  BY <1>2, <1>3, <1>4, <1>7 DEF Close, Raised
<1>8. CASE Degrade
  BY <1>2, <1>3, <1>4, <1>8 DEF Degrade, Raised
<1>9. QED
  BY <1>5, <1>6, <1>7, <1>8

(* The invariant of the runs: where each is, what it sleeps and what it has    *)
(* (run_client.py, retry.py). *)
THEOREM CycleInvariant == Spec => []CycleInv
<1>1. Init => CycleInv
  <2>1. SUFFICES ASSUME Init
                 PROVE  CycleInv
    OBVIOUS
  <2>2. /\ 0 \in 0..MaxAlerts /\ 0 \in 0..MaxTime /\ 0 \in 0..MaxAttempts
        /\ -1 \in (-1)..Cap /\ 0 \in 0..MaxRuns /\ 0 <= Cap /\ ~(-1 >= 0)
    BY Settings
  <2>3. raisedAt \in [1..0 -> 0..MaxTime] /\ open \subseteq Raised
    BY <2>1 DEF Init, Raised
  <2>4. /\ pc \in [Run -> {"idle", "analyze", "send"} \cup Asking]
        /\ attempt \in [Run -> 0..MaxAttempts] /\ delay \in [Run -> Nat]
        /\ wait \in [Run -> (-1)..Cap] /\ code \in [Run -> Exit]
        /\ found \in [Run -> SUBSET Alert] /\ judged \in [Run -> SUBSET Alert]
    BY <2>1, <2>2 DEF Init, Exit
  <2>5. \A p \in Run : /\ wait[p] = -1 /\ found[p] = {} /\ judged[p] = {} /\ delay[p] = 0
    BY <2>1 DEF Init
  <2>6. TypeOK
    BY <2>1, <2>2, <2>3, <2>4, <2>5 DEF Init, TypeOK
  <2>7. QED
    BY <2>2, <2>4, <2>5, <2>6 DEF CycleInv
<1>2. CycleInv /\ [Next]_vars => CycleInv'
  <2>1. SUFFICES ASSUME CycleInv, [Next]_vars
                 PROVE  CycleInv'
    OBVIOUS
  <2>2. CASE UNCHANGED vars
    BY <2>1, <2>2 DEF vars, siemVars, runVars, callVars, CycleInv, TypeOK, Raised
  <2>3. ASSUME NEW p \in Run, Kill(p)
        PROVE  CycleInv'
    BY <2>1, <2>3, LeaveKeeps DEF Kill, Exit
  <2>4. QED
    BY <2>1, <2>2, <2>3, ProceedKeeps, StartKeeps, SiemKeeps DEF Next
<1>3. QED
  BY <1>1, <1>2, PTL DEF Spec

(* Types, for any runs, alerts and retry settings: attempts and sleeps stay    *)
(* within what is configured (retry.py). *)
THEOREM CycleTypes == Spec => []TypeOK
<1>1. CycleInv => TypeOK
  BY DEF CycleInv
<1>2. QED
  BY <1>1, CycleInvariant, PTL

(* "No alerts to process" against Elasticsearch means an answer that may lack    *)
(* alerts, a fetch that failed at every attempt before the last, or a newest     *)
(* page without parsable alerts (run_client.py:80-82, elk_connector.py:222-240). *)
THEOREM QuietRunsAreExplained == Spec => QuietIsExplained
<1> DEFINE Explained ==
      \A p \in Run :
        /\ siem = "elk"
        /\ pc[p] # "idle" /\ pc'[p] = "idle" /\ code'[p] = "done"
        /\ pc[p] # "send"
        => \/ degraded
           \/ attempt[p] = MaxAttempts
           \/ Newest(ElkMatching) \subseteq Malformed
<1>1. CycleInv /\ [Next]_vars => [Explained]_vars
  <2>1. SUFFICES ASSUME CycleInv, Next, NEW p \in Run,
                        siem = "elk", pc[p] # "idle", pc'[p] = "idle",
                        code'[p] = "done", pc[p] # "send"
                 PROVE  \/ degraded
                        \/ attempt[p] = MaxAttempts
                        \/ Newest(ElkMatching) \subseteq Malformed
    OBVIOUS
  <2>2. /\ pc \in [Run -> {"idle", "analyze", "send"} \cup Asking]
        /\ code \in [Run -> Exit]
        /\ attempt[p] \in 0..MaxAttempts
    BY <2>1 DEF CycleInv, TypeOK
  <2>3. \A q \in Run, c \in Exit : Leave(q, c) => q = p /\ c = "done"
    BY <2>1, <2>2 DEF Leave
  <2>4. \A q \in Run : pc' # [pc EXCEPT ![q] = "fetch"] /\ pc' # [pc EXCEPT ![q] = "health"]
                       /\ pc' # pc /\ pc' # [pc EXCEPT ![q] = "analyze"]
                       /\ pc' # [pc EXCEPT ![q] = "send"]
    BY <2>1, <2>2
  <2>5. PICK q \in Run : Proceed(q) \/ Kill(q) \/ Start(q)
    BY <2>1, <2>4 DEF Next, Raise, Tick, Close, Degrade, runVars
  <2>6. ~Kill(q) /\ ~Start(q)
    BY <2>1, <2>3, <2>4 DEF Kill, Start, Exit, Ask
  <2>7. ~AskAgain(q) /\ ~SendResults(q) /\ ~\E a \in Alert : Analyze(q, a)
    <3>1. ~AskAgain(q)
      BY <2>4 DEF AskAgain
    <3>2. ~SendResults(q)
      BY <2>1, <2>3 DEF SendResults, Exit
    <3>3. ASSUME NEW a \in Alert, Analyze(q, a)
          PROVE  FALSE
      BY <2>4, <3>3 DEF Analyze
    <3>4. QED
      BY <3>1, <3>2, <3>3
  <2>8. CASE RateLimited(q) \/ Transient(q)
    <3>1. \/ pc' = pc
          \/ attempt[q] >= MaxAttempts /\ Leave(q, IF pc[q] = "health" THEN "unreachable" ELSE "done")
      BY <2>8 DEF RateLimited, Transient, SleepOrGiveUp, Sleep, Exhausted
    <3>2. attempt[q] >= MaxAttempts /\ q = p
      BY <2>3, <2>4, <3>1 DEF Exit
    <3>3. QED
      BY <2>2, <3>2, Settings
  <2>9. CASE Fetched(q)
    <3>1. PICK rows \in Pages : Parsed(rows) = {} \/ pc' = [pc EXCEPT ![q] = "analyze"]
      BY <2>9 DEF Fetched
    <3>2. Parsed(rows) = {}
      BY <2>4, <3>1
    <3>3. rows \subseteq Malformed
      BY <3>2 DEF Parsed, ElkParsed, SplunkParsed
    <3>4. ~degraded => rows = Newest(ElkMatching)
      BY <2>1 DEF Pages, ElkPages
    <3>5. QED
      BY <3>3, <3>4
  <2>10. ~Refused(q) /\ ~Garbled(q) /\ ~SplunkHealthy(q) /\ ~ElkHealthy(q)
    BY <2>1, <2>3, <2>4 DEF Refused, Garbled, SplunkHealthy, ElkHealthy, Ask, Exit
  <2>11. QED
    BY <2>5, <2>6, <2>7, <2>8, <2>9, <2>10 DEF Proceed, Answered
<1>2. QED
  BY <1>1, CycleInvariant, PTL DEF Spec, QuietIsExplained

=============================================================================
