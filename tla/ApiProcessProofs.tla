-------------------------- MODULE ApiProcessProofs --------------------------
(***************************************************************************)
(* Theorems about the API process, for any callers, limits, windows,       *)
(* latencies, clients, rows, schedules and periods: what the rate limiter  *)
(* bounds, that trouble is announced, that reports are made once and agree *)
(* with themselves, and that every variable keeps its type.  Each part has *)
(* an inductive invariant of its own; the other parts' steps leave its     *)
(* variables alone (StepsOfTheLimiter, StepsOfHealth, StepsOfReports).     *)
(***************************************************************************)
EXTENDS ApiProcess, FiniteSetTheorems, WellFoundedInduction, TLAPS

Dropped(c) == Len(accepted[c]) - Len(stamps[c])

(* A caller's bucket holds the last requests that were accepted, in the order  *)
(* of time, and no more than the limit; those it holds no longer are older     *)
(* than the window. *)
Bucket(c) ==
  /\ accepted[c] \in Seq(Time) /\ stamps[c] \in Seq(Time)
  /\ Len(stamps[c]) <= Len(accepted[c]) /\ Len(stamps[c]) <= Rpm
  /\ \A i \in 1..Len(stamps[c]) : stamps[c][i] = accepted[c][Dropped(c) + i]
  /\ \A i \in 1..Len(accepted[c]) : accepted[c][i] <= now
  /\ \A i \in 1..Dropped(c) : accepted[c][i] + RateWindow < now
  /\ \A i \in 1..Len(accepted[c]) :
       i + Rpm <= Len(accepted[c]) => accepted[c][i + Rpm] - accepted[c][i] > RateWindow

LimiterInv ==
  /\ now \in Time
  /\ DOMAIN stamps = Caller /\ DOMAIN accepted = Caller
  /\ \A c \in Caller : Bucket(c)

----------------------------------------------------------------------------
(* Some number is the smallest of any. *)
LEMMA Smallest ==
  ASSUME NEW T, T \subseteq Nat, T # {}
  PROVE  \E n \in T : \A m \in T : n <= m
<1>1. PICK n \in T : \A m \in T : <<m, n>> \notin OpToRel(<, Nat)
  BY NatLessThanWellFounded, WFMin
<1>2. \A m \in T : ~(m < n)
  BY <1>1 DEF OpToRel
<1>3. QED
  BY <1>2

(* Times are numbers. *)
LEMMA TimeIsNat == Time \subseteq Nat /\ RateWindow \in Nat /\ Rpm \in Nat
BY ClockAssumption, RateAssumption DEF Time

(* Sequences of times are sequences of numbers. *)
LEMMA TimesAreNat ==
  ASSUME NEW s \in Seq(Time)
  PROVE  Len(s) \in Nat /\ \A i \in 1..Len(s) : s[i] \in Nat /\ s[i] \in Time
<1>1. \A i \in 1..Len(s) : s[i] \in Time
  OBVIOUS
<1>2. Len(s) \in Nat
  OBVIOUS
<1>3. QED
  BY <1>1, <1>2, TimeIsNat

(* check() pops timestamps from the left, all of them older than the window. *)
LEMMA ExpiredAreOld ==
  ASSUME NEW s \in Seq(Time), now \in Time
  PROVE  /\ Expired(s) \in 0..Len(s)
         /\ \A i \in 1..Expired(s) : s[i] + RateWindow < now
<1> DEFINE T == {n \in 0..Len(s) : n = Len(s) \/ s[n + 1] >= now - RateWindow}
<1>1. /\ Len(s) \in Nat /\ now \in Nat /\ RateWindow \in Nat
      /\ \A i \in 1..Len(s) : s[i] \in Nat
  BY TimeIsNat, TimesAreNat
<1>2. T \subseteq Nat /\ Len(s) \in T
  BY <1>1
<1>3. PICK n \in T : \A m \in T : n <= m
  BY <1>2, Smallest
<1>4. ASSUME NEW i \in 1..n
      PROVE  s[i] < now - RateWindow
  <2>1. n \in 0..Len(s) /\ i \in 1..Len(s) /\ i - 1 \in 0..Len(s) /\ i - 1 < n
        /\ i - 1 # Len(s) /\ (i - 1) + 1 = i
    BY <1>1
  <2>2. i - 1 \notin T
    <3>1. n \in Nat /\ i - 1 \in Nat /\ ~(n <= i - 1)
      BY <1>1, <2>1
    <3>2. QED
      BY <1>3, <3>1
  <2>3. ~(s[i] >= now - RateWindow)
    BY <2>1, <2>2
  <2>4. QED
    BY <1>1, <2>1, <2>3
<1>5. \E k \in 0..Len(s) : /\ \A i \in 1..k : s[i] < now - RateWindow
                           /\ k = Len(s) \/ s[k + 1] >= now - RateWindow
  BY <1>3, <1>4
<1>6. /\ Expired(s) \in 0..Len(s)
      /\ \A i \in 1..Expired(s) : s[i] < now - RateWindow
  BY <1>5 DEF Expired
<1>7. QED
  BY <1>1, <1>6

(* What is left of a bucket. *)
LEMMA FreshOf ==
  ASSUME NEW s \in Seq(Time), now \in Time
  PROVE  /\ Fresh(s) \in Seq(Time)
         /\ Len(Fresh(s)) = Len(s) - Expired(s)
         /\ \A i \in 1..Len(Fresh(s)) : Fresh(s)[i] = s[Expired(s) + i]
<1>1. Expired(s) \in 0..Len(s) /\ Len(s) \in Nat
  BY ExpiredAreOld
<1>2. QED
  BY <1>1 DEF Fresh

----------------------------------------------------------------------------
(* A request is refused: the bucket loses what is old. *)
LEMMA RefuseKeeps ==
  ASSUME LimiterInv, NEW c \in Caller, Refuse(c), now' = now
  PROVE  LimiterInv'
<1> DEFINE s == stamps[c]
           a == accepted[c]
           e == Expired(s)
<1>1. /\ now \in Nat /\ Rpm \in Nat /\ RateWindow \in Nat
      /\ s \in Seq(Time) /\ a \in Seq(Time) /\ Len(s) \in Nat /\ Len(a) \in Nat
  BY TimeIsNat DEF LimiterInv, Bucket
<1>2. /\ e \in 0..Len(s) /\ \A i \in 1..e : s[i] + RateWindow < now
      /\ Fresh(s) \in Seq(Time) /\ Len(Fresh(s)) = Len(s) - e
      /\ \A i \in 1..Len(Fresh(s)) : Fresh(s)[i] = s[e + i]
  BY <1>1, ExpiredAreOld, FreshOf DEF LimiterInv
<1>3. /\ accepted' = accepted /\ DOMAIN stamps' = Caller /\ stamps'[c] = Fresh(s)
      /\ \A d \in Caller \ {c} : stamps'[d] = stamps[d]
  BY DEF Refuse, LimiterInv
<1>4. /\ Len(s) <= Len(a) /\ Len(s) <= Rpm
      /\ \A i \in 1..Len(s) : s[i] = a[(Len(a) - Len(s)) + i]
      /\ \A i \in 1..Len(a) : a[i] <= now
      /\ \A i \in 1..(Len(a) - Len(s)) : a[i] + RateWindow < now
      /\ \A i \in 1..Len(a) : i + Rpm <= Len(a) => a[i + Rpm] - a[i] > RateWindow
  BY DEF LimiterInv, Bucket, Dropped
<1> HIDE DEF s, a, e
<1> DEFINE f == Fresh(s)
<1>5. f \in Seq(Time) /\ Len(f) = Len(s) - e /\ \A i \in 1..Len(f) : f[i] = s[e + i]
  BY <1>2
<1> HIDE DEF f
<1>6. ASSUME NEW i \in 1..Len(f)
      PROVE  f[i] = a[(Len(a) - Len(f)) + i]
  <2>1. e + i \in 1..Len(s) /\ (Len(a) - Len(s)) + (e + i) = (Len(a) - Len(f)) + i
    BY <1>1, <1>2, <1>5
  <2>2. QED
    BY <1>4, <1>5, <2>1
<1>7. ASSUME NEW i \in 1..(Len(a) - Len(f))
      PROVE  a[i] + RateWindow < now
  <2>1. CASE i <= Len(a) - Len(s)
    BY <1>1, <1>4, <2>1
  <2>2. CASE i > Len(a) - Len(s)
    <3>1. /\ i - (Len(a) - Len(s)) \in 1..e /\ i - (Len(a) - Len(s)) \in 1..Len(s)
          /\ (Len(a) - Len(s)) + (i - (Len(a) - Len(s))) = i
      BY <1>1, <1>2, <1>5, <2>2
    <3>2. s[i - (Len(a) - Len(s))] = a[i]
      BY <1>4, <3>1
    <3>3. QED
      BY <1>2, <3>1, <3>2
  <2>3. QED
    BY <1>1, <2>1, <2>2
<1>8. Len(f) <= Len(a) /\ Len(f) <= Rpm
  BY <1>1, <1>2, <1>4, <1>5
<1>9. accepted'[c] = a /\ stamps'[c] = f
  BY <1>3 DEF a, f, s
<1>10. Bucket(c)'
  BY <1>1, <1>4, <1>5, <1>6, <1>7, <1>8, <1>9 DEF Bucket, Dropped
<1>11. \A d \in Caller \ {c} : Bucket(d)'
  BY <1>3 DEF LimiterInv, Bucket, Dropped
<1>12. QED
  BY <1>3, <1>10, <1>11 DEF LimiterInv

(* A request is accepted: of the limit's last requests the first is older than *)
(* the window, or it would still be in the bucket. *)
LEMMA AdmitKeeps ==
  ASSUME LimiterInv, NEW c \in Caller, Admit(c), now' = now
  PROVE  LimiterInv'
<1> DEFINE s == stamps[c]
           a == accepted[c]
           e == Expired(s)
<1>1. /\ now \in Nat /\ now \in Time /\ Rpm \in Nat /\ RateWindow \in Nat
      /\ s \in Seq(Time) /\ a \in Seq(Time) /\ Len(s) \in Nat /\ Len(a) \in Nat
  BY TimeIsNat DEF LimiterInv, Bucket
<1>2. /\ e \in 0..Len(s) /\ \A i \in 1..e : s[i] + RateWindow < now
      /\ Fresh(s) \in Seq(Time) /\ Len(Fresh(s)) = Len(s) - e
      /\ \A i \in 1..Len(Fresh(s)) : Fresh(s)[i] = s[e + i]
  BY <1>1, ExpiredAreOld, FreshOf DEF LimiterInv
<1>3. /\ Len(Fresh(s)) < Rpm
      /\ DOMAIN accepted' = Caller /\ accepted'[c] = Append(a, now)
      /\ DOMAIN stamps' = Caller /\ stamps'[c] = Append(Fresh(s), now)
      /\ \A d \in Caller \ {c} : stamps'[d] = stamps[d] /\ accepted'[d] = accepted[d]
  BY DEF Admit, LimiterInv
<1>4. /\ Len(s) <= Len(a) /\ Len(s) <= Rpm
      /\ \A i \in 1..Len(s) : s[i] = a[(Len(a) - Len(s)) + i]
      /\ \A i \in 1..Len(a) : a[i] <= now
      /\ \A i \in 1..(Len(a) - Len(s)) : a[i] + RateWindow < now
      /\ \A i \in 1..Len(a) : i + Rpm <= Len(a) => a[i + Rpm] - a[i] > RateWindow
  BY DEF LimiterInv, Bucket, Dropped
<1> HIDE DEF s, a, e
<1> DEFINE f == Fresh(s)
           g == Append(f, now)
           b == Append(a, now)
<1>5. f \in Seq(Time) /\ Len(f) = Len(s) - e /\ \A i \in 1..Len(f) : f[i] = s[e + i]
  BY <1>2
<1>6. Len(f) < Rpm /\ accepted'[c] = b /\ stamps'[c] = g
  BY <1>3 DEF a, s
<1> HIDE DEF f
<1>7. /\ g \in Seq(Time) /\ Len(g) = Len(f) + 1 /\ g[Len(f) + 1] = now
      /\ \A i \in 1..Len(f) : g[i] = f[i]
      /\ b \in Seq(Time) /\ Len(b) = Len(a) + 1 /\ b[Len(a) + 1] = now
      /\ \A i \in 1..Len(a) : b[i] = a[i]
  BY <1>1, <1>5
<1> HIDE DEF g, b
<1>8. Len(b) - Len(g) = Len(a) - Len(f) /\ Len(f) <= Len(a) /\ Len(f) \in Nat
  BY <1>1, <1>2, <1>4, <1>5, <1>7
<1>9. ASSUME NEW i \in 1..(Len(a) - Len(f))
      PROVE  a[i] + RateWindow < now
  <2>1. CASE i <= Len(a) - Len(s)
    BY <1>1, <1>4, <2>1
  <2>2. CASE i > Len(a) - Len(s)
    <3>1. /\ i - (Len(a) - Len(s)) \in 1..e /\ i - (Len(a) - Len(s)) \in 1..Len(s)
          /\ (Len(a) - Len(s)) + (i - (Len(a) - Len(s))) = i
      BY <1>1, <1>2, <1>5, <2>2
    <3>2. s[i - (Len(a) - Len(s))] = a[i]
      BY <1>4, <3>1
    <3>3. QED
      BY <1>2, <3>1, <3>2
  <2>3. QED
    BY <1>1, <2>1, <2>2
<1>10. ASSUME NEW i \in 1..Len(g)
       PROVE  g[i] = b[(Len(b) - Len(g)) + i]
  <2>1. CASE i = Len(f) + 1
    <3>1. (Len(b) - Len(g)) + i = Len(a) + 1
      BY <1>1, <1>8, <2>1
    <3>2. QED
      BY <1>7, <2>1, <3>1
  <2>2. CASE i \in 1..Len(f)
    <3>1. /\ e + i \in 1..Len(s)
          /\ (Len(a) - Len(s)) + (e + i) = (Len(b) - Len(g)) + i
          /\ (Len(b) - Len(g)) + i \in 1..Len(a)
      <4>1. e + i \in 1..Len(s)
        BY <1>1, <1>2, <1>5, <2>2
      <4>2. (Len(a) - Len(s)) + (e + i) = (Len(a) - Len(f)) + i
        BY <1>1, <1>2, <1>5, <2>2
      <4>3. (Len(a) - Len(f)) + i \in 1..Len(a)
        BY <1>1, <1>8, <2>2
      <4>4. QED
        BY <1>8, <4>1, <4>2, <4>3
    <3>2. QED
      BY <1>4, <1>5, <1>7, <2>2, <3>1
  <2>3. QED
    BY <1>7, <1>8, <2>1, <2>2
<1>11. ASSUME NEW i \in 1..(Len(b) - Len(g))
       PROVE  b[i] + RateWindow < now
  <2>1. i \in 1..(Len(a) - Len(f)) /\ i \in 1..Len(a)
    BY <1>1, <1>8
  <2>2. QED
    BY <1>7, <1>9, <2>1
<1>12. ASSUME NEW i \in 1..Len(b), i + Rpm <= Len(b)
       PROVE  b[i + Rpm] - b[i] > RateWindow
  <2>1. /\ i \in 1..Len(a) /\ a[i] \in Nat
        /\ i + Rpm <= Len(a) \/ i + Rpm = Len(a) + 1
    <3>1. Rpm >= 1 /\ Len(b) = Len(a) + 1
      BY <1>1, <1>6, <1>7, <1>8
    <3>2. i \in 1..Len(a) /\ (i + Rpm <= Len(a) \/ i + Rpm = Len(a) + 1)
      BY <1>1, <1>12, <3>1
    <3>3. QED
      BY <1>1, <3>2, TimesAreNat
  <2>2. CASE i + Rpm <= Len(a)
    <3>1. i + Rpm \in 1..Len(a)
      BY <1>1, <2>1, <2>2
    <3>2. QED
      BY <1>4, <1>7, <2>1, <2>2, <3>1
  <2>3. CASE i + Rpm = Len(a) + 1
    <3>1. i \in 1..(Len(a) - Len(f))
      BY <1>1, <1>6, <1>8, <2>1, <2>3
    <3>2. a[i] + RateWindow < now /\ b[i + Rpm] = now /\ b[i] = a[i]
      BY <1>7, <1>9, <2>1, <2>3, <3>1
    <3>3. QED
      BY <1>1, <2>1, <3>2
  <2>4. QED
    BY <2>1, <2>2, <2>3
<1>13. \A i \in 1..Len(b) : b[i] <= now
  <2>1. now <= now
    BY <1>1
  <2>2. \A i \in 1..Len(b) : i \in 1..Len(a) \/ i = Len(a) + 1
    BY <1>1, <1>7
  <2>3. QED
    BY <1>4, <1>7, <2>1, <2>2
<1>14. Len(g) <= Len(b) /\ Len(g) <= Rpm
  BY <1>1, <1>6, <1>7, <1>8
<1>15. Bucket(c)'
  BY <1>6, <1>7, <1>10, <1>11, <1>12, <1>13, <1>14 DEF Bucket, Dropped
<1>16. \A d \in Caller \ {c} : Bucket(d)'
  BY <1>3 DEF LimiterInv, Bucket, Dropped
<1>17. QED
  BY <1>3, <1>15, <1>16 DEF LimiterInv

(* Time passes: what is old stays old. *)
LEMMA AdvanceKeeps ==
  ASSUME LimiterInv, Advance, UNCHANGED limiterVars
  PROVE  LimiterInv'
<1>1. now \in Nat /\ now' = now + 1 /\ now' \in Time /\ RateWindow \in Nat
  BY ClockAssumption, RateAssumption DEF LimiterInv, Advance, Time
<1>2. ASSUME NEW c \in Caller
      PROVE  Bucket(c)'
  <2>1. Bucket(c) /\ UNCHANGED <<stamps, accepted>>
    BY DEF LimiterInv, limiterVars
  <2>2. \A i \in 1..Len(accepted[c]) : accepted[c][i] \in Nat
    BY <2>1, TimesAreNat DEF Bucket
  <2>3. Dropped(c) <= Len(accepted[c]) /\ Dropped(c) \in Int
    <3>1. Len(accepted[c]) \in Nat /\ Len(stamps[c]) \in Nat
      BY <2>1, TimesAreNat DEF Bucket
    <3>2. \A x, y \in Nat : x - y <= x /\ x - y \in Int
      OBVIOUS
    <3>3. QED
      BY <3>1, <3>2 DEF Dropped
  <2>4. /\ \A i \in 1..Len(accepted[c]) : accepted[c][i] <= now'
        /\ \A i \in 1..Dropped(c) : accepted[c][i] + RateWindow < now'
    <3>1. \A i \in 1..Len(accepted[c]) : accepted[c][i] <= now'
      BY <1>1, <2>1, <2>2 DEF Bucket
    <3>2. \A i \in 1..Dropped(c) : i \in 1..Len(accepted[c])
      BY <2>2, <2>3, TimesAreNat, <2>1 DEF Bucket
    <3>3. \A i \in 1..Dropped(c) : accepted[c][i] + RateWindow < now'
      BY <1>1, <2>1, <2>2, <3>2 DEF Bucket
    <3>4. QED
      BY <3>1, <3>3
  <2>5. QED
    BY <2>1, <2>4 DEF Bucket, Dropped
<1>3. QED
  BY <1>1, <1>2 DEF LimiterInv, limiterVars

(* Empty buckets. *)
LEMMA EmptyBuckets ==
  ASSUME now \in Time, stamps = [c \in Caller |-> <<>>], accepted = [c \in Caller |-> <<>>]
  PROVE  LimiterInv
<1>1. \A c \in Caller : stamps[c] = <<>> /\ accepted[c] = <<>>
  OBVIOUS
<1>2. ASSUME NEW c \in Caller
      PROVE  Bucket(c)
  BY <1>1, TimeIsNat DEF Bucket, Dropped
<1>3. QED
  BY <1>2 DEF LimiterInv

(* A step of the process checks one request, lets time pass, begins anew or   *)
(* leaves the buckets alone. *)
LEMMA StepsOfTheLimiter ==
  ASSUME Next
  PROVE  \/ \E c \in Caller : (Admit(c) \/ Refuse(c)) /\ now' = now
         \/ Advance /\ UNCHANGED limiterVars
         \/ /\ stamps' = [c \in Caller |-> <<>>] /\ accepted' = [c \in Caller |-> <<>>]
            /\ now' = now
         \/ UNCHANGED <<now, limiterVars>>
<1>1. ASSUME NEW c \in Caller,
             \/ RejectRequest(c)
             \/ \E q \in Request : BeginAnalysis(c, q)
             \/ \E a \in Accuracy : SubmitFeedback(c, a)
      PROVE  (Admit(c) \/ Refuse(c)) /\ now' = now
  BY <1>1 DEF RejectRequest, BeginAnalysis, SubmitFeedback
<1>2. CASE \E q \in Request : FailAnalysis(q) \/ \E ms \in Latency : EndAnalysis(q, ms)
  BY <1>2 DEF FailAnalysis, EndAnalysis
<1>3. CASE HealthStep
  BY <1>3 DEF HealthStep
<1>4. CASE ReportStep
  BY <1>4 DEF ReportStep
<1>5. CASE Tick
  BY <1>5 DEF Tick
<1>6. CASE Restart
  BY <1>6 DEF Restart
<1>7. QED
  BY <1>1, <1>2, <1>3, <1>4, <1>5, <1>6 DEF Next

(* The invariant of the buckets (rate_limit.py:36-56). *)
THEOREM LimiterInvariant == Spec => []LimiterInv
<1>1. Init => LimiterInv
  BY EmptyBuckets, ClockAssumption DEF Init, ClockInit, LimiterInit, Time
<1>2. LimiterInv /\ [Next]_vars => LimiterInv'
  <2>1. CASE UNCHANGED <<now, limiterVars>> /\ LimiterInv
    BY <2>1 DEF limiterVars, LimiterInv, Bucket, Dropped
  <2>2. CASE /\ stamps' = [c \in Caller |-> <<>>] /\ accepted' = [c \in Caller |-> <<>>]
             /\ now' = now /\ LimiterInv
    <3>1. now' \in Time
      BY <2>2 DEF LimiterInv
    <3>2. ASSUME NEW c \in Caller
          PROVE  Bucket(c)'
      <4>1. stamps'[c] = <<>> /\ accepted'[c] = <<>>
        BY <2>2
      <4>2. QED
        BY <4>1, TimeIsNat DEF Bucket, Dropped
    <3>3. QED
      BY <2>2, <3>1, <3>2 DEF LimiterInv
  <2>3. CASE UNCHANGED vars
    BY <2>1, <2>3 DEF vars
  <2>4. QED
    BY <2>1, <2>2, <2>3, StepsOfTheLimiter, AdmitKeeps, RefuseKeeps, AdvanceKeeps
<1>3. QED
  BY <1>1, <1>2, PTL DEF Spec

(* No window of RateWindow seconds, wherever it starts, holds more than Rpm     *)
(* accepted requests of one caller within a life of the process                *)
(* (rate_limit.py:1-4). *)
THEOREM LimiterBoundsEveryWindow == Spec => []WindowBounded
<1>1. LimiterInv => WindowBounded
  BY DEF LimiterInv, Bucket, WindowBounded
<1>2. QED
  BY <1>1, LimiterInvariant, PTL

----------------------------------------------------------------------------
(* What a step of the process does to its health. *)
LEMMA StepsOfHealth ==
  ASSUME Next
  PROVE  \/ \E ms \in Latency : Record(ms) /\ UNCHANGED <<now, storeVars, noticeVars>>
         \/ /\ database' = "good" /\ opened' = TRUE /\ accuracy' \in Accuracy
            /\ UNCHANGED <<now, metricVars, noticeVars>>
         \/ (\E p \in Probe : CheckHealth(p) \/ EndNotification(p)) /\ now' = now
         \/ DatabaseChanges /\ now' = now
         \/ HealthRestart /\ now' = now
         \/ UNCHANGED healthVars /\ (now' = now \/ Advance)
<1>1. ASSUME NEW c \in Caller, NEW a \in Accuracy, SubmitFeedback(c, a)
      PROVE  /\ database' = "good" /\ opened' = TRUE /\ accuracy' \in Accuracy
             /\ UNCHANGED <<now, metricVars, noticeVars>>
  BY <1>1 DEF SubmitFeedback
<1>2. ASSUME NEW c \in Caller, RejectRequest(c) \/ \E q \in Request : BeginAnalysis(c, q)
      PROVE  UNCHANGED healthVars /\ now' = now
  BY <1>2 DEF RejectRequest, BeginAnalysis
<1>3. ASSUME NEW q \in Request, FailAnalysis(q)
      PROVE  UNCHANGED healthVars /\ now' = now
  BY <1>3 DEF FailAnalysis
<1>4. ASSUME NEW q \in Request, NEW ms \in Latency, EndAnalysis(q, ms)
      PROVE  Record(ms) /\ UNCHANGED <<now, storeVars, noticeVars>>
  BY <1>4 DEF EndAnalysis
<1>5. CASE HealthStep
  BY <1>5 DEF HealthStep
<1>6. CASE ReportStep
  BY <1>6 DEF ReportStep
<1>7. CASE Tick
  BY <1>7 DEF Tick
<1>8. CASE Restart
  BY <1>8 DEF Restart
<1>9. QED
  BY <1>1, <1>2, <1>3, <1>4, <1>5, <1>6, <1>7, <1>8 DEF Next

(* The clock only goes forward. *)
LEMMA ClockSteps ==
  ASSUME now \in Time, now' = now \/ Advance
  PROVE  now \in Nat /\ now' \in Time /\ now' \in Nat /\ now <= now'
  BY ClockAssumption DEF Advance, Time

(* record() pops latencies from the left: as many as there are before the *)
(* first that still counts. *)
LEMMA AgedType ==
  ASSUME now \in Time, latencies \in Seq(Sample)
  PROVE  Aged \in 0..Len(latencies)
<1> DEFINE s == latencies
           T == {n \in 0..Len(s) : n = Len(s) \/ s[n + 1].at >= now - LatencyWindow}
<1>1. /\ Len(s) \in Nat /\ now \in Nat /\ LatencyWindow \in Nat
      /\ \A i \in 1..Len(s) : s[i].at \in Nat
  <2>1. \A i \in 1..Len(s) : s[i] \in Sample
    OBVIOUS
  <2>2. \A i \in 1..Len(s) : s[i].at \in Time
    BY <2>1 DEF Sample
  <2>3. now \in Nat /\ LatencyWindow \in Nat
    BY TimeIsNat, HealthAssumption
  <2>4. Len(s) \in Nat
    OBVIOUS
  <2>5. QED
    BY <2>2, <2>3, <2>4, TimeIsNat
<1>2. T \subseteq Nat /\ Len(s) \in T
  BY <1>1
<1>3. PICK n \in T : \A m \in T : n <= m
  BY <1>2, Smallest
<1>4. ASSUME NEW i \in 1..n
      PROVE  s[i].at < now - LatencyWindow
  <2>1. n \in 0..Len(s) /\ i \in 1..Len(s) /\ i - 1 \in 0..Len(s) /\ i - 1 < n
        /\ i - 1 # Len(s) /\ (i - 1) + 1 = i
    BY <1>1
  <2>2. i - 1 \notin T
    <3>1. n \in Nat /\ i - 1 \in Nat /\ ~(n <= i - 1)
      BY <1>1, <2>1
    <3>2. QED
      BY <1>3, <3>1
  <2>3. ~(s[i].at >= now - LatencyWindow)
    BY <2>1, <2>2
  <2>4. QED
    BY <1>1, <2>1, <2>3
<1>5. \E k \in 0..Len(s) : /\ \A i \in 1..k : s[i].at < now - LatencyWindow
                           /\ k = Len(s) \/ s[k + 1].at >= now - LatencyWindow
  BY <1>3, <1>4
<1>6. QED
  BY <1>5 DEF Aged

(* record() keeps the types of the metrics. *)
LEMMA RecordType ==
  ASSUME now \in Time, latencies \in Seq(Sample), today \in Nat, anchor \in Time,
         NEW ms \in Latency, Record(ms)
  PROVE  latencies' \in Seq(Sample) /\ today' \in Nat /\ anchor' \in Time
<1> DEFINE recent == SubSeq(latencies, Aged + 1, Len(latencies))
           sample == [at |-> now, ms |-> ms]
<1>1. Aged \in 0..Len(latencies) /\ Len(latencies) \in Nat
  BY AgedType
<1>2. recent \in Seq(Sample)
  BY <1>1
<1>3. sample \in Sample
  BY DEF Sample
<1>4. latencies' = Append(recent, sample)
  BY DEF Record
<1> HIDE DEF recent, sample
<1>5. latencies' \in Seq(Sample)
  BY <1>2, <1>3, <1>4
<1>6. QED
  BY <1>5 DEF Record

(* The notifier remembers its last attempt, and has none from the future. *)
NoticeInv ==
  /\ attempts \in Seq(Time) /\ lastSent \in Time /\ lastSent <= now
  /\ attempts = <<>> => lastSent = 0
  /\ attempts # <<>> => attempts[Len(attempts)] = lastSent

HealthInv == now \in Time /\ HealthTypeOK /\ NoticeInv /\ TroubleAnnounced

(* A check: either nothing is sent, and then for a reason, or a notification is *)
(* tried now. *)
LEMMA NotifyKeeps ==
  ASSUME HealthInv, NEW p \in Probe, CheckHealth(p), now' = now
  PROVE  HealthInv'
<1>1. /\ now \in Nat /\ lastSent \in Nat /\ Cooldown \in Nat /\ Cooldown > 0
      /\ attempts \in Seq(Time) /\ lastSent <= now /\ now \in Time
  BY TimeIsNat, HealthAssumption DEF HealthInv, NoticeInv
<1>2. /\ lastHealth' = [status |-> Status, at |-> now] /\ Status \in Health
      /\ UNCHANGED <<latencies, today, anchor, database, opened, accuracy>>
  BY DEF CheckHealth, metricVars, storeVars, Status, Health
<1>3. lastHealth' \in [status : Health, at : Time]
  BY <1>1, <1>2
<1>4. lastHealth'.status = Status /\ lastHealth'.at = now
  BY <1>2
<1>5. CASE UNCHANGED <<lastSent, sending, attempts>>
  <2>1. NoticeInv' /\ HealthTypeOK'
    BY <1>1, <1>2, <1>3, <1>5 DEF HealthInv, NoticeInv, HealthTypeOK
  <2>2. ASSUME Status # "healthy", Channel # {}, now >= Cooldown
        PROVE  /\ attempts # <<>>
               /\ attempts[Len(attempts)] + Cooldown > now
               /\ attempts[Len(attempts)] <= now
    <3>1. now - lastSent < Cooldown
      BY <1>1, <1>5, <2>2 DEF CheckHealth, Notify
    <3>2. lastSent # 0
      BY <1>1, <2>2, <3>1
    <3>3. attempts # <<>> /\ attempts[Len(attempts)] = lastSent
      BY <3>2 DEF HealthInv, NoticeInv
    <3>4. QED
      BY <1>1, <3>1, <3>3
  <2>3. TroubleAnnounced'
    BY <1>4, <1>5, <2>2 DEF TroubleAnnounced
  <2>4. QED
    BY <1>1, <2>1, <2>3 DEF HealthInv
<1>6. CASE /\ lastSent' = now
           /\ sending' = sending \cup {p}
           /\ attempts' = Append(attempts, now)
  <2>1. /\ attempts' \in Seq(Time) /\ attempts' # <<>>
        /\ attempts'[Len(attempts')] = now
    BY <1>1, <1>6
  <2>2. sending' \subseteq Probe
    BY <1>6 DEF HealthInv, HealthTypeOK
  <2>3. NoticeInv' /\ HealthTypeOK'
    BY <1>1, <1>2, <1>3, <1>6, <2>1, <2>2 DEF HealthInv, NoticeInv, HealthTypeOK
  <2>4. TroubleAnnounced'
    BY <1>1, <1>4, <2>1 DEF TroubleAnnounced
  <2>5. QED
    BY <1>1, <2>3, <2>4 DEF HealthInv
<1>7. QED
  BY <1>5, <1>6 DEF CheckHealth, Notify

(* A check that finds trouble has announced it, or was within a cooldown of an  *)
(* announcement, through restarts and however slow the channels are: send_alert *)
(* starts the cooldown before it tries them. *)
THEOREM HealthInvariant == Spec => []HealthInv
<1>1. Init => HealthInv
  <2> SUFFICES ASSUME Init PROVE HealthInv
    OBVIOUS
  <2>1. now = 0 /\ 0 \in Time /\ 0 <= 0
    BY ClockAssumption DEF Init, ClockInit, Time
  <2>2. HealthInit
    BY DEF Init
  <2>3. latencies \in Seq(Sample) /\ attempts \in Seq(Time)
    BY <2>2 DEF HealthInit
  <2>4. HealthTypeOK
    BY <2>1, <2>2, <2>3, HealthAssumption DEF HealthInit, HealthTypeOK
  <2>5. NoticeInv
    BY <2>1, <2>2, <2>3 DEF HealthInit, NoticeInv
  <2>6. TroubleAnnounced
    BY <2>2 DEF HealthInit, TroubleAnnounced
  <2>7. QED
    BY <2>1, <2>4, <2>5, <2>6 DEF HealthInv
<1>2. HealthInv /\ [Next]_vars => HealthInv'
  <2> SUFFICES ASSUME HealthInv, [Next]_vars
               PROVE  HealthInv'
    OBVIOUS
  <2>0. now \in Time /\ 0 \in Time
    BY ClockAssumption DEF HealthInv, Time
  <2>1. ASSUME NEW ms \in Latency, Record(ms), UNCHANGED <<now, storeVars, noticeVars>>
        PROVE  HealthInv'
    <3>1. latencies' \in Seq(Sample) /\ today' \in Nat /\ anchor' \in Time
      BY <2>1, RecordType DEF HealthInv, HealthTypeOK
    <3>2. QED
      BY <2>1, <3>1 DEF HealthInv, HealthTypeOK, NoticeInv, TroubleAnnounced, storeVars, noticeVars
  <2>2. CASE /\ database' = "good" /\ opened' = TRUE /\ accuracy' \in Accuracy
             /\ UNCHANGED <<now, metricVars, noticeVars>>
    BY <2>2 DEF HealthInv, HealthTypeOK, NoticeInv, TroubleAnnounced, metricVars, noticeVars
  <2>3. ASSUME NEW p \in Probe, CheckHealth(p), now' = now
        PROVE  HealthInv'
    BY <2>3, NotifyKeeps
  <2>4. ASSUME NEW p \in Probe, EndNotification(p), now' = now
        PROVE  HealthInv'
    BY <2>4 DEF EndNotification, HealthInv, HealthTypeOK, NoticeInv, TroubleAnnounced, metricVars, storeVars
  <2>5. CASE DatabaseChanges /\ now' = now
    BY <2>5 DEF DatabaseChanges, HealthInv, HealthTypeOK, NoticeInv, TroubleAnnounced, metricVars, noticeVars
  <2>6. CASE HealthRestart /\ now' = now
    <3>1. now \in Nat /\ 0 <= now
      BY <2>0, TimeIsNat
    <3>2. latencies' \in Seq(Sample) /\ attempts' \in Seq(Time)
      BY <2>6 DEF HealthRestart
    <3>3. HealthTypeOK'
      BY <2>0, <2>6, <3>2 DEF HealthRestart, HealthInv, HealthTypeOK
    <3>4. NoticeInv'
      BY <2>0, <2>6, <3>1, <3>2 DEF HealthRestart, NoticeInv
    <3>5. TroubleAnnounced'
      BY <2>6 DEF HealthRestart, TroubleAnnounced
    <3>6. QED
      BY <2>0, <2>6, <3>3, <3>4, <3>5 DEF HealthInv
  <2>7. CASE UNCHANGED healthVars /\ (now' = now \/ Advance)
    <3>1. now \in Nat /\ now' \in Time /\ now' \in Nat /\ now <= now'
      BY <2>0, <2>7, ClockSteps
    <3>2. NoticeInv'
      BY <2>7, <3>1, TimeIsNat DEF HealthInv, NoticeInv, healthVars, noticeVars
    <3>3. QED
      BY <2>7, <3>1, <3>2 DEF HealthInv, HealthTypeOK, TroubleAnnounced, healthVars, metricVars, storeVars, noticeVars
  <2>8. CASE UNCHANGED vars
    BY <2>7, <2>8 DEF vars
  <2>9. QED
    BY <2>1, <2>2, <2>3, <2>4, <2>5, <2>6, <2>7, <2>8, StepsOfHealth
<1>3. QED
  BY <1>1, <1>2, PTL DEF Spec

(* Trouble that a health check sees is announced (_maybe_notify, send_alert). *)
THEOREM TroubleIsAnnounced == Spec => []TroubleAnnounced
<1>1. HealthInv => TroubleAnnounced
  BY DEF HealthInv
<1>2. QED
  BY <1>1, HealthInvariant, PTL

----------------------------------------------------------------------------
(* What a step of the process does to the reports. *)
LEMMA StepsOfReports ==
  ASSUME Next
  PROVE  \/ (ReportNext \/ QueryFails \/ DownloadNext \/ ScheduleNext \/ DashboardNext) /\ now' = now
         \/ ReportRestart /\ now' = now
         \/ UNCHANGED reportVars /\ (now' = now \/ Advance)
<1>1. ASSUME NEW c \in Caller,
             \/ RejectRequest(c)
             \/ \E q \in Request : BeginAnalysis(c, q)
             \/ \E a \in Accuracy : SubmitFeedback(c, a)
      PROVE  UNCHANGED reportVars /\ now' = now
  BY <1>1 DEF RejectRequest, BeginAnalysis, SubmitFeedback
<1>2. ASSUME NEW q \in Request, FailAnalysis(q) \/ \E ms \in Latency : EndAnalysis(q, ms)
      PROVE  UNCHANGED reportVars /\ now' = now
  BY <1>2 DEF FailAnalysis, EndAnalysis
<1>3. CASE HealthStep
  BY <1>3 DEF HealthStep
<1>4. CASE ReportStep
  BY <1>4 DEF ReportStep
<1>5. CASE Tick
  BY <1>5 DEF Tick
<1>6. CASE Restart
  BY <1>6 DEF Restart
<1>7. QED
  BY <1>1, <1>2, <1>3, <1>4, <1>5, <1>6 DEF Next

(* The sections of a report, and what their queries select. *)
LEMMA SectionsOfReports ==
  Len(Sections) = 8 /\ \A k \in 1..8 : Sections[k] \in Section
<1>1. Len(Sections) = 8
  BY DEF Sections
<1>2. ASSUME NEW k \in 1..8
      PROVE  Sections[k] \in Section
  <2>1. k = 1 \/ k = 2 \/ k = 3 \/ k = 4 \/ k = 5 \/ k = 6 \/ k = 7 \/ k = 8
    OBVIOUS
  <2>2. QED
    BY <2>1 DEF Sections, Section
<1>3. QED
  BY <1>1, <1>2

(* A query selects rows. *)
LEMMA SelectedRows ==
  ASSUME table \subseteq Row, NEW section \in Section, NEW c \in Client, NEW days \in Periods,
         NEW S \in Selections(section, c, days)
  PROVE  S \in SUBSET Row
<1>1. \A d : Since(c, d) \subseteq Row
  BY DEF Since
<1>2. CASE section = "rules"
  BY <1>1, <1>2 DEF Selections, RuleTables
<1>3. CASE section # "rules"
  BY <1>1, <1>3
  DEF Section, Selections, WeeklyRows, BreakdownRows, RecentRows, TotalsRows, NoteRows,
      RoiRows, TrendRows, FalsePositives
<1>4. QED
  BY <1>2, <1>3

(* A file is named after its client and the second. *)
LEMMA NamesOfFiles ==
  ASSUME now \in Time, NEW format \in Formats, NEW c \in Client
  PROVE  FileName(format, c) \in File /\ FileName(format, c)[3] = now
<1>1. format \in {"html", "pdf", "csv", "json"}
  BY ReportAssumption
<1>2. QED
  BY <1>1 DEF FileName, File, HtmlFile, PdfFile, JsonFile, CsvFile

(* What is kept of the reports that were written: a file holds one that was     *)
(* written in the second of its name, a mail is about one that its file held, *)
(* and the loop makes a report only for a client that has a schedule. *)
WrittenInv ==
  /\ madeAt \in Seq(Time) /\ Len(madeAt) = made
  /\ \A f \in File : files[f] # 0 => madeAt[files[f]] = f[3]
LetterInv ==
  mail # Nothing => /\ mail.about \in 1..made
                    /\ mail.about <= files[mail.file]
                    /\ madeAt[mail.about] = mail.file[3]
DraftInv ==
  report # Nothing /\ report.by = "loop" => schedules[report.client] # Nothing
ReportInv ==
  /\ now \in Time /\ ReportTypeOK
  /\ WrittenInv /\ LetterInv /\ DraftInv /\ MailHoldsItsReport

(* A draft grows by a section, or notes that a row has moved. *)
LEMMA DraftGrows ==
  ASSUME report \in Draft, report.next <= Len(Sections), NEW section \in Section, NEW S \in SUBSET Row
  PROVE  /\ [report EXCEPT !.next = @ + 1, !.read[section] = S] \in Draft
         /\ [report EXCEPT !.next = @ + 1, !.failed = @ \cup {section}] \in Draft
<1>1. report.next + 1 \in 1..(Len(Sections) + 1)
  BY SectionsOfReports DEF Draft
<1>2. [report.read EXCEPT ![section] = S] \in [Section -> SUBSET Row]
  BY DEF Draft
<1>3. report.failed \cup {section} \in SUBSET Section
  BY DEF Draft
<1>4. QED
  BY <1>1, <1>2, <1>3 DEF Draft

(* A report that begins. *)
LEMMA NewDraftType ==
  ASSUME now \in Time, NEW by \in {"loop", "request"}, NEW c \in Client, NEW days \in Periods
  PROVE  NewDraft(by, c, days) \in Draft
<1>1. 1 \in 1..(Len(Sections) + 1)
  BY SectionsOfReports
<1>2. [s \in Section |-> {}] \in [Section -> SUBSET Row]
  OBVIOUS
<1>3. QED
  BY <1>1, <1>2 DEF NewDraft, Draft

(* What a report notes of rows that move. *)
LEMMA TouchedType ==
  ASSUME report \in Draft \cup {Nothing}, NEW S \in SUBSET Row
  PROVE  /\ Touch(S) \in Draft \cup {Nothing}
         /\ report = Nothing => Touch(S) = Nothing
         /\ report # Nothing => /\ Touch(S).by = report.by
                                /\ Touch(S).client = report.client
                                /\ Touch(S).days = report.days
                                /\ Touch(S).start = report.start
                                /\ Touch(S).read = report.read
                                /\ Touch(S).next = report.next
                                /\ Touch(S).failed = report.failed
                                /\ Touch(S).moved = report.moved \cup {i \in S : Feedback[i].client = report.client}
<1>1. CASE report = Nothing
  BY <1>1 DEF Touch
<1>2. CASE report # Nothing
  <2> DEFINE more == {i \in S : Feedback[i].client = report.client}
  <2>1. report \in Draft /\ Touch(S) = [report EXCEPT !.moved = @ \cup more]
    BY <1>2 DEF Touch
  <2>2. report.moved \cup more \in SUBSET Row
    BY <2>1 DEF Draft
  <2> HIDE DEF more
  <2>3. Touch(S) \in Draft /\ Touch(S).moved = report.moved \cup more
    BY <2>1, <2>2 DEF Draft
  <2>4. /\ Touch(S).by = report.by /\ Touch(S).client = report.client
        /\ Touch(S).days = report.days /\ Touch(S).start = report.start
        /\ Touch(S).read = report.read /\ Touch(S).next = report.next
        /\ Touch(S).failed = report.failed
    BY <2>1 DEF Draft
  <2>5. QED
    BY <1>2, <2>3, <2>4 DEF more
<1>3. QED
  BY <1>1, <1>2

(* A file is written. *)
LEMMA WriteKeeps ==
  ASSUME ReportInv, NEW name \in File, name[3] = now, WriteFile(name)
  PROVE  /\ made' = made + 1 /\ made' \in Nat /\ made + 1 \in 1..made'
         /\ madeAt' \in [1..made' -> Time]
         /\ files' \in [File -> 0..made'] /\ files'[name] = made + 1
         /\ madeAt'[made + 1] = now
         /\ \A k \in 1..made : madeAt'[k] = madeAt[k]
         /\ \A f \in File : files[f] <= files'[f]
         /\ WrittenInv'
<1>1. /\ made \in Nat /\ madeAt \in Seq(Time) /\ Len(madeAt) = made /\ now \in Time
      /\ files \in [File -> 0..made]
      /\ \A f \in File : files[f] # 0 => madeAt[files[f]] = f[3]
  BY DEF ReportInv, ReportTypeOK, WrittenInv
<1>2. made' = made + 1 /\ made' \in Nat /\ made + 1 \in 1..made'
  BY <1>1 DEF WriteFile
<1>3. /\ madeAt' \in Seq(Time) /\ Len(madeAt') = made'
      /\ madeAt'[made + 1] = now
      /\ \A k \in 1..made : madeAt'[k] = madeAt[k]
  BY <1>1, <1>2 DEF WriteFile
<1>4. madeAt' \in [1..made' -> Time]
  BY <1>3
<1>5. /\ files' \in [File -> 0..made'] /\ files'[name] = made + 1
      /\ \A f \in File \ {name} : files'[f] = files[f]
  BY <1>1, <1>2 DEF WriteFile
<1>6. \A f \in File : files[f] <= files'[f]
  BY <1>1, <1>5
<1>7. \A f \in File : files'[f] # 0 => madeAt'[files'[f]] = f[3]
  <2>1. ASSUME NEW f \in File \ {name}, files'[f] # 0
        PROVE  madeAt'[files'[f]] = f[3]
    <3>1. files'[f] = files[f] /\ files[f] \in 1..made
      BY <1>1, <1>5, <2>1
    <3>2. QED
      BY <1>1, <1>3, <2>1, <3>1
  <2>2. QED
    BY <1>3, <1>5, <2>1
<1>8. QED
  BY <1>2, <1>3, <1>4, <1>5, <1>6, <1>7 DEF WrittenInv

(* Steps that leave the files and the mails alone keep what is said of them. *)
LEMMA FilesKept ==
  ASSUME ReportInv, UNCHANGED <<fileVars, mailVars>>
  PROVE  WrittenInv' /\ LetterInv' /\ MailHoldsItsReport'
  BY DEF ReportInv, WrittenInv, LetterInv, MailHoldsItsReport, fileVars, mailVars

(* A query changes the draft alone. *)
LEMMA QueryKeeps ==
  ASSUME ReportInv, Query \/ QueryFails, now' = now
  PROVE  ReportInv'
<1> DEFINE section == Sections[report.next]
<1>1. report \in Draft /\ report.next <= Len(Sections) /\ report.client \in Client /\ report.days \in Periods
  BY DEF ReportInv, ReportTypeOK, Query, QueryFails, Making, Draft
<1>2. section \in Section
  <2>1. report.next \in 1..8
    BY <1>1, SectionsOfReports DEF Draft
  <2>2. QED
    BY <2>1, SectionsOfReports
<1>3. table \subseteq Row
  BY DEF ReportInv, ReportTypeOK
<1> HIDE DEF section
<1>4. PICK S \in SUBSET Row :
        \/ report' = [report EXCEPT !.next = @ + 1, !.read[section] = S]
        \/ report' = [report EXCEPT !.next = @ + 1, !.failed = @ \cup {section}]
  <2>1. CASE Query
    <3>1. PICK S \in Selections(section, report.client, report.days) :
            report' = [report EXCEPT !.next = @ + 1, !.read[section] = S]
      BY <2>1 DEF Query, section
    <3>2. QED
      BY <1>1, <1>2, <1>3, <3>1, SelectedRows
  <2>2. CASE QueryFails
    <3>1. report' = [report EXCEPT !.next = @ + 1, !.failed = @ \cup {section}]
      BY <2>2 DEF QueryFails, section
    <3>2. QED
      BY <3>1
  <2>3. QED
    BY <2>1, <2>2
<1>5. UNCHANGED <<dataVars, schedules, loop, fileVars, mailVars, firedVars, changed, countVars>>
  BY DEF Query, QueryFails
<1>7. report' \in Draft
  BY <1>1, <1>2, <1>4, DraftGrows
<1>8. report # Nothing /\ report'.by = report.by /\ report'.client = report.client
  BY <1>1, <1>4 DEF Draft, Query, QueryFails, Making
<1>9. DraftInv'
  BY <1>5, <1>8 DEF ReportInv, DraftInv
<1>10. ReportTypeOK'
  BY <1>5, <1>7 DEF ReportInv, ReportTypeOK, dataVars, fileVars, mailVars, firedVars, countVars
<1>11. QED
  BY <1>5, <1>9, <1>10, FilesKept DEF ReportInv

(* A report is written and perhaps handed to the mail's thread. *)
LEMMA ExportKeeps ==
  ASSUME ReportInv, Export, now' = now
  PROVE  ReportInv'
<1>1. report \in Draft /\ report # Nothing /\ report.client \in Client
  BY DEF ReportInv, ReportTypeOK, Export, Complete, Draft
<1>2. FormatsAsked \subseteq Formats
  <2>1. CASE report.by = "request"
    BY <2>1 DEF FormatsAsked
  <2>2. CASE report.by = "loop"
    <3>1. schedules[report.client] \in Schedules
      BY <1>1, <2>2 DEF ReportInv, DraftInv, ReportTypeOK
    <3>2. schedules[report.client].format \in Formats
      BY <3>1, ReportAssumption
    <3>3. QED
      BY <2>2, <3>2 DEF FormatsAsked
  <2>3. QED
    BY <1>1, <2>1, <2>2 DEF Draft
<1>3. PICK format \in FormatsAsked :
        LET name == FileName(format, report.client)
        IN  /\ WriteFile(name)
            /\ IF report.by = "request"
               THEN UNCHANGED <<loop, mail>>
               ELSE IF Mail /\ schedules[report.client].email
               THEN /\ mail' = [file |-> name, about |-> made + 1]
                    /\ loop' = [loop EXCEPT !.pc = "mail"]
               ELSE loop' = [loop EXCEPT !.pc = "check"] /\ UNCHANGED mail
  BY DEF Export
<1> DEFINE name == FileName(format, report.client)
<1>4. name \in File /\ name[3] = now
  BY <1>1, <1>2, <1>3, NamesOfFiles DEF ReportInv
<1>5. /\ WriteFile(name)
      /\ \/ UNCHANGED mail
         \/ mail' = [file |-> name, about |-> made + 1]
      /\ loop' = loop \/ loop' = [loop EXCEPT !.pc = "mail"] \/ loop' = [loop EXCEPT !.pc = "check"]
  BY <1>3
<1> HIDE DEF name
<1>6. /\ made' = made + 1 /\ made' \in Nat /\ made + 1 \in 1..made'
      /\ madeAt' \in [1..made' -> Time]
      /\ files' \in [File -> 0..made'] /\ files'[name] = made + 1
      /\ madeAt'[made + 1] = now
      /\ \A k \in 1..made : madeAt'[k] = madeAt[k]
      /\ \A f \in File : files[f] <= files'[f]
      /\ WrittenInv'
  BY <1>4, <1>5, WriteKeeps
<1>7. report' = Nothing /\ UNCHANGED <<dataVars, schedules, sent, firedVars, changed, countVars>>
  BY DEF Export
<1>8. loop' \in [pc : {"sleep", "check", "report", "mail"}, wake : Nat, at : Time, todo : SUBSET Client]
  BY <1>5 DEF ReportInv, ReportTypeOK
<1>9. mail' \in Letter \cup {Nothing}
  <2>1. CASE UNCHANGED mail
    BY <2>1 DEF ReportInv, ReportTypeOK
  <2>2. CASE mail' = [file |-> name, about |-> made + 1]
    BY <1>4, <1>6, <2>2 DEF Letter
  <2>3. QED
    BY <1>5, <2>1, <2>2
<1>10. made \in Nat /\ files \in [File -> 0..made] /\ mail \in Letter \cup {Nothing}
  BY DEF ReportInv, ReportTypeOK
<1>11. LetterInv'
  <2>1. CASE mail' = [file |-> name, about |-> made + 1]
    <3>1. mail'.file = name /\ mail'.about = made + 1
      BY <2>1
    <3>2. made + 1 <= made + 1
      BY <1>10
    <3>3. QED
      BY <1>4, <1>6, <3>1, <3>2 DEF LetterInv
  <2>2. CASE UNCHANGED mail /\ mail # Nothing
    <3>1. /\ mail.about \in 1..made /\ mail.about <= files[mail.file]
          /\ madeAt[mail.about] = mail.file[3] /\ mail.file \in File
      BY <1>10, <2>2 DEF ReportInv, LetterInv, Letter
    <3>2. files[mail.file] <= files'[mail.file] /\ files[mail.file] \in Nat /\ files'[mail.file] \in Nat
      BY <1>6, <1>10, <3>1
    <3>3. mail.about \in 1..made' /\ mail.about <= files'[mail.file]
      BY <1>6, <1>10, <3>1, <3>2
    <3>4. QED
      BY <1>6, <2>2, <3>1, <3>3 DEF LetterInv
  <2>3. CASE UNCHANGED mail /\ mail = Nothing
    BY <2>3 DEF LetterInv
  <2>4. QED
    BY <1>5, <2>1, <2>2, <2>3
<1>12. sent' \in [own : 1..made', inside : 0..made'] \cup {Nothing}
  <2>1. sent \in [own : 1..made, inside : 0..made] \cup {Nothing}
    BY DEF ReportInv, ReportTypeOK
  <2>2. 1..made \subseteq 1..made' /\ 0..made \subseteq 0..made'
    BY <1>6, <1>10
  <2>3. QED
    BY <1>7, <2>1, <2>2
<1>13. MailHoldsItsReport'
  <2>1. ASSUME sent # Nothing, sent.inside # sent.own
        PROVE  sent.inside > sent.own /\ madeAt'[sent.inside] = madeAt'[sent.own]
    <3>1. sent.own \in 1..made /\ sent.inside \in 0..made
      BY <2>1 DEF ReportInv, ReportTypeOK
    <3>2. sent.inside > sent.own /\ madeAt[sent.inside] = madeAt[sent.own]
      BY <2>1 DEF ReportInv, MailHoldsItsReport
    <3>3. sent.inside \in 1..made
      BY <1>10, <3>1, <3>2
    <3>4. QED
      BY <1>6, <3>1, <3>2, <3>3
  <2>2. QED
    BY <1>7, <2>1 DEF MailHoldsItsReport
<1>14. DraftInv'
  BY <1>7 DEF DraftInv
<1>15. ReportTypeOK'
  BY <1>6, <1>7, <1>8, <1>9, <1>12 DEF ReportInv, ReportTypeOK, dataVars, firedVars, countVars
<1>16. QED
  BY <1>6, <1>11, <1>13, <1>14, <1>15 DEF ReportInv

(* A report that could not be written leaves at most its first table. *)
LEMMA ExportFailsKeeps ==
  ASSUME ReportInv, ExportFails, now' = now
  PROVE  ReportInv'
<1>1. report \in Draft /\ report # Nothing /\ report.client \in Client /\ made \in Nat
  BY DEF ReportInv, ReportTypeOK, ExportFails, Complete, Draft
<1>2. report' = Nothing /\ UNCHANGED <<dataVars, schedules, mailVars, firedVars, changed, countVars>>
  BY DEF ExportFails
<1>3. loop' \in [pc : {"sleep", "check", "report", "mail"}, wake : Nat, at : Time, todo : SUBSET Client]
  BY DEF ReportInv, ReportTypeOK, ExportFails
<1>4. DraftInv'
  BY <1>2 DEF DraftInv
<1>5. CASE UNCHANGED fileVars
  BY <1>2, <1>3, <1>4, <1>5, FilesKept
  DEF ReportInv, ReportTypeOK, dataVars, fileVars, mailVars, firedVars, countVars
<1>6. CASE WriteFile(CsvFile(report.client))
  <2> DEFINE name == CsvFile(report.client)
  <2>1. name \in File /\ name[3] = now
    BY <1>1 DEF ReportInv, CsvFile, File
  <2> HIDE DEF name
  <2>2. /\ made' = made + 1 /\ made' \in Nat
        /\ madeAt' \in [1..made' -> Time] /\ files' \in [File -> 0..made']
        /\ \A k \in 1..made : madeAt'[k] = madeAt[k]
        /\ \A f \in File : files[f] <= files'[f]
        /\ WrittenInv'
    BY <1>6, <2>1, WriteKeeps DEF name
  <2>3. 1..made \subseteq 1..made' /\ 0..made \subseteq 0..made'
    BY <1>1, <2>2
  <2>4. UNCHANGED <<mail, sent>>
    BY <1>2 DEF mailVars
  <2>5. sent' \in [own : 1..made', inside : 0..made'] \cup {Nothing}
    BY <2>3, <2>4 DEF ReportInv, ReportTypeOK
  <2>6. LetterInv'
    <3>1. ASSUME mail # Nothing
          PROVE  /\ mail.about \in 1..made' /\ mail.about <= files'[mail.file]
                 /\ madeAt'[mail.about] = mail.file[3]
      <4>1. /\ mail.about \in 1..made /\ mail.about <= files[mail.file]
            /\ madeAt[mail.about] = mail.file[3] /\ mail.file \in File
        BY <3>1 DEF ReportInv, ReportTypeOK, LetterInv, Letter
      <4>2. files \in [File -> 0..made]
        BY DEF ReportInv, ReportTypeOK
      <4>3. files[mail.file] <= files'[mail.file] /\ files[mail.file] \in Nat /\ files'[mail.file] \in Nat
        BY <1>1, <2>2, <4>1, <4>2
      <4>4. mail.about <= files'[mail.file]
        BY <1>1, <4>1, <4>3
      <4>5. QED
        BY <2>2, <2>3, <4>1, <4>4
    <3>2. QED
      BY <2>4, <3>1 DEF LetterInv
  <2>7. MailHoldsItsReport'
    <3>1. ASSUME sent # Nothing, sent.inside # sent.own
          PROVE  sent.inside > sent.own /\ madeAt'[sent.inside] = madeAt'[sent.own]
      <4>1. sent.own \in 1..made /\ sent.inside \in 0..made
        BY <3>1 DEF ReportInv, ReportTypeOK
      <4>2. sent.inside > sent.own /\ madeAt[sent.inside] = madeAt[sent.own]
        BY <3>1 DEF ReportInv, MailHoldsItsReport
      <4>3. sent.inside \in 1..made
        BY <1>1, <4>1, <4>2
      <4>4. QED
        BY <2>2, <4>1, <4>2, <4>3
    <3>2. QED
      BY <2>4, <3>1 DEF MailHoldsItsReport
  <2>8. ReportTypeOK'
    BY <1>2, <1>3, <2>2, <2>4, <2>5 DEF ReportInv, ReportTypeOK, dataVars, mailVars, firedVars, countVars
  <2>9. QED
    BY <1>4, <2>2, <2>6, <2>7, <2>8 DEF ReportInv
<1>7. QED
  BY <1>5, <1>6 DEF ExportFails

(* The thread reads what the file holds by then. *)
LEMMA SendMailKeeps ==
  ASSUME ReportInv, SendMail, now' = now
  PROVE  ReportInv'
<1>1. /\ mail \in Letter /\ mail.file \in File /\ mail.about \in 1..made
      /\ mail.about <= files[mail.file] /\ madeAt[mail.about] = mail.file[3]
      /\ files \in [File -> 0..made] /\ made \in Nat
  BY DEF ReportInv, ReportTypeOK, LetterInv, SendMail, Letter
<1>2. /\ sent' = [own |-> mail.about, inside |-> files[mail.file]] /\ mail' = Nothing
      /\ UNCHANGED <<dataVars, schedules, report, fileVars, firedVars, changed, countVars>>
  BY DEF SendMail
<1>3. sent' \in [own : 1..made, inside : 0..made]
  BY <1>1, <1>2
<1>4. loop' \in [pc : {"sleep", "check", "report", "mail"}, wake : Nat, at : Time, todo : SUBSET Client]
  BY DEF ReportInv, ReportTypeOK, SendMail
<1>5. MailHoldsItsReport'
  <2>1. sent'.own = mail.about /\ sent'.inside = files[mail.file] /\ madeAt' = madeAt
    BY <1>2 DEF fileVars
  <2>2. files[mail.file] \in Nat /\ mail.about \in Nat /\ files[mail.file] # 0
    BY <1>1
  <2>3. madeAt[files[mail.file]] = mail.file[3]
    BY <1>1, <2>2 DEF ReportInv, WrittenInv
  <2>4. files[mail.file] # mail.about => files[mail.file] > mail.about
    BY <1>1, <2>2
  <2>5. QED
    BY <1>1, <2>1, <2>3, <2>4 DEF MailHoldsItsReport
<1>6. WrittenInv' /\ LetterInv' /\ DraftInv'
  BY <1>2 DEF ReportInv, WrittenInv, LetterInv, DraftInv, fileVars
<1>7. ReportTypeOK'
  BY <1>2, <1>3, <1>4 DEF ReportInv, ReportTypeOK, dataVars, fileVars, firedVars, countVars
<1>8. QED
  BY <1>5, <1>6, <1>7 DEF ReportInv

(* The loop's own steps, requests for a report and changes to schedules. *)
LEMMA ScheduleKeeps ==
  ASSUME ReportInv, now' = now,
         \/ StartCheck \/ EndCheck \/ DownloadNext
         \/ \E c \in Client : \/ PassOver(c) \/ Fire(c) \/ CheckBreaks(c)
                              \/ \E s \in Schedules \cup {Nothing} : ChangeSchedule(c, s)
  PROVE  ReportInv'
<1>0. now \in Time /\ now \in Nat
  BY TimeIsNat DEF ReportInv
<1>1. CASE StartCheck
  <2>1. loop' \in [pc : {"sleep", "check", "report", "mail"}, wake : Nat, at : Time, todo : SUBSET Client]
    BY <1>0, <1>1 DEF ReportInv, ReportTypeOK, StartCheck
  <2>2. WrittenInv' /\ LetterInv' /\ MailHoldsItsReport' /\ DraftInv'
    BY <1>1, FilesKept DEF StartCheck, ReportInv, DraftInv
  <2>3. ReportTypeOK'
    BY <1>1, <2>1 DEF StartCheck, ReportInv, ReportTypeOK, dataVars, fileVars, mailVars, countVars
  <2>4. QED
    BY <1>0, <2>2, <2>3 DEF ReportInv
<1>2. CASE EndCheck \/ \E c \in Client : CheckBreaks(c)
  <2>1. loop' \in [pc : {"sleep", "check", "report", "mail"}, wake : Nat, at : Time, todo : SUBSET Client]
    <3>1. now + Minute \in Nat
      BY <1>0, ReportAssumption
    <3>2. QED
      BY <1>2, <3>1 DEF ReportInv, ReportTypeOK, EndCheck, CheckBreaks
  <2>2. WrittenInv' /\ LetterInv' /\ MailHoldsItsReport' /\ DraftInv'
    BY <1>2, FilesKept DEF EndCheck, CheckBreaks, ReportInv, DraftInv
  <2>3. ReportTypeOK'
    BY <1>2, <2>1 DEF EndCheck, CheckBreaks, ReportInv, ReportTypeOK, dataVars, fileVars, mailVars, firedVars, countVars
  <2>4. QED
    BY <1>0, <2>2, <2>3 DEF ReportInv
<1>3. ASSUME NEW c \in Client, NEW days \in Periods, Download(c, days)
      PROVE  ReportInv'
  <2>1. report' \in Draft /\ report'.by = "request"
    BY <1>0, <1>3, NewDraftType DEF Download, NewDraft
  <2>2. downloads' \in 0..MaxDownloads
    BY <1>3, ReportAssumption DEF Download, ReportInv, ReportTypeOK
  <2>3. WrittenInv' /\ LetterInv' /\ MailHoldsItsReport' /\ DraftInv'
    BY <1>3, <2>1, FilesKept DEF Download, DraftInv
  <2>4. ReportTypeOK'
    BY <1>3, <2>1, <2>2 DEF Download, ReportInv, ReportTypeOK, dataVars, fileVars, mailVars, firedVars
  <2>5. QED
    BY <1>0, <1>3, <2>3, <2>4 DEF ReportInv
<1>4. ASSUME NEW c \in Client, PassOver(c)
      PROVE  ReportInv'
  <2>1. loop' \in [pc : {"sleep", "check", "report", "mail"}, wake : Nat, at : Time, todo : SUBSET Client]
    BY <1>4 DEF ReportInv, ReportTypeOK, PassOver
  <2>2. WrittenInv' /\ LetterInv' /\ MailHoldsItsReport' /\ DraftInv'
    BY <1>4, FilesKept DEF PassOver, ReportInv, DraftInv
  <2>3. ReportTypeOK'
    BY <1>4, <2>1 DEF PassOver, ReportInv, ReportTypeOK, dataVars, fileVars, mailVars, firedVars, countVars
  <2>4. QED
    BY <1>0, <2>2, <2>3 DEF ReportInv
<1>5. ASSUME NEW c \in Client, Fire(c)
      PROVE  ReportInv'
  <2>1. /\ report' = NewDraft("loop", c, ScheduledPeriod)
        /\ schedules[c] # Nothing /\ schedules' = schedules
        /\ fired' = Append(fired, <<c, loop.at>>)
        /\ served' = served \cup {c}
        /\ UNCHANGED <<dataVars, fileVars, mailVars, begun, changed, countVars>>
    BY <1>5 DEF Fire, DueNow
  <2>2. report' \in Draft /\ report'.client = c
    BY <1>0, <2>1, NewDraftType, ReportAssumption DEF NewDraft
  <2>3. loop' \in [pc : {"sleep", "check", "report", "mail"}, wake : Nat, at : Time, todo : SUBSET Client]
    BY <1>5 DEF ReportInv, ReportTypeOK, Fire
  <2>4. fired' \in Seq(Client \X Time)
    <3>1. fired \in Seq(Client \X Time) /\ loop.at \in Time
      BY DEF ReportInv, ReportTypeOK
    <3>2. <<c, loop.at>> \in Client \X Time
      BY <3>1
    <3>3. QED
      BY <2>1, <3>1, <3>2
  <2>5. WrittenInv' /\ LetterInv' /\ MailHoldsItsReport' /\ DraftInv'
    BY <2>1, <2>2, FilesKept DEF DraftInv
  <2>6. ReportTypeOK'
    BY <2>1, <2>2, <2>3, <2>4 DEF ReportInv, ReportTypeOK, dataVars, fileVars, mailVars, countVars
  <2>7. QED
    BY <1>0, <1>5, <2>5, <2>6 DEF ReportInv
<1>6. ASSUME NEW c \in Client, NEW s \in Schedules \cup {Nothing}, ChangeSchedule(c, s)
      PROVE  ReportInv'
  <2>1. /\ report = Nothing /\ report' = Nothing
        /\ schedules' \in [Client -> Schedules \cup {Nothing}]
        /\ changed' \subseteq Client /\ changes' \in 0..MaxChanges
        /\ UNCHANGED <<dataVars, loop, fileVars, mailVars, firedVars, downloads>>
    BY <1>6, ReportAssumption DEF ChangeSchedule, LoopFree, ReportInv, ReportTypeOK
  <2>2. WrittenInv' /\ LetterInv' /\ MailHoldsItsReport' /\ DraftInv'
    BY <2>1, FilesKept DEF DraftInv
  <2>3. ReportTypeOK'
    BY <2>1 DEF ReportInv, ReportTypeOK, dataVars, fileVars, mailVars, firedVars, countVars
  <2>4. QED
    BY <1>0, <2>2, <2>3 DEF ReportInv
<1>7. QED
  BY <1>1, <1>2, <1>3, <1>4, <1>5, <1>6 DEF DownloadNext

(* Rows come and go. *)
LEMMA DashboardKeeps ==
  ASSUME ReportInv, DashboardNext, now' = now
  PROVE  ReportInv'
<1>1. table \subseteq Row /\ rowAt \in [Row -> Time \cup {-1}] /\ now \in Time
      /\ report \in Draft \cup {Nothing}
  BY DEF ReportInv, ReportTypeOK
<1>2. PICK S \in SUBSET Row :
        /\ table' \subseteq Row /\ rowAt' \in [Row -> Time \cup {-1}]
        /\ report' = Touch(S)
        /\ UNCHANGED <<schedules, loop, fileVars, mailVars, firedVars, changed, countVars>>
  <2>1. ASSUME NEW i \in Row, DashboardWrites(i)
        PROVE  /\ table' \subseteq Row /\ rowAt' \in [Row -> Time \cup {-1}]
               /\ report' = Touch({i})
               /\ UNCHANGED <<schedules, loop, fileVars, mailVars, firedVars, changed, countVars>>
    BY <1>1, <2>1 DEF DashboardWrites
  <2>2. ASSUME NEW c \in Client, DashboardErases(c)
        PROVE  \E S \in SUBSET Row :
               /\ table' \subseteq Row /\ rowAt' \in [Row -> Time \cup {-1}]
               /\ report' = Touch(S)
               /\ UNCHANGED <<schedules, loop, fileVars, mailVars, firedVars, changed, countVars>>
    <3>1. {i \in table : Feedback[i].client = c} \in SUBSET Row
      BY <1>1
    <3>2. QED
      BY <1>1, <2>2, <3>1 DEF DashboardErases
  <2>3. QED
    BY <2>1, <2>2 DEF DashboardNext
<1>3. report' \in Draft \cup {Nothing}
  BY <1>1, <1>2, TouchedType
<1>4. DraftInv'
  <2>1. CASE report = Nothing
    BY <1>1, <1>2, <2>1, TouchedType DEF DraftInv
  <2>2. CASE report # Nothing
    <3>1. report'.by = report.by /\ report'.client = report.client /\ schedules' = schedules
      BY <1>1, <1>2, <2>2, TouchedType
    <3>2. QED
      BY <2>2, <3>1 DEF DraftInv, ReportInv
  <2>3. QED
    BY <2>1, <2>2
<1>5. ReportTypeOK'
  BY <1>2, <1>3 DEF ReportInv, ReportTypeOK, fileVars, mailVars, firedVars, countVars
<1>6. QED
  BY <1>1, <1>2, <1>4, <1>5, FilesKept DEF ReportInv

(* A restart loses the draft and the mail, not the files. *)
LEMMA ReportRestartKeeps ==
  ASSUME ReportInv, ReportRestart, now' = now
  PROVE  ReportInv'
<1>1. now \in Time /\ now \in Nat
  BY TimeIsNat DEF ReportInv
<1>2. SchedulerAsleep \in [pc : {"sleep", "check", "report", "mail"}, wake : Nat, at : Time, todo : SUBSET Client]
  BY <1>1 DEF SchedulerAsleep
<1>3. /\ loop' = SchedulerAsleep /\ report' = Nothing /\ mail' = Nothing
      /\ served' = {} /\ begun' = begun \cup {now} /\ changed' = {}
      /\ UNCHANGED <<dataVars, schedules, fileVars, sent, fired, countVars>>
  BY DEF ReportRestart
<1>4. ReportTypeOK'
  BY <1>1, <1>2, <1>3 DEF ReportInv, ReportTypeOK, dataVars, fileVars, countVars
<1>5. WrittenInv' /\ LetterInv' /\ DraftInv' /\ MailHoldsItsReport'
  BY <1>3 DEF ReportInv, WrittenInv, LetterInv, DraftInv, MailHoldsItsReport, fileVars
<1>6. QED
  BY <1>1, <1>4, <1>5 DEF ReportInv

(* The files and mails of a new process on an empty directory. *)
LEMMA ReportInitially == ASSUME Init PROVE ReportInv
<1>1. now = 0 /\ 0 \in Time /\ 0 \in Nat /\ 0 \in 0..MaxDownloads /\ 0 \in 0..MaxChanges
  BY ClockAssumption, ReportAssumption DEF Init, ClockInit, Time
<1>2. ReportInit
  BY DEF Init
<1>3. SchedulerAsleep \in [pc : {"sleep", "check", "report", "mail"}, wake : Nat, at : Time, todo : SUBSET Client]
  BY <1>1 DEF SchedulerAsleep
<1>4. rowAt \in [Row -> Time \cup {-1}] /\ table \subseteq Row
  BY <1>1, <1>2 DEF ReportInit
<1>5. /\ madeAt \in Seq(Time) /\ Len(madeAt) = 0 /\ made = 0
      /\ madeAt \in [1..0 -> Time]
  BY <1>2 DEF ReportInit
<1>6. files \in [File -> 0..0] /\ \A f \in File : files[f] = 0
  BY <1>2 DEF ReportInit
<1>7. fired \in Seq(Client \X Time)
  BY <1>2 DEF ReportInit
<1>8. ReportTypeOK
  BY <1>1, <1>2, <1>3, <1>4, <1>5, <1>6, <1>7 DEF ReportInit, ReportTypeOK
<1>9. WrittenInv /\ LetterInv /\ DraftInv /\ MailHoldsItsReport
  BY <1>2, <1>5, <1>6 DEF ReportInit, WrittenInv, LetterInv, DraftInv, MailHoldsItsReport
<1>10. QED
  BY <1>1, <1>8, <1>9 DEF ReportInv

(* The invariant of the files and mails (scheduler.py, exporters.py). *)
THEOREM ReportInvariant == Spec => []ReportInv
<1>1. Init => ReportInv
  BY ReportInitially
<1>2. ReportInv /\ [Next]_vars => ReportInv'
  <2> SUFFICES ASSUME ReportInv, [Next]_vars
               PROVE  ReportInv'
    OBVIOUS
  <2>1. CASE UNCHANGED reportVars /\ (now' = now \/ Advance)
    <3>1. now' \in Time
      BY <2>1, ClockSteps DEF ReportInv
    <3>2. WrittenInv' /\ LetterInv' /\ MailHoldsItsReport' /\ DraftInv'
      BY <2>1, FilesKept DEF reportVars, ReportInv, DraftInv
    <3>3. ReportTypeOK'
      BY <2>1 DEF ReportInv, ReportTypeOK, reportVars, dataVars, fileVars, mailVars, firedVars, countVars
    <3>4. QED
      BY <3>1, <3>2, <3>3 DEF ReportInv
  <2>2. CASE (ReportNext \/ QueryFails \/ DownloadNext \/ ScheduleNext \/ DashboardNext) /\ now' = now
    BY <2>2, QueryKeeps, ExportKeeps, ExportFailsKeeps, SendMailKeeps, ScheduleKeeps, DashboardKeeps
    DEF ReportNext, ScheduleNext
  <2>3. CASE ReportRestart /\ now' = now
    BY <2>3, ReportRestartKeeps
  <2>4. CASE UNCHANGED vars
    BY <2>1, <2>4 DEF vars
  <2>5. QED
    BY <2>1, <2>2, <2>3, <2>4, StepsOfReports
<1>3. QED
  BY <1>1, <1>2, PTL DEF Spec

(* A mail carries the report it is about or one of the same second *)
(* (scheduler.py:_fire_report, exporters.py). *)
THEOREM MailsHoldTheirReports == Spec => []MailHoldsItsReport
<1>1. ReportInv => MailHoldsItsReport
  BY DEF ReportInv
<1>2. QED
  BY <1>1, ReportInvariant, PTL

(* The result store. *)
StoreInv ==
  /\ traffic \in Traffic
  /\ requests \in [Request -> {"new", "running", "over"}]
  /\ results \in Seq(Request) /\ Len(results) <= MaxResults
  /\ restarts \in 0..MaxRestarts

(* The store evicts when it is over its bound. *)
LEMMA CacheKeeps ==
  ASSUME results \in Seq(Request), Len(results) <= MaxResults, NEW q \in Request, CacheResult(q)
  PROVE  results' \in Seq(Request) /\ Len(results') <= MaxResults
<1> DEFINE all == Append(results, q)
<1>1. all \in Seq(Request) /\ Len(all) = Len(results) + 1 /\ Len(results) \in Nat /\ MaxResults \in Nat
  BY ApiAssumption
<1>2. results' = IF Len(all) > MaxResults THEN Tail(all) ELSE all
  BY DEF CacheResult
<1> HIDE DEF all
<1>3. all # <<>>
  BY <1>1
<1>4. Tail(all) \in Seq(Request) /\ Len(Tail(all)) = Len(all) - 1
  BY <1>1, <1>3
<1>5. QED
  BY <1>1, <1>2, <1>4

(* The requests and the store are of their types. *)
LEMMA StoreInvariant == Spec => []StoreInv
<1>1. Init => StoreInv
  BY ApiAssumption DEF Init, StoreInv
<1>2. StoreInv /\ [Next]_vars => StoreInv'
  <2> SUFFICES ASSUME StoreInv, [Next]_vars
               PROVE  StoreInv'
    OBVIOUS
  <2>1. ASSUME NEW c \in Caller,
               RejectRequest(c) \/ \E a \in Accuracy : SubmitFeedback(c, a)
        PROVE  StoreInv'
    BY <2>1 DEF RejectRequest, SubmitFeedback, StoreInv, apiVars
  <2>2. ASSUME NEW c \in Caller, NEW q \in Request, BeginAnalysis(c, q)
        PROVE  StoreInv'
    BY <2>2 DEF BeginAnalysis, StoreInv
  <2>3. ASSUME NEW q \in Request, FailAnalysis(q)
        PROVE  StoreInv'
    BY <2>3 DEF FailAnalysis, StoreInv
  <2>4. ASSUME NEW q \in Request, NEW ms \in Latency, EndAnalysis(q, ms)
        PROVE  StoreInv'
    <3>1. results' \in Seq(Request) /\ Len(results') <= MaxResults
      BY <2>4, CacheKeeps DEF EndAnalysis, StoreInv
    <3>2. QED
      BY <2>4, <3>1 DEF EndAnalysis, StoreInv
  <2>5. CASE HealthStep
    BY <2>5 DEF HealthStep, StoreInv, apiVars
  <2>6. CASE ReportStep
    BY <2>6 DEF ReportStep, StoreInv, apiVars
  <2>7. CASE Tick
    BY <2>7 DEF Tick, StoreInv, apiVars
  <2>8. CASE Restart
    <3>1. restarts' \in 0..MaxRestarts /\ traffic' = traffic
      BY <2>8, ApiAssumption DEF Restart, StoreInv
    <3>2. requests' \in [Request -> {"new", "running", "over"}]
      BY <2>8 DEF Restart, StoreInv
    <3>3. results' \in Seq(Request) /\ Len(results') <= MaxResults
      BY <2>8, ApiAssumption DEF Restart
    <3>4. QED
      BY <3>1, <3>2, <3>3 DEF StoreInv
  <2>9. CASE UNCHANGED vars
    BY <2>9 DEF vars, StoreInv, apiVars
  <2>10. QED
    BY <2>1, <2>2, <2>3, <2>4, <2>5, <2>6, <2>7, <2>8, <2>9 DEF Next
<1>3. QED
  BY <1>1, <1>2, PTL DEF Spec

(* The buckets are sequences of times. *)
LEMMA LimiterTyped == Spec => [](now \in Time /\ LimiterTypeOK)
<1>1. Init => now \in Time /\ LimiterTypeOK
  BY ClockAssumption DEF Init, ClockInit, Time, LimiterInit, LimiterTypeOK
<1>2. (now \in Time /\ LimiterTypeOK) /\ [Next]_vars => (now \in Time /\ LimiterTypeOK)'
  <2> SUFFICES ASSUME now \in Time, LimiterTypeOK, [Next]_vars
               PROVE  now' \in Time /\ LimiterTypeOK'
    OBVIOUS
  <2>1. ASSUME NEW c \in Caller, Admit(c) \/ Refuse(c), now' = now
        PROVE  now' \in Time /\ LimiterTypeOK'
    <3>1. stamps[c] \in Seq(Time) /\ accepted[c] \in Seq(Time)
      BY DEF LimiterTypeOK
    <3>2. Fresh(stamps[c]) \in Seq(Time)
      BY <3>1, FreshOf
    <3>3. Append(Fresh(stamps[c]), now) \in Seq(Time) /\ Append(accepted[c], now) \in Seq(Time)
      BY <3>1, <3>2
    <3>4. QED
      BY <2>1, <3>2, <3>3 DEF Admit, Refuse, LimiterTypeOK
  <2>2. CASE (Advance \/ now' = now) /\ UNCHANGED limiterVars
    BY <2>2, ClockSteps DEF limiterVars, LimiterTypeOK
  <2>3. CASE /\ stamps' = [c \in Caller |-> <<>>] /\ accepted' = [c \in Caller |-> <<>>]
             /\ now' = now
    BY <2>3 DEF LimiterTypeOK
  <2>4. CASE UNCHANGED vars
    BY <2>2, <2>4 DEF vars
  <2>5. QED
    BY <2>1, <2>2, <2>3, <2>4, StepsOfTheLimiter
<1>3. QED
  BY <1>1, <1>2, PTL DEF Spec

(* Every variable of the process keeps its type; the result store stays within *)
(* its bound (_cache_result). *)
THEOREM ProcessTyped == Spec => []TypeOK
<1>1. (now \in Time /\ LimiterTypeOK) /\ HealthInv /\ ReportInv /\ StoreInv => TypeOK
  BY DEF HealthInv, ReportInv, StoreInv, TypeOK, ClockTypeOK
<1>2. QED
  BY <1>1, LimiterTyped, HealthInvariant, ReportInvariant, StoreInvariant, PTL

----------------------------------------------------------------------------
(* Minutes are in the order of time; times a minute apart are in two minutes. *)
LEMMA MinutesInOrder ==
  ASSUME NEW x \in Nat, NEW y \in Nat
  PROVE  /\ x \div Minute \in Nat
         /\ x <= y => x \div Minute <= y \div Minute
         /\ x + Minute <= y => x \div Minute # y \div Minute
<1> DEFINE m == Minute
           a == x \div m
           b == y \div m
<1>1. m \in Nat /\ m > 0
  BY ReportAssumption
<1> HIDE DEF m
<1>2. /\ a \in Int /\ b \in Int
      /\ a * m <= x /\ x < (a + 1) * m
      /\ b * m <= y /\ y < (b + 1) * m
  BY <1>1
<1> HIDE DEF a, b
<1>3. a \in Nat
  <2>1. CASE a < 0
    <3>1. (a + 1) * m <= 0
      BY <1>1, <1>2, <2>1
    <3>2. QED
      BY <1>1, <1>2, <3>1
  <2>2. QED
    BY <1>2, <2>1
<1>4. x <= y => a <= b
  <2>1. ASSUME x <= y, b + 1 <= a
        PROVE  FALSE
    <3>1. (b + 1) * m <= a * m
      BY <1>1, <1>2, <2>1
    <3>2. (b + 1) * m \in Int /\ a * m \in Int
      BY <1>1, <1>2
    <3>3. QED
      BY <1>2, <2>1, <3>1, <3>2
  <2>2. QED
    BY <1>2, <2>1
<1>5. x + m <= y => a # b
  <2>1. ASSUME x + m <= y, a = b
        PROVE  FALSE
    <3>1. (a + 1) * m = a * m + m /\ a * m \in Int
      BY <1>1, <1>2
    <3>2. QED
      BY <1>1, <1>2, <2>1, <3>1
  <2>2. QED
    BY <2>1
<1>6. QED
  BY <1>3, <1>4, <1>5 DEF a, b, m

(* What the scheduler is at, and where a report that it fired stands: before a *)
(* start of the process, a minute before the next check or the running one, or *)
(* of the running one, whose client has had its turn. *)
LoopInv ==
  /\ loop.at <= now /\ \A t \in begun : t <= now
  /\ report # Nothing /\ report.by = "loop" => loop.pc = "report"
  /\ mail # Nothing => loop.pc = "mail"
Settled(i) ==
  \/ \E t \in begun : fired[i][2] <= t /\ t <= loop.at
  \/ loop.pc = "sleep" /\ fired[i][2] + Minute <= loop.wake
  \/ loop.pc # "sleep" /\ fired[i][2] + Minute <= loop.at
  \/ loop.pc # "sleep" /\ fired[i][2] = loop.at /\ fired[i][1] \notin loop.todo
FiredInv == \A i \in 1..Len(fired) : fired[i][2] <= loop.at /\ Settled(i)
Begun == loop.pc # "sleep" \/ loop.wake > loop.at
ServedInv ==
  /\ Begun => \A c \in Client \ (changed \cup loop.todo) : DueNow(c) => c \in served
  /\ Begun /\ loop.pc = "sleep" /\ loop.todo # {} =>
       \E b \in loop.todo : Raises(b) \/ b \in changed
SchedulerInv == LoopInv /\ FiredInv /\ ServedInv /\ FiredOncePerMinute

(* The times that the scheduler compares are numbers. *)
LEMMA FiredAre ==
  ASSUME ReportInv
  PROVE  /\ Len(fired) \in Nat /\ loop.at \in Nat /\ loop.at \in Time /\ loop.wake \in Nat /\ now \in Nat
         /\ begun \subseteq Nat /\ Minute \in Nat /\ Minute > 0
         /\ \A i \in 1..Len(fired) : fired[i] \in Client \X Time /\ fired[i][2] \in Nat
<1>1. \A i \in 1..Len(fired) : fired[i] \in Client \X Time
  BY DEF ReportInv, ReportTypeOK
<1>2. \A i \in 1..Len(fired) : fired[i][2] \in Time
  BY <1>1
<1>3. Len(fired) \in Nat
  BY DEF ReportInv, ReportTypeOK
<1>4. loop.at \in Time /\ loop.wake \in Nat /\ begun \subseteq Time /\ now \in Time
  BY DEF ReportInv, ReportTypeOK
<1>5. Minute \in Nat /\ Minute > 0
  BY ReportAssumption
<1>6. \A i \in 1..Len(fired) : fired[i][2] \in Nat
  BY <1>2, TimeIsNat
<1>7. QED
  BY <1>1, <1>3, <1>4, <1>5, <1>6, TimeIsNat

(* A step that leaves the loop where it is. *)
LEMMA LoopRests ==
  ASSUME ReportInv, SchedulerInv, UNCHANGED <<loop, firedVars>>, now <= now', now' \in Nat,
         \/ schedules' = schedules /\ changed' = changed
         \/ \E c \in Client : /\ \A d \in Client \ {c} : schedules'[d] = schedules[d]
                              /\ changed' = changed \cup {c},
         report' # Nothing /\ report'.by = "loop" => report # Nothing /\ report.by = "loop",
         mail' # Nothing => mail # Nothing
  PROVE  SchedulerInv'
<1>1. LoopInv'
  BY FiredAre DEF SchedulerInv, LoopInv, firedVars
<1>2. FiredInv' /\ FiredOncePerMinute'
  BY DEF SchedulerInv, FiredInv, Settled, FiredOncePerMinute, firedVars
<1>3. /\ Begun' <=> Begun
      /\ loop' = loop /\ served' = served /\ changed \subseteq changed'
      /\ \A d \in Client \ changed' : schedules'[d] = schedules[d]
  BY DEF Begun, firedVars
<1>4. \A d \in Client \ changed' : (DueNow(d)' <=> DueNow(d)) /\ (Raises(d)' <=> Raises(d))
  BY <1>3 DEF DueNow, Raises
<1>5. ServedInv /\ loop.todo \subseteq Client
  BY DEF SchedulerInv, ReportInv, ReportTypeOK
<1>6. ASSUME Begun', NEW d \in Client \ (changed' \cup loop'.todo), DueNow(d)'
      PROVE  d \in served'
  BY <1>3, <1>4, <1>5, <1>6 DEF ServedInv
<1>7. ASSUME Begun', loop'.pc = "sleep", loop'.todo # {}
      PROVE  \E b \in loop'.todo : Raises(b)' \/ b \in changed'
  <2>1. PICK b \in loop.todo : Raises(b) \/ b \in changed
    BY <1>3, <1>5, <1>7 DEF ServedInv
  <2>2. CASE b \in changed'
    BY <1>3, <2>2
  <2>3. CASE b \notin changed'
    BY <1>3, <1>4, <1>5, <2>1, <2>3
  <2>4. QED
    BY <2>2, <2>3
<1>8. ServedInv'
  BY <1>6, <1>7 DEF ServedInv
<1>9. QED
  BY <1>1, <1>2, <1>8 DEF SchedulerInv

(* A step of the loop within a check. *)
LEMMA CheckGoesOn ==
  ASSUME ReportInv, SchedulerInv, UNCHANGED <<schedules, firedVars, changed>>, now' = now,
         NEW pc \in {"check", "mail"}, loop.pc # "sleep", loop' = [loop EXCEPT !.pc = pc],
         report' # Nothing => report'.by # "loop",
         mail' # Nothing => pc = "mail"
  PROVE  SchedulerInv'
<1>1. /\ loop'.pc = pc /\ loop'.at = loop.at /\ loop'.wake = loop.wake /\ loop'.todo = loop.todo
  BY DEF ReportInv, ReportTypeOK
<1>2. LoopInv'
  BY <1>1 DEF SchedulerInv, LoopInv, firedVars
<1>3. FiredInv' /\ FiredOncePerMinute'
  BY <1>1 DEF SchedulerInv, FiredInv, Settled, FiredOncePerMinute, firedVars
<1>4. ServedInv'
  BY <1>1 DEF SchedulerInv, ServedInv, Begun, DueNow, firedVars
<1>5. QED
  BY <1>2, <1>3, <1>4 DEF SchedulerInv

(* A check begins a minute after the last one ended. *)
LEMMA StartCheckKeeps ==
  ASSUME ReportInv, SchedulerInv, StartCheck, now' = now
  PROVE  SchedulerInv'
<1>1. /\ loop.pc = "sleep" /\ now >= loop.wake /\ report = Nothing
      /\ loop'.pc = "check" /\ loop'.at = now /\ loop'.todo = Client /\ loop'.wake = loop.wake
      /\ UNCHANGED <<report, mail, fired, begun>>
  BY DEF StartCheck, LoopFree, ReportInv, ReportTypeOK, mailVars
<1>2. LoopInv'
  BY <1>1, FiredAre DEF SchedulerInv, LoopInv
<1>3. ASSUME NEW i \in 1..Len(fired)
      PROVE  fired[i][2] <= now /\ Settled(i)'
  <2>1. fired[i][2] <= loop.at /\ loop.at <= now /\ Settled(i)
    BY DEF SchedulerInv, LoopInv, FiredInv
  <2>2. fired[i][2] <= now
    BY <2>1, FiredAre
  <2>3. CASE \E t \in begun : fired[i][2] <= t /\ t <= loop.at
    <3>1. PICK t \in begun : fired[i][2] <= t /\ t <= loop.at
      BY <2>3
    <3>2. t <= now
      BY <2>1, <3>1, FiredAre
    <3>3. QED
      BY <1>1, <2>2, <3>1, <3>2 DEF Settled
  <2>4. CASE fired[i][2] + Minute <= loop.wake
    <3>1. fired[i][2] + Minute <= now
      BY <1>1, <2>4, FiredAre
    <3>2. QED
      BY <1>1, <2>2, <3>1 DEF Settled
  <2>5. QED
    BY <1>1, <2>1, <2>3, <2>4 DEF Settled
<1>4. FiredInv'
  BY <1>1, <1>3 DEF FiredInv
<1>5. ServedInv' /\ FiredOncePerMinute'
  BY <1>1 DEF SchedulerInv, ServedInv, Begun, FiredOncePerMinute
<1>6. QED
  BY <1>2, <1>4, <1>5 DEF SchedulerInv

(* The loop goes to sleep for a minute, because no client is left or because a  *)
(* schedule broke the check off. *)
LEMMA EndCheckKeeps ==
  ASSUME ReportInv, SchedulerInv, EndCheck \/ \E c \in Client : CheckBreaks(c), now' = now
  PROVE  SchedulerInv'
<1>1. /\ loop.pc = "check" /\ report = Nothing
      /\ loop'.pc = "sleep" /\ loop'.at = loop.at /\ loop'.wake = now + Minute
      /\ loop'.todo = loop.todo
      /\ loop.todo = {} \/ \E b \in loop.todo : Raises(b)
      /\ UNCHANGED <<schedules, report, mail, fired, served, begun, changed>>
  BY DEF EndCheck, CheckBreaks, Checking, ReportInv, ReportTypeOK, mailVars, firedVars
<1>2. LoopInv'
  BY <1>1 DEF SchedulerInv, LoopInv
<1>3. ASSUME NEW i \in 1..Len(fired)
      PROVE  fired[i][2] <= loop.at /\ Settled(i)'
  <2>1. fired[i][2] <= loop.at /\ loop.at <= now /\ Settled(i)
    BY DEF SchedulerInv, LoopInv, FiredInv
  <2>2. fired[i][2] + Minute <= now + Minute
    BY <2>1, FiredAre
  <2>3. QED
    BY <1>1, <2>1, <2>2 DEF Settled
<1>4. FiredInv'
  BY <1>1, <1>3 DEF FiredInv
<1>5. FiredOncePerMinute'
  BY <1>1 DEF SchedulerInv, FiredOncePerMinute
<1>6. ServedInv'
  BY <1>1 DEF SchedulerInv, ServedInv, Begun, DueNow, Raises
<1>7. QED
  BY <1>2, <1>4, <1>5, <1>6 DEF SchedulerInv

(* A client without a due report is passed over. *)
LEMMA PassOverKeeps ==
  ASSUME ReportInv, SchedulerInv, NEW c \in Client, PassOver(c), now' = now
  PROVE  SchedulerInv'
<1>1. /\ loop.pc = "check" /\ report = Nothing /\ ~DueNow(c)
      /\ loop'.pc = "check" /\ loop'.at = loop.at /\ loop'.todo = loop.todo \ {c}
      /\ UNCHANGED <<schedules, report, mail, fired, served, begun, changed>>
  BY DEF PassOver, Checking, ReportInv, ReportTypeOK, mailVars, firedVars
<1>2. LoopInv'
  BY <1>1 DEF SchedulerInv, LoopInv
<1>3. FiredInv' /\ FiredOncePerMinute'
  BY <1>1 DEF SchedulerInv, FiredInv, Settled, FiredOncePerMinute
<1>4. ServedInv'
  BY <1>1 DEF SchedulerInv, ServedInv, Begun, DueNow
<1>5. QED
  BY <1>2, <1>3, <1>4 DEF SchedulerInv

(* A client whose turn comes has had no report in this check; an earlier one is *)
(* a minute old, or of an earlier process. *)
LEMMA FireKeeps ==
  ASSUME ReportInv, SchedulerInv, NEW c \in Client, Fire(c), now' = now
  PROVE  SchedulerInv'
<1>0. PICK n \in Nat : n = Len(fired) + 1
  BY FiredAre
<1>1. /\ loop.pc = "check" /\ report = Nothing /\ c \in loop.todo
      /\ loop'.pc = "report" /\ loop'.at = loop.at /\ loop'.todo = loop.todo \ {c}
      /\ fired' = Append(fired, <<c, loop.at>>) /\ served' = served \cup {c}
      /\ UNCHANGED <<schedules, mail, begun, changed>>
  BY DEF Fire, Checking, ReportInv, ReportTypeOK, mailVars
<1>2. /\ Len(fired') = n /\ n \in Nat /\ fired'[n][1] = c /\ fired'[n][2] = loop.at
      /\ \A i \in 1..Len(fired) : fired'[i] = fired[i]
      /\ \A i \in 1..Len(fired') : i \in 1..Len(fired) \/ i = n
      /\ n \notin 1..Len(fired)
  <2>1. fired \in Seq(Client \X Time) /\ <<c, loop.at>> \in Client \X Time
    BY FiredAre DEF ReportInv, ReportTypeOK
  <2>2. Len(fired') = n /\ n \in Nat /\ fired'[n] = <<c, loop.at>>
        /\ \A i \in 1..Len(fired) : fired'[i] = fired[i]
    BY <1>0, <1>1, <2>1
  <2>3. QED
    BY <1>0, <2>2, FiredAre
<1>3. LoopInv'
  <2>1. report' # Nothing /\ report'.by = "loop" => loop'.pc = "report"
    BY <1>1
  <2>2. mail' = Nothing
    BY <1>1 DEF SchedulerInv, LoopInv
  <2>3. QED
    BY <1>1, <2>1, <2>2 DEF SchedulerInv, LoopInv
<1>4. ASSUME NEW i \in 1..Len(fired)
      PROVE  fired'[i][2] <= loop.at /\ Settled(i)'
  <2>1. fired[i][2] <= loop.at /\ Settled(i) /\ fired'[i] = fired[i]
    BY <1>2 DEF SchedulerInv, FiredInv
  <2>2. QED
    BY <1>1, <2>1 DEF Settled
<1>5. FiredInv'
  <2>1. loop.at <= loop.at /\ c \notin loop.todo \ {c}
    BY FiredAre
  <2>2. fired'[n][2] <= loop.at /\ Settled(n)'
    BY <1>1, <1>2, <2>1 DEF Settled
  <2>3. ASSUME NEW i \in 1..Len(fired')
        PROVE  fired'[i][2] <= loop'.at /\ Settled(i)'
    <3>1. CASE i = n
      BY <1>1, <2>2, <3>1
    <3>2. CASE i \in 1..Len(fired)
      BY <1>1, <1>4, <3>2
    <3>3. QED
      BY <1>2, <3>1, <3>2
  <2>4. QED
    BY <2>3 DEF FiredInv
<1>6. ServedInv'
  BY <1>1 DEF SchedulerInv, ServedInv, Begun, DueNow
<1>7. ASSUME NEW i \in 1..Len(fired), fired[i][1] = c,
             fired[i][2] \div Minute = loop.at \div Minute
      PROVE  \E t \in begun : t \div Minute = loop.at \div Minute /\ t >= fired[i][2]
  <2>1. Settled(i) /\ fired[i][2] \in Nat /\ loop.at \in Nat
    BY FiredAre DEF SchedulerInv, FiredInv
  <2>2. ~(fired[i][2] + Minute <= loop.at)
    BY <1>7, <2>1, MinutesInOrder
  <2>3. PICK t \in begun : fired[i][2] <= t /\ t <= loop.at
    BY <1>1, <1>7, <2>1, <2>2 DEF Settled
  <2>4. t \in Nat
    BY FiredAre
  <2>5. fired[i][2] \div Minute <= t \div Minute /\ t \div Minute <= loop.at \div Minute
        /\ t \div Minute \in Nat /\ loop.at \div Minute \in Nat
    BY <2>1, <2>3, <2>4, MinutesInOrder
  <2>6. t \div Minute = loop.at \div Minute /\ t >= fired[i][2]
    <3>1. t \div Minute = loop.at \div Minute
      BY <1>7, <2>5
    <3>2. t >= fired[i][2]
      BY <2>1, <2>3, <2>4
    <3>3. QED
      BY <3>1, <3>2
  <2>7. QED
    BY <2>6
<1>8. FiredOncePerMinute'
  <2> SUFFICES ASSUME NEW i \in 1..Len(fired'), NEW j \in 1..Len(fired'), i < j,
                      fired'[i][1] = fired'[j][1],
                      fired'[i][2] \div Minute = fired'[j][2] \div Minute
               PROVE  \E t \in begun : /\ t \div Minute = fired'[j][2] \div Minute
                                       /\ t >= fired'[i][2]
    BY <1>1 DEF FiredOncePerMinute
  <2>1. i \in 1..Len(fired) /\ (j \in 1..Len(fired) \/ j = n)
    <3>1. Len(fired) \in Nat /\ (j \in 1..Len(fired) \/ j = n)
      BY <1>2, FiredAre
    <3>2. i # n
      BY <1>2, <3>1
    <3>3. QED
      BY <1>2, <3>1, <3>2
  <2>2. CASE j \in 1..Len(fired)
    <3>1. fired'[i] = fired[i] /\ fired'[j] = fired[j]
      BY <1>2, <2>1, <2>2
    <3>2. FiredOncePerMinute
      BY DEF SchedulerInv
    <3>3. QED
      BY <2>1, <2>2, <3>1, <3>2 DEF FiredOncePerMinute
  <2>3. CASE j = n
    BY <1>2, <1>7, <2>1, <2>3
  <2>4. QED
    BY <2>1, <2>2, <2>3
<1>9. QED
  BY <1>3, <1>5, <1>6, <1>8 DEF SchedulerInv

(* A new process checks at once. *)
LEMMA SchedulerRestartKeeps ==
  ASSUME ReportInv, SchedulerInv, ReportRestart, now' = now
  PROVE  SchedulerInv'
<1>1. /\ loop'.pc = "sleep" /\ loop'.at = now /\ loop'.wake = now
      /\ report' = Nothing /\ mail' = Nothing /\ fired' = fired /\ begun' = begun \cup {now}
  BY DEF ReportRestart, SchedulerAsleep
<1>2. LoopInv'
  BY <1>1, FiredAre DEF SchedulerInv, LoopInv
<1>3. \A i \in 1..Len(fired) : fired[i][2] <= now
  BY FiredAre DEF SchedulerInv, LoopInv, FiredInv
<1>4. FiredInv'
  BY <1>1, <1>3, FiredAre DEF FiredInv, Settled
<1>5. ServedInv' /\ FiredOncePerMinute'
  BY <1>1, FiredAre DEF SchedulerInv, ServedInv, Begun, FiredOncePerMinute
<1>6. QED
  BY <1>2, <1>4, <1>5 DEF SchedulerInv

(* Queries, requests and the dashboard leave the loop where it is. *)
LEMMA SchedulerKeepsReports ==
  ASSUME ReportInv, SchedulerInv, now' = now, Query \/ QueryFails \/ DownloadNext \/ DashboardNext
  PROVE  SchedulerInv'
<1>1. now <= now' /\ now' \in Nat
  BY FiredAre
<1>2. CASE Query \/ QueryFails
  <2>1. report # Nothing /\ report \in Draft /\ report'.by = report.by
    BY <1>2 DEF Query, QueryFails, Making, ReportInv, ReportTypeOK, Draft
  <2>2. UNCHANGED <<schedules, loop, mail, firedVars, changed>>
    BY <1>2 DEF Query, QueryFails, mailVars
  <2>3. QED
    BY <1>1, <2>1, <2>2, LoopRests
<1>3. CASE DownloadNext
  <2>1. PICK c \in Client, days \in Periods : Download(c, days)
    BY <1>3 DEF DownloadNext
  <2>2. report'.by = "request" /\ UNCHANGED <<schedules, loop, mail, firedVars, changed>>
    BY <2>1 DEF Download, NewDraft, mailVars
  <2>3. QED
    BY <1>1, <2>2, LoopRests
<1>4. CASE DashboardNext
  <2>1. PICK S \in SUBSET Row : /\ report' = Touch(S)
                                /\ UNCHANGED <<schedules, loop, mail, firedVars, changed>>
    <3>1. ASSUME NEW i \in Row, DashboardWrites(i)
          PROVE  report' = Touch({i}) /\ UNCHANGED <<schedules, loop, mail, firedVars, changed>>
      BY <3>1 DEF DashboardWrites, mailVars
    <3>2. ASSUME NEW c \in Client, DashboardErases(c)
          PROVE  \E S \in SUBSET Row : /\ report' = Touch(S)
                                       /\ UNCHANGED <<schedules, loop, mail, firedVars, changed>>
      <4>1. {i \in table : Feedback[i].client = c} \in SUBSET Row
        BY DEF ReportInv, ReportTypeOK
      <4>2. QED
        BY <3>2, <4>1 DEF DashboardErases, mailVars
    <3>3. QED
      BY <1>4, <3>1, <3>2 DEF DashboardNext
  <2>2. report' # Nothing /\ report'.by = "loop" => report # Nothing /\ report.by = "loop"
    BY <2>1, TouchedType DEF ReportInv, ReportTypeOK
  <2>3. QED
    BY <1>1, <2>1, <2>2, LoopRests
<1>5. QED
  BY <1>2, <1>3, <1>4

(* The end of a report or of a mail lets the loop go on. *)
LEMMA SchedulerKeepsExports ==
  ASSUME ReportInv, SchedulerInv, now' = now, Export \/ ExportFails \/ SendMail
  PROVE  SchedulerInv'
<1>1. now <= now' /\ now' \in Nat
  BY FiredAre
<1>2. CASE Export
  <2>1. report' = Nothing /\ UNCHANGED <<schedules, firedVars, changed>>
    BY <1>2 DEF Export
  <2>2. \/ UNCHANGED <<loop, mail>>
        \/ /\ report.by # "request" /\ loop' = [loop EXCEPT !.pc = "mail"]
        \/ /\ report.by # "request" /\ loop' = [loop EXCEPT !.pc = "check"]
           /\ UNCHANGED mail
    BY <1>2 DEF Export
  <2>3. CASE UNCHANGED <<loop, mail>>
    BY <1>1, <2>1, <2>3, LoopRests
  <2>4. CASE report.by # "request"
    <3>1. report # Nothing /\ report.by = "loop"
      BY <1>2, <2>4 DEF Export, Complete, ReportInv, ReportTypeOK, Draft
    <3>2. loop.pc = "report" /\ mail = Nothing
      BY <3>1 DEF SchedulerInv, LoopInv
    <3>3. QED
      BY <2>1, <2>2, <2>3, <3>2, CheckGoesOn
  <2>5. QED
    BY <2>2, <2>3, <2>4
<1>3. CASE ExportFails
  <2>1. report' = Nothing /\ UNCHANGED <<schedules, mail, firedVars, changed>>
    BY <1>3 DEF ExportFails, mailVars
  <2>2. CASE UNCHANGED loop
    BY <1>1, <2>1, <2>2, LoopRests
  <2>3. CASE report.by = "loop" /\ loop' = [loop EXCEPT !.pc = "check"]
    <3>1. report # Nothing
      BY <1>3 DEF ExportFails, Complete
    <3>2. loop.pc = "report" /\ mail = Nothing
      BY <2>3, <3>1 DEF SchedulerInv, LoopInv
    <3>3. QED
      BY <2>1, <2>3, <3>2, CheckGoesOn
  <2>4. QED
    BY <1>3, <2>2, <2>3 DEF ExportFails
<1>4. CASE SendMail
  <2>1. /\ loop.pc = "mail" /\ mail' = Nothing /\ loop' = [loop EXCEPT !.pc = "check"]
        /\ UNCHANGED <<schedules, report, firedVars, changed>>
    BY <1>4 DEF SendMail, SchedulerInv, LoopInv
  <2>2. report' # Nothing => report'.by # "loop"
    BY <2>1 DEF SchedulerInv, LoopInv
  <2>3. QED
    BY <2>1, <2>2, CheckGoesOn
<1>5. QED
  BY <1>2, <1>3, <1>4

(* A schedule that is changed is noted. *)
LEMMA SchedulerKeepsSchedules ==
  ASSUME ReportInv, SchedulerInv, now' = now,
         NEW c \in Client, NEW s \in Schedules \cup {Nothing}, ChangeSchedule(c, s)
  PROVE  SchedulerInv'
<1>1. now <= now' /\ now' \in Nat
  BY FiredAre
<1>2. /\ \A d \in Client \ {c} : schedules'[d] = schedules[d]
      /\ changed' = changed \cup {c}
      /\ UNCHANGED <<loop, report, mail, firedVars>>
  BY DEF ChangeSchedule, ReportInv, ReportTypeOK, mailVars
<1>3. QED
  BY <1>1, <1>2, LoopRests

(* The invariant of the scheduler (scheduler.py:_loop, _check_all). *)
THEOREM SchedulerInvariant == Spec => []SchedulerInv
<1>1. Init => SchedulerInv
  <2> SUFFICES ASSUME Init PROVE SchedulerInv
    OBVIOUS
  <2>1. ReportInit /\ now = 0
    BY DEF Init, ClockInit
  <2>2. loop.pc = "sleep" /\ loop.at = now /\ loop.wake = now /\ report = Nothing /\ mail = Nothing
    BY <2>1 DEF ReportInit, SchedulerAsleep
  <2>3. LoopInv
    BY <2>1, <2>2 DEF ReportInit, LoopInv
  <2>4. Len(fired) = 0
    BY <2>1 DEF ReportInit
  <2>5. FiredInv /\ FiredOncePerMinute
    BY <2>4 DEF FiredInv, FiredOncePerMinute
  <2>6. ServedInv
    BY <2>1, <2>2 DEF ServedInv, Begun
  <2>7. QED
    BY <2>3, <2>5, <2>6 DEF SchedulerInv
<1>2. ReportInv /\ SchedulerInv /\ [Next]_vars => SchedulerInv'
  <2> SUFFICES ASSUME ReportInv, SchedulerInv, [Next]_vars
               PROVE  SchedulerInv'
    OBVIOUS
  <2>1. CASE UNCHANGED reportVars /\ (now' = now \/ Advance)
    <3>1. now <= now' /\ now' \in Nat
      BY <2>1, ClockSteps DEF ReportInv
    <3>2. QED
      BY <2>1, <3>1, LoopRests DEF reportVars, mailVars
  <2>2. CASE (ReportNext \/ QueryFails \/ DownloadNext \/ ScheduleNext \/ DashboardNext) /\ now' = now
    BY <2>2, SchedulerKeepsReports, SchedulerKeepsExports, SchedulerKeepsSchedules,
       StartCheckKeeps, EndCheckKeeps, PassOverKeeps, FireKeeps
    DEF ReportNext, ScheduleNext
  <2>3. CASE ReportRestart /\ now' = now
    BY <2>3, SchedulerRestartKeeps
  <2>4. CASE UNCHANGED vars
    BY <2>1, <2>4 DEF vars
  <2>5. QED
    BY <2>1, <2>2, <2>3, <2>4, StepsOfReports
<1>3. QED
  BY <1>1, <1>2, ReportInvariant, PTL DEF Spec

(* A client gets no second report for the minute of a first, unless the process *)
(* began anew in it (scheduler.py:_loop sleeps a minute after every check). *)
THEOREM OneReportPerMinute == Spec => []FiredOncePerMinute
<1>1. SchedulerInv => FiredOncePerMinute
  BY DEF SchedulerInv
<1>2. QED
  BY <1>1, SchedulerInvariant, PTL

(* No client is passed over in a check in which its report is due, and only a   *)
(* client's unusable schedule, or one that was changed since, breaks a check    *)
(* off before the others have had their turn (scheduler.py:_check_all). *)
THEOREM EveryDueReportServed == Spec => []DueServed
<1>1. SchedulerInv => DueServed
  BY DEF SchedulerInv, ServedInv, Begun, DueServed
<1>2. QED
  BY <1>1, SchedulerInvariant, PTL

----------------------------------------------------------------------------
(* How many days a query looks back. *)
Span(section, days) ==
  IF section = "weekly" THEN 7 * (IF days >= 14 THEN days \div 7 ELSE 1)
  ELSE IF section = "recent" THEN days \div 2
  ELSE IF section = "trend" THEN (IF 3 * days < 90 THEN 3 * days ELSE 90)
  ELSE days

Length(s) == DayLength * Span(s, report.days)
Own(i) == Feedback[i].client = report.client
(* A row of the report's client that is in the table and has not moved since the *)
(* report began, and one that is young enough for a query. *)
Stays(i) == i \in table \ report.moved /\ Own(i)
Within(i, s) == Stays(i) /\ rowAt[i] >= now - Length(s)

(* Every row in a section was read for it; a section has every row that still  *)
(* belongs to it and has not moved. *)
Seen(s) ==
  \A i \in report.read[s] :
    /\ Own(i) /\ rowAt[i] # -1 /\ rowAt[i] >= report.start - Length(s)
    /\ i \in table \cup report.moved
    /\ s = "notes" => Feedback[i].fp
(* The rules that a table lists, and the false positives of a rule that belong   *)
(* to the table of rules and have not moved. *)
ListedIn(T) == {Feedback[i].rule : i \in T}
FalseWithin(r) == {i \in Row : Within(i, "rules") /\ Feedback[i].fp /\ Feedback[i].rule = r}
(* The table of rules has every such row of the rules that it lists, and leaves a *)
(* rule with a false positive out only if it is full of rules with no fewer. *)
Table == report.read["rules"]
FullTable ==
  /\ \A i \in Row, j \in Table :
       Within(i, "rules") /\ Feedback[i].rule = Feedback[j].rule => i \in Table
  /\ \A r \in Rule : FalseWithin(r) # {} /\ r \notin ListedIn(Table) =>
       /\ Cardinality(ListedIn(Table)) = RuleLimit
       /\ \A q \in ListedIn(Table) :
            Cardinality(FalseWithin(r)) <= Cardinality(OfRule(FalsePositives(Table), q))
Full(s) ==
  /\ s \notin {"notes", "rules"} => \A i \in Row : Within(i, s) => i \in report.read[s]
  /\ s = "rules" => FullTable

(* Which sections of a draft there are, and what is in them. *)
ReadInv ==
  report # Nothing =>
    /\ report.start <= now
    /\ \A s \in Section : Seen(s)
    /\ \A k \in 1..8 : k >= report.next => Sections[k] \notin report.failed
    /\ \A k \in 1..8 :
         k >= report.next \/ Sections[k] \in report.failed => report.read[Sections[k]] = {}
    /\ \A k \in 1..8 :
         k < report.next /\ Sections[k] \notin report.failed => Full(Sections[k])
StampedInv == \A i \in table : rowAt[i] # -1
QueriesInv == ReadInv /\ StampedInv

(* Each section is read once, and every section is read. *)
LEMMA SectionsDiffer ==
  ASSUME NEW j \in 1..8, NEW k \in 1..8, Sections[j] = Sections[k]
  PROVE  j = k
<1>1. j = 1 \/ j = 2 \/ j = 3 \/ j = 4 \/ j = 5 \/ j = 6 \/ j = 7 \/ j = 8
  OBVIOUS
<1>2. k = 1 \/ k = 2 \/ k = 3 \/ k = 4 \/ k = 5 \/ k = 6 \/ k = 7 \/ k = 8
  OBVIOUS
<1>3. /\ Sections[1] = "weekly" /\ Sections[2] = "breakdown" /\ Sections[3] = "recent"
      /\ Sections[4] = "totals" /\ Sections[5] = "rules" /\ Sections[6] = "notes"
      /\ Sections[7] = "roi" /\ Sections[8] = "trend"
  BY DEF Sections
<1>4. QED
  BY <1>1, <1>2, <1>3

LEMMA SectionsAll == \A s \in Section : \E k \in 1..8 : Sections[k] = s
<1>1. /\ Sections[1] = "weekly" /\ Sections[2] = "breakdown" /\ Sections[3] = "recent"
      /\ Sections[4] = "totals" /\ Sections[5] = "rules" /\ Sections[6] = "notes"
      /\ Sections[7] = "roi" /\ Sections[8] = "trend"
  BY DEF Sections
<1>2. QED
  BY <1>1 DEF Section

(* Spans and lengths are numbers. *)
LEMMA SpanIsNat ==
  ASSUME NEW s, NEW days \in Nat
  PROVE  Span(s, days) \in Nat
  BY DEF Span

(* Sets of rows are finite, and a larger one has no fewer. *)
LEMMA SubsetsOfRows ==
  ASSUME NEW S \in SUBSET Row
  PROVE  /\ IsFiniteSet(S) /\ Cardinality(S) \in Nat /\ (Cardinality(S) > 0 => S # {})
         /\ \A T \in SUBSET S : Cardinality(T) <= Cardinality(S)
<1>1. IsFiniteSet(S)
  BY ReportAssumption, FS_Subset
<1>2. Cardinality(S) \in Nat
  BY <1>1, FS_CardinalityType
<1>3. Cardinality({}) = 0
  BY FS_EmptySet
<1>4. \A T \in SUBSET S : Cardinality(T) <= Cardinality(S)
  BY <1>1, FS_Subset
<1>5. QED
  BY <1>1, <1>2, <1>3, <1>4

(* Rows of a rule are rows. *)
LEMMA OfRuleRows ==
  ASSUME NEW S \in SUBSET Row, NEW r
  PROVE  OfRule(S, r) \in SUBSET Row /\ OfRule(FalsePositives(S), r) \in SUBSET Row
  BY DEF OfRule, FalsePositives

(* What the queries select. *)
LEMMA SelectedSince ==
  ASSUME NEW s \in Section, NEW c \in Client, NEW days \in Periods,
         NEW S \in Selections(s, c, days)
  PROVE  /\ \A i \in S : /\ i \in Since(c, Span(s, days))
                         /\ s = "notes" => Feedback[i].fp
         /\ s \notin {"notes", "rules"} => Since(c, Span(s, days)) \subseteq S
         /\ s = "rules" => S \in RuleTables(c, days)
<1>1. CASE s = "weekly"
  BY <1>1 DEF Selections, Span, WeeklyRows
<1>2. CASE s = "breakdown"
  BY <1>2 DEF Selections, Span, BreakdownRows
<1>3. CASE s = "recent"
  BY <1>3 DEF Selections, Span, RecentRows
<1>4. CASE s = "totals"
  BY <1>4 DEF Selections, Span, TotalsRows
<1>5. CASE s = "rules"
  <2>1. S \in RuleTables(c, days) /\ Span(s, days) = days
    BY <1>5 DEF Selections, Span
  <2>2. S \subseteq Since(c, days)
    BY <2>1 DEF RuleTables
  <2>3. QED
    BY <1>5, <2>1, <2>2
<1>6. CASE s = "notes"
  BY <1>6 DEF Selections, Span, NoteRows, FalsePositives
<1>7. CASE s = "roi"
  BY <1>7 DEF Selections, Span, RoiRows
<1>8. CASE s = "trend"
  BY <1>8 DEF Selections, Span, TrendRows
<1>9. QED
  BY <1>1, <1>2, <1>3, <1>4, <1>5, <1>6, <1>7, <1>8 DEF Section

(* A table of rules has all rows of the rules that it lists, and leaves rules    *)
(* with a false positive out only when it is full of rules with no fewer. *)
LEMMA TableSelected ==
  ASSUME table \subseteq Row, NEW c, NEW days, NEW T \in RuleTables(c, days)
  PROVE  /\ \A i \in Since(c, days), j \in T : Feedback[i].rule = Feedback[j].rule => i \in T
         /\ \A r \in Rule \ ListedIn(T) : OfRule(FalsePositives(Since(c, days)), r) # {} =>
              /\ Cardinality(ListedIn(T)) = RuleLimit
              /\ \A q \in ListedIn(T) :
                   Cardinality(OfRule(FalsePositives(Since(c, days)), r))
                     <= Cardinality(OfRule(FalsePositives(T), q))
<1> DEFINE S == Since(c, days)
<1>1. S \in SUBSET Row
  BY DEF Since
<1>2. PICK R \in WorstRules(S) : T = {i \in S : Feedback[i].rule \in R}
  BY DEF RuleTables
<1> HIDE DEF S
<1>3. /\ R \subseteq WrongRules(S)
      /\ Cardinality(R) = RuleLimit \/ R = WrongRules(S)
      /\ \A r \in R, q \in WrongRules(S) \ R : ~Worse(S, q, r)
  BY <1>2 DEF WorstRules
<1>4. ListedIn(T) = R
  <2>1. ListedIn(T) \subseteq R
    BY <1>2 DEF ListedIn
  <2>2. ASSUME NEW r \in R PROVE r \in ListedIn(T)
    <3>1. PICK i \in S : Feedback[i].rule = r
      BY <1>3 DEF WrongRules, OfRule, FalsePositives
    <3>2. QED
      BY <1>2, <3>1 DEF ListedIn
  <2>3. QED
    BY <2>1, <2>2
<1>5. \A i \in S, j \in T : Feedback[i].rule = Feedback[j].rule => i \in T
  BY <1>2
<1>6. \A q \in R : OfRule(FalsePositives(T), q) = OfRule(FalsePositives(S), q)
  BY <1>2 DEF OfRule, FalsePositives
<1>7. ASSUME NEW r \in Rule \ R, OfRule(FalsePositives(S), r) # {}
      PROVE  /\ Cardinality(R) = RuleLimit
             /\ \A q \in R : Cardinality(OfRule(FalsePositives(S), r))
                              <= Cardinality(OfRule(FalsePositives(S), q))
  <2>1. r \in WrongRules(S)
    BY <1>7 DEF WrongRules
  <2>2. Cardinality(R) = RuleLimit /\ \A q \in R : ~Worse(S, r, q)
    BY <1>3, <2>1
  <2>3. \A q : Cardinality(OfRule(FalsePositives(S), q)) \in Nat
    BY <1>1, OfRuleRows, SubsetsOfRows
  <2>4. QED
    BY <2>2, <2>3 DEF Worse
<1>8. QED
  BY <1>4, <1>5, <1>6, <1>7 DEF S

(* The parts of a draft. *)
LEMMA DraftFacts ==
  ASSUME ReportInv, report # Nothing
  PROVE  /\ report \in Draft /\ report.client \in Client /\ report.days \in Periods
         /\ report.days \in Nat /\ report.start \in Nat /\ report.next \in 1..9
         /\ report.read \in [Section -> SUBSET Row] /\ report.failed \subseteq Section
         /\ report.moved \subseteq Row
         /\ \A s : Length(s) \in Nat
<1>1. report \in Draft
  BY DEF ReportInv, ReportTypeOK
<1>2. /\ report.client \in Client /\ report.days \in Periods /\ report.start \in Time
      /\ report.next \in 1..9
      /\ report.read \in [Section -> SUBSET Row] /\ report.failed \subseteq Section
      /\ report.moved \subseteq Row
  BY <1>1, SectionsOfReports DEF Draft
<1>3. report.days \in Nat /\ report.start \in Nat /\ DayLength \in Nat
  BY <1>2, TimeIsNat, ReportAssumption
<1>4. ASSUME NEW s PROVE Length(s) \in Nat
  <2>1. Span(s, report.days) \in Nat
    BY <1>3, SpanIsNat
  <2>2. QED
    BY <1>3, <2>1 DEF Length
<1>5. QED
  BY <1>1, <1>2, <1>3, <1>4

(* The rows and their times. *)
LEMMA RowFacts ==
  ASSUME ReportInv
  PROVE  table \subseteq Row /\ now \in Nat /\ now \in Time /\ \A i \in Row : rowAt[i] \in Int
<1>1. table \subseteq Row /\ now \in Time /\ \A i \in Row : rowAt[i] \in Time \cup {-1}
  BY DEF ReportInv, ReportTypeOK
<1>2. Time \cup {-1} \subseteq Int /\ now \in Nat
  BY <1>1, TimeIsNat
<1>3. QED
  BY <1>1, <1>2

(* A step that reads nothing: rows move, or time passes. *)
LEMMA DraftRests ==
  ASSUME ReportInv, QueriesInv, now' \in Nat, now <= now', StampedInv',
         report' # Nothing =>
           /\ report # Nothing
           /\ report'.client = report.client /\ report'.days = report.days
           /\ report'.start = report.start /\ report'.read = report.read
           /\ report'.next = report.next /\ report'.failed = report.failed
           /\ \A i \in Row : Own(i) =>
                /\ i \in table' \ report'.moved => i \in table \ report.moved /\ rowAt'[i] = rowAt[i]
                /\ i \in table \cup report.moved /\ rowAt[i] # -1 =>
                     i \in table' \cup report'.moved /\ rowAt'[i] = rowAt[i]
  PROVE  QueriesInv'
<1> SUFFICES ASSUME report' # Nothing
             PROVE  ReadInv'
  BY DEF QueriesInv, ReadInv
<1>1. /\ report # Nothing
      /\ report'.client = report.client /\ report'.days = report.days
      /\ report'.start = report.start /\ report'.read = report.read
      /\ report'.next = report.next /\ report'.failed = report.failed
  OBVIOUS
<1>2. ReadInv /\ report.start \in Nat /\ now \in Nat
  BY <1>1, DraftFacts, RowFacts DEF QueriesInv
<1>3. \A s : Length(s)' = Length(s) /\ Length(s) \in Nat
  BY <1>1, DraftFacts DEF Length
<1>4. \A i : Own(i)' <=> Own(i)
  BY <1>1 DEF Own
<1>5. ASSUME NEW s \in Section
      PROVE  Seen(s)'
  <2>1. ASSUME NEW i \in report.read[s]
        PROVE  /\ Own(i) /\ rowAt'[i] # -1 /\ rowAt'[i] >= report.start - Length(s)
               /\ i \in table' \cup report'.moved
               /\ s = "notes" => Feedback[i].fp
    <3>1. /\ Own(i) /\ rowAt[i] # -1 /\ rowAt[i] >= report.start - Length(s)
          /\ i \in table \cup report.moved
          /\ s = "notes" => Feedback[i].fp
      BY <1>1, <1>2 DEF ReadInv, Seen
    <3>2. i \in Row
      BY <1>1, DraftFacts
    <3>3. QED
      BY <3>1, <3>2
  <2>2. QED
    BY <1>1, <1>3, <1>4, <2>1 DEF Seen
<1>6. ASSUME NEW i \in Row, NEW s, Within(i, s)'
      PROVE  Within(i, s)
  <2>1. /\ i \in table' \ report'.moved /\ Own(i)
        /\ rowAt'[i] >= now' - Length(s)
    BY <1>3, <1>4, <1>6 DEF Within, Stays
  <2>2. i \in table \ report.moved /\ rowAt'[i] = rowAt[i]
    BY <2>1
  <2>3. rowAt[i] >= now - Length(s)
    BY <1>2, <1>3, <2>1, <2>2, RowFacts
  <2>4. QED
    BY <2>1, <2>2, <2>3 DEF Within, Stays
<1>7. ASSUME NEW s \in Section, Full(s)
      PROVE  Full(s)'
  <2>1. ASSUME FullTable
        PROVE  FullTable'
    <3>1. Table' = Table
      BY <1>1 DEF Table
    <3>2. \A r : FalseWithin(r)' \in SUBSET FalseWithin(r) /\ FalseWithin(r) \in SUBSET Row
      BY <1>6 DEF FalseWithin
    <3>3. \A r : /\ Cardinality(FalseWithin(r)') <= Cardinality(FalseWithin(r))
                 /\ Cardinality(FalseWithin(r)') \in Nat /\ Cardinality(FalseWithin(r)) \in Nat
      BY <3>2, SubsetsOfRows
    <3>4. \A q : Cardinality(OfRule(FalsePositives(Table), q)) \in Nat
      <4>1. Table \in SUBSET Row
        BY <1>1, DraftFacts DEF Table, Section
      <4>2. QED
        BY <4>1, OfRuleRows, SubsetsOfRows
    <3>5. \A i \in Row, j \in Table :
            Within(i, "rules")' /\ Feedback[i].rule = Feedback[j].rule => i \in Table
      BY <1>6, <2>1 DEF FullTable
    <3>6. ASSUME NEW r \in Rule, FalseWithin(r)' # {}, r \notin ListedIn(Table)
          PROVE  /\ Cardinality(ListedIn(Table)) = RuleLimit
                 /\ \A q \in ListedIn(Table) : Cardinality(FalseWithin(r)')
                                                 <= Cardinality(OfRule(FalsePositives(Table), q))
      <4>1. FalseWithin(r) # {}
        BY <3>2, <3>6
      <4>2. /\ Cardinality(ListedIn(Table)) = RuleLimit
            /\ \A q \in ListedIn(Table) : Cardinality(FalseWithin(r))
                                           <= Cardinality(OfRule(FalsePositives(Table), q))
        BY <2>1, <3>6, <4>1 DEF FullTable
      <4>3. QED
        BY <3>3, <3>4, <4>2
    <3>7. QED
      BY <3>1, <3>5, <3>6 DEF FullTable
  <2>2. QED
    BY <1>1, <1>6, <1>7, <2>1 DEF Full
<1>8. report'.start <= now'
  BY <1>1, <1>2 DEF ReadInv
<1>9. QED
  BY <1>1, <1>2, <1>5, <1>7, <1>8, SectionsOfReports DEF ReadInv

(* A query reads the rows that its section covers now. *)
LEMMA QueryReads ==
  ASSUME ReportInv, QueriesInv, Query, now' = now
  PROVE  QueriesInv'
<1> SUFFICES ASSUME report' # Nothing
             PROVE  ReadInv'
  BY DEF QueriesInv, ReadInv, StampedInv, Query, dataVars
<1>1. /\ report # Nothing /\ report \in Draft /\ report.next \in 1..8
      /\ report.client \in Client /\ report.days \in Periods /\ report.days \in Nat
      /\ report.start \in Nat /\ report.read \in [Section -> SUBSET Row]
      /\ UNCHANGED <<table, rowAt>>
  <2>1. report # Nothing /\ report.next <= 8 /\ UNCHANGED <<table, rowAt>>
    BY SectionsOfReports DEF Query, Making, dataVars
  <2>2. QED
    BY <2>1, DraftFacts
<1>2. PICK n \in 1..8 : n = report.next
  BY <1>1
<1>3. PICK t \in Section : t = Sections[n]
  BY SectionsOfReports
<1>4. PICK S \in SUBSET Row : /\ S \in Selections(t, report.client, report.days)
                              /\ report' = [report EXCEPT !.next = @ + 1, !.read[t] = S]
  <2>1. table \subseteq Row
    BY RowFacts
  <2>2. PICK S \in Selections(t, report.client, report.days) :
          report' = [report EXCEPT !.next = @ + 1, !.read[t] = S]
    BY <1>2, <1>3 DEF Query
  <2>3. QED
    BY <1>1, <2>1, <2>2, SelectedRows
<1>6. /\ report'.client = report.client /\ report'.days = report.days
      /\ report'.start = report.start /\ report'.failed = report.failed
      /\ report'.moved = report.moved /\ report'.next = n + 1
      /\ report'.read[t] = S
      /\ \A s \in Section \ {t} : report'.read[s] = report.read[s]
  BY <1>1, <1>2, <1>4 DEF Draft
<1>7. ReadInv /\ StampedInv
  BY DEF QueriesInv
<1>8. /\ \A s : Length(s)' = Length(s) /\ Length(s) \in Nat
      /\ \A s : Length(s) = DayLength * Span(s, report.days)
      /\ \A i : Own(i)' <=> Own(i)
      /\ \A i, s : Within(i, s)' <=> Within(i, s)
  BY <1>1, <1>6, DraftFacts DEF Length, Own, Within, Stays
<1>9. \A i : i \in Since(report.client, Span(t, report.days))
             <=> i \in table /\ Own(i) /\ rowAt[i] >= now - Length(t)
  BY <1>8 DEF Since, Own
<1>10. /\ \A i \in S : /\ i \in table /\ Own(i) /\ rowAt[i] >= now - Length(t)
                       /\ t = "notes" => Feedback[i].fp
  BY <1>1, <1>4, <1>9, SelectedSince
<1>11. ASSUME NEW s \in Section
       PROVE  Seen(s)'
  <2>1. CASE s = t
    <3>1. ASSUME NEW i \in S
          PROVE  rowAt[i] # -1 /\ rowAt[i] >= report.start - Length(t)
      <4>1. i \in table /\ i \in Row /\ rowAt[i] \in Int /\ now \in Nat /\ report.start <= now
        BY <1>1, <1>7, <1>10, RowFacts DEF ReadInv
      <4>2. QED
        BY <1>1, <1>7, <1>8, <1>10, <4>1 DEF StampedInv
    <3>2. QED
      BY <1>1, <1>6, <1>8, <1>10, <2>1, <3>1 DEF Seen
  <2>2. CASE s # t
    <3>1. Seen(s) /\ report'.read[s] = report.read[s]
      BY <1>1, <1>6, <1>7, <2>2 DEF ReadInv
    <3>2. QED
      BY <1>1, <1>6, <1>8, <3>1 DEF Seen
  <2>3. QED
    BY <2>1, <2>2
<1>12. Full(t)'
  <2>1. \A j : Within(j, t) => j \in Since(report.client, Span(t, report.days))
    BY <1>9 DEF Within, Stays
  <2>2. ASSUME t \notin {"notes", "rules"}, NEW i \in Row, Within(i, t)
        PROVE  i \in S
    BY <1>1, <1>4, <2>1, <2>2, SelectedSince
  <2>3. CASE t = "rules"
    <3>1. S \in RuleTables(report.client, report.days) /\ Span(t, report.days) = report.days
      BY <1>1, <1>4, <2>3, SelectedSince DEF Span
    <3>2. PICK Y \in SUBSET Row : Y = Since(report.client, report.days)
      BY RowFacts DEF Since
    <3>3. Table' = S
      BY <1>6, <2>3 DEF Table
    <3>4. table \subseteq Row
      BY RowFacts
    <3>5. /\ \A i \in Y, j \in S : Feedback[i].rule = Feedback[j].rule => i \in S
          /\ \A r \in Rule \ ListedIn(S) : OfRule(FalsePositives(Y), r) # {} =>
               /\ Cardinality(ListedIn(S)) = RuleLimit
               /\ \A q \in ListedIn(S) : Cardinality(OfRule(FalsePositives(Y), r))
                                           <= Cardinality(OfRule(FalsePositives(S), q))
      BY <3>1, <3>2, <3>4, TableSelected
    <3>6. \A i \in Row : Within(i, "rules")' => i \in Y
      BY <1>8, <2>1, <2>3, <3>1, <3>2
    <3>7. \A r : FalseWithin(r)' \in SUBSET OfRule(FalsePositives(Y), r)
      BY <3>6 DEF FalseWithin, OfRule, FalsePositives
    <3>8. \A r : /\ Cardinality(OfRule(FalsePositives(Y), r)) \in Nat
                 /\ Cardinality(OfRule(FalsePositives(S), r)) \in Nat
                 /\ Cardinality(FalseWithin(r)') \in Nat
                 /\ Cardinality(FalseWithin(r)') <= Cardinality(OfRule(FalsePositives(Y), r))
      <4>1. \A r : /\ OfRule(FalsePositives(Y), r) \in SUBSET Row
                   /\ OfRule(FalsePositives(S), r) \in SUBSET Row
        BY OfRuleRows
      <4>2. \A r : FalseWithin(r)' \in SUBSET Row
        BY <3>7, <4>1
      <4>3. QED
        BY <3>7, <4>1, <4>2, SubsetsOfRows
    <3>9. ASSUME NEW r \in Rule, FalseWithin(r)' # {}, r \notin ListedIn(S)
          PROVE  /\ Cardinality(ListedIn(S)) = RuleLimit
                 /\ \A q \in ListedIn(S) : Cardinality(FalseWithin(r)')
                                             <= Cardinality(OfRule(FalsePositives(S), q))
      <4>1. OfRule(FalsePositives(Y), r) # {}
        BY <3>7, <3>9
      <4>2. /\ Cardinality(ListedIn(S)) = RuleLimit
            /\ \A q \in ListedIn(S) : Cardinality(OfRule(FalsePositives(Y), r))
                                        <= Cardinality(OfRule(FalsePositives(S), q))
        BY <3>5, <3>9, <4>1
      <4>3. QED
        BY <3>8, <4>2
    <3>10. \A i \in Row, j \in S :
             Within(i, "rules")' /\ Feedback[i].rule = Feedback[j].rule => i \in S
      BY <3>5, <3>6
    <3>11. FullTable'
      BY <3>3, <3>9, <3>10 DEF FullTable
    <3>12. QED
      BY <2>3, <3>11 DEF Full
  <2>4. CASE t # "rules"
    BY <1>6, <1>8, <2>2, <2>4 DEF Full
  <2>5. QED
    BY <2>3, <2>4
<1>13. ASSUME NEW k \in 1..8, k < n + 1, Sections[k] \notin report.failed
       PROVE  Full(Sections[k])'
  <2>1. CASE k = n
    BY <1>3, <1>12, <2>1
  <2>2. CASE k # n
    <3>1. k < n /\ Sections[k] # t /\ Sections[k] \in Section
      BY <1>3, <1>13, <2>2, SectionsDiffer, SectionsOfReports
    <3>2. Full(Sections[k]) /\ report'.read[Sections[k]] = report.read[Sections[k]]
      BY <1>1, <1>2, <1>6, <1>7, <1>13, <3>1 DEF ReadInv
    <3>3. Sections[k] = "rules" => (FullTable' <=> FullTable)
      BY <1>8, <3>2 DEF FullTable, Table, FalseWithin
    <3>4. QED
      BY <1>8, <3>2, <3>3 DEF Full
  <2>3. QED
    BY <2>1, <2>2
<1>14. ASSUME NEW k \in 1..8, k >= n + 1 \/ Sections[k] \in report.failed
       PROVE  /\ report'.read[Sections[k]] = {}
              /\ k >= n + 1 => Sections[k] \notin report.failed
  <2>1. k # n
    BY <1>1, <1>2, <1>7, <1>14 DEF ReadInv
  <2>2. Sections[k] # t /\ Sections[k] \in Section
    BY <1>3, <2>1, SectionsDiffer, SectionsOfReports
  <2>3. report.read[Sections[k]] = {} /\ (k >= n + 1 => Sections[k] \notin report.failed)
    BY <1>1, <1>2, <1>7, <1>14 DEF ReadInv
  <2>4. QED
    BY <1>6, <2>2, <2>3
<1>15. report'.start <= now'
  BY <1>1, <1>6, <1>7 DEF ReadInv
<1>16. QED
  BY <1>6, <1>11, <1>13, <1>14, <1>15 DEF ReadInv

(* A query that fails reads no rows. *)
LEMMA FailedQueryReads ==
  ASSUME ReportInv, QueriesInv, QueryFails, now' = now
  PROVE  QueriesInv'
<1> SUFFICES ASSUME report' # Nothing
             PROVE  ReadInv'
  BY DEF QueriesInv, ReadInv, StampedInv, QueryFails, dataVars
<1>1. /\ report # Nothing /\ report \in Draft /\ report.next \in 1..8
      /\ report.read \in [Section -> SUBSET Row]
      /\ UNCHANGED <<table, rowAt>>
  <2>1. report # Nothing /\ report.next <= 8 /\ UNCHANGED <<table, rowAt>>
    BY SectionsOfReports DEF QueryFails, Making, dataVars
  <2>2. QED
    BY <2>1, DraftFacts
<1>2. PICK n \in 1..8 : n = report.next
  BY <1>1
<1>3. PICK t \in Section : t = Sections[n]
  BY SectionsOfReports
<1>4. report' = [report EXCEPT !.next = @ + 1, !.failed = @ \cup {t}]
  BY <1>2, <1>3 DEF QueryFails
<1>5. /\ report'.client = report.client /\ report'.days = report.days
      /\ report'.start = report.start /\ report'.failed = report.failed \cup {t}
      /\ report'.moved = report.moved /\ report'.next = n + 1
      /\ report'.read = report.read
  BY <1>1, <1>2, <1>4 DEF Draft
<1>6. ReadInv
  BY DEF QueriesInv
<1>7. /\ \A s : Length(s)' = Length(s)
      /\ \A i : Own(i)' <=> Own(i)
      /\ \A i, s : Within(i, s)' <=> Within(i, s)
  BY <1>1, <1>5 DEF Length, Own, Within, Stays
<1>8. \A s : /\ Seen(s) => Seen(s)'
             /\ Full(s) => Full(s)'
  <2>1. FullTable' <=> FullTable
    BY <1>5, <1>7 DEF FullTable, Table, FalseWithin
  <2>2. QED
    BY <1>1, <1>5, <1>7, <2>1 DEF Seen, Full
<1>9. ASSUME NEW k \in 1..8
      PROVE  /\ k >= n + 1 => Sections[k] \notin report'.failed
             /\ k >= n + 1 \/ Sections[k] \in report'.failed => report'.read[Sections[k]] = {}
             /\ k < n + 1 /\ Sections[k] \notin report'.failed => Full(Sections[k])'
  <2>1. CASE k = n
    BY <1>1, <1>2, <1>3, <1>5, <1>6, <2>1 DEF ReadInv
  <2>2. CASE k # n
    <3>1. Sections[k] # t
      BY <1>3, <2>2, SectionsDiffer
    <3>2. QED
      BY <1>1, <1>2, <1>5, <1>6, <1>8, <2>2, <3>1 DEF ReadInv
  <2>3. QED
    BY <2>1, <2>2
<1>10. QED
  BY <1>1, <1>5, <1>6, <1>8, <1>9 DEF ReadInv

(* A new report has read nothing. *)
LEMMA NewDraftReads ==
  ASSUME ReportInv, QueriesInv, UNCHANGED <<table, rowAt>>, now' = now,
         NEW by, NEW c, NEW days, report' = NewDraft(by, c, days)
  PROVE  QueriesInv'
<1>1. /\ report'.start = now /\ report'.next = 1 /\ report'.failed = {}
      /\ report'.read = [s \in Section |-> {}]
  BY DEF NewDraft
<1>2. \A s \in Section : Seen(s)'
  BY <1>1 DEF Seen
<1>3. \A k \in 1..8 : /\ report'.read[Sections[k]] = {} /\ Sections[k] \notin report'.failed
                      /\ ~(k < report'.next)
  BY <1>1, SectionsOfReports
<1>4. report'.start <= now'
  BY <1>1, RowFacts
<1>5. ReadInv'
  BY <1>2, <1>3, <1>4 DEF ReadInv
<1>6. QED
  BY <1>5 DEF QueriesInv, StampedInv

(* What the dashboard does to a row of the report's client is noted. *)
LEMMA DashboardMoves ==
  ASSUME ReportInv, QueriesInv, DashboardNext, now' = now
  PROVE  QueriesInv'
<1>1. now' \in Nat /\ now <= now' /\ table \subseteq Row
  BY RowFacts
<1>2. ASSUME NEW i \in Row, DashboardWrites(i)
      PROVE  QueriesInv'
  <2>1. /\ rowAt[i] = -1 /\ table' = table \cup {i}
        /\ rowAt'[i] = now /\ (\A j \in Row \ {i} : rowAt'[j] = rowAt[j])
        /\ report' = Touch({i})
    BY <1>2 DEF DashboardWrites, ReportInv, ReportTypeOK
  <2>2. StampedInv' /\ i \notin table
    <3>1. now # -1
      BY RowFacts
    <3>2. QED
      BY <1>1, <2>1, <3>1 DEF QueriesInv, StampedInv
  <2>3. ASSUME report' # Nothing
        PROVE  /\ report # Nothing
               /\ report'.client = report.client /\ report'.days = report.days
               /\ report'.start = report.start /\ report'.read = report.read
               /\ report'.next = report.next /\ report'.failed = report.failed
               /\ report'.moved = report.moved \cup {j \in {i} : Own(j)}
    BY <2>1, <2>3, TouchedType DEF Own, ReportInv, ReportTypeOK
  <2>4. ASSUME report' # Nothing, NEW j \in Row, Own(j)
        PROVE  /\ j \in table' \ report'.moved => j \in table \ report.moved /\ rowAt'[j] = rowAt[j]
               /\ j \in table \cup report.moved /\ rowAt[j] # -1 =>
                    j \in table' \cup report'.moved /\ rowAt'[j] = rowAt[j]
    BY <2>1, <2>3, <2>4
  <2>5. QED
    BY <1>1, <2>2, <2>3, <2>4, DraftRests
<1>3. ASSUME NEW c \in Client, DashboardErases(c)
      PROVE  QueriesInv'
  <2>1. PICK S \in SUBSET Row : /\ table' = table \ S /\ rowAt' = rowAt
                                /\ report' = Touch(S)
    BY <1>1, <1>3 DEF DashboardErases
  <2>2. StampedInv'
    BY <2>1 DEF QueriesInv, StampedInv
  <2>3. ASSUME report' # Nothing
        PROVE  /\ report # Nothing
               /\ report'.client = report.client /\ report'.days = report.days
               /\ report'.start = report.start /\ report'.read = report.read
               /\ report'.next = report.next /\ report'.failed = report.failed
               /\ report'.moved = report.moved \cup {j \in S : Own(j)}
    BY <2>1, <2>3, TouchedType DEF Own, ReportInv, ReportTypeOK
  <2>4. ASSUME report' # Nothing, NEW j \in Row, Own(j)
        PROVE  /\ j \in table' \ report'.moved => j \in table \ report.moved /\ rowAt'[j] = rowAt[j]
               /\ j \in table \cup report.moved /\ rowAt[j] # -1 =>
                    j \in table' \cup report'.moved /\ rowAt'[j] = rowAt[j]
    BY <2>1, <2>3, <2>4
  <2>5. QED
    BY <1>1, <2>2, <2>3, <2>4, DraftRests
<1>4. QED
  BY <1>2, <1>3 DEF DashboardNext

(* A step that leaves the rows alone, and the report alone or ends it. *)
LEMMA ReadsRest ==
  ASSUME ReportInv, QueriesInv, UNCHANGED <<table, rowAt>>, now' = now \/ Advance,
         report' = report \/ report' = Nothing
  PROVE  QueriesInv'
<1>1. now' \in Nat /\ now <= now'
  BY ClockSteps DEF ReportInv
<1>2. StampedInv'
  BY DEF QueriesInv, StampedInv
<1>3. QED
  BY <1>1, <1>2, DraftRests

(* The invariant of a report being made (engine.py:generate_client_report). *)
THEOREM QueriesInvariant == Spec => []QueriesInv
<1>1. Init => QueriesInv
  <2> SUFFICES ASSUME Init PROVE QueriesInv
    OBVIOUS
  <2>1. ReportInit /\ now = 0
    BY DEF Init, ClockInit
  <2>2. QED
    BY <2>1 DEF ReportInit, QueriesInv, ReadInv, StampedInv
<1>2. ReportInv /\ QueriesInv /\ [Next]_vars => QueriesInv'
  <2> SUFFICES ASSUME ReportInv, QueriesInv, [Next]_vars
               PROVE  QueriesInv'
    OBVIOUS
  <2>1. CASE UNCHANGED reportVars /\ (now' = now \/ Advance)
    BY <2>1, ReadsRest DEF reportVars, dataVars
  <2>2. CASE (ReportNext \/ QueryFails) /\ now' = now
    BY <2>2, QueryReads, FailedQueryReads, ReadsRest DEF ReportNext, Export, ExportFails, dataVars
  <2>3. CASE DownloadNext /\ now' = now
    BY <2>3, NewDraftReads DEF DownloadNext, Download, dataVars
  <2>4. CASE ScheduleNext /\ now' = now
    <3>1. ASSUME NEW c \in Client, Fire(c)
          PROVE  QueriesInv'
      BY <2>4, <3>1, NewDraftReads DEF Fire, dataVars
    <3>2. CASE StartCheck \/ EndCheck \/ SendMail
      BY <2>4, <3>2, ReadsRest DEF StartCheck, EndCheck, SendMail, dataVars
    <3>3. ASSUME NEW c \in Client,
                 \/ PassOver(c) \/ CheckBreaks(c)
                 \/ \E s \in Schedules \cup {Nothing} : ChangeSchedule(c, s)
          PROVE  QueriesInv'
      BY <2>4, <3>3, ReadsRest DEF PassOver, CheckBreaks, ChangeSchedule, dataVars
    <3>4. QED
      BY <2>4, <3>1, <3>2, <3>3 DEF ScheduleNext
  <2>5. CASE DashboardNext /\ now' = now
    BY <2>5, DashboardMoves
  <2>6. CASE ReportRestart /\ now' = now
    BY <2>6, ReadsRest DEF ReportRestart, dataVars
  <2>7. CASE UNCHANGED vars
    BY <2>7, ReadsRest DEF vars, reportVars, dataVars
  <2>8. QED
    BY <2>1, <2>2, <2>3, <2>4, <2>5, <2>6, <2>7, StepsOfReports
<1>3. QED
  BY <1>1, <1>2, ReportInvariant, PTL DEF Spec

(* Products with a number keep the order. *)
LEMMA ProductsInOrder ==
  ASSUME NEW a \in Nat, NEW b \in Nat, NEW d \in Nat, a <= b
  PROVE  d * a <= d * b /\ d * a \in Nat /\ d * b \in Nat
<1>1. d * (b - a) \in Nat
  OBVIOUS
<1>2. d * b = d * a + d * (b - a) /\ d * a \in Nat /\ d * b \in Nat
  OBVIOUS
<1>3. QED
  BY <1>1, <1>2

(* How the periods of the sections compare. *)
LEMMA SpansInOrder ==
  ASSUME NEW days \in Nat, days > 0
  PROVE  /\ \A s \in {"breakdown", "totals", "rules", "notes", "roi"} : Span(s, days) = days
         /\ days >= 7 => Span("weekly", days) <= days
         /\ days <= 90 => Span("trend", days) >= days
<1>1. days >= 7 => Span("weekly", days) <= days
  <2>1. 7 * (days \div 7) <= days
    OBVIOUS
  <2>2. QED
    BY <2>1 DEF Span
<1>2. QED
  BY <1>1 DEF Span

(* A rule with enough rows, more than half of them wrong, has a false positive. *)
LEMMA SingledOutIsWrong ==
  ASSUME NEW S \in SUBSET Row, NEW r, MostlyWrong(S, r)
  PROVE  \E j \in S : Feedback[j].fp /\ Feedback[j].rule = r
<1> DEFINE all == Cardinality(OfRule(S, r))
           fps == Cardinality(OfRule(FalsePositives(S), r))
<1>1. all \in Nat /\ fps \in Nat /\ (fps > 0 => OfRule(FalsePositives(S), r) # {})
  BY OfRuleRows, SubsetsOfRows
<1>2. 2 * fps > all
  BY DEF MostlyWrong
<1> HIDE DEF all, fps
<1>3. fps > 0
  BY <1>1, <1>2
<1>4. OfRule(FalsePositives(S), r) # {}
  BY <1>1, <1>3
<1>5. QED
  BY <1>4 DEF OfRule, FalsePositives

(* So has a rule whose rate of false positives falls. *)
LEMMA ImprovingWasWrong ==
  ASSUME NEW S \in SUBSET Row, NEW R \in SUBSET Row, NEW r, Trend(S, R, r) = "improving"
  PROVE  \E j \in S : Feedback[j].fp /\ Feedback[j].rule = r
<1> DEFINE all == Cardinality(OfRule(S, r))
           fps == Cardinality(OfRule(FalsePositives(S), r))
           newAll == Cardinality(OfRule(R, r))
           newFps == Cardinality(OfRule(FalsePositives(R), r))
<1>1. /\ all \in Nat /\ fps \in Nat /\ newAll \in Nat /\ newFps \in Nat
      /\ (fps > 0 => OfRule(FalsePositives(S), r) # {})
  BY OfRuleRows, SubsetsOfRows
<1>2. newAll > 0 /\ 100 * newFps * all < (100 * fps - 5 * all) * newAll
  BY DEF Trend
<1> HIDE DEF all, fps, newAll, newFps
<1>3. fps > 0
  <2>1. ASSUME fps = 0
        PROVE  FALSE
    <3>1. (100 * newFps) * all \in Nat
      BY <1>1
    <3>2. (100 * fps - 5 * all) * newAll = 0 - (5 * all) * newAll
      BY <1>1, <2>1
    <3>3. (5 * all) * newAll \in Nat
      BY <1>1
    <3>4. QED
      BY <1>2, <3>1, <3>2, <3>3
  <2>2. QED
    BY <1>1, <2>1
<1>4. OfRule(FalsePositives(S), r) # {}
  BY <1>1, <1>3
<1>5. QED
  BY <1>4 DEF OfRule, FalsePositives

(* A complete draft: a section that answered has every row of its period that   *)
(* did not move, and every row in a section belongs to it or has moved. *)
LEMMA CompleteAgrees ==
  ASSUME ReportInv, QueriesInv
  PROVE  SectionsAgree
<1> DEFINE read == report.read
           Answered == Section \ report.failed
           Period == DayLength * report.days
           Outdated == {i \in Row : /\ rowAt[i] >= report.start - Period
                                    /\ rowAt[i] < now - Period}
           Moved == report.moved \cup Outdated
           Covers(p, q) == q \in Answered => read[p] \subseteq read[q] \cup Moved
           Whole == {"breakdown", "totals", "roi"}
           Listed == {Feedback[i].rule : i \in read["rules"]}
           TableFull == Cardinality(Listed) = RuleLimit
           Young(i) == Stays(i) /\ rowAt[i] >= now - Period
<1> SUFFICES ASSUME Complete
             PROVE  /\ \A p, q \in Whole : Covers(p, q)
                    /\ Covers("rules", "breakdown") /\ (Covers("notes", "rules") \/ TableFull)
                    /\ report.days >= 7 => Covers("weekly", "roi")
                    /\ report.days <= 90 => Covers("roi", "trend")
                    /\ (/\ Moved \cap UNION {read[s] : s \in Section} = {}
                        /\ {"breakdown", "rules"} \subseteq Answered) => \A r \in Rule :
                         /\ r \in SingledOut(read["rules"]) => MostlyWrong(read["breakdown"], r)
                         /\ (\/ r \in WrongRules(read["breakdown"])
                             \/ Trend(read["breakdown"], read["recent"], r) = "improving")
                            => \/ r \in Listed
                               \/ /\ TableFull
                                  /\ \A q \in Listed : ~Worse(read["breakdown"], r, q)
  BY DEF SectionsAgree
<1>1. /\ report # Nothing /\ report.next = 9
      /\ report.days \in Nat /\ report.days > 0 /\ report.start \in Nat
      /\ read \in [Section -> SUBSET Row] /\ report.failed \subseteq Section
      /\ \A s : Length(s) \in Nat
  <2>1. report # Nothing /\ report.next > 8
    BY SectionsOfReports DEF Complete
  <2>2. /\ report.next \in 1..9 /\ report.days \in Nat /\ report.days \in Periods
        /\ report.start \in Nat
        /\ read \in [Section -> SUBSET Row] /\ report.failed \subseteq Section
        /\ \A s : Length(s) \in Nat
    BY <2>1, DraftFacts
  <2>3. report.days > 0
    BY <2>2, ReportAssumption
  <2>4. QED
    BY <2>1, <2>2, <2>3
<1>2. ReadInv
  BY DEF QueriesInv
<1>3. \A s \in Section : Seen(s)
  BY <1>1, <1>2 DEF ReadInv
<1>4. \A q \in Answered : Full(q)
  <2> SUFFICES ASSUME NEW q \in Section, q \notin report.failed
               PROVE  Full(q)
    OBVIOUS
  <2>1. PICK k \in 1..8 : Sections[k] = q
    BY SectionsAll
  <2>2. k < report.next
    BY <1>1, <2>1
  <2>3. QED
    BY <1>1, <1>2, <2>1, <2>2 DEF ReadInv
<1>5. Period \in Nat /\ now \in Nat
  BY <1>1, ReportAssumption, RowFacts
<1>6. /\ \A s \in {"breakdown", "totals", "rules", "notes", "roi"} : Length(s) = Period
      /\ report.days >= 7 => Length("weekly") <= Period
      /\ report.days <= 90 => Period <= Length("trend")
  <2>1. DayLength \in Nat /\ \A s : Span(s, report.days) \in Nat
    BY <1>1, ReportAssumption, SpanIsNat
  <2>2. report.days >= 7 => Length("weekly") <= Period
    BY <1>1, <2>1, SpansInOrder, ProductsInOrder DEF Length
  <2>3. report.days <= 90 => Period <= Length("trend")
    BY <1>1, <2>1, SpansInOrder, ProductsInOrder DEF Length
  <2>4. \A s \in {"breakdown", "totals", "rules", "notes", "roi"} : Length(s) = Period
    BY <1>1, SpansInOrder DEF Length
  <2>5. QED
    BY <2>2, <2>3, <2>4
<1> HIDE DEF Period
<1>7. ASSUME NEW p \in Section, Length(p) <= Period, NEW i \in read[p], i \notin Moved
      PROVE  i \in Row /\ Young(i)
  <2>1. /\ i \in Row /\ rowAt[i] \in Int
        /\ Own(i) /\ rowAt[i] >= report.start - Length(p) /\ i \in table \cup report.moved
    BY <1>1, <1>3, <1>7, RowFacts DEF Seen
  <2>2. rowAt[i] >= report.start - Period
    BY <1>1, <1>5, <1>7, <2>1
  <2>3. ~(rowAt[i] < now - Period) /\ i \notin report.moved
    BY <1>7, <2>1, <2>2
  <2>4. QED
    BY <1>5, <2>1, <2>3 DEF Stays
<1>8. ASSUME NEW q \in Answered, Period <= Length(q), q \notin {"notes", "rules"},
             NEW i \in Row, Young(i)
      PROVE  i \in read[q]
  <2>1. rowAt[i] >= now - Length(q)
    BY <1>1, <1>5, <1>8, RowFacts
  <2>2. QED
    BY <1>4, <1>8, <2>1 DEF Full, Within
<1>9. ASSUME "rules" \in Answered
      PROVE  /\ FullTable
             /\ \A i \in Row : Young(i) => Within(i, "rules")
             /\ \A i \in Row, j \in read["rules"] :
                  Young(i) /\ Feedback[i].rule = Feedback[j].rule => i \in read["rules"]
  <2>1. \A i \in Row : Young(i) => Within(i, "rules")
    BY <1>6 DEF Within
  <2>2. FullTable
    BY <1>4, <1>9 DEF Full
  <2>3. QED
    BY <2>1, <2>2 DEF FullTable, Table
<1>10. Listed = ListedIn(Table)
  BY DEF ListedIn, Table
<1> HIDE DEF Young, Moved, Answered, Listed
<1>11. ASSUME NEW p \in Section, Length(p) <= Period,
              NEW q \in Section, Period <= Length(q), q \notin {"notes", "rules"}
       PROVE  Covers(p, q)
  BY <1>7, <1>8, <1>11
<1>12. {"breakdown", "totals", "rules", "notes", "roi", "weekly", "trend"} \subseteq Section
  BY DEF Section
<1>13. \A s \in {"breakdown", "totals", "rules", "notes", "roi"} : Length(s) <= Period /\ Period <= Length(s)
  BY <1>5, <1>6
<1>14. /\ \A p, q \in Whole : Covers(p, q)
       /\ Covers("rules", "breakdown")
       /\ report.days >= 7 => Covers("weekly", "roi")
       /\ report.days <= 90 => Covers("roi", "trend")
  BY <1>6, <1>11, <1>12, <1>13
<1>15. Covers("notes", "rules") \/ TableFull
  <2> SUFFICES ASSUME ~TableFull, "rules" \in Answered, NEW i \in read["notes"], i \notin Moved
               PROVE  i \in read["rules"]
    OBVIOUS
  <2>1. i \in Row /\ Young(i)
    BY <1>7, <1>12, <1>13
  <2>2. Feedback[i].fp
    BY <1>3, <1>12 DEF Seen
  <2>3. Feedback[i].rule \in Rule /\ i \in FalseWithin(Feedback[i].rule)
    BY <1>9, <2>1, <2>2, ReportAssumption DEF FalseWithin
  <2>4. Feedback[i].rule \in ListedIn(Table)
    BY <1>9, <1>10, <2>3 DEF FullTable
  <2>5. PICK j \in read["rules"] : Feedback[i].rule = Feedback[j].rule
    BY <2>4 DEF ListedIn, Table
  <2>6. QED
    BY <1>9, <2>1, <2>5
<1>16. ASSUME Moved \cap UNION {read[s] : s \in Section} = {},
              {"breakdown", "rules"} \subseteq Answered, NEW r \in Rule
       PROVE  /\ r \in SingledOut(read["rules"]) => MostlyWrong(read["breakdown"], r)
              /\ (\/ r \in WrongRules(read["breakdown"])
                  \/ Trend(read["breakdown"], read["recent"], r) = "improving")
                 => \/ r \in Listed
                    \/ /\ TableFull
                       /\ \A q \in Listed : ~Worse(read["breakdown"], r, q)
  <2>0. PICK rules \in SUBSET Row, breakdown \in SUBSET Row :
          rules = read["rules"] /\ breakdown = read["breakdown"]
    BY <1>1 DEF Section
  <2>1. read["recent"] \in SUBSET Row
    BY <1>1 DEF Section
  <2>2. \A s \in Section : \A i \in read[s] : i \notin Moved
    BY <1>16
  <2>3. \A i \in rules \cup breakdown : i \in Row /\ Young(i)
    BY <1>7, <1>12, <1>13, <2>0, <2>2
  <2>4. rules \subseteq breakdown
    BY <1>12, <1>14, <1>16, <2>0, <2>2
  <2>5. ASSUME NEW j \in rules, NEW i \in breakdown, Feedback[i].rule = Feedback[j].rule
        PROVE  i \in rules
    BY <1>9, <1>16, <2>0, <2>3, <2>5
  <2>6. ASSUME r \in SingledOut(rules)
        PROVE  MostlyWrong(breakdown, r)
    <3>1. MostlyWrong(rules, r)
      BY <2>6 DEF SingledOut
    <3>2. PICK j \in rules : Feedback[j].fp /\ Feedback[j].rule = r
      BY <3>1, SingledOutIsWrong
    <3>3. /\ OfRule(rules, r) = OfRule(breakdown, r)
          /\ OfRule(FalsePositives(rules), r) = OfRule(FalsePositives(breakdown), r)
      BY <2>4, <2>5, <3>2 DEF OfRule, FalsePositives
    <3>4. QED
      BY <3>1, <3>3 DEF MostlyWrong
  <2>7. ASSUME r \in WrongRules(breakdown) \/ Trend(breakdown, read["recent"], r) = "improving",
               r \notin Listed
        PROVE  /\ TableFull
               /\ \A q \in Listed : ~Worse(breakdown, r, q)
    <3>1. PICK j \in breakdown : Feedback[j].fp /\ Feedback[j].rule = r
      <4>1. CASE r \in WrongRules(breakdown)
        BY <4>1 DEF WrongRules, OfRule, FalsePositives
      <4>2. CASE Trend(breakdown, read["recent"], r) = "improving"
        BY <2>1, <4>2, ImprovingWasWrong
      <4>3. QED
        BY <2>7, <4>1, <4>2
    <3>2. /\ OfRule(FalsePositives(breakdown), r) \in SUBSET FalseWithin(r)
          /\ FalseWithin(r) \in SUBSET Row
      BY <1>9, <1>16, <2>3 DEF OfRule, FalsePositives, FalseWithin
    <3>3. FalseWithin(r) # {}
      BY <3>1, <3>2 DEF OfRule, FalsePositives
    <3>4. /\ TableFull
          /\ \A q \in Listed :
               Cardinality(FalseWithin(r)) <= Cardinality(OfRule(FalsePositives(rules), q))
      BY <1>9, <1>16, <1>10, <2>0, <2>7, <3>3 DEF FullTable, Table
    <3>5. \A q : OfRule(FalsePositives(rules), q) \in SUBSET OfRule(FalsePositives(breakdown), q)
      BY <2>4 DEF OfRule, FalsePositives
    <3>6. ASSUME NEW q \in Listed
          PROVE  Cardinality(OfRule(FalsePositives(breakdown), r))
                   <= Cardinality(OfRule(FalsePositives(breakdown), q))
      <4>1. /\ OfRule(FalsePositives(breakdown), q) \in SUBSET Row
            /\ OfRule(FalsePositives(breakdown), r) \in SUBSET Row
            /\ OfRule(FalsePositives(rules), q) \in SUBSET Row
        BY OfRuleRows
      <4>2. /\ Cardinality(OfRule(FalsePositives(rules), q))
                 <= Cardinality(OfRule(FalsePositives(breakdown), q))
            /\ Cardinality(OfRule(FalsePositives(breakdown), r)) <= Cardinality(FalseWithin(r))
        BY <3>2, <3>5, <4>1, SubsetsOfRows
      <4>3. /\ Cardinality(OfRule(FalsePositives(breakdown), q)) \in Nat
            /\ Cardinality(OfRule(FalsePositives(breakdown), r)) \in Nat
            /\ Cardinality(OfRule(FalsePositives(rules), q)) \in Nat
            /\ Cardinality(FalseWithin(r)) \in Nat
        BY <3>2, <4>1, SubsetsOfRows
      <4>4. Cardinality(FalseWithin(r)) <= Cardinality(OfRule(FalsePositives(rules), q))
        BY <3>4
      <4>5. QED
        BY <4>2, <4>3, <4>4
    <3>7. \A q : Cardinality(OfRule(FalsePositives(breakdown), q)) \in Nat
      BY OfRuleRows, SubsetsOfRows
    <3>8. QED
      BY <3>4, <3>6, <3>7 DEF Worse
  <2>8. QED
    BY <2>0, <2>6, <2>7
<1>17. QED
  BY <1>14, <1>15, <1>16

(* The sections of a report agree, whatever the dashboard and the clock do *)
(* between its queries and whichever of them fail (engine.py). *)
THEOREM ReportsAgree == Spec => []SectionsAgree
<1>1. ReportInv /\ QueriesInv => SectionsAgree
  BY CompleteAgrees
<1>2. QED
  BY <1>1, ReportInvariant, QueriesInvariant, PTL

=============================================================================
