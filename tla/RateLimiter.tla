---------------------------- MODULE RateLimiter ----------------------------
(***************************************************************************)
(* The sliding-window limiter in front of POST /analyze and POST /feedback *)
(* (src/api/rate_limit.py).  check() never awaits and holds the bucket's   *)
(* lock, so that a check is one step.  A caller is the key of its bucket:  *)
(* the source address, or the first one in X-Forwarded-For.                *)
(***************************************************************************)
EXTENDS Clock, Integers, Sequences, FiniteSets

CONSTANTS
  Caller,     \* the keys of the buckets
  Rpm,        \* requests allowed in a window
  RateWindow  \* its length, 60 seconds in the code

ASSUME RateAssumption == Rpm \in Nat /\ RateWindow \in Nat

VARIABLES
  stamps,   \* the timestamps in each bucket
  accepted  \* when each caller's requests were accepted (not program state)

limiterVars == <<stamps, accepted>>

LimiterTypeOK ==
  /\ stamps \in [Caller -> Seq(Time)]
  /\ accepted \in [Caller -> Seq(Time)]

(* A variation: a timestamp leaves when it is as old as the window. *)
ExpiredAtTheEdge(s) ==
  CHOOSE n \in 0..Len(s) :
    /\ \A i \in 1..n : s[i] <= now - RateWindow
    /\ n = Len(s) \/ s[n + 1] > now - RateWindow

(* How many timestamps the loop of check() pops from the left: all before the *)
(* first that is not older than the window. *)
Expired(s) ==
  CHOOSE n \in 0..Len(s) :
    /\ \A i \in 1..n : s[i] < now - RateWindow
    /\ n = Len(s) \/ s[n + 1] >= now - RateWindow

Fresh(s) == SubSeq(s, Expired(s) + 1, Len(s))

(* check() returns, and the request counts. *)
Admit(c) ==
  /\ Len(Fresh(stamps[c])) < Rpm
  /\ stamps' = [stamps EXCEPT ![c] = Append(Fresh(@), now)]
  /\ accepted' = [accepted EXCEPT ![c] = Append(@, now)]

(* check() answers 429; the request does not count. *)
Refuse(c) ==
  /\ Len(Fresh(stamps[c])) >= Rpm
  /\ stamps' = [stamps EXCEPT ![c] = Fresh(@)]
  /\ UNCHANGED accepted

LimiterInit ==
  /\ stamps = [c \in Caller |-> <<>>]
  /\ accepted = [c \in Caller |-> <<>>]

----------------------------------------------------------------------------
(* Of any Rpm + 1 requests of a caller that were accepted one after another,  *)
(* the first and the last are more than the window apart: no window of 60       *)
(* seconds, wherever it starts, holds more than Rpm of them (rate_limit.py:1). *)
WindowBounded ==
  \A c \in Caller : \A i \in 1..Len(accepted[c]) :
    i + Rpm <= Len(accepted[c]) =>
      accepted[c][i + Rpm] - accepted[c][i] > RateWindow

=============================================================================
