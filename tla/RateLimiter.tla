------------------------------ MODULE RateLimiter ------------------------------
(***************************************************************************)
(* The limiter of one principal's requests: it remembers those of the last *)
(* window, the ones it refused included, and admits a request if, with it, *)
(* they are no more than the limit.  It counts what it remembers and never *)
(* looks at its order.  Its lock covers a check.                           *)
(***************************************************************************)
EXTENDS Integers, Sequences, FiniteSets

CONSTANTS
  Limit,       \* requests per window; 0 turns the limiter off
  Window,      \* length of the window
  MaxSecond,   \* bound on the clock
  MaxChecks    \* bound on the requests

ASSUME LimiterAssumption == {Limit, Window, MaxSecond, MaxChecks} \subseteq Nat

VARIABLES
  second,    \* the monotonic clock
  asked,     \* how many requests there were
  hits,      \* the requests remembered, each with its time
  admitted   \* all requests let through so far, in order

limiterVars == <<second, asked, hits, admitted>>

ThisRequest == [n |-> asked + 1, at |-> second]

\* mutant: a request is forgotten a second early
CountedEarly == {r \in hits : second - r.at < Window - 1} \cup {ThisRequest}

\* What is remembered after one more request.
Counted == {r \in hits : second - r.at < Window} \cup {ThisRequest}

Check ==
  /\ asked < MaxChecks
  /\ asked' = asked + 1
  /\ hits' = IF Limit = 0 THEN hits ELSE Counted
  /\ admitted' = IF Limit = 0 \/ Cardinality(Counted) <= Limit THEN Append(admitted, ThisRequest)
                 ELSE admitted
  /\ UNCHANGED second

Second ==
  /\ second < MaxSecond
  /\ second' = second + 1
  /\ UNCHANGED <<asked, hits, admitted>>

LimiterInit == second = 0 /\ asked = 0 /\ hits = {} /\ admitted = <<>>

LimiterNext == Check \/ Second

LimiterSpec == LimiterInit /\ [][LimiterNext]_limiterVars

\* In no window, wherever it starts, are more requests let through than the
\* limit, although what the limiter remembers is pruned at every check.
RateBound ==
  Limit > 0 => \A i \in DOMAIN admitted :
    i + Limit \in DOMAIN admitted => admitted[i + Limit].at - admitted[i].at >= Window
================================================================================
