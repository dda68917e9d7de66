---------------------------- MODULE FindingLifecycle ----------------------------
(***************************************************************************)
(* The findings of one tenant (compliance_reporting/exceptions.py): an     *)
(* event log per finding, from which its state is projected, and the       *)
(* requests that open findings and move them.                              *)
(*                                                                         *)
(* api/service.py builds a FindingStore per call, so no lock is shared: a  *)
(* request reads the log, decides, and INSERTs under the next number, and  *)
(* other requests, and the posture worker's open_finding, act in between.  *)
(* The INSERT is "OR IGNORE": a number that is taken inserts nothing.      *)
(* Whether the row went in is not looked at; the answer is the projection  *)
(* of what the log then holds.                                             *)
(*                                                                         *)
(* Of a payload the model keeps the exception; the fields a projection     *)
(* only hands on, and what identifies the retest report, are left out.     *)
(***************************************************************************)
EXTENDS Integers, Sequences, SequencesExt

CONSTANTS
  Findings,     \* finding ids
  Requests,     \* request threads of the API, and the worker's open_finding
  Expiries,     \* expiry dates that exceptions may have, and dates asked about
  MaxEvents     \* bound: events in one log

ASSUME FindingAssumption == Expiries \subseteq Nat /\ MaxEvents \in Nat

VARIABLES
  log,          \* finding -> its events in the order of seq, the position
  req           \* request -> where it stands and what it has read

fvars == <<log, req>>

--------------------------------------------------------------------------------
\* States and transitions

States == {"open", "in_progress", "remediated", "retest_pending", "closed",
           "risk_accepted", "expired"}

\* mutant: a finding can be closed as soon as it is remediated
GraphWithoutRetest ==
  [open           |-> [start |-> "in_progress", accept_risk |-> "risk_accepted",
                       remediate |-> "remediated"],
   in_progress    |-> [remediate |-> "remediated", accept_risk |-> "risk_accepted"],
   remediated     |-> [request_retest |-> "retest_pending", reopen |-> "open",
                       retest_pass |-> "closed"],
   retest_pending |-> [retest_pass |-> "closed", retest_fail |-> "open"],
   risk_accepted  |-> [expire |-> "expired", revoke |-> "open", remediate |-> "remediated"],
   expired        |-> [reaccept |-> "risk_accepted", start |-> "in_progress",
                       remediate |-> "remediated"],
   closed         |-> [reopen |-> "open"]]

\* _TRANSITIONS: state -> action -> next state
Graph ==
  [open           |-> [start |-> "in_progress", accept_risk |-> "risk_accepted",
                       remediate |-> "remediated"],
   in_progress    |-> [remediate |-> "remediated", accept_risk |-> "risk_accepted"],
   remediated     |-> [request_retest |-> "retest_pending", reopen |-> "open"],
   retest_pending |-> [retest_pass |-> "closed", retest_fail |-> "open"],
   risk_accepted  |-> [expire |-> "expired", revoke |-> "open", remediate |-> "remediated"],
   expired        |-> [reaccept |-> "risk_accepted", start |-> "in_progress",
                       remediate |-> "remediated"],
   closed         |-> [reopen |-> "open"]]

Actions == {"open"} \cup (UNION {DOMAIN Graph[s] : s \in States})

--------------------------------------------------------------------------------
\* Events and their projection

NoExpiry == -1
Unreadable == -2  \* some text that is not an ISO date

\* named: approver, rationale and compensating control are given.  absent: the
\* payload has no exception, or null, and leaves the one known before in place.
Exceptions == [named: BOOLEAN, expiry: Expiries \cup {NoExpiry, Unreadable}, absent: {FALSE}]
NoException == [named |-> FALSE, expiry |-> NoExpiry, absent |-> TRUE]

CompleteException(e) == e.named /\ e.expiry # NoExpiry

Event == [action: Actions, from: States \cup {"none"}, to: States,
          exception: Exceptions \cup {NoException}]

Opening == [action |-> "open", from |-> "none", to |-> "open", exception |-> NoException]

StateOf(events) == Last(events).to

\* mutant: the first exception of the log is kept
ExceptionOfFirst(events) ==
  LET given == {i \in DOMAIN events : ~events[i].exception.absent}
  IN  IF given = {} THEN NoException
      ELSE events[CHOOSE i \in given : \A k \in given : i <= k].exception

\* project's meta: the latest exception that is not null
ExceptionOf(events) ==
  LET given == {i \in DOMAIN events : ~events[i].exception.absent}
  IN  IF given = {} THEN NoException
      ELSE events[CHOOSE i \in given : \A k \in given : k <= i].exception

\* project(events, as_of): an accepted risk that has lapsed reads as expired; an
\* expiry that cannot be read is passed over
StateAsOf(events, day) ==
  IF /\ StateOf(events) = "risk_accepted"
     /\ ExceptionOf(events).expiry \notin {NoExpiry, Unreadable}
     /\ day >= ExceptionOf(events).expiry
  THEN "expired" ELSE StateOf(events)

\* _validate: an expiry is asked for, not that it is a date; a retest_pass that
\* names no retest report is refused as well
Valid(action, exception) == action = "accept_risk" => CompleteException(exception)

\* mutant: the late event takes the next free number
InsertedLate(events, seq, e) == Append(events, e)

\* INSERT OR IGNORE under the key (finding_id, seq); seq is at most one too high
Inserted(events, seq, e) ==
  IF seq \in DOMAIN events THEN events ELSE Append(events, e)

--------------------------------------------------------------------------------
\* Requests

Served == [pc |-> "idle"]

Request == {Served} \cup
  [pc: {"inserting"}, finding: Findings, seq: Nat \ {0}, event: Event]

FInit ==
  /\ log = [f \in Findings |-> <<>>]
  /\ req = [r \in Requests |-> Served]

\* open_finding: the log is read; an existing finding is left as it is
OpenRead(r, f) ==
  /\ req[r].pc = "idle"
  /\ log[f] = <<>>
  /\ req' = [req EXCEPT ![r] = [pc |-> "inserting", finding |-> f, seq |-> 1,
                                event |-> Opening]]
  /\ UNCHANGED log

\* transition: read, check the graph and the payload, number the event
TransitionRead(r, f, action, exception) ==
  /\ req[r].pc = "idle"
  /\ log[f] # <<>> /\ Len(log[f]) < MaxEvents
  /\ action \in DOMAIN Graph[StateOf(log[f])]
  /\ Valid(action, exception)
  /\ req' = [req EXCEPT ![r] =
       [pc |-> "inserting", finding |-> f, seq |-> Len(log[f]) + 1,
        event |-> [action |-> action, from |-> StateOf(log[f]),
                   to |-> Graph[StateOf(log[f])][action], exception |-> exception]]]
  /\ UNCHANGED log

\* _append, for either of them; the answer follows, whether the row went in or not
InsertEvent(r) ==
  /\ req[r].pc = "inserting"
  /\ log' = [log EXCEPT ![req[r].finding] = Inserted(@, req[r].seq, req[r].event)]
  /\ req' = [req EXCEPT ![r] = Served]

\* The request ends before its INSERT: the process dies, or the database is locked
\* for longer than the busy timeout.
RequestLost(r) ==
  /\ req[r].pc = "inserting"
  /\ req' = [req EXCEPT ![r] = Served]
  /\ UNCHANGED log

FNext ==
  \E r \in Requests :
    \/ \E f \in Findings :
         \/ OpenRead(r, f)
         \/ \E action \in Actions, exception \in Exceptions \cup {NoException} :
              TransitionRead(r, f, action, exception)
    \/ InsertEvent(r)
    \/ RequestLost(r)

FSpec == FInit /\ [][FNext]_fvars

--------------------------------------------------------------------------------
\* Properties

\* Type invariant of the log and of the requests under way.
FTypeOK ==
  /\ log \in [Findings -> Seq(Event)]
  /\ req \in [Requests -> Request]

\* A step of the graph from a state
Follows(e, s) ==
  /\ e.from = s
  /\ e.action \in DOMAIN Graph[s]
  /\ e.to = Graph[s][e.action]

\* The log is a path of the transition graph, from OPEN on, whatever requests
\* decided on a log that others have moved since: the number of the event is
\* taken then, and IGNORE drops the late one ("enforcing the allowed transition
\* graph", exceptions.py:244).
LogIsPath ==
  \A f \in Findings : \A i \in DOMAIN log[f] :
    IF i = 1 THEN log[f][1] = Opening ELSE Follows(log[f][i], log[f][i - 1].to)

\* The events a log may go on with, for one who sees it as it is
AllowedEvents(events) ==
  IF events = <<>> THEN {Opening}
  ELSE LET s == StateOf(events)
       IN  {e \in [action: DOMAIN Graph[s], from: {s}, to: States,
                   exception: Exceptions \cup {NoException}] :
              e.to = Graph[s][e.action] /\ Valid(e.action, e.exception)}

\* The store is an event store, though a request reads in one statement and
\* inserts in another: each step leaves the logs as they are, or adds to one log
\* one event, which is one of those its present state allows, with its payload.
FindingPromise == INSTANCE EventStore
  WITH Entities <- Findings, Allowed <- AllowedEvents, history <- log

EventsTakeEffectAtOnce == FindingPromise!Spec

\* "Nothing is deleted": no step rewrites or removes an event.
HistoryGrows == [][\A f \in Findings : IsPrefix(log[f], log'[f])]_fvars

\* "A CLOSED finding requires a passing retest": the events that close it are, in
\* a row, a remediation, the request of a retest and the pass.
ClosedWasRetested ==
  \A f \in Findings :
    log[f] # <<>> /\ StateOf(log[f]) = "closed" =>
      LET n == Len(log[f]) IN
      /\ n >= 4
      /\ log[f][n].action = "retest_pass"
      /\ log[f][n - 1].action = "request_retest"
      /\ log[f][n - 2].action = "remediate"

\* A risk accepted by accept_risk reads as at risk again once the expiry that was
\* approved with it is over, if that can be read, whatever exceptions the finding
\* had before.
AcceptanceLapses ==
  \A f \in Findings, day \in Expiries :
    log[f] # <<>> /\ Last(log[f]).action = "accept_risk"
      /\ Last(log[f]).exception.expiry # Unreadable
      /\ day >= Last(log[f]).exception.expiry
        => StateAsOf(log[f], day) = "expired"

\* "once `as_of` passes the expiry it is EXPIRED and the control is at risk again"
\* (exceptions.py:24): there is a day on which a risk accepted by accept_risk
\* reads as expired.
AcceptanceEnds ==
  \A f \in Findings :
    log[f] # <<>> /\ Last(log[f]).action = "accept_risk" =>
      \E day \in Expiries : StateAsOf(log[f], day) = "expired"

\* "A RISK_ACCEPTED finding carries an approver, rationale, compensating control
\* and an expiry" (exceptions.py:22-25).
AcceptedIsTimeBoxed ==
  \A f \in Findings :
    log[f] # <<>> /\ StateOf(log[f]) = "risk_accepted" => CompleteException(ExceptionOf(log[f]))
================================================================================
