----------------------------- MODULE FindingProofs -----------------------------
(***************************************************************************)
(* The log of a finding, for any number of findings, requests, expiries    *)
(* and events: it only grows, it is a path of the transition graph, and    *)
(* what the graph and _validate promise of a closed and of an accepted     *)
(* finding holds of it.  The strengthening says what an event that waits   *)
(* for its INSERT was decided on: the event before the one it would be.    *)
(***************************************************************************)
EXTENDS FindingLifecycle, DataLemmas

\* The event may stand in the log at this place.
Fits(events, i, e) ==
  IF i = 1 THEN e = Opening ELSE Follows(e, events[i - 1].to)

\* What _validate has seen to
Validated(e) == Valid(e.action, e.exception)

Waiting(r) == req[r].pc = "inserting"

\* A request's event fits where it would go, and has been validated.
RequestsFit ==
  \A r \in Requests : Waiting(r) =>
    /\ req[r].seq <= Len(log[req[r].finding]) + 1
    /\ Fits(log[req[r].finding], req[r].seq, req[r].event)
    /\ Validated(req[r].event)

LogFits ==
  \A f \in Findings : \A i \in DOMAIN log[f] :
    Fits(log[f], i, log[f][i]) /\ Validated(log[f][i])

FindingInv == FTypeOK /\ LogFits /\ RequestsFit

--------------------------------------------------------------------------------
\* Operators

\* What the graph says, read backwards: how a state is come to.
LEMMA GraphFacts ==
  ASSUME NEW s \in States, NEW a \in DOMAIN Graph[s]
  PROVE  /\ a \in Actions
         /\ Graph[s][a] \in States
         /\ a = "accept_risk" => Graph[s][a] = "risk_accepted"
         /\ Graph[s][a] = "closed" => s = "retest_pending" /\ a = "retest_pass"
         /\ Graph[s][a] = "retest_pending" => s = "remediated" /\ a = "request_retest"
         /\ Graph[s][a] = "remediated" => a = "remediate"
  <1>1. CASE s = "open"  BY <1>1 DEF Graph, States, Actions
  <1>2. CASE s = "in_progress"  BY <1>2 DEF Graph, States, Actions
  <1>3. CASE s = "remediated"  BY <1>3 DEF Graph, States, Actions
  <1>4. CASE s = "retest_pending"  BY <1>4 DEF Graph, States, Actions
  <1>5. CASE s = "closed"  BY <1>5 DEF Graph, States, Actions
  <1>6. CASE s = "risk_accepted"  BY <1>6 DEF Graph, States, Actions
  <1>7. CASE s = "expired"  BY <1>7 DEF Graph, States, Actions
  <1> QED  BY <1>1, <1>2, <1>3, <1>4, <1>5, <1>6, <1>7 DEF States

\* INSERT OR IGNORE keeps what is there, and adds at most the row it was given.
LEMMA InsertedFacts ==
  ASSUME NEW events \in Seq(Event), NEW e \in Event, NEW seq \in Nat \ {0},
         seq <= Len(events) + 1
  PROVE  /\ Inserted(events, seq, e) \in Seq(Event)
         /\ Len(events) <= Len(Inserted(events, seq, e))
         /\ \A i \in 1..Len(events) : Inserted(events, seq, e)[i] = events[i]
         /\ \A i \in DOMAIN Inserted(events, seq, e) :
              i \notin 1..Len(events) => i = seq /\ Inserted(events, seq, e)[i] = e
  <1>1. CASE seq \in DOMAIN events
    BY <1>1, LenProperties DEF Inserted
  <1>2. CASE seq \notin DOMAIN events
    <2>1. seq = Len(events) + 1  BY <1>2, LenProperties
    <2>2. Inserted(events, seq, e) = Append(events, e)  BY <1>2 DEF Inserted
    <2>3. /\ Append(events, e) \in Seq(Event)
          /\ Len(Append(events, e)) = Len(events) + 1
          /\ \A i \in 1..Len(events) : Append(events, e)[i] = events[i]
          /\ Append(events, e)[Len(events) + 1] = e
          /\ DOMAIN Append(events, e) = 1..(Len(events) + 1)
      BY AppendProperties, LenProperties
    <2> QED  BY <2>1, <2>2, <2>3, LenProperties
  <1> QED  BY <1>1, <1>2

\* The order of two logs of a finding: the later has all of the earlier.
Longer(events, events2) ==
  /\ Len(events) <= Len(events2)
  /\ \A i \in 1..Len(events) : events2[i] = events[i]

\* An event that fits goes on fitting while the log grows.
LEMMA FitsGrows ==
  ASSUME NEW events \in Seq(Event), NEW events2 \in Seq(Event),
         Longer(events, events2), NEW seq \in Nat \ {0}, seq <= Len(events) + 1, NEW e
  PROVE  Fits(events, seq, e) <=> Fits(events2, seq, e)
  <1>1. CASE seq = 1  BY <1>1 DEF Fits
  <1>2. CASE seq # 1
    <2>1. seq - 1 \in 1..Len(events)  BY <1>2, LenProperties
    <2> QED  BY <1>2, <2>1 DEF Fits, Longer
  <1> QED  BY <1>1, <1>2

--------------------------------------------------------------------------------
\* The invariant

LEMMA OpeningFacts ==
  Opening \in Event /\ Validated(Opening)
  BY DEF Opening, Event, Actions, States, Validated, Valid

\* A request that has decided on a log: what its event is.
LEMMA DecidedFacts ==
  ASSUME NEW s \in States, NEW a \in DOMAIN Graph[s],
         NEW x \in Exceptions \cup {NoException}, Valid(a, x)
  PROVE  LET e == [action |-> a, from |-> s, to |-> Graph[s][a], exception |-> x]
         IN  e \in Event /\ Follows(e, s) /\ Validated(e)
  BY GraphFacts DEF Event, Follows, Validated

LEMMA FindingInit == FInit => FindingInv
  <1> SUFFICES ASSUME FInit PROVE FindingInv  OBVIOUS
  <1>1. FTypeOK
    <2>1. <<>> \in Seq(Event)  BY EmptySeq
    <2> QED  BY <2>1 DEF FInit, FTypeOK, Request, Served
  <1>2. LogFits
    <2>1. \A f \in Findings : DOMAIN log[f] = {}  BY DEF FInit
    <2> QED  BY <2>1 DEF LogFits
  <1>3. RequestsFit  BY DEF FInit, RequestsFit, Waiting, Served
  <1> QED  BY <1>1, <1>2, <1>3 DEF FindingInv

\* The fields of a request that waits
LEMMA WaitingFacts ==
  ASSUME FTypeOK, NEW r \in Requests, Waiting(r)
  PROVE  /\ req[r].finding \in Findings
         /\ req[r].seq \in Nat \ {0}
         /\ req[r].event \in Event
  BY DEF FTypeOK, Request, Served, Waiting

\* One more request waits, with an event that fits; the logs stay.
LEMMA DecisionKeeps ==
  ASSUME FindingInv, NEW r \in Requests, NEW f \in Findings, NEW seq \in Nat \ {0},
         NEW e \in Event, seq <= Len(log[f]) + 1, Fits(log[f], seq, e), Validated(e),
         req' = [req EXCEPT ![r] = [pc |-> "inserting", finding |-> f, seq |-> seq,
                                    event |-> e]],
         UNCHANGED log
  PROVE  FindingInv'
  <1> DEFINE q == [pc |-> "inserting", finding |-> f, seq |-> seq, event |-> e]
  <1>1. q \in Request  BY DEF Request
  <1>2. /\ q.pc = "inserting" /\ q.finding = f /\ q.seq = seq /\ q.event = e
    OBVIOUS
  <1> HIDE DEF q
  <1>3. req' = [req EXCEPT ![r] = q]  BY DEF q
  <1>4. FTypeOK'  BY <1>1, <1>3 DEF FindingInv, FTypeOK
  <1>5. LogFits'  BY DEF FindingInv, LogFits
  <1>6. RequestsFit'
    <2> SUFFICES ASSUME NEW k \in Requests, Waiting(k)'
                 PROVE  /\ req'[k].seq <= Len(log[req'[k].finding]) + 1
                        /\ Fits(log[req'[k].finding], req'[k].seq, req'[k].event)
                        /\ Validated(req'[k].event)
      BY DEF RequestsFit
    <2>1. CASE k = r
      <3>1. req'[k] = q  BY <1>3, <2>1 DEF FindingInv, FTypeOK
      <3> QED  BY <1>2, <3>1
    <2>2. CASE k # r
      <3>1. req'[k] = req[k]  BY <1>3, <2>2 DEF FindingInv, FTypeOK
      <3> QED  BY <3>1 DEF FindingInv, RequestsFit, Waiting
    <2> QED  BY <2>1, <2>2
  <1> QED  BY <1>4, <1>5, <1>6 DEF FindingInv

\* Fewer requests wait, and the logs grow by events that fit.
LEMMA AnswerKeeps ==
  ASSUME FindingInv, NEW r \in Requests,
         req' = [req EXCEPT ![r] = Served],
         log' \in [Findings -> Seq(Event)], LogFits',
         \A f \in Findings : Longer(log[f], log'[f])
  PROVE  FindingInv'
  <1>1. Served \in Request /\ Served.pc # "inserting"  BY DEF Served, Request
  <1>2. FTypeOK'  BY <1>1 DEF FindingInv, FTypeOK
  <1>3. RequestsFit'
    <2> SUFFICES ASSUME NEW k \in Requests, Waiting(k)'
                 PROVE  /\ req'[k].seq <= Len(log'[req'[k].finding]) + 1
                        /\ Fits(log'[req'[k].finding], req'[k].seq, req'[k].event)
                        /\ Validated(req'[k].event)
      BY DEF RequestsFit
    <2>1. k # r  BY <1>1 DEF FindingInv, FTypeOK, Waiting
    <2>2. req'[k] = req[k] /\ Waiting(k)  BY <2>1 DEF FindingInv, FTypeOK, Waiting
    <2> DEFINE f == req[k].finding
               seq == req[k].seq
    <2>3. f \in Findings /\ seq \in Nat \ {0}  BY <2>2, WaitingFacts DEF FindingInv
    <2>4. /\ seq <= Len(log[f]) + 1
          /\ Fits(log[f], seq, req[k].event)
          /\ Validated(req[k].event)
      BY <2>2 DEF FindingInv, RequestsFit
    <2>5. log[f] \in Seq(Event) /\ log'[f] \in Seq(Event)
      BY <2>3 DEF FindingInv, FTypeOK
    <2> HIDE DEF f, seq
    <2>6. Len(log[f]) \in Nat /\ Len(log'[f]) \in Nat  BY <2>5, LenProperties
    <2>7. Longer(log[f], log'[f])  BY <2>3
    <2>8. seq <= Len(log'[f]) + 1  BY <2>3, <2>4, <2>6, <2>7 DEF Longer
    <2>9. Fits(log'[f], seq, req[k].event)  BY <2>3, <2>4, <2>5, <2>7, FitsGrows
    <2> QED  BY <2>2, <2>4, <2>8, <2>9 DEF f, seq
  <1> QED  BY <1>2, <1>3 DEF FindingInv

\* The INSERT: the row is ignored, or it is the next and fits.
LEMMA InsertGrows ==
  ASSUME FindingInv, NEW r \in Requests, InsertEvent(r)
  PROVE  /\ log' \in [Findings -> Seq(Event)]
         /\ LogFits'
         /\ \A f \in Findings : Longer(log[f], log'[f])
  <1> DEFINE g == req[r].finding
             seq == req[r].seq
             e == req[r].event
             new == Inserted(log[g], seq, e)
  <1>1. Waiting(r)  BY DEF InsertEvent, Waiting
  <1>2. g \in Findings /\ seq \in Nat \ {0} /\ e \in Event
    BY <1>1, WaitingFacts DEF FindingInv
  <1>3. seq <= Len(log[g]) + 1 /\ Fits(log[g], seq, e) /\ Validated(e)
    BY <1>1 DEF FindingInv, RequestsFit
  <1>4. log \in [Findings -> Seq(Event)]  BY DEF FindingInv, FTypeOK
  <1>5. log' = [log EXCEPT ![g] = new]  BY DEF InsertEvent
  <1> HIDE DEF g, seq, e
  <1>6. /\ new \in Seq(Event)
        /\ Longer(log[g], new)
        /\ \A i \in DOMAIN new : i \notin 1..Len(log[g]) => i = seq /\ new[i] = e
    BY <1>2, <1>3, <1>4, InsertedFacts DEF Longer
  <1> HIDE DEF new
  <1>7. \A f \in Findings : log'[f] = IF f = g THEN new ELSE log[f]
    BY <1>2, <1>4, <1>5
  <1>8. log' \in [Findings -> Seq(Event)]  BY <1>4, <1>5, <1>6
  <1>9. \A f \in Findings : Longer(log[f], log'[f])
    <2>1. \A f \in Findings : Longer(log[f], log[f])
      BY <1>4, LenProperties DEF Longer
    <2> QED  BY <1>6, <1>7, <2>1
  <1>10. LogFits'
    <2> SUFFICES ASSUME NEW f \in Findings, NEW i \in DOMAIN log'[f]
                 PROVE  Fits(log'[f], i, log'[f][i]) /\ Validated(log'[f][i])
      BY DEF LogFits
    <2>1. CASE f # g
      BY <1>7, <2>1 DEF FindingInv, LogFits
    <2>2. CASE f = g /\ i \in 1..Len(log[g])
      <3>1. i \in DOMAIN log[g]  BY <1>2, <1>4, <2>2, LenProperties
      <3>2. Fits(log[g], i, log[g][i]) /\ Validated(log[g][i])
        BY <1>2, <3>1 DEF FindingInv, LogFits
      <3>3. new[i] = log[g][i]  BY <1>6, <2>2 DEF Longer
      <3>4. i \in Nat \ {0} /\ i <= Len(log[g]) + 1
        BY <1>2, <1>4, <2>2, LenProperties
      <3>5. Fits(new, i, new[i])
        BY <1>2, <1>4, <1>6, <3>2, <3>3, <3>4, FitsGrows
      <3> QED  BY <1>7, <2>2, <3>2, <3>3, <3>5
    <2>3. CASE f = g /\ i \notin 1..Len(log[g])
      <3>1. i = seq /\ new[i] = e  BY <1>6, <1>7, <2>3
      <3>2. Fits(new, seq, e)  BY <1>2, <1>3, <1>4, <1>6, FitsGrows
      <3> QED  BY <1>3, <1>7, <2>3, <3>1, <3>2
    <2> QED  BY <2>1, <2>2, <2>3
  <1> QED  BY <1>8, <1>9, <1>10

\* Every step keeps the invariant, and lets the logs only grow.
LEMMA FindingStep ==
  ASSUME FindingInv, [FNext]_fvars
  PROVE  FindingInv' /\ \A f \in Findings : Longer(log[f], log'[f])
  <1>1. log \in [Findings -> Seq(Event)]  BY DEF FindingInv, FTypeOK
  <1>2. ASSUME UNCHANGED log PROVE \A f \in Findings : Longer(log[f], log'[f])
    BY <1>1, <1>2, LenProperties DEF Longer
  <1>3. ASSUME NEW r \in Requests, NEW f \in Findings, OpenRead(r, f)
        PROVE  FindingInv' /\ \A k \in Findings : Longer(log[k], log'[k])
    <2>1. 1 \in Nat \ {0} /\ 1 <= Len(log[f]) + 1  BY <1>1, LenProperties
    <2>2. Fits(log[f], 1, Opening)  BY DEF Fits
    <2>3. FindingInv'  BY <1>3, <2>1, <2>2, OpeningFacts, DecisionKeeps DEF OpenRead
    <2> QED  BY <1>2, <1>3, <2>3 DEF OpenRead
  <1>4. ASSUME NEW r \in Requests, NEW f \in Findings, NEW action \in Actions,
               NEW exception \in Exceptions \cup {NoException},
               TransitionRead(r, f, action, exception)
        PROVE  FindingInv' /\ \A k \in Findings : Longer(log[k], log'[k])
    <2> DEFINE n == Len(log[f])
               s == StateOf(log[f])
               e == [action |-> action, from |-> s, to |-> Graph[s][action],
                     exception |-> exception]
    <2>1. n \in Nat \ {0}  BY <1>1, <1>4, EmptySeq DEF TransitionRead
    <2>2. log[f][n] \in Event  BY <1>1, <2>1, ElementOfSeq
    <2>3. s = log[f][n].to /\ s \in States  BY <2>2 DEF StateOf, Last, Event
    <2>4. action \in DOMAIN Graph[s] /\ Valid(action, exception)
      BY <1>4 DEF TransitionRead
    <2>5. e \in Event /\ Follows(e, s) /\ Validated(e)  BY <2>3, <2>4, DecidedFacts
    <2>6. req' = [req EXCEPT ![r] = [pc |-> "inserting", finding |-> f, seq |-> n + 1,
                                     event |-> e]]
      BY <1>4 DEF TransitionRead
    <2> HIDE DEF e
    <2>7. Fits(log[f], n + 1, e)  BY <2>1, <2>3, <2>5 DEF Fits
    <2>8. n + 1 \in Nat \ {0} /\ n + 1 <= Len(log[f]) + 1  BY <2>1
    <2>9. UNCHANGED log  BY <1>4 DEF TransitionRead
    <2> HIDE DEF n
    <2>10. FindingInv'  BY <2>5, <2>6, <2>7, <2>8, <2>9, DecisionKeeps
    <2> QED  BY <1>2, <2>9, <2>10
  <1>5. ASSUME NEW r \in Requests, InsertEvent(r)
        PROVE  FindingInv' /\ \A k \in Findings : Longer(log[k], log'[k])
    BY <1>5, InsertGrows, AnswerKeeps DEF InsertEvent
  <1>6. ASSUME NEW r \in Requests, RequestLost(r)
        PROVE  FindingInv' /\ \A k \in Findings : Longer(log[k], log'[k])
    <2>1. LogFits'  BY <1>6 DEF RequestLost, FindingInv, LogFits
    <2> QED  BY <1>1, <1>2, <1>6, <2>1, AnswerKeeps DEF RequestLost
  <1>7. CASE UNCHANGED fvars
    <2>1. FindingInv'
      BY <1>7 DEF fvars, FindingInv, FTypeOK, LogFits, RequestsFit, Waiting
    <2> QED  BY <1>2, <1>7, <2>1 DEF fvars
  <1> QED  BY <1>3, <1>4, <1>5, <1>6, <1>7 DEF FNext

\* The invariant is the base of what follows: the logs are well typed, and an
\* event, in its log or about to be inserted, follows the one before it.
THEOREM FindingInvariant == FSpec => []FindingInv
  BY FindingInit, FindingStep, PTL DEF FSpec

\* Type correctness of the logs and of the requests under way (exceptions.py:145).
THEOREM FindingTypeCorrect == FSpec => []FTypeOK
  <1>1. FindingInv => FTypeOK  BY DEF FindingInv
  <1> QED  BY <1>1, FindingInvariant, PTL

\* The log is a path of the transition graph, for any number of racing requests.
THEOREM LogAlwaysPath == FSpec => []LogIsPath
  <1>1. FindingInv => LogIsPath
    BY DEF FindingInv, LogFits, Fits, LogIsPath
  <1> QED  BY <1>1, FindingInvariant, PTL

\* No step rewrites or removes an event of a log.
THEOREM HistoryIsKept == FSpec => HistoryGrows
  <1>1. FindingInv /\ FindingInv' /\ (\A f \in Findings : Longer(log[f], log'[f]))
          => \A f \in Findings : IsPrefix(log[f], log'[f])
    BY PrefixByElements DEF FindingInv, FTypeOK, Longer
  <1>2. FindingInv /\ [FNext]_fvars
          => [\A f \in Findings : IsPrefix(log[f], log'[f])]_fvars
    BY <1>1, FindingStep
  <1> QED  BY <1>2, FindingInvariant, PTL DEF FSpec, HistoryGrows

\* An event that is not the first came from a state, by an action of the graph.
LEMMA CameFrom ==
  ASSUME FindingInv, NEW f \in Findings, NEW i \in 1..Len(log[f]), i # 1
  PROVE  /\ i - 1 \in 1..Len(log[f])
         /\ log[f][i - 1].to \in States
         /\ Follows(log[f][i], log[f][i - 1].to)
  <1>1. log[f] \in Seq(Event)  BY DEF FindingInv, FTypeOK
  <1>2. i \in DOMAIN log[f] /\ i - 1 \in 1..Len(log[f])  BY <1>1, LenProperties
  <1>3. log[f][i - 1] \in Event  BY <1>1, <1>2, ElementOfSeq
  <1>4. Follows(log[f][i], log[f][i - 1].to)
    BY <1>2 DEF FindingInv, LogFits, Fits
  <1> QED  BY <1>2, <1>3, <1>4 DEF Event

\* The first event opens the finding.
LEMMA FirstOpens ==
  ASSUME FindingInv, NEW f \in Findings, 1 \in 1..Len(log[f])
  PROVE  log[f][1].to = "open"
  <1>1. 1 \in DOMAIN log[f]  BY LenProperties DEF FindingInv, FTypeOK
  <1>2. log[f][1] = Opening  BY <1>1 DEF FindingInv, LogFits, Fits
  <1> QED  BY <1>2 DEF Opening

\* The places before a closed one, and how they were come to.
LEMMA HowCome ==
  ASSUME FindingInv, NEW f \in Findings, NEW i \in 1..Len(log[f])
  PROVE  /\ log[f][i].to = "closed" =>
              /\ i - 1 \in 1..Len(log[f])
              /\ log[f][i].action = "retest_pass"
              /\ log[f][i - 1].to = "retest_pending"
         /\ log[f][i].to = "retest_pending" =>
              /\ i - 1 \in 1..Len(log[f])
              /\ log[f][i].action = "request_retest"
              /\ log[f][i - 1].to = "remediated"
         /\ log[f][i].to = "remediated" => i # 1 /\ log[f][i].action = "remediate"
  <1>1. CASE i = 1  BY <1>1, FirstOpens
  <1>2. CASE i # 1
    <2> DEFINE s == log[f][i - 1].to
               e == log[f][i]
    <2>1. i - 1 \in 1..Len(log[f]) /\ s \in States /\ Follows(e, s)
      BY <1>2, CameFrom
    <2> HIDE DEF s, e
    <2>2. /\ e.action \in DOMAIN Graph[s]
          /\ e.to = Graph[s][e.action]
      BY <2>1 DEF Follows
    <2>3. /\ e.to = "closed" => s = "retest_pending" /\ e.action = "retest_pass"
          /\ e.to = "retest_pending" => s = "remediated" /\ e.action = "request_retest"
          /\ e.to = "remediated" => e.action = "remediate"
      BY <2>1, <2>2, GraphFacts
    <2> QED  BY <1>2, <2>1, <2>3 DEF s, e
  <1> QED  BY <1>1, <1>2

\* A closed finding was remediated, sent to a retest and passed it, in a row.
THEOREM ClosedAlwaysRetested == FSpec => []ClosedWasRetested
  <1>1. ASSUME FindingInv, NEW f \in Findings, log[f] # <<>>, StateOf(log[f]) = "closed"
        PROVE  LET n == Len(log[f]) IN
                 /\ n >= 4
                 /\ log[f][n].action = "retest_pass"
                 /\ log[f][n - 1].action = "request_retest"
                 /\ log[f][n - 2].action = "remediate"
    <2> DEFINE n == Len(log[f])
    <2>1. n \in Nat \ {0}
      BY <1>1, EmptySeq DEF FindingInv, FTypeOK
    <2>2. log[f][n].to = "closed"  BY <1>1 DEF StateOf, Last
    <2>3. n \in 1..Len(log[f])  BY <2>1
    <2> HIDE DEF n
    <2>4. /\ n - 1 \in 1..Len(log[f])
          /\ log[f][n].action = "retest_pass"
          /\ log[f][n - 1].to = "retest_pending"
      BY <1>1, <2>2, <2>3, HowCome
    <2> DEFINE m == n - 1
    <2>5. /\ m - 1 \in 1..Len(log[f])
          /\ log[f][m].action = "request_retest"
          /\ log[f][m - 1].to = "remediated"
      <3> HIDE DEF m
      <3> QED  BY <1>1, <2>4, HowCome DEF m
    <2> DEFINE k == n - 2
    <2>6. k \in 1..Len(log[f]) /\ log[f][k].to = "remediated"
      <3>1. m - 1 = k  BY <2>1
      <3> QED  BY <2>5, <3>1
    <2>7. k # 1 /\ log[f][k].action = "remediate"
      <3> HIDE DEF k
      <3> QED  BY <1>1, <2>6, HowCome
    <2>8. n >= 4  BY <2>1, <2>6, <2>7
    <2> QED  BY <2>4, <2>5, <2>7, <2>8 DEF n
  <1>2. FindingInv => ClosedWasRetested  BY <1>1 DEF ClosedWasRetested
  <1> QED  BY <1>2, FindingInvariant, PTL

\* A risk accepted by accept_risk reads as at risk once the expiry approved with it
\* is over, if that expiry is a date (AcceptanceEnds fails where it is not): the
\* exception it carries is complete, and the latest of the log.
THEOREM AcceptanceAlwaysLapses == FSpec => []AcceptanceLapses
  <1>1. ASSUME FindingInv, NEW f \in Findings, NEW day \in Expiries, log[f] # <<>>,
               Last(log[f]).action = "accept_risk", Last(log[f]).exception.expiry # Unreadable,
               day >= Last(log[f]).exception.expiry
        PROVE  StateAsOf(log[f], day) = "expired"
    <2> DEFINE n == Len(log[f])
               x == log[f][n].exception
    <2>1. log[f] \in Seq(Event)  BY <1>1 DEF FindingInv, FTypeOK
    <2>2. n \in Nat \ {0} /\ DOMAIN log[f] = 1..n
      BY <1>1, <2>1, EmptySeq, LenProperties
    <2>3. log[f][n].action = "accept_risk" /\ x.expiry # Unreadable /\ day >= x.expiry
      BY <1>1 DEF Last
    <2>4. CompleteException(x)
      BY <1>1, <2>2, <2>3 DEF FindingInv, LogFits, Validated, Valid
    <2>5. log[f][n] \in Event  BY <2>1, <2>2, ElementOfSeq
    <2>6. ~x.absent /\ x.expiry # NoExpiry
      <3>1. x \in Exceptions \cup {NoException}  BY <2>5 DEF Event
      <3> HIDE DEF x
      <3>2. x.expiry # NoExpiry  BY <2>4 DEF CompleteException
      <3>3. x \in Exceptions  BY <3>1, <3>2 DEF NoException
      <3>4. x.absent = FALSE  BY <3>3 DEF Exceptions
      <3> QED  BY <3>2, <3>4
    <2>7. ExceptionOf(log[f]) = x
      <3> DEFINE given == {i \in DOMAIN log[f] : ~log[f][i].exception.absent}
      <3>1. n \in given /\ \A k \in given : k \in 1..n  BY <2>2, <2>6
      <3>2. \A i \in given : (\A k \in given : k <= i) <=> i = n  BY <2>2, <3>1
      <3>3. n = CHOOSE i \in given : \A k \in given : k <= i  BY <3>1, <3>2
      <3> QED  BY <3>1, <3>3 DEF ExceptionOf
    <2>8. log[f][n].to = "risk_accepted"
      <3>1. CASE n = 1
        <4>1. log[f][1] = Opening  BY <1>1, <2>2, <3>1 DEF FindingInv, LogFits, Fits
        <4> QED  BY <2>3, <3>1, <4>1 DEF Opening
      <3>2. CASE n # 1
        <4>1. n \in 1..Len(log[f])  BY <2>2
        <4>2. /\ log[f][n - 1].to \in States
              /\ Follows(log[f][n], log[f][n - 1].to)
          BY <1>1, <3>2, <4>1, CameFrom
        <4> QED  BY <2>3, <4>2, GraphFacts DEF Follows
      <3> QED  BY <3>1, <3>2
    <2>9. StateOf(log[f]) = "risk_accepted"  BY <2>8 DEF StateOf, Last
    <2> QED  BY <2>3, <2>6, <2>7, <2>9 DEF StateAsOf
  <1>2. FindingInv => AcceptanceLapses  BY <1>1 DEF AcceptanceLapses
  <1> QED  BY <1>2, FindingInvariant, PTL

--------------------------------------------------------------------------------
\* The event store that the findings implement

\* An event that fits after the last of a log, and is validated, is allowed there.
LEMMA FittingIsAllowed ==
  ASSUME NEW events \in Seq(Event), NEW e \in Event,
         Fits(events, Len(events) + 1, e), Validated(e)
  PROVE  e \in AllowedEvents(events)
  <1>1. CASE events = <<>>
    <2>1. Len(events) = 0  BY <1>1
    <2> QED  BY <1>1, <2>1 DEF Fits, AllowedEvents
  <1>2. CASE events # <<>>
    <2> DEFINE s == StateOf(events)
    <2>1. Len(events) \in Nat \ {0}  BY <1>2, EmptySeq
    <2>2. Follows(e, s)  BY <2>1 DEF Fits, StateOf, Last
    <2>3. Valid(e.action, e.exception)  BY DEF Validated
    <2>4. /\ e = [action |-> e.action, from |-> e.from, to |-> e.to,
                  exception |-> e.exception]
          /\ e.to \in States /\ e.exception \in Exceptions \cup {NoException}
      BY DEF Event
    <2>5. e \in [action: DOMAIN Graph[s], from: {s}, to: States,
                 exception: Exceptions \cup {NoException}]
      <3> HIDE DEF s
      <3>1. e.action \in DOMAIN Graph[s] /\ e.from = s  BY <2>2 DEF Follows
      <3> QED  BY <2>4, <3>1
    <2>6. e.to = Graph[s][e.action]  BY <2>2 DEF Follows
    <2> QED  BY <1>2, <2>3, <2>5, <2>6 DEF AllowedEvents
  <1> QED  BY <1>1, <1>2

\* The INSERT is a step of the event store, or leaves it as it is.
LEMMA InsertTakesEffect ==
  ASSUME FindingInv, NEW r \in Requests, InsertEvent(r)
  PROVE  FindingPromise!Next \/ UNCHANGED log
  <1> DEFINE g == req[r].finding
             seq == req[r].seq
             e == req[r].event
  <1>1. Waiting(r)  BY DEF InsertEvent, Waiting
  <1>2. g \in Findings /\ seq \in Nat \ {0} /\ e \in Event
    BY <1>1, WaitingFacts DEF FindingInv
  <1>3. seq <= Len(log[g]) + 1 /\ Fits(log[g], seq, e) /\ Validated(e)
    BY <1>1 DEF FindingInv, RequestsFit
  <1>4. log \in [Findings -> Seq(Event)]  BY DEF FindingInv, FTypeOK
  <1>5. log' = [log EXCEPT ![g] = Inserted(log[g], seq, e)]  BY DEF InsertEvent
  <1> HIDE DEF g, seq, e
  <1>6. log[g] \in Seq(Event) /\ DOMAIN log[g] = 1..Len(log[g])
    BY <1>2, <1>4, LenProperties
  <1>7. CASE seq \in DOMAIN log[g]
    <2>1. Inserted(log[g], seq, e) = log[g]  BY <1>7 DEF Inserted
    <2> QED  BY <1>2, <1>4, <1>5, <2>1
  <1>8. CASE seq \notin DOMAIN log[g]
    <2>1. seq = Len(log[g]) + 1  BY <1>2, <1>3, <1>6, <1>8, LenProperties
    <2>2. e \in AllowedEvents(log[g])  BY <1>2, <1>3, <1>6, <2>1, FittingIsAllowed
    <2>3. log' = [log EXCEPT ![g] = Append(log[g], e)]  BY <1>5, <1>8 DEF Inserted
    <2>4. FindingPromise!Record(g)  BY <2>2, <2>3 DEF FindingPromise!Record
    <2> QED  BY <1>2, <2>4 DEF FindingPromise!Next
  <1> QED  BY <1>7, <1>8

\* The findings implement an event store: for any number of requests that decide
\* on what they read earlier, an event that goes in is one that the log, as it is
\* when it goes in, allows next, and nothing else ever changes a log.
THEOREM FindingsAreEventStore == FSpec => EventsTakeEffectAtOnce
  <1>1. FInit => FindingPromise!Init  BY DEF FInit, FindingPromise!Init
  <1>2. FindingInv /\ [FNext]_fvars => [FindingPromise!Next]_log
    BY InsertTakesEffect
    DEF FNext, OpenRead, TransitionRead, RequestLost, fvars
  <1> QED  BY <1>1, <1>2, FindingInvariant, PTL
    DEF FSpec, EventsTakeEffectAtOnce, FindingPromise!Spec
================================================================================
