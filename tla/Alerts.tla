--------------------------------- MODULE Alerts ---------------------------------
(***************************************************************************)
(* What an ingest tells of a change for the worse: it looks up the latest  *)
(* report, saves its own, compares the two (diff.py) and hands the alerts  *)
(* to the sinks (delivery.py).  Ingests overlap, and one may die after its *)
(* report is saved.  A report is named by its content, so content that     *)
(* comes back finds itself stored and keeps its old date.  How a report    *)
(* reaches the disk is ReportPipeline's concern: saving is one step here.  *)
(***************************************************************************)
EXTENDS Integers, FiniteSets

CONSTANTS
  Ingests,    \* ingests that may be under way at once
  Verdicts,   \* contents of reports
  StatusOf,   \* content -> control -> status
  ShareOf,    \* content -> framework -> at_risk_pct in tenths, or NoShare
  ViolationsOf, \* content -> total violations
  WindowOf,   \* content -> last timestamp of its logs, 0 for none
  PathOf,     \* content -> the ingest it comes from, "batch" or "config"
  Threshold,  \* framework_drop_threshold, in tenths
  MaxBuilds,  \* bound on the reports built
  MaxSilent,  \* bound on the ingests that end without a word
  NoVerdict,
  NoShare

ASSUME AlertAssumption ==
  /\ Threshold \in Nat /\ MaxBuilds \in Nat /\ MaxSilent \in Nat /\ NoVerdict \notin Verdicts
  /\ WindowOf \in [Verdicts -> Nat] /\ PathOf \in [Verdicts -> {"batch", "config"}]

VARIABLES
  archive,       \* content -> generated_at, the reports stored and indexed
  doing,      \* ingest -> where it is, with what
  built,      \* reports built so far; the date of the next one
  sent,       \* alerts handed to the sinks
  baseline,   \* contents saved by an ingest that saw no earlier report
  silent      \* contents whose ingest ended between save and delivery

alertVars == <<archive, doing, built, sent, baseline, silent>>

Resting == [at |-> "rest", verdict |-> NoVerdict, prior |-> NoVerdict, date |-> 0]

--------------------------------------------------------------------------------
\* The store's order

\* IndexEntry.sort_key: the period of the data, then the date of the report.
SortKey(v) == <<IF WindowOf[v] = 0 THEN archive[v] ELSE WindowOf[v], archive[v]>>

NotAfter(k, l) == k[1] < l[1] \/ (k[1] = l[1] /\ k[2] <= l[2])

\* latest(1)
LatestKept ==
  IF archive = <<>> THEN NoVerdict
  ELSE CHOOSE v \in DOMAIN archive : \A u \in DOMAIN archive : NotAfter(SortKey(u), SortKey(v))

--------------------------------------------------------------------------------
\* diff_reports and alerts_from_diff

\* A control or a framework that a report does not list
StatusIn(v, c) == IF c \in DOMAIN StatusOf[v] THEN StatusOf[v][c] ELSE "not_monitored"
ShareIn(v, f) == IF f \in DOMAIN ShareOf[v] THEN ShareOf[v][f] ELSE NoShare

\* mutant: only a control that was seen operating can regress
RegressedFromGood(old, new) ==
  {c \in DOMAIN StatusOf[new] : StatusIn(new, c) = "at_risk" /\ StatusIn(old, c) = "compliant"}

Regressed(old, new) ==
  {c \in DOMAIN StatusOf[new] : StatusIn(new, c) = "at_risk" /\ StatusIn(old, c) # "at_risk"}

Risen(old, new) ==
  {f \in DOMAIN ShareOf[new] :
     /\ NoShare \notin {ShareIn(old, f), ShareIn(new, f)}
     /\ ShareIn(new, f) > ShareIn(old, f)
     /\ ShareIn(new, f) - ShareIn(old, f) >= Threshold}

AlertsFor(old, new) ==
  [kind : {"control_regressed"}, about : Regressed(old, new), old : {old}, new : {new}]
  \cup [kind : {"framework_dropped"}, about : Risen(old, new), old : {old}, new : {new}]
  \cup [kind : IF ViolationsOf[new] > ViolationsOf[old] THEN {"violations_increased"} ELSE {},
        about : {"all"}, old : {old}, new : {new}]

--------------------------------------------------------------------------------
\* An ingest

Moves(i, now) == doing' = [doing EXCEPT ![i] = now]

\* A config ingest looks for the prior report first, a batch ingest builds first.
Receive(i, v) ==
  /\ doing[i].at = "rest"
  /\ Moves(i, [Resting EXCEPT !.verdict = v,
                              !.at = IF PathOf[v] = "config" THEN "prior" ELSE "build"])
  /\ UNCHANGED <<archive, built, sent, baseline, silent>>

BuildReport(i) ==
  /\ doing[i].at = "build" /\ built < MaxBuilds
  /\ built' = built + 1
  /\ Moves(i, [doing[i] EXCEPT !.date = built + 1,
                               !.at = IF PathOf[doing[i].verdict] = "config" THEN "save" ELSE "prior"])
  /\ UNCHANGED <<archive, sent, baseline, silent>>

LookUpPrior(i) ==
  /\ doing[i].at = "prior"
  /\ Moves(i, [doing[i] EXCEPT !.prior = LatestKept,
                               !.at = IF PathOf[doing[i].verdict] = "config" THEN "build" ELSE "save"])
  /\ UNCHANGED <<archive, built, sent, baseline, silent>>

\* save: content that is stored stays as it is, dated as it was.
Save(i) ==
  LET v == doing[i].verdict IN
  /\ doing[i].at = "save"
  /\ archive' = [u \in DOMAIN archive \cup {v} |-> IF u \in DOMAIN archive THEN archive[u] ELSE doing[i].date]
  /\ baseline' = IF doing[i].prior = NoVerdict THEN baseline \cup {v} ELSE baseline
  /\ Moves(i, [doing[i] EXCEPT !.at = "compare"])
  /\ UNCHANGED <<built, sent, silent>>

\* The comparison, unless there is nothing earlier or it is the same report,
\* and _deliver, which hands each alert to every sink.
Compare(i) ==
  LET d == doing[i] IN
  /\ d.at = "compare"
  /\ sent' = IF d.prior \in {NoVerdict, d.verdict} THEN sent
             ELSE sent \cup AlertsFor(d.prior, d.verdict)
  /\ Moves(i, Resting)
  /\ UNCHANGED <<archive, built, baseline, silent>>

\* The ingest fails or its process dies; or the sinks fail, which _deliver
\* swallows.  The report, once saved, stays.
Vanish(i) ==
  /\ doing[i].at # "rest"
  /\ IF doing[i].at = "compare"
     THEN /\ Cardinality(silent \cup {doing[i].verdict}) <= MaxSilent
          /\ silent' = silent \cup {doing[i].verdict}
     ELSE UNCHANGED silent
  /\ Moves(i, Resting)
  /\ UNCHANGED <<archive, built, sent, baseline>>

AlertInit ==
  /\ archive = <<>> /\ built = 0 /\ sent = {} /\ baseline = {} /\ silent = {}
  /\ doing = [i \in Ingests |-> Resting]

AlertNext ==
  \E i \in Ingests :
    \/ \E v \in Verdicts : Receive(i, v)
    \/ BuildReport(i)
    \/ LookUpPrior(i)
    \/ Save(i)
    \/ Compare(i)
    \/ Vanish(i)

AlertSpec == AlertInit /\ [][AlertNext]_alertVars

\* When no ingest is under way, each control at risk in a stored report was
\* reported to the sinks as a regression, or was at risk in a report that had
\* nothing to be compared with, or in one whose ingest ended between its save
\* and its delivery: overlapping ingests, data that arrives late and content
\* that comes back lose nothing more (ingest_batch and ingest_config read the
\* prior report before they save their own).
RegressionIsTold ==
  (\A i \in Ingests : doing[i].at = "rest") =>
    \A v \in DOMAIN archive : \A c \in DOMAIN StatusOf[v] :
      StatusOf[v][c] = "at_risk" =>
        \/ \E a \in sent : a.kind = "control_regressed" /\ a.about = c
        \/ \E u \in baseline \cup silent : StatusIn(u, c) = "at_risk"
================================================================================
