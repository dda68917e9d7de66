------------------------------ MODULE AuditPeriod ------------------------------
(***************************************************************************)
(* One audit period and the requests that work on it.  The store object is *)
(* built per request, so its lock excludes nobody: a request reads the     *)
(* record with a SELECT outside any transaction, changes its copy, and     *)
(* writes the whole record back with INSERT OR REPLACE.  A sign-off reads  *)
(* twice: once to check the period and take the snapshot, and once more to *)
(* freeze it.  Other requests run between any two of these steps.          *)
(***************************************************************************)
EXTENDS Integers, Sequences, FiniteSets, SequencesExt, FiniteSetsExt

CONSTANTS
  Callers,      \* requests in flight at once
  Exhibits,     \* objects the evidence store may come to hold
  MaxRequests,  \* bound on the evidence requests of the period
  MaxReports,   \* bound on the reports
  MaxSignoffs,  \* bound on the sign-offs
  NoRef          \* no reference, no copy, no package

ASSUME AuditAssumption ==
  MaxRequests \in Nat /\ MaxReports \in Nat /\ MaxSignoffs \in Nat

VARIABLES
  period,    \* the stored record
  call,      \* caller -> what it is about to write
  retained,  \* evidence objects that exist (they are never removed)
  reports,   \* the reports so far, TRUE where dated inside the period
  package    \* the last downloaded package: its source and its content

apVars == <<period, call, retained, reports, package>>

Editable == {"open", "in_review", "reopened"}

NoCall == [phase |-> "idle"]

\* The latest report dated inside the window, 0 if there is none.
ReportInWindow == Max({0} \cup {i \in DOMAIN reports : reports[i]})

RefVerifies(ref) == ref \in retained

AllProvided(p) ==
  \A i \in DOMAIN p.requests :
    p.requests[i].status = "provided" /\ RefVerifies(p.requests[i].ref)

Snapshot(p) == [requests |-> p.requests, report |-> ReportInWindow]

\* The changes an operation makes to its copy; each raises unless it may.
Added(p) ==
  [p EXCEPT !.requests = Append(@, [status |-> "requested", ref |-> NoRef])]

Fulfilled(p, i, ref) ==
  [p EXCEPT !.requests[i] = [status |-> "provided", ref |-> ref]]

Signed(p, snap) ==
  [p EXCEPT !.signoffs = Append(@, snap), !.status = "signed_off"]

Reopened(p) ==
  [p EXCEPT !.reopenings = @ + 1, !.status = "reopened"]

\* mutant: a period that was ever signed off can be reopened
MayReopenAny(p) == p.signoffs # <<>>

MayReopen(p) == p.status = "signed_off"

\* The copies an operation may be about to write, given what it reads.
Changes(p) ==
  (IF p.status \in Editable
   THEN (IF Len(p.requests) < MaxRequests THEN {Added(p)} ELSE {})
        \cup {Fulfilled(p, i, ref) : i \in DOMAIN p.requests, ref \in Exhibits}
   ELSE {})
  \cup (IF MayReopen(p) THEN {Reopened(p)} ELSE {})

\* _mutate, its SELECT: add, fulfil or reopen.
Read(c) ==
  /\ call[c] = NoCall
  /\ \E new \in Changes(period) :
       call' = [call EXCEPT ![c] = [phase |-> "write", new |-> new]]
  /\ UNCHANGED <<period, retained, reports, package>>

\* sign_off_audit_period up to the stored and verified snapshot.
CheckForSignoff(c) ==
  /\ call[c] = NoCall
  /\ AllProvided(period)
  /\ ReportInWindow # 0
  /\ call' = [call EXCEPT ![c] = [phase |-> "freeze", snap |-> Snapshot(period)]]
  /\ UNCHANGED <<period, retained, reports, package>>

\* record_signoff reads the period again; in a state that is not editable
\* it raises.
ReadForSignoff(c) ==
  /\ call[c].phase = "freeze"
  /\ call' = [call EXCEPT ![c] =
       IF period.status \in Editable /\ Len(period.signoffs) < MaxSignoffs
       THEN [phase |-> "write", new |-> Signed(period, call[c].snap)] ELSE NoCall]
  /\ UNCHANGED <<period, retained, reports, package>>

\* _save_locked replaces the record by the copy.
WriteBack(c) ==
  /\ call[c].phase = "write"
  /\ period' = call[c].new
  /\ call' = [call EXCEPT ![c] = NoCall]
  /\ UNCHANGED <<retained, reports, package>>

ChangeLost(c) ==
  /\ call[c] # NoCall
  /\ call' = [call EXCEPT ![c] = NoCall]
  /\ UNCHANGED <<period, retained, reports, package>>

\* build_audit_zip: a period that was ever signed off answers from its last
\* signed snapshot; any other from the present state and the report of the
\* window, or else the latest one.
Download ==
  /\ period.signoffs # <<>> \/ reports # <<>>
  /\ package' = IF period.signoffs # <<>>
                THEN [source |-> "signed-snapshot", content |-> Last(period.signoffs)]
                ELSE [source |-> "live",
                      content |-> [Snapshot(period) EXCEPT
                                     !.report = IF @ = 0 THEN Len(reports) ELSE @]]
  /\ UNCHANGED <<period, call, retained, reports>>

Retain(e) ==
  /\ retained' = retained \cup {e}
  /\ UNCHANGED <<period, call, reports, package>>

ReportAppears(inWindow) ==
  /\ Len(reports) < MaxReports
  /\ reports' = Append(reports, inWindow)
  /\ UNCHANGED <<period, call, retained, package>>

ApInit ==
  /\ period = [status |-> "open", requests |-> <<>>, signoffs |-> <<>>, reopenings |-> 0]
  /\ call = [c \in Callers |-> NoCall]
  /\ retained = {} /\ reports = <<>> /\ package = NoRef

ApNext ==
  \/ \E c \in Callers :
       Read(c) \/ CheckForSignoff(c) \/ ReadForSignoff(c) \/ WriteBack(c) \/ ChangeLost(c)
  \/ Download
  \/ \E e \in Exhibits : Retain(e)
  \/ \E inWindow \in BOOLEAN : ReportAppears(inWindow)

ApSpec == ApInit /\ [][ApNext]_apVars

\* "Enforced before freezing: every evidence request must be fulfilled, and each
\* fulfilled reference must resolve to a retained, verifiable evidence object"
\* (service.py:577-580): no frozen period has a request left without its evidence.
SignedIsAnswered == period.status = "signed_off" => AllProvided(period)

\* Sign-offs and reopenings alternate in the record: a period is frozen
\* exactly when it was signed off once more than it was reopened.
SignoffsAlternate ==
  Len(period.signoffs) = period.reopenings + IF period.status = "signed_off" THEN 1 ELSE 0

\* What the store's own description says of a sign-off: the period is
\* frozen from then on, and its earlier snapshots stay in the record.
SignoffStays ==
  [][/\ IsPrefix(period.signoffs, period'.signoffs)
     /\ period.status = "signed_off" /\ period'.status # "signed_off"
          => period'.reopenings > period.reopenings]_apVars
================================================================================
