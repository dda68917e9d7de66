----------------------------- MODULE RecordsProofs -----------------------------
(***************************************************************************)
(* Proofs about the records an auditor relies on, for every number of      *)
(* users, requests, callers and attestations: what was decided stays, what *)
(* was signed is backed, and who may do what.                              *)
(***************************************************************************)
EXTENDS Attestation, AuditPeriod, AdminAudit, ControlWorkspace,
        Access, RateLimiter, DataLemmas

--------------------------------------------------------------------------------
\* Attestations (Attestation): a pass is a decision whose row is still there as it
\* was decided, since decide never touches a decided row.

\* What a row may say: nobody has approved a submission of their own, and an
\* approved one has the approvals it asked for.
RowsAreDecided ==
  \A a \in DOMAIN rows :
    /\ rows[a].by \notin rows[a].approvals
    /\ rows[a].status = "approved" => Cardinality(rows[a].approvals) >= rows[a].required

\* A pass names a row, in date by the date that was given.
PassesAreOfRows ==
  \A s \in Specs : outcome[s].status = "pass" =>
    LET a == outcome[s].att IN
    /\ a \in DOMAIN rows /\ rows[a].status = "approved" /\ a.spec = s /\ a.sound
    /\ outcome[s].asOf # NoAtt =>
         a.at <= outcome[s].asOf /\ outcome[s].asOf <= a.at + Cadence

AttInv == AttTypeOK /\ RowsAreDecided /\ PassesAreOfRows

Rows == [status : {"submitted", "approved", "rejected"}, by : People,
         approvals : SUBSET People, required : 1..2]

Outcomes == [status : {"manual_pending", "stale", "pass"}, att : Payloads \cup {NoAtt},
             asOf : 0..LastTime \cup {NoAtt}, on : 0..LastTime]

\* What an operation may do to the table: rows stay, and a decided one as
\* it is.
Kept(rows1, rows2) ==
  \A a \in DOMAIN rows1 :
    /\ a \in DOMAIN rows2
    /\ rows1[a].status # "submitted" => rows2[a] = rows1[a]
    /\ rows1[a].by = rows2[a].by /\ rows1[a].approvals \subseteq rows2[a].approvals

\* There is nothing to decide, and nothing to pass, at first.
LEMMA AttInitInv == AttInit => AttInv
  <1> SUFFICES ASSUME AttInit PROVE AttInv
    OBVIOUS
  <1>1. DOMAIN rows = {}  BY DEF AttInit
  <1>2. AttTypeOK  BY <1>1, AttestationAssumption DEF AttInit, AttTypeOK
  <1>3. RowsAreDecided  BY <1>1 DEF RowsAreDecided
  <1>4. PassesAreOfRows  BY DEF AttInit, PassesAreOfRows
  <1> QED  BY <1>2, <1>3, <1>4 DEF AttInv

\* A submission adds at most the row it asks for.
LEMMA SubmitStep ==
  ASSUME AttInv, NEW a \in Payloads, NEW p \in People, NEW asOf \in {NoAtt, today},
         Submit(a, p, asOf)
  PROVE  /\ Kept(rows, rows') /\ RowsAreDecided'
         /\ DOMAIN rows' \subseteq Payloads /\ \A b \in DOMAIN rows' : rows'[b] \in Rows
  <1> USE DEF AttInv, AttTypeOK, Submit
  <1>1. DOMAIN rows' = DOMAIN rows \cup {a}  OBVIOUS
  <1>2. \A b \in DOMAIN rows : rows'[b] = rows[b]  OBVIOUS
  <1>3. a \notin DOMAIN rows => rows'[a] = NewRow(p)  OBVIOUS
  <1>4. NewRow(p) \in Rows /\ NewRow(p).approvals = {} /\ NewRow(p).status = "submitted"
    BY DEF NewRow, Rows
  <1>5. Kept(rows, rows')  BY <1>1, <1>2 DEF Kept
  <1>6. RowsAreDecided'  BY <1>1, <1>2, <1>3, <1>4 DEF RowsAreDecided
  <1>7. \A b \in DOMAIN rows' : rows'[b] \in Rows
    BY <1>1, <1>2, <1>3, <1>4 DEF Rows
  <1> QED  BY <1>1, <1>5, <1>6, <1>7

\* An approval or a rejection changes one row that was not decided.
LEMMA DecideStep ==
  ASSUME AttInv, NEW a \in DOMAIN rows, NEW p \in People, Approve(a, p) \/ Reject(a, p)
  PROVE  /\ Kept(rows, rows') /\ RowsAreDecided'
         /\ DOMAIN rows' \subseteq Payloads /\ \A b \in DOMAIN rows' : rows'[b] \in Rows
  <1> DEFINE given == rows[a].approvals \cup {p}
             done == Cardinality(given) >= rows[a].required
  <1> HIDE DEF done
  <1>1. rows[a].status = "submitted"  BY DEF Approve, Reject, MayApprove
  <1>2. rows[a] \in Rows  BY DEF AttInv, AttTypeOK, Rows
  <1>3. DOMAIN rows' = DOMAIN rows /\ \A b \in DOMAIN rows \ {a} : rows'[b] = rows[b]
    BY DEF Approve, Reject
  <1>4. /\ rows'[a] \in Rows
        /\ rows'[a].by = rows[a].by
        /\ rows[a].approvals \subseteq rows'[a].approvals
        /\ rows'[a].by \notin rows'[a].approvals
        /\ rows'[a].status = "approved" => Cardinality(rows'[a].approvals) >= rows'[a].required
    <2>1. CASE Approve(a, p)
      <3>1. rows'[a] = [rows[a] EXCEPT !.approvals = given,
                                       !.status = IF done THEN "approved" ELSE "submitted"]
        BY <2>1 DEF Approve, done
      <3>2. p # rows[a].by  BY <2>1 DEF Approve, MayApprove
      <3>3. rows[a].by \notin rows[a].approvals  BY DEF AttInv, RowsAreDecided
      <3>4. /\ rows'[a].by = rows[a].by /\ rows'[a].approvals = given
            /\ rows'[a].required = rows[a].required
            /\ rows'[a].status = IF done THEN "approved" ELSE "submitted"
        BY <3>1, <1>2 DEF Rows
      <3>5. rows'[a] \in Rows
        <4>1. given \in SUBSET People  BY <1>2 DEF Rows
        <4> HIDE DEF given
        <4> QED  BY <3>1, <4>1, <1>2 DEF Rows
      <3>6. rows'[a].status = "approved" => Cardinality(rows'[a].approvals) >= rows'[a].required
        BY <3>4 DEF done
      <3> QED  BY <3>2, <3>3, <3>4, <3>5, <3>6
    <2>2. CASE Reject(a, p)
      <3>1. rows'[a] = [rows[a] EXCEPT !.status = "rejected"]  BY <2>2 DEF Reject
      <3>2. rows[a].by \notin rows[a].approvals  BY DEF AttInv, RowsAreDecided
      <3> QED  BY <3>1, <3>2, <1>2 DEF Rows
    <2> QED  BY <2>1, <2>2
  <1>5. Kept(rows, rows')  BY <1>1, <1>3, <1>4 DEF Kept
  <1>6. RowsAreDecided'  BY <1>3, <1>4 DEF AttInv, RowsAreDecided
  <1>7. DOMAIN rows' \subseteq Payloads /\ \A b \in DOMAIN rows' : rows'[b] \in Rows
    BY <1>3, <1>4 DEF AttInv, AttTypeOK, Rows
  <1> QED  BY <1>5, <1>6, <1>7

\* What is known of a pass outlives any step that keeps the decided rows.
LEMMA PassesStay ==
  ASSUME AttInv, Kept(rows, rows'), outcome' = outcome
  PROVE  PassesAreOfRows'
  BY DEF AttInv, PassesAreOfRows, Kept

\* A report takes the newest of what was approved, and judges it by the date given.
LEMMA EvaluateStep ==
  ASSUME AttInv, NEW asOf \in {NoAtt, today}, Evaluate(asOf)
  PROVE  outcome' \in [Specs -> Outcomes] /\ PassesAreOfRows'
  <1> PICK pick \in [Specs -> DOMAIN rows \cup {NoAtt}] :
        /\ \A s \in Specs : pick[s] \in Newest(s) \/ (Newest(s) = {} /\ pick[s] = NoAtt)
        /\ outcome' = [s \in Specs |-> [status |-> Grade(pick[s], asOf), att |-> pick[s],
                                        asOf |-> asOf, on |-> today]]
        /\ UNCHANGED <<rows, required, ring, today>>
    BY DEF Evaluate
  <1>1. \A a : Grade(a, asOf) \in {"manual_pending", "stale", "pass"}  BY DEF Grade
  <1>2. today \in 0..LastTime /\ asOf \in 0..LastTime \cup {NoAtt}
    BY DEF AttInv, AttTypeOK
  <1>3. outcome' \in [Specs -> Outcomes]
    BY <1>1, <1>2 DEF AttInv, AttTypeOK, Outcomes
  <1>4. ASSUME NEW s \in Specs, outcome'[s].status = "pass"
        PROVE  LET a == outcome'[s].att IN
               /\ a \in DOMAIN rows /\ rows[a].status = "approved" /\ a.spec = s /\ a.sound
               /\ outcome'[s].asOf # NoAtt =>
                    a.at <= outcome'[s].asOf /\ outcome'[s].asOf <= a.at + Cadence
    <2> DEFINE a == pick[s]
    <2>1. outcome'[s].att = a /\ outcome'[s].asOf = asOf /\ Grade(a, asOf) = "pass"  BY <1>4
    <2>2. a # NoAtt /\ Verified(a, asOf) /\ ~(asOf # NoAtt /\ asOf - a.at > Cadence)
      BY <2>1 DEF Grade
    <2>3. a \in DOMAIN rows /\ rows[a].status = "approved" /\ a.spec = s
      BY <2>2 DEF Newest
    <2>4. a \in Payloads /\ a.sound  BY <2>2, <2>3 DEF AttInv, AttTypeOK, Verified
    <2>5. ASSUME asOf # NoAtt  PROVE a.at <= asOf /\ asOf <= a.at + Cadence
      <3>1. a.at \in Int /\ a.at <= asOf  BY <2>2, <2>4, <2>5 DEF Verified, Payloads
      <3>2. asOf \in Int /\ ~(asOf - a.at > Cadence)  BY <1>2, <2>2, <2>5
      <3> QED  BY <3>1, <3>2, AttestationAssumption
    <2> QED  BY <2>1, <2>3, <2>4, <2>5
  <1>5. rows' = rows  OBVIOUS
  <1>6. PassesAreOfRows'  BY <1>4, <1>5 DEF PassesAreOfRows
  <1> QED  BY <1>3, <1>6

\* No step of the day or of a person touches a decided row.
LEMMA AttStep ==
  ASSUME AttInv, [AttNext]_attVars
  PROVE  AttInv' /\ Kept(rows, rows')
  <1>0. Kept(rows, rows)  BY DEF Kept
  <1>1. ASSUME NEW a \in Payloads, NEW p \in People, NEW asOf \in {NoAtt, today}, Submit(a, p, asOf)
        PROVE  AttInv' /\ Kept(rows, rows')
    <2>1. UNCHANGED <<required, ring, today, outcome>>  BY <1>1 DEF Submit
    <2>2. AttTypeOK'  BY <1>1, <2>1, SubmitStep DEF AttInv, AttTypeOK, Rows
    <2> QED  BY <1>1, <2>1, <2>2, SubmitStep, PassesStay DEF AttInv
  <1>2. ASSUME NEW a \in DOMAIN rows, NEW p \in People, Approve(a, p) \/ Reject(a, p)
        PROVE  AttInv' /\ Kept(rows, rows')
    <2>1. UNCHANGED <<required, ring, today, outcome>>  BY <1>2 DEF Approve, Reject
    <2>2. AttTypeOK'  BY <1>2, <2>1, DecideStep DEF AttInv, AttTypeOK, Rows
    <2> QED  BY <1>2, <2>1, <2>2, DecideStep, PassesStay DEF AttInv
  <1>3. ASSUME NEW asOf \in {NoAtt, today}, Evaluate(asOf)
        PROVE  AttInv' /\ Kept(rows, rows')
    <2>1. UNCHANGED <<rows, required, ring, today>>  BY <1>3 DEF Evaluate
    <2>2. AttTypeOK'  BY <1>3, <2>1, EvaluateStep DEF AttInv, AttTypeOK, Outcomes
    <2>3. RowsAreDecided'  BY <2>1 DEF AttInv, RowsAreDecided
    <2> QED  BY <1>0, <1>3, <2>1, <2>2, <2>3, EvaluateStep DEF AttInv
  <1>4. ASSUME UNCHANGED <<rows, outcome>>, ring' \subseteq Keys, required' \in 1..2,
               today' \in 0..LastTime
        PROVE  AttInv' /\ Kept(rows, rows')
    <2>1. AttTypeOK'  BY <1>4 DEF AttInv, AttTypeOK
    <2>2. RowsAreDecided'  BY <1>4 DEF AttInv, RowsAreDecided
    <2> QED  BY <1>0, <1>4, <2>1, <2>2, PassesStay DEF AttInv
  <1>5. ASSUME NEW k \in Keys, RotateKey(k)
        PROVE  AttInv' /\ Kept(rows, rows')
    BY <1>4, <1>5 DEF RotateKey, AttInv, AttTypeOK
  <1>6. ASSUME NEW n \in 0..2, Reconfigure(n)
        PROVE  AttInv' /\ Kept(rows, rows')
    BY <1>4, <1>6 DEF Reconfigure, AtLeastOne, AttInv, AttTypeOK
  <1>7. CASE DayPasses
    BY <1>4, <1>7, AttestationAssumption DEF DayPasses, AttInv, AttTypeOK
  <1>8. CASE UNCHANGED attVars
    BY <1>4, <1>8 DEF attVars, AttInv, AttTypeOK
  <1> QED  BY <1>1, <1>2, <1>3, <1>5, <1>6, <1>7, <1>8 DEF AttNext

\* In every reachable state
LEMMA AttInvariant == AttSpec => []AttInv
  BY AttInitInv, AttStep, PTL DEF AttSpec

\* Type correctness of the attestation store (attestation_store.py).
THEOREM AttTypesHold == AttSpec => []AttTypeOK
  <1>1. AttInv => AttTypeOK  BY DEF AttInv
  <1> QED  BY <1>1, AttInvariant, PTL

\* A control passes in a report on a decided and sound attestation only, that is in
\* date by the date the report was given, if any (evaluate_manual over
\* attestation_store.approve).
THEOREM PassAlwaysBacked == AttSpec => []PassIsBacked
  <1>1. AttInv => PassIsBacked
    BY DEF AttInv, PassIsBacked, PassesAreOfRows, RowsAreDecided
  <1> QED  BY <1>1, AttInvariant, PTL

\* A decision, and who took part in it, is never changed again.
THEOREM DecisionsAreFinal == AttSpec => DecisionFinal
  <1>1. ASSUME AttInv, [AttNext]_attVars
        PROVE  [\A a \in DOMAIN rows :
                  /\ a \in DOMAIN rows'
                  /\ rows[a].status # "submitted" => rows'[a] = rows[a]
                  /\ rows[a].by = rows'[a].by /\ rows[a].approvals \subseteq rows'[a].approvals]_attVars
    BY <1>1, AttStep DEF Kept
  <1> QED  BY <1>1, AttInvariant, PTL DEF AttSpec, DecisionFinal

--------------------------------------------------------------------------------
\* Audit periods (AuditPeriod): a call holds a copy of the period, so what is said of
\* the record is said of every copy that may yet replace it.

RequestRecords == [status : {"requested", "provided"}, ref : Exhibits \cup {NoRef}]

Snapshots == [requests : Seq(RequestRecords), report : Nat]

Periods == [status : {"open", "in_review", "reopened", "signed_off"},
            requests : Seq(RequestRecords), signoffs : Seq(Snapshots), reopenings : Nat]

Calls ==
  {NoCall} \cup [phase : {"write"}, new : Periods] \cup [phase : {"freeze"}, snap : Snapshots]

\* Type invariant of the record, of the copies and of what they are cut from.
ApTypeOK ==
  /\ period \in Periods
  /\ call \in [Callers -> Calls]
  /\ retained \subseteq Exhibits
  /\ reports \in Seq(BOOLEAN)

\* A record the period could have
Alternating(p) ==
  Len(p.signoffs) = p.reopenings + IF p.status = "signed_off" THEN 1 ELSE 0

\* What a request is about to write alternates too: that is why a write that is late
\* by several others does no worse than lose them.
CopiesAlternate ==
  \A c \in Callers : call[c].phase = "write" => Alternating(call[c].new)

ApInv == ApTypeOK /\ Alternating(period) /\ CopiesAlternate

\* The three kinds of call in flight
LEMMA CallFacts ==
  ASSUME NEW x \in Calls
  PROVE  /\ x.phase = "write" => x.new \in Periods
         /\ x.phase = "freeze" => x.snap \in Snapshots
  BY DEF Calls, NoCall

\* The period is as opened, and nothing is retained.
LEMMA ApInitInv == ApInit => ApInv
  <1> SUFFICES ASSUME ApInit PROVE ApInv
    OBVIOUS
  <1>1. period \in Periods
    <2>1. <<>> \in Seq(RequestRecords) /\ <<>> \in Seq(Snapshots)  OBVIOUS
    <2> QED  BY <2>1 DEF ApInit, Periods
  <1>2. ApTypeOK  BY <1>1 DEF ApInit, ApTypeOK, Calls
  <1>3. Alternating(period)
    <2>1. period.signoffs = <<>> /\ period.reopenings = 0 /\ period.status = "open"
      BY DEF ApInit
    <2> QED  BY <2>1 DEF Alternating
  <1>4. CopiesAlternate  BY DEF ApInit, CopiesAlternate, NoCall
  <1> QED  BY <1>2, <1>3, <1>4 DEF ApInv

\* The report a snapshot takes has a number.
LEMMA ReportInWindowType ==
  ASSUME reports \in Seq(BOOLEAN)
  PROVE  ReportInWindow \in Nat
  <1> DEFINE S == {0} \cup {i \in DOMAIN reports : reports[i]}
  <1>1. DOMAIN reports = 1..Len(reports) /\ Len(reports) \in Nat  BY LenProperties
  <1>2. S \in SUBSET (0..Len(reports)) /\ S # {}  BY <1>1
  <1>3. Max(S) \in S  BY <1>1, <1>2, MaxFacts
  <1>4. ReportInWindow = Max(S)  BY DEF ReportInWindow
  <1> HIDE DEF S
  <1>5. ReportInWindow \in 0..Len(reports)  BY <1>2, <1>3, <1>4
  <1> QED  BY <1>1, <1>5

\* A change makes a record the period could have from one.
LEMMA ChangeFacts ==
  ASSUME ApInv, NEW new \in Changes(period)
  PROVE  new \in Periods /\ Alternating(new)
  <1> DEFINE fresh == [status |-> "requested", ref |-> NoRef]
  <1>0. /\ period \in Periods /\ period.requests \in Seq(RequestRecords)
        /\ period.signoffs \in Seq(Snapshots) /\ period.reopenings \in Nat
        /\ Alternating(period)
    BY DEF ApInv, ApTypeOK, Periods
  <1>1. CASE period.status \in Editable /\ new = Added(period)
    <2>1. fresh \in RequestRecords  BY DEF RequestRecords
    <2>2. Append(period.requests, fresh) \in Seq(RequestRecords)
      BY <1>0, <2>1, AppendProperties
    <2>3. new = [period EXCEPT !.requests = Append(period.requests, fresh)]
      BY <1>1 DEF Added
    <2>4. new \in Periods
      <3> HIDE DEF fresh
      <3> QED  BY <1>0, <2>2, <2>3 DEF Periods
    <2>5. new.signoffs = period.signoffs /\ new.status = period.status
          /\ new.reopenings = period.reopenings
      BY <1>0, <2>3 DEF Periods
    <2> QED  BY <1>0, <1>1, <2>4, <2>5 DEF Alternating, Editable
  <1>2. ASSUME period.status \in Editable, NEW i \in DOMAIN period.requests, NEW ref \in Exhibits,
               new = Fulfilled(period, i, ref)
        PROVE  new \in Periods /\ Alternating(new)
    <2> DEFINE filled == [status |-> "provided", ref |-> ref]
    <2>1. filled \in RequestRecords  BY DEF RequestRecords
    <2>2. [period.requests EXCEPT ![i] = filled] \in Seq(RequestRecords)
      <3> HIDE DEF filled
      <3>1. i \in 1..Len(period.requests)  BY <1>0, LenProperties
      <3> QED  BY <1>0, <2>1, <3>1, ExceptSeq
    <2>3. new = [period EXCEPT !.requests = [period.requests EXCEPT ![i] = filled]]
      BY <1>0, <1>2 DEF Fulfilled, Periods
    <2>4. new \in Periods
      <3> DEFINE changed == [period.requests EXCEPT ![i] = filled]
      <3>1. changed \in Seq(RequestRecords) /\ new = [period EXCEPT !.requests = changed]
        BY <2>2, <2>3
      <3> HIDE DEF changed
      <3> QED  BY <1>0, <3>1 DEF Periods
    <2>5. new.signoffs = period.signoffs /\ new.status = period.status
          /\ new.reopenings = period.reopenings
      BY <1>0, <2>3 DEF Periods
    <2> QED  BY <1>0, <1>2, <2>4, <2>5 DEF Alternating, Editable
  <1>3. CASE MayReopen(period) /\ new = Reopened(period)
    <2>1. new = [period EXCEPT !.reopenings = period.reopenings + 1, !.status = "reopened"]
      BY <1>0, <1>3 DEF Reopened
    <2>2. new \in Periods
      <3> DEFINE times == period.reopenings + 1
      <3>1. times \in Nat /\ new = [period EXCEPT !.reopenings = times, !.status = "reopened"]
        BY <1>0, <2>1
      <3> HIDE DEF times
      <3> QED  BY <1>0, <3>1 DEF Periods
    <2>3. /\ new.signoffs = period.signoffs /\ new.status = "reopened"
          /\ new.reopenings = period.reopenings + 1
      BY <1>0, <2>1 DEF Periods
    <2>4. Len(period.signoffs) = period.reopenings + 1
      BY <1>0, <1>3 DEF Alternating, MayReopen
    <2> QED  BY <1>0, <2>2, <2>3, <2>4 DEF Alternating
  <1> QED  BY <1>1, <1>2, <1>3 DEF Changes

\* What CheckForSignoff keeps
LEMMA SnapshotType == ApInv => Snapshot(period) \in Snapshots
  BY ReportInWindowType DEF Snapshot, Snapshots, ApInv, ApTypeOK, Periods

\* Signing a record that can be edited gives one signed once more than reopened.
LEMMA SignedFacts ==
  ASSUME ApInv, period.status \in Editable, NEW snap \in Snapshots
  PROVE  Signed(period, snap) \in Periods /\ Alternating(Signed(period, snap))
  <1> DEFINE signed == Append(period.signoffs, snap)
             new == Signed(period, snap)
  <1>0. /\ period \in Periods /\ period.signoffs \in Seq(Snapshots) /\ period.reopenings \in Nat
        /\ Alternating(period)
    BY DEF ApInv, ApTypeOK, Periods
  <1>1. signed \in Seq(Snapshots) /\ Len(signed) = Len(period.signoffs) + 1
    BY <1>0, AppendProperties
  <1>2. new = [period EXCEPT !.signoffs = signed, !.status = "signed_off"]
    BY <1>0 DEF Signed
  <1> HIDE DEF signed, new
  <1>3. new \in Periods  BY <1>0, <1>1, <1>2 DEF Periods
  <1>4. new.signoffs = signed /\ new.status = "signed_off" /\ new.reopenings = period.reopenings
    BY <1>0, <1>2 DEF Periods
  <1>5. Alternating(new)
    BY <1>0, <1>1, <1>4, LenProperties DEF Alternating, Editable
  <1> QED  BY <1>3, <1>5 DEF new

\* The steps of a request change nothing but its copy, or the record.
LEMMA CallStep ==
  ASSUME ApInv, NEW c \in Callers, NEW x \in Calls,
         x.phase = "write" => Alternating(x.new),
         call' = [call EXCEPT ![c] = x],
         UNCHANGED <<period, retained, reports, package>>
  PROVE  ApInv'
  <1>1. \A d \in Callers : call'[d] = IF d = c THEN x ELSE call[d]
    BY DEF ApInv, ApTypeOK
  <1>2. ApTypeOK'
    <2>1. call' \in [Callers -> Calls]  BY DEF ApInv, ApTypeOK
    <2> QED  BY <2>1 DEF ApInv, ApTypeOK
  <1>3. CopiesAlternate'  BY <1>1 DEF ApInv, CopiesAlternate
  <1> QED  BY <1>2, <1>3 DEF ApInv, Alternating

\* What leaves the record and the copies alone
LEMMA WorldStep ==
  ASSUME ApInv, retained' \subseteq Exhibits, reports' \in Seq(BOOLEAN),
         UNCHANGED <<period, call>>
  PROVE  ApInv'
  BY DEF ApInv, ApTypeOK, CopiesAlternate, Alternating

\* A caller at rest
LEMMA NoCallFacts == NoCall \in Calls /\ NoCall.phase = "idle"
  BY DEF Calls, NoCall

\* Every step keeps the record and the copies alternating.
LEMMA ApStep ==
  ASSUME ApInv, [ApNext]_apVars
  PROVE  ApInv'
  <1>0. retained \subseteq Exhibits /\ reports \in Seq(BOOLEAN)  BY DEF ApInv, ApTypeOK
  <1>1. ASSUME NEW c \in Callers, Read(c)  PROVE ApInv'
    <2>1. PICK new \in Changes(period) :
            call' = [call EXCEPT ![c] = [phase |-> "write", new |-> new]]
      BY <1>1 DEF Read
    <2>2. new \in Periods /\ Alternating(new)  BY ChangeFacts
    <2>3. [phase |-> "write", new |-> new] \in Calls  BY <2>2 DEF Calls
    <2> QED  BY <1>1, <2>1, <2>2, <2>3, CallStep DEF Read
  <1>2. ASSUME NEW c \in Callers, CheckForSignoff(c)  PROVE ApInv'
    <2>1. [phase |-> "freeze", snap |-> Snapshot(period)] \in Calls
      BY SnapshotType DEF Calls
    <2> QED  BY <1>2, <2>1, CallStep DEF CheckForSignoff
  <1>3. ASSUME NEW c \in Callers, ReadForSignoff(c)  PROVE ApInv'
    <2>1. call[c] \in Calls  BY DEF ApInv, ApTypeOK
    <2>2. call[c].snap \in Snapshots  BY <1>3, <2>1, CallFacts DEF ReadForSignoff
    <2>3. CASE period.status \in Editable /\ Len(period.signoffs) < MaxSignoffs
      <3> DEFINE x == [phase |-> "write", new |-> Signed(period, call[c].snap)]
      <3>1. x \in Calls /\ Alternating(x.new)
        BY <2>2, <2>3, SignedFacts DEF Calls
      <3> QED  BY <1>3, <2>3, <3>1, CallStep DEF ReadForSignoff
    <2>4. CASE ~(period.status \in Editable /\ Len(period.signoffs) < MaxSignoffs)
      BY <1>3, <2>4, NoCallFacts, CallStep DEF ReadForSignoff
    <2> QED  BY <2>3, <2>4
  <1>4. ASSUME NEW c \in Callers, WriteBack(c)  PROVE ApInv'
    <2>1. call[c] \in Calls  BY DEF ApInv, ApTypeOK
    <2>2. period' \in Periods /\ Alternating(period)'
      BY <1>4, <2>1, CallFacts DEF WriteBack, ApInv, CopiesAlternate, Alternating
    <2>3. \A d \in Callers : call'[d] = IF d = c THEN NoCall ELSE call[d]
      BY <1>4 DEF WriteBack, ApInv, ApTypeOK
    <2>4. call' \in [Callers -> Calls]  BY <1>4, NoCallFacts DEF WriteBack, ApInv, ApTypeOK
    <2>5. ApTypeOK'  BY <1>4, <2>2, <2>4 DEF WriteBack, ApInv, ApTypeOK
    <2>6. CopiesAlternate'  BY <2>3, NoCallFacts DEF ApInv, CopiesAlternate
    <2> QED  BY <2>2, <2>5, <2>6 DEF ApInv
  <1>5. ASSUME NEW c \in Callers, ChangeLost(c)  PROVE ApInv'
    BY <1>5, NoCallFacts, CallStep DEF ChangeLost
  <1>6. CASE Download
    BY <1>0, <1>6, WorldStep DEF Download
  <1>7. ASSUME NEW e \in Exhibits, Retain(e)  PROVE ApInv'
    BY <1>0, <1>7, WorldStep DEF Retain
  <1>8. ASSUME NEW inWindow \in BOOLEAN, ReportAppears(inWindow)  PROVE ApInv'
    <2>1. reports' \in Seq(BOOLEAN)
      BY <1>0, <1>8, AppendProperties DEF ReportAppears
    <2> QED  BY <1>0, <1>8, <2>1, WorldStep DEF ReportAppears
  <1>9. CASE UNCHANGED apVars
    BY <1>0, <1>9, WorldStep DEF apVars
  <1> QED
    BY <1>1, <1>2, <1>3, <1>4, <1>5, <1>6, <1>7, <1>8, <1>9 DEF ApNext

\* In every reachable state
LEMMA ApInvariant == ApSpec => []ApInv
  BY ApInitInv, ApStep, PTL DEF ApSpec

\* Type correctness of the audit period (audit_period.py).
THEOREM ApTypesHold == ApSpec => []ApTypeOK
  <1>1. ApInv => ApTypeOK  BY DEF ApInv
  <1> QED  BY <1>1, ApInvariant, PTL

\* Sign-offs and reopenings alternate in the record, whoever wrote it last
\* (record_signoff, reopen).
THEOREM SignoffsAlwaysAlternate == ApSpec => []SignoffsAlternate
  <1>1. ApInv => SignoffsAlternate
    BY DEF ApInv, Alternating, SignoffsAlternate
  <1> QED  BY <1>1, ApInvariant, PTL

--------------------------------------------------------------------------------
\* The audit trail (AdminAudit): entries are linked, and whoever is about to insert
\* holds the hash that was last when its number was free.

\* The row a writer of number i follows.
Before(i) == IF i = 1 THEN Genesis ELSE trail[i - 1]

\* The rows are numbered and linked.
TrailLinked ==
  /\ DOMAIN trail = 1..LastSeq /\ LastSeq \in Nat
  /\ \A i \in DOMAIN trail : trail[i].seq = i /\ trail[i] = Entry(trail[i].what, Before(i))

\* What a handler is about to insert follows some row, the last one when it
\* looked, under the next number: if the number is free, that row is still last.
DraftsFollow ==
  /\ draft = [w \in Writers |-> draft[w]]
  /\ \A w \in Writers : draft[w] # NoDraft =>
       \E i \in 1..(LastSeq + 1) :
         /\ draft[w].seq = i
         /\ draft[w] = Entry(draft[w].what, Before(i))
         /\ draft[w].what \in Deeds

TrailInv == TrailLinked /\ DraftsFollow

\* A sequence has a row per number.
LEMMA RowsOfLength ==
  ASSUME NEW n \in Nat, DOMAIN trail = 1..n
  PROVE  LastSeq = n
  BY FS_Interval DEF LastSeq

\* The log is empty at first, and so is every draft.
LEMMA TrailInitInv == TrailInit => TrailInv
  <1> SUFFICES ASSUME TrailInit PROVE TrailInv
    OBVIOUS
  <1>1. DOMAIN trail = 1..0  BY DEF TrailInit
  <1>2. LastSeq = 0  BY <1>1, RowsOfLength
  <1>3. TrailLinked  BY <1>1, <1>2 DEF TrailLinked
  <1>4. DraftsFollow  BY DEF TrailInit, DraftsFollow
  <1> QED  BY <1>3, <1>4 DEF TrailInv

\* A draft takes up the last row.
LEMMA ReadLastStep ==
  ASSUME TrailInv, NEW w \in Writers, NEW what \in Deeds, ReadLast(w, what)
  PROVE  TrailInv'
  <1>1. trail' = trail /\ LastSeq' = LastSeq  BY DEF ReadLast, LastSeq
  <1>2. LastSeq \in Nat /\ DOMAIN trail = 1..LastSeq  BY DEF TrailInv, TrailLinked
  <1>3. TrailLinked'  BY <1>1 DEF TrailInv, TrailLinked, Before
  <1>4. draft'[w] = Entry(what, Before(LastSeq + 1)) /\ draft'[w].seq = LastSeq + 1
        /\ draft'[w].what = what
    <2>1. LastRow = Before(LastSeq + 1)  BY <1>2 DEF LastRow, Before
    <2>2. LastRow.seq = LastSeq  BY <1>2 DEF TrailInv, TrailLinked, LastRow, Genesis
    <2> QED  BY <2>1, <2>2 DEF ReadLast, TrailInv, DraftsFollow, Entry
  <1>5. DraftsFollow'
    <2>1. draft' = [v \in Writers |-> draft'[v]]
      BY DEF ReadLast, TrailInv, DraftsFollow
    <2>2. \A v \in Writers \ {w} : draft'[v] = draft[v]
      BY DEF ReadLast, TrailInv, DraftsFollow
    <2>3. \A i : Before(i)' = Before(i)  BY <1>1 DEF Before
    <2> QED  BY <1>1, <1>2, <1>4, <2>1, <2>2, <2>3 DEF TrailInv, DraftsFollow
  <1> QED  BY <1>3, <1>5 DEF TrailInv

\* A draft goes in under the next number, after the row it follows.
LEMMA InsertEntryStep ==
  ASSUME TrailInv, NEW w \in Writers, InsertEntry(w)
  PROVE  TrailInv'
  <1> DEFINE n == LastSeq
  <1>1. n \in Nat /\ DOMAIN trail = 1..n  BY DEF TrailInv, TrailLinked
  <1>2. PICK i \in 1..(n + 1) : draft[w].seq = i /\ draft[w] = Entry(draft[w].what, Before(i))
    BY DEF TrailInv, DraftsFollow, InsertEntry
  <1>3. /\ DOMAIN trail' = DOMAIN trail \cup {i}
        /\ \A j \in DOMAIN trail : trail'[j] = trail[j]
        /\ i = n + 1 => trail'[i] = draft[w]
    BY <1>1, <1>2 DEF InsertEntry, WithEntry
  <1>4. /\ draft' = [v \in Writers |-> draft'[v]]
        /\ \A v \in Writers : draft'[v] # NoDraft => draft'[v] = draft[v]
    BY DEF InsertEntry, TrailInv, DraftsFollow
  <1>5. \A j \in 1..(n + 1) : Before(j)' = Before(j)  BY <1>1, <1>3 DEF Before
  <1>6. PICK m \in {n, n + 1} : DOMAIN trail' = 1..m /\ (m = n + 1 => i = n + 1)
    <2>1. CASE i = n + 1
      <3>1. 1..n \cup {i} = 1..(n + 1)  BY <1>1, <2>1
      <3> QED  BY <1>1, <1>3, <2>1, <3>1
    <2>2. CASE i # n + 1  BY <1>1, <1>2, <1>3, <2>2
    <2> QED  BY <2>1, <2>2
  <1>7. LastSeq' = m
    <2>1. m \in Nat  BY <1>1
    <2>2. Cardinality(1..m) = m  BY <2>1, FS_Interval
    <2> QED  BY <1>6, <2>2 DEF LastSeq
  <1> HIDE DEF n
  <1>8. TrailLinked'
    <2>1. ASSUME NEW j \in DOMAIN trail'
          PROVE  trail'[j].seq = j /\ trail'[j] = Entry(trail'[j].what, Before(j)')
      <3>1. CASE j \in 1..n
        BY <1>1, <1>3, <1>5, <3>1 DEF TrailInv, TrailLinked
      <3>2. CASE j = n + 1
        <4>1. i = n + 1  BY <1>1, <1>6, <3>2
        <4> QED  BY <1>1, <1>2, <1>3, <1>5, <3>2, <4>1
      <3> QED  BY <1>1, <1>6, <3>1, <3>2
    <2> QED  BY <1>1, <1>6, <1>7, <2>1 DEF TrailLinked
  <1>9. DraftsFollow'
    <2>1. ASSUME NEW v \in Writers, draft'[v] # NoDraft
          PROVE  \E j \in 1..(m + 1) :
                   /\ draft'[v].seq = j /\ draft'[v] = Entry(draft'[v].what, Before(j)')
                   /\ draft'[v].what \in Deeds
      <3>1. draft'[v] = draft[v] /\ draft[v] # NoDraft  BY <1>4, <2>1
      <3>2. PICK j \in 1..(n + 1) : /\ draft[v].seq = j /\ draft[v] = Entry(draft[v].what, Before(j))
                                     /\ draft[v].what \in Deeds
        BY <3>1 DEF TrailInv, DraftsFollow, n
      <3>3. j \in 1..(m + 1)  BY <1>1, <1>6
      <3> QED  BY <1>5, <3>1, <3>2, <3>3
    <2> QED  BY <1>4, <1>7, <2>1 DEF DraftsFollow
  <1> QED  BY <1>8, <1>9 DEF TrailInv

\* A draft whose number is taken is given up.
LEMMA EntryLostStep ==
  ASSUME TrailInv, NEW w \in Writers, EntryLost(w)
  PROVE  TrailInv'
  <1>1. trail' = trail /\ LastSeq' = LastSeq  BY DEF EntryLost, LastSeq
  <1>2. TrailLinked'  BY <1>1 DEF TrailInv, TrailLinked, Before
  <1>3. DraftsFollow'
    <2>1. \A v \in Writers : draft'[v] # NoDraft => draft'[v] = draft[v]
      BY DEF EntryLost, TrailInv, DraftsFollow
    <2>2. \A i : Before(i)' = Before(i)  BY <1>1 DEF Before
    <2>3. draft' = [v \in Writers |-> draft'[v]]  BY DEF EntryLost, TrailInv, DraftsFollow
    <2> QED  BY <1>1, <2>1, <2>2, <2>3 DEF TrailInv, DraftsFollow
  <1> QED  BY <1>2, <1>3 DEF TrailInv

\* Every step keeps the log linked.
LEMMA TrailStepInv == TrailInv /\ [TrailNext]_trailVars => TrailInv'
  <1> SUFFICES ASSUME TrailInv, [TrailNext]_trailVars PROVE TrailInv'
    OBVIOUS
  <1>1. CASE UNCHANGED trailVars
    BY <1>1 DEF trailVars, TrailInv, TrailLinked, DraftsFollow, LastSeq, Before
  <1>2. CASE TrailNext
    BY <1>2, ReadLastStep, InsertEntryStep, EntryLostStep DEF TrailNext
  <1> QED  BY <1>1, <1>2

\* However many handlers append at once, and wherever one stops, the
\* administrative log verifies: nothing is written under a number that is
\* taken, and a number is free only while the row its draft follows is the last
\* (AdminAuditLog.append and verify).
THEOREM TrailAlwaysVerifies == TrailSpec => []TrailVerifies
  <1>1. TrailInv => TrailVerifies
    BY DEF TrailInv, TrailLinked, TrailVerifies, Verifies, Before
  <1> QED  BY TrailInitInv, TrailStepInv, <1>1, PTL DEF TrailSpec

\* A sequence with one more row
LEMMA OneMoreRow ==
  ASSUME TrailInv, NEW e, LastSeq' = LastSeq + 1, trail'[LastSeq + 1] = e,
         \A j \in 1..LastSeq : trail'[j] = trail[j]
  PROVE  Trail' = Append(Trail, e)
  <1> DEFINE n == LastSeq
             S == {trail[j] : j \in 1..n} \cup {e}
  <1>1. n \in Nat  BY DEF TrailInv, TrailLinked
  <1>2. Trail = [j \in 1..n |-> trail[j]] /\ Trail' = [j \in 1..(n + 1) |-> trail'[j]]
    BY DEF Trail
  <1>3. (\A j \in 1..n : trail'[j] = trail[j]) /\ trail'[n + 1] = e  OBVIOUS
  <1> HIDE DEF n
  <1>4. Trail \in [1..n -> S]  BY <1>2
  <1>5. Trail \in Seq(S) /\ e \in S  BY <1>1, <1>4, SeqDef
  <1>6. Len(Trail) = n  BY <1>1, <1>4, <1>5, LenProperties
  <1>7. /\ Append(Trail, e) \in Seq(S)
        /\ Len(Append(Trail, e)) = n + 1
        /\ \A j \in 1..n : Append(Trail, e)[j] = Trail[j]
        /\ Append(Trail, e)[n + 1] = e
    BY <1>5, <1>6, AppendProperties
  <1>8. Append(Trail, e) = [j \in 1..(n + 1) |-> Append(Trail, e)[j]]
    BY <1>7, LenProperties
  <1>9. \A j \in 1..(n + 1) : Append(Trail, e)[j] = trail'[j]
    BY <1>1, <1>2, <1>3, <1>7
  <1> QED  BY <1>2, <1>8, <1>9

\* The INSERT appends a row to the log, linked to the last, or changes nothing.
LEMMA InsertEntryAppends ==
  ASSUME TrailInv, NEW w \in Writers, InsertEntry(w)
  PROVE  Trail' = Trail \/ \E e \in AllowedEntries(Trail) : Trail' = Append(Trail, e)
  <1> DEFINE n == LastSeq
             e == draft[w]
  <1>1. n \in Nat /\ DOMAIN trail = 1..n  BY DEF TrailInv, TrailLinked
  <1>2. PICK i \in 1..(n + 1) : /\ e.seq = i /\ e = Entry(e.what, Before(i))
                               /\ e.what \in Deeds
    BY DEF TrailInv, DraftsFollow, InsertEntry
  <1>3. /\ DOMAIN trail' = DOMAIN trail \cup {i}
        /\ \A j \in 1..n : trail'[j] = trail[j]
        /\ i = n + 1 => trail'[i] = e
    BY <1>1, <1>2 DEF InsertEntry, WithEntry
  <1>4. CASE i # n + 1
    <2>1. DOMAIN trail' = DOMAIN trail  BY <1>1, <1>2, <1>3, <1>4
    <2>2. LastSeq' = LastSeq  BY <2>1 DEF LastSeq
    <2> QED  BY <1>3, <2>2 DEF Trail
  <1>5. CASE i = n + 1
    <2>1. DOMAIN trail' = 1..(n + 1)
      <3>1. 1..n \cup {i} = 1..(n + 1)  BY <1>1, <1>5
      <3> QED  BY <1>1, <1>3, <3>1
    <2>2. LastSeq' = n + 1
      <3>1. n + 1 \in Nat  BY <1>1
      <3>2. Cardinality(1..(n + 1)) = n + 1  BY <3>1, FS_Interval
      <3> QED  BY <2>1, <3>2 DEF LastSeq
    <2>3. Trail' = Append(Trail, e)  BY <1>3, <1>5, <2>2, OneMoreRow
    <2>4. Before(n + 1) = IF Trail = <<>> THEN Genesis ELSE Last(Trail)
      <3>1. Trail = [j \in 1..n |-> trail[j]]  BY DEF Trail
      <3> HIDE DEF n
      <3>2. CASE n = 0
        <4>1. 1..n = {}  BY <3>2
        <4>2. Trail = <<>>  BY <3>1, <4>1
        <4> QED  BY <3>2, <4>2 DEF Before
      <3>3. CASE n # 0
        <4>1. Trail \in [1..n -> {trail[j] : j \in 1..n}]  BY <3>1
        <4>2. Trail \in Seq({trail[j] : j \in 1..n})  BY <1>1, <4>1, SeqDef
        <4>3. Len(Trail) = n  BY <1>1, <4>1, <4>2, LenProperties
        <4>4. Trail # <<>>  BY <3>3, <4>3
        <4>5. Last(Trail) = trail[n]  BY <1>1, <3>1, <3>3, <4>3 DEF Last
        <4> QED  BY <1>1, <3>3, <4>4, <4>5 DEF Before
      <3> QED  BY <3>2, <3>3
    <2>5. e \in AllowedEntries(Trail)  BY <1>2, <1>5, <2>4 DEF AllowedEntries
    <2> QED  BY <2>3, <2>5
  <1> QED  BY <1>4, <1>5

\* The log is an append-only, hash-chained one (admin_audit.py:4), however many
\* handlers compute their rows at once: a row that goes in is linked to the one
\* that is last when it goes in, and nothing else ever changes the log.
THEOREM TrailIsEventStore == TrailSpec => RowsAreAppended
  <1> DEFINE history == [x \in {"trail"} |-> Trail]
  <1>1. TrailInit => TrailPromise!Init
    <2> SUFFICES ASSUME TrailInit PROVE TrailPromise!Init  OBVIOUS
    <2>1. DOMAIN trail = 1..0  BY DEF TrailInit
    <2>2. LastSeq = 0  BY <2>1, RowsOfLength
    <2>3. 1..LastSeq = {}  BY <2>2
    <2>4. Trail = <<>>  BY <2>3 DEF Trail
    <2> QED  BY <2>4 DEF TrailPromise!Init
  <1>2. ASSUME TrailInv, [TrailNext]_trailVars
        PROVE  [TrailPromise!Next]_history
    <2>1. CASE UNCHANGED trail
      BY <2>1 DEF Trail, LastSeq
    <2>2. ASSUME NEW w \in Writers, InsertEntry(w)
          PROVE  [TrailPromise!Next]_history
      <3>1. CASE Trail' = Trail  BY <3>1
      <3>2. ASSUME NEW e \in AllowedEntries(Trail), Trail' = Append(Trail, e)
            PROVE  TrailPromise!Next
        <4>1. history' = [history EXCEPT !["trail"] = Append(@, e)]  BY <3>2
        <4>2. e \in AllowedEntries(history["trail"])  BY <3>2
        <4>3. TrailPromise!Record("trail")  BY <4>1, <4>2 DEF TrailPromise!Record
        <4> QED  BY <4>3 DEF TrailPromise!Next
      <3> QED  BY <1>2, <2>2, <3>1, <3>2, InsertEntryAppends
    <2> QED
      BY <1>2, <2>1, <2>2 DEF TrailNext, ReadLast, EntryLost, trailVars
  <1> QED  BY <1>1, <1>2, TrailInitInv, TrailStepInv, PTL
    DEF TrailSpec, RowsAreAppended, TrailPromise!Spec

--------------------------------------------------------------------------------
\* Control profiles (ControlWorkspace)

Profiles == [owner : Owners, applicability : Applicabilities, cadence : Nat \ {0}]

Dated == [day : Nat, collected : Nat, form : Forms]

\* Every row there is or is about to be has a cadence of a day at least: a
\* merge keeps the field of the row it started from, or takes a checked one.
WorkspaceInv ==
  /\ profile \in {NoValue} \cup Profiles
  /\ patching \in [Editors -> {NoValue} \cup Profiles]
  /\ latest \in {NoValue} \cup Dated
  /\ thisDay \in Nat

\* No profile is set at first.
LEMMA WorkspaceInitInv == WorkspaceInit => WorkspaceInv
  BY DEF WorkspaceInit, WorkspaceInv

\* The profile in force is well formed, cadence and all.
LEMMA ProfileFacts == WorkspaceInv => Profile \in Profiles
  <1>1. Defaults \in Profiles
    <2>1. "" \in Owners  BY WorkspaceAssumption
    <2>2. "applicable" \in Applicabilities  BY DEF Applicabilities
    <2>3. 90 \in Nat \ {0}  OBVIOUS
    <2> QED  BY <2>1, <2>2, <2>3 DEF Defaults, Profiles
  <1> QED  BY <1>1 DEF WorkspaceInv, Profile

\* A merge of an acceptable patch is a profile.
LEMMA MergedFacts ==
  ASSUME NEW base \in Profiles, NEW p \in Patches, Acceptable(p)
  PROVE  Merged(base, p) \in Profiles
  <1>1. DOMAIN base = {"owner", "applicability", "cadence"}  BY DEF Profiles
  <1>2. /\ p.owner \in Owners \cup {NoValue}
        /\ p.applicability \in Applicabilities \cup {NoValue}
        /\ p.cadence # NoValue => p.cadence \in Nat \ {0}
    <2>1. p.owner \in Owners \cup {NoValue} /\ p.cadence \in Cadences \cup {NoValue}
      BY DEF Patches
    <2>2. p.cadence # NoValue => p.cadence \in Int /\ p.cadence >= 1
      BY <2>1, WorkspaceAssumption DEF Acceptable
    <2>3. p.applicability \in Applicabilities \cup {NoValue}
      BY DEF Acceptable
    <2> QED  BY <2>1, <2>2, <2>3
  <1>3. base.owner \in Owners /\ base.applicability \in Applicabilities
        /\ base.cadence \in Nat \ {0}
    BY DEF Profiles
  <1>4. Merged(base, p) =
          [owner |-> IF p.owner = NoValue THEN base.owner ELSE p.owner,
           applicability |-> IF p.applicability = NoValue THEN base.applicability
                             ELSE p.applicability,
           cadence |-> IF p.cadence = NoValue THEN base.cadence ELSE p.cadence]
    BY <1>1 DEF Merged
  <1> QED  BY <1>2, <1>3, <1>4 DEF Profiles

\* Every patch keeps the profiles well formed.
LEMMA WorkspaceStepInv == WorkspaceInv /\ [WorkspaceNext]_workspaceVars => WorkspaceInv'
  <1> SUFFICES ASSUME WorkspaceInv, [WorkspaceNext]_workspaceVars PROVE WorkspaceInv'
    OBVIOUS
  <1>1. ASSUME NEW e \in Editors, NEW p \in Patches, PatchRead(e, p)  PROVE WorkspaceInv'
    <2>1. Merged(Profile, p) \in Profiles  BY <1>1, ProfileFacts, MergedFacts DEF PatchRead
    <2> QED  BY <1>1, <2>1 DEF PatchRead, WorkspaceInv
  <1>2. ASSUME NEW e \in Editors, PatchWrite(e)  PROVE WorkspaceInv'
    BY <1>2 DEF PatchWrite, WorkspaceInv
  <1>3. ASSUME NEW collected \in 0..LastDay, NEW form \in Forms, Report(collected, form)
        PROVE  WorkspaceInv'
    <2>1. collected \in Nat
      <3>1. LastDay \in Nat  BY WorkspaceAssumption
      <3> QED  BY <3>1
    <2> DEFINE r == [day |-> thisDay, collected |-> collected, form |-> form]
    <2>2. r \in Dated  BY <1>3, <2>1 DEF WorkspaceInv, Dated
    <2>3. latest' = r  BY <1>3 DEF Report
    <2> HIDE DEF r
    <2> QED  BY <1>3, <2>2, <2>3 DEF Report, WorkspaceInv
  <1>4. CASE ClockMoves  BY <1>4 DEF ClockMoves, WorkspaceInv
  <1>5. CASE UNCHANGED workspaceVars  BY <1>5 DEF workspaceVars, WorkspaceInv
  <1> QED  BY <1>1, <1>2, <1>3, <1>4, <1>5 DEF WorkspaceNext

\* Fresh is not older, by the day that is read.
LEMMA FreshFacts == WorkspaceInv => FreshIsRecent
  <1> SUFFICES ASSUME WorkspaceInv PROVE FreshIsRecent
    OBVIOUS
  <1> DEFINE cadence == Profile.cadence
  <1>1. cadence \in Nat \ {0}  BY ProfileFacts DEF Profiles
  <1>2. SUFFICES ASSUME Freshness = "fresh"
                 PROVE  /\ latest.form = "zoned" => thisDay - latest.collected <= cadence
                        /\ latest.form = "none" => thisDay - latest.day <= cadence
    BY <1>1 DEF FreshIsRecent
  <1>3. latest # NoValue  BY <1>2 DEF Freshness
  <1>4. latest \in Dated /\ thisDay \in Nat  BY <1>3 DEF WorkspaceInv
  <1>5. CASE latest.form \in {"zoned", "none"}
    <2>1. ~Older(Observed, cadence)  BY <1>2, <1>3, <1>5 DEF Freshness
    <2>2. latest.day \in Nat /\ latest.collected \in Nat  BY <1>4 DEF Dated
    <2> HIDE DEF cadence
    <2> QED  BY <1>1, <1>4, <1>5, <2>1, <2>2 DEF Older, Observed
  <1>6. CASE latest.form \notin {"zoned", "none"}  BY <1>6
  <1> QED  BY <1>5, <1>6

\* Whatever patches met in the row of a control, its cadence is a day at
\* least, and the workspace shows it fresh only if what vouches for it, where
\* its date can be read, is within that cadence (ControlProfileStore.update
\* and service.py's _evidence_freshness_for).
THEOREM FreshAlwaysRecent == WorkspaceSpec => []FreshIsRecent
  BY WorkspaceInitInv, WorkspaceStepInv, FreshFacts, PTL DEF WorkspaceSpec

--------------------------------------------------------------------------------
\* Access (Access): every door that writes guards the duties it could mix.

\* What only an administrator may change.
Reserved == {"decisions", "periods", "releases", "connectors", "users"}

\* What the doors have in common: none that takes a tenant changes anything,
\* one for auditors signs off or holds, and what is reserved is behind admin
\* authority.
Guarded(d) ==
  /\ d.scope \in {"read", "ingest", "export", "admin"}
  /\ d.admin \in BOOLEAN /\ d.cross \in BOOLEAN
  /\ d.cross \/ d.scope = "read" => d.writes = {}
  /\ d.scope = "export" => d.writes \subseteq {"sign-offs", "holds"}
  /\ ~d.admin /\ d.scope # "admin" => d.writes \cap Reserved = {}

\* The fields of a door
LEMMA DoorFields ==
  ASSUME NEW name, NEW scope, NEW admin, NEW cross, NEW writes
  PROVE  LET d == Door(name, scope, admin, cross, writes) IN
         /\ d.scope = scope /\ d.admin = admin /\ d.cross = cross /\ d.writes = writes
  BY DEF Door

\* A door is guarded if what it was declared with is.
LEMMA DoorGuarded ==
  ASSUME NEW name, NEW scope \in {"read", "ingest", "export", "admin"},
         NEW admin \in BOOLEAN, NEW cross \in BOOLEAN, NEW writes,
         cross \/ scope = "read" => writes = {},
         scope = "export" => writes \subseteq {"sign-offs", "holds"},
         ~admin /\ scope # "admin" => writes \cap Reserved = {}
  PROVE  Guarded(Door(name, scope, admin, cross, writes))
  BY DEF Door, Guarded

\* A door that writes nothing needs no guard.
LEMMA ReadDoorGuarded == ASSUME NEW name PROVE Guarded(ReadDoor(name))
  BY DoorGuarded DEF ReadDoor

\* Door by door
LEMMA DoorsGuarded == \A d \in Doors : Guarded(d)
  <1>1. \A d \in IngestDoors : Guarded(d)
    BY DoorGuarded DEF IngestDoors, Reserved
  <1>2. \A d \in ReportDoors : Guarded(d)
    BY ReadDoorGuarded DEF ReportDoors
  <1>3. \A d \in FindingDoors : Guarded(d)
    BY DoorGuarded, ReadDoorGuarded DEF FindingDoors, Reserved
  <1>4. \A d \in AttestationDoors : Guarded(d)
    BY DoorGuarded, ReadDoorGuarded DEF AttestationDoors, Reserved
  <1>5. \A d \in ConnectorDoors : Guarded(d)
    BY DoorGuarded, ReadDoorGuarded DEF ConnectorDoors, Reserved
  <1>6. \A d \in AuditDoors : Guarded(d)
    BY DoorGuarded, ReadDoorGuarded DEF AuditDoors, Reserved
  <1>7. \A d \in WorkspaceDoors : Guarded(d)
    BY DoorGuarded, ReadDoorGuarded DEF WorkspaceDoors, Reserved
  <1>8. \A d \in ScimDoors : Guarded(d)
    BY DoorGuarded DEF ScimDoors
  <1>9. \A d \in EvidenceDoors : Guarded(d)
    BY DoorGuarded, ReadDoorGuarded DEF EvidenceDoors, Reserved
  <1> QED  BY <1>1, <1>2, <1>3, <1>4, <1>5, <1>6, <1>7, <1>8, <1>9 DEF Doors

\* Who has which scope.
LEMMA ScopesFacts ==
  ASSUME NEW s \in Subjects
  PROVE  /\ "admin" \in Scopes(s) => RoleOf[s] = "admin"
         /\ "cross" \in Scopes(s) => RoleOf[s] \in {"admin", "mssp"}
         /\ "ingest" \in Scopes(s) => RoleOf[s] \in {"admin", "analyst", "mssp", "service"}
         /\ "export" \in Scopes(s) => RoleOf[s] \in {"admin", "auditor"}
  <1> DEFINE known == {"admin", "analyst", "auditor", "mssp", "service", "readonly"}
             r == IF RoleOf[s] \in known THEN RoleOf[s] ELSE "readonly"
  <1>1. DOMAIN ScopesOfRole = known  BY DEF ScopesOfRole
  <1>2. /\ ScopesOfRole["admin"] = {"read", "ingest", "export", "admin", "cross"}
        /\ ScopesOfRole["analyst"] = {"read", "ingest"}
        /\ ScopesOfRole["auditor"] = {"read", "export"}
        /\ ScopesOfRole["mssp"] = {"read", "ingest", "cross"}
        /\ ScopesOfRole["service"] = {"read", "ingest"}
        /\ ScopesOfRole["readonly"] = {"read"}
    BY DEF ScopesOfRole
  <1>3. Scopes(s) = ScopesOfRole[r]  BY <1>1 DEF Scopes
  <1>4. r \in known /\ (r # "readonly" => RoleOf[s] = r)  OBVIOUS
  <1> HIDE DEF r
  <1> QED  BY <1>2, <1>3, <1>4

\* The duties of a request that was let in.
Duties(s, door, tenant) ==
  LET role == RoleOf[s]
      writes == door.writes
  IN  /\ tenant # HomeOf[s] => role \in {"admin", "mssp"} /\ writes = {}
      /\ role \notin {"admin", "analyst", "service", "mssp", "auditor"} => writes = {}
      /\ role = "auditor" => writes \subseteq {"sign-offs", "holds"}
      /\ role # "admin" => writes \cap Reserved = {}

\* Whoever a guarded door serves keeps their duties apart.
LEMMA ServedKeepsDuties ==
  ASSUME NEW s \in Subjects, NEW d \in Doors, NEW t, t = Nobody \/ d.cross,
         Answer(s, d, t) = "served"
  PROVE  Duties(s, d, Target(s, t))
  <1>1. Has(s, d.scope) /\ HasAuthority(s, d) /\ MayRead(s, Target(s, t))
    BY DEF Answer
  <1>2. Guarded(d)  BY DoorsGuarded
  <1>3. CASE RoleOf[s] = "admin"
    <2>1. Target(s, t) # HomeOf[s] => d.cross  BY DEF Target
    <2> QED  BY <1>2, <1>3, <2>1 DEF Duties, Guarded
  <1>4. CASE RoleOf[s] # "admin"
    <2>1. "admin" \notin Scopes(s)  BY <1>4, ScopesFacts
    <2>2. ~d.admin /\ d.scope \in Scopes(s) /\ d.scope # "admin"
      BY <1>1, <1>2, <2>1 DEF Has, HasAuthority, Guarded
    <2>3. d.writes \cap Reserved = {}  BY <1>2, <2>2 DEF Guarded
    <2>4. Target(s, t) # HomeOf[s] => RoleOf[s] = "mssp" /\ d.writes = {}
      <3>1. SUFFICES ASSUME Target(s, t) # HomeOf[s] PROVE RoleOf[s] = "mssp" /\ d.writes = {}
        OBVIOUS
      <3>2. d.cross  BY <3>1 DEF Target
      <3>3. "cross" \in Scopes(s)  BY <1>1, <2>1, <3>1 DEF MayRead
      <3> QED  BY <1>2, <1>4, <3>2, <3>3, ScopesFacts DEF Guarded
    <2>5. RoleOf[s] \notin {"analyst", "service", "mssp", "auditor"} => d.writes = {}
      BY <1>2, <1>4, <2>2, ScopesFacts DEF Guarded
    <2>6. RoleOf[s] = "auditor" => d.writes \subseteq {"sign-offs", "holds"}
      BY <1>2, <1>4, <2>2, ScopesFacts DEF Guarded
    <2> QED  BY <1>4, <2>3, <2>4, <2>5, <2>6 DEF Duties
  <1> QED  BY <1>3, <1>4

AccessInv == tick \in Nat /\ DutiesApart

\* Nobody was let in at first.
LEMMA AccessInitInv == AccessInit => AccessInv
  BY DEF AccessInit, AccessInv, DutiesApart, LetIn

\* A request at a door
LEMMA AskDoorStep ==
  ASSUME AccessInv, NEW c \in Credentials, NEW d \in Doors, NEW t \in Tenants \cup {Nobody},
         AskDoor(c, d, t)
  PROVE  AccessInv'
  <1>1. /\ verdict'.cred = c /\ verdict'.answer = Answer(c.sub, d, t) /\ verdict'.at = tick
        /\ verdict'.door = d /\ verdict'.tenant = Target(c.sub, t)
        /\ tick' = tick
    BY DEF AskDoor
  <1>2. c.sub \in Subjects  BY DEF Credentials
  <1>3. c.kind = "token" => c.nbf \in {0, 2, Nobody}
    BY DEF Credentials
  <1>4. /\ c.sound
        /\ c.kind = "token" => /\ c.exp # Nobody => tick <= c.exp + Leeway
                               /\ c.nbf # Nobody => c.nbf - Leeway <= tick
    <2>1. /\ c.sound
          /\ c.kind = "token" => /\ c.exp # Nobody => tick <= c.exp + Leeway
                                 /\ c.nbf # Nobody => c.nbf <= tick + Leeway
      BY DEF AskDoor, Authentic
    <2>2. Leeway \in Int /\ tick \in Int  BY AccessAssumption DEF AccessInv
    <2>3. ASSUME c.kind = "token", c.nbf # Nobody  PROVE c.nbf - Leeway <= tick
      <3>1. c.nbf \in Int /\ c.nbf <= tick + Leeway  BY <1>3, <2>1, <2>3
      <3> QED  BY <2>2, <3>1
    <2> QED  BY <2>1, <2>3
  <1>5. LetIn' => Duties(c.sub, d, Target(c.sub, t))
    BY <1>1, <1>2, ServedKeepsDuties DEF AskDoor, LetIn
  <1>6. DutiesApart'  BY <1>1, <1>4, <1>5 DEF DutiesApart, Duties, Reserved
  <1> QED  BY <1>1, <1>6 DEF AccessInv

\* Every step keeps duties apart.
LEMMA AccessStepInv == AccessInv /\ [AccessNext]_accessVars => AccessInv'
  <1> SUFFICES ASSUME AccessInv, [AccessNext]_accessVars PROVE AccessInv'
    OBVIOUS
  <1>1. ASSUME NEW c \in Credentials, Refused(c)  PROVE AccessInv'
    BY <1>1 DEF Refused, AccessInv, DutiesApart, LetIn
  <1>2. ASSUME NEW c \in Credentials, Throttled(c)  PROVE AccessInv'
    BY <1>2 DEF Throttled, AccessInv, DutiesApart, LetIn
  <1>3. CASE Answered  BY <1>3 DEF Answered, AccessInv, DutiesApart, LetIn
  <1>4. CASE GateTick
    <2>1. verdict' = verdict /\ tick' \in Nat  BY <1>4 DEF GateTick, AccessInv
    <2> QED  BY <2>1 DEF AccessInv, DutiesApart, LetIn
  <1>5. CASE UNCHANGED accessVars
    BY <1>5 DEF accessVars, AccessInv, DutiesApart, LetIn
  <1> QED  BY <1>1, <1>2, <1>3, <1>4, <1>5, AskDoorStep DEF AccessNext, RequestComes

\* For any subjects, roles and tenants, what is let in keeps duties apart:
\* every role against every door of the API (auth.AuthRegistry and the
\* endpoints of api/main.py).
THEOREM DutiesAlwaysApart == AccessSpec => []DutiesApart
  <1>1. AccessInv => DutiesApart  BY DEF AccessInv
  <1> QED  BY AccessInitInv, AccessStepInv, <1>1, PTL DEF AccessSpec

--------------------------------------------------------------------------------
\* The rate limiter (RateLimiter): what is forgotten is old, so the requests admitted
\* within one window are all remembered.

Asked == [n : Nat, at : Nat]

\* The requests so far, numbered as they came.
LimiterTypeOK ==
  /\ second \in Nat /\ asked \in Nat
  /\ hits \in SUBSET Asked /\ IsFiniteSet(hits)
  /\ admitted \in Seq(Asked)
  /\ \A i \in DOMAIN admitted : admitted[i].n <= asked /\ admitted[i].at <= second

InOrder ==
  \A i, j \in DOMAIN admitted :
    i < j => admitted[i].n < admitted[j].n /\ admitted[i].at <= admitted[j].at

\* What was let through within a window of now is remembered, whatever was
\* pruned: a check prunes by an earlier clock.
RecentRemembered ==
  Limit > 0 => \A i \in DOMAIN admitted : second - admitted[i].at < Window => admitted[i] \in hits

LimiterInv == LimiterTypeOK /\ InOrder /\ RecentRemembered /\ RateBound

\* Nothing was asked at first.
LEMMA LimiterInitInv == LimiterInit => LimiterInv
  <1> SUFFICES ASSUME LimiterInit PROVE LimiterInv
    OBVIOUS
  <1>1. IsFiniteSet({})  BY FS_EmptySet
  <1>2. DOMAIN admitted = {}  BY DEF LimiterInit
  <1>3. LimiterTypeOK  BY <1>1, <1>2 DEF LimiterInit, LimiterTypeOK
  <1> QED  BY <1>2, <1>3 DEF LimiterInv, InOrder, RecentRemembered, RateBound

\* What is admitted is a request, each one once and in order.
LEMMA AdmittedFacts ==
  ASSUME LimiterInv, NEW i \in DOMAIN admitted
  PROVE  admitted[i] \in Asked /\ admitted[i].n \in Nat /\ admitted[i].at \in Nat
  <1>1. admitted \in Seq(Asked)  BY DEF LimiterInv, LimiterTypeOK
  <1>2. i \in 1..Len(admitted)  BY <1>1, LenProperties
  <1>3. admitted[i] \in Asked  BY <1>1, <1>2, ElementOfSeq
  <1> QED  BY <1>3 DEF Asked

\* What is counted
LEMMA CountedFacts ==
  ASSUME LimiterInv
  PROVE  /\ ThisRequest \in Asked /\ ThisRequest.n = asked + 1 /\ ThisRequest.at = second
         /\ Counted \in SUBSET Asked /\ IsFiniteSet(Counted)
         /\ \A r \in hits : second - r.at < Window => r \in Counted
         /\ ThisRequest \in Counted
  <1>1. ThisRequest \in Asked /\ ThisRequest.n = asked + 1 /\ ThisRequest.at = second
    BY DEF ThisRequest, Asked, LimiterInv, LimiterTypeOK
  <1> DEFINE kept == {r \in hits : second - r.at < Window}
  <1>2. IsFiniteSet(kept)
    <2>1. kept \subseteq hits  OBVIOUS
    <2> HIDE DEF kept
    <2> QED  BY <2>1, FS_Subset DEF LimiterInv, LimiterTypeOK
  <1>3. IsFiniteSet(Counted)
    <2>1. Counted = kept \cup {ThisRequest}  BY DEF Counted
    <2> HIDE DEF kept
    <2> QED  BY <1>2, <2>1, FS_AddElement
  <1> QED  BY <1>1, <1>3 DEF Counted, LimiterInv, LimiterTypeOK

\* A request that was let through is the limit's distance, or more, away from
\* the one that is let through with it: between them they would be more than
\* the limit in what is counted.
LEMMA AdmittedApart ==
  ASSUME LimiterInv, Limit > 0, Cardinality(Counted) <= Limit,
         NEW i \in DOMAIN admitted, i + Limit = Len(admitted) + 1
  PROVE  second - admitted[i].at >= Window
  <1> DEFINE m == Len(admitted)
             f == [j \in 1..(Limit + 1) |-> IF j = Limit + 1 THEN ThisRequest
                                           ELSE admitted[i + j - 1]]
  <1>0. Limit \in Nat /\ Window \in Nat /\ m \in Nat /\ i \in 1..m
        /\ DOMAIN admitted = 1..m
    BY LimiterAssumption, LenProperties DEF LimiterInv, LimiterTypeOK
  <1>1. SUFFICES ASSUME second - admitted[i].at < Window PROVE FALSE
    <2>1. admitted[i].at \in Nat /\ second \in Nat
      BY AdmittedFacts DEF LimiterInv, LimiterTypeOK
    <2> QED  BY <1>0, <2>1
  <1>2. \A j \in i..m : j \in DOMAIN admitted /\ admitted[j] \in Counted /\ admitted[j].n <= asked
    <2> SUFFICES ASSUME NEW j \in i..m
                 PROVE  j \in DOMAIN admitted /\ admitted[j] \in Counted /\ admitted[j].n <= asked
      OBVIOUS
    <2>1. j \in DOMAIN admitted /\ (i < j \/ i = j)  BY <1>0
    <2>2. admitted[i] \in Asked /\ admitted[j] \in Asked
      BY <2>1, AdmittedFacts
    <2>3. admitted[i].at <= admitted[j].at  BY <2>1, <2>2 DEF LimiterInv, InOrder, Asked
    <2>4. second - admitted[j].at < Window
      BY <1>0, <1>1, <2>2, <2>3 DEF Asked, LimiterInv, LimiterTypeOK
    <2> QED  BY <2>1, <2>4, CountedFacts DEF LimiterInv, RecentRemembered, LimiterTypeOK
  <1>3. \A j \in 1..Limit : i + j - 1 \in i..m  BY <1>0
  <1>4. f \in [1..(Limit + 1) -> Counted]
    BY <1>0, <1>2, <1>3, CountedFacts
  <1>5. IsInjective(f)
    <2>1. ASSUME NEW j \in 1..(Limit + 1), NEW k \in 1..(Limit + 1), j < k
          PROVE  f[j] # f[k]
      <3>1. j \in 1..Limit /\ f[j] = admitted[i + j - 1]  BY <1>0, <2>1
      <3>2. admitted[i + j - 1].n \in Nat /\ admitted[i + j - 1].n <= asked /\ asked \in Nat
        BY <1>2, <1>3, <3>1, AdmittedFacts DEF LimiterInv, LimiterTypeOK
      <3>3. CASE k = Limit + 1
        <4>1. f[k] = ThisRequest  BY <3>3
        <4> QED  BY <3>1, <3>2, <4>1, CountedFacts
      <3>4. CASE k # Limit + 1
        <4>1. k \in 1..Limit /\ f[k] = admitted[i + k - 1]  BY <1>0, <3>4
        <4>2. i + j - 1 \in DOMAIN admitted /\ i + k - 1 \in DOMAIN admitted
              /\ i + j - 1 < i + k - 1
          BY <1>0, <1>2, <1>3, <2>1, <3>1, <4>1
        <4>3. admitted[i + j - 1].n < admitted[i + k - 1].n
          BY <4>2 DEF LimiterInv, InOrder
        <4> QED  BY <3>1, <3>2, <4>1, <4>3
      <3> QED  BY <3>3, <3>4
    <2> HIDE DEF f
    <2>2. \A j, k \in 1..(Limit + 1) : f[j] = f[k] => j = k
      <3> SUFFICES ASSUME NEW j \in 1..(Limit + 1), NEW k \in 1..(Limit + 1), j # k
                   PROVE  f[j] # f[k]
        OBVIOUS
      <3>1. j < k \/ k < j  BY <1>0
      <3> QED  BY <2>1, <3>1
    <2> QED  BY <1>4, <2>2 DEF IsInjective
  <1>6. f \in Injection(1..(Limit + 1), Counted)
    <2> HIDE DEF f
    <2> QED  BY <1>4, <1>5 DEF Injection
  <1>7. Cardinality(1..(Limit + 1)) <= Cardinality(Counted)
    <2> HIDE DEF f
    <2> QED  BY <1>6, CountedFacts, FS_Injection
  <1>8. Cardinality(1..(Limit + 1)) = Limit + 1
    BY <1>0, FS_Interval
  <1>9. Cardinality(Counted) \in Nat  BY CountedFacts, FS_CardinalityType
  <1> QED  BY <1>0, <1>7, <1>8, <1>9

\* A check, whether it admits or refuses
LEMMA CheckStep == ASSUME LimiterInv, Check PROVE LimiterInv'
  <1> DEFINE m == Len(admitted)
  <1>0. /\ Limit \in Nat /\ Window \in Nat /\ second \in Nat /\ asked \in Nat
        /\ m \in Nat /\ DOMAIN admitted = 1..m /\ second' = second /\ asked' = asked + 1
    BY LimiterAssumption, LenProperties DEF LimiterInv, LimiterTypeOK, Check
  <1>1. hits' \in SUBSET Asked /\ IsFiniteSet(hits')
    BY CountedFacts DEF Check, LimiterInv, LimiterTypeOK
  <1>2. \A i \in DOMAIN admitted :
          admitted[i] \in Asked /\ admitted[i].n \in Nat /\ admitted[i].at \in Nat
    BY AdmittedFacts
  <1>3. CASE admitted' = admitted
    <2>1. \A i \in DOMAIN admitted : admitted[i].n <= asked + 1
      BY <1>0, <1>2 DEF LimiterInv, LimiterTypeOK
    <2>2. LimiterTypeOK'  BY <1>0, <1>1, <1>3, <2>1 DEF LimiterInv, LimiterTypeOK
    <2>3. InOrder'  BY <1>3 DEF LimiterInv, InOrder
    <2>4. RecentRemembered'
      BY <1>0, <1>3, CountedFacts DEF LimiterInv, RecentRemembered, Check
    <2>5. RateBound'  BY <1>3 DEF LimiterInv, RateBound
    <2> QED  BY <2>2, <2>3, <2>4, <2>5 DEF LimiterInv
  <1>4. CASE /\ admitted' = Append(admitted, ThisRequest)
             /\ Limit = 0 \/ Cardinality(Counted) <= Limit
    <2>1. /\ admitted' \in Seq(Asked) /\ Len(admitted') = m + 1 /\ DOMAIN admitted' = 1..(m + 1)
          /\ \A i \in 1..m : admitted'[i] = admitted[i]
          /\ admitted'[m + 1] = ThisRequest
      BY <1>0, <1>4, CountedFacts, AppendProperties, LenProperties DEF LimiterInv,
         LimiterTypeOK
    <2>2. ASSUME NEW i \in DOMAIN admitted'
          PROVE  (i \in 1..m /\ admitted'[i] = admitted[i]) \/ i = m + 1
      BY <1>0, <2>1
    <2>3. \A i \in DOMAIN admitted' : admitted'[i].n <= asked' /\ admitted'[i].at <= second'
      BY <1>0, <1>2, <2>1, <2>2, CountedFacts DEF LimiterInv, LimiterTypeOK
    <2>4. LimiterTypeOK'  BY <1>0, <1>1, <2>1, <2>3 DEF LimiterTypeOK
    <2>5. InOrder'
      <3> SUFFICES ASSUME NEW i \in DOMAIN admitted', NEW j \in DOMAIN admitted', i < j
                   PROVE  admitted'[i].n < admitted'[j].n /\ admitted'[i].at <= admitted'[j].at
        BY DEF InOrder
      <3>1. i \in 1..m /\ admitted'[i] = admitted[i]  BY <1>0, <2>1
      <3>2. CASE j \in 1..m
        BY <1>0, <2>1, <3>1, <3>2 DEF LimiterInv, InOrder
      <3>3. CASE j = m + 1
        <4>1. admitted[i].n <= asked /\ admitted[i].at <= second
          BY <1>0, <3>1 DEF LimiterInv, LimiterTypeOK
        <4> QED  BY <1>0, <1>2, <2>1, <3>1, <3>3, <4>1, CountedFacts
      <3> QED  BY <2>2, <3>2, <3>3
    <2>6. RecentRemembered'
      <3> SUFFICES ASSUME Limit > 0, NEW i \in DOMAIN admitted',
                          second' - admitted'[i].at < Window
                   PROVE  admitted'[i] \in hits'
        BY DEF RecentRemembered
      <3>1. hits' = Counted  BY <1>0 DEF Check
      <3>2. CASE i = m + 1  BY <2>1, <3>1, <3>2, CountedFacts
      <3>3. CASE i # m + 1
        <4>1. i \in DOMAIN admitted /\ admitted'[i] = admitted[i]  BY <1>0, <2>1, <3>3
        <4> QED  BY <1>0, <3>1, <4>1, CountedFacts DEF LimiterInv, RecentRemembered
      <3> QED  BY <3>2, <3>3
    <2>7. RateBound'
      <3> SUFFICES ASSUME Limit > 0, NEW i \in DOMAIN admitted', i + Limit \in DOMAIN admitted'
                   PROVE  admitted'[i + Limit].at - admitted'[i].at >= Window
        BY DEF RateBound
      <3>1. i \in DOMAIN admitted /\ admitted'[i] = admitted[i]  BY <1>0, <2>1
      <3>2. CASE i + Limit = m + 1
        <4>1. second - admitted[i].at >= Window
          BY <1>0, <1>4, <3>1, <3>2, AdmittedApart
        <4> QED  BY <2>1, <3>1, <3>2, <4>1, CountedFacts
      <3>3. CASE i + Limit # m + 1
        <4>1. i + Limit \in DOMAIN admitted /\ admitted'[i + Limit] = admitted[i + Limit]
          BY <1>0, <2>1, <3>3
        <4> QED  BY <3>1, <4>1 DEF LimiterInv, RateBound
      <3> QED  BY <3>2, <3>3
    <2> QED  BY <2>4, <2>5, <2>6, <2>7 DEF LimiterInv
  <1> QED  BY <1>3, <1>4 DEF Check

\* Every step, the passing of a second too
LEMMA LimiterStepInv == LimiterInv /\ [LimiterNext]_limiterVars => LimiterInv'
  <1> SUFFICES ASSUME LimiterInv, [LimiterNext]_limiterVars PROVE LimiterInv'
    OBVIOUS
  <1>1. CASE Second
    <2>1. /\ hits' = hits /\ admitted' = admitted /\ asked' = asked
          /\ second \in Nat /\ second' = second + 1
      BY <1>1 DEF Second, LimiterInv, LimiterTypeOK
    <2>2. DOMAIN admitted = 1..Len(admitted)  BY LenProperties DEF LimiterInv, LimiterTypeOK
    <2>3. \A i \in DOMAIN admitted : admitted[i].at \in Nat
      BY AdmittedFacts
    <2>4. \A i \in DOMAIN admitted : admitted[i].at <= second + 1
      BY <2>1, <2>3 DEF LimiterInv, LimiterTypeOK
    <2>5. LimiterTypeOK'  BY <2>1, <2>4 DEF LimiterInv, LimiterTypeOK
    <2>6. RecentRemembered'
      <3> SUFFICES ASSUME Limit > 0, NEW i \in DOMAIN admitted', second' - admitted'[i].at < Window
                   PROVE  admitted'[i] \in hits'
        BY DEF RecentRemembered
      <3>1. i \in DOMAIN admitted /\ admitted'[i] = admitted[i] /\ second' = second + 1
        BY <2>1
      <3>2. second - admitted[i].at < Window
        BY <2>1, <2>3, <3>1, LimiterAssumption
      <3> QED  BY <2>1, <3>1, <3>2 DEF LimiterInv, RecentRemembered
    <2> QED  BY <2>1, <2>5, <2>6 DEF LimiterInv, InOrder, RateBound
  <1>2. CASE UNCHANGED limiterVars
    BY <1>2 DEF limiterVars, LimiterInv, LimiterTypeOK, InOrder, RecentRemembered, RateBound
  <1> QED  BY <1>1, <1>2, CheckStep DEF LimiterNext

\* For any limit and window: in no window are more requests let through
\* than the limit, although the limiter forgets at every check what is older
\* than a window then (main._RateLimiter.check).
THEOREM RateAlwaysBound == LimiterSpec => []RateBound
  <1>1. LimiterInv => RateBound  BY DEF LimiterInv
  <1> QED  BY LimiterInitInv, LimiterStepInv, <1>1, PTL DEF LimiterSpec
================================================================================
