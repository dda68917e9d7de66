------------------------------ MODULE Attestation ------------------------------
(***************************************************************************)
(* Human attestations of one tenant: a signed statement is submitted to    *)
(* the store, decided on under the two-person rule, and, once approved,    *)
(* evaluated by every report against the key ring and a date, if the       *)
(* caller of build_report gives one: the API's two ingests do not.         *)
(* The API is the store's only writer and holds its lock across the SELECT *)
(* and the write of an operation, so an operation is one step.             *)
(* A restart may change the approvals a NEW row asks for, and the ring is  *)
(* read from the environment on every use, so keys come and go.            *)
(***************************************************************************)
EXTENDS Integers, FiniteSets

CONSTANTS
  People,     \* principals that may submit
  Approvers,  \* the principals with admin authority
  Specs,      \* MANUAL_ASSERTION_CATALOG
  Keys,       \* key ids of the tenant's ring
  Cadence,    \* cadence_days of every spec
  LastTime,   \* bound on the clock
  MaxRows,    \* bound on the rows
  NoAtt       \* no attestation, no date, or a text that is no date

ASSUME AttestationAssumption ==
  /\ Approvers \subseteq People
  /\ Cadence \in Nat /\ LastTime \in Nat /\ MaxRows \in Nat
  /\ NoAtt \notin Int

VARIABLES
  rows,      \* attestation -> its row, for those submitted
  required,  \* FURIX_ATTEST_REQUIRED_APPROVALS of the running process
  ring,      \* the keys that have a secret now
  today,     \* the date
  outcome    \* spec -> how the last report saw it

attVars == <<rows, required, ring, today, outcome>>

\* A payload; `sound` says that its signature is the one of its key.
Payloads == [spec : Specs, at : 0..LastTime \cup {NoAtt}, key : Keys, sound : BOOLEAN]

NewRow(p) == [status |-> "submitted", by |-> p, approvals |-> {}, required |-> required]

\* verify_attestation: the attestation's date is judged only when one is given.
Verified(a, asOf) ==
  /\ asOf # NoAtt => a.at # NoAtt /\ a.at <= asOf
  /\ a.key \in ring
  /\ a.sound

Submit(a, p, asOf) ==
  /\ Verified(a, asOf)
  /\ a \in DOMAIN rows \/ Cardinality(DOMAIN rows) < MaxRows
  /\ rows' = [b \in DOMAIN rows \cup {a} |-> IF b \in DOMAIN rows THEN rows[b] ELSE NewRow(p)]
  /\ UNCHANGED <<required, ring, today, outcome>>

\* mutants: one's own attestation may be approved; a decided one may be
MayApproveOwn(r, p) == r.status = "submitted" /\ p \notin r.approvals
MayApproveDecided(r, p) == p # r.by /\ p \notin r.approvals

\* What approve asks of the row: undecided, not one's own, not twice.
MayApprove(r, p) == r.status = "submitted" /\ p # r.by /\ p \notin r.approvals

Approve(a, p) ==
  /\ p \in Approvers /\ a \in DOMAIN rows /\ MayApprove(rows[a], p)
  /\ LET given == rows[a].approvals \cup {p} IN
     rows' = [rows EXCEPT ![a].approvals = given,
                          ![a].status = IF Cardinality(given) >= rows[a].required
                                        THEN "approved" ELSE "submitted"]
  /\ UNCHANGED <<required, ring, today, outcome>>

Reject(a, p) ==
  /\ p \in Approvers /\ a \in DOMAIN rows /\ rows[a].status = "submitted"
  /\ rows' = [rows EXCEPT ![a].status = "rejected"]
  /\ UNCHANGED <<required, ring, today, outcome>>

\* approved_attestations, then the newest of each spec, by the text of its date: of
\* two of one date, or without one, the listing or the text decides.
Newer(a, b) == a.at # NoAtt /\ b.at # NoAtt /\ a.at > b.at

Newest(s) ==
  LET approved == {a \in DOMAIN rows : rows[a].status = "approved" /\ a.spec = s}
  IN  {a \in approved : \A b \in approved : ~Newer(b, a)}

\* Without a date _is_stale answers no.
Grade(a, asOf) ==
  CASE a = NoAtt \/ ~Verified(a, asOf)           -> "manual_pending"
    [] asOf # NoAtt /\ asOf - a.at > Cadence     -> "stale"
    [] OTHER                                     -> "pass"

\* evaluate_manual: build_report hands on its config_as_of, which ingest_batch and
\* ingest_config leave out.
Evaluate(asOf) ==
  \E pick \in [Specs -> DOMAIN rows \cup {NoAtt}] :
    /\ \A s \in Specs : pick[s] \in Newest(s) \/ (Newest(s) = {} /\ pick[s] = NoAtt)
    /\ outcome' = [s \in Specs |-> [status |-> Grade(pick[s], asOf), att |-> pick[s],
                                    asOf |-> asOf, on |-> today]]
    /\ UNCHANGED <<rows, required, ring, today>>

RotateKey(k) ==
  /\ ring' = IF k \in ring THEN ring \ {k} ELSE ring \cup {k}
  /\ UNCHANGED <<rows, required, today, outcome>>

\* A restart reads the approvals a new row asks for, and asks for one at
\* least.
AtLeastOne(n) == IF n < 1 THEN 1 ELSE n

Reconfigure(n) ==
  /\ required' = AtLeastOne(n)
  /\ UNCHANGED <<rows, ring, today, outcome>>

DayPasses ==
  /\ today < LastTime
  /\ today' = today + 1
  /\ UNCHANGED <<rows, required, ring, outcome>>

AttInit ==
  /\ rows = <<>>
  /\ required \in 1..2
  /\ ring = Keys
  /\ today = 0
  /\ outcome = [s \in Specs |-> [status |-> "manual_pending", att |-> NoAtt,
                                  asOf |-> NoAtt, on |-> 0]]

AttNext ==
  \/ \E asOf \in {NoAtt, today} :
       Evaluate(asOf) \/ \E a \in Payloads, p \in People : Submit(a, p, asOf)
  \/ \E a \in DOMAIN rows, p \in People : Approve(a, p) \/ Reject(a, p)
  \/ \E k \in Keys : RotateKey(k)
  \/ \E n \in 0..2 : Reconfigure(n)
  \/ DayPasses

AttSpec == AttInit /\ [][AttNext]_attVars

\* Type invariant of the store, the key ring and the last evaluation.
AttTypeOK ==
  /\ DOMAIN rows \subseteq Payloads
  /\ \A a \in DOMAIN rows :
       rows[a] \in [status : {"submitted", "approved", "rejected"}, by : People,
                    approvals : SUBSET People, required : 1..2]
  /\ required \in 1..2 /\ ring \subseteq Keys /\ today \in 0..LastTime
  /\ outcome \in [Specs -> [status : {"manual_pending", "stale", "pass"},
                            att : Payloads \cup {NoAtt},
                            asOf : 0..LastTime \cup {NoAtt}, on : 0..LastTime]]

\* A spec passes in a report only on an attestation that was decided by as many
\* people as its row asked for, none of them its submitter, and carries a sound
\* signature; and where the report was given a date, the attestation's is neither
\* later nor older than the cadence: evaluate_manual over what approve let through.
PassIsBacked ==
  \A s \in Specs : outcome[s].status = "pass" =>
    LET a == outcome[s].att
        r == rows[a]
    IN  /\ a.spec = s /\ a.sound
        /\ r.status = "approved" /\ r.by \notin r.approvals
        /\ Cardinality(r.approvals) >= r.required
        /\ outcome[s].asOf # NoAtt =>
             a.at <= outcome[s].asOf /\ outcome[s].asOf <= a.at + Cadence

\* "if it is older than the cadence it is stale and the control returns to pending"
\* (manual_evidence.py:16-17), "never PASS without a signed, verified, non-future
\* attestation" (:90): as of the day the report is made.
PassIsCurrent ==
  \A s \in Specs : outcome[s].status = "pass" =>
    LET a == outcome[s].att
    IN  a.at # NoAtt /\ a.at <= outcome[s].on /\ outcome[s].on <= a.at + Cadence

\* What was approved or rejected stays as it was decided, and a submission
\* is never replaced: resubmission, late approvals and restarts included.
DecisionFinal ==
  [][\A a \in DOMAIN rows :
       /\ a \in DOMAIN rows'
       /\ rows[a].status # "submitted" => rows'[a] = rows[a]
       /\ rows[a].by = rows'[a].by /\ rows[a].approvals \subseteq rows'[a].approvals]_attVars
================================================================================
