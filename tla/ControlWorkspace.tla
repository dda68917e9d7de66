--------------------------- MODULE ControlWorkspace ----------------------------
(***************************************************************************)
(* The workspace of one control: a governance profile that is patched      *)
(* field by field, and the freshness the workspace shows, which comes from *)
(* the profile's cadence, the evidence behind the control's assertions in  *)
(* the latest report, and, without any, from the date of that report.  A   *)
(* patch is validated, then merged into what a SELECT read, then written   *)
(* whole; other patches run in between.                                    *)
(*                                                                         *)
(* All dated assertions of a report carry the collection date of the one   *)
(* snapshot it was built from, as the client wrote it.  Their stale flags  *)
(* are off: the reports of the API are graded as of that same date.        *)
(***************************************************************************)
EXTENDS Integers

CONSTANTS
  Editors,     \* patches in flight at once
  Owners,      \* values of the owner field, "" for nobody among them
  Cadences,    \* values offered for test_cadence_days, good and bad
  LastDay,     \* bound on the clock
  NoValue      \* no row, no patch, no report

ASSUME WorkspaceAssumption == "" \in Owners /\ Cadences \subseteq Int /\ LastDay \in Nat

VARIABLES
  profile,   \* the row of the control
  patching,  \* editor -> the row it is about to write
  latest,    \* the latest report: its day, and the day the evidence for the
             \* control was collected and how that is written
  thisDay      \* the day

workspaceVars == <<profile, patching, latest, thisDay>>

Defaults == [owner |-> "", applicability |-> "applicable", cadence |-> 90]

Applicabilities == {"applicable", "not_applicable", "inherited"}

\* get: the defaults, overlaid by the row.
Profile == IF profile = NoValue THEN Defaults ELSE profile

\* A patch names some fields; "retired" stands for a value no enum allows.
Patches == [owner : Owners \cup {NoValue}, cadence : Cadences \cup {NoValue},
            applicability : Applicabilities \cup {"retired", NoValue}]

\* update's validation: one bad field refuses the whole patch.
Acceptable(p) ==
  /\ p.applicability \in Applicabilities \cup {NoValue}
  /\ p.cadence # NoValue => p.cadence >= 1

Merged(base, p) == [k \in DOMAIN base |-> IF p[k] = NoValue THEN base[k] ELSE p[k]]

PatchRead(e, p) ==
  /\ patching[e] = NoValue
  /\ Acceptable(p)
  /\ patching' = [patching EXCEPT ![e] = Merged(Profile, p)]
  /\ UNCHANGED <<profile, latest, thisDay>>

PatchWrite(e) ==
  /\ patching[e] # NoValue
  /\ profile' = patching[e]
  /\ patching' = [patching EXCEPT ![e] = NoValue]
  /\ UNCHANGED <<latest, thisDay>>

\* How a collection date is written: none (no assertion that carries one), with
\* its zone, without, or in a form fromisoformat refuses.
Forms == {"none", "zoned", "zoneless", "unreadable"}

Older(day, cadence) == thisDay - day > cadence

\* mutant: the report's own date vouches for the evidence in it
OfReport == latest.day

\* The day a control is judged by: its evidence's, or the report's without any.
Observed == IF latest.form = "none" THEN latest.day ELSE latest.collected

\* _evidence_freshness_for, and list_control_workspace's fall back on the date
\* of the report.  A date that cannot be read is passed over, and one without a
\* zone makes the subtraction raise.
Freshness ==
  IF latest = NoValue THEN "unknown"
  ELSE CASE latest.form = "zoneless"   -> "error"
         [] latest.form = "unreadable" -> "fresh"
         [] OTHER -> IF Older(Observed, Profile.cadence) THEN "stale" ELSE "fresh"

Report(collected, form) ==
  /\ latest' = [day |-> thisDay, collected |-> collected, form |-> form]
  /\ UNCHANGED <<profile, patching, thisDay>>

ClockMoves ==
  /\ thisDay < LastDay
  /\ thisDay' = thisDay + 1
  /\ UNCHANGED <<profile, patching, latest>>

WorkspaceInit ==
  /\ profile = NoValue
  /\ patching = [e \in Editors |-> NoValue]
  /\ latest = NoValue /\ thisDay = 0

WorkspaceNext ==
  \/ \E e \in Editors, p \in Patches : PatchRead(e, p)
  \/ \E e \in Editors : PatchWrite(e)
  \/ \E collected \in 0..LastDay, form \in Forms : Report(collected, form)
  \/ ClockMoves

WorkspaceSpec == WorkspaceInit /\ [][WorkspaceNext]_workspaceVars

\* A control is shown fresh only if what vouches for it is recent by the cadence
\* of its profile: the evidence, where its date can be read, or the report when
\* no evidence is dated.  The cadence, whatever patches met in the row, is never
\* below a day.
FreshIsRecent ==
  /\ Profile.cadence >= 1
  /\ Freshness = "fresh" =>
       /\ latest.form = "zoned" => thisDay - latest.collected <= Profile.cadence
       /\ latest.form = "none" => thisDay - latest.day <= Profile.cadence

\* "Per-control freshness derived from the ACTUAL evidence backing it"
\* (service.py:215-216), and "also enforce the control's own cadence against the
\* oldest evidence" (:232): what is shown fresh was collected within the cadence,
\* in whatever form its date is written.
FreshEvidenceIsRecent ==
  Freshness = "fresh" /\ latest.form # "none" =>
    thisDay - latest.collected <= Profile.cadence
================================================================================
