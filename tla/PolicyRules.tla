------------------------------ MODULE PolicyRules ------------------------------
(***************************************************************************)
(* The policy rules of policy_engine.py and what evaluate_policy says of   *)
(* the controls.  A rule reads the facts of one log: what it did (flags),  *)
(* the controls it was mapped to, its final severity, whether the density  *)
(* gate called it benign, whether it names a CVE, and whether an address   *)
(* outside the private ranges is in the extracted sources or only in the   *)
(* raw text.                                                               *)
(***************************************************************************)
EXTENDS Naturals

CONSTANTS
  NistOf,    \* control -> NIST subcategories (CIS_TO_NIST_MAPPINGS)
  HipaaOf    \* control -> CFR sections, at most one (_CIS_TO_HIPAA)

Informational == 0
Low == 1
Medium == 2
High == 3
Critical == 4
Severities == Informational .. Critical

Activity == {"created", "escalated", "failed", "succeeded", "lateral"}

Pol001(f) == "created" \in f.flags
Pol002(f) == "escalated" \in f.flags /\ ~f.benign
Pol003(f) == {"failed", "succeeded"} \subseteq f.flags
Pol004(f) == "failed" \in f.flags /\ "succeeded" \notin f.flags
Pol005(f) == f.cves
Pol006(f) == "C10" \in f.controls /\ f.severity >= High
Pol007(f) == "C17" \in f.controls /\ f.severity >= High
Pol008(f) == f.severity >= High /\ f.external
\* The raw text is searched only when no extracted address is external.
Pol009(f) == "escalated" \in f.flags /\ ~f.benign /\ (f.external \/ f.rawExternal)
Pol010(f) == "C3" \in f.controls /\ f.severity >= Medium
Pol011(f) == "C7" \in f.controls /\ f.cves
Pol012(f) == "C4" \in f.controls /\ f.severity >= Medium
Pol013(f) == "C8" \in f.controls /\ f.severity >= Medium
Pol014(f) == "lateral" \in f.flags
Pol015(f) == {"C6", "C15"} \subseteq f.controls /\ f.severity >= High /\ ~f.benign

\* Each rule with the controls its finding names and the severity it carries.
Finding(rule, controls, severity) == [rule |-> rule, controls |-> controls, severity |-> severity]

RuleBook(f) ==
  {r \in {[holds |-> Pol001(f), finding |-> Finding("POL-001", {"C5"}, High)],
          [holds |-> Pol002(f), finding |-> Finding("POL-002", {"C6"}, High)],
          [holds |-> Pol003(f), finding |-> Finding("POL-003", {"C6"}, Critical)],
          [holds |-> Pol004(f), finding |-> Finding("POL-004", {"C6"}, Medium)],
          [holds |-> Pol005(f), finding |-> Finding("POL-005", {"C7"}, High)],
          [holds |-> Pol006(f), finding |-> Finding("POL-006", {"C10"}, Critical)],
          [holds |-> Pol007(f), finding |-> Finding("POL-007", {"C17"}, Critical)],
          [holds |-> Pol008(f), finding |-> Finding("POL-008", {"C12"}, High)],
          [holds |-> Pol009(f), finding |-> Finding("POL-009", {"C6", "C12"}, Critical)],
          [holds |-> Pol010(f), finding |-> Finding("POL-010", {"C3"}, High)],
          [holds |-> Pol011(f), finding |-> Finding("POL-011", {"C7"}, High)],
          [holds |-> Pol012(f), finding |-> Finding("POL-012", {"C4"}, Medium)],
          [holds |-> Pol013(f), finding |-> Finding("POL-013", {"C8"}, Medium)],
          [holds |-> Pol014(f), finding |-> Finding("POL-014", {"C13"}, High)],
          [holds |-> Pol015(f), finding |-> Finding("POL-015", {"C6", "C15"}, High)]} : r.holds}

Findings(f) == {r.finding : r \in RuleBook(f)}

\* The rules that read the severity, which the correction phases settle first.
SeverityRules == {"POL-006", "POL-007", "POL-008", "POL-010", "POL-012", "POL-013", "POL-015"}

NamedBy(found) == UNION {x.controls : x \in found}

\* What evaluate_policy says of the controls beside its findings.
Summary(mapped, found) ==
  [violated |-> NamedBy(found) \cap mapped,
   ruleOnly |-> NamedBy(found) \ mapped,
   clean |-> mapped \ NamedBy(found)]

\* The sections a finding cites: _make_finding looks the one control up, and
\* the two composite rules name theirs.
HipaaCited(x) == IF x.rule \in {"POL-009", "POL-015"} THEN {"164.308"} ELSE UNION {HipaaOf[c] : c \in x.controls}

NistCited(x) == UNION {NistOf[c] : c \in x.controls}
================================================================================
