---------------------------- MODULE MCReportPipeline ---------------------------
(***************************************************************************)
(* Instances of ReportPipeline for TLC: a log batch and a posture run that *)
(* share a piece of evidence.                                              *)
(***************************************************************************)
EXTENDS ReportPipeline, TLC

CONSTANTS e1, e2, r1, r2

MCFiles ==
  {Raw(e) : e \in Evidence} \cup {Env(e) : e \in Evidence}
    \cup {Rep(r) : r \in Reports} \cup {Batch(r) : r \in Reports}

MCNoFile == <<"none", NoReport>>

MCEvidenceOf == [r \in Reports |-> IF r = r1 THEN {e1} ELSE {e1, e2}]

MCEarlyOf == [r \in Reports |-> IF r = r1 THEN {e1} ELSE {e2}]

MCKindOf == [r \in Reports |-> IF r = r1 THEN "batch" ELSE "posture"]

Symmetry == Permutations(Procs)
================================================================================
