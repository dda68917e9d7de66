----------------------------- MODULE ReportPipeline ----------------------------
(***************************************************************************)
(* How a report comes into being (api/service.py ingest_batch,             *)
(* ingest_config, run_posture): retain every piece of evidence, read the   *)
(* latest report, save the new one, compare the two, and for a posture run *)
(* load it back, open its findings and record the run.  The stores are     *)
(* files (evidence.py, history.py), written as AtomicWrite says, and two   *)
(* small databases whose writes are one step each.                         *)
(*                                                                         *)
(* A report is named by its content and its evidence by theirs, so what a  *)
(* report is made of is a constant: the same request, sent again or sent   *)
(* to two processes, goes for the same files.  Which report of the index   *)
(* is the latest depends on generated_at, which is not kept: any may be.   *)
(***************************************************************************)
EXTENDS AtomicWrite, Integers

CONSTANTS
  Reports,      \* report ids
  Evidence,     \* evidence addresses
  EvidenceOf,   \* report -> the evidence its ingest retains
  EarlyOf,      \* report -> the part of it retained before the latest is read
  KindOf,       \* report -> "batch", "config" or "posture"
  NoReport,
  NoEvidence,
  MaxDeaths     \* bound: deaths of a process in one behaviour

Raw(e) == <<"raw", e>>       \* objects/<sha>.raw
Env(e) == <<"env", e>>       \* objects/<sha>.json
Rep(r) == <<"rep", r>>       \* reports/<id>.json
Batch(r) == <<"batch", r>>   \* batches/<id>.json

ASSUME PipelineAssumption ==
  /\ Files = {Raw(e) : e \in Evidence} \cup {Env(e) : e \in Evidence}
               \cup {Rep(r) : r \in Reports} \cup {Batch(r) : r \in Reports}
  /\ NoReport \notin Reports
  /\ NoEvidence \notin Evidence
  /\ EvidenceOf \in [Reports -> SUBSET Evidence]
  /\ KindOf \in [Reports -> {"batch", "config", "posture"}]
  /\ MaxDeaths \in Nat

\* ingest_batch reads the latest report after it has retained every line,
\* ingest_config before it retains the resources, and run_posture, which calls
\* it, has retained the snapshot (a piece of evidence) by then.
ASSUME EarlyAssumption ==
  \A r \in Reports :
    /\ EarlyOf[r] \subseteq EvidenceOf[r]
    /\ KindOf[r] = "batch" => EarlyOf[r] = EvidenceOf[r]
    /\ KindOf[r] = "config" => EarlyOf[r] = {}

VARIABLES
  index,        \* the report ids with a line in index.jsonl
  findings,     \* the reports whose findings are in the finding store
  runs,         \* the reports linked by a row of posture_runs
  ing,          \* process -> the ingest it is in, and its locals
  rebuilt,      \* process -> the reports its rebuild_index has read so far
  saved,        \* history: the reports a save has returned for
  deaths

pvars == <<index, findings, runs, rebuilt, saved, deaths>>
vars == <<filesVars, index, findings, runs, ing, rebuilt, saved, deaths>>

--------------------------------------------------------------------------------
\* An ingest, and where it stands

IngestPlaces == {"idle",
        "keep",      \* between two pieces of evidence
        "raw",       \* put: the bytes of a piece
        "env",       \* put: its envelope
        "verify",    \* verify_object
        "report",    \* save: the report file ...
        "batch",     \* ... the raw batch ...
        "index",     \* ... and the index line
        "diff",      \* compare with the prior report
        "load",      \* run_posture: load the report back
        "findings",  \* open its findings
        "run"}       \* record the run

\* read: the latest report has been read; left: evidence still to be retained
\* before the next thing; piece: the one under way; prior: the latest report.
Ingest == [report: Reports \cup {NoReport}, pc: IngestPlaces, read: BOOLEAN,
           left: SUBSET Evidence, piece: Evidence \cup {NoEvidence},
           prior: Reports \cup {NoReport}]

NoIngest == [report |-> NoReport, pc |-> "idle", read |-> FALSE, left |-> {},
             piece |-> NoEvidence, prior |-> NoReport]

NotRebuilding == [on |-> FALSE, read |-> {}]

ReportsInit ==
  /\ FilesInit
  /\ index = {} /\ findings = {} /\ runs = {} /\ saved = {}
  /\ ing = [p \in Procs |-> NoIngest]
  /\ rebuilt = [p \in Procs |-> NotRebuilding]
  /\ deaths = 0

AtRest(p) == ing[p].pc = "idle" /\ ~rebuilt[p].on

At(p, pc) == ing[p].pc = pc /\ handle[p].step = "closed"

Goto(p, pc) == ing' = [ing EXCEPT ![p].pc = pc]

\* An exception leaves the ingest (or the ingest returns); what is written stays.
Leave(p) == ing' = [ing EXCEPT ![p] = NoIngest]

\* Where a written or existing file takes the ingest
After(pc) ==
  CASE pc = "raw"    -> "env"
    [] pc = "env"    -> "verify"
    [] pc = "report" -> "batch"
    [] pc = "batch"  -> "index"

--------------------------------------------------------------------------------
\* Evidence

Begin(p, r) ==
  /\ AtRest(p)
  /\ ing' = [ing EXCEPT ![p] = [NoIngest EXCEPT !.report = r, !.pc = "keep",
                                                !.left = EarlyOf[r]]]
  /\ UNCHANGED <<filesVars, pvars>>

NextPiece(p, e) ==
  /\ At(p, "keep")
  /\ e \in ing[p].left
  /\ ing' = [ing EXCEPT ![p] = [@ EXCEPT !.pc = "raw", !.piece = e]]
  /\ UNCHANGED <<filesVars, pvars>>

FileOf(p) == IF ing[p].pc = "raw" THEN Raw(ing[p].piece) ELSE Env(ing[p].piece)

\* if not path.exists(): write it
Keep(p) ==
  /\ At(p, "raw") \/ At(p, "env")
  /\ IF final[FileOf(p)] # "none"
     THEN Goto(p, After(ing[p].pc)) /\ UNCHANGED filesVars
     ELSE Intend(p, FileOf(p)) /\ UNCHANGED ing
  /\ UNCHANGED pvars

\* Steps of a write under way; the ingest goes on when the file has its name.
OpenFile(p) == Open(p) /\ UNCHANGED <<ing, pvars>>
WriteFile(p) == Write(p) /\ UNCHANGED <<ing, pvars>>
PlaceFile(p) == Replace(p) /\ Goto(p, After(ing[p].pc)) /\ UNCHANGED pvars
LoseFile(p) == ReplaceRaises(p) /\ Leave(p) /\ UNCHANGED pvars

\* The next piece, once the one under way is retained
Kept(p) ==
  LET left == ing[p].left \ {ing[p].piece} IN
  ing' = [ing EXCEPT ![p] = [@ EXCEPT !.pc = "keep", !.piece = NoEvidence, !.left = left]]

\* mutant: the object is taken for retained because its file exists
VerifyTrusting(p) ==
  /\ At(p, "verify")
  /\ Kept(p)
  /\ UNCHANGED <<filesVars, pvars>>

\* verify_object reads both files back and hashes the bytes.
Verify(p) ==
  /\ At(p, "verify")
  /\ LET e == ing[p].piece IN
     IF final[Raw(e)] = "whole" /\ final[Env(e)] = "whole" THEN Kept(p) ELSE Leave(p)
  /\ UNCHANGED <<filesVars, pvars>>

--------------------------------------------------------------------------------
\* The report

\* mutant: the config path goes on without retaining the resources
ReadPriorOnly(p) ==
  /\ At(p, "keep") /\ ing[p].left = {} /\ ~ing[p].read
  /\ \E r \in index \cup {NoReport} :
       ing' = [ing EXCEPT ![p] = [@ EXCEPT !.read = TRUE, !.prior = r]]
  /\ UNCHANGED <<filesVars, pvars>>

\* store.latest(1); ingest_config also loads that report's archived batch.
ReadPrior(p) ==
  LET r == ing[p].report
      Later == [ing[p] EXCEPT !.read = TRUE, !.left = EvidenceOf[r] \ EarlyOf[r]]
  IN
  /\ At(p, "keep") /\ ing[p].left = {} /\ ~ing[p].read
  /\ \/ index = {} /\ ing' = [ing EXCEPT ![p] = Later]
     \/ \E q \in index :
          IF KindOf[r] # "batch" /\ final[Batch(q)] = "empty"
          THEN Leave(p)
          ELSE ing' = [ing EXCEPT ![p] = [Later EXCEPT !.prior = q]]
  /\ UNCHANGED <<filesVars, pvars>>

\* Everything is retained; build_report and verify_report (not modelled) agree.
Build(p) ==
  /\ At(p, "keep") /\ ing[p].left = {} /\ ing[p].read
  /\ Goto(p, "report")
  /\ UNCHANGED <<filesVars, pvars>>

\* mutant: save appends the index line before it writes the files
SaveReportIndexFirst(p) ==
  LET r == ing[p].report IN
  /\ At(p, "report")
  /\ final[Rep(r)] = "none"
  /\ index' = index \cup {r}
  /\ Intend(p, Rep(r))
  /\ UNCHANGED <<ing, findings, runs, rebuilt, saved, deaths>>

\* save: a report that is not there is written ...
SaveReport(p) ==
  /\ At(p, "report")
  /\ final[Rep(ing[p].report)] = "none"
  /\ Intend(p, Rep(ing[p].report))
  /\ UNCHANGED <<ing, pvars>>

\* ... one that is there makes save return, or raise if it cannot be parsed.
SaveAgain(p) ==
  LET r == ing[p].report IN
  /\ At(p, "report")
  /\ \/ /\ final[Rep(r)] = "whole"
        /\ saved' = saved \cup {r}
        /\ Goto(p, "diff")
     \/ /\ final[Rep(r)] = "empty"
        /\ Leave(p)
        /\ UNCHANGED saved
  /\ UNCHANGED <<filesVars, index, findings, runs, rebuilt, deaths>>

SaveBatch(p) ==
  /\ At(p, "batch")
  /\ Intend(p, Batch(ing[p].report))
  /\ UNCHANGED <<ing, pvars>>

AppendIndex(p) ==
  /\ At(p, "index")
  /\ index' = index \cup {ing[p].report}
  /\ saved' = saved \cup {ing[p].report}
  /\ Goto(p, "diff")
  /\ UNCHANGED <<filesVars, findings, runs, rebuilt, deaths>>

\* diff_reports(store.load(prior_id), report): load refuses a torn report.  Then
\* the two ingest functions return; run_posture goes on.
Diff(p) ==
  LET r == ing[p].report
      prior == ing[p].prior
  IN
  /\ At(p, "diff")
  /\ IF prior \notin {NoReport, r} /\ final[Rep(prior)] # "whole" THEN Leave(p)
     ELSE IF KindOf[r] = "posture" THEN Goto(p, "load") ELSE Leave(p)
  /\ UNCHANGED <<filesVars, pvars>>

--------------------------------------------------------------------------------
\* The rest of run_posture

\* store.load(report_id)
LoadReport(p) ==
  /\ At(p, "load")
  /\ IF final[Rep(ing[p].report)] = "whole" THEN Goto(p, "findings") ELSE Leave(p)
  /\ UNCHANGED <<filesVars, pvars>>

\* mutant: an exception out of the finding store is swallowed
OpenFindingsSwallowing(p) ==
  /\ At(p, "findings")
  /\ findings' \in {findings, findings \cup {ing[p].report}}
  /\ Goto(p, "run")
  /\ UNCHANGED <<filesVars, index, runs, rebuilt, saved, deaths>>

OpenFindings(p) ==
  /\ At(p, "findings")
  /\ findings' = findings \cup {ing[p].report}
  /\ Goto(p, "run")
  /\ UNCHANGED <<filesVars, index, runs, rebuilt, saved, deaths>>

SaveRun(p) ==
  /\ At(p, "run")
  /\ runs' = runs \cup {ing[p].report}
  /\ Leave(p)
  /\ UNCHANGED <<filesVars, index, findings, rebuilt, saved, deaths>>

--------------------------------------------------------------------------------
\* rebuild_index, and the end of a process

\* It reads every report file (a torn one raises, nothing is written) ...
RebuildRead(p) ==
  /\ AtRest(p)
  /\ \A r \in Reports : final[Rep(r)] # "empty"
  /\ rebuilt' = [rebuilt EXCEPT ![p] =
                   [on |-> TRUE, read |-> {r \in Reports : final[Rep(r)] = "whole"}]]
  /\ UNCHANGED <<filesVars, index, findings, runs, ing, saved, deaths>>

\* ... and replaces the index by what it read.
RebuildWrite(p) ==
  /\ rebuilt[p].on
  /\ index' = rebuilt[p].read
  /\ rebuilt' = [rebuilt EXCEPT ![p] = NotRebuilding]
  /\ UNCHANGED <<filesVars, findings, runs, ing, saved, deaths>>

IngestDies(p) ==
  /\ ~AtRest(p)
  /\ deaths < MaxDeaths
  /\ deaths' = deaths + 1
  /\ Drop(p)
  /\ Leave(p)
  /\ rebuilt' = [rebuilt EXCEPT ![p] = NotRebuilding]
  /\ UNCHANGED <<index, findings, runs, saved>>

\* What an ingest does between its beginning and its end
IngestStep(p) ==
  \/ \E e \in Evidence : NextPiece(p, e)
  \/ Keep(p)
  \/ OpenFile(p)
  \/ WriteFile(p)
  \/ PlaceFile(p)
  \/ LoseFile(p)
  \/ Verify(p)
  \/ ReadPrior(p)
  \/ Build(p)
  \/ SaveReport(p)
  \/ SaveAgain(p)
  \/ SaveBatch(p)
  \/ AppendIndex(p)
  \/ Diff(p)
  \/ LoadReport(p)
  \/ OpenFindings(p)
  \/ SaveRun(p)

ReportsNext ==
  \E p \in Procs :
    \/ \E r \in Reports : Begin(p, r)
    \/ IngestStep(p)
    \/ RebuildRead(p)
    \/ RebuildWrite(p)
    \/ IngestDies(p)

ReportsSpec == ReportsInit /\ [][ReportsNext]_vars

--------------------------------------------------------------------------------
\* Properties

\* Type invariant: an ingest writes the file its place in the pipeline says.
Writing(p) ==
  CASE ing[p].pc = "raw"    -> {Raw(ing[p].piece)}
    [] ing[p].pc = "env"    -> {Env(ing[p].piece)}
    [] ing[p].pc = "report" -> {Rep(ing[p].report)}
    [] ing[p].pc = "batch"  -> {Batch(ing[p].report)}
    [] OTHER -> {}

PipelineTypeOK ==
  /\ FilesTypeOK
  /\ index \subseteq Reports /\ findings \subseteq Reports
  /\ runs \subseteq Reports /\ saved \subseteq Reports
  /\ ing \in [Procs -> Ingest]
  /\ rebuilt \in [Procs -> [on: BOOLEAN, read: SUBSET Reports]]
  /\ \A p \in Procs :
       /\ ing[p].report = NoReport <=> ing[p].pc = "idle"
       /\ ing[p].pc \in {"raw", "env", "verify"} => ing[p].piece \in ing[p].left
       /\ handle[p].step # "closed" => handle[p].file \in Writing(p)
  /\ deaths \in 0..MaxDeaths

\* "A report must never present evidence that was not durably retained"
\* (service.py:790-792): whoever finds a report on disk finds every piece of its
\* evidence and each envelope intact, whatever process wrote them, and whichever
\* died or gave up on the way.
ReportIsBacked ==
  \A r \in Reports :
    final[Rep(r)] # "none" =>
      \A e \in EvidenceOf[r] : final[Raw(e)] = "whole" /\ final[Env(e)] = "whole"

\* A report listed in the index is on disk, also when a rebuild_index replaces the
\* index by a list that other processes' saves have overtaken.
IndexedIsStored == \A r \in index : final[Rep(r)] # "none"

\* A posture run links a report that loads, with its findings and evidence.
RunLinksResolve ==
  \A r \in runs : final[Rep(r)] = "whole" /\ r \in findings

\* "the exact bytes, write-once" (evidence.py:25), in a store that is "Safe to share
\* across processes" (history.py:135): whoever saves the same content meanwhile, a
\* file that a reader finds whole is never taken away or torn.
WriteOnce ==
  [][\A f \in Files : final[f] = "whole" => final'[f] = "whole"]_vars

\* "A crash mid-save never leaves a half-written report" (history.py:18-19): when
\* nobody is writing, no report file is torn.
NoHalfWrittenReport ==
  (\A p \in Procs : handle[p].step = "closed") =>
    \A r \in Reports : final[Rep(r)] # "empty"

\* "one line per stored report" (history.py:13-14): when nobody is at work, a report
\* that is stored, and that a save has returned for, is in the index.
SavedIsIndexed ==
  (\A p \in Procs : AtRest(p)) => saved \subseteq index

\* The pipeline implements Archive: evidence is retained for good, a report is
\* published once its evidence is, and the index and the runs name published
\* reports.  A file counts from the moment it has its name.
Retained == {e \in Evidence : final[Raw(e)] # "none" /\ final[Env(e)] # "none"}
Stored == {r \in Reports : final[Rep(r)] # "none"}

Promise == INSTANCE Archive WITH
  retained <- Retained, published <- Stored, listed <- index, linked <- runs

ImplementsArchive == Promise!Spec
================================================================================
