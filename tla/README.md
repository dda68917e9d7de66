# A verification development for the Furix compliance engine

TLA+ models, TLC configurations and TLAPS proofs for `src/engine`: the
continuous-posture queue and worker, the connector registry, the file stores of
reports and evidence, the lifecycle of findings, the administrative records of a
tenant and the gate in front of them, the background machinery that brings data
in, and the evaluation of one log from its text to the policy findings and the
guidance retrieved for it. Paths below are
relative to `src/engine/` unless they begin with `src/`; `CR/` is short for
`compliance_reporting/`.

    tlc -workers 2 -config MCStores.cfg MCStores    # one of the runs
    tlapm ReportPipelineProofs.tla                  # one of the proofs

`PROJECT.json` lists the components, the runs, for each property a mutation of
the model that breaks it, the source lines each definition stands for, the
hazards, and the theorems.

## 1. Inventory

Two kinds of process share one directory of files per tenant: the **API**
(`api/main.py`, FastAPI; synchronous endpoints in a thread pool, plus one
JobManager thread) and the **posture worker** (`api/worker.py`; one service in
`src/deploy/docker-compose.yml:97`). They never call each other. They meet in
SQLite databases and in files.

One fact shapes most of what follows. Every SQLite store guards its methods with
`with self._lock, self._conn`, but the lock belongs to the store *instance*, and
Python's `sqlite3` opens a transaction at the first INSERT or UPDATE only. A
method that SELECTs and then UPDATEs is therefore two steps for anyone with
another instance: another process always, and another request of the API
wherever `api/main.py` and `api/service.py` build a store per call (audit
periods, findings, the admin log, legal holds, control profiles, SCIM users).

| Component | State | Operations | What makes it correct |
|---|---|---|---|
| Work queue `CR/work_queue.py` | table `jobs`: status, attempts, run_after, lease | enqueue, claim, complete, fail, requeue_expired | one holder per job; no job out of reach; DONE only after a run; attempts, backoff respected; every job settles |
| Posture worker `api/worker.py` | the locals of a tick | tick: requeue, enqueue what is due, claim one, run, record, complete or fail | every due window is run |
| Connector registry `CR/connector_registry.py` | cadence, next_run_at, last outcome | register, due, record_run | the next window lies ahead of every window already run |
| Report store `CR/history.py` | report files, batch files, `index.jsonl` | save, load, entries/latest, rebuild_index | no torn file; the index lists what is stored |
| Evidence store `CR/evidence.py` | a raw file and an envelope per object | put, verify_object | write-once; what verifies once verifies always |
| Posture pipeline `api/service.py`, `CR/posture_run.py` | the stages of an ingest | ingest_batch, ingest_config, run_posture | no report without its evidence; a run links what exists |
| Job manager `api/jobs.py`, `api/sqlite_store.py` | bounded job map, queue, one thread, durable copy | submit, get, loop, evict, recover | no active job is evicted; every row settles, by a restart if need be |
| Dead letters `pipeline.py` | three queues in three files | submit, retry_all, clear | a failed log stays in a file until it is recovered or reviewed |
| Findings `CR/exceptions.py` | an event log per finding | open, transition, project | the log is a path of the transition graph; closed means retested |
| Attestations `CR/attestation_store.py`, `CR/attestation.py`, `CR/manual_evidence.py` | status, approvals, key ring | submit, approve, reject, evaluate | a pass rests on a decision of others than its submitter; decided is final |
| Audit periods `CR/audit_period.py`, `api/service.py` | one JSON record each | create, request, fulfil, sign off, reopen, package | no request is frozen unanswered; sign-offs and reopenings alternate |
| Admin audit `CR/admin_audit.py` | a hash chain | append, verify | the chain has no fork and no gap |
| Legal hold `CR/legal_hold.py`, `CR/retention.py` | one JSON file | place, release, is_held | what is held does not expire |
| Control profile, SCIM `CR/control_profile.py`, `CR/scim.py` | one record per key | update, create, replace, deactivate | fresh means recent; who was deactivated stays so |
| Gate of the API `api/auth.py`, `api/jwt_auth.py`, `api/tenancy.py`, `api/main.py` | roles, scopes, a window of times | authorize, check | duties stay apart; the rate is bounded |
| Collectors `CR/collectors.py`, `CR/aws_boto3.py` | cursors, retries | paginate, retry, collect, reconcile | what is called reconciled is complete, if nobody moved |
| Alerts `CR/diff.py`, `CR/delivery.py` | none of their own | diff, alert, deliver | a regression is told |
| Log evaluation `pipeline.py`, `detection_engine.py`, `attack_enrich.py`, `policy_engine.py` | the findings of one log | thirteen phases, most of which may raise and are skipped | a later phase does not undo what an earlier one established |
| Retrieval `retrieval_engine.py` | a graph cache | query, filter, cap, expand, re-rank | guidance does not depend on the threads; NIST and HIPAA keep their slots, mapped controls theirs |
| Crosswalks `phase1_scf_ingest.py`, `ingest_scf_json.py`, `db_connections.py` | tables of furix_det | build, load | a framework is loaded whole or not at all |
| Knowledge base `setup_ingestion.py` | a graph and a table of chunks | rebuild | no twins; no text lost between pieces |
| Report building, OSCAL export, dashboard | none | | not modelled, see section 6 |

**How they interact.** A tick turns due connectors into queue jobs, claims one,
runs the posture pipeline (collector, evidence store, report store, finding
store, run store), records the outcome in the registry and completes or fails the
job. The API runs the same pipeline by hand for the same connectors, ingests log
batches through the job manager, and records decisions of people (findings,
attestations, audit periods, holds), each with an entry in the admin log. Both
save through the report store, and each save is compared with the report that
was latest before. An ingest evaluates each log line by `run_full_pipeline`,
which reads the crosswalks that `db_connections` loaded at import and the
knowledge base that `setup_ingestion` builds.

**What is hard.** Read and write in two steps across processes; records written
to two or three stores one after the other with a crash between; leases that
expire while their holder works; a time captured at the start of a run and used
at its end; temporary file names that two writers share; early returns
("already there") that skip repair. `PROJECT.json` lists these by line.

## 2. Plan

Most important first; each module with its MC module and configurations.

1. `WorkQueue`, `JobLifecycle`, `PostureWorker`: the queue, its promise, the
   worker over it. **Done**, with proofs in `WorkQueueProofs` and
   `PostureWorkerProofs`.
2. `AtomicWrite`, `ReportPipeline`, `Archive`: the file stores under crashes and
   two processes, the pipeline over them, its promise. **Done**, with proofs in
   `ReportPipelineProofs`.
3. `FindingLifecycle`, `EventStore`: event log, graph, concurrent transitions, and
   their promise. **Done**, with proofs in `FindingProofs`.
4. `Attestation`, `AuditPeriod`, `AdminAudit`, `LegalHold`, `ControlWorkspace`,
   `ScimDirectory`, `Access`, `RateLimiter`: the administrative records and the gate.
   **Done**, with proofs in `RecordsProofs`, but for `LegalHold` and
   `ScimDirectory`, where what a document promises is refuted.
5. `JobManager`, `DeadLetters`, `Collector`, `Crosswalk`, `ComplianceGraph`,
   `Alerts`: how data comes in. **Done**, with proofs in `IngestionProofs`.
6. `PolicyRules`, `EventPipeline`, `Retrieval`: the evaluation of one log. **Done**,
   with proofs in `EvaluationProofs`.

`MCStores` composes the queue of item 1 and everything of modules 2 to 4,
`MCIngestion` modules 5 and 6, `MCPostureWorker` the worker over its queue.

Every safety property of the passing runs is proved, but for `ReportIsBacked` and
`RunLinksResolve`, which hold of two processes and not of three (section 5). Proofs
wanted next: action properties that no run checks yet, where a component has one
worth having (what a package or a dead-letter file may never do in a step), and
which of the invariants of modules 4 and 5 survive when two of them meet in one
process.

## 3. The modules

### WorkQueue (one tenant's queue and the passes of its workers)

A job is its row; a job without a row is `"absent"`. `InsertedRow`,
`ClaimedRow`, `CompletedRow`, `FailedRow` and `RequeuedRow` are the SQL
statements as functions of a row, guards of the WHERE clause included. A worker's
pass is a record: `pc` and the locals that survive between two statements (`now`,
the selected job, the attempts `fail` has read).

| Action | Code |
|---|---|
| `StartPass` | main's loop calls tick with `int(time.time())` |
| `RequeueExpired`, `Enqueue` | the one-statement methods |
| `ClaimSelect`, `ClaimUpdate` | the two statements of `claim` |
| `HandlerReturns`, `HandlerRaises` | the handler, two outcomes |
| `Complete`, `CompleteRaises` | `complete`, or an exception out of it |
| `FailSelect`, `FailUpdate` | the two statements of `fail` |
| `Crash` | the pass ends anywhere: process death, or an exception that leaves tick |
| `Tick` | time |

`JobLifecycle` is the promise: absent, waiting, leased, done, dead; DONE only
after an execution; ends are final; at-least-once execution.

### PostureWorker (registry, tick, manual runs)

Extends WorkQueue: each of its actions, with the registry's part added. A job id
is the pair of a connector and the window it was due at (`worker.py` builds the
id from the two). `ScanDue` reads the due list, `EnqueueDue` enqueues one of it,
`PWHandlerReturns` and `PWHandlerRaises` include the `record_run` that follows.
The API side is `Register`, and a manual run in two steps (`ManualStart` takes
the time, `ManualRecord` records under it), which may be lost (`ManualLost`).

### AtomicWrite, ReportPipeline, Archive

`AtomicWrite` is the temp-file write of both stores at the level of file names
and open handles, because `"<path>.tmp"` is shared by the writers of a path:
opening truncates whatever the name refers to, `os.replace` moves whatever it
refers to (or raises), and a writer keeps writing to the file it opened wherever
it has been moved.

`ReportPipeline` is an ingest as a program counter over those writes: for each
piece of evidence the raw file, the envelope and the verification; the latest
report; the report file, the batch, the index line; the comparison; and for a
posture run the load, the findings and the run record. `ingest_batch`,
`ingest_config` and `run_posture` differ in what they retain before and after
they read the latest report (`EarlyOf`). Every exception in the code is a
disjunct that leaves the ingest with what is written staying written, and a
process may die between any two steps. `rebuild_index` is two steps, read and
replace.

`Archive` is the promise: evidence is retained for good, a report is published
over retained evidence only, the index and the runs name published reports.
The refinement maps "retained" to both files having their names and
"published" to the report file having its.

### FindingLifecycle

A finding is its event log, a sequence: `seq` is the position. `Graph` is
`_TRANSITIONS`, `ExceptionOf` and `StateAsOf` are what `project` makes of the
log; an expiry that is not an ISO date is one that never comes. The service builds a
store per call, so a request is two steps: it reads the log, checks the graph and
the payload and numbers its event (`OpenRead`, `TransitionRead`), then inserts it (`InsertEvent`), with INSERT OR IGNORE as
`Inserted`. The pipeline's `open_finding` is one more request. A request may be
lost before its INSERT. Of a payload only the exception is kept: absent (which
leaves the earlier one in place), incomplete, or complete with an expiry, a readable
one or not. The promise is `EventStore`: a log per finding to which an event is added in one step,
if the log allows it (`AllowedEvents`: OPEN first, then an edge of the graph from
the present state with a payload that `_validate` lets pass). `FindingPromise`
maps the histories to `log`, and the requests to nothing.

### The administrative records and the gate

- `Attestation`: `submit`, `approve`, `reject` are one step each, because the API
  keeps one store per tenant and holds its lock across an operation. Time, the
  keys of the ring and the number of approvers that a restart reads are free to
  change. `Evaluate` is `evaluate_manual` over what `approved_attestations`
  returns, with the date `build_report` was given or with none, as the API's two
  ingests leave it; it keeps its verdict with that date and the day.
- `AuditPeriod`: a store per call, so a change is `Read`, then `Write`. A sign-off
  reads twice (`CheckForSignoff`, `ReadForSignoff`), as `sign_off_audit_period`
  does, and freezes with the snapshot of the first. `Download` is the package.
- `AdminAudit`: `ReadLast`, `InsertEntry`; the primary key refuses a number that
  is taken and the handler swallows it (`EntryLost`). A hash is the entry and
  its predecessor, so equal hashes mean equal history. The promise is `EventStore`
  here too, with one history, the rows by their numbers (`TrailPromise`).
- `LegalHold`: the load of the whole file and its save are two steps; `View` is
  `get_evidence`, with the retention it answers. `ScimDirectory`: read, merge, write
  in two steps.
- `ControlWorkspace`: the profile's read, merge and write, and the freshness that
  the workspace derives from cadence, evidence and report, with collection dates
  that have a zone, or cannot be read, or have no zone (at those the comparison
  raises a TypeError, and the workspace answers nothing).
- `Access`: one request at a time (`RequestComes`), since the gate keeps no state: credential (a
  token with or without `exp` and `nbf`), role, scopes, tenant, and a door for each
  of the API's endpoints, with the scope it asks for and the stores it changes. A
  transition is three doors by the name of its action: one that feeds the finding,
  `accept_risk`, which asks for admin besides, and `reaccept`, which does not.
- `RateLimiter`: the requests remembered, each with its number and its time,
  pruned at every check. The code keeps a list of times; it counts them and never
  looks at their order, so a set of numbered requests is the same.

### The machinery that brings data in

- `JobManager`: the request's three steps (`List`, `Create`, `Put`), the thread's
  (`Take`, `WorkEnds`, and the row half of each update, `WriteRow`), the store's
  refusals of a write where the code meets them, `Restart` with `recover_stuck`.
- `DeadLetters`: the three files are saved one after the other (`SaveNext`), a
  retry takes the first queue into memory (`TakeAll`) and files its outcomes one
  by one; `CrashAndLoad` may come between any two files.
- `Collector`: each call of the client is a step that may be throttled and is
  retried up to a limit; accounts open (`Join`, anywhere in the provider's order)
  and close (`Close`) meanwhile, which shifts the pages; a crash leaves the
  checkpoint; a collection without a secret to sign with is refused. Resuming is
  the collector's own promise and its tests'; `collect_snapshot`
  (`api/service.py:61`) passes no checkpoint. The AWS service is what it answers.
- `Crosswalk`: the workbook's build commit by commit, the JSON's as one
  transaction, and a `Load` at any moment, as each process does at its import, with
  the fallback on the JSON file when a query raises.
- `ComplianceGraph`: the three scripts statement by statement, where a failed one
  is skipped; the sliding window over a text as a set of starts; the chunks of a
  section embedded and committed batch by batch (`SplitSection`, `InsertBatch`), so
  that the table may hold the first pieces of a text only.
- `Alerts`: an ingest as build, look-up of the prior report, save, compare and
  deliver, in the two orders of `ingest_batch` and `ingest_config`. A report is
  its content, so content that comes back is a save that changes nothing.

### The evaluation of one log

- `PolicyRules`: POL-001 to POL-015 as predicates over the facts of one log, the
  finding each makes, and `evaluate_policy`'s summary.
- `EventPipeline`: one action per phase, in the order of `run_full_pipeline`, and
  for each phase with a handler the step where it raises and the run goes on
  with what it had. What a text matches is a field of the log.
- `Retrieval`: the three searches end in any order (`Hear`), then the filter, the
  recovery when nothing is left, the cap, the expansion through the graph's
  cache, and the choice of the results. Duplicates are by safeguard, or by control
  and type. Scores are arbitrary; distances are not.
  Which chunks have a text that passes `_is_quality_chunk` is an input (`sound`,
  one of `Corpora`). The loops that filter, deduplicate and sort a list are given
  by the positions they keep and the order they put them in (`Among`, `Distinct`,
  `Ranked`), because that can be reasoned about; `ListsAssumption` in
  `MCEvaluation` compares the three with a pass over the list, the way the code
  does it, for all lists of up to four of three chunks.

## 4. The runs

Three runs pass. Each is over a module that composes several machines (below, "one
part at a time"); the instance is given by machine.

| Run | Instance | Shows |
|---|---|---|
| `posture` | 1 worker, 2 attempts, 1 crash, time 0..3; two connectors of cadence 3 that compete for it, or one of cadence 2 with an API thread whose manual runs are shorter | the refinement of `JobLifecycle`, every job settles, attempts are bounded, retries wait; every due window gets a job, and no connector stays due |
| `stores` | queue: 2 jobs, 2 workers, 1 crash, time 0..2; files: 2 processes, a batch and a posture report that share evidence, 1 crash, rebuilds; each record: 2 requests at once (3 persons, 3 log entries, findings of 4 events); gate: 7 roles, all doors, 6 checks of a limiter | each store's promise under everything that its callers may do at once |
| `ingestion` | 3 jobs in a map of 1; 2 dead letters; 3 accounts that come and go; a sheet of 3 rows; a graph of 2 controls, texts of 12 lengths in batches of 2; 2 ingests of 3 reports; 1 or 2 crashes each; logs of 6 types with every mix of hits, exploit, success, failure, entities and Sigma rules, one phase raising; retrieval of 11 chunks with 3 scores, a cap of 5, a filter that drops one chunk or all | each machine's promise; severities end as they must; guidance is independent of the threads and keeps the slots of the frameworks |

Each run below checks one sentence of the repository, and TLC finds it **violated** by
what the code does; the number is that of the finding.

| Run | Instance | Finding |
|---|---|---|
| `claim_race` | 1 job, 2 workers | 1 |
| `connector_wedge` | manual run as long as the cadence | 2 |
| `lost_index_line` | 1 process, 1 crash | 3 |
| `permanent_acceptance` | 1 finding, 4 events | 4 |
| `lost_signoff` | 2 callers, 1 period | 5 |
| `shared_temp_name` | 3 processes, 1 object, no crash | 6 |
| `lost_hold` | 2 clerks, 2 objects | 7 |
| `lost_deactivation` | 2 requests, 1 user | 8 |
| `letters_lost` | 1 log, 1 crash | 9 |

`posture`: with one worker, which is what is deployed, the attempts of a job exceed
its limit by at most the crashes (`AttemptsBounded`), a failed job waits its backoff
(`RetryHonoursBackoff`), each job goes through the states of the promise
(`FollowsLifecycle`) and ends (`JobSettles`); a scan that finds a connector due
leads to a job of its own (`DueConnectorGetsAJob`), and a due connector is
eventually moved on (`DueConnectorIsServed`).

`stores`, the queue: with two processes, lost leases and faults, no RUNNING row
without a lease (`LeaseIffRunning`), DONE means executed (`DoneMeansExecuted`), DEAD
means exhausted (`DeadMeansExhausted`). The files: intact evidence behind every
report (`ReportIsBacked`), index and runs resolve (`IndexedIsStored`,
`RunLinksResolve`), the refinement of `Archive` (`ImplementsArchive`). The
records: a pass in a report rests on an attestation decided by as many persons as
its row asks for, none its submitter, soundly signed, and in date where the report
was given a date (`PassIsBacked`), and what is decided stays (`DecisionFinal`);
sign-offs and reopenings alternate (`SignoffsAlternate`); fresh means recent where
the date can be read (`FreshIsRecent`); roles keep duties apart at every door
(`DutiesApart`); no window lets more than the limit through (`RateBound`); a closed
finding was retested (`ClosedWasRetested`), and an acceptance lapses at its own
expiry, if that can be read (`AcceptanceLapses`). Findings and the admin log each
implement `EventStore` (`EventsTakeEffectAtOnce`, `RowsAreAppended`): a step adds at
most one event, allowed by the log as it is in that step, and rewrites nothing,
whatever the requests raced on. That a finding's log is a path of its graph
(`LogIsPath`) and that the admin log verifies (`TrailVerifies`) are proved only; a
run would repeat the refinements. The parts `holds` and `directory` have no property
there: what is promised of them is false (findings 7 and 8).

`ingestion`: no active job is evicted (`ActiveStaysListed`), every row settles
(`JobsSettle`); of the dead letters only what a retry had in hand is lost
(`OnlyRetriesAreLost`; that even this should not be is finding 9); a reconciled
snapshot lists every account if none moved, and one begun at the first page has all
keys of what it lists, whoever moved (`SnapshotIsWhole`; what it leaves out is
`LastingAreListed` and `KeysAreWhole` below); a framework's crosswalk is loaded whole
or empty (`LoadIsWhole`); no node has a twin (`NoTwins`); the pieces stored of a text cover it up to the first
that is missing (`PiecesCover`); a control at risk was told of, or was at risk in a
report with nothing before it, or the ingest ended on the way (`RegressionIsTold`).
An exploit that nothing calls benign ends high (`ConfirmedIsHigh`); a benign log
raises no rule that reads the severity (`BenignIsQuiet`); the candidates do not
depend on which thread answers first (`OrderDoesNotMatter`); through the cap and the
choice, NIST and HIPAA keep the slots that what survived the filter can fill, and a
mapped control of one of the foremost CIS candidates is answered unless the CIS
slots are full (`FrameworksServed`; the controls of the others are `CoverageKept`
below).

**Findings.** Each quotes the sentence it contradicts in `PROJECT.json`.

1. `claim` does not look at how many rows its UPDATE changed, so two processes can
   both leave it with one job, against `CR/work_queue.py:13`.
2. `record_run` counts the next window from the start of the run; a manual run as
   long as the cadence (30 minutes of collection on a 30-minute connector, or a
   request that queues behind others) sets it back to a window whose job is DONE,
   enqueue of that id is a no-op, and the connector is never run again, against
   `api/worker.py:10`.
3. A crash between the report file and its index line is not healed by saving
   again, against `CR/history.py:13`; `rebuild_index` heals it, but only tests call
   it.
4. `_validate` knows `accept_risk` and not `reaccept`: a lapsed acceptance can be
   renewed without approver or expiry and then never lapses, against
   `CR/exceptions.py:25`.
5. A request that read an audit period before its sign-off and writes after it puts
   the unsigned record back, against `CR/audit_period.py:13`.
6. The writers of one object share its temporary file and hold no lock. With three, a
   whole file is replaced by one that is still being written, against
   `CR/evidence.py:114` and `CR/history.py:135`.
7. A hold is lost when two requests cross, and what it held reads as expired,
   against `CR/legal_hold.py:11`.
8. A SCIM replace that crosses a deactivation makes the user active again, against
   `CR/scim.py:6`.
9. A crash in a retry loses the logs it has in hand, against `pipeline.py:490`.

**Statements without a run.** The modules state these sentences of the repository
too, and the code makes each of them false. Added as an INVARIANT to the
configuration named, TLC prints the trace.

| Statement | In | Add to | What the code does |
|---|---|---|---|
| `NoHalfWrittenReport` | `ReportPipeline` | `MCStores.cfg` | with two savers of one report, a crash of one leaves the report torn, against `CR/history.py:18` |
| `PassIsCurrent` | `Attestation` | `MCStores.cfg` | the API's ingests build a report without a date, and then the cadence and the future check of an attestation are skipped: it passes whatever its date, against `CR/manual_evidence.py:16` and `:90` |
| `SignedIsAnswered` | `AuditPeriod` | `MCStores.cfg` | a request added between the check and the freeze of a sign-off is frozen unanswered, against `api/service.py:577` |
| `FreshEvidenceIsRecent` | `ControlWorkspace` | `MCStores.cfg` | evidence whose date cannot be read is fresh for ever, against `api/service.py:215` and `:232`. (A date without a zone is worse in another way: its comparison raises a TypeError that nothing catches, and the workspace has no answer for any control.) |
| `AcceptanceIsReserved` | `Access` | `MCStores.cfg` | the transition endpoint asks for admin for `accept_risk` and not for `reaccept`, against `api/main.py:492` |
| `TokensAreDated` | `Access` | `MCStores.cfg` | a token that claims no `exp` or `nbf` is never out of date, against `api/jwt_auth.py:18` |
| `AcceptanceEnds` | `FindingLifecycle` | `MCStores.cfg` | an acceptance whose expiry is no ISO date never lapses, against `CR/exceptions.py:24` |
| `LastingAreListed` | `Collector` | `MCIngestion.cfg` | a collection compares counts and not names: a move behind the cursor hides an account from a snapshot that is called reconciled, against `CR/collectors.py:17` and `:20` |
| `KeysAreWhole` | `Collector` | `MCIngestion.cfg` | a collection resumed at its checkpoint returns the later pages only, against `CR/collectors.py:17`; the callers in `src/` pass no checkpoint |
| `UnpopulatedFallsBack` | `Crosswalk` | `MCIngestion.cfg` | a process that starts while the crosswalk tables are empty keeps empty crosswalks, against `db_connections.py:137` |
| `CoverageKept` | `Retrieval` | `MCIngestion.cfg` | the cap before the reranker counts CIS chunks and not controls: with the code's own limits about five of seven mapped controls get through, against `retrieval_engine.py:950` and `:955`. (The same comment gives the cap as twice `TOP_K_RERANK`; it is that and ten.) |

**Other places where code and words part**, met while modelling and not given a
run of their own:

- Content that comes back is a no-op for `save` and keeps its old date: latest
  stays with the report in between (`CR/history.py:163`).
- `attack_enrich.py:70` raises the severity to that of a Sigma rule so that the
  density gate does not keep it low; but the gate runs after it
  (`pipeline.py:317`) and lowers it again on a log it calls benign.
- `recover_stuck` settles queued rows too, beyond its docstring. A create that the
  store refuses leaves a listed job that nothing runs; an evicted job whose last
  row was refused stays "running" until a restart.
- `_store_for` refuses another tenant without an audit entry, and rejecting an
  attestation, creating a period and creating a user leave none either, although
  `CR/admin_audit.py:4` and `api/auth.py:16` speak of all of them.
- A profile field and an audit entry are lost when two requests cross.
- The limiter counts what it refuses. The nmap entry of `SEVERITY_FLOOR` is never
  applied. A failed graph expansion is cached as an empty one for the life of the
  process (`retrieval_engine.py:159`). A policy evaluation that raises leaves a
  successful run without findings (`pipeline.py:363`).

**Bounds.** `MaxAttempts = 2` has a first attempt, a retry and exhaustion.
`LeaseSeconds = 1` lets a lease expire under a working holder within the clock's
range, which covers an enqueue, a lost lease, a backoff and a last run.
`MaxTime`, `MaxCrashes` (`MaxDeaths` of an ingest) and `FaultUntil` are bounds of the model, not of the
code; `FaultUntil` stops faults so that liveness is a question about recovery. In
the store, two processes are enough for every pair of steps on one file to
interleave, and one crash for every single point of failure; the second report
shares `e1` with the first so that an object half-written by one ingest is met
by the other. A finding's four events are the shortest path to CLOSED, or two
acceptances with a revocation between; findings share
nothing, so one is enough; and with two requests one decides on a log that the
other moves. In the records, two requests at once are what a lost update takes, and
one record is enough where records share nothing; three persons allow a
submitter, an approver and a second one. With no days of retention a hold is all that keeps
an object, and one day is enough for it to expire. In `ingestion`, a map of one job makes
every submission evict; three accounts on pages of one make a cursor that moves, and `MaxMoves` counts
accounts opened and closed and collections begun;
a batch of one row makes every row a commit; text lengths run over every remainder
of the window, and with `ChunkBatch` of 2 a setup may stop between two batches of
the longer ones; two ingests and three builds let one report be late, one come
back and one vanish. In the evaluation, every log type that a table of the code
names by its kind (floored, capped, benign, neither) occurs with every mix of
what its text may show. The eleven chunks have three chunks of one control, two of
another, two about one subcategory, one without a name, and more of each framework
than it has slots; the filter that drops all of them leads to the recovery, whose
answer the cap then cuts. The cap of `TopKRerank` and `RerankSpare` is less than the
chunks of both controls and the slots of the others, as it is in the code (35, 4, 20
and ten spare; 7, 5 and 5 slots), so the cap does take chunks of a mapped control.
Symmetry is used over jobs, workers, processes and requests, in the run without
liveness properties.

**One part at a time.** `MCStores` and `MCIngestion` extend several
modules whose states are disjoint: a behaviour first picks a part (`store`,
`part`) and runs that one alone. The parts keep different files and
processes and read nothing of each other, so an interleaving of two parts shows
nothing that each alone does not; it would only multiply the states.
`MCPostureWorker` does share its state: there a behaviour is one of two situations
(`situation`), a backlog of two connectors or one connector with manual runs. Two
connectors with manual runs of both are not checked; connectors meet in the one
worker only, and a manual run touches its own connector.

**Fairness.** `PWFairness` has weak fairness on time, on each worker's pass and on
the end of a manual run. `main` of the worker is an endless loop that catches
every exception, and compose restarts the process; each step of a pass stays
enabled until it is taken, so weak fairness is what a running process gives.
A manual run is a request whose handler ends. `JobFairness` has weak fairness on
the job manager's one thread and on a request that has listed its job: both are
running code between two statements. Nothing is assumed of crashes, restarts,
errors, refusals, registrations or the start of manual runs.

## 5. The proofs

From the named assumptions on the constants only, for every number of jobs,
workers, processes, reports, crashes, findings, requests, accounts and pages. Each
module that needs an assumption declares it under the name it is cited by, and
every run evaluates those of its modules. Most give a constant its type. These
say more: `EarlyAssumption`, what an ingest retains before it reads the latest
report is all of its evidence for a batch, none for a config, and some of it for
a posture run; `ChunkAssumption`, the shortest piece kept is no
longer than the overlap of two pieces, and that is shorter than a piece (50, 200
and 1400 characters in the code); `SourcesApart`, no two CIS controls share a
safeguard, and controls, safeguards and HIPAA entries are numbered differently; `StagesApart`, no
account is called like the stage that lists them; `SeverityAssumption`, the tables
of the code hold severities. Of retrieval: `NearAssumption`, a query returns a row
once, as SQL does; `CorpusAssumption`, a HIPAA chunk carries the code of its
standard or specification as safeguard (`setup_ingestion.py:405` to 446 stores
none without);
`NameAssumption`, controls and NIST subcategories have names; `NumberAssumption`,
limits are positive; and `SlotsAssumption`, the slots guaranteed to the three
frameworks fit into the results (5, 5 and 7 of 20, `config.py:83`), without which
the promise of slots cannot be kept.

**DataLemmas.** Facts about numbers, sequences and sets that several proofs use.
The least-number principle is derived from the order of finite sets by inclusion:
it speaks of a set and not of an operator, so it is the one way to induction here.
With it, `RankFacts`: in a finite set with a strict total order each element has
a place of its own, the number of those before it, and no place is empty.

**WorkQueueProofs.** `QueueInv` adds to the types what a pass knows about its
job: the job it has exists, and once claimed has been started at least once
(`PassesSound`); and that a job not waiting for its first start has attempts
(`StartedWasClaimed`). The properties alone are not inductive: "DONE means
executed" needs that a pass about to complete has executed its job, which is
`PassesSound`. Lemmas state what each SQL statement does to a row, and `RowStep`
that a step of anyone leaves a row alone, inserts it, starts it or ends it. Then
`NoJobOutOfReach`, `DoneWasExecuted`, `DeadWasExhausted`: all of them with any
number of workers, races included.

Its second part assumes one worker process (`SingleWorker`). `SingleInv` adds that
what the pass has read is what the row says (`PassesExact`), and an account of
attempts: they exceed the limit by at most the crashes paid for
(`AttemptsPaidFor`). From it: the bound on starts, backoff, and the refinement of
`JobLifecycle`. The refinement is false with two workers (two of them can start one
job, run `claim_race`, and a late `complete` reopens a finished one), so the
assumption is needed.

**PostureWorkerProofs.** `PostureIsQueue` maps every step of the worker and the
API to a step of the queue or to none, so what is proved of the queue holds of
it. `PostureInv` carries the types, for which one needs that a connector with a
job, in a due list or under a manual run is registered and stays so
(`JobsRegistered`). `DueConnectorsGetJobs` then assumes one worker and
`ShortRuns`, no manual run as long as a cadence. Its invariant `WindowInv` is
about windows: those with a job lie in the past, by the clock and by the time of
any pass under way (`PastWindows`), so `record_run`, which counts from the time
of a pass, or from that of a manual run that is fresh enough (`ManualFresh`),
moves a connector past all of them (`EndedBehind`); hence what a scan finds due
has not been run (`DueOpen`). Run `connector_wedge` is the counterexample
without `ShortRuns`.

**ReportPipelineProofs.** `PipelineInv` says what an ingest has retained at each
place (`Sound`), that a handle whose file was moved finds it at its path
(`HandleInv`), and that every report on disk has its evidence there
(`StoreInv`). It holds for any number of processes, because it speaks of names
being present and names are never removed (`Grows`). Hence
`IndexNamesStoredReports` and `PipelineImplementsArchive`.

Whether files are *whole* depends on how many write, which nothing in the code
limits, so no theorem speaks of it. TLC finds that three writers of one object leave
it torn (`shared_temp_name`), that two savers of one report do when one dies
(`NoHalfWrittenReport`), and that two processes with one crash keep whole whatever a
report or a run rests on (`ReportIsBacked`, `RunLinksResolve` in
`stores`). Those two properties are about two processes and are false
of three, by the trace of `shared_temp_name`.

**FindingProofs.** That the log is a path is not inductive: it says nothing of the
events that wait for their INSERT. `FindingInv` adds that each of them fits the
place it was numbered for (`RequestsFit`), which stays true while the log grows
(`FitsGrows`), and when the place has been taken the row is ignored
(`InsertedFacts`). It also carries that every event was validated. Hence
`LogAlwaysPath` and `HistoryIsKept`; and, reading the graph backwards
(`GraphFacts`, `HowCome`), `ClosedAlwaysRetested`; and `AcceptanceAlwaysLapses`,
because the exception of the last event is the one `project` takes. It speaks of an
expiry that can be read; of one that cannot, nothing like it holds (`AcceptanceEnds`). The same
invariant gives the refinement, `FindingsAreEventStore`: an event that fits the next
place and was validated is one that the log allows now (`FittingIsAllowed`), so the
INSERT is a step of `EventStore` or, ignored, a stutter (`InsertTakesEffect`), and every
other action is a stutter. No lock and no
isolation is assumed between requests: the primary key alone gives the order.

**RecordsProofs.** Six small machines. Where a store is read and written in two
steps, the invariant has the same form: what a request has in hand is as good as
what is stored, so that a late write may lose another's change but cannot store
anything unsound. Where losing is what a document excludes (a sign-off, a hold, a
deactivation), there is no theorem: a run refutes it.
- Attestations: `AttInv` adds that an approved row has its approvals, none from its
  submitter (`RowsAreDecided`), and that a pass names such a row, in date as of the
  date the report was given, if it was given one (`PassesAreOfRows`); since a decided
  row is never touched again (`DecisionsAreFinal`), the pass stays backed.
- Audit periods: `ApInv` says of the stored record and of each caller's copy that
  sign-offs and reopenings alternate (`CopiesAlternate`).
- Admin audit: `TrailInv` adds that a waiting entry links to the row before its
  number (`DraftsFollow`). If the number is still free, that row is the last; so an
  INSERT appends one row that the log allows, or nothing (`InsertEntryAppends`), and
  the log implements `EventStore` (`TrailIsEventStore`).
- Workspace: a profile in hand has a cadence of a day at least, and what is shown
  fresh is recent by whatever date can be compared.
- Gate: each of the API's doors is checked once against what its scope may change
  (`Guarded`); the rest is the table of roles.
- Limiter: requests let through are in order (`InOrder`), and those within a window
  of now are remembered (`RecentRemembered`), although each check prunes by its
  own clock. Then the (limit+1)-th would count limit others.

**IngestionProofs.**
- Jobs: the list is in order, rows and queue entries belong to jobs filed and put,
  the thread has a job that was put (`JobPlaces`); and an active job is listed, or
  settled, or its settling is under way (`ActiveLookedAfter`). `EvictedFacts` says
  what eviction may remove.
- Dead letters: a file that is not due to be saved holds what its queue holds
  (`FilesFollow`), and each log of a retry is still to be run, recovered, or filed
  for review (`HandAccounted`, `ManualBacked`). A queued log is then both in the
  queues and in the files (`QueuedFound`); the second alone is not inductive,
  since a save replaces a file by its queue.
- Crosswalk: a table is missing, empty or whole, and the CIS step runs only over all
  rows (`CrosswalkInv`).
- Graph: every vertex was made by a step of the script before the current one
  (`FromScript`), and no two steps make the same one (`MadeByOneStep`, from
  `SourcesApart`). `PiecesCoverText`: for a character take the first window too far
  right or too short to be kept; the one before it covers the character. While a
  section's batches go in, its pieces are stored or still to come, and one to come
  covers nothing before its start.
- Collectors: a run that nothing disturbed has listed a stretch of the open accounts
  from its first page on (`Listed`) and counted what is open (`CountedOpen`); so equal
  counts mean a full list. Of each
  finished account it has every page, of the one in hand those before the cursor
  (`FinishedWhole`, `PagesBefore`); and a cursor is kept of the stage in hand only
  (`CursorsAtEnd`), so that no page is skipped after a retry.
- Alerts: `ToldOrTelling` accounts for each control at risk in a stored report:
  told, excused, or an ingest is at its comparison and will tell. It needs that the
  prior report an ingest found is still stored (`PriorsAreKept`) and that a store
  with reports has a latest one (`HasLatest`).

**EvaluationProofs.** Severity is followed through the phases: from the correction
on high for an exploit, the gate apart (`StaysHigh`), and from the gate on low for a
benign log until the policy has run (`StaysLow`).

Retrieval needs first what its list operators do to a list of any length. A list is
given by the positions it keeps and their order, so `RankFacts` says that it has
one element for each position (`ArrangedFacts`), and what `Among`, `Distinct`,
`Ranked` and `First` keep, drop and order follows without induction over the list
(`AmongFacts`, `DistinctFacts`, `RankedFacts`, `FirstFacts`). Only the candidates
of the controls are a recursive function (`OfEachFacts`, by the least control at
which it would fail). `RetrievalInv` then has two parts. `Candidates` says what the
pool is at each stage; the thread that answers the CIS query adds nothing, since the
sweep asked the same before (`WithFacts`), and the other two wait for `Ingest`;
hence `OrderNeverMatters`. `Survivors` says that what is kept has no chunk twice
and, from the cap on, the foremost CIS candidates and enough about different things
for the slots of NIST and HIPAA (`Enough`), both measured by the list before the
cap. The first is what the floor of the cap keeps (`CapKeepsForemost`). The second
needs duplicates removed before the cap: its slots would else be taken by chunks of
one name, and the choice after it, which takes a name once, would come out short
(`CapServes`); the recovery removes none, and there only what the foremost are about
is promised. `ChosenFacts` adds up the choice, and `FrameworksAlwaysServed` follows.
It promises nothing of the controls behind the foremost CIS candidates, and nothing
holds of them (`CoverageKept`).

**Only model-checked.** Liveness (`JobSettles`, `DueConnectorIsServed`,
`JobsSettle`): the prover has no fairness rules. `ReportIsBacked` and
`RunLinksResolve`, above. `LegalHold` and `ScimDirectory`, which have a
counterexample each and no theorem. That the list
operators of `Retrieval` agree with a pass over the list (`ListsAssumption`) is an
induction over the list; TLC compares them. Of the
inductive invariants, those of modules 1 to 3 and of `Retrieval` were checked by TLC before they were
proved, and have no run any more.

## 6. Not modelled, and why

- Which report is the latest, in `ReportPipeline`: the index is a set there, and an
  ingest may meet any of its reports as the prior one. `Alerts` has the order, and
  takes a save for one step.
- The content of a report: `build_report`, `verify_report` and the thresholds of
  config assertions are one deterministic computation each. That `rebuild_index`
  can list a report whose batch is not archived yet, and a config ingest then
  builds on an empty batch, is noted as a hazard.
- Power loss. `_atomic_write` syncs the file, the evidence store does not; the
  models crash processes, not machines. Torn lines of `index.jsonl`.
- In findings: the answer a caller gets, so that a transition which lost its race
  is told apart from one that took effect; the import of an old `findings.jsonl`.
- Several tenants in one tick. One instance of the queue and the registry belongs
  to one tenant; the loop over tenants and its error paths are left out.
- `Worker.run_once`, `ConnectorScheduler`, the batch loop of
  `main` in `pipeline.py` beyond its dead letters: used by tests or by hand.
- What a regular expression, a vector search or a language model answers: an input
  of `EventPipeline` and `Retrieval`. The distances of chunks, which only order
  them, are the order.
- Signatures, sealing, tokens and hashes beyond being sound and injective.
- OSCAL export, rendering, the dashboard, the log generator: layout and I/O.
