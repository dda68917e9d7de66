----------------------------- MODULE PostureWorker -----------------------------
(***************************************************************************)
(* Continuous posture runs for one tenant: the connector registry          *)
(* (compliance_reporting/connector_registry.py), the posture worker that   *)
(* turns due connectors into queue jobs and runs them (api/worker.py), and *)
(* the API's manual runs of the same connectors (api/main.py).             *)
(*                                                                         *)
(* The worker's pass is WorkQueue's, with the registry's part added to     *)
(* each step.  A job id is the pair of a connector and the due window      *)
(* (next_run_at) it was enqueued for.  The posture pipeline itself is one  *)
(* step with two outcomes; the registry's record_run that follows it is in *)
(* the same step, since the only state between the two that this module    *)
(* keeps is the record.  record_run reads schedule_seconds and then writes *)
(* next_run_at; the cadence is taken to be the one at the write.           *)
(***************************************************************************)
EXTENDS WorkQueue

CONSTANTS
  Connectors,   \* connector ids that may be registered
  Schedules,    \* the cadences (schedule_seconds) they may be given
  Threads,      \* API request threads that run connectors by hand
  MaxRun        \* bound: how long a manual run may take, start to record

ASSUME PostureAssumption ==
  /\ JobIds = Connectors \X (0..MaxTime)
  /\ Schedules \subseteq Nat \ {0}
  /\ MaxRun \in Nat

VARIABLES
  reg,          \* connector -> row of the table "connectors"
  due,          \* worker -> jobs its scan found due and has not enqueued yet
  scanned,      \* the workers whose pass has read the due list
  manual        \* API thread -> the manual run it is in, if any

pvars == <<reg, due, scanned, manual>>
vars == <<jobs, clock, wrk, crashes, executed, reg, due, scanned, manual>>

--------------------------------------------------------------------------------
\* The registry's rows

ConnectorRow == [schedule: Schedules, next: Nat, last: Nat \cup {-1},
                 status: {"none", "ok", "error"}]

\* No row: the connector was never registered
Unregistered == [schedule |-> 0, next |-> 0, last |-> -1, status |-> "none"]

Registered(c) == reg[c].schedule # 0

ConnectorOf(j) == j[1]

\* mutant: an update resets the schedule, as if the connector were new
UpsertedRowResets(row, s, now) ==
  [schedule |-> s, next |-> now, last |-> row.last, status |-> row.status]

\* register: the first run is due at once; an update keeps next_run_at
UpsertedRow(row, s, now) ==
  IF row.schedule = 0
  THEN [Unregistered EXCEPT !.schedule = s, !.next = now]
  ELSE [row EXCEPT !.schedule = s]

\* mutant: the next window is counted from the old one only on success
RecordedRowOnSuccess(row, now, outcome) ==
  [row EXCEPT !.last = now, !.status = outcome,
              !.next = IF outcome = "ok" THEN now + row.schedule ELSE row.next]

\* record_run: "next_run_at = now + cadence" for the now the run STARTED with
RecordedRow(row, now, outcome) ==
  [row EXCEPT !.last = now, !.status = outcome, !.next = now + row.schedule]

RecordRun(c, now, outcome) ==
  reg' = [reg EXCEPT ![c] = RecordedRow(reg[c], now, outcome)]

\* due(tenant, now): enabled is always 1, no caller of register passes it
DueJobs(now) ==
  {<<c, reg[c].next>> : c \in {d \in Connectors : Registered(d) /\ reg[d].next <= now}}

NoRun == [active |-> FALSE, connector |-> NoJob, now |-> 0]

ManualRun == [active: BOOLEAN, connector: Connectors \cup {NoJob}, now: Nat]

--------------------------------------------------------------------------------
\* The worker's pass (tick)

PWInit ==
  /\ Init
  /\ reg = [c \in Connectors |-> Unregistered]
  /\ due = [w \in Workers |-> {}]
  /\ scanned = {}
  /\ manual = [t \in Threads |-> NoRun]

PWStartPass(w) == StartPass(w) /\ UNCHANGED pvars

PWRequeueExpired(w) == RequeueExpired(w) /\ UNCHANGED pvars

ScanDue(w) ==
  /\ wrk[w].pc = "scanning" /\ w \notin scanned
  /\ scanned' = scanned \cup {w}
  /\ due' = [due EXCEPT ![w] = DueJobs(wrk[w].now)]
  /\ UNCHANGED <<qvars, reg, manual>>

EnqueueDue(w, j) ==
  /\ j \in due[w]
  /\ Enqueue(w, j)
  /\ due' = [due EXCEPT ![w] = @ \ {j}]
  /\ UNCHANGED <<reg, scanned, manual>>

PWClaimSelect(w) ==
  /\ w \in scanned /\ due[w] = {}
  /\ ClaimSelect(w)
  /\ scanned' = scanned \ {w}
  /\ UNCHANGED <<reg, due, manual>>

PWClaimUpdate(w) == ClaimUpdate(w) /\ UNCHANGED pvars

\* process returned: record_run(manifest), then complete
PWHandlerReturns(w) ==
  /\ HandlerReturns(w)
  /\ RecordRun(ConnectorOf(wrk[w].job), wrk[w].now, "ok")
  /\ UNCHANGED <<due, scanned, manual>>

\* process raised: record_run(error), then fail
PWHandlerRaises(w) ==
  /\ HandlerRaises(w)
  /\ RecordRun(ConnectorOf(wrk[w].job), wrk[w].now, "error")
  /\ UNCHANGED <<due, scanned, manual>>

PWComplete(w) == Complete(w) /\ UNCHANGED pvars

\* complete raised inside the try block: the run is recorded again, as an error
PWCompleteRaises(w) ==
  /\ CompleteRaises(w)
  /\ RecordRun(ConnectorOf(wrk[w].job), wrk[w].now, "error")
  /\ UNCHANGED <<due, scanned, manual>>

PWFailSelect(w) == FailSelect(w) /\ UNCHANGED pvars
PWFailUpdate(w) == FailUpdate(w) /\ UNCHANGED pvars

PWCrash(w) ==
  /\ Crash(w)
  /\ due' = [due EXCEPT ![w] = {}]
  /\ scanned' = scanned \ {w}
  /\ UNCHANGED <<reg, manual>>

--------------------------------------------------------------------------------
\* The API process

Register(c, s) ==
  /\ reg' = [reg EXCEPT ![c] = UpsertedRow(reg[c], s, clock)]
  /\ UNCHANGED <<qvars, due, scanned, manual>>

\* POST /api/connectors/{id}/run and .../posture-run read the time first ...
ManualStart(t, c) ==
  /\ ~manual[t].active
  /\ Registered(c)
  /\ manual' = [manual EXCEPT ![t] = [active |-> TRUE, connector |-> c, now |-> clock]]
  /\ UNCHANGED <<qvars, reg, due, scanned>>

\* ... and record the outcome under that time when the run is over.
ManualRecord(t, outcome) ==
  /\ manual[t].active
  /\ RecordRun(manual[t].connector, manual[t].now, outcome)
  /\ manual' = [manual EXCEPT ![t] = NoRun]
  /\ UNCHANGED <<qvars, due, scanned>>

\* The API process dies during the run, or record_run raises: nothing is recorded.
ManualLost(t) ==
  /\ manual[t].active
  /\ clock <= FaultUntil
  /\ manual' = [manual EXCEPT ![t] = NoRun]
  /\ UNCHANGED <<qvars, reg, due, scanned>>

PWTick ==
  /\ \A t \in Threads : manual[t].active => clock < manual[t].now + MaxRun
  /\ Tick
  /\ UNCHANGED pvars

--------------------------------------------------------------------------------

PassStep(w) ==
  \/ PWStartPass(w)
  \/ PWRequeueExpired(w)
  \/ ScanDue(w)
  \/ \E j \in JobIds : EnqueueDue(w, j)
  \/ PWClaimSelect(w)
  \/ PWClaimUpdate(w)
  \/ PWHandlerReturns(w)
  \/ PWHandlerRaises(w)
  \/ PWComplete(w)
  \/ PWCompleteRaises(w)
  \/ PWFailSelect(w)
  \/ PWFailUpdate(w)

PWNext ==
  \/ \E w \in Workers : PassStep(w) \/ PWCrash(w)
  \/ \E c \in Connectors, s \in Schedules : Register(c, s)
  \/ \E t \in Threads :
       \/ \E c \in Connectors : ManualStart(t, c)
       \/ \E outcome \in {"ok", "error"} : ManualRecord(t, outcome)
       \/ ManualLost(t)
  \/ PWTick

PWSpec == PWInit /\ [][PWNext]_vars

PWFairness ==
  /\ WF_vars(PWTick)
  /\ \A w \in Workers : WF_vars(PassStep(w))
  /\ \A t \in Threads : WF_vars(ManualRecord(t, "ok"))

--------------------------------------------------------------------------------
\* Properties

\* Type invariant of the registry and of what the two processes hold of it.
PWTypeOK ==
  /\ reg \in [Connectors -> ConnectorRow \cup {Unregistered}]
  /\ due \in [Workers -> SUBSET JobIds]
  /\ scanned \subseteq {w \in Workers : wrk[w].pc = "scanning"}
  /\ manual \in [Threads -> ManualRun]
  /\ \A t \in Threads : manual[t].active =>
       manual[t].connector \in Connectors /\ Registered(manual[t].connector)

\* "enqueue a posture job for every DUE connector" (worker.py:10): the job that
\* a pass enqueues for a due connector is one that some pass will still run.
DueConnectorGetsAJob ==
  [][\A w \in Workers : \A j \in due[w] \ due'[w] :
       wrk'[w].pc = "scanning" => jobs'[j].status \in {"queued", "running"}]_vars

\* A due connector does not stay due for ever: its window is run, or replaced.
DueConnectorIsServed ==
  \A c \in Connectors, t \in 0..MaxTime :
    Registered(c) /\ reg[c].next = t /\ t <= clock ~> reg[c].next # t
================================================================================
