------------------------------ MODULE JobManager ------------------------------
(***************************************************************************)
(* The background jobs of the API (jobs.py) and their durable records      *)
(* (sqlite_store.py).  A request lists its job in memory, files a row and   *)
(* puts the job on a queue; one worker thread takes jobs off the queue.    *)
(* Every change of status is made in memory first and in the row second,   *)
(* and the store may refuse the second.  A restart loses the memory.       *)
(***************************************************************************)
EXTENDS Integers, Sequences, FiniteSets

CONSTANTS
  Jobs,       \* job ids, one per request
  MaxJobs,    \* _MAX_JOBS
  MaxFaults,  \* bound on the jobs whose updates the store refuses
  MaxStarts,  \* bound on restarts
  NoJob

ASSUME JobAssumption == MaxJobs \in Nat /\ MaxFaults \in Nat /\ MaxStarts \in Nat /\ NoJob \notin Jobs

VARIABLES
  submit,   \* job -> how far its request has come
  listed,   \* job -> status, the jobs in memory
  order,    \* the listed jobs, oldest first unless moved
  fifo,     \* jobs put on the queue
  rows,     \* job -> status, the durable rows
  worker,   \* what the worker thread is doing, to which job
  refused,  \* jobs of which the store refused an update
  starts    \* restarts so far

jobVars == <<submit, listed, order, fifo, rows, worker, refused, starts>>

Unfinished == {"queued", "running"}
Settled == {"done", "error"}

Idle == [at |-> "idle", job |-> NoJob]
Dead == [at |-> "dead", job |-> NoJob]

RowsWith(f, j, status) == [x \in DOMAIN f \cup {j} |-> IF x = j THEN status ELSE f[x]]

\* The jobs at the head of s that have ended, up to the surplus.
EndedHead(s, status) ==
  LET surplus == Len(s) - MaxJobs
      stops == {k \in 1..Len(s) : k > surplus \/ status[s[k]] \in Unfinished}
  IN (CHOOSE k \in stops : \A other \in stops : k <= other) - 1

\* mutant: an active head goes like any other
KeepsRecent(s, status) == IF Len(s) > MaxJobs THEN Tail(s) ELSE s

\* _evict_locked: drop ended jobs from the head; an active one met on the
\* way goes to the tail and ends the eviction.
Evicted(s, status) ==
  LET k == EndedHead(s, status)
      rest == SubSeq(s, k + 1, Len(s))
  IN IF Len(s) - k <= MaxJobs THEN rest ELSE Append(Tail(rest), Head(rest))

List(j) ==
  /\ submit[j] = "new"
  /\ LET status == RowsWith(listed, j, "queued")
         kept == Evicted(Append(order, j), status)
     IN /\ order' = kept
        /\ listed' = [x \in {kept[k] : k \in 1..Len(kept)} |-> status[x]]
  /\ submit' = [submit EXCEPT ![j] = "listed"]
  /\ UNCHANGED <<fifo, rows, worker, refused, starts>>

Create(j) ==
  /\ submit[j] = "listed"
  /\ rows' = RowsWith(rows, j, "queued")
  /\ submit' = [submit EXCEPT ![j] = "filed"]
  /\ UNCHANGED <<listed, order, fifo, worker, refused, starts>>

Refuse(j) ==
  /\ Cardinality(refused \cup {j}) <= MaxFaults
  /\ refused' = refused \cup {j}

\* The job stays listed as queued, and nothing will ever run it.
CreateRefused(j) ==
  /\ submit[j] = "listed"
  /\ Refuse(j)
  /\ submit' = [submit EXCEPT ![j] = "refused"]
  /\ UNCHANGED <<listed, order, fifo, rows, worker, starts>>

Put(j) ==
  /\ submit[j] = "filed"
  /\ fifo' = Append(fifo, j)
  /\ submit' = [submit EXCEPT ![j] = "put"]
  /\ UNCHANGED <<listed, order, rows, worker, refused, starts>>

\* The memory half of _update(status); the row half is "then".
Mirror(j, status, then) ==
  IF j \in DOMAIN listed
    THEN /\ listed' = [listed EXCEPT ![j] = status]
         /\ worker' = [at |-> then, job |-> j]
    ELSE /\ UNCHANGED listed
         /\ worker' = IF status = "running" THEN [at |-> "working", job |-> j] ELSE Idle

Take ==
  /\ worker.at = "idle" /\ fifo # <<>>
  /\ Mirror(Head(fifo), "running", "running")
  /\ fifo' = Tail(fifo)
  /\ UNCHANGED <<submit, order, rows, refused, starts>>

WorkEnds(status) ==
  /\ worker.at = "working"
  /\ Mirror(worker.job, status, status)
  /\ UNCHANGED <<submit, order, fifo, rows, refused, starts>>

\* The row half: the worker's stage names the status it is writing.
WriteRow ==
  /\ worker.at \in {"running"} \cup Settled
  /\ rows' = [rows EXCEPT ![worker.job] = worker.at]
  /\ worker' = IF worker.at = "running" THEN [worker EXCEPT !.at = "working"] ELSE Idle
  /\ UNCHANGED <<submit, listed, order, fifo, refused, starts>>

\* A refusal while the job is marked done is caught, and marks it an
\* error; the two other updates are outside the try and end the thread.
RowRefused ==
  /\ worker.at \in {"running"} \cup Settled
  /\ Refuse(worker.job)
  /\ IF worker.at = "done"
       THEN Mirror(worker.job, "error", "error")
       ELSE worker' = Dead /\ UNCHANGED listed
  /\ UNCHANGED <<submit, order, fifo, rows, starts>>

\* mutant: only the jobs a crash caught at work
RunningOnly(status) == status = "running"

\* recover_stuck
Stuck(status) == status \in Unfinished

Restart ==
  /\ starts < MaxStarts
  /\ starts' = starts + 1
  /\ submit' = [j \in Jobs |-> IF submit[j] = "new" THEN "new" ELSE "gone"]
  /\ listed' = <<>> /\ order' = <<>> /\ fifo' = <<>> /\ worker' = Idle
  /\ rows' = [j \in DOMAIN rows |-> IF Stuck(rows[j]) THEN "error" ELSE rows[j]]
  /\ UNCHANGED refused

JobInit ==
  /\ submit = [j \in Jobs |-> "new"]
  /\ listed = <<>> /\ order = <<>> /\ fifo = <<>> /\ rows = <<>>
  /\ worker = Idle /\ refused = {} /\ starts = 0

WorkerStep == Take \/ WriteRow \/ \E status \in Settled : WorkEnds(status)

JobNext ==
  \/ \E j \in Jobs : List(j) \/ Create(j) \/ CreateRefused(j) \/ Put(j)
  \/ WorkerStep
  \/ RowRefused
  \/ Restart

JobFairness == WF_jobVars(WorkerStep) /\ \A j \in Jobs : WF_jobVars(Create(j)) /\ WF_jobVars(Put(j))

JobSpec == JobInit /\ [][JobNext]_jobVars /\ JobFairness

Ended(j) == j \in DOMAIN rows /\ rows[j] \in Settled

\* Eviction never drops a job that waits or is at work, however earlier
\* evictions reordered the list: its owner would be told there is no such
\* job, and _update would leave its row unfinished.
ActiveStaysListed ==
  \A j \in Jobs :
    submit[j] \in {"listed", "filed", "put"} =>
      \/ j \in DOMAIN listed
      \/ Ended(j) \/ j \in refused
      \/ worker.job = j /\ worker.at \in Settled  \* its last row is on its way

\* Every job with a row ends, or is called interrupted at the next start,
\* unless the store refused an update of that very job or one that ended
\* the only worker thread.
JobsSettle ==
  \A j \in Jobs :
    j \in DOMAIN rows ~> (Ended(j) \/ j \in refused \/ worker = Dead)
================================================================================
