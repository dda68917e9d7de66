------------------------------- MODULE WorkQueue -------------------------------
(***************************************************************************)
(* The durable, lease-based job queue of one tenant                        *)
(* (compliance_reporting/work_queue.py) and the worker processes that      *)
(* drain it (api/worker.py tick, and Worker.run_once of work_queue.py).    *)
(*                                                                         *)
(* A job is a row of the SQLite table "jobs".  Every method of the class   *)
(* runs under a lock of ITS OWN INSTANCE and inside "with self._conn", but *)
(* SQLite opens a transaction at the first UPDATE or INSERT only: in       *)
(* claim and fail the leading SELECT and the UPDATE that uses its answer   *)
(* are two steps, and other processes may act between them.  A method that *)
(* is one UPDATE (complete, requeue_expired) is one step, and so is        *)
(* enqueue: an INSERT that lost a race violates the primary key, inserts   *)
(* nothing and raises, which ends the pass (Crash).                        *)
(*                                                                         *)
(* The module says what one worker's pass looks like to the queue.  What   *)
(* the handler does is the business of PostureWorker.                      *)
(***************************************************************************)
EXTENDS Integers

CONSTANTS
  JobIds,       \* the job ids that may ever be enqueued
  Workers,      \* the worker processes draining this queue
  NoJob,        \* a worker holds no job
  NoWorker,     \* SQL NULL in the column "worker"
  MaxAttempts,  \* max_attempts
  BaseBackoff,  \* base_backoff
  LeaseSeconds, \* lease_seconds
  MaxTime,      \* bound: the clock stops here
  MaxCrashes,   \* bound: worker crashes in one behaviour
  FaultUntil    \* bound: no crash, no raised error after this time

NoLease == -1   \* SQL NULL in the column "lease_expires"

\* base_backoff * (2 ** (attempts - 1)), the delay after the k-th attempt failed
Backoff(k) == BaseBackoff * 2^(k - 1)

ASSUME QueueAssumption ==
  /\ NoJob \notin JobIds
  /\ NoWorker \notin Workers
  /\ MaxAttempts \in Nat \ {0}
  /\ LeaseSeconds \in Nat
  /\ MaxTime \in Nat
  /\ MaxCrashes \in Nat
  /\ FaultUntil \in Int

ASSUME BackoffAssumption == \A k \in 1..MaxAttempts : Backoff(k) \in Nat

VARIABLES
  jobs,         \* the table: job id -> row ("absent" when there is no row)
  clock,        \* int(time.time()), the same for every process
  wrk,          \* worker -> where its pass stands, and the pass's locals
  crashes,      \* passes that ended without completing or failing their job
  executed      \* history: the jobs a handler ran to its end, without raising

qvars == <<jobs, clock, wrk, crashes, executed>>

--------------------------------------------------------------------------------
\* Rows and local states

Statuses == {"absent", "queued", "running", "done", "dead"}

Row == [status: Statuses, attempts: Nat, run_after: Nat,
        lease: Nat \cup {NoLease}, worker: Workers \cup {NoWorker},
        enqueued_at: Nat]

AbsentRow == [status |-> "absent", attempts |-> 0, run_after |-> 0,
              lease |-> NoLease, worker |-> NoWorker, enqueued_at |-> 0]

PCs == {"idle",        \* between two passes
        "begun",       \* read the clock
        "scanning",    \* returned expired leases; enqueueing
        "selected",    \* claim: SELECTed a job, not UPDATEd yet
        "handling",    \* claim returned: the handler runs
        "completing",  \* the handler returned
        "failing",     \* the handler raised
        "retrying"}    \* fail: SELECTed the attempts, not UPDATEd yet

Pass == [pc: PCs, now: Nat, job: JobIds \cup {NoJob}, seen: Nat]

Idle == [pc |-> "idle", now |-> 0, job |-> NoJob, seen |-> 0]

--------------------------------------------------------------------------------
\* The SQL statements, as functions of a row

\* INSERT ... VALUES (status=QUEUED, attempts=0, run_after=now, enqueued_at=now)
InsertedRow(now) ==
  [AbsentRow EXCEPT !.status = "queued", !.run_after = now, !.enqueued_at = now]

\* UPDATE ... attempts=attempts+1 WHERE job_id=? AND status='queued'
ClaimedRow(row, w, now) ==
  IF row.status = "queued"
  THEN [row EXCEPT !.status = "running", !.worker = w,
                   !.lease = now + LeaseSeconds, !.attempts = @ + 1]
  ELSE row

\* mutant: complete leaves the lease behind
CompletedRowKeepsLease(row) == [row EXCEPT !.status = "done"]

\* complete: no test of the status, nor of who holds the lease
CompletedRow(row) == [row EXCEPT !.status = "done", !.lease = NoLease]

\* mutant: off by one, the last attempt is buried one failure early
FailedRowEarly(row, seen, now) ==
  IF seen >= MaxAttempts - 1
  THEN [row EXCEPT !.status = "dead", !.lease = NoLease]
  ELSE [row EXCEPT !.status = "queued", !.run_after = now + Backoff(seen),
                   !.lease = NoLease, !.worker = NoWorker]

\* mutant: max_attempts is compared with > instead of >=
FailedRowLate(row, seen, now) ==
  IF seen > MaxAttempts
  THEN [row EXCEPT !.status = "dead", !.lease = NoLease]
  ELSE [row EXCEPT !.status = "queued", !.run_after = now + Backoff(seen),
                   !.lease = NoLease, !.worker = NoWorker]

\* fail, from the attempts its SELECT saw: DEAD, or QUEUED again after a backoff
FailedRow(row, seen, now) ==
  IF seen >= MaxAttempts
  THEN [row EXCEPT !.status = "dead", !.lease = NoLease]
  ELSE [row EXCEPT !.status = "queued", !.run_after = now + Backoff(seen),
                   !.lease = NoLease, !.worker = NoWorker]

Expired(row, now) ==
  /\ row.status = "running"
  /\ row.lease # NoLease
  /\ row.lease < now

\* mutant: no lease ever expires
RequeuedRowNever(row, now) == row

\* requeue_expired's UPDATE on one row; attempts is left as it is
RequeuedRow(row, now) ==
  IF Expired(row, now)
  THEN [row EXCEPT !.status = "queued", !.worker = NoWorker, !.lease = NoLease]
  ELSE row

\* mutant: the backoff is not looked at
RunnableIgnoringBackoff(now) == {j \in JobIds : jobs[j].status = "queued"}

\* claim's SELECT: WHERE status='queued' AND run_after<=now
Runnable(now) ==
  {j \in JobIds : jobs[j].status = "queued" /\ jobs[j].run_after <= now}

\* ORDER BY enqueued_at LIMIT 1: the order of equals is SQLite's choice
Oldest(S) == {j \in S : \A k \in S : jobs[j].enqueued_at <= jobs[k].enqueued_at}

--------------------------------------------------------------------------------
\* One pass of a worker

Init ==
  /\ jobs = [j \in JobIds |-> AbsentRow]
  /\ clock = 0
  /\ wrk = [w \in Workers |-> Idle]
  /\ crashes = 0
  /\ executed = {}

\* The main loop reads the time once; every step of the pass uses this "now".
StartPass(w) ==
  /\ wrk[w].pc = "idle"
  /\ wrk' = [wrk EXCEPT ![w] = [@ EXCEPT !.pc = "begun", !.now = clock]]
  /\ UNCHANGED <<jobs, clock, crashes, executed>>

RequeueExpired(w) ==
  /\ wrk[w].pc = "begun"
  /\ jobs' = [j \in JobIds |-> RequeuedRow(jobs[j], wrk[w].now)]
  /\ wrk' = [wrk EXCEPT ![w].pc = "scanning"]
  /\ UNCHANGED <<clock, crashes, executed>>

\* Idempotent: an existing row, whatever its status, is left alone.
Enqueue(w, j) ==
  /\ wrk[w].pc = "scanning"
  /\ jobs' = IF jobs[j].status = "absent"
             THEN [jobs EXCEPT ![j] = InsertedRow(wrk[w].now)]
             ELSE jobs
  /\ UNCHANGED <<clock, wrk, crashes, executed>>

\* claim, first half.  Nothing to do: the pass is over.
ClaimSelect(w) ==
  /\ wrk[w].pc = "scanning"
  /\ \/ /\ Runnable(wrk[w].now) = {}
        /\ wrk' = [wrk EXCEPT ![w] = Idle]
     \/ \E j \in Oldest(Runnable(wrk[w].now)) :
          wrk' = [wrk EXCEPT ![w].pc = "selected", ![w].job = j]
  /\ UNCHANGED <<jobs, clock, crashes, executed>>

\* claim, second half.  The row count of the UPDATE is not looked at: claim
\* returns the row, and the worker runs the handler, in either case.
ClaimUpdate(w) ==
  /\ wrk[w].pc = "selected"
  /\ jobs' = [jobs EXCEPT ![wrk[w].job] =
                ClaimedRow(jobs[wrk[w].job], w, wrk[w].now)]
  /\ wrk' = [wrk EXCEPT ![w].pc = "handling"]
  /\ UNCHANGED <<clock, crashes, executed>>

HandlerReturns(w) ==
  /\ wrk[w].pc = "handling"
  /\ executed' = executed \cup {wrk[w].job}
  /\ wrk' = [wrk EXCEPT ![w].pc = "completing"]
  /\ UNCHANGED <<jobs, clock, crashes>>

\* mutant: the exception is logged and swallowed, the job taken for finished
HandlerRaisesUnnoticed(w) ==
  /\ wrk[w].pc = "handling"
  /\ clock <= FaultUntil
  /\ wrk' = [wrk EXCEPT ![w].pc = "completing"]
  /\ UNCHANGED <<jobs, clock, crashes, executed>>

HandlerRaises(w) ==
  /\ wrk[w].pc = "handling"
  /\ clock <= FaultUntil
  /\ wrk' = [wrk EXCEPT ![w].pc = "failing"]
  /\ UNCHANGED <<jobs, clock, crashes, executed>>

Complete(w) ==
  /\ wrk[w].pc = "completing"
  /\ jobs' = [jobs EXCEPT ![wrk[w].job] = CompletedRow(jobs[wrk[w].job])]
  /\ wrk' = [wrk EXCEPT ![w] = Idle]
  /\ UNCHANGED <<clock, crashes, executed>>

\* complete itself raises (the database stays locked): it is inside the try
\* block, so the finished job goes the way of a failed one.
CompleteRaises(w) ==
  /\ wrk[w].pc = "completing"
  /\ clock <= FaultUntil
  /\ wrk' = [wrk EXCEPT ![w].pc = "failing"]
  /\ UNCHANGED <<jobs, clock, crashes, executed>>

\* fail, first half: SELECT attempts
FailSelect(w) ==
  /\ wrk[w].pc = "failing"
  /\ wrk' = [wrk EXCEPT ![w].pc = "retrying",
                        ![w].seen = jobs[wrk[w].job].attempts]
  /\ UNCHANGED <<jobs, clock, crashes, executed>>

\* fail, second half: the UPDATE, which tests neither status nor holder
FailUpdate(w) ==
  /\ wrk[w].pc = "retrying"
  /\ jobs' = [jobs EXCEPT ![wrk[w].job] =
                FailedRow(jobs[wrk[w].job], wrk[w].seen, wrk[w].now)]
  /\ wrk' = [wrk EXCEPT ![w] = Idle]
  /\ UNCHANGED <<clock, crashes, executed>>

\* The process dies and is restarted, or the pass is left through an exception
\* outside the try block (a store that raises in the except branch, a job of an
\* unknown kind): the locals are gone, the row stays as it was.
Crash(w) ==
  /\ wrk[w].pc # "idle"
  /\ crashes < MaxCrashes
  /\ clock <= FaultUntil
  /\ wrk' = [wrk EXCEPT ![w] = Idle]
  /\ crashes' = crashes + 1
  /\ UNCHANGED <<jobs, clock, executed>>

Tick ==
  /\ clock < MaxTime
  /\ clock' = clock + 1
  /\ UNCHANGED <<jobs, wrk, crashes, executed>>

\* What a pass does from the claim on, up to its end
Drain(w) ==
  \/ ClaimSelect(w)
  \/ ClaimUpdate(w)
  \/ HandlerReturns(w)
  \/ HandlerRaises(w)
  \/ Complete(w)
  \/ CompleteRaises(w)
  \/ FailSelect(w)
  \/ FailUpdate(w)

Next ==
  \/ \E w \in Workers :
       \/ StartPass(w)
       \/ RequeueExpired(w)
       \/ \E j \in JobIds : Enqueue(w, j)
       \/ Drain(w)
       \/ Crash(w)
  \/ Tick

Spec == Init /\ [][Next]_qvars

--------------------------------------------------------------------------------
\* Properties

\* Type invariant: the columns of a row and the locals of a pass.
TypeOK ==
  /\ jobs \in [JobIds -> Row]
  /\ clock \in 0..MaxTime
  /\ wrk \in [Workers -> Pass]
  /\ \A w \in Workers :
       /\ wrk[w].now <= clock
       /\ wrk[w].job = NoJob <=> wrk[w].pc \in {"idle", "begun", "scanning"}
  /\ crashes \in 0..MaxCrashes
  /\ executed \subseteq JobIds

\* A row is RUNNING exactly when it carries a lease, whatever claims, late
\* completes, late fails and sweeps of other processes have done to it: no row
\* can be stuck in RUNNING out of the reach of requeue_expired.
LeaseIffRunning ==
  \A j \in JobIds : jobs[j].status = "running" <=> jobs[j].lease # NoLease

\* A job is DONE only if some handler ran it to the end: neither a raised error,
\* nor a crash, nor a lease that was lost and swept, turns an unexecuted job DONE.
DoneMeansExecuted ==
  \A j \in JobIds : jobs[j].status = "done" => j \in executed

\* A job is given up (DEAD) only after max_attempts claims, even when the fail
\* that buries it worked with an attempts value read before other claims.
DeadMeansExhausted ==
  \A j \in JobIds : jobs[j].status = "dead" => jobs[j].attempts >= MaxAttempts

\* A retried job is not started again before its backoff has passed (fail sets
\* run_after, claim's SELECT looks at it, the clock moves between the two).
RetryHonoursBackoff ==
  [][\A j \in JobIds :
       jobs[j].status = "queued" /\ jobs'[j].status = "running"
         => jobs[j].run_after <= clock]_qvars

\* "two workers never get the same job" (work_queue.py:13-14): whoever comes
\* out of claim with a job is the holder of that job's lease.
ClaimerHoldsLease ==
  [][\A w \in Workers :
       wrk[w].pc = "selected" /\ wrk'[w].pc = "handling"
         => jobs'[wrk[w].job].worker = w]_qvars

\* The invariant behind the four above, inductive for any number of workers.
\* What a pass remembers of its job is weaker than it looks: by the time of the
\* UPDATE the row may be in any status, but it exists, was claimed at least once
\* (so that backoff's exponent is not negative), and its attempts only grow.
Claimed == {"handling", "completing", "failing", "retrying"}

PassesSound ==
  \A w \in Workers :
    LET row == jobs[wrk[w].job] IN
    /\ wrk[w].pc = "selected" => row.status # "absent"
    /\ wrk[w].pc \in Claimed => row.status # "absent" /\ row.attempts >= 1
    /\ wrk[w].pc = "completing" => wrk[w].job \in executed
    /\ wrk[w].pc = "retrying" => 1 <= wrk[w].seen /\ wrk[w].seen <= row.attempts

StartedWasClaimed ==
  \A j \in JobIds :
    jobs[j].status \in {"running", "done", "dead"} => jobs[j].attempts >= 1

QueueInv ==
  /\ TypeOK
  /\ LeaseIffRunning
  /\ DoneMeansExecuted
  /\ DeadMeansExhausted
  /\ StartedWasClaimed
  /\ PassesSound

\* With one worker the pass's view of its job is exact, and every attempt beyond
\* max_attempts has been paid for by a crash: a row that is RUNNING with nobody
\* on it is one crash behind the bound.
SingleWorker == \A v, w \in Workers : v = w

Holds(w, j) == wrk[w].pc \in Claimed /\ wrk[w].job = j

PassesExact ==
  \A w \in Workers :
    LET row == jobs[wrk[w].job] IN
    /\ wrk[w].pc = "selected" => row.status = "queued" /\ row.run_after <= wrk[w].now
    /\ wrk[w].pc \in Claimed => row.status = "running"
    /\ wrk[w].pc = "retrying" => wrk[w].seen = row.attempts

AttemptsPaidFor ==
  \A j \in JobIds :
    LET row == jobs[j] IN
    /\ row.attempts <= MaxAttempts + crashes
    /\ row.status \in {"absent", "queued"} => row.attempts < MaxAttempts + crashes
    /\ row.status = "running" /\ (\A w \in Workers : ~Holds(w, j))
         => row.attempts < MaxAttempts + crashes

SingleInv == QueueInv /\ PassesExact /\ AttemptsPaidFor

\* The lifecycle a caller of the queue relies on.  It holds while one process
\* drains the queue, which is how the deployment runs it; with several, a late
\* complete or fail of a lost lease reopens finished jobs.
PhaseOf(row) ==
  CASE row.status = "absent"  -> "absent"
    [] row.status = "queued"  -> "waiting"
    [] row.status = "running" -> "leased"
    [] row.status = "done"    -> "done"
    [] row.status = "dead"    -> "dead"

Lifecycle == INSTANCE JobLifecycle
  WITH Jobs <- JobIds, phase <- [j \in JobIds |-> PhaseOf(jobs[j])], ran <- executed

\* Refinement: one worker's passes implement the lifecycle.
FollowsLifecycle == Lifecycle!LSpec

\* With one worker: a job is started at most max_attempts times, plus once for
\* every pass that was cut off.  A sweep does not look at attempts, so the
\* bound cannot be better than this: a job that kills its worker is never DEAD.
AttemptsBounded ==
  \A j \in JobIds : jobs[j].attempts <= MaxAttempts + crashes

\* With one worker, while faults are finite: a job that was enqueued ends up
\* DONE or DEAD, across crashes, expired leases and retries.
JobSettles ==
  \A j \in JobIds :
    jobs[j].status # "absent" ~> jobs[j].status \in {"done", "dead"}

\* The worker process keeps working through its pass and starts another one
\* after it (main is a loop that catches every exception), and time goes by.
Step(w) == StartPass(w) \/ RequeueExpired(w) \/ Drain(w)

FairSpec == Spec /\ WF_qvars(Tick) /\ \A w \in Workers : WF_qvars(Step(w))
================================================================================
