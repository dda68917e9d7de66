---------------------------- MODULE WorkQueueProofs ----------------------------
(***************************************************************************)
(* Proofs about WorkQueue, for every set of jobs and workers and every     *)
(* value of the bounds: first what holds of any number of workers, then    *)
(* what holds when one process drains the queue, which is how the          *)
(* deployment runs it (SingleWorker).                                      *)
(***************************************************************************)
EXTENDS WorkQueue, TLAPS

--------------------------------------------------------------------------------
\* What each SQL statement does to a row

\* The INSERT makes a row that is queued and was never started.
LEMMA InsertedRowFacts ==
  ASSUME NEW now \in Nat
  PROVE  /\ InsertedRow(now) \in Row
         /\ InsertedRow(now).status = "queued"
         /\ InsertedRow(now).lease = NoLease
         /\ InsertedRow(now).attempts = 0
  BY DEF InsertedRow, AbsentRow, Row, Statuses, NoLease

\* claim's UPDATE keeps rows well formed, never lowers attempts, and starts
\* only a queued row.
LEMMA ClaimedRowFacts ==
  ASSUME NEW row \in Row, NEW w \in Workers, NEW now \in Nat
  PROVE  /\ ClaimedRow(row, w, now) \in Row
         /\ row.status = "queued" =>
              /\ ClaimedRow(row, w, now).status = "running"
              /\ ClaimedRow(row, w, now).lease \in Nat
              /\ ClaimedRow(row, w, now).worker = w
              /\ ClaimedRow(row, w, now).attempts = row.attempts + 1
         /\ row.status # "queued" => ClaimedRow(row, w, now) = row
  <1>1. CASE row.status = "queued"
    <2> DEFINE lease == now + LeaseSeconds
               tries == row.attempts + 1
    <2>1. lease \in Nat /\ tries \in Nat /\ row \in Row
      BY QueueAssumption DEF Row
    <2>2. ClaimedRow(row, w, now) =
            [row EXCEPT !.status = "running", !.worker = w, !.lease = lease,
                        !.attempts = tries]
      BY <1>1 DEF ClaimedRow
    <2> HIDE DEF lease
    <2>3. ClaimedRow(row, w, now) \in Row
      BY <2>1, <2>2 DEF Row, Statuses, NoLease
    <2> QED BY <1>1, <2>1, <2>2, <2>3 DEF Row
  <1>2. CASE row.status # "queued"
    BY <1>2 DEF ClaimedRow
  <1> QED BY <1>1, <1>2

\* complete's UPDATE
LEMMA CompletedRowFacts ==
  ASSUME NEW row \in Row
  PROVE  /\ CompletedRow(row) \in Row
         /\ CompletedRow(row).status = "done"
         /\ CompletedRow(row).lease = NoLease
         /\ CompletedRow(row).attempts = row.attempts
  BY DEF CompletedRow, Row, Statuses, NoLease

\* fail's UPDATE, for an attempts value of at least one
LEMMA FailedRowFacts ==
  ASSUME NEW row \in Row, NEW seen \in Nat, NEW now \in Nat, seen >= 1
  PROVE  /\ FailedRow(row, seen, now) \in Row
         /\ FailedRow(row, seen, now).lease = NoLease
         /\ FailedRow(row, seen, now).attempts = row.attempts
         /\ FailedRow(row, seen, now).status =
              IF seen >= MaxAttempts THEN "dead" ELSE "queued"
  <1>1. CASE seen >= MaxAttempts
    BY <1>1 DEF FailedRow, Row, Statuses, NoLease
  <1>2. CASE ~(seen >= MaxAttempts)
    <2>1. seen \in 1..MaxAttempts
      BY <1>2, QueueAssumption
    <2>2. Backoff(seen) \in Nat
      BY <2>1, BackoffAssumption
    <2> DEFINE delay == Backoff(seen)
    <2>3. now + delay \in Nat
      BY <2>2
    <2> HIDE DEF delay
    <2>4. FailedRow(row, seen, now) =
            [row EXCEPT !.status = "queued", !.run_after = now + delay,
                        !.lease = NoLease, !.worker = NoWorker]
      BY <1>2 DEF FailedRow, delay
    <2> QED BY <1>2, <2>3, <2>4 DEF Row, Statuses, NoLease
  <1> QED BY <1>1, <1>2

\* requeue_expired's UPDATE touches running rows only, and not their attempts.
LEMMA RequeuedRowFacts ==
  ASSUME NEW row \in Row, NEW now \in Nat
  PROVE  /\ RequeuedRow(row, now) \in Row
         /\ RequeuedRow(row, now).attempts = row.attempts
         /\ \/ RequeuedRow(row, now) = row
            \/ /\ row.status = "running"
               /\ RequeuedRow(row, now).status = "queued"
               /\ RequeuedRow(row, now).lease = NoLease
  BY DEF RequeuedRow, Expired, Row, Statuses, NoLease

--------------------------------------------------------------------------------
\* Type correctness

\* The type invariant of the queue and of the passes over it, alone.  fail's
\* backoff needs the rest of QueueInv, so this lemma assumes it before the step.
LEMMA TypeStep == QueueInv /\ [Next]_qvars => TypeOK'
  <1> SUFFICES ASSUME QueueInv, [Next]_qvars PROVE TypeOK'
    OBVIOUS
  <1> USE QueueAssumption
  <1>1. ASSUME NEW w \in Workers, StartPass(w) PROVE TypeOK'
    <2>1. /\ wrk[w] \in Pass /\ wrk[w].job = NoJob /\ clock \in Nat
          /\ wrk' = [wrk EXCEPT ![w] = [wrk[w] EXCEPT !.pc = "begun", !.now = clock]]
      BY <1>1 DEF QueueInv, TypeOK, StartPass
    <2>2. [wrk[w] EXCEPT !.pc = "begun", !.now = clock] \in Pass
      BY <2>1 DEF Pass, PCs
    <2>3. wrk' \in [Workers -> Pass]
      BY <2>1, <2>2 DEF QueueInv, TypeOK
    <2> QED BY <1>1, <2>1, <2>3 DEF QueueInv, TypeOK, StartPass, Pass
  <1>2. ASSUME NEW w \in Workers, RequeueExpired(w) PROVE TypeOK'
    <2>1. wrk[w].now \in Nat
      BY DEF QueueInv, TypeOK, Pass
    <2>2. \A j \in JobIds : RequeuedRow(jobs[j], wrk[w].now) \in Row
      BY <2>1, RequeuedRowFacts DEF QueueInv, TypeOK
    <2> QED BY <1>2, <2>2 DEF QueueInv, TypeOK, RequeueExpired, Pass, PCs
  <1>3. ASSUME NEW w \in Workers, NEW j \in JobIds, Enqueue(w, j) PROVE TypeOK'
    <2>1. InsertedRow(wrk[w].now) \in Row
      BY InsertedRowFacts DEF QueueInv, TypeOK, Pass
    <2> QED BY <1>3, <2>1 DEF QueueInv, TypeOK, Enqueue
  <1>4. ASSUME NEW w \in Workers, ClaimSelect(w) PROVE TypeOK'
    BY <1>4 DEF QueueInv, TypeOK, ClaimSelect, Runnable, Oldest, Pass, PCs, Idle
  <1>5. ASSUME NEW w \in Workers, ClaimUpdate(w) PROVE TypeOK'
    <2>1. wrk[w].job \in JobIds /\ wrk[w].now \in Nat
      BY <1>5 DEF QueueInv, TypeOK, ClaimUpdate, Pass
    <2>2. ClaimedRow(jobs[wrk[w].job], w, wrk[w].now) \in Row
      BY <2>1, ClaimedRowFacts DEF QueueInv, TypeOK
    <2> QED BY <1>5, <2>1, <2>2 DEF QueueInv, TypeOK, ClaimUpdate, Pass, PCs
  <1>6. ASSUME NEW w \in Workers, HandlerReturns(w) PROVE TypeOK'
    BY <1>6 DEF QueueInv, TypeOK, HandlerReturns, Pass, PCs
  <1>7. ASSUME NEW w \in Workers, HandlerRaises(w) \/ CompleteRaises(w) PROVE TypeOK'
    BY <1>7 DEF QueueInv, TypeOK, HandlerRaises, CompleteRaises, Pass, PCs
  <1>8. ASSUME NEW w \in Workers, Complete(w) PROVE TypeOK'
    <2>1. wrk[w].job \in JobIds
      BY <1>8 DEF QueueInv, TypeOK, Complete, Pass
    <2>2. CompletedRow(jobs[wrk[w].job]) \in Row
      BY <2>1, CompletedRowFacts DEF QueueInv, TypeOK
    <2> QED BY <1>8, <2>1, <2>2 DEF QueueInv, TypeOK, Complete, Pass, PCs, Idle
  <1>9. ASSUME NEW w \in Workers, FailSelect(w) PROVE TypeOK'
    <2>1. wrk[w].job \in JobIds
      BY <1>9 DEF QueueInv, TypeOK, FailSelect, Pass
    <2>2. jobs[wrk[w].job].attempts \in Nat
      BY <2>1 DEF QueueInv, TypeOK, Row
    <2> QED BY <1>9, <2>2 DEF QueueInv, TypeOK, FailSelect, Pass, PCs
  <1>10. ASSUME NEW w \in Workers, FailUpdate(w) PROVE TypeOK'
    <2>1. /\ wrk[w].job \in JobIds /\ wrk[w].now \in Nat
          /\ wrk[w].seen \in Nat /\ wrk[w].seen >= 1
      BY <1>10 DEF QueueInv, TypeOK, PassesSound, FailUpdate, Pass
    <2>2. FailedRow(jobs[wrk[w].job], wrk[w].seen, wrk[w].now) \in Row
      BY <2>1, FailedRowFacts DEF QueueInv, TypeOK
    <2> QED BY <1>10, <2>1, <2>2 DEF QueueInv, TypeOK, FailUpdate, Pass, PCs, Idle
  <1>11. ASSUME NEW w \in Workers, Crash(w) PROVE TypeOK'
    BY <1>11 DEF QueueInv, TypeOK, Crash, Pass, PCs, Idle
  <1>12. CASE Tick
    BY <1>12 DEF QueueInv, TypeOK, Tick, Pass
  <1>13. CASE UNCHANGED qvars
    BY <1>13 DEF QueueInv, TypeOK, qvars
  <1> QED
    BY <1>1, <1>2, <1>3, <1>4, <1>5, <1>6, <1>7, <1>8, <1>9, <1>10, <1>11, <1>12,
       <1>13 DEF Next, Drain

--------------------------------------------------------------------------------
\* The queue's safety

\* What one step may do to one row, and under which knowledge of the pass that
\* does it.  Every clause of QueueInv about rows follows from this list.
Unchanged(j) == jobs'[j] = jobs[j]

Inserted(j) ==
  /\ jobs[j].status = "absent"
  /\ jobs'[j].status = "queued" /\ jobs'[j].lease = NoLease /\ jobs'[j].attempts = 0

Started(j) ==
  /\ jobs[j].status = "queued"
  /\ jobs'[j].status = "running" /\ jobs'[j].lease \in Nat
  /\ jobs'[j].attempts = jobs[j].attempts + 1

Ended(j) ==
  /\ jobs[j].status # "absent" /\ jobs[j].attempts >= 1
  /\ jobs'[j].lease = NoLease /\ jobs'[j].attempts = jobs[j].attempts
  /\ \/ jobs'[j].status = "done" /\ j \in executed
     \/ jobs'[j].status = "dead" /\ jobs[j].attempts >= MaxAttempts
     \/ jobs'[j].status = "queued"

\* Every step leaves a row alone, inserts it, starts it or ends its lease.
LEMMA RowStep ==
  ASSUME QueueInv, [Next]_qvars, NEW j \in JobIds
  PROVE  Unchanged(j) \/ Inserted(j) \/ Started(j) \/ Ended(j)
  <1> USE DEF QueueInv, TypeOK
  <1>1. ASSUME NEW w \in Workers, RequeueExpired(w)
        PROVE  Unchanged(j) \/ Ended(j)
    <2>1. wrk[w].now \in Nat /\ jobs[j] \in Row
      BY DEF Pass
    <2>2. jobs'[j] = RequeuedRow(jobs[j], wrk[w].now)
      BY <1>1 DEF RequeueExpired
    <2>3. /\ jobs'[j].attempts = jobs[j].attempts
          /\ \/ jobs'[j] = jobs[j]
             \/ /\ jobs[j].status = "running"
                /\ jobs'[j].status = "queued"
                /\ jobs'[j].lease = NoLease
      BY <2>1, <2>2, RequeuedRowFacts
    <2>4. jobs[j].status = "running" => jobs[j].attempts >= 1
      BY DEF StartedWasClaimed
    <2> QED BY <2>3, <2>4 DEF Unchanged, Ended
  <1>2. ASSUME NEW w \in Workers, NEW k \in JobIds, Enqueue(w, k)
        PROVE  Unchanged(j) \/ Inserted(j)
    <2>1. wrk[w].now \in Nat
      BY DEF Pass
    <2> QED BY <1>2, <2>1, InsertedRowFacts DEF Enqueue, Unchanged, Inserted
  <1>3. ASSUME NEW w \in Workers, ClaimUpdate(w)
        PROVE  Unchanged(j) \/ Started(j)
    <2>1. wrk[w].now \in Nat /\ jobs[j] \in Row /\ wrk[w].job \in JobIds
      BY <1>3 DEF Pass, ClaimUpdate
    <2>2. CASE wrk[w].job = j
      <3>1. jobs'[j] = ClaimedRow(jobs[j], w, wrk[w].now)
        BY <1>3, <2>2 DEF ClaimUpdate
      <3> QED BY <2>1, <3>1, ClaimedRowFacts DEF Unchanged, Started
    <2>3. CASE wrk[w].job # j
      BY <1>3, <2>3 DEF ClaimUpdate, Unchanged
    <2> QED BY <2>2, <2>3
  <1>4. ASSUME NEW w \in Workers, Complete(w)
        PROVE  Unchanged(j) \/ Ended(j)
    <2>1. jobs[j] \in Row /\ wrk[w].pc = "completing"
      BY <1>4 DEF Complete
    <2>2. CASE wrk[w].job = j
      <3>1. jobs'[j] = CompletedRow(jobs[j])
        BY <1>4, <2>2 DEF Complete
      <3>2. j \in executed /\ jobs[j].status # "absent" /\ jobs[j].attempts >= 1
        BY <2>1, <2>2 DEF PassesSound, Claimed
      <3> QED BY <2>1, <3>1, <3>2, CompletedRowFacts DEF Ended
    <2>3. CASE wrk[w].job # j
      BY <1>4, <2>3 DEF Complete, Unchanged
    <2> QED BY <2>2, <2>3
  <1>5. ASSUME NEW w \in Workers, FailUpdate(w)
        PROVE  Unchanged(j) \/ Ended(j)
    <2>1. /\ jobs[j] \in Row /\ wrk[w].pc = "retrying"
          /\ wrk[w].seen \in Nat /\ wrk[w].now \in Nat
      BY <1>5 DEF FailUpdate, Pass
    <2>2. CASE wrk[w].job = j
      <3>1. jobs'[j] = FailedRow(jobs[j], wrk[w].seen, wrk[w].now)
        BY <1>5, <2>2 DEF FailUpdate
      <3>2. /\ jobs[j].status # "absent" /\ jobs[j].attempts >= 1
            /\ 1 <= wrk[w].seen /\ wrk[w].seen <= jobs[j].attempts
        BY <2>1, <2>2 DEF PassesSound, Claimed
      <3>3. jobs[j].attempts \in Nat /\ MaxAttempts \in Nat
        BY <2>1, QueueAssumption DEF Row
      <3>4. wrk[w].seen >= MaxAttempts => jobs[j].attempts >= MaxAttempts
        BY <2>1, <3>2, <3>3
      <3>5. /\ jobs'[j].lease = NoLease
            /\ jobs'[j].attempts = jobs[j].attempts
            /\ jobs'[j].status = IF wrk[w].seen >= MaxAttempts THEN "dead" ELSE "queued"
        <4>1. /\ jobs[j] \in Row /\ wrk[w].seen \in Nat /\ wrk[w].now \in Nat
              /\ wrk[w].seen >= 1
          BY <2>1, <3>2
        <4>2. LET new == FailedRow(jobs[j], wrk[w].seen, wrk[w].now) IN
              /\ new.lease = NoLease
              /\ new.attempts = jobs[j].attempts
              /\ new.status = IF wrk[w].seen >= MaxAttempts THEN "dead" ELSE "queued"
          BY ONLY <4>1, FailedRowFacts
        <4> QED BY <3>1, <4>2
      <3>6. CASE wrk[w].seen >= MaxAttempts
        BY <3>2, <3>4, <3>5, <3>6 DEF Ended
      <3>7. CASE ~(wrk[w].seen >= MaxAttempts)
        BY <3>2, <3>5, <3>7 DEF Ended
      <3> QED BY <3>6, <3>7
    <2>3. CASE wrk[w].job # j
      BY <1>5, <2>3 DEF FailUpdate, Unchanged
    <2> QED BY <2>2, <2>3
  <1>6. CASE UNCHANGED jobs
    BY <1>6 DEF Unchanged
  <1> QED
    BY <1>1, <1>2, <1>3, <1>4, <1>5, <1>6
    DEF Next, Drain, StartPass, ClaimSelect, HandlerReturns, HandlerRaises,
        CompleteRaises, FailSelect, Crash, Tick, qvars

\* No step forgets an execution.
LEMMA ExecutedGrows == [Next]_qvars => executed \subseteq executed'
  BY DEF Next, Drain, StartPass, RequeueExpired, Enqueue, ClaimSelect, ClaimUpdate,
         HandlerReturns, HandlerRaises, Complete, CompleteRaises, FailSelect,
         FailUpdate, Crash, Tick, qvars

\* The clauses of QueueInv that speak of rows only.
LEMMA RowsStep ==
  QueueInv /\ [Next]_qvars =>
    LeaseIffRunning' /\ DoneMeansExecuted' /\ DeadMeansExhausted' /\ StartedWasClaimed'
  <1> SUFFICES ASSUME QueueInv, [Next]_qvars, NEW j \in JobIds
               PROVE  /\ jobs'[j].status = "running" <=> jobs'[j].lease # NoLease
                      /\ jobs'[j].status = "done" => j \in executed'
                      /\ jobs'[j].status = "dead" => jobs'[j].attempts >= MaxAttempts
                      /\ jobs'[j].status \in {"running", "done", "dead"}
                           => jobs'[j].attempts >= 1
    BY DEF LeaseIffRunning, DoneMeansExecuted, DeadMeansExhausted, StartedWasClaimed
  <1>1. executed \subseteq executed'
    BY ExecutedGrows
  <1>2. jobs[j].attempts \in Nat
    BY DEF QueueInv, TypeOK, Row
  <1>3. CASE Unchanged(j)
    BY <1>1, <1>3 DEF Unchanged, QueueInv, LeaseIffRunning, DoneMeansExecuted,
                      DeadMeansExhausted, StartedWasClaimed
  <1>4. CASE Inserted(j)
    BY <1>4 DEF Inserted
  <1>5. CASE Started(j)
    BY <1>2, <1>5 DEF Started, NoLease
  <1>6. CASE Ended(j)
    BY <1>1, <1>2, <1>6 DEF Ended
  <1> QED BY <1>3, <1>4, <1>5, <1>6, RowStep

\* The clause about passes: what a step does to the pass of worker w, knowing
\* that the attempts of a row that exists never shrink.
LEMMA PassesStep == QueueInv /\ [Next]_qvars => PassesSound'
  <1> SUFFICES ASSUME QueueInv, [Next]_qvars, NEW w \in Workers
               PROVE  LET row == jobs'[wrk'[w].job] IN
                      /\ wrk'[w].pc = "selected" => row.status # "absent"
                      /\ wrk'[w].pc \in Claimed =>
                           row.status # "absent" /\ row.attempts >= 1
                      /\ wrk'[w].pc = "completing" => wrk'[w].job \in executed'
                      /\ wrk'[w].pc = "retrying" =>
                           1 <= wrk'[w].seen /\ wrk'[w].seen <= row.attempts
    BY DEF PassesSound
  <1> DEFINE j == wrk[w].job
  <1>0. /\ wrk[w] \in Pass
        /\ j = NoJob <=> wrk[w].pc \in {"idle", "begun", "scanning"}
        /\ wrk[w].pc \notin {"idle", "begun", "scanning"} => j \in JobIds
    BY DEF QueueInv, TypeOK, Pass
  <1>1. executed \subseteq executed'
    BY ExecutedGrows
  <1>2. ASSUME j \in JobIds, jobs[j].status # "absent"
        PROVE  /\ jobs'[j].status # "absent"
               /\ jobs[j].attempts \in Nat /\ jobs'[j].attempts \in Nat
               /\ jobs'[j].attempts >= jobs[j].attempts
    <2>1. jobs[j].attempts \in Nat
      BY <1>2 DEF QueueInv, TypeOK, Row
    <2>2. Unchanged(j) \/ Inserted(j) \/ Started(j) \/ Ended(j)
      BY <1>2, RowStep
    <2> QED BY <1>2, <2>1, <2>2 DEF Unchanged, Inserted, Started, Ended
  <1>3. CASE wrk'[w] = wrk[w]
    BY <1>0, <1>1, <1>2, <1>3 DEF QueueInv, PassesSound, Claimed, Pass
  <1>4. CASE wrk'[w].pc \in {"idle", "begun", "scanning"}
    BY <1>4 DEF Claimed
  <1>5. CASE ClaimSelect(w) /\ wrk'[w].pc = "selected"
    <2>1. /\ wrk'[w].job \in JobIds /\ jobs[wrk'[w].job].status = "queued"
          /\ jobs' = jobs
      <3>1. PICK k \in Oldest(Runnable(wrk[w].now)) :
              wrk' = [wrk EXCEPT ![w].pc = "selected", ![w].job = k]
        BY <1>5 DEF ClaimSelect, Idle, QueueInv, TypeOK
      <3>2. k \in JobIds /\ jobs[k].status = "queued"
        BY DEF Oldest, Runnable
      <3>3. wrk'[w].job = k
        BY <1>0, <3>1 DEF Pass, QueueInv, TypeOK
      <3> QED BY <1>5, <3>2, <3>3 DEF ClaimSelect
    <2> QED BY <1>5, <2>1 DEF Claimed
  <1>6. CASE ClaimUpdate(w)
    <2>1. /\ j \in JobIds /\ wrk[w].now \in Nat /\ jobs[j] \in Row
          /\ wrk'[w].job = j /\ wrk'[w].pc = "handling"
          /\ jobs[j].status # "absent"
          /\ jobs'[j] = ClaimedRow(jobs[j], w, wrk[w].now)
      BY <1>0, <1>6 DEF ClaimUpdate, QueueInv, TypeOK, PassesSound, Pass
    <2>2. jobs'[j].status # "absent" /\ jobs'[j].attempts >= 1
      <3> DEFINE row == ClaimedRow(jobs[j], w, wrk[w].now)
      <3>1. /\ jobs[j].status = "queued" =>
                 row.status = "running" /\ row.attempts = jobs[j].attempts + 1
            /\ jobs[j].status # "queued" => row = jobs[j]
        BY <2>1, ClaimedRowFacts
      <3>2. jobs[j].attempts \in Nat /\ jobs[j].status \in Statuses
        BY <2>1 DEF Row
      <3>3. CASE jobs[j].status = "queued"
        BY <2>1, <3>1, <3>2, <3>3
      <3>4. CASE jobs[j].status # "queued"
        BY <2>1, <3>1, <3>2, <3>4 DEF QueueInv, StartedWasClaimed, Statuses
      <3> QED BY <3>3, <3>4
    <2> QED BY <2>1, <2>2
  <1>7. CASE HandlerReturns(w)
    <2>1. /\ wrk'[w].job = j /\ wrk'[w].pc = "completing" /\ j \in JobIds
          /\ j \in executed' /\ wrk[w].pc \in Claimed /\ jobs' = jobs
      BY <1>0, <1>7 DEF HandlerReturns, QueueInv, TypeOK, Claimed
    <2> QED BY <2>1 DEF QueueInv, PassesSound
  <1>8. CASE HandlerRaises(w) \/ CompleteRaises(w)
    <2>1. /\ wrk' = [wrk EXCEPT ![w].pc = "failing"] /\ jobs' = jobs
          /\ wrk[w].pc \in {"handling", "completing"}
      BY <1>8 DEF HandlerRaises, CompleteRaises
    <2>2. /\ wrk'[w].job = j /\ wrk'[w].pc = "failing" /\ j \in JobIds
          /\ wrk[w].pc \in Claimed
      BY <1>0, <2>1 DEF QueueInv, TypeOK, Claimed, Pass
    <2> QED BY <2>1, <2>2 DEF QueueInv, PassesSound
  <1>9. CASE FailSelect(w)
    <2>1. /\ wrk'[w].job = j /\ wrk'[w].pc = "retrying" /\ j \in JobIds
          /\ wrk'[w].seen = jobs[j].attempts
          /\ wrk[w].pc \in Claimed /\ jobs' = jobs
      BY <1>0, <1>9 DEF FailSelect, QueueInv, TypeOK, Claimed
    <2>2. jobs[j].attempts \in Nat
      BY <2>1 DEF QueueInv, TypeOK, Row
    <2> QED BY <2>1, <2>2 DEF QueueInv, PassesSound
  <1>10. \/ wrk'[w] = wrk[w]
         \/ wrk'[w].pc \in {"idle", "begun", "scanning"}
         \/ ClaimSelect(w) /\ wrk'[w].pc = "selected"
         \/ ClaimUpdate(w) \/ HandlerReturns(w) \/ HandlerRaises(w)
         \/ CompleteRaises(w) \/ FailSelect(w)
    <2>1. ASSUME NEW v \in Workers, v # w,
                 \/ StartPass(v) \/ RequeueExpired(v) \/ Drain(v) \/ Crash(v)
                 \/ \E k \in JobIds : Enqueue(v, k)
          PROVE  wrk'[w] = wrk[w]
      BY <2>1 DEF StartPass, RequeueExpired, Drain, Crash, Enqueue, ClaimSelect,
                  ClaimUpdate, HandlerReturns, HandlerRaises, Complete, CompleteRaises,
                  FailSelect, FailUpdate, QueueInv, TypeOK
    <2>2. CASE StartPass(w)
      <3>1. wrk'[w] = [wrk[w] EXCEPT !.pc = "begun", !.now = clock]
        BY <2>2 DEF StartPass, QueueInv, TypeOK
      <3> QED BY <1>0, <3>1 DEF Pass
    <2>6. CASE RequeueExpired(w)
      BY <1>0, <2>6 DEF RequeueExpired, QueueInv, TypeOK, Pass
    <2>7. CASE Complete(w) \/ FailUpdate(w) \/ Crash(w)
      <3>1. wrk'[w] = Idle
        BY <2>7 DEF Complete, FailUpdate, Crash, QueueInv, TypeOK
      <3> QED BY <3>1 DEF Idle
    <2>3. CASE \E k \in JobIds : Enqueue(w, k)
      BY <2>3 DEF Enqueue
    <2>4. CASE ClaimSelect(w)
      <3>1. CASE wrk' = [wrk EXCEPT ![w] = Idle]
        BY <3>1 DEF Idle, QueueInv, TypeOK
      <3>2. CASE \E k \in JobIds :
                   wrk' = [wrk EXCEPT ![w].pc = "selected", ![w].job = k]
        BY <1>0, <2>4, <3>2 DEF Pass, QueueInv, TypeOK
      <3> QED BY <2>4, <3>1, <3>2 DEF ClaimSelect, Oldest, Runnable
    <2>5. CASE Tick \/ UNCHANGED qvars
      BY <2>5 DEF Tick, qvars
    <2> QED BY <2>1, <2>2, <2>3, <2>4, <2>5, <2>6, <2>7 DEF Next, Drain
  <1> QED BY <1>3, <1>4, <1>5, <1>6, <1>7, <1>8, <1>9, <1>10

\* Whatever the processes do, the queue keeps its invariant.
THEOREM QueueSafe == Spec => []QueueInv
  <1>1. Init => QueueInv
    <2> SUFFICES ASSUME Init PROVE QueueInv
      OBVIOUS
    <2>1. TypeOK
      BY QueueAssumption DEF Init, TypeOK, AbsentRow, Row, Statuses, NoLease, Idle, Pass, PCs
    <2>2. LeaseIffRunning /\ DoneMeansExecuted /\ DeadMeansExhausted /\ StartedWasClaimed
      BY DEF Init, AbsentRow, LeaseIffRunning, DoneMeansExecuted, DeadMeansExhausted,
             StartedWasClaimed, NoLease
    <2>3. PassesSound
      BY DEF Init, Idle, PassesSound, Claimed
    <2> QED BY <2>1, <2>2, <2>3 DEF QueueInv
  <1>2. QueueInv /\ [Next]_qvars => QueueInv'
    BY TypeStep, RowsStep, PassesStep DEF QueueInv
  <1> QED BY <1>1, <1>2, PTL DEF Spec

\* The columns of every row and the locals of every pass keep their types.
THEOREM QueueTypeCorrect == Spec => []TypeOK
  <1>1. QueueInv => TypeOK
    BY DEF QueueInv
  <1> QED BY <1>1, QueueSafe, PTL

\* No job is ever RUNNING without a lease for requeue_expired to see.
THEOREM NoJobOutOfReach == Spec => []LeaseIffRunning
  <1>1. QueueInv => LeaseIffRunning
    BY DEF QueueInv
  <1> QED BY <1>1, QueueSafe, PTL

\* A DONE job was executed, for any number of workers and any lost leases.
THEOREM DoneWasExecuted == Spec => []DoneMeansExecuted
  <1>1. QueueInv => DoneMeansExecuted
    BY DEF QueueInv
  <1> QED BY <1>1, QueueSafe, PTL

\* A DEAD job was started max_attempts times.
THEOREM DeadWasExhausted == Spec => []DeadMeansExhausted
  <1>1. QueueInv => DeadMeansExhausted
    BY DEF QueueInv
  <1> QED BY <1>1, QueueSafe, PTL

--------------------------------------------------------------------------------
\* The invariant of a lone worker

\* What a step of a lone worker does, action by action, in terms of its own pass
\* and of the row of its job: the worker is w, and w is everyone.
LEMMA LoneStep ==
  ASSUME SingleWorker, [Next]_qvars, NEW w \in Workers
  PROVE  \/ StartPass(w)
         \/ RequeueExpired(w)
         \/ \E j \in JobIds : Enqueue(w, j)
         \/ Drain(w)
         \/ Crash(w)
         \/ Tick
         \/ UNCHANGED qvars
  BY DEF Next, SingleWorker

\* The pass's view of its job stays exact.
LEMMA PassesExactStep ==
  ASSUME SingleWorker, SingleInv, [Next]_qvars
  PROVE  PassesExact'
  <1> SUFFICES ASSUME NEW w \in Workers
               PROVE  LET row == jobs'[wrk'[w].job] IN
                      /\ wrk'[w].pc = "selected" =>
                           row.status = "queued" /\ row.run_after <= wrk'[w].now
                      /\ wrk'[w].pc \in Claimed => row.status = "running"
                      /\ wrk'[w].pc = "retrying" => wrk'[w].seen = row.attempts
    BY DEF PassesExact
  <1> DEFINE k == wrk[w].job
  <1>0. /\ wrk[w] \in Pass
        /\ wrk \in [Workers -> Pass] /\ jobs \in [JobIds -> Row]
        /\ wrk[w].pc \notin {"idle", "begun", "scanning"} => k \in JobIds
        /\ wrk[w].pc = "selected" =>
             jobs[k].status = "queued" /\ jobs[k].run_after <= wrk[w].now
        /\ wrk[w].pc \in Claimed => jobs[k].status = "running"
        /\ wrk[w].pc = "retrying" => wrk[w].seen = jobs[k].attempts
    BY DEF SingleInv, QueueInv, TypeOK, PassesExact, Pass
  <1>1. CASE StartPass(w)
    <2>1. wrk'[w] = [wrk[w] EXCEPT !.pc = "begun", !.now = clock]
      BY <1>0, <1>1 DEF StartPass
    <2>2. wrk'[w].pc = "begun"
      BY <1>0, <2>1 DEF Pass
    <2> QED BY <2>2 DEF Claimed
  <1>2. CASE RequeueExpired(w) \/ \E j \in JobIds : Enqueue(w, j)
    <2>1. wrk'[w].pc = "scanning"
      BY <1>0, <1>2 DEF RequeueExpired, Enqueue, Pass
    <2> QED BY <2>1 DEF Claimed
  <1>3. CASE ClaimSelect(w)
    <2>1. CASE wrk' = [wrk EXCEPT ![w] = Idle]
      BY <1>0, <2>1 DEF Idle, Claimed
    <2>2. CASE \E j \in Oldest(Runnable(wrk[w].now)) :
                 wrk' = [wrk EXCEPT ![w].pc = "selected", ![w].job = j]
      <3>1. PICK j \in Oldest(Runnable(wrk[w].now)) :
              wrk' = [wrk EXCEPT ![w].pc = "selected", ![w].job = j]
        BY <2>2
      <3>2. jobs[j].status = "queued" /\ jobs[j].run_after <= wrk[w].now
        BY DEF Oldest, Runnable
      <3>3. wrk'[w].job = j /\ wrk'[w].pc = "selected" /\ wrk'[w].now = wrk[w].now
        BY <1>0, <3>1 DEF Pass
      <3> QED BY <1>3, <3>2, <3>3 DEF ClaimSelect, Claimed
    <2> QED BY <1>3, <2>1, <2>2 DEF ClaimSelect
  <1>4. CASE ClaimUpdate(w)
    <2>1. /\ k \in JobIds /\ wrk[w].now \in Nat /\ jobs[k].status = "queued"
          /\ wrk'[w].job = k /\ wrk'[w].pc = "handling"
          /\ jobs'[k] = ClaimedRow(jobs[k], w, wrk[w].now)
      BY <1>0, <1>4 DEF ClaimUpdate, Pass
    <2>2. jobs'[k].status = "running"
      BY <1>0, <2>1, ClaimedRowFacts
    <2> QED BY <2>1, <2>2
  <1>5. CASE HandlerReturns(w) \/ HandlerRaises(w) \/ CompleteRaises(w)
    <2>1. /\ jobs' = jobs /\ wrk'[w].job = k /\ wrk[w].pc \in Claimed
          /\ wrk'[w].pc \in {"completing", "failing"}
      BY <1>0, <1>5 DEF HandlerReturns, HandlerRaises, CompleteRaises, Pass, Claimed
    <2> QED BY <1>0, <2>1 DEF Claimed
  <1>6. CASE FailSelect(w)
    <2>1. /\ jobs' = jobs /\ wrk[w].pc \in Claimed
          /\ wrk'[w].job = k /\ wrk'[w].pc = "retrying"
          /\ wrk'[w].seen = jobs[k].attempts
      BY <1>0, <1>6 DEF FailSelect, Pass, Claimed
    <2> QED BY <1>0, <2>1
  <1>7. CASE Complete(w) \/ FailUpdate(w) \/ Crash(w)
    <2>1. wrk'[w].pc = "idle"
      BY <1>0, <1>7 DEF Complete, FailUpdate, Crash, Idle
    <2> QED BY <2>1 DEF Claimed
  <1>8. CASE Tick \/ UNCHANGED qvars
    BY <1>0, <1>8 DEF Tick, qvars
  <1> QED
    BY LoneStep, <1>1, <1>2, <1>3, <1>4, <1>5, <1>6, <1>7, <1>8 DEF Drain

\* What AttemptsPaidFor says of one row
RowPaidFor(j) ==
  /\ jobs[j].attempts <= MaxAttempts + crashes
  /\ jobs[j].status \in {"absent", "queued"} => jobs[j].attempts < MaxAttempts + crashes
  /\ jobs[j].status = "running" /\ (\A w \in Workers : ~Holds(w, j))
       => jobs[j].attempts < MaxAttempts + crashes

\* Every attempt beyond max_attempts stays paid for by a crash.
LEMMA AttemptsStep ==
  ASSUME SingleWorker, SingleInv, [Next]_qvars
  PROVE  AttemptsPaidFor'
  <1> SUFFICES ASSUME NEW j \in JobIds PROVE RowPaidFor(j)'
    BY DEF AttemptsPaidFor, RowPaidFor
  <1>0. /\ wrk \in [Workers -> Pass] /\ jobs \in [JobIds -> Row]
        /\ jobs[j] \in Row /\ jobs[j].attempts \in Nat
        /\ crashes \in Nat /\ MaxAttempts \in Nat \ {0}
        /\ RowPaidFor(j)
    BY QueueAssumption DEF SingleInv, QueueInv, TypeOK, AttemptsPaidFor, RowPaidFor, Row
  <1>1. ASSUME jobs'[j] = jobs[j], crashes' = crashes,
               \A v \in Workers : Holds(v, j) => Holds(v, j)'
        PROVE  RowPaidFor(j)'
    BY <1>0, <1>1 DEF RowPaidFor
  <1>2. ASSUME NEW w \in Workers, Crash(w) PROVE RowPaidFor(j)'
    BY <1>0, <1>2 DEF Crash, RowPaidFor
  <1>3. ASSUME NEW w \in Workers, RequeueExpired(w) PROVE RowPaidFor(j)'
    <2>1. ~Holds(w, j)
      BY <1>3 DEF RequeueExpired, Holds, Claimed
    <2>2. \A v \in Workers : ~Holds(v, j)
      BY <2>1 DEF SingleWorker
    <2>3. crashes' = crashes /\ wrk[w].now \in Nat
          /\ jobs'[j] = RequeuedRow(jobs[j], wrk[w].now)
      BY <1>0, <1>3 DEF RequeueExpired, Pass
    <2>4. /\ jobs'[j].attempts = jobs[j].attempts
          /\ \/ jobs'[j] = jobs[j]
             \/ jobs[j].status = "running" /\ jobs'[j].status = "queued"
      BY <1>0, <2>3, RequeuedRowFacts
    <2> QED BY <1>0, <2>2, <2>3, <2>4 DEF RowPaidFor
  <1>4. ASSUME NEW w \in Workers, NEW i \in JobIds, Enqueue(w, i) PROVE RowPaidFor(j)'
    <2>1. CASE jobs'[j] = jobs[j]
      BY <1>1, <1>4, <2>1 DEF Enqueue, Holds
    <2>2. CASE jobs'[j] # jobs[j]
      <3>1. jobs'[j] = InsertedRow(wrk[w].now) /\ wrk[w].now \in Nat /\ crashes' = crashes
        BY <1>0, <1>4, <2>2 DEF Enqueue, Pass
      <3>2. jobs'[j].status = "queued" /\ jobs'[j].attempts = 0
        BY <3>1, InsertedRowFacts
      <3> QED BY <1>0, <3>1, <3>2 DEF RowPaidFor
    <2> QED BY <2>1, <2>2
  <1>5. ASSUME NEW w \in Workers, ClaimUpdate(w) PROVE RowPaidFor(j)'
    <2>1. /\ wrk[w].job \in JobIds /\ wrk[w].now \in Nat /\ crashes' = crashes
          /\ jobs[wrk[w].job].status = "queued"
          /\ wrk'[w].pc = "handling" /\ wrk'[w].job = wrk[w].job
      BY <1>0, <1>5 DEF ClaimUpdate, SingleInv, QueueInv, TypeOK, PassesExact, Pass
    <2>2. CASE wrk[w].job = j
      <3>1. jobs'[j] = ClaimedRow(jobs[j], w, wrk[w].now)
        BY <1>0, <1>5, <2>2 DEF ClaimUpdate
      <3>2. jobs'[j].status = "running" /\ jobs'[j].attempts = jobs[j].attempts + 1
        BY <1>0, <2>1, <2>2, <3>1, ClaimedRowFacts
      <3>3. Holds(w, j)'
        BY <2>1, <2>2 DEF Holds, Claimed
      <3> QED BY <1>0, <2>1, <2>2, <3>2, <3>3 DEF RowPaidFor
    <2>3. CASE wrk[w].job # j
      <3>1. ~Holds(w, j) /\ jobs'[j] = jobs[j]
        BY <1>0, <1>5, <2>3 DEF ClaimUpdate, Holds
      <3>2. \A v \in Workers : ~Holds(v, j)
        BY <3>1 DEF SingleWorker
      <3> QED BY <1>1, <2>1, <3>1, <3>2
    <2> QED BY <2>2, <2>3
  <1>6. ASSUME NEW w \in Workers, Complete(w) \/ FailUpdate(w), wrk[w].job # j
        PROVE  RowPaidFor(j)'
    <2>1. ~Holds(w, j) /\ jobs'[j] = jobs[j] /\ crashes' = crashes
      BY <1>0, <1>6 DEF Complete, FailUpdate, Holds
    <2>2. \A v \in Workers : ~Holds(v, j)
      BY <2>1 DEF SingleWorker
    <2> QED BY <1>1, <2>1, <2>2
  <1>7. ASSUME NEW w \in Workers, Complete(w), wrk[w].job = j PROVE RowPaidFor(j)'
    <2>1. jobs'[j] = CompletedRow(jobs[j]) /\ crashes' = crashes
      BY <1>0, <1>7 DEF Complete
    <2>2. jobs'[j].status = "done" /\ jobs'[j].attempts = jobs[j].attempts
      BY <1>0, <2>1, CompletedRowFacts
    <2> QED BY <1>0, <2>1, <2>2 DEF RowPaidFor
  <1>8. ASSUME NEW w \in Workers, FailUpdate(w), wrk[w].job = j PROVE RowPaidFor(j)'
    <2>1. /\ jobs'[j] = FailedRow(jobs[j], wrk[w].seen, wrk[w].now) /\ crashes' = crashes
          /\ wrk[w].now \in Nat
      BY <1>0, <1>8 DEF FailUpdate, Pass
    <2>2. wrk[w].seen = jobs[j].attempts /\ wrk[w].seen >= 1
      BY <1>0, <1>8 DEF FailUpdate, SingleInv, QueueInv, PassesExact, PassesSound
    <2> DEFINE new == FailedRow(jobs[j], wrk[w].seen, wrk[w].now)
    <2>3. /\ new.attempts = jobs[j].attempts
          /\ new.status = IF wrk[w].seen >= MaxAttempts THEN "dead" ELSE "queued"
      BY <1>0, <2>1, <2>2, FailedRowFacts
    <2>4. jobs'[j] = new
      BY <2>1
    <2> HIDE DEF new
    <2> QED BY <1>0, <2>1, <2>2, <2>3, <2>4 DEF RowPaidFor
  <1>9. ASSUME NEW w \in Workers,
               \/ StartPass(w) \/ ClaimSelect(w) \/ HandlerReturns(w)
               \/ HandlerRaises(w) \/ CompleteRaises(w) \/ FailSelect(w)
        PROVE  RowPaidFor(j)'
    <2>1. jobs' = jobs /\ crashes' = crashes
      BY <1>9 DEF StartPass, ClaimSelect, HandlerReturns, HandlerRaises,
                  CompleteRaises, FailSelect
    <2>2. Holds(w, j) => Holds(w, j)'
      BY <1>0, <1>9 DEF StartPass, ClaimSelect, HandlerReturns, HandlerRaises,
                        CompleteRaises, FailSelect, Holds, Claimed, Pass
    <2>3. \A v \in Workers : Holds(v, j) => Holds(v, j)'
      BY <2>2 DEF SingleWorker
    <2> QED BY <1>1, <2>1, <2>3
  <1>10. ASSUME Tick \/ UNCHANGED qvars PROVE RowPaidFor(j)'
    BY <1>0, <1>10 DEF Tick, qvars, RowPaidFor, Holds
  <1> QED
    BY <1>2, <1>3, <1>4, <1>5, <1>6, <1>7, <1>8, <1>9, <1>10 DEF Next, Drain

\* A lone worker keeps SingleInv.
THEOREM SingleSafe ==
  ASSUME SingleWorker
  PROVE  Spec => []SingleInv
  <1>1. Init => PassesExact /\ AttemptsPaidFor
    BY QueueAssumption DEF Init, PassesExact, AttemptsPaidFor, AbsentRow, Idle, Claimed, Holds
  <1>2. QueueInv' /\ SingleInv /\ [Next]_qvars => SingleInv'
    BY PassesExactStep, AttemptsStep DEF SingleInv
  <1>3. QueueInv /\ PassesExact /\ AttemptsPaidFor => SingleInv
    BY DEF SingleInv
  <1> QED BY <1>1, <1>2, <1>3, QueueSafe, PTL DEF Spec

\* With a lone worker a job is started at most max_attempts times, and once more
\* for every pass that was cut off: the exact price of a sweep that re-queues
\* without looking at attempts.
THEOREM StartsAreBounded ==
  ASSUME SingleWorker
  PROVE  Spec => []AttemptsBounded
  <1>1. SingleInv => AttemptsBounded
    BY DEF SingleInv, AttemptsPaidFor, AttemptsBounded
  <1> QED BY <1>1, SingleSafe, PTL

--------------------------------------------------------------------------------
\* Claims and retries

\* A lone worker only ever turns a queued job into a running one by the UPDATE of
\* a claim whose SELECT is still true of the row.
LEMMA LoneStart ==
  ASSUME SingleWorker, SingleInv, [Next]_qvars, NEW j \in JobIds,
         jobs[j].status = "queued", jobs'[j].status = "running"
  PROVE  \E w \in Workers : ClaimUpdate(w) /\ wrk[w].job = j
  <1>0. wrk \in [Workers -> Pass] /\ jobs \in [JobIds -> Row]
    BY DEF SingleInv, QueueInv, TypeOK
  <1>1. ASSUME NEW w \in Workers, RequeueExpired(w) PROVE FALSE
    <2>1. jobs'[j] = RequeuedRow(jobs[j], wrk[w].now) /\ wrk[w].now \in Nat
      BY <1>0, <1>1 DEF RequeueExpired, Pass
    <2> QED BY <1>0, <2>1, RequeuedRowFacts
  <1>2. ASSUME NEW w \in Workers, NEW i \in JobIds, Enqueue(w, i) PROVE FALSE
    BY <1>0, <1>2 DEF Enqueue
  <1>3. ASSUME NEW w \in Workers, Complete(w) \/ FailUpdate(w) PROVE FALSE
    <2>1. wrk[w].job = j
      BY <1>0, <1>3 DEF Complete, FailUpdate
    <2>2. jobs[j].status = "running"
      BY <1>3, <2>1 DEF Complete, FailUpdate, SingleInv, PassesExact, Claimed
    <2> QED BY <2>2
  <1>4. ASSUME NEW w \in Workers, ClaimUpdate(w) PROVE wrk[w].job = j
    BY <1>0, <1>4 DEF ClaimUpdate
  <1>5. jobs' # jobs
    OBVIOUS
  <1> QED
    BY <1>1, <1>2, <1>3, <1>4, <1>5
    DEF Next, Drain, StartPass, ClaimSelect, HandlerReturns, HandlerRaises,
        CompleteRaises, FailSelect, Crash, Tick, qvars

\* A lone worker starts no job before its backoff is over.
THEOREM BackoffIsHonoured ==
  ASSUME SingleWorker
  PROVE  Spec => RetryHonoursBackoff
  <1>1. ASSUME SingleInv, [Next]_qvars, NEW j \in JobIds,
               jobs[j].status = "queued", jobs'[j].status = "running"
        PROVE  jobs[j].run_after <= clock
    <2>1. PICK w \in Workers : ClaimUpdate(w) /\ wrk[w].job = j
      BY <1>1, LoneStart
    <2>2. jobs[j].run_after <= wrk[w].now
      BY <1>1, <2>1 DEF ClaimUpdate, SingleInv, PassesExact
    <2>3. wrk[w].now \in Nat /\ clock \in Nat /\ jobs[j].run_after \in Nat
      BY <1>1 DEF SingleInv, QueueInv, TypeOK, Pass, Row
    <2>4. wrk[w].now <= clock
      BY <1>1 DEF SingleInv, QueueInv, TypeOK
    <2> QED BY <2>2, <2>3, <2>4
  <1>2. SingleInv /\ [Next]_qvars =>
          [\A j \in JobIds :
             jobs[j].status = "queued" /\ jobs'[j].status = "running"
               => jobs[j].run_after <= clock]_qvars
    BY <1>1
  <1> QED BY <1>2, SingleSafe, PTL DEF Spec, RetryHonoursBackoff

--------------------------------------------------------------------------------
\* Refinement

\* The phases of JobLifecycle, read off the table.
LEMMA PhaseFacts ==
  ASSUME NEW row \in Row
  PROVE  /\ row.status = "absent" => PhaseOf(row) = "absent"
         /\ row.status = "queued" => PhaseOf(row) = "waiting"
         /\ row.status = "running" => PhaseOf(row) = "leased"
         /\ row.status = "done" => PhaseOf(row) = "done"
         /\ row.status = "dead" => PhaseOf(row) = "dead"
  BY DEF PhaseOf

Phase == [j \in JobIds |-> PhaseOf(jobs[j])]

\* A step that changes the row of one job moves its phase and no other.
LEMMA OneRowMoves ==
  ASSUME NEW k \in JobIds, NEW new,
         jobs \in [JobIds -> Row], jobs' = [jobs EXCEPT ![k] = new]
  PROVE  /\ Phase' = [Phase EXCEPT ![k] = PhaseOf(new)]
         /\ Phase[k] = PhaseOf(jobs[k])
  BY DEF Phase

\* Each step of a lone worker is a step of the lifecycle, or leaves it alone.
LEMMA LifecycleStep ==
  ASSUME SingleWorker, SingleInv, SingleInv', [Next]_qvars
  PROVE  [Lifecycle!LNext]_<<Phase, executed>>
  <1>0. /\ wrk \in [Workers -> Pass] /\ jobs \in [JobIds -> Row]
        /\ jobs' \in [JobIds -> Row]
    BY DEF SingleInv, QueueInv, TypeOK
  <1>1. CASE jobs' = jobs /\ executed' = executed
    BY <1>1 DEF Phase
  <1>2. ASSUME NEW w \in Workers, RequeueExpired(w) PROVE Lifecycle!LNext
    <2> DEFINE S == {j \in JobIds : Expired(jobs[j], wrk[w].now)}
    <2>1. \A j \in S : Phase[j] = "leased"
      BY <1>0, PhaseFacts DEF Phase, Expired
    <2>2. ASSUME NEW j \in JobIds
          PROVE  PhaseOf(jobs'[j]) = IF j \in S THEN "waiting" ELSE Phase[j]
      <3>1. jobs'[j] = RequeuedRow(jobs[j], wrk[w].now)
        BY <1>0, <1>2 DEF RequeueExpired
      <3>2. CASE j \in S
        <4>1. jobs'[j].status = "queued" /\ jobs'[j] \in Row
          BY <1>0, <3>1, <3>2 DEF RequeuedRow, Row
        <4> QED BY <3>2, <4>1, PhaseFacts
      <3>3. CASE j \notin S
        <4>1. jobs'[j] = jobs[j]
          BY <3>1, <3>3 DEF RequeuedRow
        <4> QED BY <3>3, <4>1 DEF Phase
      <3> QED BY <3>2, <3>3
    <2>3. Phase' = [j \in JobIds |-> IF j \in S THEN "waiting" ELSE Phase[j]]
      BY <2>2 DEF Phase
    <2>4. Lifecycle!Return(S)
      BY <1>2, <2>1, <2>3 DEF Lifecycle!Return, RequeueExpired, Phase
    <2> QED BY <2>4 DEF Lifecycle!LNext
  <1>3. ASSUME NEW w \in Workers, NEW i \in JobIds, Enqueue(w, i), jobs' # jobs
        PROVE  Lifecycle!LNext
    <2>1. /\ jobs[i].status = "absent" /\ wrk[w].now \in Nat
          /\ jobs' = [jobs EXCEPT ![i] = InsertedRow(wrk[w].now)]
      BY <1>0, <1>3 DEF Enqueue, Pass
    <2>2. Phase[i] = "absent" /\ PhaseOf(InsertedRow(wrk[w].now)) = "waiting"
      BY <1>0, <2>1, OneRowMoves, PhaseFacts, InsertedRowFacts
    <2>3. Lifecycle!Submit(i)
      BY <1>0, <1>3, <2>1, <2>2, OneRowMoves
      DEF Lifecycle!Submit, Lifecycle!Move, Enqueue, Phase
    <2> QED BY <2>3 DEF Lifecycle!LNext
  <1>4. ASSUME NEW w \in Workers, ClaimUpdate(w) PROVE Lifecycle!LNext
    <2> DEFINE k == wrk[w].job
               new == ClaimedRow(jobs[k], w, wrk[w].now)
    <2>1. /\ k \in JobIds /\ wrk[w].now \in Nat /\ jobs[k].status = "queued"
          /\ jobs[k] \in Row
      BY <1>0, <1>4 DEF ClaimUpdate, SingleInv, QueueInv, TypeOK, PassesExact, Pass
    <2>2. jobs' = [jobs EXCEPT ![k] = new] /\ executed' = executed
      BY <1>4 DEF ClaimUpdate
    <2>3. new \in Row /\ new.status = "running"
      BY <2>1, ClaimedRowFacts
    <2> HIDE DEF new
    <2>4. Phase[k] = "waiting" /\ Phase' = [Phase EXCEPT ![k] = "leased"]
      <3>1. PhaseOf(jobs[k]) = "waiting" /\ PhaseOf(new) = "leased"
        BY <2>1, <2>3, PhaseFacts
      <3>2. Phase' = [Phase EXCEPT ![k] = PhaseOf(new)] /\ Phase[k] = PhaseOf(jobs[k])
        BY <1>0, <2>1, <2>2, OneRowMoves
      <3> QED BY <3>1, <3>2
    <2>5. Lifecycle!Lease(k)
      BY <2>2, <2>4 DEF Lifecycle!Lease, Lifecycle!Move, Phase
    <2> QED BY <2>1, <2>5 DEF Lifecycle!LNext
  <1>5. ASSUME NEW w \in Workers, HandlerReturns(w) PROVE Lifecycle!LNext
    <2> DEFINE k == wrk[w].job
    <2>1. /\ k \in JobIds /\ jobs[k].status = "running"
          /\ jobs' = jobs /\ executed' = executed \cup {k}
      BY <1>0, <1>5
      DEF HandlerReturns, SingleInv, QueueInv, TypeOK, PassesExact, Claimed, Pass
    <2>2. Phase[k] = "leased" /\ Phase' = Phase
      BY <1>0, <2>1, PhaseFacts DEF Phase
    <2>3. Lifecycle!Run(k)
      BY <2>1, <2>2 DEF Lifecycle!Run, Phase
    <2> QED BY <2>1, <2>3 DEF Lifecycle!LNext
  <1>6. ASSUME NEW w \in Workers, Complete(w) PROVE Lifecycle!LNext
    <2> DEFINE k == wrk[w].job
               new == CompletedRow(jobs[k])
    <2>1. /\ k \in JobIds /\ jobs[k].status = "running" /\ jobs[k] \in Row
          /\ k \in executed
      BY <1>0, <1>6
      DEF Complete, SingleInv, QueueInv, TypeOK, PassesExact, PassesSound, Claimed, Pass
    <2>2. jobs' = [jobs EXCEPT ![k] = new] /\ executed' = executed
      BY <1>6 DEF Complete
    <2>3. new \in Row /\ new.status = "done"
      BY <2>1, CompletedRowFacts
    <2> HIDE DEF new
    <2>4. Phase[k] = "leased" /\ Phase' = [Phase EXCEPT ![k] = "done"]
      <3>1. PhaseOf(jobs[k]) = "leased" /\ PhaseOf(new) = "done"
        BY <2>1, <2>3, PhaseFacts
      <3>2. Phase' = [Phase EXCEPT ![k] = PhaseOf(new)] /\ Phase[k] = PhaseOf(jobs[k])
        BY <1>0, <2>1, <2>2, OneRowMoves
      <3> QED BY <3>1, <3>2
    <2>5. Lifecycle!Finish(k)
      BY <2>1, <2>2, <2>4 DEF Lifecycle!Finish, Lifecycle!Move, Phase
    <2> QED BY <2>1, <2>5 DEF Lifecycle!LNext
  <1>7. ASSUME NEW w \in Workers, FailUpdate(w) PROVE Lifecycle!LNext
    <2> DEFINE k == wrk[w].job
               new == FailedRow(jobs[k], wrk[w].seen, wrk[w].now)
    <2>1. /\ k \in JobIds /\ jobs[k].status = "running" /\ jobs[k] \in Row
          /\ wrk[w].seen \in Nat /\ wrk[w].seen >= 1 /\ wrk[w].now \in Nat
      BY <1>0, <1>7
      DEF FailUpdate, SingleInv, QueueInv, TypeOK, PassesExact, PassesSound, Claimed, Pass
    <2>2. jobs' = [jobs EXCEPT ![k] = new] /\ executed' = executed
      BY <1>7 DEF FailUpdate
    <2>3. new \in Row /\ new.status \in {"dead", "queued"}
      BY <2>1, FailedRowFacts
    <2> HIDE DEF new
    <2>4. Phase[k] = "leased" /\ Phase' = [Phase EXCEPT ![k] = PhaseOf(new)]
      BY <1>0, <2>1, <2>2, OneRowMoves, PhaseFacts
    <2>5. CASE new.status = "dead"
      <3>1. Phase' = [Phase EXCEPT ![k] = "dead"]
        BY <2>3, <2>4, <2>5, PhaseFacts
      <3>2. Lifecycle!Bury(k)
        BY <2>2, <2>4, <3>1 DEF Lifecycle!Bury, Lifecycle!Move, Phase
      <3> QED BY <2>1, <3>2 DEF Lifecycle!LNext
    <2>6. CASE new.status = "queued"
      <3>1. Phase' = [Phase EXCEPT ![k] = "waiting"]
        BY <2>3, <2>4, <2>6, PhaseFacts
      <3>2. Phase' = [j \in JobIds |-> IF j \in {k} THEN "waiting" ELSE Phase[j]]
        BY <3>1 DEF Phase
      <3>3. Lifecycle!Return({k})
        BY <2>2, <2>4, <3>2 DEF Lifecycle!Return, Phase
      <3> QED BY <2>1, <3>3 DEF Lifecycle!LNext
    <2> QED BY <2>3, <2>5, <2>6
  <1> QED
    BY <1>1, <1>2, <1>3, <1>4, <1>5, <1>6, <1>7
    DEF Next, Drain, StartPass, Enqueue, ClaimSelect, HandlerRaises, CompleteRaises,
        FailSelect, Crash, Tick, qvars

\* A lone worker's queue implements the lifecycle: in particular DONE and DEAD
\* are final, and a job is DONE only after an execution under a lease.
THEOREM QueueImplementsLifecycle ==
  ASSUME SingleWorker
  PROVE  Spec => FollowsLifecycle
  <1>1. Init => Lifecycle!LInit
    BY DEF Init, Lifecycle!LInit, AbsentRow, PhaseOf
  <1>2. SingleInv /\ SingleInv' /\ [Next]_qvars => [Lifecycle!LNext]_<<Phase, executed>>
    BY LifecycleStep
  <1> QED BY <1>1, <1>2, SingleSafe, PTL DEF Spec, FollowsLifecycle, Lifecycle!LSpec, Phase
================================================================================
