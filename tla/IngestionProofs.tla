---------------------------- MODULE IngestionProofs ----------------------------
(***************************************************************************)
(* Proofs about what feeds the store and what tells of it, for every number*)
(* of jobs, batches, accounts, pages and reports.                          *)
(***************************************************************************)
EXTENDS JobManager, DeadLetters, Crosswalk, ComplianceGraph, Collector, Alerts, DataLemmas

--------------------------------------------------------------------------------
\* The job manager (JobManager): eviction removes finished jobs only.

\* What eviction does to a list that ends in an unfinished job: it keeps
\* every unfinished job, and adds none.
LEMMA EvictedFacts ==
  ASSUME NEW s \in Seq(Jobs), NEW status, Len(s) > 0, status[s[Len(s)]] \in Unfinished
  PROVE  /\ Evicted(s, status) \in Seq(Jobs)
         /\ \A i \in 1..Len(s) : status[s[i]] \in Unfinished =>
              \E k \in 1..Len(Evicted(s, status)) : Evicted(s, status)[k] = s[i]
  <1> DEFINE n == Len(s)
             surplus == n - MaxJobs
             stops == {k \in 1..n : k > surplus \/ status[s[k]] \in Unfinished}
             h == EndedHead(s, status)
             rest == SubSeq(s, h + 1, n)
  <1>1. n \in Nat /\ n \in stops /\ stops \in SUBSET Nat
    BY LenProperties
  <1>2. PICK m \in stops : \A other \in stops : m <= other
    <2> HIDE DEF stops
    <2> QED  BY <1>1, LeastNatural
  <1>3. h \in Int /\ h + 1 \in stops /\ \A other \in stops : h + 1 <= other
    <2> DEFINE least == CHOOSE k \in stops : \A other \in stops : k <= other
    <2>1. least \in stops /\ \A other \in stops : least <= other
      <3> HIDE DEF stops
      <3> QED  BY <1>2
    <2>2. h = least - 1  BY DEF EndedHead
    <2>3. least \in Nat  BY <1>1, <2>1
    <2> HIDE DEF least, h
    <2> QED  BY <2>1, <2>2, <2>3
  <1>4. h + 1 \in 1..n  BY <1>3
  <1>5. h \in 0..(n - 1)  BY <1>1, <1>3, <1>4
  <1>6. \A i \in 1..n : status[s[i]] \in Unfinished => i >= h + 1
    BY <1>3
  <1> HIDE DEF h
  <1>7. /\ rest \in Seq(Jobs) /\ Len(rest) = n - h
        /\ \A i \in 1..(n - h) : rest[i] = s[h + i]
    <2>1. \A i \in (h + 1)..n : s[i] \in Jobs
      <3> SUFFICES ASSUME NEW i \in (h + 1)..n PROVE s[i] \in Jobs
        OBVIOUS
      <3>1. i \in 1..Len(s)  BY <1>1, <1>5
      <3> QED  BY <3>1, ElementOfSeq
    <2>2. h + 1 \in Int /\ n \in Int /\ h + 1 <= n /\ n - (h + 1) + 1 = n - h
      BY <1>1, <1>5
    <2>3. /\ rest \in Seq(Jobs) /\ Len(rest) = n - (h + 1) + 1
          /\ \A i \in 1..(n - (h + 1) + 1) : rest[i] = s[(h + 1) + i - 1]
      BY <2>1, <2>2, SubSeqProperties
    <2>4. \A i \in 1..(n - h) : (h + 1) + i - 1 = h + i  BY <1>1, <1>5
    <2> HIDE DEF rest
    <2> QED  BY <2>2, <2>3, <2>4
  <1>8. ASSUME NEW i \in 1..n, status[s[i]] \in Unfinished
        PROVE  i - h \in 1..Len(rest) /\ rest[i - h] = s[i]
    <2>1. i - h \in 1..(n - h) /\ h + (i - h) = i  BY <1>1, <1>5, <1>6, <1>8
    <2> HIDE DEF rest
    <2> QED  BY <1>7, <2>1
  <1>9. CASE n - h <= MaxJobs
    <2>1. Evicted(s, status) = rest  BY <1>9 DEF Evicted, h
    <2> HIDE DEF rest
    <2> QED  BY <1>7, <1>8, <2>1
  <1>10. CASE ~(n - h <= MaxJobs)
    <2> DEFINE moved == Append(Tail(rest), Head(rest))
    <2>1. Evicted(s, status) = moved  BY <1>10 DEF Evicted, h
    <2>2. rest # <<>>
      <3>1. Len(rest) > 0  BY <1>1, <1>5, <1>7
      <3> HIDE DEF rest
      <3> QED  BY <3>1
    <2>3. /\ Head(rest) = rest[1] /\ Head(rest) \in Jobs /\ Tail(rest) \in Seq(Jobs)
          /\ Len(Tail(rest)) = n - h - 1
          /\ \A k \in 1..(n - h - 1) : Tail(rest)[k] = rest[k + 1]
      <3> HIDE DEF rest
      <3> QED  BY <1>7, <2>2, HeadTailProperties
    <2>4. /\ moved \in Seq(Jobs) /\ Len(moved) = n - h
          /\ \A k \in 1..(n - h - 1) : moved[k] = rest[k + 1]
          /\ moved[n - h] = rest[1]
      <3> HIDE DEF rest
      <3> QED  BY <1>1, <1>5, <2>3, AppendProperties
    <2>5. ASSUME NEW i \in 1..n, status[s[i]] \in Unfinished
          PROVE  \E k \in 1..Len(moved) : moved[k] = s[i]
      <3>1. i - h \in 1..(n - h) /\ rest[i - h] = s[i]  BY <1>7, <1>8, <2>5
      <3>2. CASE i - h = 1
        <4>1. n - h \in 1..Len(moved) /\ moved[n - h] = s[i]
          BY <1>1, <1>5, <2>4, <3>1, <3>2
        <4> QED  BY <4>1
      <3>3. CASE i - h # 1
        <4>1. i - h - 1 \in 1..(n - h - 1) /\ (i - h - 1) + 1 = i - h
          BY <1>1, <1>5, <3>1, <3>3
        <4>2. i - h - 1 \in 1..Len(moved) /\ moved[i - h - 1] = s[i]
          <5> HIDE DEF moved, rest
          <5> QED  BY <1>1, <1>5, <2>4, <3>1, <4>1
        <4> QED  BY <4>2
      <3> QED  BY <3>2, <3>3
    <2> HIDE DEF moved
    <2> QED  BY <2>1, <2>4, <2>5
  <1> QED  BY <1>1, <1>5, <1>9, <1>10

\* A job is looked after: it is listed as unfinished, or its row has ended or
\* is about to, or the store refused it an update.
LookedAfter(j) ==
  \/ j \in DOMAIN listed /\ listed[j] \in Unfinished
  \/ Ended(j) \/ j \in refused
  \/ worker.job = j /\ worker.at \in Settled

JobTypeOK ==
  /\ submit \in [Jobs -> {"new", "listed", "filed", "refused", "put", "gone"}]
  /\ listed = [j \in DOMAIN listed |-> listed[j]]
  /\ order \in Seq(Jobs) /\ fifo \in Seq(Jobs)
  /\ rows = [j \in DOMAIN rows |-> rows[j]]
  /\ worker \in [at : {"idle", "dead", "running", "working", "done", "error"},
                 job : Jobs \cup {NoJob}]

\* Who is where: the list is in order; a job has no row before it is filed,
\* and has one when it is put; the worker's job is one that was put, and
\* while its row is to say running, it is listed so.
ListOrdered == \A j \in DOMAIN listed : \E k \in DOMAIN order : order[k] = j

RowsAreOfFiled ==
  \A j \in Jobs : /\ submit[j] \in {"new", "listed"} => j \notin DOMAIN rows
                  /\ submit[j] \in {"filed", "put"} => j \in DOMAIN rows

QueueIsOfPut == \A k \in DOMAIN fifo : submit[fifo[k]] = "put"

WorkerPlaced ==
  /\ worker.at \notin {"idle", "dead"} => worker.job \in Jobs /\ submit[worker.job] = "put"
  /\ worker.at = "running" => worker.job \in DOMAIN listed /\ listed[worker.job] = "running"

JobPlaces == ListOrdered /\ RowsAreOfFiled /\ QueueIsOfPut /\ WorkerPlaced

ActiveLookedAfter ==
  \A j \in Jobs : submit[j] \in {"listed", "filed", "put"} => LookedAfter(j)

JobInv == JobTypeOK /\ JobPlaces /\ ActiveLookedAfter

\* No job is submitted at first.
LEMMA JobInitInv == JobInit => JobInv
  <1> SUFFICES ASSUME JobInit PROVE JobInv
    OBVIOUS
  <1>1. JobTypeOK  BY DEF JobInit, JobTypeOK, Idle
  <1>2. JobPlaces
    BY DEF JobInit, JobPlaces, ListOrdered, RowsAreOfFiled, QueueIsOfPut, WorkerPlaced, Idle
  <1>3. ActiveLookedAfter  BY DEF JobInit, ActiveLookedAfter
  <1> QED  BY <1>1, <1>2, <1>3 DEF JobInv

\* A job is listed, and finished ones give way.
LEMMA ListStep == ASSUME JobInv, NEW j \in Jobs, List(j) PROVE JobInv'
  <1> DEFINE status == RowsWith(listed, j, "queued")
             remaining == Evicted(Append(order, j), status)
  <1>1. /\ submit[j] = "new" /\ order' = remaining
        /\ listed' = [x \in {remaining[k] : k \in 1..Len(remaining)} |-> status[x]]
        /\ submit' = [submit EXCEPT ![j] = "listed"]
        /\ fifo' = fifo /\ rows' = rows /\ worker' = worker /\ refused' = refused
    BY DEF List
  <1>2. /\ status[j] = "queued" /\ \A x \in DOMAIN listed : x # j => status[x] = listed[x]
        /\ status[j] \in Unfinished
    BY DEF RowsWith, Unfinished
  <1>3. /\ Append(order, j) \in Seq(Jobs) /\ Len(Append(order, j)) = Len(order) + 1
        /\ Append(order, j)[Len(order) + 1] = j
        /\ \A k \in 1..Len(order) : Append(order, j)[k] = order[k]
        /\ Len(order) \in Nat /\ DOMAIN order = 1..Len(order)
    BY AppendProperties, LenProperties DEF JobInv, JobTypeOK
  <1>4. /\ remaining \in Seq(Jobs)
        /\ \A i \in 1..(Len(order) + 1) : status[Append(order, j)[i]] \in Unfinished =>
             \E k \in 1..Len(remaining) : remaining[k] = Append(order, j)[i]
    <2> DEFINE longer == Append(order, j)
    <2>1. longer \in Seq(Jobs) /\ Len(longer) = Len(order) + 1 /\ Len(longer) > 0
          /\ status[longer[Len(longer)]] \in Unfinished
      BY <1>2, <1>3
    <2>2. remaining = Evicted(longer, status)  OBVIOUS
    <2> HIDE DEF status, remaining, longer
    <2>3. /\ Evicted(longer, status) \in Seq(Jobs)
          /\ \A i \in 1..Len(longer) : status[longer[i]] \in Unfinished =>
               \E k \in 1..Len(Evicted(longer, status)) : Evicted(longer, status)[k] = longer[i]
      BY <2>1, EvictedFacts
    <2> QED  BY <2>1, <2>2, <2>3 DEF longer
  <1> HIDE DEF status, remaining
  <1>5. /\ DOMAIN remaining = 1..Len(remaining) /\ remaining \in Seq(Jobs)
        /\ DOMAIN listed' = {remaining[k] : k \in 1..Len(remaining)}
    BY <1>1, <1>4, LenProperties
  <1>6. j \in DOMAIN listed' /\ listed'[j] = "queued"
    <2>1. Len(order) + 1 \in 1..(Len(order) + 1)  BY <1>3
    <2>2. \E k \in 1..Len(remaining) : remaining[k] = j  BY <1>2, <1>3, <1>4, <2>1
    <2> QED  BY <1>1, <1>2, <1>5, <2>2
  <1>7. ASSUME NEW x \in DOMAIN listed, x # j, listed[x] \in Unfinished
        PROVE  x \in DOMAIN listed' /\ listed'[x] = listed[x]
    <2>1. PICK i \in DOMAIN order : order[i] = x  BY DEF JobInv, JobPlaces, ListOrdered
    <2>2. i \in 1..(Len(order) + 1) /\ Append(order, j)[i] = x  BY <1>3, <2>1
    <2>3. \E k \in 1..Len(remaining) : remaining[k] = x  BY <1>2, <1>4, <1>7, <2>2
    <2> QED  BY <1>1, <1>2, <1>5, <1>7, <2>3
  <1>8. \A x \in Jobs : submit'[x] = IF x = j THEN "listed" ELSE submit[x]
    BY <1>1 DEF JobInv, JobTypeOK
  <1>9. JobTypeOK'  BY <1>1, <1>5 DEF JobInv, JobTypeOK
  <1>10. JobPlaces'
    <2>1. ListOrdered'  BY <1>1, <1>5 DEF ListOrdered
    <2>2. \A k \in DOMAIN fifo : fifo[k] \in Jobs
      BY LenProperties, ElementOfSeq DEF JobInv, JobTypeOK
    <2>3. QueueIsOfPut'
      BY <1>1, <1>8, <2>2 DEF JobInv, JobPlaces, QueueIsOfPut
    <2>4. RowsAreOfFiled'
      BY <1>1, <1>8 DEF JobInv, JobPlaces, RowsAreOfFiled
    <2>5. WorkerPlaced'
      BY <1>1, <1>7, <1>8 DEF JobInv, JobPlaces, WorkerPlaced, Unfinished
    <2> QED  BY <2>1, <2>3, <2>4, <2>5 DEF JobPlaces
  <1>11. ActiveLookedAfter'
    <2> SUFFICES ASSUME NEW x \in Jobs, submit'[x] \in {"listed", "filed", "put"}
                 PROVE  LookedAfter(x)'
      BY DEF ActiveLookedAfter
    <2>1. CASE x = j  BY <1>6, <2>1 DEF LookedAfter, Unfinished
    <2>2. CASE x # j
      <3>1. LookedAfter(x)  BY <1>8, <2>2 DEF JobInv, ActiveLookedAfter
      <3> QED  BY <1>1, <1>7, <2>2, <3>1 DEF LookedAfter, Ended
    <2> QED  BY <2>1, <2>2
  <1> QED  BY <1>9, <1>10, <1>11 DEF JobInv

\* An operation that changes neither list nor worker, and ends no row's end.
LEMMA RequestStep ==
  ASSUME JobInv, NEW j \in Jobs, NEW to \in {"filed", "refused", "put"},
         submit[j] \in {"listed", "filed"},
         submit' = [submit EXCEPT ![j] = to],
         UNCHANGED <<listed, order, worker>>, refused \subseteq refused',
         rows' = rows \/ (submit[j] = "listed" /\ rows' = RowsWith(rows, j, "queued")),
         to = "filed" => submit[j] = "listed" /\ rows' = RowsWith(rows, j, "queued"),
         to = "refused" => rows' = rows,
         to = "put" => submit[j] = "filed" /\ rows' = rows,
         fifo' = fifo \/ (to = "put" /\ fifo' = Append(fifo, j))
  PROVE  JobInv'
  <1>1. \A x \in Jobs : submit'[x] = IF x = j THEN to ELSE submit[x]
    BY DEF JobInv, JobTypeOK
  <1>2. /\ DOMAIN rows' \in {DOMAIN rows, DOMAIN rows \cup {j}}
        /\ \A x \in DOMAIN rows : x # j => rows'[x] = rows[x]
        /\ rows' = [x \in DOMAIN rows' |-> rows'[x]]
    BY DEF RowsWith, JobInv, JobTypeOK
  <1>3. fifo' \in Seq(Jobs) /\ \A k \in DOMAIN fifo' :
          (k \in DOMAIN fifo /\ fifo'[k] = fifo[k]) \/ (to = "put" /\ fifo'[k] = j)
    <2>1. fifo \in Seq(Jobs) /\ DOMAIN fifo = 1..Len(fifo) /\ Len(fifo) \in Nat
      BY LenProperties DEF JobInv, JobTypeOK
    <2>2. CASE fifo' = fifo  BY <2>1, <2>2
    <2>3. CASE to = "put" /\ fifo' = Append(fifo, j)
      <3>1. /\ fifo' \in Seq(Jobs) /\ Len(fifo') = Len(fifo) + 1 /\ fifo'[Len(fifo) + 1] = j
            /\ \A k \in 1..Len(fifo) : fifo'[k] = fifo[k]
        BY <2>1, <2>3, AppendProperties
      <3>2. DOMAIN fifo' = 1..(Len(fifo) + 1)  BY <3>1, LenProperties
      <3> QED  BY <2>1, <2>3, <3>1, <3>2
    <2> QED  BY <2>2, <2>3
  <1>4. JobTypeOK'  BY <1>1, <1>2, <1>3 DEF JobInv, JobTypeOK
  <1>5. \A k \in DOMAIN fifo : fifo[k] \in Jobs /\ submit[fifo[k]] = "put"
    BY LenProperties, ElementOfSeq DEF JobInv, JobTypeOK, JobPlaces, QueueIsOfPut
  <1>6. RowsAreOfFiled'
    <2> SUFFICES ASSUME NEW x \in Jobs
                 PROVE  /\ submit'[x] \in {"new", "listed"} => x \notin DOMAIN rows'
                        /\ submit'[x] \in {"filed", "put"} => x \in DOMAIN rows'
      BY DEF RowsAreOfFiled
    <2>1. CASE x # j  BY <1>1, <1>2, <2>1 DEF JobInv, JobPlaces, RowsAreOfFiled
    <2>2. CASE x = j  BY <1>1, <2>2 DEF JobInv, JobPlaces, RowsAreOfFiled, RowsWith
    <2> QED  BY <2>1, <2>2
  <1>7. QueueIsOfPut'  BY <1>1, <1>3, <1>5 DEF QueueIsOfPut
  <1>8. JobPlaces'
    <2>1. ListOrdered'  BY DEF JobInv, JobPlaces, ListOrdered
    <2>2. WorkerPlaced'  BY <1>1 DEF JobInv, JobPlaces, WorkerPlaced
    <2> QED  BY <1>6, <1>7, <2>1, <2>2 DEF JobPlaces
  <1>9. ActiveLookedAfter'
    <2> SUFFICES ASSUME NEW x \in Jobs, submit'[x] \in {"listed", "filed", "put"}
                 PROVE  LookedAfter(x)'
      BY DEF ActiveLookedAfter
    <2>1. LookedAfter(x)  BY <1>1 DEF JobInv, ActiveLookedAfter
    <2>2. Ended(x) => Ended(x)'
      <3>1. CASE x = j /\ submit[j] = "listed"
        BY <3>1 DEF JobInv, JobPlaces, RowsAreOfFiled, Ended
      <3>2. CASE rows' = rows  BY <3>2 DEF Ended
      <3>3. CASE x # j  BY <1>2, <3>3 DEF Ended
      <3> QED  BY <3>1, <3>2, <3>3
    <2> QED  BY <2>1, <2>2 DEF LookedAfter
  <1> QED  BY <1>4, <1>8, <1>9 DEF JobInv

\* A worker's step changes the status of one job that was put, in the list or
\* in its row, and leaves the requests alone.
LEMMA WorkerChange ==
  ASSUME JobInv, NEW j \in Jobs, submit[j] = "put",
         UNCHANGED <<submit, order>>,
         fifo' \in Seq(Jobs), \A k \in DOMAIN fifo' : \E i \in DOMAIN fifo : fifo'[k] = fifo[i],
         listed' = listed
           \/ \E status \in {"running", "done", "error"} : listed' = [listed EXCEPT ![j] = status],
         rows' = rows
           \/ \E status \in {"running", "done", "error"} : rows' = [rows EXCEPT ![j] = status],
         refused \subseteq refused',
         worker.at \in {"idle", "dead"} \/ worker.job = j,
         worker' \in [at : {"idle", "dead", "running", "working", "done", "error"},
                     job : Jobs \cup {NoJob}],
         WorkerPlaced', LookedAfter(j)'
  PROVE  JobInv'
  <1>1. /\ DOMAIN listed' = DOMAIN listed /\ \A x \in DOMAIN listed \ {j} : listed'[x] = listed[x]
        /\ listed' = [x \in DOMAIN listed' |-> listed'[x]]
    BY DEF JobInv, JobTypeOK
  <1>2. /\ DOMAIN rows' = DOMAIN rows /\ \A x \in DOMAIN rows \ {j} : rows'[x] = rows[x]
        /\ rows' = [x \in DOMAIN rows' |-> rows'[x]]
    BY DEF JobInv, JobTypeOK
  <1>3. JobTypeOK'  BY <1>1, <1>2 DEF JobInv, JobTypeOK
  <1>4. JobPlaces'
    <2>1. ListOrdered'  BY <1>1 DEF JobInv, JobPlaces, ListOrdered
    <2>2. RowsAreOfFiled'  BY <1>2 DEF JobInv, JobPlaces, RowsAreOfFiled
    <2>3. QueueIsOfPut'  BY DEF JobInv, JobPlaces, QueueIsOfPut
    <2> QED  BY <2>1, <2>2, <2>3 DEF JobPlaces
  <1>5. ActiveLookedAfter'
    <2> SUFFICES ASSUME NEW x \in Jobs, submit[x] \in {"listed", "filed", "put"}, x # j
                 PROVE  LookedAfter(x)'
      BY DEF ActiveLookedAfter
    <2>1. LookedAfter(x)  BY DEF JobInv, ActiveLookedAfter
    <2>2. Ended(x) => Ended(x)'  BY <1>2 DEF Ended
    <2> QED  BY <1>1, <2>1, <2>2 DEF LookedAfter, Settled
  <1> QED  BY <1>3, <1>4, <1>5 DEF JobInv

\* The memory half of an update.
LEMMA MirrorFacts ==
  ASSUME JobInv, NEW j \in Jobs, NEW status \in {"running", "done", "error"},
         Mirror(j, status, status)
  PROVE  /\ listed' = listed \/ listed' = [listed EXCEPT ![j] = status]
         /\ worker' \in [at : {"idle", "dead", "running", "working", "done", "error"},
                        job : Jobs \cup {NoJob}]
         /\ worker'.at \notin {"idle", "dead"} => worker'.job = j
         /\ worker'.at = "running" => j \in DOMAIN listed' /\ listed'[j] = "running"
         /\ \/ listed' = listed /\ j \notin DOMAIN listed
            \/ j \in DOMAIN listed' /\ listed'[j] \in Unfinished
            \/ worker'.job = j /\ worker'.at \in Settled
  <1>1. CASE j \in DOMAIN listed
    <2>1. listed' = [listed EXCEPT ![j] = status] /\ worker' = [at |-> status, job |-> j]
      BY <1>1 DEF Mirror
    <2>2. j \in DOMAIN listed' /\ listed'[j] = status
      BY <1>1, <2>1
    <2> QED  BY <2>1, <2>2 DEF Unfinished, Settled
  <1>2. CASE j \notin DOMAIN listed
    BY <1>2 DEF Mirror, Idle
  <1> QED  BY <1>1, <1>2

\* The worker takes up the head of the queue.
LEMMA TakeStep == ASSUME JobInv, Take PROVE JobInv'
  <1>0. PICK j : j = Head(fifo)  OBVIOUS
  <1>1. /\ worker.at = "idle" /\ fifo # <<>> /\ Mirror(j, "running", "running")
        /\ fifo' = Tail(fifo) /\ UNCHANGED <<submit, order, rows, refused>>
    BY <1>0 DEF Take
  <1>2. /\ fifo \in Seq(Jobs) /\ DOMAIN fifo = 1..Len(fifo) /\ Len(fifo) \in Nat
    BY LenProperties DEF JobInv, JobTypeOK
  <1>3. /\ j \in Jobs /\ fifo' \in Seq(Jobs) /\ Len(fifo') = Len(fifo) - 1
        /\ \A k \in 1..Len(fifo') : fifo'[k] = fifo[k + 1]
    BY <1>0, <1>1, <1>2, HeadTailProperties
  <1>4. DOMAIN fifo' = 1..Len(fifo')  BY <1>3, LenProperties
  <1>5. \A k \in DOMAIN fifo' : k + 1 \in DOMAIN fifo /\ fifo'[k] = fifo[k + 1]
    BY <1>2, <1>3, <1>4
  <1>6. submit[j] = "put"
    <2>1. Len(fifo) # 0  BY <1>1, <1>2, EmptySeq
    <2>2. 1 \in DOMAIN fifo /\ j = fifo[1]  BY <1>0, <1>2, <2>1
    <2> QED  BY <2>2 DEF JobInv, JobPlaces, QueueIsOfPut
  <1>7. WorkerPlaced'  BY <1>1, <1>3, <1>6, MirrorFacts DEF WorkerPlaced
  <1>8. LookedAfter(j)'
    <2>1. LookedAfter(j)  BY <1>3, <1>6 DEF JobInv, ActiveLookedAfter
    <2>2. Ended(j) => Ended(j)'  BY <1>1 DEF Ended
    <2>3. ~(worker.at \in Settled)  BY <1>1 DEF Settled
    <2> QED  BY <1>1, <1>3, <2>1, <2>2, <2>3, MirrorFacts DEF LookedAfter
  <1> QED  BY <1>1, <1>3, <1>5, <1>6, <1>7, <1>8, MirrorFacts, WorkerChange

\* The work ends one way or the other.
LEMMA WorkEndsStep ==
  ASSUME JobInv, NEW status \in Settled, WorkEnds(status)
  PROVE  JobInv'
  <1>0. PICK j : j = worker.job  OBVIOUS
  <1>1. /\ worker.at = "working" /\ Mirror(j, status, status)
        /\ UNCHANGED <<submit, order, fifo, rows, refused>> /\ status \in {"running", "done", "error"}
    BY <1>0 DEF WorkEnds, Settled
  <1>2. j \in Jobs /\ submit[j] = "put"  BY <1>0, <1>1 DEF JobInv, JobPlaces, WorkerPlaced
  <1>3. WorkerPlaced'  BY <1>0, <1>1, <1>2, MirrorFacts DEF WorkerPlaced
  <1>4. LookedAfter(j)'
    <2>1. LookedAfter(j)  BY <1>2 DEF JobInv, ActiveLookedAfter
    <2>2. Ended(j) => Ended(j)'  BY <1>0, <1>1 DEF Ended
    <2>3. ~(worker.at \in Settled)  BY <1>0, <1>1 DEF Settled
    <2> QED  BY <1>0, <1>1, <1>2, <2>1, <2>2, <2>3, MirrorFacts DEF LookedAfter
  <1>5. fifo' \in Seq(Jobs) /\ \A k \in DOMAIN fifo' : \E i \in DOMAIN fifo : fifo'[k] = fifo[i]
    BY <1>0, <1>1 DEF JobInv, JobTypeOK
  <1> QED  BY <1>0, <1>1, <1>2, <1>3, <1>4, <1>5, MirrorFacts, WorkerChange

\* The row of the job in hand is mirrored.
LEMMA WriteRowStep == ASSUME JobInv, WriteRow PROVE JobInv'
  <1>0. PICK j : j = worker.job  OBVIOUS
  <1>1. /\ worker.at \in {"running", "done", "error"} /\ rows' = [rows EXCEPT ![j] = worker.at]
        /\ UNCHANGED <<submit, listed, order, fifo, refused>>
    BY <1>0 DEF WriteRow, Settled
  <1>2. j \in Jobs /\ submit[j] = "put" /\ j \in DOMAIN rows
    BY <1>0, <1>1 DEF JobInv, JobPlaces, WorkerPlaced, RowsAreOfFiled
  <1>3. /\ worker' \in [at : {"idle", "dead", "running", "working", "done", "error"},
                       job : Jobs \cup {NoJob}]
        /\ worker'.at \in {"idle", "working"} /\ (worker'.at = "working" => worker'.job = j)
    BY <1>0 DEF WriteRow, Idle, JobInv, JobTypeOK
  <1>4. WorkerPlaced'  BY <1>0, <1>1, <1>2, <1>3 DEF WorkerPlaced
  <1>5. LookedAfter(j)'
    <2>1. CASE worker.at = "running"
      BY <1>0, <1>1, <2>1 DEF LookedAfter, JobInv, JobPlaces, WorkerPlaced, Unfinished
    <2>2. CASE worker.at \in {"done", "error"}
      <3>1. Ended(j)'  BY <1>0, <1>1, <1>2, <2>2 DEF Ended, Settled
      <3> QED  BY <3>1 DEF LookedAfter
    <2> QED  BY <1>1, <2>1, <2>2
  <1>6. fifo' \in Seq(Jobs) /\ \A k \in DOMAIN fifo' : \E i \in DOMAIN fifo : fifo'[k] = fifo[i]
    BY <1>0, <1>1 DEF JobInv, JobTypeOK
  <1> QED  BY <1>0, <1>1, <1>2, <1>3, <1>4, <1>5, <1>6, WorkerChange

\* The store refuses the row.
LEMMA RowRefusedStep == ASSUME JobInv, RowRefused PROVE JobInv'
  <1>0. PICK j : j = worker.job  OBVIOUS
  <1>1. /\ worker.at \in {"running", "done", "error"} /\ refused' = refused \cup {j}
        /\ UNCHANGED <<submit, order, fifo, rows>>
        /\ (worker.at = "done" => Mirror(j, "error", "error"))
        /\ (worker.at # "done" => worker' = Dead /\ listed' = listed)
    BY <1>0 DEF RowRefused, Refuse, Settled
  <1>2. j \in Jobs /\ submit[j] = "put"  BY <1>0, <1>1 DEF JobInv, JobPlaces, WorkerPlaced
  <1>3. LookedAfter(j)'  BY <1>0, <1>1 DEF LookedAfter
  <1>4. fifo' \in Seq(Jobs) /\ \A k \in DOMAIN fifo' : \E i \in DOMAIN fifo : fifo'[k] = fifo[i]
    BY <1>0, <1>1 DEF JobInv, JobTypeOK
  <1>5. CASE worker.at = "done"
    <2>1. WorkerPlaced'  BY <1>0, <1>1, <1>2, <1>5, MirrorFacts DEF WorkerPlaced
    <2> QED  BY <1>0, <1>1, <1>2, <1>3, <1>4, <1>5, <2>1, MirrorFacts, WorkerChange
  <1>6. CASE worker.at # "done"
    <2>1. WorkerPlaced'  BY <1>0, <1>1, <1>6 DEF WorkerPlaced, Dead
    <2>2. worker' \in [at : {"idle", "dead", "running", "working", "done", "error"},
                      job : Jobs \cup {NoJob}]
      BY <1>0, <1>1, <1>6 DEF Dead
    <2> QED  BY <1>0, <1>1, <1>2, <1>3, <1>4, <1>6, <2>1, <2>2, WorkerChange
  <1> QED  BY <1>5, <1>6

\* A new process has an empty list, and the rows.
LEMMA RestartStep == ASSUME JobInv, Restart PROVE JobInv'
  <1>1. /\ submit' = [j \in Jobs |-> IF submit[j] = "new" THEN "new" ELSE "gone"]
        /\ listed' = <<>> /\ order' = <<>> /\ fifo' = <<>> /\ worker' = Idle
        /\ rows' = [j \in DOMAIN rows |-> IF Stuck(rows[j]) THEN "error" ELSE rows[j]]
    BY DEF Restart
  <1>2. DOMAIN listed' = {} /\ DOMAIN fifo' = {} /\ DOMAIN rows' = DOMAIN rows
    BY <1>1
  <1>3. JobTypeOK'  BY <1>1 DEF JobInv, JobTypeOK, Idle
  <1>4. JobPlaces'
    BY <1>1, <1>2 DEF JobInv, JobPlaces, ListOrdered, RowsAreOfFiled, QueueIsOfPut,
       WorkerPlaced, Idle
  <1>5. ActiveLookedAfter'  BY <1>1 DEF ActiveLookedAfter
  <1> QED  BY <1>3, <1>4, <1>5 DEF JobInv

\* Every step keeps the active jobs listed, and the listed jobs looked after.
LEMMA JobStepInv == JobInv /\ [JobNext]_jobVars => JobInv'
  <1> SUFFICES ASSUME JobInv, [JobNext]_jobVars PROVE JobInv'
    OBVIOUS
  <1>1. ASSUME NEW j \in Jobs, Create(j)  PROVE JobInv'
    BY <1>1, RequestStep DEF Create
  <1>2. ASSUME NEW j \in Jobs, CreateRefused(j)  PROVE JobInv'
    BY <1>2, RequestStep DEF CreateRefused, Refuse
  <1>3. ASSUME NEW j \in Jobs, Put(j)  PROVE JobInv'
    BY <1>3, RequestStep DEF Put
  <1>4. CASE WorkerStep  BY <1>4, TakeStep, WorkEndsStep, WriteRowStep DEF WorkerStep
  <1>5. CASE UNCHANGED jobVars
    BY <1>5 DEF jobVars, JobInv, JobTypeOK, JobPlaces, ListOrdered, RowsAreOfFiled,
       QueueIsOfPut,
                WorkerPlaced, ActiveLookedAfter, LookedAfter, Ended
  <1> QED  BY <1>1, <1>2, <1>3, <1>4, <1>5, ListStep, RowRefusedStep, RestartStep DEF JobNext

\* For any number of jobs and any size of the list: eviction loses no job that
\* waits or is at work (jobs.JobManager._evict_locked, _update and _loop).
THEOREM ActiveAlwaysStaysListed == JobSpec => []ActiveStaysListed
  <1>1. JobInv => ActiveStaysListed
    BY DEF JobInv, ActiveLookedAfter, LookedAfter, ActiveStaysListed
  <1> QED  BY JobInitInv, JobStepInv, <1>1, PTL DEF JobSpec

--------------------------------------------------------------------------------
\* Dead letters (DeadLetters): what is in no file is on its way to one, or was
\* taken for a retry.

LetterFiles == {Attempt1, Attempt2, Manual}

LettersTypeOK ==
  /\ queues \in [LetterFiles -> SUBSET Entries] /\ files \in [LetterFiles -> SUBSET Entries]
  /\ saving \in {<<>>, <<Manual>>, <<Attempt2, Manual>>, SaveOrder}
  /\ fate = [log \in Entries |-> fate[log]]
  /\ todo \subseteq Entries /\ hand \subseteq Entries

\* A file that is not due to be saved holds what its queue holds.
FilesFollow ==
  /\ saving = <<>> => files = queues
  /\ saving = <<Manual>> => \A f \in {Attempt1, Attempt2} : files[f] = queues[f]
  /\ saving = <<Attempt2, Manual>> => files[Attempt1] = queues[Attempt1]

\* What a retry took is still to be run, or recovered, or filed for review;
\* and once the files are saved it is in hand no longer when it is filed.
HandAccounted ==
  /\ hand \subseteq todo \cup recovered \cup queues[Manual]
  /\ ~Locked => hand \subseteq todo \cup recovered

\* Until it is reviewed, a log that is to be retried is in hand, or on file
\* for review already; and one that is put on file for review is in hand
\* until the file is written.
ManualBacked ==
  \A log \in Entries : fate[log] # "reviewed" =>
    /\ log \in todo => log \in hand \/ log \in queues[Manual] \cap files[Manual]
    /\ log \in queues[Manual] => log \in files[Manual] \cup hand

SubmittingQueued ==
  \A log \in Entries : fate[log] = "submitting" => Locked /\ log \in queues[Attempt1]

\* A queued log is found both in the queues and in the files.
QueuedFound ==
  \A log \in Entries : fate[log] = "queued" =>
    /\ log \in queues[Attempt1] \cup queues[Manual] \cup hand \cup interrupted
    /\ log \in files[Attempt1] \cup files[Manual] \cup hand \cup interrupted

LetterInv ==
  LettersTypeOK /\ FilesFollow /\ HandAccounted /\ ManualBacked /\ SubmittingQueued /\ QueuedFound

\* The three files have three names.
LEMMA LetterNames == Attempt1 # Attempt2 /\ Attempt1 # Manual /\ Attempt2 # Manual
  BY DEF Attempt1, Attempt2, Manual

\* What the lock's save sequences are.
LEMMA SaveOrders ==
  /\ SaveOrder # <<>> /\ <<Manual>> # <<>> /\ <<Attempt2, Manual>> # <<>>
  /\ SaveOrder # <<Manual>> /\ SaveOrder # <<Attempt2, Manual>>
  /\ <<Manual>> # <<Attempt2, Manual>>
  /\ Head(SaveOrder) = Attempt1 /\ Tail(SaveOrder) = <<Attempt2, Manual>> /\ Len(SaveOrder) > 1
  /\ Head(<<Attempt2, Manual>>) = Attempt2 /\ Tail(<<Attempt2, Manual>>) = <<Manual>>
  /\ Len(<<Attempt2, Manual>>) > 1
  /\ Head(<<Manual>>) = Manual /\ Tail(<<Manual>>) = <<>> /\ ~(Len(<<Manual>>) > 1)
  <1>1. Len(SaveOrder) = 3 /\ Len(<<Attempt2, Manual>>) = 2 /\ Len(<<Manual>>) = 1 /\ Len(<<>>) = 0
    BY DEF SaveOrder
  <1>2. Tail(SaveOrder) = <<Attempt2, Manual>>  BY DEF SaveOrder
  <1>3. Tail(<<Attempt2, Manual>>) = <<Manual>>  OBVIOUS
  <1>4. Tail(<<Manual>>) = <<>>  OBVIOUS
  <1> QED  BY <1>1, <1>2, <1>3, <1>4 DEF SaveOrder

\* Every file and queue is empty at first.
LEMMA LetterInitInv == LetterInit => LetterInv
  <1> SUFFICES ASSUME LetterInit PROVE LetterInv
    OBVIOUS
  <1> USE DEF LetterInit
  <1>1. LettersTypeOK  BY DEF LettersTypeOK, LetterFiles
  <1>2. FilesFollow /\ HandAccounted  BY DEF FilesFollow, HandAccounted
  <1>3. ManualBacked /\ SubmittingQueued /\ QueuedFound
    BY DEF ManualBacked, SubmittingQueued, QueuedFound, LetterFiles
  <1> QED  BY <1>1, <1>2, <1>3 DEF LetterInv

\* The parts of the invariant that an operation needs when the lock is free.
LEMMA Unlocked ==
  ASSUME LetterInv, ~Locked
  PROVE  saving = <<>> /\ files = queues /\ hand \subseteq todo \cup recovered
         /\ \A log \in Entries : fate[log] # "submitting"
  BY DEF LetterInv, FilesFollow, HandAccounted, SubmittingQueued, Locked

\* An operation that changed the queues starts saving; no file is due yet.
LEMMA AllToSave ==
  ASSUME LetterInv, saving' = SaveOrder
  PROVE  FilesFollow' /\ Locked'
  BY SaveOrders DEF FilesFollow, Locked

\* A log succeeds, or its failure is queued.
LEMMA RunLogStep ==
  ASSUME LetterInv, NEW log \in Entries, NEW outcome \in Outcomes, RunLog(log, outcome)
  PROVE  LetterInv'
  <1>1. /\ files' = files /\ todo' = todo /\ hand' = hand /\ recovered' = recovered
        /\ interrupted' = interrupted /\ ~Locked
        /\ fate' \in {[fate EXCEPT ![log] = "submitting"], [fate EXCEPT ![log] = "succeeded"]}
        /\ fate[log] = "new"
    BY DEF RunLog
  <1>2. /\ fate' = [l \in Entries |-> fate'[l]]
        /\ \A l \in Entries \ {log} : fate'[l] = fate[l]
        /\ fate'[log] \in {"submitting", "succeeded"}
    BY <1>1 DEF LetterInv, LettersTypeOK
  <1>3. CASE outcome = "stage"
    <2>1. /\ queues' \in [LetterFiles -> SUBSET Entries] /\ saving' = SaveOrder
          /\ queues'[Attempt1] = queues[Attempt1] \cup {log}
          /\ queues'[Manual] = queues[Manual]
      BY <1>3, LetterNames DEF RunLog, LetterInv, LettersTypeOK, LetterFiles
    <2>2. FilesFollow' /\ Locked'  BY <2>1, AllToSave
    <2>3. LettersTypeOK'  BY <1>1, <1>2, <2>1 DEF LetterInv, LettersTypeOK
    <2>4. HandAccounted'  BY <1>1, <2>1, <2>2 DEF LetterInv, HandAccounted
    <2>5. ManualBacked'  BY <1>1, <1>2, <2>1 DEF LetterInv, ManualBacked
    <2>6. SubmittingQueued'  BY <1>1, <1>2, <2>1, <2>2 DEF LetterInv, SubmittingQueued
    <2>7. QueuedFound'  BY <1>1, <1>2, <2>1 DEF LetterInv, QueuedFound
    <2> QED  BY <2>2, <2>3, <2>4, <2>5, <2>6, <2>7 DEF LetterInv
  <1>4. CASE outcome # "stage"
    <2>1. queues' = queues /\ saving' = saving /\ fate'[log] = "succeeded"
      BY <1>4 DEF RunLog, LetterInv, LettersTypeOK
    <2>2. LettersTypeOK'  BY <1>1, <1>2, <2>1 DEF LetterInv, LettersTypeOK
    <2>3. FilesFollow' /\ HandAccounted'
      BY <1>1, <2>1 DEF LetterInv, FilesFollow, HandAccounted, Locked
    <2>4. ManualBacked'  BY <1>1, <1>2, <2>1 DEF LetterInv, ManualBacked
    <2>5. SubmittingQueued'  BY <1>1, <1>2, <2>1 DEF LetterInv, SubmittingQueued, Locked
    <2>6. QueuedFound'  BY <1>1, <1>2, <2>1 DEF LetterInv, QueuedFound
    <2> QED  BY <2>2, <2>3, <2>4, <2>5, <2>6 DEF LetterInv
  <1> QED  BY <1>3, <1>4

\* One file of the three is written.
LEMMA SaveNextStep == ASSUME LetterInv, SaveNext PROVE LetterInv'
  <1>0. /\ queues' = queues /\ todo' = todo /\ recovered' = recovered
        /\ interrupted' = interrupted
        /\ queues \in [LetterFiles -> SUBSET Entries] /\ files \in [LetterFiles -> SUBSET Entries]
    BY DEF SaveNext, LetterInv, LettersTypeOK
  <1>1. ASSUME NEW f \in {Attempt1, Attempt2}, Head(saving) = f, Len(saving) > 1,
               saving' \in {<<Attempt2, Manual>>, <<Manual>>}, FilesFollow'
        PROVE  LetterInv'
    <2>1. fate' = fate /\ hand' = hand /\ files' = [files EXCEPT ![f] = queues[f]]
      BY <1>1 DEF SaveNext
    <2>2. /\ files' \in [LetterFiles -> SUBSET Entries] /\ files'[Manual] = files[Manual]
          /\ files'[Attempt1] \in {files[Attempt1], queues[Attempt1]}
      BY <1>0, <2>1, LetterNames DEF LetterFiles
    <2>3. Locked /\ Locked'  BY <1>1, SaveOrders DEF SaveNext, Locked
    <2>4. LettersTypeOK'  BY <1>0, <1>1, <2>1, <2>2 DEF LetterInv, LettersTypeOK
    <2>5. HandAccounted'  BY <1>0, <2>1, <2>3 DEF LetterInv, HandAccounted
    <2>6. ManualBacked'  BY <1>0, <2>1, <2>2 DEF LetterInv, ManualBacked
    <2>7. SubmittingQueued'  BY <1>0, <2>1, <2>3 DEF LetterInv, SubmittingQueued
    <2>8. QueuedFound'
      <3> SUFFICES ASSUME NEW log \in Entries, fate[log] = "queued"
                   PROVE  log \in files'[Attempt1] \cup files'[Manual] \cup hand \cup interrupted
        BY <1>0, <2>1 DEF LetterInv, QueuedFound
      <3>1. log \in queues[Manual] => log \in files[Manual] \cup hand
        BY DEF LetterInv, ManualBacked
      <3> QED  BY <2>2, <3>1 DEF LetterInv, QueuedFound
    <2> QED  BY <1>1, <2>4, <2>5, <2>6, <2>7, <2>8 DEF LetterInv
  <1>2. CASE saving = SaveOrder
    <2>1. saving' = <<Attempt2, Manual>> /\ Head(saving) = Attempt1 /\ Len(saving) > 1
      BY <1>2, SaveOrders DEF SaveNext
    <2>2. files'[Attempt1] = queues'[Attempt1]
      BY <1>0, <2>1 DEF SaveNext, LetterFiles
    <2>3. FilesFollow'  BY <2>1, <2>2, SaveOrders DEF FilesFollow
    <2> QED  BY <1>1, <2>1, <2>3
  <1>3. CASE saving = <<Attempt2, Manual>>
    <2>1. saving' = <<Manual>> /\ Head(saving) = Attempt2 /\ Len(saving) > 1
      BY <1>3, SaveOrders DEF SaveNext
    <2>2. files'[Attempt1] = queues'[Attempt1] /\ files'[Attempt2] = queues'[Attempt2]
      BY <1>0, <1>3, <2>1, LetterNames DEF SaveNext, LetterFiles, LetterInv, FilesFollow
    <2>3. FilesFollow'  BY <2>1, <2>2, SaveOrders DEF FilesFollow
    <2> QED  BY <1>1, <2>1, <2>3
  <1>4. CASE saving = <<Manual>>
    <2>1. saving' = <<>> /\ Head(saving) = Manual /\ ~(Len(saving) > 1)
      BY <1>4, SaveOrders DEF SaveNext
    <2>2. files' = queues
      <3>1. files' = [files EXCEPT ![Manual] = queues[Manual]]  BY <2>1 DEF SaveNext
      <3>2. files[Attempt1] = queues[Attempt1] /\ files[Attempt2] = queues[Attempt2]
        BY <1>4 DEF LetterInv, FilesFollow
      <3> QED  BY <1>0, <3>1, <3>2 DEF LetterFiles
    <2>3. /\ hand' = hand \ queues[Manual]
          /\ fate' = [l \in Entries |-> IF fate[l] = "submitting" THEN "queued" ELSE fate[l]]
      BY <2>1 DEF SaveNext
    <2>4. ~Locked'  BY <2>1 DEF Locked
    <2>5. LettersTypeOK'  BY <1>0, <2>1, <2>2, <2>3 DEF LetterInv, LettersTypeOK
    <2>6. FilesFollow'  BY <1>0, <2>1, <2>2, SaveOrders DEF FilesFollow
    <2>7. HandAccounted'  BY <1>0, <2>3, <2>4 DEF LetterInv, HandAccounted
    <2>8. ManualBacked'
      <3> SUFFICES ASSUME NEW log \in Entries, fate'[log] # "reviewed"
                   PROVE  /\ log \in todo => log \in hand' \/ log \in queues[Manual]
        BY <1>0, <2>2 DEF ManualBacked
      <3>1. fate[log] # "reviewed"  BY <2>3
      <3> QED  BY <2>3, <3>1 DEF LetterInv, ManualBacked
    <2>9. SubmittingQueued'  BY <2>3 DEF SubmittingQueued
    <2>10. QueuedFound'
      <3> SUFFICES ASSUME NEW log \in Entries, fate'[log] = "queued"
                   PROVE  log \in queues[Attempt1] \cup queues[Manual] \cup hand' \cup interrupted
        BY <1>0, <2>2 DEF QueuedFound
      <3>1. CASE fate[log] = "submitting"  BY <3>1 DEF LetterInv, SubmittingQueued
      <3>2. CASE fate[log] = "queued"  BY <2>3, <3>2 DEF LetterInv, QueuedFound
      <3> QED  BY <2>3, <3>1, <3>2
    <2> QED  BY <2>5, <2>6, <2>7, <2>8, <2>9, <2>10 DEF LetterInv
  <1> QED  BY <1>2, <1>3, <1>4 DEF SaveNext, Locked, LetterInv, LettersTypeOK

\* A retry takes up the queues.
LEMMA TakeAllStep == ASSUME LetterInv, TakeAll PROVE LetterInv'
  <1>1. /\ ~Locked /\ hand = {} /\ todo' = queues[Attempt1] /\ hand' = queues[Attempt1]
        /\ files' = files /\ recovered' = recovered /\ fate' = fate
        /\ interrupted' = interrupted /\ saving' = SaveOrder
    BY DEF TakeAll
  <1>2. /\ queues' \in [LetterFiles -> SUBSET Entries] /\ queues[Attempt1] \subseteq Entries
        /\ queues'[Manual] = queues[Manual]
    BY LetterNames DEF TakeAll, LetterInv, LettersTypeOK, LetterFiles
  <1>3. files = queues /\ \A log \in Entries : fate[log] # "submitting"
    BY <1>1, Unlocked
  <1>4. FilesFollow' /\ Locked'  BY <1>1, AllToSave
  <1>5. LettersTypeOK'  BY <1>1, <1>2 DEF LetterInv, LettersTypeOK
  <1>6. HandAccounted'  BY <1>1, <1>4 DEF HandAccounted
  <1>7. ManualBacked'  BY <1>1, <1>2, <1>3 DEF ManualBacked
  <1>8. SubmittingQueued'  BY <1>1, <1>3 DEF SubmittingQueued
  <1>9. QueuedFound'  BY <1>1, <1>2, <1>3 DEF LetterInv, QueuedFound
  <1> QED  BY <1>4, <1>5, <1>6, <1>7, <1>8, <1>9 DEF LetterInv

\* A retried log recovers, or fails for the next queue.
LEMMA RetryStep ==
  ASSUME LetterInv, NEW log \in Entries, NEW outcome \in Outcomes, Retry(log, outcome)
  PROVE  LetterInv'
  <1>1. /\ ~Locked /\ log \in todo /\ todo' = todo \ {log}
        /\ files' = files /\ hand' = hand /\ fate' = fate /\ interrupted' = interrupted
    BY DEF Retry
  <1>2. saving = <<>> /\ files = queues /\ hand \subseteq todo \cup recovered
        /\ \A l \in Entries : fate[l] # "submitting"
    BY <1>1, Unlocked
  <1>3. CASE IsFailure(outcome)
    <2>1. queues' = FailedAgain(log) /\ saving' = SaveOrder /\ recovered' = recovered
      BY <1>3 DEF Retry
    <2>2. /\ queues' \in [LetterFiles -> SUBSET Entries]
          /\ queues'[Manual] = queues[Manual] \cup {log}
          /\ queues'[Attempt1] = queues[Attempt1]
      BY <2>1, LetterNames DEF FailedAgain, LetterInv, LettersTypeOK, LetterFiles
    <2>3. FilesFollow' /\ Locked'  BY <2>1, AllToSave
    <2>4. LettersTypeOK'  BY <1>1, <2>1, <2>2 DEF LetterInv, LettersTypeOK
    <2>5. HandAccounted'  BY <1>1, <1>2, <2>1, <2>2, <2>3 DEF HandAccounted
    <2>6. ManualBacked'  BY <1>1, <1>2, <2>2 DEF LetterInv, ManualBacked
    <2>7. SubmittingQueued'  BY <1>1, <1>2 DEF SubmittingQueued
    <2>8. QueuedFound'  BY <1>1, <2>2 DEF LetterInv, QueuedFound
    <2> QED  BY <2>3, <2>4, <2>5, <2>6, <2>7, <2>8 DEF LetterInv
  <1>4. CASE ~IsFailure(outcome)
    <2>1. queues' = queues /\ saving' = saving /\ recovered' = recovered \cup {log}
      BY <1>4 DEF Retry
    <2>2. LettersTypeOK'  BY <1>1, <2>1 DEF LetterInv, LettersTypeOK
    <2>3. FilesFollow'  BY <1>1, <2>1 DEF LetterInv, FilesFollow
    <2>4. HandAccounted'  BY <1>1, <1>2, <2>1 DEF HandAccounted
    <2>5. ManualBacked'  BY <1>1, <2>1 DEF LetterInv, ManualBacked
    <2>6. SubmittingQueued'  BY <1>1, <1>2 DEF SubmittingQueued
    <2>7. QueuedFound'  BY <1>1, <2>1 DEF LetterInv, QueuedFound
    <2> QED  BY <2>2, <2>3, <2>4, <2>5, <2>6, <2>7 DEF LetterInv
  <1> QED  BY <1>3, <1>4

\* What recovered is written down.
LEMMA WriteRecoveriesStep == ASSUME LetterInv, WriteRecoveries PROVE LetterInv'
  <1>1. /\ ~Locked /\ todo = {} /\ todo' = todo /\ hand' = {} /\ recovered' = {}
        /\ fate' = [l \in Entries |-> IF l \in recovered THEN "recovered" ELSE fate[l]]
        /\ queues' = queues /\ files' = files /\ saving' = saving /\ interrupted' = interrupted
    BY DEF WriteRecoveries
  <1>2. files = queues /\ hand \subseteq recovered /\ \A l \in Entries : fate[l] # "submitting"
    BY <1>1, Unlocked
  <1>3. LettersTypeOK'  BY <1>1 DEF LetterInv, LettersTypeOK
  <1>4. FilesFollow'  BY <1>1 DEF LetterInv, FilesFollow
  <1>5. HandAccounted'  BY <1>1 DEF HandAccounted
  <1>6. ManualBacked'  BY <1>1, <1>2 DEF ManualBacked
  <1>7. SubmittingQueued'  BY <1>1, <1>2 DEF SubmittingQueued
  <1>8. QueuedFound'  BY <1>1, <1>2 DEF LetterInv, QueuedFound
  <1> QED  BY <1>3, <1>4, <1>5, <1>6, <1>7, <1>8 DEF LetterInv

\* An expert empties the last queue.
LEMMA ClearManualReviewStep == ASSUME LetterInv, ClearManualReview PROVE LetterInv'
  <1>1. /\ ~Locked /\ saving' = SaveOrder
        /\ fate' = [l \in Entries |-> IF l \in queues[Manual] THEN "reviewed" ELSE fate[l]]
        /\ files' = files /\ todo' = todo /\ hand' = hand /\ recovered' = recovered
        /\ interrupted' = interrupted
    BY DEF ClearManualReview
  <1>2. /\ queues' \in [LetterFiles -> SUBSET Entries]
        /\ queues'[Manual] = {} /\ queues'[Attempt1] = queues[Attempt1]
    BY LetterNames DEF ClearManualReview, LetterInv, LettersTypeOK, LetterFiles
  <1>3. files = queues /\ hand \subseteq todo \cup recovered
        /\ \A l \in Entries : fate[l] # "submitting"
    BY <1>1, Unlocked
  <1>4. FilesFollow' /\ Locked'  BY <1>1, AllToSave
  <1>5. LettersTypeOK'  BY <1>1, <1>2 DEF LetterInv, LettersTypeOK
  <1>6. HandAccounted'  BY <1>1, <1>3, <1>4 DEF HandAccounted
  <1>7. ManualBacked'  BY <1>1, <1>2, <1>3 DEF LetterInv, ManualBacked
  <1>8. SubmittingQueued'  BY <1>1, <1>3 DEF SubmittingQueued
  <1>9. QueuedFound'  BY <1>1, <1>2, <1>3 DEF LetterInv, QueuedFound
  <1> QED  BY <1>4, <1>5, <1>6, <1>7, <1>8, <1>9 DEF LetterInv

\* A new process has what the files have.
LEMMA CrashAndLoadStep == ASSUME LetterInv, CrashAndLoad PROVE LetterInv'
  <1>1. /\ queues' = files /\ files' = files /\ saving' = <<>> /\ todo' = {} /\ hand' = {}
        /\ recovered' = {} /\ interrupted' = interrupted \cup hand
        /\ fate' = [l \in Entries |-> IF fate[l] = "submitting" THEN "new" ELSE fate[l]]
    BY DEF CrashAndLoad
  <1>2. LettersTypeOK'  BY <1>1 DEF LetterInv, LettersTypeOK
  <1>3. FilesFollow'  BY <1>1, SaveOrders DEF FilesFollow
  <1>4. HandAccounted' /\ ManualBacked'  BY <1>1 DEF HandAccounted, ManualBacked
  <1>5. SubmittingQueued'  BY <1>1 DEF SubmittingQueued
  <1>6. QueuedFound'  BY <1>1 DEF LetterInv, QueuedFound
  <1> QED  BY <1>2, <1>3, <1>4, <1>5, <1>6 DEF LetterInv

\* Every step keeps the logs accounted for.
LEMMA LetterStepInv == LetterInv /\ [LetterNext]_letterVars => LetterInv'
  <1> SUFFICES ASSUME LetterInv, [LetterNext]_letterVars PROVE LetterInv'
    OBVIOUS
  <1>1. CASE UNCHANGED letterVars
    BY <1>1 DEF letterVars, LetterInv, LettersTypeOK, FilesFollow, HandAccounted,
       ManualBacked,
                SubmittingQueued, QueuedFound, Locked
  <1>2. CASE LetterNext
    BY <1>2, RunLogStep, SaveNextStep, TakeAllStep, RetryStep, WriteRecoveriesStep,
       ClearManualReviewStep, CrashAndLoadStep DEF LetterNext
  <1> QED  BY <1>1, <1>2

\* A log whose failure was queued is in a file that somebody looks at, until it
\* is recovered or reviewed, or a retry had it in memory at a crash: wherever
\* between two of the three files the process dies (pipeline.DeadLetterQueue).
THEOREM OnlyRetriesAreEverLost == LetterSpec => []OnlyRetriesAreLost
  <1>1. LetterInv => OnlyRetriesAreLost  BY DEF LetterInv, QueuedFound, OnlyRetriesAreLost
  <1> QED  BY LetterInitInv, LetterStepInv, <1>1, PTL DEF LetterSpec

--------------------------------------------------------------------------------
\* The crosswalk loader (Crosswalk)

WholeCis == JoinedBy(AllRows, Cis, Nist)
WholeHipaa == {JoinedBy(AllRows, HipaaSec, Nist), JoinedBy(AllRows, HipaaBoth, Nist)}

\* A table does not exist, is empty, or is whole: pairs are built from the rows
\* read only when these are all the rows of the sheet.
CrosswalkInv ==
  /\ DOMAIN tables = {"cis", "hipaa", "pci"}
  /\ tables["cis"] \in {NoTable, {}, WholeCis}
  /\ tables["hipaa"] \in {NoTable, {}} \cup WholeHipaa
  /\ ingest = "cis" => SheetRead
  /\ LoadIsWhole

\* An empty table gives no pairs.
LEMMA NoPairs == Pairs({}) = {}
  BY DEF Pairs

\* There is no table and no file at first.
LEMMA CrosswalkInitInv == CrosswalkInit => CrosswalkInv
  BY DEF CrosswalkInit, CrosswalkInv, LoadIsWhole

\* A commit is of a whole framework, and a load of the tables or of the file.
LEMMA CrosswalkStepInv == CrosswalkInv /\ [CrosswalkNext]_crosswalkVars => CrosswalkInv'
  <1> SUFFICES ASSUME CrosswalkInv, [CrosswalkNext]_crosswalkVars PROVE CrosswalkInv'
    OBVIOUS
  <1> USE DEF CrosswalkInv
  <1>1. CASE CreateTables  BY <1>1 DEF CreateTables, LoadIsWhole
  <1>2. CASE FlushBatch  BY <1>2 DEF FlushBatch, LoadIsWhole
  <1>3. CASE BuildCis
    <2>1. JoinedBy(Rows(scf), Cis, Nist) = WholeCis
      BY <1>3 DEF BuildCis, SheetRead, AllRows, WholeCis
    <2> HIDE DEF WholeCis, WholeHipaa
    <2>2. tables' = [tables EXCEPT !["cis"] = WholeCis]  BY <1>3, <2>1 DEF BuildCis
    <2>3. SheetRead'  BY <1>3 DEF BuildCis, SheetRead
    <2> QED  BY <1>3, <2>2, <2>3 DEF BuildCis, LoadIsWhole
  <1>4. CASE BuildHipaa
    <2>1. JoinedBy(Rows(scf), HipaaBoth, Nist) \in WholeHipaa
      BY <1>4 DEF BuildHipaa, SheetRead, AllRows, WholeHipaa
    <2>2. PICK whole \in WholeHipaa : tables' = [tables EXCEPT !["hipaa"] = whole]
      BY <1>4, <2>1 DEF BuildHipaa
    <2> HIDE DEF WholeHipaa
    <2> QED  BY <1>4, <2>2 DEF BuildHipaa, LoadIsWhole
  <1>5. CASE IngestFails  BY <1>5 DEF IngestFails, LoadIsWhole
  <1>6. CASE IngestJson
    <2>1. /\ DOMAIN tables' = {"cis", "hipaa", "pci"}
          /\ tables'["cis"] = WholeCis /\ tables'["hipaa"] \in WholeHipaa
      BY <1>6 DEF IngestJson, WholeCis, WholeHipaa
    <2> HIDE DEF WholeCis, WholeHipaa
    <2> QED  BY <1>6, <2>1 DEF IngestJson, LoadIsWhole
  <1>7. ASSUME NEW reachable \in BOOLEAN, NEW fileThere \in BOOLEAN, Load(reachable, fileThere)
        PROVE  CrosswalkInv'
    <2>1. /\ loaded'.cis \in {Pairs({}), Pairs(WholeCis)}
          /\ loaded'.hipaa \in {Pairs({})} \cup {Pairs(t) : t \in WholeHipaa}
      <3>1. CASE reachable /\ tables["cis"] # NoTable /\ tables["hipaa"] # NoTable
        <4>1. loaded'.cis = Pairs(tables["cis"]) /\ loaded'.hipaa = Pairs(tables["hipaa"])
          BY <1>7, <3>1 DEF Load
        <4> QED  BY <3>1, <4>1
      <3>2. CASE ~(reachable /\ tables["cis"] # NoTable /\ tables["hipaa"] # NoTable) /\ fileThere
        <4>1. loaded'.cis = Pairs(WholeCis) /\ loaded'.hipaa = Pairs(JoinedBy(AllRows, HipaaSec, Nist))
          BY <1>7, <3>2 DEF Load, WholeCis
        <4>2. JoinedBy(AllRows, HipaaSec, Nist) \in WholeHipaa  BY DEF WholeHipaa
        <4> QED  BY <4>1, <4>2
      <3>3. CASE ~(reachable /\ tables["cis"] # NoTable /\ tables["hipaa"] # NoTable) /\ ~fileThere
        BY <1>7, <3>3, NoPairs DEF Load
      <3> QED  BY <3>1, <3>2, <3>3
    <2>2. LoadIsWhole'
      BY <2>1, NoPairs DEF LoadIsWhole, WholeCis, WholeHipaa, AllRows, JoinedBy, Cis, Nist,
                           HipaaSec, HipaaBoth
    <2>3. tables' = tables /\ ingest' = ingest /\ scf' = scf  BY <1>7 DEF Load
    <2> QED  BY <2>2, <2>3 DEF SheetRead
  <1>8. CASE UNCHANGED crosswalkVars  BY <1>8 DEF crosswalkVars, LoadIsWhole, SheetRead
  <1> QED  BY <1>1, <1>2, <1>3, <1>4, <1>5, <1>6, <1>7, <1>8 DEF CrosswalkNext

\* For any framework and any batch size: wherever an ingest stopped, a
\* crosswalk a process loads is empty or whole (phase1_scf_ingest,
\* ingest_scf_json and db_connections._load_scf_crosswalks).
THEOREM LoadAlwaysWhole == CrosswalkSpec => []LoadIsWhole
  <1>1. CrosswalkInv => LoadIsWhole  BY DEF CrosswalkInv
  <1> QED  BY CrosswalkInitInv, CrosswalkStepInv, <1>1, PTL DEF CrosswalkSpec

--------------------------------------------------------------------------------
\* The catalogue graph (ComplianceGraph): the position in the script says which
\* vertices there are, and the pieces of a text, each begun before the one before it
\* ended, leave no gap.

\* Sequences by their elements
LEMMA Four ==
  ASSUME NEW a, NEW b, NEW c, NEW d, NEW s, s = <<a, b, c, d>>,
         NEW S, a \in S, b \in S, c \in S, d \in S
  PROVE  s \in Seq(S) /\ Len(s) = 4
  OBVIOUS

LEMMA Two ==
  ASSUME NEW a, NEW b, NEW s, s = <<a, b>>, NEW S, a \in S, b \in S
  PROVE  s \in Seq(S) /\ Len(s) = 2
  OBVIOUS

LEMMA Six ==
  ASSUME NEW a, NEW b, NEW c, NEW d, NEW e, NEW f, NEW s,
         s = <<a, b, c, d, e, f>>, NEW S, a \in S, b \in S, c \in S, d \in S, e \in S, f \in S
  PROVE  s \in Seq(S) /\ Len(s) = 6
  OBVIOUS

\* The script by its three parts
LEMMA ScriptElements ==
  ASSUME NEW S, NEW a \in Seq(S), NEW b \in Seq(S), NEW c \in Seq(S),
         Len(a) = 4, Len(b) = 2, Len(c) = 6
  PROVE  /\ Len(a \o b \o c) = 12
         /\ \A n \in 1..4 : (a \o b \o c)[n] = a[n]
         /\ \A n \in 5..6 : (a \o b \o c)[n] = b[n - 4]
         /\ \A n \in 7..12 : (a \o b \o c)[n] = c[n - 6]
  <1> DEFINE ab == a \o b
             abc == ab \o c
  <1>1. /\ ab \in Seq(S) /\ Len(ab) = Len(a) + Len(b)
        /\ \A i \in 1..Len(a) : ab[i] = a[i]
        /\ \A i \in Len(a) + 1..Len(a) + Len(b) : ab[i] = b[i - Len(a)]
    BY JoinedElements
  <1> HIDE DEF ab
  <1>2. /\ Len(abc) = Len(ab) + Len(c)
        /\ \A i \in 1..Len(ab) : abc[i] = ab[i]
        /\ \A i \in Len(ab) + 1..Len(ab) + Len(c) : abc[i] = c[i - Len(ab)]
    <2>1. ab \in Seq(S)  BY <1>1
    <2> QED  BY <2>1, JoinedElements
  <1> HIDE DEF abc
  <1>3. Len(ab) = 6  BY <1>1
  <1>4. Len(abc) = 12  BY <1>2, <1>3
  <1>5. \A n \in 1..4 : n \in 1..6 /\ ab[n] = a[n]  BY <1>1
  <1>6. \A n \in 5..6 : n \in 1..6 /\ ab[n] = b[n - 4]  BY <1>1
  <1>7. \A n \in 1..6 : abc[n] = ab[n]  BY <1>2, <1>3
  <1>8. \A n \in 7..12 : abc[n] = c[n - 6]  BY <1>2, <1>3
  <1> QED  BY <1>4, <1>5, <1>6, <1>7, <1>8 DEF ab, abc

\* The vertices each step of the script creates.
MadeAt == <<
  {<<"Control", id>> : id \in CisControls},
  {<<"Safeguard", id>> : id \in UNION {SafeguardsOf[c] : c \in CisControls}},
  {}, {},
  {<<"NISTCategory", id>> : id \in NistNodes},
  {},
  {<<"Control", id>> : id \in HipaaSections},
  {<<"Safeguard", id>> : id \in HipaaSections},
  {}, {}, {},
  {<<"Safeguard", id>> : id \in HipaaSpecs} >>

\* Each step of the script makes what MadeAt says.
LEMMA ScriptMakes == Len(Script) = 12 /\ \A n \in 1..12 : Script[n].make = MadeAt[n]
  <1>1. \A label, from, to, pairs : Link(label, from, to, pairs).make = {}  BY DEF Link
  <1>2. \A label, ids : Make(label, ids).make = {<<label, id>> : id \in ids}  BY DEF Make
  <1>3. /\ Len(Script) = 12
        /\ \A n \in 1..4 : Script[n] = CisScript[n]
        /\ \A n \in 5..6 : Script[n] = NistScript[n - 4]
        /\ \A n \in 7..12 : Script[n] = HipaaScript[n - 6]
    <2>1. CisScript = <<CisScript[1], CisScript[2], CisScript[3], CisScript[4]>>
      BY DEF CisScript
    <2>2. NistScript = <<NistScript[1], NistScript[2]>>
      BY DEF NistScript
    <2>3. HipaaScript = <<HipaaScript[1], HipaaScript[2], HipaaScript[3], HipaaScript[4],
                          HipaaScript[5], HipaaScript[6]>>
      BY DEF HipaaScript
    <2> DEFINE S == {CisScript[n] : n \in 1..4} \cup {NistScript[n] : n \in 1..2}
                      \cup {HipaaScript[n] : n \in 1..6}
    <2>4. CisScript \in Seq(S) /\ Len(CisScript) = 4
      <3>1. \A n \in 1..4 : CisScript[n] \in S  OBVIOUS
      <3> HIDE DEF S
      <3> QED  BY <2>1, <3>1, Four
    <2>5. NistScript \in Seq(S) /\ Len(NistScript) = 2
      <3>1. \A n \in 1..2 : NistScript[n] \in S  OBVIOUS
      <3> HIDE DEF S
      <3> QED  BY <2>2, <3>1, Two
    <2>6. HipaaScript \in Seq(S) /\ Len(HipaaScript) = 6
      <3>1. \A n \in 1..6 : HipaaScript[n] \in S  OBVIOUS
      <3> HIDE DEF S
      <3> QED  BY <2>3, <3>1, Six
    <2> HIDE DEF S
    <2> DEFINE whole == CisScript \o NistScript \o HipaaScript
    <2>7. /\ Len(whole) = 12
          /\ \A n \in 1..4 : whole[n] = CisScript[n]
          /\ \A n \in 5..6 : whole[n] = NistScript[n - 4]
          /\ \A n \in 7..12 : whole[n] = HipaaScript[n - 6]
      BY ONLY <2>4, <2>5, <2>6, ScriptElements, SMTT(60)
    <2>8. Script = whole  BY DEF Script
    <2> HIDE DEF whole
    <2> QED  BY <2>7, <2>8
  <1>4. /\ CisScript[1].make = MadeAt[1] /\ CisScript[2].make = MadeAt[2]
        /\ CisScript[3].make = MadeAt[3] /\ CisScript[4].make = MadeAt[4]
    BY <1>1, <1>2 DEF CisScript, MadeAt
  <1>5. NistScript[1].make = MadeAt[5] /\ NistScript[2].make = MadeAt[6]
    BY <1>1, <1>2 DEF NistScript, MadeAt
  <1>6. /\ HipaaScript[1].make = MadeAt[7] /\ HipaaScript[2].make = MadeAt[8]
        /\ HipaaScript[3].make = MadeAt[9] /\ HipaaScript[4].make = MadeAt[10]
        /\ HipaaScript[5].make = MadeAt[11] /\ HipaaScript[6].make = MadeAt[12]
    BY <1>1, <1>2 DEF HipaaScript, MadeAt
  <1> QED  BY <1>3, <1>4, <1>5, <1>6

\* The sources number their entries apart, so no two steps make one vertex.
LEMMA MadeByOneStep ==
  ASSUME NEW m \in 1..12, NEW n \in 1..12, m # n
  PROVE  MadeAt[m] \cap MadeAt[n] = {}
  <1>1. HipaaSections \cap CisControls = {} /\ HipaaSections \cap HipaaSpecs = {}
    BY SourcesApart DEF HipaaSections, Ids
  <1>2. \A id \in UNION {SafeguardsOf[c] : c \in CisControls} :
          id \notin HipaaSections /\ id \notin HipaaSpecs
    BY SourcesApart DEF HipaaSections, Ids
  <1> HIDE DEF HipaaSections, NistNodes
  <1> QED  BY <1>1, <1>2 DEF MadeAt

MadeBefore(v) == \E n \in 1..12 : n < position /\ <<v[1], v[2]>> \in MadeAt[n]

Singles == \A v \in vertices : v[3] = 1
FromScript == position > 0 => \A v \in vertices : MadeBefore(v)

GraphInv == position \in Nat /\ Singles /\ FromScript

\* A step makes no vertex that is there.
LEMMA NewVertices ==
  ASSUME GraphInv, position \in 1..Len(Script), NEW v \in Current.make
  PROVE  Created(v)[3] = 1 /\ <<Created(v)[1], Created(v)[2]>> = v /\ v \in MadeAt[position]
  <1>1. v \in MadeAt[position]
    BY ScriptMakes DEF Current
  <1>2. v = <<v[1], v[2]>>  BY <1>1, ScriptMakes DEF MadeAt
  <1>3. Copies(v) = {}
    <2> SUFFICES ASSUME NEW w \in vertices, <<w[1], w[2]>> = v PROVE FALSE
      BY DEF Copies
    <2>1. PICK n \in 1..12 : n < position /\ v \in MadeAt[n]
      BY DEF GraphInv, FromScript, MadeBefore
    <2> QED  BY <1>1, <2>1, MadeByOneStep, ScriptMakes
  <1>4. Cardinality(Copies(v)) = 0  BY <1>3, FS_EmptySet
  <1> QED  BY <1>1, <1>2, <1>4 DEF Created

\* The graph is empty at first.
LEMMA GraphInitInv == GraphInit => GraphInv
  BY DEF GraphInit, GraphInv, Singles, FromScript

\* Every step keeps the vertices single, and from the script.
LEMMA GraphStepInv == GraphInv /\ [GraphNext]_graphVars => GraphInv'
  <1> SUFFICES ASSUME GraphInv, [GraphNext]_graphVars PROVE GraphInv'
    OBVIOUS
  <1> USE DEF GraphInv
  <1>1. CASE SetupAgeGraph
    BY <1>1 DEF SetupAgeGraph, Dropped, Singles, FromScript
  <1>2. ASSUME NEW unmade, NEW unlinked, Step(unmade, unlinked) PROVE GraphInv'
    <2>1. position \in 1..Len(Script) /\ position' = position + 1
      BY <1>2 DEF Step
    <2>2. vertices' = vertices \cup {Created(v) : v \in Current.make \ unmade}
      BY <1>2 DEF Step
    <2>3. \A v \in Current.make :
            Created(v)[3] = 1 /\ <<Created(v)[1], Created(v)[2]>> = v /\ v \in MadeAt[position]
      BY <2>1, NewVertices
    <2>4. Singles'
      BY <2>2, <2>3 DEF Singles
    <2>5. ASSUME NEW w \in vertices' PROVE MadeBefore(w)'
      <3>1. CASE w \in vertices
        BY <2>1, <3>1 DEF FromScript, MadeBefore
      <3>2. CASE \E v \in Current.make : w = Created(v)
        <4>1. PICK v \in Current.make : w = Created(v)  BY <3>2
        <4>2. <<w[1], w[2]>> \in MadeAt[position] /\ position < position'
          BY <2>1, <2>3, <4>1
        <4>3. position \in 1..12  BY <2>1, ScriptMakes
        <4> QED  BY <4>2, <4>3 DEF MadeBefore, MadeAt
      <3> QED  BY <2>2, <3>1, <3>2
    <2> QED  BY <2>1, <2>4, <2>5 DEF FromScript
  <1>3. CASE CreateChunks
    BY <1>3 DEF CreateChunks, Singles, FromScript, MadeBefore
  <1>4. CASE BuildIndex \/ SetupStops
    BY <1>4 DEF BuildIndex, SetupStops, Singles, FromScript
  <1>5. ASSUME NEW framework \in {"cis", "nist", "hipaa"}, NEW len \in Lengths,
               SplitSection(framework, len)
        PROVE  GraphInv'
    BY <1>5 DEF SplitSection, Singles, FromScript, MadeBefore
  <1>6. ASSUME NEW room \in 1..ChunkBatch, InsertBatch(room) PROVE GraphInv'
    BY <1>6 DEF InsertBatch, Singles, FromScript, MadeBefore
  <1>7. CASE UNCHANGED graphVars
    BY <1>7 DEF graphVars, Singles, FromScript, MadeBefore
  <1> QED  BY <1>1, <1>2, <1>3, <1>4, <1>5, <1>6, <1>7 DEF GraphNext

\* However often the setup is stopped and run again, and whatever it skips: no id
\* has two vertices of one label (setup_ingestion.py setup_age_graph).
THEOREM NeverTwins == GraphSpec => []NoTwins
  <1>1. GraphInv => NoTwins  BY DEF GraphInv, Singles, NoTwins
  <1> QED  BY GraphInitInv, GraphStepInv, <1>1, PTL DEF GraphSpec

---------------------------------------------------------------------

\* Pieces cover.
LEMMA PiecesCoverText ==
  ASSUME NEW len \in Nat, len > MinPiece, NEW c \in 0..len - 1
  PROVE  \E p \in Pieces(len) : p[1] \in Nat /\ p[1] <= c /\ c < p[2]
  <1> DEFINE D == Size - Overlap
             Good(k) == k * D <= c /\ len - k * D > MinPiece
             bad == {k \in Nat : ~Good(k)}
  <1>1. /\ D \in Nat /\ D > 0 /\ D + MinPiece <= Size
        /\ MinPiece \in Nat /\ MinPiece < Size /\ Size \in Nat
    BY ChunkAssumption
  <1> HIDE DEF D
  <1>2. \A k \in Nat : k * D \in Nat /\ k <= k * D
    <2> TAKE k \in Nat
    <2>1. PICK e \in Nat : D = e + 1  BY <1>1
    <2>2. k * e \in Nat /\ k * (e + 1) = k * e + k  BY <2>1
    <2> QED  BY <2>1, <2>2
  <1>3. c + 1 \in bad  BY <1>2
  <1>4. PICK n \in bad : \A m \in bad : n <= m
    BY <1>3, LeastNatural
  <1>5. n # 0
    <2>1. 0 * D = 0  BY <1>1
    <2> QED  BY <1>4, <2>1, <1>1
  <1>6. PICK k \in Nat : n = k + 1  BY <1>4, <1>5
  <1>7. Good(k) /\ ~Good(k + 1)  BY <1>4, <1>6
  <1>8. (k + 1) * D = k * D + D  BY <1>1, <1>2
  <1> DEFINE a == k * D
             p == <<a, IF a + Size < len THEN a + Size ELSE len>>
  <1>9. k \in 0..len /\ a \in Nat /\ a <= c  BY <1>2, <1>7
  <1>10. p \in Pieces(len)
    <2>1. a \in {s \in Starts(len) : s < len}
      BY <1>9 DEF Starts, D
    <2>2. p[2] - p[1] > MinPiece
      BY <1>1, <1>7, <1>9
    <2> HIDE DEF a
    <2> QED  BY <2>1, <2>2 DEF Pieces
  <1>11. p[1] \in Nat /\ p[1] <= c /\ c < p[2]
    <2> HIDE DEF bad
    <2> QED  BY <1>1, <1>7, <1>8, <1>9
  <1> HIDE DEF p
  <1> QED  BY <1>10, <1>11

\* Some pieces of a text leave out no character of it.
CoveredBy(len, pieces) ==
  \A character \in 0..len - 1 :
    \E p \in pieces : p[1] \in Nat /\ p[1] <= character /\ character < p[2]

\* The pieces in the table and those to come cover the section.
Covered(text) ==
  /\ text = [len |-> text.len, pieces |-> text.pieces, todo |-> text.todo]
  /\ CoveredBy(text.len, text.pieces \cup text.todo)

\* The pieces of a section cover it, whatever its framework.
LEMMA SectionCovered ==
  ASSUME NEW framework \in {"cis", "nist", "hipaa"}, NEW len \in Lengths, IsSection(framework, len)
  PROVE  CoveredBy(len, PiecesOf(framework, len))
  <1>1. len \in Nat /\ MinPiece \in Nat /\ Size \in Nat /\ MinPiece < Size  BY ChunkAssumption
  <1>2. len > MinPiece => CoveredBy(len, Pieces(len))
    BY <1>1, PiecesCoverText DEF CoveredBy
  <1>3. CoveredBy(len, {<<0, len>>})
    <2> SUFFICES ASSUME NEW c \in 0..len - 1
                 PROVE  \E p \in {<<0, len>>} : p[1] \in Nat /\ p[1] <= c /\ c < p[2]
      BY DEF CoveredBy
    <2> WITNESS <<0, len>> \in {<<0, len>>}
    <2> QED  BY <1>1
  <1>4. CASE framework = "nist"
    <2>1. PiecesOf(framework, len) = Pieces(len) /\ len > MinPiece
      BY <1>1, <1>4 DEF PiecesOf, IsSection
    <2> QED  BY <1>2, <2>1
  <1>5. CASE framework = "cis"
    <2>1. /\ PiecesOf(framework, len) = IF len <= Size THEN {<<0, len>>} ELSE Pieces(len)
          /\ len > MinPiece
      BY <1>1, <1>5 DEF PiecesOf, IsSection
    <2> QED  BY <1>2, <1>3, <2>1
  <1>6. CASE framework = "hipaa"
    <2>1. PiecesOf(framework, len) = {<<0, len>>}
      BY <1>6 DEF PiecesOf
    <2> QED  BY <1>3, <2>1
  <1> QED  BY <1>4, <1>5, <1>6

\* For any size, overlap and shortest piece that agree as the constants do, and a
\* section of any length: the pieces committed leave out no character up to the first
\* that is missing (setup_ingestion.py, _sliding_chunks and smart_chunk).
THEOREM PiecesAlwaysCover == GraphSpec => []PiecesCover
  <1>1. GraphInit => Covered(chunks)
    BY DEF GraphInit, NoText, Covered, CoveredBy
  <1>2. ASSUME Covered(chunks), [GraphNext]_graphVars PROVE Covered(chunks)'
    <2>1. CASE CreateChunks
      BY <2>1 DEF CreateChunks, NoText, Covered, CoveredBy
    <2>2. ASSUME NEW framework \in {"cis", "nist", "hipaa"}, NEW len \in Lengths,
                 SplitSection(framework, len)
          PROVE  Covered(chunks)'
      <3>1. chunks' = [len |-> len, pieces |-> {}, todo |-> PiecesOf(framework, len)]
        BY <2>2 DEF SplitSection
      <3>2. CoveredBy(len, PiecesOf(framework, len))
        BY <2>2, SectionCovered DEF SplitSection
      <3>3. /\ chunks' = [len |-> chunks'.len, pieces |-> chunks'.pieces, todo |-> chunks'.todo]
            /\ chunks'.len = len /\ chunks'.pieces \cup chunks'.todo = PiecesOf(framework, len)
        BY <3>1
      <3>4. CoveredBy(chunks'.len, chunks'.pieces \cup chunks'.todo)  BY <3>2, <3>3
      <3> QED  BY <3>3, <3>4 DEF Covered, CoveredBy
    <2>3. ASSUME NEW room \in 1..ChunkBatch, InsertBatch(room)
          PROVE  Covered(chunks)'
      <3>1. FirstPieces(room) \subseteq chunks.todo  BY DEF FirstPieces
      <3>2. /\ chunks' = [len |-> chunks'.len, pieces |-> chunks'.pieces, todo |-> chunks'.todo]
            /\ chunks'.len = chunks.len
            /\ chunks.pieces \cup chunks.todo \subseteq chunks'.pieces \cup chunks'.todo
        BY <1>2, <2>3, <3>1 DEF InsertBatch, Covered
      <3> QED  BY <1>2, <3>2 DEF Covered, CoveredBy
    <2>4. CASE UNCHANGED chunks
      BY <1>2, <2>4 DEF Covered, CoveredBy
    <2> QED  BY <1>2, <2>1, <2>2, <2>3, <2>4
          DEF GraphNext, SetupAgeGraph, Step, BuildIndex, SetupStops, graphVars
  <1>3. Covered(chunks) => PiecesCover
    BY DEF Covered, CoveredBy, PiecesCover
  <1> QED  BY <1>1, <1>2, <1>3, PTL DEF GraphSpec

--------------------------------------------------------------------------------
\* The collectors (Collector): a run that nothing disturbed has read the list of
\* accounts, and every page of each account it has finished.

Cursors == (Nat \ {0}) \cup {NoPage}
Runs ==
  [stage : {"stopped", "permissions", "page", "count", "next", "summary", "failed", "done"},
   account : Nat, cursor : Cursors, attempt : Int, fresh : BOOLEAN, steady : BOOLEAN]
Read == [accounts : Seq(Accounts), keys : SUBSET (Accounts \X Nat)]

CollectorTypeOK ==
  /\ open \in Seq(Accounts)
  /\ run \in Runs
  /\ seen \subseteq Nat \ {0}
  /\ got \in Read
  /\ expected \in Nat \cup {NoPage}
  /\ \A s \in DOMAIN checkpoint : checkpoint[s] \in Cursors

Active == run.stage \notin {"stopped", "failed"}

\* Where a run is: nothing read before the first page, an account in hand.
Places ==
  /\ run.stage = "permissions" => got = Nothing /\ run.account = 0
  /\ run.stage = "count" => run.account = 0
  /\ run.stage = "summary" => run.account > 0
  /\ Active => run.account <= Len(got.accounts)

\* What a steady run has listed is a stretch of what is open, from the page
\* it began at; and what it counted is what is open.
Stretch(c) ==
  /\ \A i \in 1..Len(got.accounts) : c + i - 1 <= Len(open) /\ got.accounts[i] = open[c + i - 1]
  /\ run.stage = "page" /\ run.account = 0 => FirstPage(run.cursor) = c + Len(got.accounts)

Listed == Active /\ run.steady => \E c \in Nat \ {0} : Stretch(c)
CountedOpen == Active /\ run.steady /\ expected # NoPage => expected = Len(open)

\* A fresh run has the pages of each account before the one in hand, those
\* of that one up to the cursor, and no cursor kept of another stage.
Finished == IF run.stage \in {"next", "done"} THEN run.account ELSE run.account - 1
WholeOf(a) == \A page \in 1..PageCount[a] : <<a, page>> \in got.keys
FinishedWhole ==
  Active /\ run.fresh =>
    \A n \in 1..Len(got.accounts) : n <= Finished => WholeOf(got.accounts[n])
PagesBefore ==
  Active /\ run.fresh /\ run.stage = "page" /\ run.account > 0 =>
    \A page \in Nat \ {0} :
      page < FirstPage(run.cursor) => <<got.accounts[run.account], page>> \in got.keys
CursorsAtEnd ==
  Active /\ run.fresh =>
    \A s \in DOMAIN checkpoint :
      checkpoint[s] # NoPage => run.stage = "page" /\ s = Stage(run.account)

\* A snapshot is what a run that ended has read, reconciled.
OfTheRun ==
  snapshot # NoPage =>
    /\ run.stage = "done" /\ snapshot = got /\ Reconciled
    /\ run.account = Len(got.accounts)

CollectorInv ==
  /\ CollectorTypeOK /\ Places /\ Listed /\ CountedOpen
  /\ FinishedWhole /\ PagesBefore /\ CursorsAtEnd /\ OfTheRun

\* A stage is opened at its cursor.
LEMMA OpenedFacts ==
  ASSUME CollectorTypeOK, NEW stage
  PROVE  /\ Opened(stage) \in Runs
         /\ Opened(stage).stage = "page" /\ Opened(stage).account = run.account
         /\ Opened(stage).fresh = run.fresh /\ Opened(stage).steady = run.steady
         /\ Opened(stage).cursor = IF stage \in DOMAIN checkpoint THEN checkpoint[stage] ELSE NoPage
  <1>1. PICK c \in Cursors : c = IF stage \in DOMAIN checkpoint THEN checkpoint[stage] ELSE NoPage
    BY DEF CollectorTypeOK, Cursors
  <1>2. Opened(stage) = [run EXCEPT !.stage = "page", !.attempt = 1, !.cursor = c]
    BY <1>1 DEF Opened
  <1>3. run \in Runs  BY DEF CollectorTypeOK
  <1>4. /\ Opened(stage) \in Runs
        /\ Opened(stage).stage = "page" /\ Opened(stage).account = run.account
        /\ Opened(stage).fresh = run.fresh /\ Opened(stage).steady = run.steady
        /\ Opened(stage).cursor = c
    <2>1. Opened(stage) = [stage |-> "page", account |-> run.account, cursor |-> c, attempt |-> 1,
                           fresh |-> run.fresh, steady |-> run.steady]
      BY <1>2, <1>3 DEF Runs
    <2>2. run.account \in Nat /\ run.fresh \in BOOLEAN /\ run.steady \in BOOLEAN
      BY <1>3 DEF Runs
    <2> QED  BY <2>1, <2>2 DEF Runs
  <1> QED  BY <1>1, <1>4

\* No run is under way at first.
LEMMA CollectorInitInv == CollectorInit => CollectorInv
  <1> SUFFICES ASSUME CollectorInit PROVE CollectorInv
    OBVIOUS
  <1>1. Cardinality(Accounts) \in Nat
    BY CollectorAssumption, FS_CardinalityType
  <1>2. open \in Seq(Accounts)
    <2>1. PICK n \in 0..Cardinality(Accounts) : open \in [1..n -> Accounts]
      BY DEF CollectorInit, Openings
    <2> QED  BY <1>1, <2>1
  <1>3. run \in Runs /\ run.stage = "stopped" /\ snapshot = NoPage /\ got \in Read
    BY DEF CollectorInit, Stopped, Runs, Cursors, Nothing, Read
  <1>4. CollectorTypeOK
    BY <1>2, <1>3 DEF CollectorInit, CollectorTypeOK
  <1> QED  BY <1>3, <1>4
        DEF CollectorInv, Places, Listed, CountedOpen, FinishedWhole, PagesBefore,
            CursorsAtEnd, OfTheRun, Active

\* A run begins, fresh or where another stopped.
LEMMA BeginStep ==
  ASSUME CollectorInv, NEW resume \in BOOLEAN, NEW secret \in BOOLEAN, Begin(resume, secret)
  PROVE  CollectorInv'
  <1>1. /\ run'.stage \in {"permissions", "failed"} /\ run'.account = 0 /\ run' \in Runs
        /\ run'.fresh => ~resume \/ checkpoint = <<>>
    <2>1. PICK b \in BOOLEAN : b = (~resume \/ checkpoint = <<>>)
      OBVIOUS
    <2>2. PICK stage \in {"permissions", "failed"} :
            stage = IF secret THEN "permissions" ELSE "failed"
      OBVIOUS
    <2>3. run' = [Stopped EXCEPT !.stage = stage, !.fresh = b]
      BY <2>1, <2>2 DEF Begin
    <2>4. run' = [stage |-> stage, account |-> 0, cursor |-> NoPage, attempt |-> 1,
                  fresh |-> b, steady |-> TRUE]
      BY <2>3 DEF Stopped
    <2>5. run'.fresh = b /\ run'.stage = stage /\ run'.account = 0
      BY <2>4
    <2>6. run' \in Runs  BY <2>4 DEF Runs, Cursors
    <2> QED  BY <2>1, <2>2, <2>5, <2>6
  <1>2. got' = Nothing /\ got' \in Read /\ Len(got'.accounts) = 0
    BY DEF Begin, Nothing, Read
  <1>3. run'.fresh => DOMAIN checkpoint' = {}
    <2>1. run'.fresh => checkpoint' = <<>>  BY <1>1 DEF Begin
    <2>2. DOMAIN <<>> = {}  OBVIOUS
    <2> QED  BY <2>1, <2>2
  <1>4. CollectorTypeOK'
    BY <1>1, <1>2 DEF CollectorInv, CollectorTypeOK, Begin
  <1>5. Listed'
    <2>1. Stretch(1)'  BY <1>1, <1>2 DEF Stretch
    <2> QED  BY <2>1 DEF Listed
  <1>6. snapshot' = NoPage /\ expected' = NoPage  BY DEF Begin
  <1> QED  BY <1>1, <1>2, <1>3, <1>4, <1>5, <1>6
        DEF CollectorInv, Places, CountedOpen, FinishedWhole, PagesBefore, CursorsAtEnd,
            OfTheRun

\* A run that stops or fails promises nothing more.
LEMMA HaltStep ==
  ASSUME CollectorInv, snapshot = NoPage, run' \in Runs, run'.stage \in {"stopped", "failed"},
         CollectorTypeOK', snapshot' = NoPage
  PROVE  CollectorInv'
  BY DEF CollectorInv, Places, Listed, CountedOpen, FinishedWhole, PagesBefore, CursorsAtEnd,
         OfTheRun, Active

\* A throttled call is tried again, or the run fails.
LEMMA ThrottledStep ==
  ASSUME CollectorInv, Throttled
  PROVE  CollectorInv'
  <1>1. snapshot = NoPage /\ snapshot' = NoPage  BY DEF CollectorInv, OfTheRun, Throttled
  <1>2. run \in Runs  BY DEF CollectorInv, CollectorTypeOK
  <1>3. run' \in Runs  BY <1>2 DEF Throttled, Runs
  <1>4. CollectorTypeOK'  BY <1>3 DEF CollectorInv, CollectorTypeOK, Throttled
  <1>5. CASE run.attempt < MaxAttempts
    <2>1. /\ run'.stage = run.stage /\ run'.account = run.account /\ run'.cursor = run.cursor
          /\ run'.fresh = run.fresh /\ run'.steady = run.steady
      BY <1>2, <1>5 DEF Throttled, Runs
    <2>2. UNCHANGED <<open, got, expected, checkpoint, snapshot>>
      BY DEF Throttled
    <2> QED  BY <1>1, <1>4, <2>1, <2>2
          DEF CollectorInv, Places, Listed, Stretch, CountedOpen, FinishedWhole, Finished,
              WholeOf, PagesBefore,
              CursorsAtEnd, OfTheRun, Active, Stage
  <1>6. CASE ~(run.attempt < MaxAttempts)
    <2>1. run'.stage = "failed"  BY <1>2, <1>6 DEF Throttled, Runs
    <2> QED  BY <1>1, <1>3, <1>4, <2>1, HaltStep
  <1> QED  BY <1>5, <1>6

\* The list of accounts is opened.
LEMMA CheckPermissionsStep ==
  ASSUME CollectorInv, NEW granted \in BOOLEAN, CheckPermissions(granted)
  PROVE  CollectorInv'
  <1>1. run.stage = "permissions" /\ got = Nothing /\ run.account = 0 /\ Active
    BY DEF CollectorInv, Places, CheckPermissions, Active
  <1>2. snapshot = NoPage /\ snapshot' = NoPage
    BY <1>1 DEF CollectorInv, OfTheRun, CheckPermissions
  <1>3. run \in Runs  BY DEF CollectorInv, CollectorTypeOK
  <1>4. run' \in Runs
    <2>1. CASE granted  BY <2>1, OpenedFacts DEF CheckPermissions, CollectorInv
    <2>2. CASE ~granted  BY <2>2, <1>3 DEF CheckPermissions, Runs
    <2> QED  BY <2>1, <2>2
  <1>5. CollectorTypeOK'  BY <1>4 DEF CollectorInv, CollectorTypeOK, CheckPermissions
  <1>6. CASE granted
    <2>1. /\ run'.stage = "page" /\ run'.account = 0
          /\ run'.fresh = run.fresh /\ run'.steady = run.steady
      BY <1>1, <1>6, OpenedFacts DEF CheckPermissions, CollectorInv
    <2>2. UNCHANGED <<open, got, expected, checkpoint, snapshot>>
      BY DEF CheckPermissions
    <2>3. Len(got.accounts) = 0 /\ 1..0 = {}  BY <1>1 DEF Nothing
    <2>4. Listed'
      <3>1. FirstPage(run'.cursor) \in Nat \ {0}
        BY <1>4, CollectorAssumption DEF FirstPage, Runs, Cursors
      <3>2. Stretch(FirstPage(run.cursor))'  BY <2>1, <2>2, <2>3, <3>1 DEF Stretch
      <3>3. (FirstPage(run.cursor) \in Nat \ {0})'  BY <3>1 DEF FirstPage
      <3> QED  BY <3>2, <3>3 DEF Listed
    <2>5. CursorsAtEnd'
      BY <1>1, <2>1, <2>2 DEF CollectorInv, CursorsAtEnd, Active
    <2>6. Places' /\ CountedOpen' /\ FinishedWhole' /\ PagesBefore'
      BY <1>1, <2>1, <2>2, <2>3 DEF CollectorInv, Places, CountedOpen, FinishedWhole,
         PagesBefore, Active
    <2> QED  BY <1>2, <1>5, <2>4, <2>5, <2>6 DEF CollectorInv, OfTheRun
  <1>7. CASE ~granted
    <2>1. run'.stage = "failed"  BY <1>3, <1>7 DEF CheckPermissions, Runs
    <2> QED  BY <1>2, <1>4, <1>5, <2>1, HaltStep
  <1> QED  BY <1>6, <1>7

\* The tree is counted.
LEMMA CountTreeStep ==
  ASSUME CollectorInv, NEW offered \in BOOLEAN, CountTree(offered)
  PROVE  CollectorInv'
  <1>1. run.stage = "count" /\ run.account = 0 /\ Active /\ run \in Runs
    BY DEF CollectorInv, CollectorTypeOK, Places, CountTree, Active
  <1>2. snapshot = NoPage /\ snapshot' = NoPage  BY <1>1 DEF CollectorInv, OfTheRun, CountTree
  <1>3. /\ run' \in Runs /\ run'.stage = "next" /\ run'.account = 0
        /\ run'.fresh = run.fresh /\ run'.steady = run.steady
    BY <1>1 DEF CountTree, Runs
  <1>4. Len(open) \in Nat  BY LenProperties DEF CollectorInv, CollectorTypeOK
  <1>5. UNCHANGED <<open, got, checkpoint, seen>> /\ expected' \in {Len(open), NoPage}
    BY DEF CountTree
  <1>6. CollectorTypeOK'  BY <1>3, <1>4, <1>5 DEF CollectorInv, CollectorTypeOK
  <1>7. Places' /\ CountedOpen' /\ FinishedWhole' /\ PagesBefore' /\ CursorsAtEnd'
    BY <1>1, <1>3, <1>5
    DEF CollectorInv, Places, CountedOpen, FinishedWhole, Finished, PagesBefore,
        CursorsAtEnd, Active
  <1>8. Listed'
    BY <1>1, <1>3, <1>5 DEF CollectorInv, Listed, Stretch, Active
  <1> QED  BY <1>2, <1>6, <1>7, <1>8 DEF CollectorInv, OfTheRun

\* The keys of the next account are opened.
LEMMA NextAccountStep ==
  ASSUME CollectorInv, NextAccount
  PROVE  CollectorInv'
  <1>1. /\ run.stage = "next" /\ Active /\ run \in Runs
        /\ run.account \in Nat /\ run.account < Len(got.accounts)
    BY DEF CollectorInv, CollectorTypeOK, NextAccount, Active, Runs
  <1>2. snapshot = NoPage /\ snapshot' = NoPage
    BY <1>1 DEF CollectorInv, OfTheRun, NextAccount
  <1>3. /\ run' \in Runs /\ run'.stage = "summary" /\ run'.account = run.account + 1
        /\ run'.fresh = run.fresh /\ run'.steady = run.steady
    <2>1. PICK n \in Nat : n = run.account + 1  BY <1>1
    <2>2. run' = [run EXCEPT !.stage = "summary", !.account = n, !.attempt = 1]
      BY <2>1 DEF NextAccount
    <2>3. run' = [stage |-> "summary", account |-> n, cursor |-> run.cursor, attempt |-> 1,
                  fresh |-> run.fresh, steady |-> run.steady]
      BY <1>1, <2>2 DEF Runs
    <2>4. run.cursor \in Cursors /\ run.fresh \in BOOLEAN /\ run.steady \in BOOLEAN
      BY <1>1 DEF Runs
    <2> QED  BY <2>1, <2>3, <2>4 DEF Runs
  <1>4. UNCHANGED <<open, got, checkpoint, seen, expected>>
    BY DEF NextAccount
  <1>5. CollectorTypeOK'  BY <1>3, <1>4 DEF CollectorInv, CollectorTypeOK
  <1>6. Len(got.accounts) \in Nat  BY LenProperties DEF CollectorInv, CollectorTypeOK, Read
  <1>7. Places' /\ CountedOpen' /\ PagesBefore' /\ CursorsAtEnd'
    BY <1>1, <1>3, <1>4, <1>6
    DEF CollectorInv, Places, CountedOpen, PagesBefore, CursorsAtEnd, Active
  <1>8. Listed'
    BY <1>1, <1>3, <1>4 DEF CollectorInv, Listed, Stretch, Active
  <1>9. FinishedWhole'
    BY <1>1, <1>3, <1>4 DEF CollectorInv, FinishedWhole, Finished, WholeOf, Active
  <1> QED  BY <1>2, <1>5, <1>7, <1>8, <1>9 DEF CollectorInv, OfTheRun

\* The summary of an account is read.
LEMMA SummariseStep ==
  ASSUME CollectorInv, Summarise
  PROVE  CollectorInv'
  <1>1. run.stage = "summary" /\ Active /\ run \in Runs /\ run.account \in Nat /\ run.account > 0
    BY DEF CollectorInv, CollectorTypeOK, Places, Summarise, Active, Runs
  <1>2. snapshot = NoPage /\ snapshot' = NoPage  BY <1>1 DEF CollectorInv, OfTheRun, Summarise
  <1> DEFINE s == Stage(run.account)
  <1>3. /\ run' \in Runs /\ run'.stage = "page" /\ run'.account = run.account
        /\ run'.fresh = run.fresh /\ run'.steady = run.steady
        /\ run'.cursor = IF s \in DOMAIN checkpoint THEN checkpoint[s] ELSE NoPage
    BY OpenedFacts DEF Summarise, CollectorInv
  <1>4. UNCHANGED <<open, got, checkpoint, expected>> /\ seen' = {}
    BY DEF Summarise
  <1>5. CollectorTypeOK'  BY <1>3, <1>4 DEF CollectorInv, CollectorTypeOK
  <1>6. Places' /\ CountedOpen' /\ CursorsAtEnd'
    BY <1>1, <1>3, <1>4
    DEF CollectorInv, Places, CountedOpen, CursorsAtEnd, Active
  <1>7. Listed'
    <2>1. ASSUME NEW c \in Nat, Stretch(c)  PROVE Stretch(c)'
      BY <1>1, <1>3, <1>4, <2>1 DEF Stretch
    <2> QED  BY <1>1, <1>3, <2>1 DEF CollectorInv, Listed, Active
  <1>8. FinishedWhole'
    BY <1>1, <1>3, <1>4 DEF CollectorInv, FinishedWhole, Finished, WholeOf, Active
  <1>9. PagesBefore'
    <2>1. run.fresh => run'.cursor = NoPage
      BY <1>1, <1>3 DEF CollectorInv, CursorsAtEnd, Active
    <2>2. run.fresh => FirstPage(run'.cursor) = 1  BY <2>1 DEF FirstPage
    <2> QED  BY <1>3, <1>4, <2>2 DEF PagesBefore
  <1> QED  BY <1>2, <1>5, <1>6, <1>7, <1>8, <1>9 DEF CollectorInv, OfTheRun

\* A run that reconciles leaves a snapshot.
LEMMA FinishStep ==
  ASSUME CollectorInv, Finish
  PROVE  CollectorInv'
  <1>1. run.stage = "next" /\ Active /\ run \in Runs /\ run.account = Len(got.accounts)
    BY DEF CollectorInv, CollectorTypeOK, Finish, Active
  <1>2. snapshot = NoPage  BY <1>1 DEF CollectorInv, OfTheRun
  <1>3. UNCHANGED <<open, got, checkpoint, seen, expected>>  BY DEF Finish
  <1>4. run' \in Runs  BY <1>1 DEF Finish, Runs
  <1>5. CollectorTypeOK'  BY <1>3, <1>4 DEF CollectorInv, CollectorTypeOK
  <1>6. CASE Reconciled
    <2>1. /\ run'.stage = "done" /\ run'.account = run.account /\ snapshot' = got
          /\ run'.fresh = run.fresh /\ run'.steady = run.steady
      BY <1>1, <1>6 DEF Finish, Runs
    <2>2. OfTheRun'
      BY <1>1, <1>3, <1>6, <2>1 DEF OfTheRun, Reconciled
    <2>3. Places' /\ CountedOpen' /\ CursorsAtEnd' /\ PagesBefore'
      BY <1>1, <1>3, <2>1
      DEF CollectorInv, Places, CountedOpen, CursorsAtEnd, PagesBefore, Active
    <2>4. Listed'
      BY <1>1, <1>3, <2>1 DEF CollectorInv, Listed, Stretch, Active
    <2>5. FinishedWhole'
      BY <1>1, <1>3, <2>1 DEF CollectorInv, FinishedWhole, Finished, WholeOf, Active
    <2> QED  BY <1>5, <2>2, <2>3, <2>4, <2>5 DEF CollectorInv
  <1>7. CASE ~Reconciled
    <2>1. run'.stage = "failed" /\ snapshot' = NoPage  BY <1>1, <1>2, <1>7 DEF Finish, Runs
    <2> QED  BY <1>2, <1>4, <1>5, <2>1, HaltStep
  <1> QED  BY <1>6, <1>7

\* The process dies; the checkpoint stays.
LEMMA CrashStep ==
  ASSUME CollectorInv, Crash
  PROVE  CollectorInv'
  <1>1. snapshot = NoPage /\ snapshot' = NoPage  BY DEF CollectorInv, OfTheRun, Crash, Busy
  <1>2. run' \in Runs /\ run'.stage = "stopped"  BY DEF Crash, Stopped, Runs, Cursors
  <1>3. CollectorTypeOK'  BY <1>2 DEF CollectorInv, CollectorTypeOK, Crash
  <1> QED  BY <1>1, <1>2, <1>3, HaltStep

\* An account is closed, and a run under way is not steady any more.
LEMMA CloseStep ==
  ASSUME CollectorInv, NEW k \in 1..Len(open), Close(k)
  PROVE  CollectorInv'
  <1>1. open \in Seq(Accounts) /\ run \in Runs /\ Len(open) \in Nat
    BY LenProperties DEF CollectorInv, CollectorTypeOK
  <1>2. /\ run' \in Runs /\ run'.steady = FALSE
        /\ run'.stage = run.stage /\ run'.account = run.account /\ run'.cursor = run.cursor
        /\ run'.fresh = run.fresh
    BY <1>1 DEF Close, Runs
  <1>3. UNCHANGED <<got, checkpoint, seen, expected, snapshot>>  BY DEF Close
  <1>4. open' \in Seq(Accounts)
    <2>1. \A i \in 1..Len(open) : open[i] \in Accounts  BY <1>1, ElementOfSeq
    <2>2. SubSeq(open, 1, k - 1) \in Seq(Accounts)
      <3>1. \A i \in 1..k - 1 : open[i] \in Accounts  BY <1>1, <2>1
      <3> QED  BY <3>1, SubSeqProperties
    <2>3. SubSeq(open, k + 1, Len(open)) \in Seq(Accounts)
      <3>1. \A i \in k + 1..Len(open) : open[i] \in Accounts  BY <1>1, <2>1
      <3> QED  BY <1>1, <3>1, SubSeqProperties
    <2> QED  BY <2>2, <2>3, ConcatProperties DEF Close
  <1>5. CollectorTypeOK'  BY <1>2, <1>3, <1>4 DEF CollectorInv, CollectorTypeOK
  <1>6. /\ Places' /\ CountedOpen' /\ Listed' /\ FinishedWhole'
        /\ PagesBefore' /\ CursorsAtEnd' /\ OfTheRun'
    BY <1>2, <1>3
    DEF CollectorInv, Places, CountedOpen, Listed, FinishedWhole, Finished, WholeOf,
        PagesBefore, CursorsAtEnd,
        OfTheRun, Active, Stage, Reconciled
  <1> QED  BY <1>5, <1>6 DEF CollectorInv

\* An account is opened, wherever it is listed; no run is steady after it.
LEMMA JoinStep ==
  ASSUME CollectorInv, NEW k \in 1..Len(open) + 1, NEW account \in Accounts, Join(k, account)
  PROVE  CollectorInv'
  <1>1. open \in Seq(Accounts) /\ run \in Runs /\ Len(open) \in Nat
    BY LenProperties DEF CollectorInv, CollectorTypeOK
  <1>2. /\ run' \in Runs /\ run'.steady = FALSE
        /\ run'.stage = run.stage /\ run'.account = run.account /\ run'.cursor = run.cursor
        /\ run'.fresh = run.fresh
    BY <1>1 DEF Join, Runs
  <1>3. UNCHANGED <<got, checkpoint, seen, expected, snapshot>>  BY DEF Join
  <1>4. open' \in Seq(Accounts)
    <2>1. \A i \in 1..Len(open) : open[i] \in Accounts  BY <1>1, ElementOfSeq
    <2>2. SubSeq(open, 1, k - 1) \in Seq(Accounts)
      <3>1. \A i \in 1..k - 1 : open[i] \in Accounts  BY <1>1, <2>1
      <3> QED  BY <3>1, SubSeqProperties
    <2>3. SubSeq(open, k, Len(open)) \in Seq(Accounts)
      <3>1. \A i \in k..Len(open) : open[i] \in Accounts  BY <1>1, <2>1
      <3> QED  BY <1>1, <3>1, SubSeqProperties
    <2>4. <<account>> \in Seq(Accounts)  OBVIOUS
    <2>5. SubSeq(open, 1, k - 1) \o <<account>> \in Seq(Accounts)
      BY <2>2, <2>4, ConcatProperties
    <2> QED  BY <2>3, <2>5, ConcatProperties DEF Join
  <1>5. CollectorTypeOK'  BY <1>2, <1>3, <1>4 DEF CollectorInv, CollectorTypeOK
  <1>6. /\ Places' /\ CountedOpen' /\ Listed' /\ FinishedWhole'
        /\ PagesBefore' /\ CursorsAtEnd' /\ OfTheRun'
    BY <1>2, <1>3
    DEF CollectorInv, Places, CountedOpen, Listed, FinishedWhole, Finished, WholeOf,
        PagesBefore, CursorsAtEnd,
        OfTheRun, Active, Stage, Reconciled
  <1> QED  BY <1>5, <1>6 DEF CollectorInv

\* Where a page leaves the run
LEMMA AfterFacts ==
  ASSUME CollectorTypeOK, run.stage = "page", NEW cursor \in Cursors
  PROVE  /\ AfterPage(cursor) \in Runs
         /\ AfterPage(cursor).account = run.account
         /\ AfterPage(cursor).fresh = run.fresh /\ AfterPage(cursor).steady = run.steady
         /\ cursor = NoPage => AfterPage(cursor).stage = IF run.account = 0 THEN "count" ELSE "next"
         /\ cursor # NoPage /\ cursor \in seen => AfterPage(cursor).stage = "failed"
         /\ cursor # NoPage /\ cursor \notin seen =>
              AfterPage(cursor).stage = "page" /\ AfterPage(cursor).cursor = cursor
  <1>1. run \in Runs /\ NoPage \notin seen
    BY CollectorAssumption DEF CollectorTypeOK
  <1> DEFINE Now(st, c, att) ==
        [stage |-> st, account |-> run.account, cursor |-> c, attempt |-> att,
         fresh |-> run.fresh, steady |-> run.steady]
  <1>2. /\ run.account \in Nat /\ run.cursor \in Cursors /\ run.attempt \in Int
        /\ run.fresh \in BOOLEAN /\ run.steady \in BOOLEAN
    BY <1>1 DEF Runs
  <1>3. CASE cursor = NoPage
    <2>1. PICK st \in {"count", "next"} : st = IF run.account = 0 THEN "count" ELSE "next"
      OBVIOUS
    <2>2. AfterPage(cursor) =
            [run EXCEPT !.stage = IF run.account = 0 THEN "count" ELSE "next", !.attempt = 1]
      BY <1>1, <1>3 DEF AfterPage
    <2>3. AfterPage(cursor) = [run EXCEPT !.stage = st, !.attempt = 1]
      BY <2>1, <2>2
    <2>4. AfterPage(cursor) = Now(st, run.cursor, 1)
      BY <1>1, <2>3 DEF Runs
    <2>5. Now(st, run.cursor, 1) \in Runs
      BY <1>2, <2>1 DEF Runs
    <2> QED  BY <1>3, <2>1, <2>4, <2>5
  <1>4. CASE cursor # NoPage /\ cursor \in seen
    <2>1. AfterPage(cursor) = [run EXCEPT !.stage = "failed"]
      BY <1>4 DEF AfterPage
    <2> QED  BY <1>1, <1>4, <2>1 DEF Runs
  <1>5. CASE cursor # NoPage /\ cursor \notin seen
    <2>1. AfterPage(cursor) = [run EXCEPT !.cursor = cursor, !.attempt = 1]
      BY <1>5 DEF AfterPage
    <2>2. AfterPage(cursor) = Now("page", cursor, 1)
      BY <1>1, <2>1 DEF Runs
    <2>3. Now("page", cursor, 1) \in Runs
      BY <1>2 DEF Runs
    <2> QED  BY <1>5, <2>2, <2>3
  <1> QED  BY <1>3, <1>4, <1>5

\* The pages of a stage come one after the other, the last without a cursor.
LEMMA FetchFacts ==
  ASSUME CollectorInv, NEW cursor, FetchPage(cursor)
  PROVE  /\ run.stage = "page" /\ Active /\ snapshot = NoPage
         /\ FirstPage(run.cursor) \in Nat \ {0} /\ cursor \in Cursors
         /\ Pages(Stage(run.account)) \in Nat
         /\ cursor = NoPage => FirstPage(run.cursor) >= Pages(Stage(run.account))
         /\ cursor # NoPage /\ cursor \notin seen =>
              cursor = FirstPage(run.cursor) + 1 /\ FirstPage(run.cursor) < Pages(Stage(run.account))
         /\ run.account > 0 =>
              /\ Stage(run.account) = got.accounts[run.account] /\ Stage(run.account) \in Accounts
              /\ Pages(Stage(run.account)) = PageCount[Stage(run.account)]
         /\ run.account = 0 => Pages(Stage(run.account)) = Len(open)
  <1>1. /\ run.stage = "page" /\ Active /\ snapshot = NoPage
        /\ run \in Runs /\ open \in Seq(Accounts) /\ got.accounts \in Seq(Accounts)
        /\ seen \subseteq Nat \ {0}
    BY DEF FetchPage, Active, CollectorInv, OfTheRun, CollectorTypeOK, Read
  <1>2. FirstPage(run.cursor) \in Nat \ {0}
    BY <1>1 DEF FirstPage, Runs, Cursors
  <1>3. run.account \in Nat /\ run.account <= Len(got.accounts) /\ Len(got.accounts) \in Nat
    BY <1>1, LenProperties DEF CollectorInv, Places, Runs
  <1>4. /\ run.account > 0 =>
             /\ Stage(run.account) = got.accounts[run.account] /\ Stage(run.account) \in Accounts
             /\ Pages(Stage(run.account)) = PageCount[Stage(run.account)]
        /\ run.account = 0 => Pages(Stage(run.account)) = Len(open)
    <2>1. CASE run.account > 0
      <3>1. Stage(run.account) = got.accounts[run.account]  BY <1>3, <2>1 DEF Stage
      <3>2. got.accounts[run.account] \in Accounts
        BY <1>1, <1>3, <2>1, ElementOfSeq
      <3> QED  BY <2>1, <3>1, <3>2, <1>3, StagesApart DEF Pages
    <2>2. CASE run.account = 0
      BY <2>2 DEF Stage, Pages
    <2> QED  BY <1>3, <2>1, <2>2
  <1>5. Pages(Stage(run.account)) \in Nat
    BY <1>1, <1>3, <1>4, CollectorAssumption, LenProperties
  <1>6. cursor \in NextCursors(Stage(run.account), FirstPage(run.cursor))
    BY DEF FetchPage
  <1> QED  BY <1>1, <1>2, <1>4, <1>5, <1>6, CollectorAssumption DEF NextCursors, Cursors

\* What a page adds to what is read
LEMMA ReadFacts ==
  ASSUME CollectorInv, NEW cursor, FetchPage(cursor)
  PROVE  /\ got' \in Read
         /\ run.account = 0 =>
              /\ got'.keys = got.keys
              /\ got'.accounts = IF FirstPage(run.cursor) <= Len(open)
                                   THEN Append(got.accounts, open[FirstPage(run.cursor)]) ELSE got.accounts
         /\ run.account # 0 =>
              /\ got'.accounts = got.accounts
              /\ got'.keys = got.keys \cup {<<Stage(run.account), FirstPage(run.cursor)>>}
  <1> DEFINE page == FirstPage(run.cursor)
  <1>1. got \in Read /\ open \in Seq(Accounts) /\ page \in Nat \ {0}
    BY FetchFacts DEF CollectorInv, CollectorTypeOK
  <1>2. got' = ReadPage(page)  BY DEF FetchPage
  <1> HIDE DEF page
  <1>3. CASE run.account = 0
    <2>1. PICK found :
            found = IF page <= Len(open) THEN Append(got.accounts, open[page]) ELSE got.accounts
      OBVIOUS
    <2>2. found \in Seq(Accounts)
      <3>1. page <= Len(open) => open[page] \in Accounts  BY <1>1, LenProperties, ElementOfSeq
      <3>2. got.accounts \in Seq(Accounts)  BY <1>1 DEF Read
      <3> QED  BY <2>1, <3>1, <3>2, AppendProperties
    <2>3. got' = [got EXCEPT !.accounts = found]  BY <1>2, <1>3, <2>1 DEF ReadPage
    <2> QED  BY <1>1, <1>3, <2>1, <2>2, <2>3 DEF Read, page
  <1>4. CASE run.account # 0
    <2>1. PICK keys : keys = got.keys \cup {<<Stage(run.account), page>>}
      OBVIOUS
    <2>2. Stage(run.account) \in Accounts
      <3>1. run.account \in Nat  BY DEF CollectorInv, CollectorTypeOK, Runs
      <3> QED  BY <1>4, <3>1, FetchFacts
    <2>3. keys \subseteq Accounts \X Nat  BY <1>1, <2>1, <2>2 DEF Read
    <2>4. got' = [got EXCEPT !.keys = keys]  BY <1>2, <1>4, <2>1 DEF ReadPage
    <2> QED  BY <1>1, <1>4, <2>1, <2>3, <2>4 DEF Read, page
  <1> QED  BY <1>3, <1>4

\* A page keeps the types ...
LEMMA FetchTypes ==
  ASSUME CollectorInv, NEW cursor, FetchPage(cursor)
  PROVE  CollectorTypeOK'
  <1>1. cursor \in Cursors /\ run.stage = "page"  BY FetchFacts
  <1>2. run' \in Runs  BY <1>1, AfterFacts DEF FetchPage, CollectorInv
  <1>3. seen' \subseteq Nat \ {0}
    BY <1>1 DEF FetchPage, CollectorInv, CollectorTypeOK, Cursors
  <1>4. \A s \in DOMAIN checkpoint' : checkpoint'[s] \in Cursors
    BY <1>1 DEF FetchPage, CollectorInv, CollectorTypeOK
  <1>5. UNCHANGED <<open, expected>>  BY DEF FetchPage
  <1> QED  BY <1>2, <1>3, <1>4, <1>5, ReadFacts DEF CollectorInv, CollectorTypeOK

\* ... a page of accounts the list ...
LEMMA FetchList ==
  ASSUME CollectorInv, run.account = 0, NEW cursor, FetchPage(cursor),
         cursor = NoPage \/ cursor \notin seen
  PROVE  CollectorInv'
  <1> DEFINE page == FirstPage(run.cursor)
  <1>1. /\ run.stage = "page" /\ Active /\ snapshot = NoPage /\ snapshot' = NoPage
        /\ page \in Nat \ {0} /\ cursor \in Cursors /\ NoPage \notin Nat
        /\ cursor = NoPage \/ (cursor = page + 1 /\ page < Len(open))
    BY FetchFacts, CollectorAssumption DEF FetchPage
  <1>2. run' = AfterPage(cursor) /\ UNCHANGED <<open, expected>>  BY DEF FetchPage
  <1>3. /\ run'.stage \in {"count", "page"} /\ run'.account = 0
        /\ run'.fresh = run.fresh /\ run'.steady = run.steady
        /\ run'.stage = "page" => run'.cursor = cursor /\ cursor # NoPage
        /\ run'.stage = "count" => cursor = NoPage
    BY <1>1, <1>2, AfterFacts DEF CollectorInv
  <1>4. got'.accounts = IF page <= Len(open) THEN Append(got.accounts, open[page]) ELSE got.accounts
    BY ReadFacts
  <1>5. /\ got.accounts \in Seq(Accounts) /\ open \in Seq(Accounts)
        /\ Len(got.accounts) \in Nat /\ Len(open) \in Nat
    BY LenProperties DEF CollectorInv, CollectorTypeOK, Read
  <1> HIDE DEF page
  <1>6. /\ Len(got'.accounts) = Len(got.accounts) + (IF page <= Len(open) THEN 1 ELSE 0)
        /\ \A i \in 1..Len(got.accounts) : got'.accounts[i] = got.accounts[i]
        /\ page <= Len(open) => got'.accounts[Len(got.accounts) + 1] = open[page]
    <2>1. CASE page <= Len(open)
      <3>1. open[page] \in Accounts  BY <1>1, <1>5, <2>1, ElementOfSeq
      <3>2. got'.accounts = Append(got.accounts, open[page])  BY <1>4, <2>1
      <3>3. /\ Len(Append(got.accounts, open[page])) = Len(got.accounts) + 1
            /\ \A i \in 1..Len(got.accounts) :
                 Append(got.accounts, open[page])[i] = got.accounts[i]
            /\ Append(got.accounts, open[page])[Len(got.accounts) + 1] = open[page]
        BY <1>5, <3>1, AppendProperties
      <3> QED  BY <2>1, <3>2, <3>3
    <2>2. CASE ~(page <= Len(open))
      BY <1>4, <1>5, <2>2
    <2> QED  BY <2>1, <2>2
  <1>7. CollectorTypeOK'  BY FetchTypes
  <1>8. Places'
    <2>1. Len(got'.accounts) \in Nat  BY <1>7, LenProperties DEF CollectorTypeOK, Read
    <2> QED  BY <1>3, <2>1 DEF Places, Active
  <1>9. CountedOpen'  BY <1>1, <1>2, <1>3 DEF CollectorInv, CountedOpen, Active
  <1>10. FinishedWhole' /\ PagesBefore'
    <2>1. Finished' = -1  BY <1>3 DEF Finished
    <2> QED  BY <1>3, <2>1 DEF FinishedWhole, PagesBefore
  <1>11. CursorsAtEnd'
    <2>1. Stage(run.account) = AccountStage /\ Stage(run.account)' = AccountStage
      BY <1>3 DEF Stage
    <2>2. checkpoint' = [s \in DOMAIN checkpoint \cup {AccountStage} |->
                            IF s = AccountStage THEN cursor ELSE checkpoint[s]]
      BY <2>1 DEF FetchPage
    <2>3. run.fresh => \A s \in DOMAIN checkpoint : checkpoint[s] # NoPage => s = AccountStage
      BY <1>1, <2>1 DEF CollectorInv, CursorsAtEnd
    <2>4. run.fresh =>
            \A s \in DOMAIN checkpoint' :
              checkpoint'[s] # NoPage => s = AccountStage /\ cursor # NoPage
      BY <2>2, <2>3
    <2> QED  BY <1>3, <2>1, <2>4 DEF CursorsAtEnd
  <1>12. Listed'
    <2>1. SUFFICES ASSUME run.steady PROVE \E c \in Nat \ {0} : Stretch(c)'
      BY <1>3 DEF Listed
    <2>2. PICK c \in Nat \ {0} : Stretch(c)
      BY <1>1, <2>1 DEF CollectorInv, Listed
    <2>3. page = c + Len(got.accounts)  BY <1>1, <2>2 DEF Stretch, page
    <2>4. \A i \in 1..Len(got'.accounts) : c + i - 1 <= Len(open') /\ got'.accounts[i] = open'[c + i - 1]
      <3> TAKE i \in 1..Len(got'.accounts)
      <3>1. CASE i \in 1..Len(got.accounts)
        BY <1>2, <1>6, <2>2, <3>1 DEF Stretch
      <3>2. CASE i \notin 1..Len(got.accounts)
        <4>1. page <= Len(open) /\ i = Len(got.accounts) + 1
          <5>1. ASSUME ~(page <= Len(open)) PROVE FALSE
            <6>1. Len(got'.accounts) = Len(got.accounts)  BY <1>5, <1>6, <5>1
            <6> QED  BY <3>2, <6>1
          <5>2. Len(got'.accounts) = Len(got.accounts) + 1  BY <1>6, <5>1
          <5> QED  BY <1>5, <3>2, <5>1, <5>2
        <4>2. c + i - 1 = page  BY <1>5, <2>3, <4>1
        <4> QED  BY <1>2, <1>6, <4>1, <4>2
      <3> QED  BY <3>1, <3>2
    <2>5. run'.stage = "page" => FirstPage(run'.cursor) = c + Len(got'.accounts)
      <3>1. SUFFICES ASSUME run'.stage = "page" PROVE FirstPage(cursor) = c + Len(got'.accounts)
        BY <1>3
      <3>2. FirstPage(cursor) = page + 1 /\ page <= Len(open)
        BY <1>1, <1>3, <1>5, <3>1 DEF FirstPage
      <3> QED  BY <1>5, <1>6, <2>3, <3>2
    <2>6. Stretch(c)'  BY <2>4, <2>5 DEF Stretch, FirstPage
    <2> QED  BY <2>6
  <1> QED  BY <1>1, <1>7, <1>8, <1>9, <1>10, <1>11, <1>12 DEF CollectorInv, OfTheRun

\* ... and a page of keys the pages of the account in hand.
LEMMA FetchKeys ==
  ASSUME CollectorInv, run.account # 0, NEW cursor, FetchPage(cursor),
         cursor = NoPage \/ cursor \notin seen
  PROVE  CollectorInv'
  <1> DEFINE page == FirstPage(run.cursor)
             account == got.accounts[run.account]
  <1>0. run.account \in Nat /\ run.account > 0  BY DEF CollectorInv, CollectorTypeOK, Runs
  <1>1. /\ run.stage = "page" /\ Active /\ snapshot = NoPage /\ snapshot' = NoPage
        /\ page \in Nat \ {0} /\ cursor \in Cursors /\ NoPage \notin Nat
        /\ cursor = NoPage \/ cursor = page + 1
        /\ Stage(run.account) = account /\ PageCount[account] \in Nat
        /\ cursor = NoPage => page >= PageCount[account]
    BY <1>0, FetchFacts, CollectorAssumption DEF FetchPage
  <1>2. run' = AfterPage(cursor) /\ UNCHANGED <<open, expected>>  BY DEF FetchPage
  <1>3. /\ run'.stage \in {"next", "page"} /\ run'.account = run.account
        /\ run'.fresh = run.fresh /\ run'.steady = run.steady
        /\ run'.stage = "page" => run'.cursor = cursor /\ cursor # NoPage
        /\ run'.stage = "next" => cursor = NoPage
    BY <1>1, <1>2, AfterFacts DEF CollectorInv
  <1>4. got'.accounts = got.accounts /\ got'.keys = got.keys \cup {<<account, page>>}
    BY <1>1, ReadFacts
  <1>5. CollectorTypeOK'  BY FetchTypes
  <1>6. Places' /\ CountedOpen'
    BY <1>1, <1>2, <1>3, <1>4 DEF CollectorInv, Places, CountedOpen, Active
  <1>7. Listed'
    <2>1. \A c : Stretch(c) => Stretch(c)'
      BY <1>0, <1>2, <1>3, <1>4 DEF Stretch
    <2> QED  BY <1>1, <1>3, <2>1 DEF CollectorInv, Listed
  <1>8. PagesBefore'
    <2>1. SUFFICES ASSUME run.fresh, cursor # NoPage, NEW p \in Nat \ {0}, p < FirstPage(cursor)
                   PROVE  <<account, p>> \in got'.keys
      BY <1>3, <1>4 DEF PagesBefore, FirstPage
    <2>2. FirstPage(cursor) = page + 1  BY <1>1, <2>1 DEF FirstPage
    <2>3. p = page \/ p < page  BY <1>1, <2>1, <2>2
    <2>4. p < page => <<account, p>> \in got.keys
      BY <1>0, <1>1, <2>1 DEF CollectorInv, PagesBefore
    <2> QED  BY <1>4, <2>3, <2>4
  <1>9. FinishedWhole'
    <2>1. SUFFICES ASSUME run.fresh, NEW n \in 1..Len(got.accounts), n <= Finished'
                   PROVE  WholeOf(got.accounts[n])'
      BY <1>3, <1>4 DEF FinishedWhole, WholeOf
    <2>2. Len(got.accounts) \in Nat  BY LenProperties DEF CollectorInv, CollectorTypeOK, Read
    <2>3. n <= Finished => WholeOf(got.accounts[n])
      BY <1>1, <2>1 DEF CollectorInv, FinishedWhole
    <2>4. n <= Finished \/ (n = run.account /\ cursor = NoPage)
      BY <1>0, <1>1, <1>3, <2>1, <2>2 DEF Finished
    <2>5. CASE n <= Finished
      BY <1>4, <2>3, <2>5 DEF WholeOf
    <2>6. CASE n = run.account /\ cursor = NoPage
      <3>1. \A p \in 1..PageCount[account] : <<account, p>> \in got.keys \/ p = page
        <4> TAKE p \in 1..PageCount[account]
        <4>1. p < page \/ p = page  BY <1>1, <2>6
        <4>2. p < page => <<account, p>> \in got.keys
          BY <1>0, <1>1, <2>1 DEF CollectorInv, PagesBefore
        <4> QED  BY <4>1, <4>2
      <3> QED  BY <1>4, <2>6, <3>1 DEF WholeOf
    <2> QED  BY <2>4, <2>5, <2>6
  <1>10. CursorsAtEnd'
    <2>1. Stage(run.account)' = account  BY <1>0, <1>3, <1>4 DEF Stage
    <2>2. checkpoint' = [s \in DOMAIN checkpoint \cup {account} |->
                            IF s = account THEN cursor ELSE checkpoint[s]]
      BY <1>1 DEF FetchPage
    <2>3. run.fresh => \A s \in DOMAIN checkpoint : checkpoint[s] # NoPage => s = account
      BY <1>1 DEF CollectorInv, CursorsAtEnd
    <2>4. run.fresh =>
            \A s \in DOMAIN checkpoint' : checkpoint'[s] # NoPage => s = account /\ cursor # NoPage
      BY <2>2, <2>3
    <2> QED  BY <1>3, <2>1, <2>4 DEF CursorsAtEnd
  <1> QED  BY <1>1, <1>5, <1>6, <1>7, <1>8, <1>9, <1>10 DEF CollectorInv, OfTheRun

\* A page, of accounts or of keys
LEMMA FetchStep ==
  ASSUME CollectorInv, NEW cursor, FetchPage(cursor)
  PROVE  CollectorInv'
  <1>1. CASE cursor # NoPage /\ cursor \in seen
    <2>1. run' \in Runs /\ run'.stage = "failed" /\ snapshot = NoPage /\ snapshot' = NoPage
      BY <1>1, FetchFacts, AfterFacts DEF FetchPage, CollectorInv
    <2> QED  BY <2>1, FetchTypes, HaltStep
  <1> QED  BY <1>1, FetchList, FetchKeys

\* Every step keeps a fresh run whole and a steady one complete.
LEMMA CollectorStepInv == CollectorInv /\ [CollectorNext]_collectorVars => CollectorInv'
  <1>1. CASE UNCHANGED collectorVars
    BY <1>1 DEF collectorVars, CollectorInv, CollectorTypeOK, Places, Listed, Stretch,
       CountedOpen, FinishedWhole,
                Finished, WholeOf, PagesBefore, CursorsAtEnd, OfTheRun, Active, Stage,
                Reconciled
  <1> QED
    BY <1>1, BeginStep, CheckPermissionsStep, FetchStep, CountTreeStep, NextAccountStep,
       SummariseStep,
              FinishStep, ThrottledStep, CrashStep, CloseStep, JoinStep DEF CollectorNext

\* For any accounts and pages, whatever is throttled, stopped and taken up again: a
\* snapshot lists every open account if none came or went and the tree was counted;
\* and, whoever came and went, all keys of those it lists if the run began at the
\* first page.
THEOREM SnapshotAlwaysWhole == CollectorSpec => []SnapshotIsWhole
  <1>1. CollectorInv => SnapshotIsWhole
    <2> SUFFICES ASSUME CollectorInv, snapshot # NoPage
                 PROVE  /\ expected # NoPage /\ run.steady =>
                             Listing(open) \subseteq Listing(snapshot.accounts)
                        /\ run.fresh =>
                             \A n \in 1..Len(snapshot.accounts) :
                               \A page \in 1..PageCount[snapshot.accounts[n]] :
                                 <<snapshot.accounts[n], page>> \in snapshot.keys
      BY DEF SnapshotIsWhole
    <2>1. /\ run.stage = "done" /\ snapshot = got /\ Active
          /\ expected # NoPage => Len(got.accounts) = expected
          /\ run.account = Len(got.accounts)
      BY DEF CollectorInv, OfTheRun, Active, Reconciled
    <2>2. Len(open) \in Nat /\ Len(got.accounts) \in Nat
      BY LenProperties DEF CollectorInv, CollectorTypeOK, Read
    <2>3. ASSUME expected # NoPage, run.steady, NEW k \in 1..Len(open)
          PROVE  \E n \in 1..Len(got.accounts) : got.accounts[n] = open[k]
      <3>1. Len(got.accounts) = Len(open)
        BY <2>1, <2>3 DEF CollectorInv, CountedOpen
      <3>2. PICK c \in Nat \ {0} : Stretch(c)
        BY <2>1, <2>3 DEF CollectorInv, Listed
      <3>3. c = 1  BY <2>2, <3>1, <3>2, <2>3 DEF Stretch
      <3>4. k \in 1..Len(got.accounts) /\ got.accounts[k] = open[k]
        BY <2>2, <2>3, <3>1, <3>2, <3>3 DEF Stretch
      <3> QED  BY <3>4
    <2>4. expected # NoPage /\ run.steady => Listing(open) \subseteq Listing(got.accounts)
      <3>1. open \in Seq(Accounts) /\ got.accounts \in Seq(Accounts)
        BY DEF CollectorInv, CollectorTypeOK, Read
      <3>2. DOMAIN open = 1..Len(open) /\ DOMAIN got.accounts = 1..Len(got.accounts)
        BY <3>1, LenProperties
      <3> QED  BY <2>3, <3>2 DEF Listing
    <2>5. ASSUME run.fresh, NEW n \in 1..Len(got.accounts)
          PROVE  WholeOf(got.accounts[n])
      <3>1. n <= Finished  BY <2>1, <2>2, <2>5 DEF Finished
      <3> QED  BY <2>1, <2>5, <3>1 DEF CollectorInv, FinishedWhole
    <2> QED  BY <2>1, <2>4, <2>5 DEF WholeOf
  <1> QED  BY CollectorInitInv, CollectorStepInv, <1>1, PTL DEF CollectorSpec

--------------------------------------------------------------------------------
\* Alerts (Alerts): a regression is told, or an ingest that will tell it is at work.

IngestStates ==
  [at : {"rest", "prior", "build", "save", "compare"}, verdict : Verdicts \cup {NoVerdict},
   prior : Verdicts \cup {NoVerdict}, date : Nat]

AlertTypeOK ==
  /\ DOMAIN archive \subseteq Verdicts
  /\ archive = [v \in DOMAIN archive |-> archive[v]] /\ \A v \in DOMAIN archive : archive[v] \in Nat
  /\ doing \in [Ingests -> IngestStates]
  /\ built \in Nat

\* Unless nothing is stored, some report is the latest: the sort has a last.
HasLatest ==
  archive = <<>> \/ \E v \in DOMAIN archive : \A u \in DOMAIN archive : NotAfter(SortKey(u), SortKey(v))

\* An ingest under way is about a report, and what it found earlier is stored.
PriorsAreKept ==
  \A i \in Ingests :
    /\ doing[i].at # "rest" => doing[i].verdict \in Verdicts
    /\ doing[i].prior # NoVerdict => doing[i].prior \in DOMAIN archive

AtRisk(v, c) == c \in DOMAIN StatusOf[v] /\ StatusOf[v][c] = "at_risk"

Told(c) ==
  \/ \E a \in sent : a.kind = "control_regressed" /\ a.about = c
  \/ \E u \in baseline \cup silent : StatusIn(u, c) = "at_risk"

\* An ingest that will tell of the control, having found it otherwise before.
Telling(i, c) ==
  /\ doing[i].at = "compare"
  /\ AtRisk(doing[i].verdict, c)
  /\ doing[i].prior # NoVerdict /\ ~AtRisk(doing[i].prior, c)

\* A control at risk in a stored report was told of, or is about to be.
ToldOrTelling ==
  \A v \in DOMAIN archive : \A c : AtRisk(v, c) => Told(c) \/ \E i \in Ingests : Telling(i, c)

AlertInv == AlertTypeOK /\ HasLatest /\ PriorsAreKept /\ ToldOrTelling

\* No report is kept at first.
LEMMA AlertInitInv == AlertInit => AlertInv
  <1> SUFFICES ASSUME AlertInit PROVE AlertInv
    OBVIOUS
  <1>1. DOMAIN archive = {}  BY DEF AlertInit
  <1>2. AlertTypeOK  BY <1>1 DEF AlertInit, AlertTypeOK, IngestStates, Resting
  <1>3. HasLatest /\ ToldOrTelling  BY <1>1 DEF AlertInit, HasLatest, ToldOrTelling
  <1>4. PriorsAreKept  BY DEF AlertInit, PriorsAreKept, Resting
  <1> QED  BY <1>2, <1>3, <1>4 DEF AlertInv

\* A control at risk has a status.
LEMMA AtRiskStatus ==
  ASSUME NEW v, NEW c
  PROVE  AtRisk(v, c) <=> StatusIn(v, c) = "at_risk"
  BY DEF AtRisk, StatusIn

\* latest(1) finds a stored report, or none when there is none.
LEMMA LatestIsKept == AlertInv => LatestKept \in DOMAIN archive \cup {NoVerdict}
  <1> SUFFICES ASSUME AlertInv PROVE LatestKept \in DOMAIN archive \cup {NoVerdict}
    OBVIOUS
  <1>1. CASE archive = <<>>  BY <1>1 DEF LatestKept
  <1>2. CASE archive # <<>>
    <2>1. \E v \in DOMAIN archive : \A u \in DOMAIN archive : NotAfter(SortKey(u), SortKey(v))
      BY <1>2 DEF AlertInv, HasLatest
    <2> QED  BY <1>2, <2>1 DEF LatestKept
  <1> QED  BY <1>1, <1>2

\* A step of one ingest that stores nothing and tells nothing less: it need
\* only answer for the controls it was telling of.
LEMMA MovesStep ==
  ASSUME AlertInv, NEW i \in Ingests, NEW now \in IngestStates, Moves(i, now),
         archive' = archive, built' \in Nat,
         now.at # "rest" => now.verdict \in Verdicts,
         now.prior # NoVerdict => now.prior \in DOMAIN archive,
         sent \subseteq sent', baseline \subseteq baseline', silent \subseteq silent',
         \A c : Telling(i, c) => Told(c)'
  PROVE  AlertInv'
  <1>1. \A k \in Ingests : doing'[k] = IF k = i THEN now ELSE doing[k]
    BY DEF Moves, AlertInv, AlertTypeOK
  <1>2. doing' \in [Ingests -> IngestStates]  BY DEF Moves, AlertInv, AlertTypeOK
  <1>3. AlertTypeOK'  BY <1>2 DEF AlertInv, AlertTypeOK
  <1>4. HasLatest'  BY DEF AlertInv, HasLatest, SortKey
  <1>5. PriorsAreKept'  BY <1>1 DEF AlertInv, PriorsAreKept
  <1>6. ToldOrTelling'
    <2> SUFFICES ASSUME NEW v \in DOMAIN archive, NEW c, AtRisk(v, c)
                 PROVE  Told(c)' \/ \E k \in Ingests : Telling(k, c)'
      BY DEF ToldOrTelling, AtRisk
    <2>1. CASE Told(c)  BY <2>1 DEF Told
    <2>2. ASSUME NEW k \in Ingests, Telling(k, c)
          PROVE  Told(c)' \/ Telling(k, c)'
      BY <1>1, <2>2 DEF Telling, AtRisk
    <2> QED  BY <2>1, <2>2 DEF AlertInv, ToldOrTelling
  <1> QED  BY <1>3, <1>4, <1>5, <1>6 DEF AlertInv

\* A save makes its report the latest, or leaves that what it was.
LEMMA SaveLatest ==
  ASSUME AlertInv, NEW i \in Ingests, Save(i)
  PROVE  HasLatest'
  <1> DEFINE v == doing[i].verdict
  <1>1. PICK w : w = v  OBVIOUS
  <1>2. /\ w \in Verdicts /\ doing[i].date \in Nat
        /\ archive' = [u \in DOMAIN archive \cup {w} |->
                     IF u \in DOMAIN archive THEN archive[u] ELSE doing[i].date]
    BY <1>1 DEF Save, AlertInv, AlertTypeOK, PriorsAreKept, IngestStates
  <1>3. DOMAIN archive' = DOMAIN archive \cup {w} /\ \A u \in DOMAIN archive : archive'[u] = archive[u]
    BY <1>2
  <1>4. \A u \in DOMAIN archive' : archive'[u] \in Nat /\ WindowOf[u] \in Nat
    BY <1>2, AlertAssumption DEF AlertInv, AlertTypeOK
  <1>5. \A u \in DOMAIN archive : SortKey(u)' = SortKey(u)  BY <1>3 DEF SortKey
  <1>6. CASE w \in DOMAIN archive
    <2>1. archive' = archive  BY <1>2, <1>6 DEF AlertInv, AlertTypeOK
    <2> QED  BY <2>1 DEF AlertInv, HasLatest, SortKey
  <1>7. CASE w \notin DOMAIN archive
    <2>1. CASE archive = <<>>
      <3>1. DOMAIN archive' = {w}  BY <1>3, <2>1
      <3>2. NotAfter(SortKey(w)', SortKey(w)')  BY <1>4, <3>1 DEF NotAfter, SortKey
      <3> QED  BY <3>1, <3>2 DEF HasLatest, SortKey, NotAfter
    <2>2. CASE archive # <<>>
      <3>1. PICK x \in DOMAIN archive : \A u \in DOMAIN archive : NotAfter(SortKey(u), SortKey(x))
        BY <2>2 DEF AlertInv, HasLatest
      <3> DEFINE Key(u) == SortKey(u)'
      <3>2. \A u \in DOMAIN archive' : Key(u)[1] \in Nat /\ Key(u)[2] \in Nat
        BY <1>4 DEF SortKey
      <3>3. \A u \in DOMAIN archive : NotAfter(Key(u), Key(x))
        BY <1>5, <3>1
      <3>4. x \in DOMAIN archive' /\ w \in DOMAIN archive'  BY <1>3
      <3> HIDE DEF Key
      <3>5. CASE NotAfter(Key(w), Key(x))
        <4>1. \A u \in DOMAIN archive' : NotAfter(Key(u), Key(x))  BY <1>3, <3>3, <3>5
        <4> QED  BY <3>4, <4>1 DEF HasLatest, Key, NotAfter
      <3>6. CASE ~NotAfter(Key(w), Key(x))
        <4>1. NotAfter(Key(x), Key(w)) /\ NotAfter(Key(w), Key(w))
          BY <3>2, <3>4, <3>6 DEF NotAfter
        <4>2. \A u \in DOMAIN archive : NotAfter(Key(u), Key(w))
          BY <1>3, <3>2, <3>3, <3>4, <4>1 DEF NotAfter
        <4>3. \A u \in DOMAIN archive' : NotAfter(Key(u), Key(w))  BY <1>3, <4>1, <4>2
        <4> QED  BY <3>4, <4>3 DEF HasLatest, Key, NotAfter
      <3> QED  BY <3>5, <3>6
    <2> QED  BY <2>1, <2>2
  <1> QED  BY <1>6, <1>7

\* A report is saved.
LEMMA SaveStep == ASSUME AlertInv, NEW i \in Ingests, Save(i) PROVE AlertInv'
  <1>0. PICK v : v = doing[i].verdict  OBVIOUS
  <1>1. /\ doing[i].at = "save" /\ v \in Verdicts /\ doing[i].date \in Nat
        /\ archive' = [u \in DOMAIN archive \cup {v} |->
                     IF u \in DOMAIN archive THEN archive[u] ELSE doing[i].date]
        /\ baseline' = IF doing[i].prior = NoVerdict THEN baseline \cup {v} ELSE baseline
        /\ doing' = [doing EXCEPT ![i] = [doing[i] EXCEPT !.at = "compare"]]
        /\ sent' = sent /\ silent' = silent /\ built' = built
    BY <1>0 DEF Save, Moves, AlertInv, AlertTypeOK, PriorsAreKept, IngestStates
  <1>2. DOMAIN archive' = DOMAIN archive \cup {v} /\ \A u \in DOMAIN archive : archive'[u] = archive[u]
    BY <1>1
  <1>3. PICK now \in IngestStates :
          /\ now.at = "compare" /\ now.verdict = v /\ now.prior = doing[i].prior
          /\ doing' = [doing EXCEPT ![i] = now]
    <2>1. doing[i] \in IngestStates  BY DEF AlertInv, AlertTypeOK
    <2>2. /\ [doing[i] EXCEPT !.at = "compare"] \in IngestStates
          /\ [doing[i] EXCEPT !.at = "compare"].at = "compare"
          /\ [doing[i] EXCEPT !.at = "compare"].verdict = v
          /\ [doing[i] EXCEPT !.at = "compare"].prior = doing[i].prior
      BY <1>0, <2>1 DEF IngestStates
    <2> QED  BY <1>1, <2>2
  <1>4. \A k \in Ingests : doing'[k] = IF k = i THEN now ELSE doing[k]
    BY <1>3 DEF AlertInv, AlertTypeOK
  <1>5. AlertTypeOK'  BY <1>1, <1>2, <1>3 DEF AlertInv, AlertTypeOK
  <1>6. PriorsAreKept'  BY <1>1, <1>2, <1>3, <1>4 DEF AlertInv, PriorsAreKept
  <1>7. \A c : Told(c) => Told(c)'  BY <1>1 DEF Told
  <1>8. \A k \in Ingests : \A c : Telling(k, c) => Telling(k, c)'
    BY <1>1, <1>4 DEF Telling, AtRisk
  <1>9. ToldOrTelling'
    <2> SUFFICES ASSUME NEW u \in DOMAIN archive', NEW c, AtRisk(u, c)
                 PROVE  Told(c)' \/ \E k \in Ingests : Telling(k, c)'
      BY DEF ToldOrTelling, AtRisk
    <2>1. ASSUME NEW x \in DOMAIN archive, AtRisk(x, c)
          PROVE  Told(c)' \/ \E k \in Ingests : Telling(k, c)'
      BY <1>7, <1>8, <2>1 DEF AlertInv, ToldOrTelling
    <2>2. CASE u \in DOMAIN archive  BY <2>1, <2>2
    <2>3. CASE u = v /\ doing[i].prior = NoVerdict
      <3>1. v \in baseline' /\ StatusIn(v, c) = "at_risk"  BY <1>1, <2>3, AtRiskStatus
      <3> QED  BY <3>1 DEF Told, StatusIn
    <2>4. CASE u = v /\ doing[i].prior # NoVerdict
      <3>1. doing[i].prior \in DOMAIN archive  BY <2>4 DEF AlertInv, PriorsAreKept
      <3>2. CASE AtRisk(doing[i].prior, c)  BY <2>1, <3>1, <3>2
      <3>3. CASE ~AtRisk(doing[i].prior, c)
        <4>1. Telling(i, c)'  BY <1>3, <1>4, <2>4, <3>3 DEF Telling, AtRisk
        <4> QED  BY <4>1
      <3> QED  BY <3>2, <3>3
    <2> QED  BY <1>2, <2>2, <2>3, <2>4
  <1> QED  BY <1>5, <1>6, <1>9, SaveLatest DEF AlertInv

\* A report is compared with its prior, and what regressed is told.
LEMMA CompareStep == ASSUME AlertInv, NEW i \in Ingests, Compare(i) PROVE AlertInv'
  <1>1. Resting \in IngestStates /\ Resting.at = "rest" /\ Resting.prior = NoVerdict
    BY DEF Resting, IngestStates
  <1>2. ASSUME NEW c, Telling(i, c)  PROVE Told(c)'
    <2>0. PICK v, p : v = doing[i].verdict /\ p = doing[i].prior  OBVIOUS
    <2>1. p \notin {NoVerdict, v} /\ AtRisk(v, c) /\ ~AtRisk(p, c)
      BY <1>2, <2>0 DEF Telling
    <2>2. sent' = sent \cup AlertsFor(p, v)  BY <2>0, <2>1 DEF Compare
    <2>3. c \in Regressed(p, v)  BY <2>1, AtRiskStatus DEF Regressed, AtRisk
    <2>4. [kind |-> "control_regressed", about |-> c, old |-> p, new |-> v] \in AlertsFor(p, v)
      BY <2>3 DEF AlertsFor
    <2>5. \E a \in sent' : a.kind = "control_regressed" /\ a.about = c
      BY <2>2, <2>4
    <2> QED  BY <2>5 DEF Told
  <1> QED
    <2>1. Moves(i, Resting) /\ archive' = archive /\ built' = built /\ baseline' = baseline
          /\ silent' = silent /\ sent \subseteq sent'
      BY DEF Compare
    <2>2. built' \in Nat  BY <2>1 DEF AlertInv, AlertTypeOK
    <2> QED  BY <1>1, <1>2, <2>1, <2>2, MovesStep

\* An ingest ends without a word.
LEMMA VanishStep == ASSUME AlertInv, NEW i \in Ingests, Vanish(i) PROVE AlertInv'
  <1>1. Resting \in IngestStates /\ Resting.at = "rest" /\ Resting.prior = NoVerdict
    BY DEF Resting, IngestStates
  <1>2. /\ Moves(i, Resting) /\ archive' = archive /\ built' = built /\ baseline' = baseline
        /\ sent' = sent /\ silent \subseteq silent'
        /\ (doing[i].at = "compare" => doing[i].verdict \in silent')
    BY DEF Vanish
  <1>3. ASSUME NEW c, Telling(i, c)  PROVE Told(c)'
    <2>1. doing[i].verdict \in silent' /\ StatusIn(doing[i].verdict, c) = "at_risk"
      BY <1>2, <1>3, AtRiskStatus DEF Telling
    <2> QED  BY <2>1 DEF Told, StatusIn
  <1>4. built' \in Nat  BY <1>2 DEF AlertInv, AlertTypeOK
  <1> QED  BY <1>1, <1>2, <1>3, <1>4, MovesStep

\* Every step keeps what is at risk told, or about to be.
LEMMA AlertStepInv == AlertInv /\ [AlertNext]_alertVars => AlertInv'
  <1> SUFFICES ASSUME AlertInv, [AlertNext]_alertVars PROVE AlertInv'
    OBVIOUS
  <1>0. \A i \in Ingests : doing[i] \in IngestStates  BY DEF AlertInv, AlertTypeOK
  <1>1. ASSUME NEW i \in Ingests, NEW v \in Verdicts, Receive(i, v)  PROVE AlertInv'
    <2>1. PICK now \in IngestStates : Moves(i, now) /\ now.prior = NoVerdict /\ now.verdict = v
      <3> DEFINE now == [Resting EXCEPT !.verdict = v,
                                        !.at = IF PathOf[v] = "config" THEN "prior" ELSE "build"]
      <3>1. now \in IngestStates /\ now.prior = NoVerdict /\ now.verdict = v
        BY DEF Resting, IngestStates
      <3>2. Moves(i, now)  BY <1>1 DEF Receive
      <3> QED  BY <3>1, <3>2
    <2>2. \A c : ~Telling(i, c)  BY <1>1 DEF Receive, Telling
    <2>3. archive' = archive /\ built' = built /\ sent' = sent /\ baseline' = baseline /\ silent' = silent
      BY <1>1 DEF Receive
    <2>4. built' \in Nat  BY <2>3 DEF AlertInv, AlertTypeOK
    <2> QED  BY <2>1, <2>2, <2>3, <2>4, MovesStep
  <1>2. ASSUME NEW i \in Ingests, BuildReport(i)  PROVE AlertInv'
    <2>1. PICK now \in IngestStates :
            Moves(i, now) /\ now.prior = doing[i].prior /\ now.verdict = doing[i].verdict
      <3> DEFINE now == [doing[i] EXCEPT !.date = built + 1,
                           !.at = IF PathOf[doing[i].verdict] = "config" THEN "save" ELSE "prior"]
      <3>1. built + 1 \in Nat  BY DEF AlertInv, AlertTypeOK
      <3>2. now \in IngestStates /\ now.prior = doing[i].prior /\ now.verdict = doing[i].verdict
        BY <1>0, <3>1 DEF IngestStates
      <3>3. Moves(i, now)  BY <1>2 DEF BuildReport
      <3> QED  BY <3>2, <3>3
    <2>2. \A c : ~Telling(i, c)  BY <1>2 DEF BuildReport, Telling
    <2>3. /\ archive' = archive /\ built' = built + 1 /\ sent' = sent /\ baseline' = baseline
          /\ silent' = silent
      BY <1>2 DEF BuildReport
    <2>4. built' \in Nat  BY <2>3 DEF AlertInv, AlertTypeOK
    <2>5. doing[i].at # "rest"  BY <1>2 DEF BuildReport
    <2>6. /\ doing[i].verdict \in Verdicts
          /\ doing[i].prior # NoVerdict => doing[i].prior \in DOMAIN archive
      BY <2>5 DEF AlertInv, PriorsAreKept
    <2> QED  BY <2>1, <2>2, <2>3, <2>4, <2>6, MovesStep
  <1>3. ASSUME NEW i \in Ingests, LookUpPrior(i)  PROVE AlertInv'
    <2>1. LatestKept \in DOMAIN archive \cup {NoVerdict} /\ DOMAIN archive \subseteq Verdicts
      BY LatestIsKept DEF AlertInv, AlertTypeOK
    <2>2. PICK now \in IngestStates :
            Moves(i, now) /\ now.prior = LatestKept /\ now.verdict = doing[i].verdict
      <3> DEFINE now == [doing[i] EXCEPT !.prior = LatestKept,
                           !.at = IF PathOf[doing[i].verdict] = "config" THEN "build" ELSE "save"]
      <3>1. now \in IngestStates /\ now.prior = LatestKept /\ now.verdict = doing[i].verdict
        BY <1>0, <2>1 DEF IngestStates
      <3>2. Moves(i, now)  BY <1>3 DEF LookUpPrior
      <3> QED  BY <3>1, <3>2
    <2>3. \A c : ~Telling(i, c)  BY <1>3 DEF LookUpPrior, Telling
    <2>4. /\ archive' = archive /\ built' = built /\ sent' = sent /\ baseline' = baseline
          /\ silent' = silent
      BY <1>3 DEF LookUpPrior
    <2>5. built' \in Nat  BY <2>4 DEF AlertInv, AlertTypeOK
    <2>6. doing[i].verdict \in Verdicts
      BY <1>3 DEF LookUpPrior, AlertInv, PriorsAreKept
    <2> QED  BY <2>1, <2>2, <2>3, <2>4, <2>5, <2>6, MovesStep
  <1>4. CASE UNCHANGED alertVars
    BY <1>4 DEF alertVars, AlertInv, AlertTypeOK, HasLatest, PriorsAreKept, ToldOrTelling,
       Told,
                Telling, SortKey
  <1> QED  BY <1>1, <1>2, <1>3, <1>4, SaveStep, CompareStep, VanishStep DEF AlertNext

\* For any reports, in whatever order they are built, looked up and saved by
\* ingests that overlap: a control at risk in a stored report was told of as a
\* regression, unless its risk was in a first report or in one whose ingest
\* ended without a word (service.ingest_batch and ingest_config, history.ReportStore
\* and diff.alerts_from_diff).
THEOREM RegressionAlwaysTold == AlertSpec => []RegressionIsTold
  <1>1. AlertInv => RegressionIsTold
    <2> SUFFICES ASSUME AlertInv, \A i \in Ingests : doing[i].at = "rest",
                        NEW v \in DOMAIN archive, NEW c \in DOMAIN StatusOf[v],
                        StatusOf[v][c] = "at_risk"
                 PROVE  Told(c)
      BY DEF RegressionIsTold, Told
    <2>1. \A i \in Ingests : ~Telling(i, c)  BY DEF Telling
    <2>2. AtRisk(v, c)  BY DEF AtRisk
    <2> QED  BY <2>1, <2>2 DEF AlertInv, ToldOrTelling
  <1> QED  BY AlertInitInv, AlertStepInv, <1>1, PTL DEF AlertSpec
================================================================================
