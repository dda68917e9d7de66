--------------------------- MODULE PostureWorkerProofs -------------------------
(***************************************************************************)
(* The posture worker drives the queue as WorkQueue says, so that what is  *)
(* proved of the queue holds of it; and while one worker process runs and  *)
(* no manual run takes as long as a cadence, a connector that is due is    *)
(* given a job that will be run.  The argument for the second is about     *)
(* windows: those enqueued so far lie in the past (PastWindows), and those *)
(* that were run lie before the connector's next one (EndedBehind).        *)
(***************************************************************************)
EXTENDS PostureWorker, WorkQueueProofs

\* A connector with a job, or in a due list, is registered.
JobsRegistered ==
  /\ \A j \in JobIds : jobs[j].status # "absent" => Registered(ConnectorOf(j))
  /\ \A w \in Workers : \A j \in due[w] : Registered(ConnectorOf(j))

PostureInv == QueueInv /\ PWTypeOK /\ JobsRegistered

Window(j) == j[2]

DueScanned ==
  \A w \in Workers :
    /\ due[w] # {} => w \in scanned
    /\ \A j \in due[w] : Window(j) <= wrk[w].now

\* Windows are enqueued when they are past, by the time of the pass.
PastWindows ==
  \A j \in JobIds : jobs[j].status # "absent" =>
    /\ Window(j) <= clock
    /\ \A w \in Workers : wrk[w].pc # "idle" => Window(j) <= wrk[w].now

ManualFresh ==
  \A t \in Threads : manual[t].active => clock <= manual[t].now + MaxRun

\* The run of j has been recorded, or its job is over.
RunEnded(j) ==
  \/ jobs[j].status \in {"done", "dead"}
  \/ \E w \in Workers : wrk[w].pc \in {"completing", "failing", "retrying"} /\ wrk[w].job = j

EndedBehind ==
  \A j \in JobIds : RunEnded(j) => Window(j) < reg[ConnectorOf(j)].next

DueOpen ==
  \A w \in Workers : \A j \in due[w] : jobs[j].status \notin {"done", "dead"}

WindowInv ==
  /\ PostureInv
  /\ DueScanned
  /\ PastWindows
  /\ ManualFresh
  /\ EndedBehind
  /\ DueOpen

\* No manual run takes as long as a cadence.
ShortRuns == \A s \in Schedules : MaxRun < s

--------------------------------------------------------------------------------
\* The posture worker is a worker of the queue

\* Every step of the posture worker and of the API is a step of the queue, or
\* leaves the queue alone.
LEMMA QueueStep == [PWNext]_vars => [Next]_qvars
  <1>1. ASSUME NEW w \in Workers, PassStep(w) \/ PWCrash(w) PROVE [Next]_qvars
    BY <1>1
    DEF PassStep, PWStartPass, PWRequeueExpired, ScanDue, EnqueueDue, PWClaimSelect,
        PWClaimUpdate, PWHandlerReturns, PWHandlerRaises, PWComplete,
        PWCompleteRaises, PWFailSelect, PWFailUpdate, PWCrash, Next, Drain
  <1>2. ASSUME NEW c \in Connectors, NEW s \in Schedules, Register(c, s)
        PROVE  [Next]_qvars
    BY <1>2 DEF Register
  <1>3. ASSUME NEW t \in Threads,
               \/ \E c \in Connectors : ManualStart(t, c)
               \/ \E outcome \in {"ok", "error"} : ManualRecord(t, outcome)
               \/ ManualLost(t)
        PROVE  [Next]_qvars
    BY <1>3 DEF ManualStart, ManualRecord, ManualLost
  <1>4. PWTick => [Next]_qvars
    BY DEF PWTick, Next
  <1>5. UNCHANGED vars => UNCHANGED qvars
    BY DEF vars, qvars
  <1> QED BY <1>1, <1>2, <1>3, <1>4, <1>5 DEF PWNext

\* What is proved of the queue holds of the posture worker's queue.
THEOREM PostureIsQueue == PWSpec => Spec
  <1>1. PWInit => Init
    BY DEF PWInit
  <1> QED BY <1>1, QueueStep, PTL DEF PWSpec, Spec

--------------------------------------------------------------------------------
\* Types

\* A registered connector has a full row, and stays registered.
LEMMA RegisteredRow ==
  ASSUME PWTypeOK, NEW c \in Connectors, Registered(c)
  PROVE  /\ reg[c] \in ConnectorRow
         /\ reg[c].schedule \in Schedules /\ reg[c].schedule \in Nat \ {0}
         /\ reg[c].next \in Nat
  <1>1. reg[c] \in ConnectorRow \/ reg[c] = Unregistered
    BY DEF PWTypeOK
  <1>2. Unregistered.schedule = 0
    BY DEF Unregistered
  <1>3. reg[c] \in ConnectorRow
    BY <1>1, <1>2 DEF Registered
  <1> QED BY <1>3, PostureAssumption DEF ConnectorRow

LEMMA RecordedRowFacts ==
  ASSUME NEW row \in ConnectorRow, NEW now \in Nat, NEW outcome \in {"ok", "error"}
  PROVE  /\ RecordedRow(row, now, outcome) \in ConnectorRow
         /\ RecordedRow(row, now, outcome).next = now + row.schedule
         /\ RecordedRow(row, now, outcome).schedule = row.schedule
  <1>1. row.schedule \in Schedules /\ row.schedule \in Nat
    BY PostureAssumption DEF ConnectorRow
  <1> DEFINE then == now + row.schedule
  <1>2. RecordedRow(row, now, outcome) =
          [row EXCEPT !.last = now, !.status = outcome, !.next = then]
    BY DEF RecordedRow
  <1>3. then \in Nat
    BY <1>1
  <1> HIDE DEF then
  <1>4. RecordedRow(row, now, outcome) =
          [schedule |-> row.schedule, next |-> then, last |-> now, status |-> outcome]
    BY <1>2 DEF ConnectorRow
  <1> QED BY <1>1, <1>3, <1>4 DEF ConnectorRow, then

LEMMA UpsertedRowFacts ==
  ASSUME NEW row \in ConnectorRow \cup {Unregistered}, NEW s \in Schedules, NEW now \in Nat
  PROVE  /\ UpsertedRow(row, s, now) \in ConnectorRow
         /\ UpsertedRow(row, s, now).schedule = s
         /\ row.schedule # 0 => UpsertedRow(row, s, now).next = row.next
  <1>1. CASE row.schedule = 0
    <2>1. UpsertedRow(row, s, now) =
            [schedule |-> s, next |-> now, last |-> -1, status |-> "none"]
      BY <1>1 DEF UpsertedRow, Unregistered
    <2> QED BY <1>1, <2>1 DEF ConnectorRow
  <1>2. CASE row.schedule # 0
    <2>1. row \in ConnectorRow
      BY <1>2 DEF Unregistered
    <2>2. UpsertedRow(row, s, now) =
            [schedule |-> s, next |-> row.next, last |-> row.last, status |-> row.status]
      BY <1>2, <2>1 DEF UpsertedRow, ConnectorRow
    <2> QED BY <2>1, <2>2 DEF ConnectorRow
  <1> QED BY <1>1, <1>2

\* A job id is a connector and a window.
LEMMA JobIdFacts ==
  ASSUME NEW j \in JobIds
  PROVE  ConnectorOf(j) \in Connectors /\ Window(j) \in 0..MaxTime /\ Window(j) \in Nat
  BY PostureAssumption DEF ConnectorOf, Window

\* An active manual run is of a registered connector.
LEMMA ManualFacts ==
  ASSUME PWTypeOK, NEW t \in Threads, manual[t].active
  PROVE  /\ manual[t].connector \in Connectors /\ Registered(manual[t].connector)
         /\ manual[t].now \in Nat
  BY DEF PWTypeOK, ManualRun

RegTypeOK == reg \in [Connectors -> ConnectorRow \cup {Unregistered}]

\* Recording a run moves the window of one registered connector.
LEMMA RecordStep ==
  ASSUME PWTypeOK, NEW c \in Connectors, Registered(c), NEW now \in Nat,
         NEW outcome \in {"ok", "error"}, RecordRun(c, now, outcome)
  PROVE  /\ RegTypeOK'
         /\ \A d \in Connectors : Registered(d) => Registered(d)'
         /\ reg'[c].next = now + reg[c].schedule
         /\ \A d \in Connectors \ {c} : reg'[d] = reg[d]
  <1> DEFINE new == RecordedRow(reg[c], now, outcome)
  <1>1. reg' = [reg EXCEPT ![c] = new]
    BY DEF RecordRun
  <1>2. /\ new \in ConnectorRow
        /\ new.next = now + reg[c].schedule
        /\ new.schedule = reg[c].schedule
    BY RegisteredRow, RecordedRowFacts
  <1> HIDE DEF new
  <1>3. reg \in [Connectors -> ConnectorRow \cup {Unregistered}]
    BY DEF PWTypeOK
  <1>4. reg'[c] = new /\ \A d \in Connectors \ {c} : reg'[d] = reg[d]
    BY <1>1, <1>3
  <1>5. RegTypeOK'
    BY <1>1, <1>2, <1>3 DEF RegTypeOK
  <1>6. \A d \in Connectors : Registered(d) => Registered(d)'
    BY <1>2, <1>4 DEF Registered
  <1> QED BY <1>2, <1>4, <1>5, <1>6

\* The worker records the run of an existing job, at the time of its pass.
WorkerRecords(w, outcome) ==
  /\ wrk[w].pc \in {"handling", "completing"}
  /\ RecordRun(ConnectorOf(wrk[w].job), wrk[w].now, outcome)

LEMMA WorkerRecordsFacts ==
  ASSUME PostureInv, NEW w \in Workers, NEW outcome \in {"ok", "error"},
         WorkerRecords(w, outcome)
  PROVE  /\ wrk[w].job \in JobIds /\ jobs[wrk[w].job].status # "absent"
         /\ ConnectorOf(wrk[w].job) \in Connectors /\ Registered(ConnectorOf(wrk[w].job))
         /\ wrk[w].now \in Nat
  <1>1. wrk[w] \in Pass /\ wrk[w].job \in JobIds /\ wrk[w].now \in Nat
    BY DEF PostureInv, QueueInv, TypeOK, WorkerRecords, Pass
  <1>2. jobs[wrk[w].job].status # "absent"
    BY DEF PostureInv, QueueInv, PassesSound, Claimed, WorkerRecords
  <1> QED BY <1>1, <1>2, JobIdFacts DEF PostureInv, JobsRegistered

\* The registry changes in three ways only.
LEMMA RegistryMoves ==
  ASSUME [PWNext]_vars
  PROVE  \/ reg' = reg
         \/ \E w \in Workers, outcome \in {"ok", "error"} : WorkerRecords(w, outcome)
         \/ \E t \in Threads, outcome \in {"ok", "error"} : ManualRecord(t, outcome)
         \/ \E c \in Connectors, s \in Schedules : Register(c, s)
  <1>1. ASSUME NEW w \in Workers, PassStep(w) \/ PWCrash(w)
        PROVE  \/ reg' = reg
               \/ \E outcome \in {"ok", "error"} : WorkerRecords(w, outcome)
    BY <1>1
    DEF PassStep, PWStartPass, PWRequeueExpired, ScanDue, EnqueueDue, PWClaimSelect,
        PWClaimUpdate, PWHandlerReturns, PWHandlerRaises, PWComplete,
        PWCompleteRaises, PWFailSelect, PWFailUpdate, PWCrash, pvars,
        HandlerReturns, HandlerRaises, CompleteRaises, WorkerRecords
  <1>2. ASSUME NEW t \in Threads, NEW c \in Connectors, ManualStart(t, c) \/ ManualLost(t)
        PROVE  reg' = reg
    BY <1>2 DEF ManualStart, ManualLost
  <1>3. ASSUME NEW t \in Threads, ManualLost(t) PROVE reg' = reg
    BY <1>3 DEF ManualLost
  <1>4. PWTick \/ UNCHANGED vars => reg' = reg
    BY DEF PWTick, vars, pvars
  <1> QED BY <1>1, <1>2, <1>3, <1>4 DEF PWNext

\* The registry keeps its type and its connectors.
LEMMA RegistryStep ==
  ASSUME PostureInv, [PWNext]_vars
  PROVE  RegTypeOK' /\ \A d \in Connectors : Registered(d) => Registered(d)'
  <1>0. PWTypeOK /\ clock \in Nat
    BY QueueAssumption DEF PostureInv, QueueInv, TypeOK
  <1>1. CASE reg' = reg
    BY <1>0, <1>1 DEF PWTypeOK, RegTypeOK, Registered
  <1>2. ASSUME NEW w \in Workers, NEW outcome \in {"ok", "error"}, WorkerRecords(w, outcome)
        PROVE  RegTypeOK' /\ \A d \in Connectors : Registered(d) => Registered(d)'
    BY <1>0, <1>2, WorkerRecordsFacts, RecordStep DEF WorkerRecords
  <1>3. ASSUME NEW t \in Threads, NEW outcome \in {"ok", "error"}, ManualRecord(t, outcome)
        PROVE  RegTypeOK' /\ \A d \in Connectors : Registered(d) => Registered(d)'
    <2>1. /\ manual[t].connector \in Connectors /\ manual[t].now \in Nat
          /\ Registered(manual[t].connector)
      BY <1>0, <1>3, ManualFacts DEF ManualRecord
    <2> QED BY <1>0, <1>3, <2>1, RecordStep DEF ManualRecord
  <1>4. ASSUME NEW c \in Connectors, NEW s \in Schedules, Register(c, s)
        PROVE  RegTypeOK' /\ \A d \in Connectors : Registered(d) => Registered(d)'
    <2> DEFINE new == UpsertedRow(reg[c], s, clock)
    <2>1. reg' = [reg EXCEPT ![c] = new]
      BY <1>4 DEF Register
    <2>2. new \in ConnectorRow /\ new.schedule = s
      BY <1>0, UpsertedRowFacts DEF PWTypeOK
    <2>3. s # 0
      BY PostureAssumption
    <2> HIDE DEF new
    <2> QED BY <1>0, <2>1, <2>2, <2>3 DEF PWTypeOK, RegTypeOK, Registered
  <1> QED BY <1>1, <1>2, <1>3, <1>4, RegistryMoves

\* A row comes into being by an enqueue, from the due list of a pass.
LEMMA NewJobWasDue ==
  ASSUME PostureInv, [PWNext]_vars, NEW j \in JobIds,
         jobs[j].status = "absent", jobs'[j].status # "absent"
  PROVE  \E w \in Workers : EnqueueDue(w, j)
  <1>0. /\ jobs \in [JobIds -> Row] /\ wrk \in [Workers -> Pass]
        /\ \A w \in Workers : wrk[w].pc \in Claimed \cup {"selected"} =>
             jobs[wrk[w].job].status # "absent"
    BY DEF PostureInv, QueueInv, TypeOK, PassesSound
  <1>1. ASSUME NEW w \in Workers, PWRequeueExpired(w) PROVE FALSE
    BY <1>0, <1>1 DEF PWRequeueExpired, RequeueExpired, RequeuedRow, Expired
  <1>2. ASSUME NEW w \in Workers, NEW i \in JobIds, EnqueueDue(w, i) PROVE i = j
    BY <1>0, <1>2 DEF EnqueueDue, Enqueue
  <1>3. ASSUME NEW w \in Workers, PWClaimUpdate(w) \/ PWComplete(w) \/ PWFailUpdate(w)
        PROVE  FALSE
    BY <1>0, <1>3
    DEF PWClaimUpdate, PWComplete, PWFailUpdate, ClaimUpdate, Complete, FailUpdate, Claimed
  <1>4. jobs' # jobs
    OBVIOUS
  <1>5. ASSUME NEW w \in Workers, PassStep(w) \/ PWCrash(w)
        PROVE  EnqueueDue(w, j)
    BY <1>1, <1>2, <1>3, <1>4, <1>5
    DEF PassStep, PWStartPass, ScanDue, PWClaimSelect,
        PWHandlerReturns, PWHandlerRaises, PWCompleteRaises, PWFailSelect, PWCrash,
        StartPass, ClaimSelect, HandlerReturns, HandlerRaises, CompleteRaises,
        FailSelect, Crash, qvars
  <1> QED
    BY <1>4, <1>5
    DEF PWNext, Register, ManualStart, ManualRecord, ManualLost, PWTick, Tick, vars, qvars

\* The due lists and the set of scanned passes change with the pass only.
LEMMA DueMoves ==
  ASSUME PWTypeOK, [PWNext]_vars, NEW w \in Workers
  PROVE  \/ due'[w] = due[w] /\ (w \in scanned' <=> w \in scanned)
         \/ ScanDue(w)
         \/ \E j \in JobIds : EnqueueDue(w, j)
         \/ PWClaimSelect(w)
         \/ PWCrash(w)
  <1>0. due \in [Workers -> SUBSET JobIds]
    BY DEF PWTypeOK
  <1>1. ASSUME NEW v \in Workers, PassStep(v) \/ PWCrash(v)
        PROVE  \/ due'[w] = due[w] /\ (w \in scanned' <=> w \in scanned)
               \/ ScanDue(w)
               \/ \E j \in JobIds : EnqueueDue(w, j)
               \/ PWClaimSelect(w)
               \/ PWCrash(w)
    <2>1. CASE v = w
      BY <1>1, <2>1
      DEF PassStep, PWStartPass, PWRequeueExpired, PWClaimUpdate, PWHandlerReturns,
          PWHandlerRaises, PWComplete, PWCompleteRaises, PWFailSelect, PWFailUpdate, pvars
    <2>2. CASE v # w
      BY <1>0, <1>1, <2>2
      DEF PassStep, PWStartPass, PWRequeueExpired, ScanDue, EnqueueDue, PWClaimSelect,
          PWClaimUpdate, PWHandlerReturns, PWHandlerRaises, PWComplete,
          PWCompleteRaises, PWFailSelect, PWFailUpdate, PWCrash, pvars
    <2> QED BY <2>1, <2>2
  <1> QED
    BY <1>1
    DEF PWNext, Register, ManualStart, ManualRecord, ManualLost, PWTick, vars, pvars

\* A pass that is scanning goes on scanning until it claims or is cut off.
LEMMA ScanningStays ==
  ASSUME PostureInv, [PWNext]_vars, NEW w \in Workers, wrk[w].pc = "scanning"
  PROVE  wrk'[w] = wrk[w] \/ PWClaimSelect(w) \/ PWCrash(w)
  <1>0. wrk \in [Workers -> Pass]
    BY DEF PostureInv, QueueInv, TypeOK
  <1>1. ASSUME NEW v \in Workers, PassStep(v) \/ PWCrash(v)
        PROVE  wrk'[w] = wrk[w] \/ PWClaimSelect(w) \/ PWCrash(w)
    <2>1. CASE v = w
      BY <1>1, <2>1
      DEF PassStep, PWStartPass, PWRequeueExpired, ScanDue, EnqueueDue, PWClaimUpdate,
          PWHandlerReturns, PWHandlerRaises, PWComplete, PWCompleteRaises,
          PWFailSelect, PWFailUpdate, StartPass, RequeueExpired, Enqueue, ClaimUpdate,
          HandlerReturns, HandlerRaises, Complete, CompleteRaises, FailSelect,
          FailUpdate, qvars
    <2>2. CASE v # w
      <3>1. ASSUME NEW new, wrk' = [wrk EXCEPT ![v] = new] PROVE wrk'[w] = wrk[w]
        BY <1>0, <2>2, <3>1
      <3>2. wrk' = wrk \/ \E new : wrk' = [wrk EXCEPT ![v] = new]
        BY <1>1
        DEF PassStep, PWStartPass, PWRequeueExpired, ScanDue, EnqueueDue, PWClaimSelect,
            PWClaimUpdate, PWHandlerReturns, PWHandlerRaises, PWComplete,
            PWCompleteRaises, PWFailSelect, PWFailUpdate, PWCrash, StartPass,
            RequeueExpired, Enqueue, ClaimSelect, ClaimUpdate, HandlerReturns,
            HandlerRaises, Complete, CompleteRaises, FailSelect, FailUpdate, Crash, qvars
      <3> QED BY <3>1, <3>2
    <2> QED BY <2>1, <2>2
  <1> QED
    BY <1>1
    DEF PWNext, Register, ManualStart, ManualRecord, ManualLost, PWTick, Tick, vars, qvars

\* A due list holds job ids.
LEMMA DueJobsFacts ==
  ASSUME PostureInv, NEW w \in Workers, NEW j \in DueJobs(wrk[w].now)
  PROVE  /\ j \in JobIds
         /\ Registered(ConnectorOf(j))
         /\ Window(j) = reg[ConnectorOf(j)].next
         /\ Window(j) <= wrk[w].now
  <1>1. PICK c \in Connectors :
          /\ j = <<c, reg[c].next>>
          /\ Registered(c) /\ reg[c].next <= wrk[w].now
    BY DEF DueJobs
  <1>2. reg[c].next \in Nat
    BY <1>1, RegisteredRow DEF PostureInv
  <1>3. /\ wrk[w].now \in Nat /\ clock \in Nat /\ MaxTime \in Nat
        /\ wrk[w].now <= clock /\ clock <= MaxTime
    BY QueueAssumption DEF PostureInv, QueueInv, TypeOK, Pass
  <1>4. reg[c].next \in 0..MaxTime
    BY <1>1, <1>2, <1>3
  <1>5. j \in JobIds
    BY <1>1, <1>4, PostureAssumption
  <1> QED BY <1>1, <1>5 DEF ConnectorOf, Window

LEMMA DueTypeStep ==
  ASSUME PostureInv, [PWNext]_vars
  PROVE  due' \in [Workers -> SUBSET JobIds]
  <1>0. due \in [Workers -> SUBSET JobIds]
    BY DEF PostureInv, PWTypeOK
  <1>1. ASSUME NEW w \in Workers, ScanDue(w) PROVE due' \in [Workers -> SUBSET JobIds]
    <2>1. DueJobs(wrk[w].now) \subseteq JobIds
      BY DueJobsFacts
    <2> QED BY <1>0, <1>1, <2>1 DEF ScanDue
  <1>2. ASSUME NEW w \in Workers, NEW j \in JobIds, EnqueueDue(w, j) \/ PWCrash(w)
        PROVE  due' \in [Workers -> SUBSET JobIds]
    BY <1>0, <1>2 DEF EnqueueDue, PWCrash
  <1>3. ASSUME NEW w \in Workers, PWCrash(w) PROVE due' \in [Workers -> SUBSET JobIds]
    BY <1>0, <1>3 DEF PWCrash
  <1>4. ASSUME NEW w \in Workers, PassStep(w) \/ PWCrash(w)
        PROVE  due' \in [Workers -> SUBSET JobIds]
    BY <1>0, <1>1, <1>2, <1>3, <1>4
    DEF PassStep, PWStartPass, PWRequeueExpired, PWClaimSelect, PWClaimUpdate,
        PWHandlerReturns, PWHandlerRaises, PWComplete, PWCompleteRaises, PWFailSelect,
        PWFailUpdate, pvars
  <1> QED
    BY <1>0, <1>4
    DEF PWNext, Register, ManualStart, ManualRecord, ManualLost, PWTick, vars, pvars

LEMMA ScannedStep ==
  ASSUME PostureInv, [PWNext]_vars
  PROVE  scanned' \subseteq {w \in Workers : wrk'[w].pc = "scanning"}
  <1>0. scanned \subseteq {w \in Workers : wrk[w].pc = "scanning"}
    BY DEF PostureInv, PWTypeOK
  <1>1. scanned' \subseteq Workers
    BY <1>0
    DEF PWNext, PassStep, PWStartPass, PWRequeueExpired, ScanDue, EnqueueDue,
        PWClaimSelect, PWClaimUpdate, PWHandlerReturns, PWHandlerRaises, PWComplete,
        PWCompleteRaises, PWFailSelect, PWFailUpdate, PWCrash, Register, ManualStart,
        ManualRecord, ManualLost, PWTick, vars, pvars
  <1>2. ASSUME NEW w \in Workers, w \in scanned' PROVE wrk'[w].pc = "scanning"
    <2>1. ~PWClaimSelect(w) /\ ~PWCrash(w)
      BY <1>2 DEF PWClaimSelect, PWCrash
    <2>2. wrk[w].pc = "scanning"
      BY <1>0, <1>2, <2>1, DueMoves DEF PostureInv, ScanDue, EnqueueDue, Enqueue
    <2> QED BY <2>1, <2>2, ScanningStays
  <1> QED BY <1>1, <1>2

ManualTypeOK ==
  /\ manual \in [Threads -> ManualRun]
  /\ \A t \in Threads : manual[t].active =>
       manual[t].connector \in Connectors /\ Registered(manual[t].connector)

LEMMA ManualStep ==
  ASSUME PostureInv, [PWNext]_vars
  PROVE  ManualTypeOK'
  <1>0. /\ manual \in [Threads -> ManualRun]
        /\ \A t \in Threads : manual[t].active =>
             manual[t].connector \in Connectors /\ Registered(manual[t].connector)
        /\ clock \in Nat
    BY QueueAssumption DEF PostureInv, PWTypeOK, QueueInv, TypeOK
  <1>1. \A d \in Connectors : Registered(d) => Registered(d)'
    BY RegistryStep
  <1> SUFFICES /\ manual' \in [Threads -> ManualRun]
               /\ \A u \in Threads : manual'[u].active =>
                    \E c \in Connectors : manual'[u].connector = c /\ Registered(c)
    BY <1>1 DEF ManualTypeOK, Registered
  <1>2. CASE manual' = manual
    BY <1>0, <1>2
  <1>3. ASSUME NEW t \in Threads, NEW c \in Connectors, ManualStart(t, c)
        PROVE  /\ manual' \in [Threads -> ManualRun]
               /\ \A u \in Threads : manual'[u].active =>
                    \E d \in Connectors : manual'[u].connector = d /\ Registered(d)
    <2>1. /\ manual' = [manual EXCEPT ![t] = [active |-> TRUE, connector |-> c, now |-> clock]]
          /\ Registered(c)
      BY <1>3 DEF ManualStart
    <2>2. [active |-> TRUE, connector |-> c, now |-> clock] \in ManualRun
      BY <1>0 DEF ManualRun
    <2> QED BY <1>0, <2>1, <2>2
  <1>4. ASSUME NEW t \in Threads, manual' = [manual EXCEPT ![t] = NoRun]
        PROVE  /\ manual' \in [Threads -> ManualRun]
               /\ \A u \in Threads : manual'[u].active =>
                    \E d \in Connectors : manual'[u].connector = d /\ Registered(d)
    <2>1. NoRun \in ManualRun /\ ~NoRun.active
      BY DEF NoRun, ManualRun
    <2> QED BY <1>0, <1>4, <2>1
  <1> QED
    BY <1>2, <1>3, <1>4
    DEF PWNext, PassStep, PWStartPass, PWRequeueExpired, ScanDue, EnqueueDue,
        PWClaimSelect, PWClaimUpdate, PWHandlerReturns, PWHandlerRaises, PWComplete,
        PWCompleteRaises, PWFailSelect, PWFailUpdate, PWCrash, Register,
        ManualRecord, ManualLost, PWTick, vars, pvars

LEMMA JobsRegisteredStep ==
  ASSUME PostureInv, [PWNext]_vars
  PROVE  JobsRegistered'
  <1>0. JobsRegistered /\ PWTypeOK
    BY DEF PostureInv
  <1>1. \A d \in Connectors : Registered(d) => Registered(d)'
    BY RegistryStep
  <1>2. ASSUME NEW j \in JobIds, jobs'[j].status # "absent"
        PROVE  Registered(ConnectorOf(j))'
    <2>1. jobs[j].status # "absent" \/ \E w \in Workers : j \in due[w]
      BY <1>2, NewJobWasDue DEF EnqueueDue
    <2> QED BY <1>0, <1>1, <2>1, JobIdFacts DEF JobsRegistered
  <1>3. ASSUME NEW w \in Workers, NEW j \in due'[w]
        PROVE  Registered(ConnectorOf(j))'
    <2>1. due[w] \subseteq JobIds /\ due \in [Workers -> SUBSET JobIds]
      BY <1>0 DEF PWTypeOK
    <2>2. j \in due[w] \/ j \in DueJobs(wrk[w].now)
      BY <1>0, <1>3, <2>1, DueMoves DEF ScanDue, EnqueueDue, PWClaimSelect, PWCrash
    <2>3. j \in JobIds /\ Registered(ConnectorOf(j))
      BY <1>0, <2>1, <2>2, DueJobsFacts DEF JobsRegistered
    <2> QED BY <1>1, <2>3, JobIdFacts
  <1> QED BY <1>2, <1>3 DEF JobsRegistered

\* The posture worker's invariant holds for any number of workers and threads.
THEOREM PostureSafe == PWSpec => []PostureInv
  <1>1. PWInit => PWTypeOK /\ JobsRegistered
    BY DEF PWInit, Init, PWTypeOK, JobsRegistered, NoRun, ManualRun, AbsentRow
  <1>2. PostureInv /\ QueueInv' /\ [PWNext]_vars => PostureInv'
    <2> SUFFICES ASSUME PostureInv, QueueInv', [PWNext]_vars PROVE PostureInv'
      OBVIOUS
    <2>1. RegTypeOK' /\ ManualTypeOK' /\ JobsRegistered'
      BY RegistryStep, ManualStep, JobsRegisteredStep
    <2>2. due' \in [Workers -> SUBSET JobIds]
      BY DueTypeStep
    <2>3. scanned' \subseteq {w \in Workers : wrk'[w].pc = "scanning"}
      BY ScannedStep
    <2>4. PWTypeOK'
      BY <2>1, <2>2, <2>3 DEF PWTypeOK, RegTypeOK, ManualTypeOK
    <2> QED BY <2>1, <2>4 DEF PostureInv
  <1>3. QueueInv /\ PWTypeOK /\ JobsRegistered => PostureInv
    BY DEF PostureInv
  <1> QED BY <1>1, <1>2, <1>3, PostureIsQueue, QueueSafe, PTL DEF PWSpec

\* Types of the registry, the due lists and the manual runs.
THEOREM PostureTypeCorrect == PWSpec => []PWTypeOK
  <1>1. PostureInv => PWTypeOK
    BY DEF PostureInv
  <1> QED BY <1>1, PostureSafe, PTL

--------------------------------------------------------------------------------
\* Windows, with one worker

\* What the steps below know of the state before.
LEMMA WindowTypes ==
  ASSUME PostureInv
  PROVE  /\ wrk \in [Workers -> Pass] /\ jobs \in [JobIds -> Row]
         /\ due \in [Workers -> SUBSET JobIds]
         /\ clock \in Nat
         /\ \A w \in Workers : wrk[w].now \in Nat /\ wrk[w].now <= clock
         /\ \A w \in Workers : due[w] \subseteq JobIds
         /\ \A w \in scanned : wrk[w].pc = "scanning"
  BY QueueAssumption DEF PostureInv, QueueInv, TypeOK, PWTypeOK, Pass

LEMMA DueScannedStep ==
  ASSUME PostureInv, DueScanned, [PWNext]_vars
  PROVE  DueScanned'
  <1> SUFFICES ASSUME NEW w \in Workers
               PROVE  /\ due'[w] # {} => w \in scanned'
                      /\ \A j \in due'[w] : Window(j) <= wrk'[w].now
    BY DEF DueScanned
  <1>0. /\ due \in [Workers -> SUBSET JobIds]
        /\ wrk[w].pc = "scanning" => wrk'[w] = wrk[w] \/ PWClaimSelect(w) \/ PWCrash(w)
        /\ due[w] # {} => w \in scanned
        /\ w \in scanned => wrk[w].pc = "scanning"
        /\ \A j \in due[w] : Window(j) <= wrk[w].now
    BY WindowTypes, ScanningStays DEF DueScanned
  <1>1. CASE PWClaimSelect(w) \/ PWCrash(w)
    <2>1. due'[w] = {}
      BY <1>0, <1>1 DEF PWClaimSelect, PWCrash
    <2> QED BY <2>1
  <1>2. CASE ScanDue(w)
    <2>1. w \in scanned' /\ due'[w] = DueJobs(wrk[w].now) /\ wrk' = wrk
      BY <1>0, <1>2 DEF ScanDue, qvars
    <2> QED BY <2>1, DueJobsFacts
  <1>3. ASSUME NEW j \in JobIds, EnqueueDue(w, j)
        PROVE  /\ due'[w] # {} => w \in scanned'
               /\ \A i \in due'[w] : Window(i) <= wrk'[w].now
    BY <1>0, <1>3 DEF EnqueueDue, Enqueue
  <1>4. CASE /\ ~PWClaimSelect(w) /\ ~PWCrash(w)
             /\ due'[w] = due[w] /\ (w \in scanned' <=> w \in scanned)
    BY <1>0, <1>4
  <1>5. PWTypeOK
    BY DEF PostureInv
  <1> QED BY <1>1, <1>2, <1>3, <1>4, <1>5, DueMoves

\* A pass that is under way keeps its time; a new one takes the clock's.
LEMMA NowMoves ==
  ASSUME SingleWorker, PostureInv, [PWNext]_vars, NEW w \in Workers, wrk'[w].pc # "idle"
  PROVE  \/ wrk[w].pc # "idle" /\ wrk'[w].now = wrk[w].now
         \/ wrk[w].pc = "idle" /\ wrk'[w].now = clock
  <1>0. wrk \in [Workers -> Pass] /\ wrk[w] \in Pass
    BY WindowTypes
  <1>1. CASE StartPass(w)
    <2>1. wrk'[w] = [wrk[w] EXCEPT !.pc = "begun", !.now = clock] /\ wrk[w].pc = "idle"
      BY <1>0, <1>1 DEF StartPass
    <2> QED BY <1>0, <2>1 DEF Pass
  <1>2. CASE RequeueExpired(w) \/ \E j \in JobIds : Enqueue(w, j)
    BY <1>0, <1>2 DEF RequeueExpired, Enqueue, Pass
  <1>3. CASE ClaimSelect(w)
    BY <1>0, <1>3 DEF ClaimSelect, Pass, Idle
  <1>4. CASE \/ ClaimUpdate(w) \/ HandlerReturns(w) \/ HandlerRaises(w)
             \/ CompleteRaises(w) \/ FailSelect(w)
    BY <1>0, <1>4
    DEF ClaimUpdate, HandlerReturns, HandlerRaises, CompleteRaises, FailSelect, Pass
  <1>5. CASE Complete(w) \/ FailUpdate(w) \/ Crash(w)
    BY <1>0, <1>5 DEF Complete, FailUpdate, Crash, Idle
  <1>6. CASE Tick \/ UNCHANGED qvars
    BY <1>0, <1>6 DEF Tick, qvars
  <1>7. [Next]_qvars
    BY QueueStep
  <1> QED BY <1>1, <1>2, <1>3, <1>4, <1>5, <1>6, <1>7, LoneStep DEF Drain

LEMMA ClockMoves == [Next]_qvars => clock' = clock \/ clock' = clock + 1
  BY DEF Next, Drain, StartPass, RequeueExpired, Enqueue, ClaimSelect, ClaimUpdate,
         HandlerReturns, HandlerRaises, Complete, CompleteRaises, FailSelect,
         FailUpdate, Crash, Tick, qvars

LEMMA PastWindowsStep ==
  ASSUME SingleWorker, PostureInv, DueScanned, PastWindows, [PWNext]_vars
  PROVE  PastWindows'
  <1> SUFFICES ASSUME NEW j \in JobIds, jobs'[j].status # "absent"
               PROVE  /\ Window(j) <= clock'
                      /\ \A w \in Workers : wrk'[w].pc # "idle" => Window(j) <= wrk'[w].now
    BY DEF PastWindows
  <1>0. Window(j) \in Nat /\ clock \in Nat
    BY JobIdFacts, WindowTypes
  <1>1. clock' = clock \/ clock' = clock + 1
    BY QueueStep, ClockMoves
  <1>2. CASE jobs[j].status # "absent"
    <2>1. /\ Window(j) <= clock
          /\ \A w \in Workers : wrk[w].pc # "idle" => Window(j) <= wrk[w].now
      BY <1>2 DEF PastWindows
    <2>2. ASSUME NEW w \in Workers, wrk'[w].pc # "idle" PROVE Window(j) <= wrk'[w].now
      BY <2>1, <2>2, NowMoves
    <2> QED BY <1>0, <1>1, <2>1, <2>2
  <1>3. CASE jobs[j].status = "absent"
    <2>1. PICK w \in Workers : EnqueueDue(w, j)
      BY <1>3, NewJobWasDue
    <2>2. Window(j) <= wrk[w].now /\ wrk' = wrk /\ clock' = clock
      BY <2>1 DEF EnqueueDue, Enqueue, DueScanned
    <2>3. wrk[w].now \in Nat /\ wrk[w].now <= clock
      BY WindowTypes
    <2>4. \A v \in Workers : v = w
      BY DEF SingleWorker
    <2> QED BY <1>0, <2>2, <2>3, <2>4
  <1> QED BY <1>2, <1>3

LEMMA ManualFreshStep ==
  ASSUME PostureInv, ManualFresh, [PWNext]_vars
  PROVE  ManualFresh'
  <1> SUFFICES ASSUME NEW t \in Threads, manual'[t].active
               PROVE  clock' <= manual'[t].now + MaxRun
    BY DEF ManualFresh
  <1>0. /\ manual \in [Threads -> ManualRun] /\ clock \in Nat /\ MaxRun \in Nat
        /\ manual[t].active => clock <= manual[t].now + MaxRun
        /\ manual[t].active => manual[t].now \in Nat
    BY WindowTypes, ManualFacts, PostureAssumption DEF PostureInv, PWTypeOK, ManualFresh
  <1>1. CASE PWTick
    BY <1>0, <1>1 DEF PWTick, Tick, pvars
  <1>2. ASSUME NEW u \in Threads, NEW c \in Connectors, ManualStart(u, c)
        PROVE  clock' <= manual'[t].now + MaxRun
    <2>1. CASE u = t
      <3>1. manual'[t].now = clock /\ clock' = clock
        BY <1>0, <1>2, <2>1 DEF ManualStart, qvars
      <3> QED BY <1>0, <3>1
    <2>2. CASE u # t
      <3>1. manual'[t] = manual[t] /\ clock' = clock
        BY <1>0, <1>2, <2>2 DEF ManualStart, qvars
      <3> QED BY <1>0, <3>1
    <2> QED BY <2>1, <2>2
  <1>3. ASSUME NEW u \in Threads, manual' = [manual EXCEPT ![u] = NoRun], clock' = clock
        PROVE  clock' <= manual'[t].now + MaxRun
    <2>1. manual'[t] = manual[t]
      BY <1>0, <1>3 DEF NoRun
    <2> QED BY <1>0, <1>3, <2>1
  <1>4. CASE manual' = manual /\ clock' = clock
    BY <1>0, <1>4
  <1>5. ASSUME NEW w \in Workers, PassStep(w) \/ PWCrash(w)
        PROVE  manual' = manual /\ clock' = clock
    BY <1>5
    DEF PassStep, PWStartPass, PWRequeueExpired, ScanDue, EnqueueDue,
        PWClaimSelect, PWClaimUpdate, PWHandlerReturns, PWHandlerRaises, PWComplete,
        PWCompleteRaises, PWFailSelect, PWFailUpdate, PWCrash, StartPass,
        RequeueExpired, Enqueue, ClaimSelect, ClaimUpdate, HandlerReturns,
        HandlerRaises, Complete, CompleteRaises, FailSelect, FailUpdate, Crash,
        pvars, qvars
  <1> QED
    BY <1>1, <1>2, <1>3, <1>4, <1>5
    DEF PWNext, Register, ManualRecord, ManualLost, vars, qvars

\* The next window of a connector moves only past the windows it has had jobs for.
LEMMA NextMoves ==
  ASSUME ShortRuns, PostureInv, PastWindows, ManualFresh, [PWNext]_vars,
         NEW j \in JobIds, jobs[j].status # "absent"
  PROVE  \/ reg'[ConnectorOf(j)].next = reg[ConnectorOf(j)].next
         \/ Window(j) < reg'[ConnectorOf(j)].next
  <1> DEFINE c == ConnectorOf(j)
  <1>0. /\ PWTypeOK /\ c \in Connectors /\ Window(j) \in Nat /\ clock \in Nat
        /\ Registered(c) /\ Window(j) <= clock
    BY JobIdFacts, WindowTypes DEF PostureInv, JobsRegistered, PastWindows
  <1>1. /\ reg \in [Connectors -> ConnectorRow \cup {Unregistered}]
        /\ reg[c].schedule \in Schedules /\ reg[c].schedule \in Nat \ {0}
    BY <1>0, RegisteredRow DEF PWTypeOK
  <1> HIDE DEF c
  <1>2. ASSUME NEW w \in Workers, NEW outcome \in {"ok", "error"}, WorkerRecords(w, outcome)
        PROVE  reg'[c].next = reg[c].next \/ Window(j) < reg'[c].next
    <2> DEFINE d == ConnectorOf(wrk[w].job)
    <2>1. d \in Connectors /\ Registered(d) /\ wrk[w].now \in Nat
      BY <1>2, WorkerRecordsFacts
    <2>2. Window(j) <= wrk[w].now
      BY <1>2 DEF WorkerRecords, PastWindows
    <2>3. RecordRun(d, wrk[w].now, outcome)
      BY <1>2 DEF WorkerRecords
    <2> HIDE DEF d
    <2>4. /\ reg'[d].next = wrk[w].now + reg[d].schedule
          /\ \A e \in Connectors \ {d} : reg'[e] = reg[e]
      BY <1>0, <2>1, <2>3, RecordStep
    <2> QED BY <1>0, <1>1, <2>1, <2>2, <2>4
  <1>3. ASSUME NEW t \in Threads, NEW outcome \in {"ok", "error"}, ManualRecord(t, outcome)
        PROVE  reg'[c].next = reg[c].next \/ Window(j) < reg'[c].next
    <2> DEFINE d == manual[t].connector
    <2>1. d \in Connectors /\ Registered(d) /\ manual[t].now \in Nat
      BY <1>0, <1>3, ManualFacts DEF ManualRecord
    <2>2. clock <= manual[t].now + MaxRun
      BY <1>3 DEF ManualRecord, ManualFresh
    <2>3. RecordRun(d, manual[t].now, outcome)
      BY <1>3 DEF ManualRecord
    <2> HIDE DEF d
    <2>4. /\ reg'[d].next = manual[t].now + reg[d].schedule
          /\ \A e \in Connectors \ {d} : reg'[e] = reg[e]
      BY <1>0, <2>1, <2>3, RecordStep
    <2>5. MaxRun \in Nat /\ MaxRun < reg[c].schedule
      BY <1>1, PostureAssumption DEF ShortRuns
    <2> QED BY <1>0, <1>1, <2>1, <2>2, <2>4, <2>5
  <1>4. ASSUME NEW d \in Connectors, NEW s \in Schedules, Register(d, s)
        PROVE  reg'[c].next = reg[c].next \/ Window(j) < reg'[c].next
    <2>1. CASE d = c
      <3>1. reg'[c] = UpsertedRow(reg[c], s, clock)
        BY <1>0, <1>1, <1>4, <2>1 DEF Register
      <3> QED BY <1>0, <1>1, <3>1, UpsertedRowFacts
    <2>2. CASE d # c
      BY <1>0, <1>1, <1>4, <2>2 DEF Register
    <2> QED BY <2>1, <2>2
  <1> QED BY <1>2, <1>3, <1>4, RegistryMoves DEF c

\* A job that is over, or whose run is recorded, is a job that exists.
LEMMA EndedExists ==
  ASSUME PostureInv, NEW j \in JobIds, RunEnded(j)
  PROVE  jobs[j].status # "absent"
  BY DEF PostureInv, QueueInv, PassesSound, Claimed, RunEnded

\* A job gets over by a complete or a fail of the pass that ran it.
LEMMA JobEnds ==
  ASSUME PostureInv, [PWNext]_vars, NEW j \in JobIds,
         jobs'[j].status \in {"done", "dead"}, jobs[j].status \notin {"done", "dead"}
  PROVE  \E w \in Workers : (PWComplete(w) \/ PWFailUpdate(w)) /\ wrk[w].job = j
  <1>0. jobs \in [JobIds -> Row] /\ wrk \in [Workers -> Pass]
    BY WindowTypes
  <1>1. ASSUME NEW w \in Workers, PWRequeueExpired(w) PROVE FALSE
    <2>1. jobs'[j] = RequeuedRow(jobs[j], wrk[w].now) /\ wrk[w].now \in Nat
      BY <1>0, <1>1, WindowTypes DEF PWRequeueExpired, RequeueExpired
    <2> QED BY <1>0, <2>1, RequeuedRowFacts
  <1>2. ASSUME NEW w \in Workers, NEW i \in JobIds, EnqueueDue(w, i) PROVE FALSE
    <2>1. wrk[w].now \in Nat /\ (jobs'[j] = jobs[j] \/ jobs'[j] = InsertedRow(wrk[w].now))
      BY <1>0, <1>2, WindowTypes DEF EnqueueDue, Enqueue
    <2> QED BY <2>1, InsertedRowFacts
  <1>3. ASSUME NEW w \in Workers, PWClaimUpdate(w) PROVE FALSE
    <2>1. /\ wrk[w].now \in Nat
          /\ jobs'[j] = jobs[j] \/ jobs'[j] = ClaimedRow(jobs[j], w, wrk[w].now)
      BY <1>0, <1>3, WindowTypes DEF PWClaimUpdate, ClaimUpdate
    <2>2. ClaimedRow(jobs[j], w, wrk[w].now).status \in {jobs[j].status, "running"}
      BY <1>0, <2>1, ClaimedRowFacts
    <2> QED BY <2>1, <2>2
  <1>4. ASSUME NEW w \in Workers, PWComplete(w) \/ PWFailUpdate(w) PROVE wrk[w].job = j
    BY <1>0, <1>4 DEF PWComplete, PWFailUpdate, Complete, FailUpdate
  <1>5. jobs' # jobs
    OBVIOUS
  <1>6. ASSUME NEW w \in Workers, PassStep(w) \/ PWCrash(w)
        PROVE  (PWComplete(w) \/ PWFailUpdate(w)) /\ wrk[w].job = j
    BY <1>1, <1>2, <1>3, <1>4, <1>5, <1>6
    DEF PassStep, PWStartPass, ScanDue, PWClaimSelect, PWHandlerReturns,
        PWHandlerRaises, PWCompleteRaises, PWFailSelect, PWCrash, StartPass,
        ClaimSelect, HandlerReturns, HandlerRaises, CompleteRaises, FailSelect,
        Crash, qvars
  <1> QED
    BY <1>5, <1>6
    DEF PWNext, Register, ManualStart, ManualRecord, ManualLost, PWTick, Tick, vars, qvars

\* A run comes to its end when the handler does, and is recorded in that step.
LEMMA RunEnds ==
  ASSUME SingleWorker, PostureInv, [PWNext]_vars, NEW j \in JobIds, RunEnded(j)'
  PROVE  \/ RunEnded(j)
         \/ \E w \in Workers : /\ PWHandlerReturns(w) \/ PWHandlerRaises(w)
                               /\ wrk[w].job = j
  <1>0. wrk \in [Workers -> Pass]
    BY WindowTypes
  <1>1. CASE jobs'[j].status \in {"done", "dead"}
    <2>1. CASE jobs[j].status \in {"done", "dead"}
      BY <2>1 DEF RunEnded
    <2>2. CASE jobs[j].status \notin {"done", "dead"}
      <3>1. PICK w \in Workers : (PWComplete(w) \/ PWFailUpdate(w)) /\ wrk[w].job = j
        BY <1>1, <2>2, JobEnds
      <3> QED BY <3>1 DEF PWComplete, PWFailUpdate, Complete, FailUpdate, RunEnded
    <2> QED BY <2>1, <2>2
  <1>2. ASSUME NEW w \in Workers,
               wrk'[w].pc \in {"completing", "failing", "retrying"}, wrk'[w].job = j
        PROVE  \/ RunEnded(j)
               \/ /\ PWHandlerReturns(w) \/ PWHandlerRaises(w)
                  /\ wrk[w].job = j
    <2>0. wrk[w] \in Pass
      BY <1>0
    <2>1. ASSUME NEW v \in Workers, PassStep(v) \/ PWCrash(v)
          PROVE  \/ RunEnded(j)
                 \/ /\ PWHandlerReturns(w) \/ PWHandlerRaises(w)
                    /\ wrk[w].job = j
      <3>1. v = w
        BY DEF SingleWorker
      <3>2. CASE PWHandlerReturns(w) \/ PWHandlerRaises(w)
        BY <1>0, <1>2, <2>0, <3>2
        DEF PWHandlerReturns, PWHandlerRaises, HandlerReturns, HandlerRaises, Pass
      <3>3. CASE PWCompleteRaises(w) \/ PWFailSelect(w)
        BY <1>0, <1>2, <2>0, <3>3
        DEF PWCompleteRaises, PWFailSelect, CompleteRaises, FailSelect, RunEnded,
            Pass
      <3>4. CASE ScanDue(w) \/ \E i \in JobIds : EnqueueDue(w, i)
        BY <1>2, <3>4 DEF ScanDue, EnqueueDue, Enqueue, qvars, RunEnded
      <3>5. ~PWComplete(w) /\ ~PWFailUpdate(w) /\ ~PWCrash(w)
        BY <1>0, <1>2
        DEF PWComplete, PWFailUpdate, PWCrash, Complete, FailUpdate, Crash, Idle
      <3>6. ~PWStartPass(w) /\ ~PWRequeueExpired(w)
        BY <1>0, <1>2, <2>0
        DEF PWStartPass, PWRequeueExpired, StartPass, RequeueExpired, Pass
      <3>7. ~PWClaimSelect(w)
        BY <1>0, <1>2, <2>0 DEF PWClaimSelect, ClaimSelect, Idle, Pass
      <3>8. ~PWClaimUpdate(w)
        BY <1>0, <1>2, <2>0 DEF PWClaimUpdate, ClaimUpdate, Pass
      <3> QED
        BY <2>1, <3>1, <3>2, <3>3, <3>4, <3>5, <3>6, <3>7, <3>8 DEF PassStep
    <2>2. CASE wrk' = wrk
      BY <1>2, <2>2 DEF RunEnded
    <2> QED
      BY <2>1, <2>2
      DEF PWNext, Register, ManualStart, ManualRecord, ManualLost, PWTick, Tick, vars, qvars
  <1> QED BY <1>1, <1>2 DEF RunEnded

LEMMA EndedBehindStep ==
  ASSUME SingleWorker, ShortRuns, PostureInv, PastWindows, ManualFresh, EndedBehind,
         [PWNext]_vars
  PROVE  EndedBehind'
  <1> SUFFICES ASSUME NEW j \in JobIds, RunEnded(j)'
               PROVE  Window(j) < reg'[ConnectorOf(j)].next
    BY DEF EndedBehind
  <1>1. CASE RunEnded(j)
    BY <1>1, EndedExists, NextMoves DEF EndedBehind
  <1>2. ASSUME NEW w \in Workers, PWHandlerReturns(w) \/ PWHandlerRaises(w), wrk[w].job = j
        PROVE  Window(j) < reg'[ConnectorOf(j)].next
    <2> DEFINE c == ConnectorOf(j)
    <2>1. PICK outcome \in {"ok", "error"} : WorkerRecords(w, outcome)
      BY <1>2
      DEF PWHandlerReturns, PWHandlerRaises, HandlerReturns, HandlerRaises, WorkerRecords
    <2>2. /\ jobs[j].status # "absent" /\ c \in Connectors /\ Registered(c)
          /\ wrk[w].now \in Nat
      BY <1>2, <2>1, WorkerRecordsFacts
    <2>3. reg'[c].next = wrk[w].now + reg[c].schedule
      BY <1>2, <2>1, <2>2, RecordStep DEF WorkerRecords, PostureInv
    <2>4. reg[c].schedule \in Nat \ {0} /\ Window(j) \in Nat
      BY <2>2, RegisteredRow, JobIdFacts DEF PostureInv
    <2>5. Window(j) <= wrk[w].now
      BY <2>1, <2>2 DEF PastWindows, WorkerRecords
    <2> HIDE DEF c
    <2> QED BY <2>2, <2>3, <2>4, <2>5 DEF c
  <1> QED BY <1>1, <1>2, RunEnds

LEMMA DueOpenStep ==
  ASSUME SingleWorker, PostureInv, DueScanned, EndedBehind, DueOpen, [PWNext]_vars
  PROVE  DueOpen'
  <1> SUFFICES ASSUME NEW w \in Workers, NEW j \in due'[w],
                      jobs'[j].status \in {"done", "dead"}
               PROVE  FALSE
    BY DEF DueOpen
  <1>0. /\ due \in [Workers -> SUBSET JobIds]
        /\ due' \in [Workers -> SUBSET JobIds]
        /\ j \in JobIds
    BY DueTypeStep DEF PostureInv, PWTypeOK
  <1>1. CASE jobs[j].status \in {"done", "dead"}
    <2>1. j \notin due[w]
      BY <1>1 DEF DueOpen
    <2>2. j \in DueJobs(wrk[w].now)
      BY <1>0, <2>1, DueMoves DEF PostureInv, ScanDue, EnqueueDue, PWClaimSelect, PWCrash
    <2>3. Window(j) = reg[ConnectorOf(j)].next
      BY <2>2, DueJobsFacts
    <2>4. Window(j) < reg[ConnectorOf(j)].next
      BY <1>0, <1>1 DEF EndedBehind, RunEnded
    <2> QED BY <1>0, <2>3, <2>4, JobIdFacts
  <1>2. CASE jobs[j].status \notin {"done", "dead"}
    <2>1. PICK v \in Workers : PWComplete(v) \/ PWFailUpdate(v)
      BY <1>0, <1>2, JobEnds
    <2>2. /\ v = w /\ due' = due
          /\ wrk[w].pc \in {"completing", "retrying"}
      BY <2>1 DEF SingleWorker, PWComplete, PWFailUpdate, Complete, FailUpdate, pvars
    <2>3. due[w] = {}
      BY <2>2, WindowTypes DEF DueScanned
    <2> QED BY <2>2, <2>3
  <1> QED BY <1>1, <1>2

\* With one worker, and no manual run as long as a cadence, windows are sound.
THEOREM WindowsSafe ==
  ASSUME SingleWorker, ShortRuns
  PROVE  PWSpec => []WindowInv
  <1>1. PWInit => DueScanned /\ PastWindows /\ ManualFresh /\ EndedBehind /\ DueOpen
    BY DEF PWInit, Init, AbsentRow, Idle, NoRun, DueScanned, PastWindows, ManualFresh,
           EndedBehind, RunEnded, DueOpen
  <1>2. WindowInv /\ PostureInv' /\ [PWNext]_vars => WindowInv'
    BY DueScannedStep, PastWindowsStep, ManualFreshStep, EndedBehindStep, DueOpenStep
    DEF WindowInv
  <1>3. PostureInv /\ DueScanned /\ PastWindows /\ ManualFresh /\ EndedBehind /\ DueOpen
          => WindowInv
    BY DEF WindowInv
  <1> QED BY <1>1, <1>2, <1>3, PostureSafe, PTL DEF PWSpec

\* "enqueue a posture job for every DUE connector": with one worker, and no manual
\* run as long as a cadence, the job enqueued for a due connector is one that will
\* be run, never the leftover of an earlier window.
THEOREM DueConnectorsGetJobs ==
  ASSUME SingleWorker, ShortRuns
  PROVE  PWSpec => DueConnectorGetsAJob
  <1>1. ASSUME WindowInv, [PWNext]_vars, NEW w \in Workers, NEW j \in due[w] \ due'[w],
               wrk'[w].pc = "scanning"
        PROVE  jobs'[j].status \in {"queued", "running"}
    <2>0. /\ PostureInv /\ PWTypeOK /\ DueOpen /\ j \in JobIds
          /\ w \in scanned /\ wrk[w].pc = "scanning"
          /\ jobs \in [JobIds -> Row] /\ wrk[w].now \in Nat /\ wrk \in [Workers -> Pass]
          /\ due \in [Workers -> SUBSET JobIds]
      BY <1>1, WindowTypes DEF WindowInv, PostureInv, DueScanned
    <2>1. ~ScanDue(w) /\ ~PWCrash(w) /\ ~PWClaimSelect(w)
      BY <1>1, <2>0 DEF ScanDue, PWCrash, Crash, PWClaimSelect, Idle
    <2>2. PICK i \in JobIds : EnqueueDue(w, i)
      BY <1>1, <2>0, <2>1, DueMoves
    <2>3. i = j
      BY <1>1, <2>0, <2>2 DEF EnqueueDue
    <2>4. CASE jobs[j].status = "absent"
      <3>1. jobs'[j] = InsertedRow(wrk[w].now)
        BY <2>0, <2>2, <2>3, <2>4 DEF EnqueueDue, Enqueue
      <3> QED BY <2>0, <3>1, InsertedRowFacts
    <2>5. CASE jobs[j].status # "absent"
      <3>1. jobs' = jobs
        BY <2>2, <2>3, <2>5 DEF EnqueueDue, Enqueue
      <3>2. jobs[j].status \notin {"done", "dead"}
        BY <1>1, <2>0 DEF DueOpen
      <3> QED BY <2>0, <2>5, <3>1, <3>2 DEF Row, Statuses
    <2> QED BY <2>4, <2>5
  <1>2. WindowInv /\ [PWNext]_vars =>
          [\A w \in Workers : \A j \in due[w] \ due'[w] :
             wrk'[w].pc = "scanning" => jobs'[j].status \in {"queued", "running"}]_vars
    BY <1>1
  <1> QED BY <1>2, WindowsSafe, PTL DEF PWSpec, DueConnectorGetsAJob
================================================================================
