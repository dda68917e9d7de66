-------------------------- MODULE ReportPipelineProofs -------------------------
(***************************************************************************)
(* The report pipeline, for any number of processes, reports, pieces of    *)
(* evidence and crashes, implements Archive: a report gets its name on     *)
(* disk only when all of its evidence has its own, and neither loses it.   *)
(* That needs what a process has already retained at each place of the     *)
(* pipeline (Sound), and that files are only ever added (Grows).           *)
(* That a stored file is also whole depends on how many processes write it *)
(* at once; that is for TLC, and false from three on.                      *)
(***************************************************************************)
EXTENDS ReportPipeline, TLAPS

Have(fin, e) == fin[Raw(e)] # "none" /\ fin[Env(e)] # "none"

\* What an ingest has retained so far
Behind(i) == (IF i.read THEN EvidenceOf[i.report] ELSE EarlyOf[i.report]) \ i.left

Late == {"batch", "index", "diff", "load", "findings", "run"}

\* Where an ingest stands agrees with the files.
Sound(i, fin) ==
  /\ i.pc # "idle" => \A e \in Behind(i) : Have(fin, e)
  /\ i.pc \in {"env", "verify"} => fin[Raw(i.piece)] # "none"
  /\ i.pc = "verify" => fin[Env(i.piece)] # "none"
  /\ i.pc \in Late \cup {"report"} => i.read /\ i.left = {}
  /\ i.pc \in Late => fin[Rep(i.report)] # "none"

\* A handle whose file has been moved to its path finds it there.
HandleInv ==
  \A p \in Procs :
    handle[p].at = "final" => handle[p].file \in Files /\ final[handle[p].file] # "none"

\* Every report on disk has its evidence there; the rest names reports on disk.
StoreInv ==
  /\ \A r \in Stored : EvidenceOf[r] \subseteq Retained
  /\ index \subseteq Stored
  /\ runs \subseteq Stored
  /\ \A p \in Procs : rebuilt[p].read \subseteq Stored

PipelineInv ==
  /\ PipelineTypeOK
  /\ HandleInv
  /\ \A p \in Procs : Sound(ing[p], final)
  /\ StoreInv

\* Files are added, never taken away.
Grows(fin, fin2) == \A f \in Files : fin[f] # "none" => fin2[f] # "none"
LocalType(i) ==
  /\ i \in Ingest
  /\ i.report = NoReport <=> i.pc = "idle"
  /\ i.pc \in {"raw", "env", "verify"} => i.piece \in i.left

\* PipelineInv by the state it speaks of
FilePart == FilesTypeOK /\ HandleInv

ProcPart ==
  /\ ing \in [Procs -> Ingest]
  /\ \A p \in Procs :
       /\ LocalType(ing[p])
       /\ handle[p].step # "closed" => handle[p].file \in Writing(p)
       /\ Sound(ing[p], final)

RestPart ==
  /\ index \subseteq Reports /\ findings \subseteq Reports
  /\ runs \subseteq Reports /\ saved \subseteq Reports
  /\ rebuilt \in [Procs -> [on: BOOLEAN, read: SUBSET Reports]]
  /\ deaths \in 0..MaxDeaths
  /\ StoreInv

LEMMA InvParts == PipelineInv <=> FilePart /\ ProcPart /\ RestPart
  BY DEF PipelineInv, PipelineTypeOK, FilePart, ProcPart, RestPart, LocalType

--------------------------------------------------------------------------------
\* Files

LEMMA FilesNamed ==
  /\ \A e \in Evidence : Raw(e) \in Files /\ Env(e) \in Files
  /\ \A r \in Reports : Rep(r) \in Files /\ Batch(r) \in Files
  BY PipelineAssumption

LEMMA NamesDiffer ==
  /\ \A e, d : Raw(e) # Env(d) /\ (Raw(e) = Raw(d) => e = d) /\ (Env(e) = Env(d) => e = d)
  /\ \A e, r : Raw(e) # Rep(r) /\ Env(e) # Rep(r) /\ Raw(e) # Batch(r) /\ Env(e) # Batch(r)
  /\ \A q, r : Rep(q) # Batch(r) /\ (Rep(q) = Rep(r) => q = r)
  BY DEF Raw, Env, Rep, Batch

\* Each step of a write keeps the files well formed and takes none away.
LEMMA IntendStep ==
  ASSUME FilePart, NEW p \in Procs, NEW f \in Files, Intend(p, f)
  PROVE  FilePart' /\ final' = final
         /\ handle' = [handle EXCEPT ![p] = [file |-> f, step |-> "opening", at |-> "gone"]]
  BY DEF FilePart, FilesTypeOK, HandleInv, Intend, Handle

LEMMA OpenStep ==
  ASSUME FilePart, NEW p \in Procs, Open(p)
  PROVE  /\ FilePart' /\ final' = final
         /\ \A q \in Procs : handle'[q].file = handle[q].file
         /\ \A q \in Procs : handle'[q].step # "closed" => handle[q].step # "closed"
  <1> DEFINE f == handle[p].file
             h == [handle[p] EXCEPT !.step = "opened", !.at = "tmp"]
  <1>1. f \in Files /\ handle[p] \in Handle /\ h \in Handle /\ h.file = f
        /\ h.step = "opened" /\ h.at = "tmp"
    BY DEF FilePart, FilesTypeOK, Open, Handle
  <1>2. handle' = [handle EXCEPT ![p] = h] /\ final' = final
        /\ tmp' = [tmp EXCEPT ![f] = "empty"] /\ handle[p].step = "opening"
    BY DEF Open
  <1> HIDE DEF h
  <1>3. FilesTypeOK'
    BY <1>1, <1>2 DEF FilePart, FilesTypeOK, Contents
  <1>4. HandleInv'
    BY <1>1, <1>2 DEF FilePart, FilesTypeOK, HandleInv
  <1> QED BY <1>1, <1>2, <1>3, <1>4 DEF FilePart, FilesTypeOK

LEMMA WriteStep ==
  ASSUME FilePart, NEW p \in Procs, Write(p)
  PROVE  /\ FilePart'
         /\ \A g \in Files : final'[g] # "none" <=> final[g] # "none"
         /\ \A q \in Procs : handle'[q].file = handle[q].file
         /\ \A q \in Procs : handle'[q].step # "closed" => handle[q].step # "closed"
  <1> DEFINE f == handle[p].file
             h == [handle[p] EXCEPT !.step = "written"]
             t == IF handle[p].at = "tmp" THEN "whole" ELSE tmp[f]
             c == IF handle[p].at = "final" THEN "whole" ELSE final[f]
  <1>1. f \in Files /\ handle[p] \in Handle /\ h \in Handle /\ h.file = f
        /\ h.step = "written" /\ h.at = handle[p].at
    BY DEF FilePart, FilesTypeOK, Write, Handle
  <1>2. handle' = [handle EXCEPT ![p] = h] /\ final' = [final EXCEPT ![f] = c]
        /\ tmp' = [tmp EXCEPT ![f] = t] /\ handle[p].step = "opened"
    BY DEF Write
  <1>3. t \in Contents /\ c \in Contents
    BY <1>1 DEF FilePart, FilesTypeOK, Contents
  <1>4. c # "none" <=> final[f] # "none"
    BY <1>1 DEF FilePart, HandleInv
  <1> HIDE DEF h, t, c
  <1>5. FilesTypeOK'
    BY <1>1, <1>2, <1>3 DEF FilePart, FilesTypeOK
  <1>6. \A g \in Files : final'[g] # "none" <=> final[g] # "none"
    BY <1>1, <1>2, <1>4 DEF FilePart, FilesTypeOK
  <1>7. HandleInv'
    BY <1>1, <1>2, <1>6 DEF FilePart, FilesTypeOK, HandleInv
  <1> QED BY <1>1, <1>2, <1>5, <1>6, <1>7 DEF FilePart, FilesTypeOK

LEMMA ReplaceStep ==
  ASSUME FilePart, NEW p \in Procs, Replace(p)
  PROVE  /\ FilePart'
         /\ final'[handle[p].file] # "none"
         /\ \A g \in Files : g # handle[p].file => final'[g] = final[g]
         /\ handle'[p].step = "closed"
         /\ \A q \in Procs :
              handle'[q].step # "closed" =>
                handle[q].step # "closed" /\ handle'[q].file = handle[q].file
  <1> DEFINE f == handle[p].file
  <1>1. f \in Files /\ handle[p].step = "written" /\ tmp[f] # "none" /\ tmp[f] \in Contents
    BY DEF FilePart, FilesTypeOK, Replace
  <1>2. final' = [final EXCEPT ![f] = tmp[f]] /\ tmp' = [tmp EXCEPT ![f] = "none"]
        /\ handle' = [q \in Procs |-> IF q = p THEN Closed ELSE Moved(handle[q], f)]
    BY DEF Replace
  <1>3. \A q \in Procs :
          /\ Moved(handle[q], f) \in Handle
          /\ Moved(handle[q], f).step = handle[q].step
          /\ Moved(handle[q], f).file = handle[q].file
          /\ Moved(handle[q], f).at = "final" => handle[q].at = "final" \/ handle[q].file = f
    BY DEF Moved, FilePart, FilesTypeOK, Handle
  <1>4. Closed \in Handle /\ Closed.step = "closed" /\ Closed.at = "gone"
    BY DEF Closed, Handle
  <1>5. FilesTypeOK'
    BY <1>1, <1>2, <1>3, <1>4 DEF FilePart, FilesTypeOK, Contents
  <1>6. HandleInv'
    BY <1>1, <1>2, <1>3, <1>4 DEF FilePart, FilesTypeOK, HandleInv
  <1> QED BY <1>1, <1>2, <1>3, <1>4, <1>5, <1>6 DEF FilePart, FilesTypeOK

\* A process that gives up its write closes its handle and leaves the files alone.
LEMMA CloseStep ==
  ASSUME FilePart, NEW p \in Procs, handle' = [handle EXCEPT ![p] = Closed],
         UNCHANGED <<final, tmp>>
  PROVE  FilePart' /\ handle'[p].step = "closed"
  BY DEF FilePart, FilesTypeOK, HandleInv, Closed, Handle

--------------------------------------------------------------------------------
\* Processes

\* What is sound stays sound when files are added.
LEMMA SoundGrows ==
  ASSUME NEW i, LocalType(i), NEW fin, NEW fin2, Grows(fin, fin2), Sound(i, fin)
  PROVE  Sound(i, fin2)
  <1>1. i.pc # "idle" => i.report \in Reports
    BY DEF LocalType, Ingest
  <1>2. i.pc # "idle" => Behind(i) \subseteq Evidence
    BY <1>1, PipelineAssumption, EarlyAssumption DEF Behind
  <1>3. i.pc \in {"env", "verify"} => i.piece \in Evidence
    BY DEF LocalType, Ingest
  <1>4. ASSUME NEW e \in Evidence, Have(fin, e) PROVE Have(fin2, e)
    BY <1>4, FilesNamed DEF Have, Grows
  <1>5. i.pc \in Late => i.pc # "idle"
    BY DEF Late
  <1>6. i.pc # "idle" => \A e \in Behind(i) : Have(fin2, e)
    BY <1>2, <1>4 DEF Sound
  <1>7. /\ i.pc \in {"env", "verify"} => fin2[Raw(i.piece)] # "none"
        /\ i.pc = "verify" => fin2[Env(i.piece)] # "none"
    BY <1>3, FilesNamed DEF Grows, Sound
  <1>8. i.pc \in Late => fin2[Rep(i.report)] # "none"
    BY <1>1, <1>5, FilesNamed DEF Grows, Sound
  <1> QED BY <1>6, <1>7, <1>8 DEF Sound

\* A step of p that moves its ingest to i and leaves the other processes as they are
LEMMA MoveStep ==
  ASSUME FilePart, ProcPart, NEW p \in Procs, NEW i, LocalType(i),
         ing' = [ing EXCEPT ![p] = i], Sound(i, final'), Grows(final, final'),
         handle'[p].step = "closed",
         \A q \in Procs \ {p} : handle'[q].step # "closed" =>
           handle[q].step # "closed" /\ handle'[q].file = handle[q].file
  PROVE  ProcPart'
  <1>1. ing' \in [Procs -> Ingest] /\ ing'[p] = i
        /\ \A q \in Procs \ {p} : ing'[q] = ing[q]
    BY DEF ProcPart, LocalType
  <1>2. ASSUME NEW q \in Procs \ {p}
        PROVE  /\ LocalType(ing'[q]) /\ Sound(ing'[q], final')
               /\ handle'[q].step # "closed" => handle'[q].file \in Writing(q)'
    <2>1. LocalType(ing[q]) /\ Sound(ing[q], final)
      BY DEF ProcPart
    <2>2. Sound(ing[q], final')
      BY <2>1, SoundGrows
    <2>3. Writing(q)' = Writing(q)
      BY <1>1 DEF Writing
    <2> QED BY <1>1, <2>1, <2>2, <2>3 DEF ProcPart
  <1>3. LocalType(ing'[p]) /\ Sound(ing'[p], final')
    BY <1>1
  <1> QED BY <1>1, <1>2, <1>3 DEF ProcPart

\* A step that moves no ingest and starts no write
LEMMA StayStep ==
  ASSUME FilePart, ProcPart, ing' = ing, Grows(final, final'),
         \A q \in Procs : handle'[q].step # "closed" =>
           handle[q].step # "closed" /\ handle'[q].file = handle[q].file
  PROVE  ProcPart'
  <1>1. ASSUME NEW q \in Procs
        PROVE  /\ LocalType(ing'[q]) /\ Sound(ing'[q], final')
               /\ handle'[q].step # "closed" => handle'[q].file \in Writing(q)'
    <2>1. LocalType(ing[q]) /\ Sound(ing[q], final)
      BY DEF ProcPart
    <2>2. Sound(ing[q], final')
      BY <2>1, SoundGrows
    <2>3. Writing(q)' = Writing(q)
      BY DEF Writing
    <2> QED BY <2>1, <2>2, <2>3 DEF ProcPart
  <1> QED BY <1>1 DEF ProcPart

\* A step of p that begins to write the file its ingest is at
LEMMA IntentStep ==
  ASSUME FilePart, ProcPart, NEW p \in Procs, NEW f \in Files, Intend(p, f),
         f \in Writing(p), ing' = ing
  PROVE  ProcPart' /\ FilePart'
  <1>1. FilePart' /\ final' = final /\ Grows(final, final')
        /\ handle' = [handle EXCEPT ![p] = [file |-> f, step |-> "opening", at |-> "gone"]]
    BY IntendStep DEF Grows
  <1>2. ASSUME NEW q \in Procs
        PROVE  /\ LocalType(ing'[q]) /\ Sound(ing'[q], final')
               /\ handle'[q].step # "closed" => handle'[q].file \in Writing(q)'
    <2>1. Writing(q)' = Writing(q)
      BY DEF Writing
    <2> QED BY <1>1, <2>1 DEF ProcPart, FilePart, FilesTypeOK
  <1> QED BY <1>1, <1>2 DEF ProcPart

\* A step of p that moves its ingest and touches no file
LEMMA MoveOnly ==
  ASSUME FilePart, ProcPart, NEW p \in Procs, NEW i, LocalType(i), Sound(i, final),
         ing' = [ing EXCEPT ![p] = i], UNCHANGED filesVars, handle[p].step = "closed"
  PROVE  FilePart' /\ ProcPart'
  <1>1. final' = final /\ handle' = handle /\ tmp' = tmp /\ Grows(final, final')
    BY DEF filesVars, Grows
  <1>2. FilePart'
    BY <1>1 DEF FilePart, FilesTypeOK, HandleInv
  <1>3. ProcPart'
    BY <1>1, MoveStep
  <1> QED BY <1>2, <1>3

\* An ingest that is over
LEMMA NoIngestFacts ==
  LocalType(NoIngest) /\ \A fin : Sound(NoIngest, fin)
  BY DEF NoIngest, LocalType, Ingest, IngestPlaces, Sound, Late

\* An ingest at one place, taken to another with its other locals as they are
LEMMA GotoFacts ==
  ASSUME NEW i, LocalType(i), i.pc # "idle", NEW pc \in IngestPlaces \ {"idle"},
         pc \in {"raw", "env", "verify"} => i.piece \in i.left
  PROVE  /\ LocalType([i EXCEPT !.pc = pc])
         /\ [i EXCEPT !.pc = pc].pc = pc
         /\ [i EXCEPT !.pc = pc].report = i.report
         /\ [i EXCEPT !.pc = pc].read = i.read
         /\ [i EXCEPT !.pc = pc].left = i.left
         /\ [i EXCEPT !.pc = pc].piece = i.piece
  BY DEF LocalType, Ingest

\* A process that is not in an ingest writes nothing.
LEMMA IdleClosed ==
  ASSUME ProcPart, NEW p \in Procs, Writing(p) = {}
  PROVE  handle[p].step = "closed"
  BY DEF ProcPart

\* Every place but these four is no place to write at.
LEMMA WritingFacts ==
  ASSUME NEW p \in Procs
  PROVE  /\ ing[p].pc = "raw" => Writing(p) = {Raw(ing[p].piece)}
         /\ ing[p].pc = "env" => Writing(p) = {Env(ing[p].piece)}
         /\ ing[p].pc = "report" => Writing(p) = {Rep(ing[p].report)}
         /\ ing[p].pc = "batch" => Writing(p) = {Batch(ing[p].report)}
         /\ ing[p].pc \notin {"raw", "env", "report", "batch"} => Writing(p) = {}
  BY DEF Writing

--------------------------------------------------------------------------------
\* The steps of an ingest

\* Evidence: a piece is struck off only when both of its files are there.
LEMMA EvidenceSteps ==
  ASSUME FilePart, ProcPart, NEW p \in Procs,
         \/ \E r \in Reports : Begin(p, r)
         \/ \E e \in Evidence : NextPiece(p, e)
         \/ Keep(p)
         \/ Verify(p)
  PROVE  FilePart' /\ ProcPart'
  <1>1. LocalType(ing[p]) /\ Sound(ing[p], final) /\ ing[p] \in Ingest
    BY DEF ProcPart, LocalType
  <1>2. ASSUME NEW r \in Reports, Begin(p, r) PROVE FilePart' /\ ProcPart'
    <2> DEFINE i == [NoIngest EXCEPT !.report = r, !.pc = "keep", !.left = EarlyOf[r]]
    <2>1. EarlyOf[r] \subseteq Evidence
      BY EarlyAssumption, PipelineAssumption
    <2>2. i.report = r /\ i.pc = "keep" /\ i.left = EarlyOf[r] /\ i.read = FALSE
          /\ i \in Ingest
      BY <2>1 DEF NoIngest, Ingest, IngestPlaces
    <2>3. LocalType(i)
      BY <2>2, PipelineAssumption DEF LocalType
    <2>4. Behind(i) = {}
      BY <2>2 DEF Behind
    <2>5. Sound(i, final)
      BY <2>2, <2>4 DEF Sound, Late
    <2>6. handle[p].step = "closed" /\ UNCHANGED filesVars /\ ing' = [ing EXCEPT ![p] = i]
      BY <1>2, IdleClosed, WritingFacts DEF Begin, AtRest
    <2> HIDE DEF i
    <2> QED BY <2>3, <2>5, <2>6, MoveOnly
  <1>3. ASSUME NEW e \in Evidence, NextPiece(p, e) PROVE FilePart' /\ ProcPart'
    <2> DEFINE i == [ing[p] EXCEPT !.pc = "raw", !.piece = e]
    <2>1. ing[p].pc = "keep" /\ e \in ing[p].left /\ handle[p].step = "closed"
          /\ UNCHANGED filesVars /\ ing' = [ing EXCEPT ![p] = i]
      BY <1>3 DEF NextPiece, At
    <2>2. i \in Ingest /\ i.pc = "raw" /\ i.piece = e /\ i.left = ing[p].left
          /\ i.read = ing[p].read /\ i.report = ing[p].report
      BY <1>1 DEF Ingest, IngestPlaces
    <2>3. LocalType(i)
      BY <1>1, <2>1, <2>2 DEF LocalType
    <2>4. Behind(i) = Behind(ing[p])
      BY <2>2 DEF Behind
    <2>5. Sound(i, final)
      BY <1>1, <2>1, <2>2, <2>4 DEF Sound, Late
    <2> HIDE DEF i
    <2> QED BY <2>1, <2>3, <2>5, MoveOnly
  <1>4. CASE Keep(p)
    <2>1. ing[p].pc \in {"raw", "env"} /\ handle[p].step = "closed" /\ ing[p].pc # "idle"
          /\ ing[p].piece \in ing[p].left /\ ing[p].piece \in Evidence
      BY <1>1, <1>4 DEF Keep, At, LocalType, Ingest
    <2>2. FileOf(p) \in Files /\ FileOf(p) \in Writing(p)
      BY <2>1, FilesNamed, WritingFacts DEF FileOf
    <2>3. CASE final[FileOf(p)] # "none"
      <3> DEFINE next == After(ing[p].pc)
                 i == [ing[p] EXCEPT !.pc = next]
      <3>1. next \in {"env", "verify"} /\ (ing[p].pc = "raw" <=> next = "env")
            /\ next \in IngestPlaces \ {"idle"}
        BY <2>1 DEF After, IngestPlaces
      <3>2. ing' = [ing EXCEPT ![p] = i] /\ UNCHANGED filesVars
        BY <1>4, <2>3 DEF Keep, Goto
      <3> HIDE DEF next
      <3>3. LocalType(i) /\ i.pc = next /\ i.piece = ing[p].piece /\ i.left = ing[p].left
            /\ i.read = ing[p].read /\ i.report = ing[p].report
        BY <1>1, <2>1, <3>1, GotoFacts
      <3>4. Behind(i) = Behind(ing[p])
        BY <3>3 DEF Behind
      <3>5. Sound(i, final)
        BY <1>1, <2>1, <2>3, <3>1, <3>3, <3>4 DEF Sound, Late, FileOf
      <3> HIDE DEF i
      <3> QED BY <2>1, <3>2, <3>3, <3>5, MoveOnly
    <2>4. CASE final[FileOf(p)] = "none"
      <3>1. Intend(p, FileOf(p)) /\ ing' = ing
        BY <1>4, <2>4 DEF Keep
      <3> QED BY <2>2, <3>1, IntentStep
    <2> QED BY <2>3, <2>4
  <1>5. CASE Verify(p)
    <2> DEFINE d == ing[p].piece
               left == ing[p].left \ {d}
               i == [ing[p] EXCEPT !.pc = "keep", !.piece = NoEvidence, !.left = left]
    <2>1. ing[p].pc = "verify" /\ handle[p].step = "closed" /\ UNCHANGED filesVars
          /\ (ing' = [ing EXCEPT ![p] = i] \/ ing' = [ing EXCEPT ![p] = NoIngest])
      BY <1>5 DEF Verify, At, Kept, Leave
    <2>2. i \in Ingest /\ i.pc = "keep" /\ i.left = ing[p].left \ {d}
          /\ i.read = ing[p].read /\ i.report = ing[p].report
      BY <1>1 DEF Ingest, IngestPlaces
    <2>3. LocalType(i)
      BY <1>1, <2>1, <2>2 DEF LocalType
    <2>4. Behind(i) \subseteq Behind(ing[p]) \cup {d}
      BY <2>2 DEF Behind
    <2>5. Have(final, d)
      BY <1>1, <2>1 DEF Sound, Have
    <2>6. Sound(i, final)
      BY <1>1, <2>1, <2>2, <2>4, <2>5 DEF Sound, Late
    <2> HIDE DEF i
    <2> QED BY <2>1, <2>3, <2>6, MoveOnly, NoIngestFacts
  <1> QED BY <1>2, <1>3, <1>4, <1>5

\* Files: the ingest goes on only when the file it wrote has its name.
LEMMA FileSteps ==
  ASSUME FilePart, ProcPart, NEW p \in Procs,
         OpenFile(p) \/ WriteFile(p) \/ PlaceFile(p) \/ LoseFile(p)
  PROVE  FilePart' /\ ProcPart'
  <1>1. LocalType(ing[p]) /\ Sound(ing[p], final)
        /\ (handle[p].step # "closed" => handle[p].file \in Writing(p))
    BY DEF ProcPart
  <1>2. CASE OpenFile(p)
    <2>1. Open(p) /\ ing' = ing
      BY <1>2 DEF OpenFile
    <2>2. /\ FilePart' /\ final' = final
          /\ \A q \in Procs : handle'[q].file = handle[q].file
          /\ \A q \in Procs : handle'[q].step # "closed" => handle[q].step # "closed"
      BY <2>1, OpenStep
    <2>3. Grows(final, final')
      BY <2>2 DEF Grows
    <2> QED BY <2>1, <2>2, <2>3, StayStep
  <1>3. CASE WriteFile(p)
    <2>1. Write(p) /\ ing' = ing
      BY <1>3 DEF WriteFile
    <2>2. /\ FilePart'
          /\ \A g \in Files : final'[g] # "none" <=> final[g] # "none"
          /\ \A q \in Procs : handle'[q].file = handle[q].file
          /\ \A q \in Procs : handle'[q].step # "closed" => handle[q].step # "closed"
      BY <2>1, WriteStep
    <2>3. Grows(final, final')
      BY <2>2 DEF Grows
    <2> QED BY <2>1, <2>2, <2>3, StayStep
  <1>4. CASE PlaceFile(p)
    <2> DEFINE next == After(ing[p].pc)
               i == [ing[p] EXCEPT !.pc = next]
               f == handle[p].file
    <2>1. Replace(p) /\ ing' = [ing EXCEPT ![p] = i] /\ f \in Writing(p)
      BY <1>1, <1>4 DEF PlaceFile, Goto, Replace
    <2>2. /\ FilePart' /\ final'[f] # "none" /\ handle'[p].step = "closed"
          /\ \A g \in Files : g # f => final'[g] = final[g]
          /\ \A q \in Procs :
               handle'[q].step # "closed" =>
                 handle[q].step # "closed" /\ handle'[q].file = handle[q].file
      BY <2>1, ReplaceStep
    <2>3. Grows(final, final')
      BY <2>2 DEF Grows
    <2>4. ing[p].pc \in {"raw", "env", "report", "batch"} /\ ing[p].pc # "idle"
      BY <2>1, WritingFacts
    <2>5. /\ ing[p].pc = "raw" => next = "env" /\ f = Raw(ing[p].piece)
          /\ ing[p].pc = "env" => next = "verify" /\ f = Env(ing[p].piece)
          /\ ing[p].pc = "report" => next = "batch" /\ f = Rep(ing[p].report)
          /\ ing[p].pc = "batch" => next = "index"
      BY <2>1, WritingFacts DEF After
    <2>6. next \in IngestPlaces \ {"idle"}
          /\ (next \in {"raw", "env", "verify"} => ing[p].piece \in ing[p].left)
      BY <1>1, <2>4, <2>5 DEF IngestPlaces, LocalType
    <2> HIDE DEF next
    <2>7. LocalType(i) /\ i.pc = next /\ i.piece = ing[p].piece /\ i.left = ing[p].left
          /\ i.read = ing[p].read /\ i.report = ing[p].report
      BY <1>1, <2>4, <2>6, GotoFacts
    <2>8. Behind(i) = Behind(ing[p])
      BY <2>7 DEF Behind
    <2>9. Sound(ing[p], final')
      BY <1>1, <2>3, SoundGrows
    <2>10. Sound(i, final')
      BY <2>2, <2>4, <2>5, <2>7, <2>8, <2>9 DEF Sound, Late
    <2> HIDE DEF i
    <2>11. ProcPart'
      BY <2>1, <2>2, <2>3, <2>7, <2>10, MoveStep
    <2> QED BY <2>2, <2>11
  <1>5. CASE LoseFile(p)
    <2>1. ing' = [ing EXCEPT ![p] = NoIngest] /\ handle' = [handle EXCEPT ![p] = Closed]
          /\ final' = final /\ tmp' = tmp /\ Grows(final, final')
      BY <1>5 DEF LoseFile, ReplaceRaises, Leave, Grows
    <2>2. FilePart' /\ handle'[p].step = "closed"
          /\ \A q \in Procs \ {p} : handle'[q] = handle[q]
      BY <2>1, CloseStep DEF FilePart, FilesTypeOK
    <2>3. ProcPart'
      BY <2>1, <2>2, NoIngestFacts, MoveStep
    <2> QED BY <2>2, <2>3
  <1> QED BY <1>2, <1>3, <1>4, <1>5

\* The report: it is begun only over retained evidence.
LEMMA ReadPriorStep ==
  ASSUME FilePart, ProcPart, index \subseteq Reports, NEW p \in Procs, ReadPrior(p)
  PROVE  FilePart' /\ ProcPart'
  <1>1. LocalType(ing[p]) /\ Sound(ing[p], final) /\ ing[p] \in Ingest
    BY DEF ProcPart, LocalType
  <1> DEFINE r == ing[p].report
             left == EvidenceOf[r] \ EarlyOf[r]
             later == [ing[p] EXCEPT !.read = TRUE, !.left = left]
             with(q) == [later EXCEPT !.prior = q]
  <1>2. ing[p].pc = "keep" /\ ing[p].left = {} /\ ing[p].read = FALSE
        /\ handle[p].step = "closed" /\ UNCHANGED filesVars
    BY <1>1 DEF ReadPrior, At, Ingest
  <1>3. PICK i \in {later, NoIngest} \cup {with(q) : q \in index} :
          ing' = [ing EXCEPT ![p] = i]
    BY DEF ReadPrior, Leave
  <1>4. r \in Reports /\ left \subseteq Evidence /\ EarlyOf[r] \subseteq EvidenceOf[r]
    BY <1>1, <1>2, PipelineAssumption, EarlyAssumption DEF LocalType, Ingest
  <1>5. CASE i = NoIngest
    BY <1>2, <1>3, <1>5, NoIngestFacts, MoveOnly
  <1>6. CASE i # NoIngest
    <2>1. i \in Ingest /\ i.pc = "keep" /\ i.read = TRUE /\ i.left = left /\ i.report = r
      <3> HIDE DEF left
      <3>1. later \in Ingest /\ later.pc = "keep" /\ later.read = TRUE
            /\ later.left = left /\ later.report = r
        BY <1>1, <1>2, <1>4 DEF Ingest
      <3> HIDE DEF later
      <3>2. ASSUME NEW q \in index
            PROVE  with(q) \in Ingest /\ with(q).pc = "keep" /\ with(q).read = TRUE
                   /\ with(q).left = left /\ with(q).report = r
        BY <3>1 DEF Ingest
      <3> QED BY <1>6, <3>1, <3>2
    <2>2. LocalType(i)
      BY <1>4, <2>1, PipelineAssumption DEF LocalType
    <2>3. Behind(i) = Behind(ing[p])
      BY <1>2, <1>4, <2>1 DEF Behind
    <2>4. Sound(i, final)
      BY <1>1, <1>2, <2>1, <2>3 DEF Sound, Late
    <2> QED BY <1>2, <1>3, <2>2, <2>4, MoveOnly
  <1> QED BY <1>5, <1>6

\* The moves from "report" on find the report on disk.
LEMMA ReportSteps ==
  ASSUME FilePart, ProcPart, NEW p \in Procs,
         \/ Build(p) \/ SaveAgain(p) \/ AppendIndex(p) \/ Diff(p) \/ LoadReport(p)
         \/ OpenFindings(p) \/ SaveRun(p)
  PROVE  FilePart' /\ ProcPart'
  <1>1. LocalType(ing[p]) /\ Sound(ing[p], final)
    BY DEF ProcPart
  <1>2. PICK pc \in {"report", "diff", "load", "findings", "run", "idle"} :
          /\ IF pc = "idle" THEN Leave(p) ELSE Goto(p, pc)
          /\ UNCHANGED filesVars
          /\ handle[p].step = "closed"
          /\ \/ ing[p].pc = "keep" /\ ing[p].left = {} /\ ing[p].read /\ pc = "report"
             \/ /\ ing[p].pc \in Late \cup {"report"}
                /\ pc # "report"
                /\ ing[p].pc = "report" /\ pc # "idle" => final[Rep(ing[p].report)] # "none"
    <2>1. CASE Build(p)
      BY <2>1 DEF Build, At
    <2>2. CASE SaveAgain(p)
      BY <2>2 DEF SaveAgain, At
    <2>3. CASE AppendIndex(p)
      BY <2>3 DEF AppendIndex, At, Late
    <2>4. CASE Diff(p)
      BY <2>4 DEF Diff, At, Late
    <2>5. CASE LoadReport(p)
      BY <2>5 DEF LoadReport, At, Late
    <2>6. CASE OpenFindings(p)
      BY <2>6 DEF OpenFindings, At, Late
    <2>7. CASE SaveRun(p)
      BY <2>7 DEF SaveRun, At, Late
    <2> QED BY <2>1, <2>2, <2>3, <2>4, <2>5, <2>6, <2>7
  <1>3. CASE pc = "idle"
    BY <1>2, <1>3, NoIngestFacts, MoveOnly DEF Leave
  <1>4. CASE pc # "idle"
    <2> DEFINE i == [ing[p] EXCEPT !.pc = pc]
    <2>1. ing[p].pc # "idle" /\ pc \in IngestPlaces \ {"idle"} /\ pc \notin {"raw", "env", "verify"}
      BY <1>2, <1>4 DEF Late, IngestPlaces
    <2>2. LocalType(i) /\ i.pc = pc /\ i.left = ing[p].left
          /\ i.read = ing[p].read /\ i.report = ing[p].report
      BY <1>1, <2>1, GotoFacts
    <2>3. Behind(i) = Behind(ing[p])
      BY <2>2 DEF Behind
    <2>4. Sound(i, final)
      BY <1>1, <1>2, <1>4, <2>1, <2>2, <2>3 DEF Sound, Late
    <2>5. ing' = [ing EXCEPT ![p] = i]
      BY <1>2, <1>4 DEF Goto
    <2> HIDE DEF i
    <2> QED BY <1>2, <2>2, <2>4, <2>5, MoveOnly
  <1> QED BY <1>3, <1>4

\* The files of a report are begun by the ingest of that report.
LEMMA SaveSteps ==
  ASSUME FilePart, ProcPart, NEW p \in Procs, SaveReport(p) \/ SaveBatch(p)
  PROVE  FilePart' /\ ProcPart'
  <1> DEFINE r == ing[p].report
  <1>1. ing[p].pc \in {"report", "batch"} /\ ing' = ing
        /\ Intend(p, IF ing[p].pc = "report" THEN Rep(r) ELSE Batch(r))
    BY DEF SaveReport, SaveBatch, At
  <1>2. r \in Reports
    BY <1>1 DEF ProcPart, LocalType, Ingest
  <1>3. CASE ing[p].pc = "report"
    BY <1>1, <1>2, <1>3, FilesNamed, WritingFacts, IntentStep
  <1>4. CASE ing[p].pc = "batch"
    BY <1>1, <1>2, <1>4, FilesNamed, WritingFacts, IntentStep
  <1> QED BY <1>1, <1>3, <1>4

\* rebuild_index touches neither report files nor ingests; a crash ends one.
LEMMA OtherSteps ==
  ASSUME FilePart, ProcPart, NEW p \in Procs,
         RebuildRead(p) \/ RebuildWrite(p) \/ IngestDies(p)
  PROVE  FilePart' /\ ProcPart'
  <1>1. CASE RebuildRead(p) \/ RebuildWrite(p)
    <2>1. UNCHANGED filesVars /\ ing' = ing
      BY <1>1 DEF RebuildRead, RebuildWrite
    <2>2. final' = final /\ handle' = handle /\ tmp' = tmp /\ Grows(final, final')
      BY <2>1 DEF filesVars, Grows
    <2>3. FilePart'
      BY <2>2 DEF FilePart, FilesTypeOK, HandleInv
    <2>4. ProcPart'
      BY <2>1, <2>2, StayStep
    <2> QED BY <2>3, <2>4
  <1>2. CASE IngestDies(p)
    <2>1. ing' = [ing EXCEPT ![p] = NoIngest] /\ handle' = [handle EXCEPT ![p] = Closed]
          /\ final' = final /\ tmp' = tmp /\ Grows(final, final')
      BY <1>2 DEF IngestDies, Drop, Leave, Grows
    <2>2. FilePart' /\ handle'[p].step = "closed"
          /\ \A q \in Procs \ {p} : handle'[q] = handle[q]
      BY <2>1, CloseStep DEF FilePart, FilesTypeOK
    <2>3. ProcPart'
      BY <2>1, <2>2, NoIngestFacts, MoveStep
    <2> QED BY <2>2, <2>3
  <1> QED BY <1>1, <1>2

LEMMA FileAndProcStep ==
  ASSUME FilePart, ProcPart, index \subseteq Reports, ReportsNext
  PROVE  FilePart' /\ ProcPart'
  <1>1. PICK p \in Procs :
          \/ \E r \in Reports : Begin(p, r)
          \/ IngestStep(p) \/ RebuildRead(p) \/ RebuildWrite(p) \/ IngestDies(p)
    BY DEF ReportsNext
  <1> QED BY <1>1, EvidenceSteps, FileSteps, ReadPriorStep, ReportSteps, SaveSteps, OtherSteps
          DEF IngestStep

--------------------------------------------------------------------------------
\* What a step does to the reports and the evidence on disk

SameNames == \A g \in Files : final'[g] # "none" <=> final[g] # "none"

LEMMA SameNamesFacts ==
  ASSUME SameNames
  PROVE  Stored' = Stored /\ Retained' = Retained
  BY FilesNamed DEF SameNames, Stored, Retained

\* Only a file that gets its name adds one.
LEMMA NamesKept ==
  ASSUME FilePart, NEW p \in Procs,
         \/ \E r \in Reports : Begin(p, r)
         \/ IngestStep(p) /\ ~PlaceFile(p)
         \/ RebuildRead(p) \/ RebuildWrite(p) \/ IngestDies(p)
  PROVE  SameNames
  <1>1. CASE final' = final
    BY <1>1 DEF SameNames
  <1>2. CASE WriteFile(p)
    BY <1>2, WriteStep DEF WriteFile, SameNames
  <1>3. CASE \/ \E r \in Reports : Begin(p, r)
             \/ \E e \in Evidence : NextPiece(p, e)
             \/ Keep(p) \/ OpenFile(p) \/ LoseFile(p) \/ Verify(p)
    <2>1. final' = final
      BY <1>3 DEF Begin, NextPiece, Keep, OpenFile, LoseFile, Verify, filesVars, Intend, Open,
                  ReplaceRaises
    <2> QED BY <1>1, <2>1
  <1>4. CASE \/ ReadPrior(p) \/ Build(p) \/ SaveReport(p) \/ SaveAgain(p) \/ SaveBatch(p)
             \/ AppendIndex(p) \/ Diff(p) \/ LoadReport(p) \/ OpenFindings(p) \/ SaveRun(p)
             \/ RebuildRead(p) \/ RebuildWrite(p) \/ IngestDies(p)
    <2>1. final' = final
      BY <1>4 DEF ReadPrior, Build, SaveReport, SaveAgain, SaveBatch, AppendIndex, Diff,
                  LoadReport, OpenFindings, SaveRun, RebuildRead, RebuildWrite, IngestDies, Drop,
                  filesVars, Intend
    <2> QED BY <1>1, <2>1
  <1> QED BY <1>2, <1>3, <1>4 DEF IngestStep

\* A file that gets its name retains at most one piece of evidence, or publishes
\* a report all of whose evidence is retained.
LEMMA NamesAdded ==
  ASSUME FilePart, ProcPart, NEW p \in Procs, PlaceFile(p)
  PROVE  \/ Stored' = Stored /\ \E e \in Evidence : Retained' = Retained \cup {e}
         \/ Stored' = Stored /\ Retained' = Retained
         \/ \E r \in Reports : /\ EvidenceOf[r] \subseteq Retained
                               /\ Stored' = Stored \cup {r} /\ Retained' = Retained
  <1> DEFINE f == handle[p].file
             i == ing[p]
  <1>1. /\ final'[f] # "none"
        /\ \A g \in Files : g # f => final'[g] = final[g]
    BY ReplaceStep DEF PlaceFile
  <1>2. f \in Writing(p) /\ LocalType(i) /\ Sound(i, final)
    BY DEF PlaceFile, Replace, ProcPart
  <1>3. CASE i.pc \in {"raw", "env"}
    <2>1. i.piece \in Evidence /\ (f = Raw(i.piece) \/ f = Env(i.piece))
      BY <1>2, <1>3, WritingFacts DEF LocalType, Ingest
    <2>2. Stored' = Stored
      BY <1>1, <2>1, FilesNamed, NamesDiffer DEF Stored
    <2>3. \A e \in Evidence : e # i.piece => (e \in Retained' <=> e \in Retained)
      <3> SUFFICES ASSUME NEW e \in Evidence, e # i.piece
                   PROVE  final'[Raw(e)] = final[Raw(e)] /\ final'[Env(e)] = final[Env(e)]
        BY DEF Retained
      <3>1. Raw(e) # f /\ Env(e) # f
        BY <2>1, NamesDiffer
      <3> QED BY <1>1, <3>1, FilesNamed
    <2>4. i.piece \in Retained => i.piece \in Retained'
      BY <1>1, <2>1, FilesNamed DEF Retained
    <2>5. Retained \subseteq Evidence /\ Retained' \subseteq Evidence
      BY DEF Retained
    <2>6. CASE i.piece \in Retained'
      BY <2>1, <2>2, <2>3, <2>5, <2>6
    <2>7. CASE i.piece \notin Retained'
      BY <2>2, <2>3, <2>4, <2>5, <2>7
    <2> QED BY <2>6, <2>7
  <1>4. CASE i.pc \in {"report", "batch"}
    <2>1. i.report \in Reports
      BY <1>2, <1>4 DEF LocalType, Ingest
    <2>2. f = Rep(i.report) \/ f = Batch(i.report)
      BY <1>2, <1>4, WritingFacts
    <2>3. Retained' = Retained
      BY <1>1, <2>2, FilesNamed, NamesDiffer DEF Retained
    <2>4. CASE f = Batch(i.report)
      <3>1. Stored' = Stored
        BY <1>1, <2>4, FilesNamed, NamesDiffer DEF Stored
      <3> QED BY <2>3, <3>1
    <2>5. CASE f = Rep(i.report)
      <3>1. i.pc = "report"
        BY <1>2, <1>4, <2>5, WritingFacts, NamesDiffer
      <3>2. EvidenceOf[i.report] \subseteq Retained
        <4>1. i.read /\ i.left = {} /\ \A e \in Behind(i) : Have(final, e)
          BY <1>2, <3>1 DEF Sound
        <4>2. Behind(i) = EvidenceOf[i.report]
          BY <4>1 DEF Behind
        <4> QED BY <2>1, <4>1, <4>2, PipelineAssumption DEF Retained, Have
      <3>3. Stored' = Stored \cup {i.report}
        BY <1>1, <2>1, <2>5, FilesNamed, NamesDiffer DEF Stored
      <3> QED BY <2>1, <2>3, <3>2, <3>3
    <2> QED BY <2>2, <2>4, <2>5
  <1> QED BY <1>2, <1>3, <1>4, WritingFacts

\* In every step what is on disk stays there, and nothing is there unbacked.
LEMMA StoredGrows ==
  ASSUME FilePart, ProcPart, StoreInv, ReportsNext
  PROVE  /\ Stored \subseteq Stored' /\ Retained \subseteq Retained'
         /\ \A r \in Stored' : EvidenceOf[r] \subseteq Retained'
  <1>1. CASE SameNames
    BY <1>1, SameNamesFacts DEF StoreInv
  <1>2. CASE \E p \in Procs : PlaceFile(p)
    BY <1>2, NamesAdded DEF StoreInv
  <1> QED BY <1>1, <1>2, NamesKept DEF ReportsNext

\* An ingest past its save has its report on disk.
LEMMA LateStored ==
  ASSUME ProcPart, NEW p \in Procs, ing[p].pc \in Late
  PROVE  ing[p].report \in Stored
  <1>1. LocalType(ing[p]) /\ Sound(ing[p], final) /\ ing[p].pc # "idle"
    BY DEF ProcPart, Late
  <1> QED BY <1>1 DEF LocalType, Ingest, Sound, Stored

\* The index, the runs and the rebuilt list name reports on disk.
LEMMA RestStep ==
  ASSUME FilePart, ProcPart, RestPart, ReportsNext
  PROVE  RestPart'
  <1>1. PICK p \in Procs :
          \/ \E r \in Reports : Begin(p, r)
          \/ IngestStep(p) \/ RebuildRead(p) \/ RebuildWrite(p) \/ IngestDies(p)
    BY DEF ReportsNext
  <1>2. Stored \subseteq Stored' /\ Stored \subseteq Reports
        /\ \A r \in Stored' : EvidenceOf[r] \subseteq Retained'
    BY StoredGrows DEF RestPart, Stored
  <1>3. index \subseteq Stored /\ runs \subseteq Stored
        /\ (\A q \in Procs : rebuilt[q].read \subseteq Stored)
        /\ rebuilt \in [Procs -> [on: BOOLEAN, read: SUBSET Reports]]
        /\ deaths \in 0..MaxDeaths /\ findings \subseteq Reports /\ saved \subseteq Reports
    BY DEF RestPart, StoreInv
  <1>4. CASE UNCHANGED pvars
    BY <1>2, <1>3, <1>4 DEF RestPart, StoreInv, pvars
  <1>5. CASE SaveAgain(p)
    <2>1. UNCHANGED <<index, findings, runs, rebuilt, deaths>>
          /\ saved' \subseteq saved \cup {ing[p].report}
      BY <1>5 DEF SaveAgain
    <2>2. ing[p].report \in Reports
      BY <1>5 DEF SaveAgain, At, ProcPart, LocalType, Ingest
    <2> QED BY <1>2, <1>3, <2>1, <2>2 DEF RestPart, StoreInv
  <1>6. CASE AppendIndex(p)
    <2>1. UNCHANGED <<findings, runs, rebuilt, deaths>> /\ ing[p].report \in Stored
          /\ index' = index \cup {ing[p].report} /\ saved' = saved \cup {ing[p].report}
      BY <1>6, LateStored DEF AppendIndex, At, Late
    <2> QED BY <1>2, <1>3, <2>1 DEF RestPart, StoreInv
  <1>7. CASE OpenFindings(p)
    <2>1. UNCHANGED <<index, saved, runs, rebuilt, deaths>> /\ ing[p].report \in Stored
          /\ findings' = findings \cup {ing[p].report}
      BY <1>7, LateStored DEF OpenFindings, At, Late
    <2> QED BY <1>2, <1>3, <2>1 DEF RestPart, StoreInv
  <1>8. CASE SaveRun(p)
    <2>1. UNCHANGED <<index, saved, findings, rebuilt, deaths>> /\ ing[p].report \in Stored
          /\ runs' = runs \cup {ing[p].report}
      BY <1>8, LateStored DEF SaveRun, At, Late
    <2> QED BY <1>2, <1>3, <2>1 DEF RestPart, StoreInv
  <1>9. CASE RebuildRead(p)
    <2> DEFINE whole == {r \in Reports : final[Rep(r)] = "whole"}
               row == [on |-> TRUE, read |-> whole]
    <2>1. whole \subseteq Stored
      BY DEF Stored
    <2>2. UNCHANGED <<index, saved, findings, runs, deaths>>
          /\ rebuilt' = [rebuilt EXCEPT ![p] = row]
      BY <1>9 DEF RebuildRead
    <2> HIDE DEF whole
    <2> QED BY <1>2, <1>3, <2>1, <2>2 DEF RestPart, StoreInv
  <1>10. CASE RebuildWrite(p)
    <2>1. UNCHANGED <<saved, findings, runs, deaths>> /\ index' = rebuilt[p].read
          /\ rebuilt' = [rebuilt EXCEPT ![p] = NotRebuilding]
      BY <1>10 DEF RebuildWrite
    <2> QED BY <1>2, <1>3, <2>1 DEF RestPart, StoreInv, NotRebuilding
  <1>11. CASE IngestDies(p)
    <2>1. UNCHANGED <<index, saved, findings, runs>> /\ deaths' \in 0..MaxDeaths
          /\ rebuilt' = [rebuilt EXCEPT ![p] = NotRebuilding]
      BY <1>3, <1>11, PipelineAssumption DEF IngestDies
    <2> QED BY <1>2, <1>3, <2>1 DEF RestPart, StoreInv, NotRebuilding
  <1>12. CASE \E r \in Reports : Begin(p, r)
    BY <1>4, <1>12 DEF Begin
  <1>13. CASE IngestStep(p) /\ ~SaveAgain(p) /\ ~AppendIndex(p) /\ ~OpenFindings(p) /\ ~SaveRun(p)
    BY <1>4, <1>13 DEF IngestStep, NextPiece, Keep, OpenFile, WriteFile, PlaceFile, LoseFile,
       Verify,
       ReadPrior, Build, SaveReport, SaveBatch, Diff, LoadReport
  <1> QED BY <1>1, <1>5, <1>6, <1>7, <1>8, <1>9, <1>10, <1>11, <1>12, <1>13

LEMMA PipelineInit == ReportsInit => PipelineInv
  <1> SUFFICES ASSUME ReportsInit PROVE PipelineInv
    OBVIOUS
  <1>1. FilePart
    BY DEF ReportsInit, FilesInit, FilePart, FilesTypeOK, HandleInv, Contents, Handle, Closed
  <1>2. ProcPart
    BY NoIngestFacts DEF ReportsInit, FilesInit, ProcPart, Closed, LocalType
  <1>3. Stored = {} /\ Retained = {}
    BY FilesNamed DEF ReportsInit, FilesInit, Stored, Retained
  <1>4. RestPart
    BY <1>3, PipelineAssumption DEF ReportsInit, RestPart, StoreInv, NotRebuilding
  <1> QED BY <1>1, <1>2, <1>4, InvParts

LEMMA PipelineStep == PipelineInv /\ [ReportsNext]_vars => PipelineInv'
  <1> SUFFICES ASSUME PipelineInv, [ReportsNext]_vars PROVE PipelineInv'
    OBVIOUS
  <1>1. FilePart /\ ProcPart /\ RestPart
    BY InvParts
  <1>2. CASE ReportsNext
    <2>1. FilePart' /\ ProcPart' /\ RestPart'
      BY <1>1, <1>2, FileAndProcStep, RestStep DEF RestPart
    <2> QED BY <2>1 DEF PipelineInv, PipelineTypeOK, FilePart, ProcPart, RestPart, LocalType
  <1>3. CASE UNCHANGED vars
    <2>1. UNCHANGED <<final, tmp, handle, index, findings, runs, ing, rebuilt, saved, deaths>>
      BY <1>3 DEF vars, filesVars
    <2>2. FilePart' /\ ProcPart' /\ RestPart'
      BY <1>1, <2>1 DEF FilePart, FilesTypeOK, HandleInv, ProcPart, Writing, RestPart, StoreInv,
                        Stored, Retained
    <2> QED BY <2>2 DEF PipelineInv, PipelineTypeOK, FilePart, ProcPart, RestPart, LocalType
  <1> QED BY <1>2, <1>3

--------------------------------------------------------------------------------
\* Theorems

\* In every reachable state, for any number of processes and crashes, each ingest
\* has retained what its place says, and the stores name what is on disk.
THEOREM PipelineSafe == ReportsSpec => []PipelineInv
  <1>1. ReportsInit => PipelineInv
    BY PipelineInit
  <1>2. PipelineInv /\ [ReportsNext]_vars => PipelineInv'
    BY PipelineStep
  <1> QED BY <1>1, <1>2, PTL DEF ReportsSpec

\* The pipeline's types; every write under way is the one its ingest is at.
THEOREM PipelineTypeCorrect == ReportsSpec => []PipelineTypeOK
  <1>1. PipelineInv => PipelineTypeOK
    BY DEF PipelineInv
  <1> QED BY <1>1, PipelineSafe, PTL

\* latest, entries and the trend never name a report that is not on disk, however
\* many saves a rebuild_index overlaps with.
THEOREM IndexNamesStoredReports == ReportsSpec => []IndexedIsStored
  <1>1. PipelineInv => IndexedIsStored
    BY DEF PipelineInv, StoreInv, Stored, IndexedIsStored
  <1> QED BY <1>1, PipelineSafe, PTL

\* Every step of the pipeline is one of Archive's, or changes nothing it sees.
LEMMA PipelineMapsStep ==
  ASSUME PipelineInv, PipelineInv', [ReportsNext]_vars
  PROVE  [Promise!Next]_(Promise!avars)
  <1>1. FilePart /\ ProcPart /\ RestPart /\ StoreInv
    BY InvParts DEF RestPart
  <1>2. index' \subseteq Stored' /\ runs' \subseteq Stored' /\ index' \in SUBSET Reports
    BY DEF PipelineInv, StoreInv, Stored
  <1>3. CASE UNCHANGED vars
    BY <1>3 DEF vars, filesVars, Promise!avars, Stored, Retained
  <1>4. ASSUME NEW p \in Procs, PlaceFile(p) PROVE [Promise!Next]_(Promise!avars)
    <2>1. index' = index /\ runs' = runs
      BY <1>4 DEF PlaceFile, pvars
    <2>2. CASE Stored' = Stored /\ Retained' = Retained
      BY <2>1, <2>2 DEF Promise!avars
    <2>3. CASE Stored' = Stored /\ \E e \in Evidence : Retained' = Retained \cup {e}
      BY <2>1, <2>3 DEF Promise!Next, Promise!Retain
    <2>4. CASE \E r \in Reports : /\ EvidenceOf[r] \subseteq Retained
                                  /\ Stored' = Stored \cup {r} /\ Retained' = Retained
      BY <2>1, <2>4 DEF Promise!Next, Promise!Publish
    <2> QED BY <1>1, <1>4, <2>2, <2>3, <2>4, NamesAdded
  <1>5. ASSUME NEW p \in Procs, ~PlaceFile(p),
               \/ \E r \in Reports : Begin(p, r)
               \/ IngestStep(p) \/ RebuildRead(p) \/ RebuildWrite(p) \/ IngestDies(p)
        PROVE  [Promise!Next]_(Promise!avars)
    <2>1. Stored' = Stored /\ Retained' = Retained
      BY <1>1, <1>5, NamesKept, SameNamesFacts
    <2>2. CASE runs' = runs /\ index' = index
      BY <2>1, <2>2 DEF Promise!avars
    <2>3. CASE runs' = runs /\ index' # index
      BY <1>2, <2>1, <2>3 DEF Promise!Next, Promise!List
    <2>4. CASE SaveRun(p)
      <3>1. index' = index /\ runs' = runs \cup {ing[p].report} /\ ing[p].report \in Stored
        BY <1>1, <2>4, LateStored DEF SaveRun, At, Late
      <3>2. ing[p].report \in Reports
        BY <3>1 DEF Stored
      <3> QED BY <2>1, <3>1, <3>2 DEF Promise!Next, Promise!Link
    <2>5. CASE runs' # runs
      <3>1. SaveRun(p)
        BY <1>5, <2>5 DEF IngestStep, Begin, NextPiece, Keep, OpenFile, WriteFile, LoseFile, Verify,
           ReadPrior, Build, SaveReport, SaveAgain, SaveBatch, AppendIndex, Diff, LoadReport,
           OpenFindings, RebuildRead, RebuildWrite, IngestDies, pvars
      <3> QED BY <2>4, <3>1
    <2> QED BY <2>2, <2>3, <2>5
  <1> QED BY <1>3, <1>4, <1>5 DEF ReportsNext

\* "A report must never present evidence that was not durably retained"
\* (service.py:790-792), for any number of processes, crashes and lost writes: the
\* pipeline implements Archive.
THEOREM PipelineImplementsArchive == ReportsSpec => ImplementsArchive
  <1>1. ReportsInit => Promise!Init
    BY FilesNamed DEF ReportsInit, FilesInit, Promise!Init, Stored, Retained
  <1>2. PipelineInv /\ PipelineInv' /\ [ReportsNext]_vars => [Promise!Next]_(Promise!avars)
    BY PipelineMapsStep
  <1> QED BY <1>1, <1>2, PipelineSafe, PTL DEF ReportsSpec, ImplementsArchive, Promise!Spec

================================================================================
