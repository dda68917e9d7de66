------------------------------- MODULE Retrieval -------------------------------
(***************************************************************************)
(* The retrieval of guidance for one log (retrieval_engine.py): candidates *)
(* for each mapped control, a sweep, three queries run by a thread pool,   *)
(* the quality filter and the removal of duplicates, the recovery when     *)
(* nothing is left, the cap before the reranker, the expansion through the *)
(* graph with its process-wide cache, and the choice of the results.       *)
(*                                                                         *)
(* A chunk is a name; ChunkOf gives its framework, control, safeguard and  *)
(* type, sound holds those whose text passes the quality filter, and Near is the *)
(* order in which each kind of query ranks the chunks.  Scores are         *)
(* percentages.  A list is filtered, deduplicated and sorted by saying     *)
(* which of its positions stay and which of two comes first.               *)
(***************************************************************************)
EXTENDS PolicyRules, SequencesExt, FiniteSetsExt

CONSTANTS
  ChunkOf,           \* chunk -> [framework, control, safeguard, type]
  Corpora,           \* which chunks the texts ingested let pass the filter
  Near,              \* query -> sequence of chunks, nearest first
  ControlOrder,      \* the CIS controls in the order of their numbers
  SpecsOfNist,       \* NIST subcategory -> HIPAA specifications
  SpecsOfFlag,       \* activity -> HIPAA specifications
  SectionOf,         \* specification -> CFR section
  NoSection,         \* a specification whose section is not of the form 164.ddd
  GraphNist,         \* CIS control -> subcategories its MAPS_TO edges reach
  Scores,            \* what the reranker may answer
  TopK, TopKPerCtrl, TopKRerank, RerankSpare,
  CisGuaranteed, NistGuaranteed, HipaaGuaranteed,
  NistFloor, HipaaFloor, CoverageFloor, CrossThreshold

VARIABLES
  sound,     \* the chunks the quality filter keeps
  stage,     \* what the retrieval does next
  mapped,    \* the CIS controls of the findings, in order
  acts,      \* the activity flags of the findings
  pool,      \* candidates, in the order they were found
  kept,      \* candidates that survived filter and duplicates
  finished,  \* queries whose thread has answered
  broken,    \* queries whose thread has raised
  heard,     \* queries whose answer as_completed has yielded
  expanded,  \* the graph context of this retrieval
  cache,     \* _GRAPH_EXPANSION_CACHE
  results    \* the chunks returned

retrievalVars == <<sound, stage, mapped, acts, pool, kept, finished, broken, heard, expanded, cache, results>>

Frameworks == {"cis", "nist", "hipaa"}
Chunks == DOMAIN ChunkOf
Of(framework) == {c \in Chunks : ChunkOf[c].framework = framework}

ASSUME CorpusAssumption ==
  /\ \A c \in Chunks :
       /\ ChunkOf[c].framework \in Frameworks
       /\ ChunkOf[c].framework = "hipaa" => ChunkOf[c].safeguard # ""
  /\ Corpora \subseteq SUBSET Chunks

\* A query returns a row once.
ASSUME NearAssumption ==
  \A query \in {"control", "log", "hipaa"} : Near[query] \in Seq(Chunks) /\ IsInjective(Near[query])

ASSUME NameAssumption ==
  /\ ControlOrder \in Seq(STRING) /\ "" \notin ToSet(ControlOrder)
  /\ \A k \in ToSet(ControlOrder) : "" \notin NistOf[k]

ASSUME NumberAssumption ==
  /\ {TopK, TopKPerCtrl, TopKRerank, CisGuaranteed, NistGuaranteed, HipaaGuaranteed} \subseteq Nat \ {0}
  /\ RerankSpare \in Nat
  /\ Scores \subseteq Int /\ {NistFloor, HipaaFloor, CoverageFloor, CrossThreshold} \subseteq Int

\* The slots guaranteed to the frameworks fit into the results.
ASSUME SlotsAssumption == CisGuaranteed + NistGuaranteed + HipaaGuaranteed <= TopKRerank

First(s, n) == SubSeq(s, 1, Min({n, Len(s)}))
Room(limit, used) == IF limit > used THEN limit - used ELSE 0

\* The elements of s at some positions; before orders them: an element comes
\* after as many as there are before it.
Arranged(s, at, before) ==
  [n \in 1 .. Cardinality(at) |->
     s[CHOOSE i \in at : Cardinality({j \in at : <<j, i>> \in before}) = n - 1]]

\* In the order they have in s.
Picked(s, at) == Arranged(s, at, {p \in at \X at : p[1] < p[2]})

Among(s, set) == Picked(s, {i \in DOMAIN s : s[i] \in set})

\* The first of every group, in order.
Distinct(s, group) == Picked(s, {i \in DOMAIN s : \A j \in 1 .. i - 1 : group[s[j]] # group[s[i]]})

\* Sorted by descending score; equal scores keep their order.
Ranked(s, score) ==
  Arranged(s, DOMAIN s,
           {p \in (DOMAIN s) \X (DOMAIN s) :
              \/ score[s[p[1]]] > score[s[p[2]]]
              \/ score[s[p[1]]] = score[s[p[2]]] /\ p[1] < p[2]})

Nearest(query, set, n) == First(Among(Near[query], set), n)
Unseen(rows, seen) == Among(rows, Chunks \ ToSet(seen))

\* The rows not seen yet join the candidates.
With(seen, rows) == seen \o Unseen(rows, seen)

Open ==
  /\ stage = "idle"
  /\ stage' = "controls"
  /\ \E set \in SUBSET ToSet(ControlOrder) : mapped' = Among(ControlOrder, set)
  /\ acts' \in SUBSET DOMAIN SpecsOfFlag
  /\ sound' \in Corpora
  /\ UNCHANGED <<pool, kept, finished, broken, heard, expanded, cache, results>>

OfControl(control) == {c \in Of("cis") : ChunkOf[c].control = control}

\* The nearest chunks of each control, one control after the other.
OfEach(controls) ==
  LET found[n \in 0 .. Len(controls)] ==
        IF n = 0 THEN <<>>
        ELSE With(found[n - 1], Nearest("control", OfControl(controls[n]), TopKPerCtrl))
  IN found[Len(controls)]

PerControl ==
  /\ stage = "controls"
  /\ pool' = OfEach(mapped)
  /\ stage' = "sweep"
  /\ UNCHANGED <<sound, mapped, acts, kept, finished, broken, heard, expanded, cache, results>>

Sweep ==
  /\ stage = "sweep"
  /\ pool' = With(pool, Nearest("log", Of("cis"), TopK))
  /\ stage' = "fetch"
  /\ UNCHANGED <<sound, mapped, acts, kept, finished, broken, heard, expanded, cache, results>>

Subcategories(controls) == UNION {NistOf[k] : k \in ToSet(controls)}

\* With no signal the two most general sections stand in, so a query always
\* has one.
Sections ==
  LET specs == UNION {SpecsOfNist[n] : n \in Subcategories(mapped)} \union UNION {SpecsOfFlag[a] : a \in acts}
      named == {SectionOf[x] : x \in specs} \ {NoSection}
  IN IF named = {} THEN {"164.308", "164.312"} ELSE named

RowsOf(query) ==
  CASE query = "cis" -> Nearest("log", Of("cis"), TopK)
    [] query = "nist" -> Nearest("log", {c \in Of("nist") : ChunkOf[c].safeguard \in Subcategories(mapped)}, TopK)
    [] query = "hipaa" -> Nearest("hipaa", {c \in Of("hipaa") : ChunkOf[c].control \in Sections}, TopK)

\* A pool thread runs its query and answers or raises.
Fetch(query) ==
  /\ stage = "fetch" /\ query \notin finished
  /\ finished' = finished \union {query}
  /\ broken' \in {broken, broken \union {query}}
  /\ UNCHANGED <<sound, stage, mapped, acts, pool, kept, heard, expanded, cache, results>>

\* mutant: every answer joins the candidates as it comes.
JoinedAsItComes(query) == With(pool, RowsOf(query))

\* What the loop over as_completed does with an answer: rows of the CIS query
\* join the candidates, the others are put aside.
Joined(query) == IF query = "cis" THEN With(pool, RowsOf(query)) ELSE pool

Hear(query) ==
  /\ stage = "fetch" /\ query \in finished \ (broken \union heard)
  /\ heard' = heard \union {query}
  /\ pool' = Joined(query)
  /\ UNCHANGED <<sound, stage, mapped, acts, kept, finished, broken, expanded, cache, results>>

\* future.result() raises what its thread raised, to the caller's handler.
HearFailure ==
  /\ stage = "fetch" /\ broken \ heard # {}
  /\ stage' = "raised"
  /\ UNCHANGED <<sound, mapped, acts, pool, kept, finished, broken, heard, expanded, cache, results>>

Ingest ==
  /\ stage = "fetch" /\ heard = Frameworks
  /\ pool' = With(With(pool, RowsOf("nist")), RowsOf("hipaa"))
  /\ stage' = "filter"
  /\ UNCHANGED <<sound, mapped, acts, kept, finished, broken, heard, expanded, cache, results>>

ControlOf == [c \in Chunks |-> ChunkOf[c].control]

\* Duplicates are by safeguard, or by control and type without one.
Group == [c \in Chunks |-> IF ChunkOf[c].safeguard # "" THEN <<ChunkOf[c].safeguard>>
                           ELSE <<ChunkOf[c].control, ChunkOf[c].type>>]

Sieved == Distinct(Among(pool, sound), Group)

Filter ==
  /\ stage = "filter"
  /\ kept' = Sieved
  /\ stage' = IF kept' = <<>> THEN "recover" ELSE "cap"
  /\ UNCHANGED <<sound, mapped, acts, pool, finished, broken, heard, expanded, cache, results>>

Recovered == Unseen(Nearest("log", Chunks, 2 * TopKRerank), pool)

\* A broad query without the filter; when it fails too, nothing is returned.
Recover ==
  /\ stage = "recover"
  /\ \/ /\ kept' = Recovered
        /\ stage' = "cap"
     \/ stage' = "returned" /\ UNCHANGED kept
  /\ UNCHANGED <<sound, mapped, acts, pool, finished, broken, heard, expanded, cache, results>>

Slots == [cis |-> CisGuaranteed, nist |-> NistGuaranteed, hipaa |-> HipaaGuaranteed]

\* mutant: the cap takes the head of the list.
NoneFirm(s) == {}

\* The candidates no cap may drop: the first of each framework.
Firm(s) == UNION {ToSet(First(Among(s, Of(f)), Slots[f])) : f \in Frameworks}

Capped(s) ==
  LET limit == TopKRerank + RerankSpare
      firm == Among(s, Firm(s))
  IN IF Len(s) <= limit THEN s
     ELSE firm \o First(Among(s, Chunks \ Firm(s)), Room(limit, Len(firm)))

Cap ==
  /\ stage = "cap"
  /\ kept' = Capped(kept)
  /\ stage' = "expand"
  /\ UNCHANGED <<sound, mapped, acts, pool, finished, broken, heard, expanded, cache, results>>

\* The answer is kept for the life of the process, a failed query's empty one
\* as well.
Expand ==
  LET key == {ChunkOf[c].control : c \in ToSet(kept) \cap Of("cis")} IN
  /\ stage = "expand"
  /\ expanded' \in IF key \in DOMAIN cache THEN {cache[key]}
                   ELSE {[k \in key |-> GraphNist[k]], [k \in key |-> {}]}
  /\ cache' = IF key = {} THEN cache ELSE (key :> expanded') @@ cache
  /\ stage' = "rerank"
  /\ UNCHANGED <<sound, mapped, acts, pool, kept, finished, broken, heard, results>>

\* A chunk's own name: its safeguard, or its control when it has none.
Label == [c \in Chunks |-> IF ChunkOf[c].safeguard # "" THEN ChunkOf[c].safeguard ELSE ChunkOf[c].control]
Labelled == {c \in Chunks : Label[c] # ""}

\* The best of each safeguard, those above the floor first, up to the slots.
Filled(s, score, floor, slots) ==
  LET best == Distinct(Among(s, Labelled), Label)
      above == First(Among(best, {c \in ToSet(s) : score[c] >= floor}), slots)
  IN above \o First(Among(best, Chunks \ ToSet(above)), Room(slots, Len(above)))

\* One chunk for every mapped control, raised to the coverage floor, and the
\* others that belong to a mapped control or score above the threshold.
Covering(s) ==
  ToSet(Distinct(Among(s, {c \in Of("cis") : ChunkOf[c].control \in ToSet(mapped)}), ControlOf))
Boosted(s, score) == [c \in ToSet(s) |-> IF c \in Covering(s) THEN Max({score[c], CoverageFloor}) ELSE score[c]]
CisCombined(s, score) ==
  LET cover == Covering(s)
      others == {c \in (ToSet(s) \cap Of("cis")) \ cover :
                   ChunkOf[c].control \in ToSet(mapped) \/ score[c] >= CrossThreshold}
  IN Ranked(Among(s, cover) \o Among(s, others), Boosted(s, score))

\* One chunk of each of the first controls.
CisFilled(s) == First(Distinct(Among(s, {c \in Chunks : ControlOf[c] # ""}), ControlOf), CisGuaranteed)

Chosen(score) ==
  LET scored == Ranked(kept, score)
      worth == Boosted(scored, score)
      nist == Filled(Among(scored, Of("nist")), score, NistFloor, NistGuaranteed)
      hipaa == Filled(Among(scored, Of("hipaa")), score, HipaaFloor, HipaaGuaranteed)
      combined == CisCombined(scored, score)
      cis == CisFilled(combined)
      extra == Among(combined, Chunks \ ToSet(cis))
      cisFinal == First(cis \o extra, Room(TopKRerank, Len(nist) + Len(hipaa)))
      guaranteed == Ranked(nist \o hipaa \o cis, worth)
      rest == Ranked(Among(cisFinal, Chunks \ ToSet(guaranteed)), worth)
  IN guaranteed \o First(rest, Room(TopKRerank, Len(guaranteed)))

Rerank ==
  /\ stage = "rerank"
  /\ \E score \in [ToSet(kept) -> Scores] : results' = Chosen(score)
  /\ stage' = "returned"
  /\ UNCHANGED <<sound, mapped, acts, pool, kept, finished, broken, heard, expanded, cache>>

\* Any other database or model call of the retrieval raises.
CallFails ==
  /\ stage \in {"controls", "sweep", "recover", "rerank"}
  /\ stage' = "raised"
  /\ UNCHANGED <<sound, mapped, acts, pool, kept, finished, broken, heard, expanded, cache, results>>

Fresh ==
  /\ sound = {} /\ mapped = <<>> /\ acts = {} /\ pool = <<>> /\ kept = <<>> /\ finished = {}
  /\ broken = {} /\ heard = {} /\ expanded = <<>> /\ results = <<>>

Leave ==
  /\ stage \in {"returned", "raised"}
  /\ stage' = "idle" /\ sound' = {} /\ mapped' = <<>> /\ acts' = {} /\ pool' = <<>> /\ kept' = <<>>
  /\ finished' = {} /\ broken' = {} /\ heard' = {} /\ expanded' = <<>> /\ results' = <<>> /\ UNCHANGED cache

RetrievalInit == stage = "idle" /\ Fresh /\ cache = <<>>

RetrievalNext ==
  \/ Open \/ PerControl \/ Sweep \/ HearFailure \/ Ingest \/ Filter \/ Recover \/ Cap \/ Expand
  \/ Rerank \/ CallFails \/ Leave
  \/ \E query \in Frameworks : Fetch(query) \/ Hear(query)

RetrievalSpec == RetrievalInit /\ [][RetrievalNext]_retrievalVars

\* What the steps before the three queries and the queries find when they run
\* one after the other.
InSequence == With(With(With(OfEach(mapped), RowsOf("cis")), RowsOf("nist")), RowsOf("hipaa"))

\* The candidates, and their order, do not depend on the order in which the
\* threads answer (the as_completed loop of retrieve_cis_controls_llm): the
\* reranker's ties and the cap are decided by that order.
OrderDoesNotMatter == stage = "filter" => pool = InSequence

\* What the candidates of a framework are about
Labels(f, s) == {Label[c] : c \in ToSet(s) \cap Of(f) \cap Labelled}

\* The candidates before the cap: those that survived the filter, or those of
\* the recovery when none did; and of a framework the first ones, as many as
\* it has slots.
Offered == IF Sieved # <<>> THEN Sieved ELSE Recovered
Foremost(f) == First(Among(Offered, Of(f)), Slots[f])

\* The slots NIST and HIPAA can count on: as many as their candidates are about
\* different things; in the recovery, which removes no duplicates, as many as
\* the foremost of them are about.
Promised(f) ==
  IF Sieved # <<>> THEN Min({Slots[f], Cardinality(Labels(f, Sieved))})
  ELSE Cardinality(Labels(f, Foremost(f)))

CisControlsIn(s) == {ChunkOf[c].control : c \in ToSet(s) \cap Of("cis")}

\* However many candidates there are and however they are scored, the cap
\* before the reranker (the FRAMEWORK_FLOOR of stage 2c.5) and the choice after
\* it (the guaranteed slots of stage 3) leave NIST and HIPAA the slots they
\* can count on, and drop no mapped control that one of the foremost CIS
\* candidates is of, unless the CIS slots are full of other controls.
FrameworksServed ==
  stage = "returned" /\ results # <<>> =>
    /\ \A f \in {"nist", "hipaa"} : Cardinality(ToSet(results) \cap Of(f)) >= Promised(f)
    /\ \A k \in ToSet(mapped) \cap CisControlsIn(Foremost("cis")) :
         \/ k \in CisControlsIn(results)
         \/ Cardinality(CisControlsIn(results)) >= CisGuaranteed
    /\ Len(results) <= TopKRerank /\ IsInjective(results)

\* What the comments of stage 2c.5 say of the cap, that it bounds the time
\* 'without losing coverage' and guarantees 'minimum slots per framework'
\* (retrieval_engine.py:950, 955): a mapped control that survived the filter
\* is in the results, unless the CIS slots are full of other controls.
CoverageKept ==
  stage = "returned" /\ results # <<>> =>
    \A k \in ToSet(mapped) \cap CisControlsIn(Sieved) :
      \/ k \in CisControlsIn(results)
      \/ Cardinality(CisControlsIn(results)) >= CisGuaranteed
================================================================================
