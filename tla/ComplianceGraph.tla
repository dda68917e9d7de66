---------------------------- MODULE ComplianceGraph ----------------------------
(***************************************************************************)
(* The knowledge base setup_ingestion.py builds: a graph, one autocommitted *)
(* statement at a time, and the table of text chunks, one committed batch   *)
(* at a time.  A statement that fails is printed and skipped, the script    *)
(* may stop anywhere and be run again from the start, and the engine reads *)
(* graph and table all the while.                                          *)
(***************************************************************************)
EXTENDS Integers, Sequences, FiniteSets

CONSTANTS
  CisControls, SafeguardsOf,  \* control_names, safeguard_counts
  Related,                    \* related_pairs, HIPAA_TO_CIS
  CisNist, HipaaNist,         \* the loaded crosswalks: pairs of ids
  Categories,                 \* NIST subcategory -> its category
  HipaaSpecs,                 \* HIPAA_SPEC_REGISTRY's codes
  Size, Overlap, MinPiece,    \* CHUNK_SIZE, CHUNK_OVERLAP, shortest piece kept
  ChunkBatch,                 \* BATCH: chunks embedded, inserted and committed together
  Lengths,                    \* lengths a section of the texts may have
  MaxRuns, MaxSkips           \* bounds on setups begun, on statements that fail

ASSUME ChunkAssumption ==
  /\ Size \in Nat /\ Overlap \in Nat /\ MinPiece \in Nat /\ MaxRuns \in Nat /\ MaxSkips \in Nat
  /\ MinPiece <= Overlap /\ Overlap < Size /\ ChunkBatch \in Nat \ {0}
  /\ Lengths \subseteq Nat

\* The sources number their entries apart: CIS, the CFR sections, the specs.
ASSUME SourcesApart ==
  /\ CisControls \cap {pair[1] : pair \in HipaaNist} = {}
  /\ HipaaSpecs \cap {pair[1] : pair \in HipaaNist} = {}
  /\ \A c \in CisControls :
       /\ SafeguardsOf[c] \cap ({pair[1] : pair \in HipaaNist} \cup HipaaSpecs) = {}
       /\ \A d \in CisControls \ {c} : SafeguardsOf[c] \cap SafeguardsOf[d] = {}

VARIABLES
  position,  \* statements of Script done or skipped; 0 when the setup is not running
  vertices,  \* <<label, id, copy>>
  links,     \* <<label of the edge, vertex, vertex>>
  chunks,    \* the section chunked last: its length, the pieces committed and
             \* those still to insert
  setups, skips

graphVars == <<position, vertices, links, chunks, setups, skips>>

Ids(pairs, side) == {pair[side] : pair \in pairs}

KnownSubcategories == {n \in Ids(CisNist, 2) \cup Ids(HipaaNist, 2) : n \in DOMAIN Categories}
NistNodes == KnownSubcategories \cup {Categories[n] : n \in KnownSubcategories}
HipaaSections == Ids(HipaaNist, 1)

\* The vertices each step of the script creates, and the links it makes
\* between vertices of the ids it names.
Make(label, ids) == [make |-> {<<label, id>> : id \in ids}, link |-> {}]
Link(label, from, to, pairs) ==
  [make |-> {},
   link |-> {[label |-> label, from |-> <<from, pair[1]>>, to |-> <<to, pair[2]>>] : pair \in pairs}]

CisScript == <<
  Make("Control", CisControls),
  Make("Safeguard", UNION {SafeguardsOf[c] : c \in CisControls}),
  Link("HAS_SAFEGUARD", "Control", "Safeguard",
       UNION {{<<c, s>> : s \in SafeguardsOf[c]} : c \in CisControls}),
  Link("RELATED_TO", "Control", "Control", {p \in Related : p[1] \in CisControls}) >>

NistScript == <<
  Make("NISTCategory", NistNodes),
  Link("MAPS_TO", "Control", "NISTCategory", CisNist) >>

HipaaScript == <<
  Make("Control", HipaaSections),
  Make("Safeguard", HipaaSections),
  Link("HAS_SAFEGUARD", "Control", "Safeguard", {<<s, s>> : s \in HipaaSections}),
  Link("MAPS_TO", "Safeguard", "NISTCategory", HipaaNist),
  Link("RELATED_TO", "Control", "Control", {p \in Related : p[1] \notin CisControls}),
  Make("Safeguard", HipaaSpecs) >>

Script == CisScript \o NistScript \o HipaaScript

Running == position > 0

\* mutant: create_graph on top of what is there
Kept(graph) == graph

\* drop_graph, then create_graph and its labels.
Dropped(graph) == {}

SetupAgeGraph ==
  /\ ~Running /\ setups < MaxRuns
  /\ setups' = setups + 1
  /\ vertices' = Dropped(vertices) /\ links' = Dropped(links)
  /\ position' = 1
  /\ UNCHANGED <<chunks, skips>>

Copies(v) == {w \in vertices : <<w[1], w[2]>> = v}

\* CREATE makes another vertex, whatever is there.
Created(v) == <<v[1], v[2], Cardinality(Copies(v)) + 1>>

\* MATCH ... CREATE links every copy of the one id to every copy of the
\* other, and does nothing when either is missing.
Linked(l) == {<<l.label, a, b>> : a \in Copies(l.from), b \in Copies(l.to)}

Current == IF position \in 1..Len(Script) THEN Script[position] ELSE Make("Control", {})

\* One step of the script, less the statements run_cypher skips.
Step(unmade, unlinked) ==
  /\ position \in 1..Len(Script)
  /\ vertices' = vertices \cup {Created(v) : v \in Current.make \ unmade}
  /\ links' = links \cup UNION {Linked(l) : l \in Current.link \ unlinked}
  /\ position' = position + 1
  /\ skips' = skips + Cardinality(unmade) + Cardinality(unlinked)
  /\ skips' <= MaxSkips
  /\ UNCHANGED <<chunks, setups>>

\* mutant: the next window starts where the last one ended, and then some
Skipping(len) == {k * (Size + Overlap) : k \in 0..len}

\* _sliding_chunks: the pieces a text of that length is cut into, blanks at
\* the ends of a piece left aside.
Starts(len) == {k * (Size - Overlap) : k \in 0..len}

Pieces(len) ==
  {p \in {<<a, IF a + Size < len THEN a + Size ELSE len>> : a \in {s \in Starts(len) : s < len}} :
     p[2] - p[1] > MinPiece}

\* smart_chunk keeps a section that fits whole; the chunks of the HIPAA
\* rule are one to a specification.
PiecesOf(framework, len) ==
  CASE framework = "nist" -> Pieces(len)
    [] framework = "cis" -> IF len <= Size THEN {<<0, len>>} ELSE Pieces(len)
    [] framework = "hipaa" -> {<<0, len>>}

\* A section between two headings that is too short is no section.
IsSection(framework, len) ==
  CASE framework = "nist" -> len > MinPiece + 1
    [] framework = "cis" -> len > MinPiece + 2
    [] framework = "hipaa" -> len > 0

NoText == [len |-> 0, pieces |-> {}, todo |-> {}]

\* DROP TABLE and CREATE TABLE are one transaction.
CreateChunks ==
  /\ position = Len(Script) + 1
  /\ chunks' = NoText
  /\ position' = position + 1
  /\ UNCHANGED <<vertices, links, setups, skips>>

SplitSection(framework, len) ==
  /\ position = Len(Script) + 2 /\ chunks.todo = {}
  /\ IsSection(framework, len)
  /\ chunks' = [len |-> len, pieces |-> {}, todo |-> PiecesOf(framework, len)]
  /\ UNCHANGED <<position, vertices, links, setups, skips>>

FirstPieces(room) == {p \in chunks.todo : Cardinality({q \in chunks.todo : q[1] < p[1]}) < room}

\* One commit.  The first one of a section has the room that the pieces of
\* the sections before it leave in the batch.
InsertBatch(room) ==
  /\ position = Len(Script) + 2 /\ chunks.todo # {}
  /\ room < ChunkBatch => chunks.pieces = {}
  /\ chunks' = [chunks EXCEPT !.pieces = @ \cup FirstPieces(room), !.todo = @ \ FirstPieces(room)]
  /\ UNCHANGED <<position, vertices, links, setups, skips>>

BuildIndex ==
  /\ position = Len(Script) + 2 /\ chunks.todo = {}
  /\ position' = 0
  /\ UNCHANGED <<vertices, links, chunks, setups, skips>>

SetupStops ==
  /\ Running
  /\ position' = 0
  /\ UNCHANGED <<vertices, links, chunks, setups, skips>>

GraphInit ==
  /\ position = 0 /\ vertices = {} /\ links = {} /\ setups = 0 /\ skips = 0
  /\ chunks = NoText

\* What a step may lose: nothing, or one statement.
Losses(statements) == {{}} \cup {{x} : x \in statements}

GraphNext ==
  \/ SetupAgeGraph
  \/ \E unmade \in Losses(Current.make), unlinked \in Losses(Current.link) :
       Step(unmade, unlinked)
  \/ CreateChunks \/ BuildIndex \/ SetupStops
  \/ \E framework \in {"cis", "nist", "hipaa"}, len \in Lengths : SplitSection(framework, len)
  \/ \E room \in 1..ChunkBatch : InsertBatch(room)

GraphSpec == GraphInit /\ [][GraphNext]_graphVars

\* However often the setup was stopped and run again, and whatever it
\* skipped, no id has two vertices of one label: a second one would double
\* every link that a MATCH makes, and every answer drawn from it.
NoTwins == \A v \in vertices : v[3] = 1

\* Whatever batch was committed last, and wherever the setup stopped: the
\* pieces in the table leave out no character of a section up to the first
\* piece that is still missing; a last piece too short to be kept lies within
\* the one before.
PiecesCover ==
  \A character \in 0..chunks.len - 1 :
    (\A missing \in chunks.todo : character < missing[1]) =>
      \E p \in chunks.pieces : p[1] <= character /\ character < p[2]
================================================================================
