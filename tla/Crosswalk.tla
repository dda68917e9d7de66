------------------------------- MODULE Crosswalk -------------------------------
(***************************************************************************)
(* The crosswalk database furix_det.  Two ingests build it from the same   *)
(* framework: the one of the workbook, in five transactions or more, and   *)
(* the one of the JSON, in one; either may crash and be run again.  Every   *)
(* process of the engine reads the tables once, when it imports            *)
(* db_connections, and keeps what it read.                                 *)
(***************************************************************************)
EXTENDS Integers, Sequences, FiniteSets

CONSTANTS
  Sheet,      \* the framework's controls, in the order of the rows
  MapsTo,     \* control -> [cis, nist, hipaaSec, hipaaAdmin, pci] sets of ids
  BatchSize,  \* BATCH_SIZE
  MaxIngests, \* bound on ingests begun
  NoTable     \* the table does not exist

ASSUME CrosswalkAssumption == BatchSize \in Nat \ {0} /\ MaxIngests \in Nat

VARIABLES
  scf,     \* number of rows of Sheet in scf_controls
  tables,  \* name -> set of <<left, right, scf control>>: pairs with provenance
  ingest,  \* where the workbook's ingest is
  loaded,  \* what the last process to start keeps: [source, cis, hipaa, pci]
  ingests

crosswalkVars == <<scf, tables, ingest, loaded, ingests>>

Rows(n) == {Sheet[k] : k \in 1..n}
AllRows == Rows(Len(Sheet))

\* The pairs of ids that one control maps to both sides of, each with the
\* control it comes from.
JoinedBy(controls, left, right) ==
  UNION {{<<l, r, c>> : l \in left[c], r \in right[c]} : c \in controls}

Cis == [c \in AllRows |-> MapsTo[c].cis]
Nist == [c \in AllRows |-> MapsTo[c].nist]
Pci == [c \in AllRows |-> MapsTo[c].pci]
HipaaSec == [c \in AllRows |-> MapsTo[c].hipaaSec]
\* The workbook's ingest merges both columns of references.
HipaaBoth == [c \in AllRows |-> MapsTo[c].hipaaSec \cup MapsTo[c].hipaaAdmin]

CreateTables ==
  /\ ingest = "idle" /\ ingests < MaxIngests
  /\ ingests' = ingests + 1
  /\ scf' = 0
  /\ tables' = [tables EXCEPT !["cis"] = {}, !["hipaa"] = {}]
  /\ ingest' = "rows"
  /\ UNCHANGED loaded

FlushBatch ==
  /\ ingest = "rows" /\ scf < Len(Sheet)
  /\ scf' = IF scf + BatchSize < Len(Sheet) THEN scf + BatchSize ELSE Len(Sheet)
  /\ UNCHANGED <<tables, ingest, loaded, ingests>>

\* mutant: main builds the pairs without waiting for the sheet's last row
AnyRows == scf > 0

SheetRead == scf = Len(Sheet)

BuildCis ==
  /\ ingest = "rows" /\ SheetRead
  /\ tables' = [tables EXCEPT !["cis"] = JoinedBy(Rows(scf), Cis, Nist)]
  /\ ingest' = "cis"
  /\ UNCHANGED <<scf, loaded, ingests>>

BuildHipaa ==
  /\ ingest = "cis"
  /\ tables' = [tables EXCEPT !["hipaa"] = JoinedBy(Rows(scf), HipaaBoth, Nist)]
  /\ ingest' = "idle"
  /\ UNCHANGED <<scf, loaded, ingests>>

IngestFails ==
  /\ ingest # "idle"
  /\ ingest' = "idle"
  /\ UNCHANGED <<scf, tables, loaded, ingests>>

\* ingest_scf_json: drop, create and fill the three tables, then commit.
IngestJson ==
  /\ ingest = "idle" /\ ingests < MaxIngests
  /\ ingests' = ingests + 1
  /\ tables' = [cis |-> JoinedBy(AllRows, Cis, Nist), hipaa |-> JoinedBy(AllRows, HipaaSec, Nist),
                pci |-> JoinedBy(AllRows, Cis, Pci)]
  /\ UNCHANGED <<scf, ingest, loaded>>

Pairs(rows) == {<<row[1], row[2]>> : row \in rows}

\* _load_scf_crosswalks: the tables, when the database answers for both of
\* the first two (cis_to_pci may be missing); else the JSON file; else none.
Load(reachable, fileThere) ==
  /\ loaded' =
       IF reachable /\ tables["cis"] # NoTable /\ tables["hipaa"] # NoTable
         THEN [source |-> "tables", cis |-> Pairs(tables["cis"]), hipaa |-> Pairs(tables["hipaa"]),
               pci |-> IF tables["pci"] = NoTable THEN {} ELSE Pairs(tables["pci"])]
         ELSE IF fileThere
         THEN [source |-> "file", cis |-> Pairs(JoinedBy(AllRows, Cis, Nist)),
               hipaa |-> Pairs(JoinedBy(AllRows, HipaaSec, Nist)),
               pci |-> Pairs(JoinedBy(AllRows, Cis, Pci))]
         ELSE [source |-> "none", cis |-> {}, hipaa |-> {}, pci |-> {}]
  /\ UNCHANGED <<scf, tables, ingest, ingests>>

CrosswalkInit ==
  /\ scf = 0
  /\ tables = [t \in {"cis", "hipaa", "pci"} |-> NoTable]
  /\ ingest = "idle"
  /\ loaded = [source |-> "none", cis |-> {}, hipaa |-> {}, pci |-> {}]
  /\ ingests = 0

CrosswalkNext ==
  \/ CreateTables \/ FlushBatch \/ BuildCis \/ BuildHipaa \/ IngestFails \/ IngestJson
  \/ \E reachable, fileThere \in BOOLEAN : Load(reachable, fileThere)

CrosswalkSpec == CrosswalkInit /\ [][CrosswalkNext]_crosswalkVars

\* Wherever an ingest stopped, and whichever came before or after it, a
\* crosswalk a process has loaded is empty or has every pair the framework
\* has, and no other: never the pairs of the rows read so far.
LoadIsWhole ==
  /\ loaded.cis \in {{}, Pairs(JoinedBy(AllRows, Cis, Nist))}
  /\ loaded.hipaa \in {{}, Pairs(JoinedBy(AllRows, HipaaSec, Nist)), Pairs(JoinedBy(AllRows, HipaaBoth, Nist))}

\* What db_connections.py:137 says of the fallback, that the JSON file stands in
\* 'when the DB isn't populated': a process that keeps what the tables held
\* has pairs of both crosswalks, as the framework has.
UnpopulatedFallsBack ==
  loaded.source = "tables" =>
    /\ Pairs(JoinedBy(AllRows, Cis, Nist)) # {} => loaded.cis # {}
    /\ Pairs(JoinedBy(AllRows, HipaaSec, Nist)) # {} => loaded.hipaa # {}
================================================================================
