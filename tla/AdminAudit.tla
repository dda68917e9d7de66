------------------------------- MODULE AdminAudit ------------------------------
(***************************************************************************)
(* The administrative audit log: rows numbered from 1, each carrying the   *)
(* hash of the one before.  A handler appends after it has acted, from a   *)
(* store object of its own: it reads the last row, and inserts the next    *)
(* one in a later statement, where the primary key refuses a number that   *)
(* is taken.  The handler swallows that error, and any other.  A hash is   *)
(* modelled by what it covers: the entry's content and its predecessor.    *)
(***************************************************************************)
EXTENDS Integers, FiniteSets, Sequences, SequencesExt

CONSTANTS
  Writers,     \* handlers that append at once
  Deeds,       \* what they record
  MaxEntries   \* bound on the rows

ASSUME TrailAssumption == MaxEntries \in Nat

VARIABLES
  trail,   \* number -> row, the table
  draft    \* handler -> the row it is about to insert

trailVars == <<trail, draft>>

Genesis == [what |-> "genesis", seq |-> 0]

NoDraft == [what |-> "none", seq |-> 0]

LastSeq == Cardinality(DOMAIN trail)

LastRow == IF LastSeq = 0 THEN Genesis ELSE trail[LastSeq]

Entry(what, prev) == [seq |-> prev.seq + 1, what |-> what, prev |-> prev]

\* append up to the INSERT.
ReadLast(w, what) ==
  /\ draft[w] = NoDraft
  /\ LastSeq < MaxEntries
  /\ draft' = [draft EXCEPT ![w] = Entry(what, LastRow)]
  /\ UNCHANGED trail

\* mutant: INSERT OR REPLACE
WithEntryReplacing(e) == [n \in DOMAIN trail \cup {e.seq} |-> IF n = e.seq THEN e ELSE trail[n]]

\* The INSERT; a number that is taken raises, and _record_admin passes.
WithEntry(e) == [n \in DOMAIN trail \cup {e.seq} |-> IF n \in DOMAIN trail THEN trail[n] ELSE e]

InsertEntry(w) ==
  /\ draft[w] # NoDraft
  /\ trail' = WithEntry(draft[w])
  /\ draft' = [draft EXCEPT ![w] = NoDraft]

\* The process stops, or the database raises, before the INSERT.
EntryLost(w) ==
  /\ draft[w] # NoDraft
  /\ draft' = [draft EXCEPT ![w] = NoDraft]
  /\ UNCHANGED trail

TrailInit ==
  /\ trail = <<>>
  /\ draft = [w \in Writers |-> NoDraft]

TrailNext ==
  \E w \in Writers :
    \/ \E what \in Deeds : ReadLast(w, what)
    \/ InsertEntry(w)
    \/ EntryLost(w)

TrailSpec == TrailInit /\ [][TrailNext]_trailVars

\* verify: no gap, every row linked to the one before, its hash its own.
Verifies ==
  /\ DOMAIN trail = 1..LastSeq
  /\ \A i \in DOMAIN trail :
       trail[i] = Entry(trail[i].what, IF i = 1 THEN Genesis ELSE trail[i - 1])

\* However many handlers append at once, and wherever one stops, the log
\* verifies: no row is linked to another than the one before it.
TrailVerifies == Verifies

\* The rows in the order of their numbers
Trail == [i \in 1..LastSeq |-> trail[i]]

\* The rows a log may go on with
AllowedEntries(entries) ==
  {Entry(what, IF entries = <<>> THEN Genesis ELSE Last(entries)) : what \in Deeds}

TrailPromise == INSTANCE EventStore
  WITH Entities <- {"trail"}, Allowed <- AllowedEntries, history <- [x \in {"trail"} |-> Trail]

\* "An append-only, hash-chained entry": a step adds at most one row, linked to
\* the last one as it is then, and no row is ever rewritten or removed, though a
\* handler has computed its row from a last row that may have been followed since.
RowsAreAppended == TrailPromise!Spec
================================================================================
