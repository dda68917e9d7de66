------------------------------- MODULE Collector -------------------------------
(***************************************************************************)
(* One collection of an AWS organization (collectors.py over the boto3     *)
(* client of aws_boto3.py): permissions, the pages of accounts, the count  *)
(* of the organization tree, and for each account its summary and the      *)
(* pages of its keys.  Every call may be throttled and is retried; every   *)
(* page moves a durable checkpoint; accounts open and close meanwhile; the *)
(* process may crash and the next collection resume at the checkpoint.     *)
(***************************************************************************)
EXTENDS Integers, Sequences, FiniteSets

CONSTANTS
  Accounts,     \* member accounts
  PageCount,    \* account -> pages of its keys
  MaxAttempts,  \* RetryPolicy.max_attempts
  MaxMoves,     \* bound on accounts opened and closed, collections begun
  NoPage        \* no cursor

ASSUME CollectorAssumption ==
  /\ MaxAttempts \in Nat \ {0} /\ MaxMoves \in Nat
  /\ IsFiniteSet(Accounts) /\ PageCount \in [Accounts -> Nat \ {0}]
  /\ NoPage \notin Nat

VARIABLES
  open,        \* accounts ACTIVE at the provider, in the order it lists them
  lasting,     \* of those, the ones open ever since the collection began
  run,         \* the collection: stage, account (a position in got.accounts, 0
               \* for none), cursor, attempt, and whether it began at the first
               \* page (fresh) and no account opened or closed meanwhile (steady)
  seen,        \* cursors this paginate has followed
  got,         \* [accounts, keys]: what the collection has read
  expected,    \* independent_account_count, or NoPage when the client has none
  checkpoint,  \* stage -> cursor, the durable file
  snapshot,    \* what collect returned, or NoPage
  moves

collectorVars == <<open, lasting, run, seen, got, expected, checkpoint, snapshot, moves>>

Stopped == [stage |-> "stopped", account |-> 0, cursor |-> NoPage, attempt |-> 1,
            fresh |-> TRUE, steady |-> TRUE]
Nothing == [accounts |-> <<>>, keys |-> {}]

AccountStage == "accounts"
ASSUME StagesApart == AccountStage \notin Accounts  \* an account's name is a number

Stage(k) == IF k = 0 THEN AccountStage ELSE got.accounts[k]

\* One account to a page; the pages of an account's keys are numbered.
Pages(stage) == IF stage = AccountStage THEN Len(open) ELSE PageCount[stage]

FirstPage(cursor) == IF cursor = NoPage THEN 1 ELSE cursor

\* The cursors a page may come with: the next page, none after the last,
\* or, from a provider that is at fault, one it gave before.
NextCursors(stage, page) ==
  (IF page < Pages(stage) THEN {page + 1} ELSE {NoPage}) \cup seen

Listing(accounts) == {accounts[k] : k \in DOMAIN accounts}

\* A collection without a secret to sign its manifest with is refused.
Begin(resume, secret) ==
  /\ run.stage \in {"stopped", "failed", "done"} /\ moves < MaxMoves
  /\ moves' = moves + 1
  /\ checkpoint' = IF resume THEN checkpoint ELSE <<>>
  /\ run' = [Stopped EXCEPT !.stage = IF secret THEN "permissions" ELSE "failed",
                            !.fresh = ~resume \/ checkpoint = <<>>]
  /\ lasting' = Listing(open)
  /\ seen' = {} /\ got' = Nothing /\ expected' = NoPage /\ snapshot' = NoPage
  /\ UNCHANGED open

\* RetryPolicy.run: a throttled call is made again, or gives the run up.
Throttled ==
  /\ run.stage \in {"permissions", "page", "count", "summary"}
  /\ run' = IF run.attempt < MaxAttempts THEN [run EXCEPT !.attempt = @ + 1]
            ELSE [run EXCEPT !.stage = "failed"]
  /\ UNCHANGED <<open, lasting, seen, got, expected, checkpoint, snapshot, moves>>

\* Where paginate starts: the checkpoint's cursor of that stage.
Opened(stage) ==
  [run EXCEPT !.stage = "page", !.attempt = 1,
              !.cursor = IF stage \in DOMAIN checkpoint THEN checkpoint[stage] ELSE NoPage]

CheckPermissions(granted) ==
  /\ run.stage = "permissions"
  /\ run' = IF granted THEN Opened(AccountStage) ELSE [run EXCEPT !.stage = "failed"]
  /\ seen' = {}
  /\ UNCHANGED <<open, lasting, got, expected, checkpoint, snapshot, moves>>

ReadPage(page) ==
  IF run.account = 0
    THEN [got EXCEPT !.accounts = IF page <= Len(open) THEN Append(@, open[page]) ELSE @]
    ELSE [got EXCEPT !.keys = @ \cup {<<Stage(run.account), page>>}]

\* paginate: no cursor ends the stage, a cursor followed before ends the run.
AfterPage(cursor) ==
  CASE cursor = NoPage ->
         [run EXCEPT !.stage = IF run.account = 0 THEN "count" ELSE "next", !.attempt = 1]
    [] cursor \in seen -> [run EXCEPT !.stage = "failed"]
    [] OTHER -> [run EXCEPT !.cursor = cursor, !.attempt = 1]

FetchPage(cursor) ==
  /\ run.stage = "page"
  /\ LET stage == Stage(run.account)
         page == FirstPage(run.cursor)
     IN /\ cursor \in NextCursors(stage, page)
        /\ got' = ReadPage(page)
        /\ checkpoint' = [s \in DOMAIN checkpoint \cup {stage} |->
                            IF s = stage THEN cursor ELSE checkpoint[s]]
  /\ run' = AfterPage(cursor)
  /\ seen' = IF cursor = NoPage THEN {} ELSE seen \cup {cursor}
  /\ UNCHANGED <<open, lasting, expected, snapshot, moves>>

\* independent_account_count walks the organization tree, another path to
\* the same accounts; FakeAwsClient may offer none.
CountTree(offered) ==
  /\ run.stage = "count"
  /\ expected' = IF offered THEN Len(open) ELSE NoPage
  /\ run' = [run EXCEPT !.stage = "next"]
  /\ UNCHANGED <<open, lasting, seen, got, checkpoint, snapshot, moves>>

\* For each account listed, in order: its summary, then its keys.
NextAccount ==
  /\ run.stage = "next" /\ run.account < Len(got.accounts)
  /\ run' = [run EXCEPT !.stage = "summary", !.account = @ + 1, !.attempt = 1]
  /\ UNCHANGED <<open, lasting, seen, got, expected, checkpoint, snapshot, moves>>

Summarise ==
  /\ run.stage = "summary"
  /\ run' = Opened(Stage(run.account))
  /\ seen' = {}
  /\ UNCHANGED <<open, lasting, got, expected, checkpoint, snapshot, moves>>

\* mutant: the reconciliation is recorded and not enforced
ReconciledAnyway == TRUE

Reconciled == expected # NoPage => Len(got.accounts) = expected

Finish ==
  /\ run.stage = "next" /\ run.account = Len(got.accounts)
  /\ IF Reconciled
       THEN /\ run' = [run EXCEPT !.stage = "done"]
            /\ snapshot' = got
       ELSE run' = [run EXCEPT !.stage = "failed"] /\ UNCHANGED snapshot
  /\ UNCHANGED <<open, lasting, seen, got, expected, checkpoint, moves>>

Busy == {"permissions", "page", "count", "next", "summary"}

\* An account is closed or suspended: later pages move up by one.
Close(k) ==
  /\ moves < MaxMoves /\ k \in 1..Len(open)
  /\ moves' = moves + 1
  /\ open' = SubSeq(open, 1, k - 1) \o SubSeq(open, k + 1, Len(open))
  /\ lasting' = lasting \ {open[k]}
  /\ run' = [run EXCEPT !.steady = FALSE]
  /\ UNCHANGED <<seen, got, expected, checkpoint, snapshot>>

\* One is created or invited, wherever the provider lists it.
Join(k, account) ==
  /\ moves < MaxMoves /\ k \in 1..Len(open) + 1 /\ account \notin Listing(open)
  /\ moves' = moves + 1
  /\ open' = SubSeq(open, 1, k - 1) \o <<account>> \o SubSeq(open, k, Len(open))
  /\ run' = [run EXCEPT !.steady = FALSE]
  /\ UNCHANGED <<lasting, seen, got, expected, checkpoint, snapshot>>

Crash ==
  /\ run.stage \in Busy
  /\ run' = Stopped
  /\ UNCHANGED <<open, lasting, seen, got, expected, checkpoint, snapshot, moves>>

\* Some of the accounts are open, in any order.
Openings ==
  {accounts \in UNION {[1..n -> Accounts] : n \in 0..Cardinality(Accounts)} :
     Cardinality(Listing(accounts)) = Len(accounts)}

CollectorInit ==
  /\ open \in Openings /\ lasting = {}
  /\ run = Stopped /\ seen = {} /\ got = Nothing /\ expected = NoPage
  /\ checkpoint = <<>> /\ snapshot = NoPage /\ moves = 0

CollectorNext ==
  \/ \E resume, secret \in BOOLEAN : Begin(resume, secret)
  \/ \E granted \in BOOLEAN : CheckPermissions(granted)
  \/ \E cursor \in 1..Cardinality(Accounts) \cup {NoPage} : FetchPage(cursor)
  \/ \E offered \in BOOLEAN : CountTree(offered)
  \/ NextAccount \/ Summarise \/ Finish \/ Throttled \/ Crash
  \/ \E k \in 1..Len(open) : Close(k)
  \/ \E k \in 1..Len(open) + 1, account \in Accounts : Join(k, account)

CollectorSpec == CollectorInit /\ [][CollectorNext]_collectorVars

\* A snapshot whose population the organization tree counted lists every
\* account, if none opened or closed meanwhile; and when the collection began
\* at the first page it holds every key page of each account it lists,
\* whatever was throttled, whatever cursors were repeated, and whoever came
\* and went.
SnapshotIsWhole ==
  snapshot # NoPage =>
    /\ expected # NoPage /\ run.steady => Listing(open) \subseteq Listing(snapshot.accounts)
    /\ run.fresh =>
         \A n \in 1..Len(snapshot.accounts) : \A page \in 1..PageCount[snapshot.accounts[n]] :
           <<snapshot.accounts[n], page>> \in snapshot.keys

\* What collectors.py:16 promises, 'no partial, misleading snapshot': one
\* whose population was reconciled lists each account that was open from the
\* beginning of the collection to its end.  Counts alone are compared.
LastingAreListed ==
  snapshot # NoPage /\ expected # NoPage => lasting \subseteq Listing(snapshot.accounts)

\* What collectors.py:17 promises, 'every page is followed to completion': a
\* snapshot holds every key page of each account it lists, however the
\* collection began.
KeysAreWhole ==
  snapshot # NoPage =>
    \A n \in 1..Len(snapshot.accounts) : \A page \in 1..PageCount[snapshot.accounts[n]] :
      <<snapshot.accounts[n], page>> \in snapshot.keys
================================================================================
