------------------------------ MODULE DeadLetters ------------------------------
(***************************************************************************)
(* The dead letter queue of the log pipeline: three files, each replaced   *)
(* atomically but one after the other, behind one lock; a batch run that   *)
(* submits what failed; and a retry that takes the whole first queue into  *)
(* memory before it works on it.  A crash may come between any two files.  *)
(***************************************************************************)
EXTENDS Integers, Sequences, FiniteSets

CONSTANTS
  Entries,       \* entries of LOG_INPUT_PATH
  MaxCrashes

ASSUME CrashAssumption == MaxCrashes \in Nat

VARIABLES
  queues,       \* file name -> logs, in memory
  files,        \* file name -> logs, on disk
  saving,       \* the files _save_all has still to replace; the lock is held
  todo,         \* logs taken by retry_all and not run yet
  hand,         \* logs taken by retry_all whose outcome no file shows yet
  recovered,    \* of those, the ones whose retry was clean
  fate,         \* log -> where the batch run, the retry or the expert left it
  interrupted,  \* logs that were in hand at a crash
  crashes

letterVars == <<queues, files, saving, todo, hand, recovered, fate, interrupted, crashes>>

Attempt1 == "attempt_1"
Attempt2 == "attempt_2"
Manual == "manual"
SaveOrder == <<Attempt1, Attempt2, Manual>>

Locked == saving # <<>>

\* What run_full_pipeline may return: a failure stage, a result without
\* findings, or a clean result.
Outcomes == {"stage", "empty", "clean"}

\* _is_failure
IsFailure(outcome) == outcome # "clean"

\* complete_log_pipeline_run looks at the stage only.
RunLog(log, outcome) ==
  /\ fate[log] = "new" /\ ~Locked
  /\ IF outcome = "stage"
       THEN /\ queues' = [queues EXCEPT ![Attempt1] = @ \cup {log}]
            /\ saving' = SaveOrder
            /\ fate' = [fate EXCEPT ![log] = "submitting"]
       ELSE /\ fate' = [fate EXCEPT ![log] = "succeeded"]
            /\ UNCHANGED <<queues, saving>>
  /\ UNCHANGED <<files, todo, hand, recovered, interrupted, crashes>>

SaveNext ==
  /\ Locked
  /\ files' = [files EXCEPT ![Head(saving)] = queues[Head(saving)]]
  /\ saving' = Tail(saving)
  /\ fate' = IF Len(saving) > 1 THEN fate
             ELSE [log \in Entries |-> IF fate[log] = "submitting" THEN "queued" ELSE fate[log]]
  /\ hand' = IF Len(saving) > 1 THEN hand ELSE hand \ queues[Manual]
  /\ UNCHANGED <<queues, todo, recovered, interrupted, crashes>>

TakeAll ==
  /\ ~Locked /\ hand = {}
  /\ queues[Attempt1] # {}
  /\ todo' = queues[Attempt1] /\ hand' = queues[Attempt1]
  /\ queues' = [queues EXCEPT ![Attempt1] = {}]
  /\ saving' = SaveOrder
  /\ UNCHANGED <<files, recovered, fate, interrupted, crashes>>

\* mutant: the retry's failure is filed under attempt_2 only
FiledOnce(log) == [queues EXCEPT ![Attempt2] = @ \cup {log}]

FailedAgain(log) == [queues EXCEPT ![Attempt2] = @ \cup {log}, ![Manual] = @ \cup {log}]

Retry(log, outcome) ==
  /\ ~Locked /\ log \in todo
  /\ todo' = todo \ {log}
  /\ IF IsFailure(outcome)
       THEN /\ queues' = FailedAgain(log)
            /\ saving' = SaveOrder
            /\ UNCHANGED recovered
       ELSE /\ recovered' = recovered \cup {log}
            /\ UNCHANGED <<queues, saving>>
  /\ UNCHANGED <<files, hand, fate, interrupted, crashes>>

\* run_dlq_and_malformed writes the recoveries once all retries are done.
WriteRecoveries ==
  /\ ~Locked /\ todo = {} /\ hand # {}
  /\ fate' = [log \in Entries |-> IF log \in recovered THEN "recovered" ELSE fate[log]]
  /\ hand' = {} /\ recovered' = {}
  /\ UNCHANGED <<queues, files, saving, todo, interrupted, crashes>>

ClearManualReview ==
  /\ ~Locked /\ queues[Attempt2] \cup queues[Manual] # {}
  /\ fate' = [log \in Entries |-> IF log \in queues[Manual] THEN "reviewed" ELSE fate[log]]
  /\ queues' = [queues EXCEPT ![Attempt2] = {}, ![Manual] = {}]
  /\ saving' = SaveOrder
  /\ UNCHANGED <<files, todo, hand, recovered, interrupted, crashes>>

\* The next process loads what the files hold.
CrashAndLoad ==
  /\ crashes < MaxCrashes
  /\ crashes' = crashes + 1
  /\ queues' = files
  /\ saving' = <<>> /\ todo' = {} /\ hand' = {} /\ recovered' = {}
  /\ interrupted' = interrupted \cup hand
  /\ fate' = [log \in Entries |-> IF fate[log] = "submitting" THEN "new" ELSE fate[log]]
  /\ UNCHANGED files

LetterInit ==
  /\ queues = [f \in {Attempt1, Attempt2, Manual} |-> {}] /\ files = queues
  /\ saving = <<>> /\ todo = {} /\ hand = {} /\ recovered = {}
  /\ fate = [log \in Entries |-> "new"]
  /\ interrupted = {} /\ crashes = 0

LetterNext ==
  \/ \E log \in Entries, outcome \in Outcomes : RunLog(log, outcome) \/ Retry(log, outcome)
  \/ SaveNext \/ TakeAll \/ WriteRecoveries \/ ClearManualReview
  \/ CrashAndLoad

LetterSpec == LetterInit /\ [][LetterNext]_letterVars

\* A log whose failure was queued stays in a file an operator or a retry
\* looks at until it is recovered or reviewed, whatever the crashes, but
\* for those that a retry had in memory when the process died.
OnlyRetriesAreLost ==
  \A log \in Entries :
    fate[log] = "queued" =>
      log \in files[Attempt1] \cup files[Manual] \cup hand \cup interrupted

\* "All three queues are persisted to disk as JSON so a kernel crash loses nothing"
\* (pipeline.py:490): a log whose failure was queued is in a file, or in the hands
\* of a retry that is alive, until it is recovered or reviewed.
NothingIsLost ==
  \A log \in Entries :
    fate[log] = "queued" => log \in files[Attempt1] \cup files[Manual] \cup hand
================================================================================
