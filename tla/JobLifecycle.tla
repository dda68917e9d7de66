------------------------------ MODULE JobLifecycle -----------------------------
(***************************************************************************)
(* What the work queue promises of a job, without rows, leases or clocks:  *)
(* a submitted job waits, is leased to an executor, and leaves that lease  *)
(* either back to waiting or for one of two ends.  It is DONE only after   *)
(* an execution that ran to its end, an execution happens only under a     *)
(* lease, and neither end is ever left.  (The promise is at least once: a  *)
(* job may run again after a run whose completion was lost.)               *)
(***************************************************************************)
CONSTANT Jobs

VARIABLES
  phase,  \* job -> where it stands
  ran     \* the jobs with an execution that ran to its end

Phases == {"absent", "waiting", "leased", "done", "dead"}

LTypeOK ==
  /\ phase \in [Jobs -> Phases]
  /\ ran \subseteq Jobs

LInit ==
  /\ phase = [j \in Jobs |-> "absent"]
  /\ ran = {}

Move(j, from, to) ==
  /\ phase[j] = from
  /\ phase' = [phase EXCEPT ![j] = to]

Submit(j) == Move(j, "absent", "waiting") /\ UNCHANGED ran

Lease(j) == Move(j, "waiting", "leased") /\ UNCHANGED ran

Run(j) ==
  /\ phase[j] = "leased"
  /\ ran' = ran \cup {j}
  /\ UNCHANGED phase

\* Leases are given back one by one (a failed job) or together (a sweep).
Return(S) ==
  /\ \A j \in S : phase[j] = "leased"
  /\ phase' = [j \in Jobs |-> IF j \in S THEN "waiting" ELSE phase[j]]
  /\ UNCHANGED ran

Finish(j) == j \in ran /\ Move(j, "leased", "done") /\ UNCHANGED ran

Bury(j) == Move(j, "leased", "dead") /\ UNCHANGED ran

LNext ==
  \/ \E j \in Jobs : Submit(j) \/ Lease(j) \/ Run(j) \/ Finish(j) \/ Bury(j)
  \/ \E S \in SUBSET Jobs : Return(S)

LSpec == LInit /\ [][LNext]_<<phase, ran>>
================================================================================
