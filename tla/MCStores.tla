-------------------------------- MODULE MCStores --------------------------------
(***************************************************************************)
(* The stores of a tenant, for TLC: the job queue, the files of reports    *)
(* and evidence, the findings and the administrative records, each worked  *)
(* on by several callers at once, and the gate in front.  Each store has a *)
(* file or a database of its own, so their interleavings are not explored  *)
(* together: a behaviour picks one store and runs it, and what it cannot   *)
(* show is only that two stores that share nothing do not disturb one      *)
(* another.                                                                *)
(***************************************************************************)
EXTENDS WorkQueue, MCReportPipeline, FindingLifecycle, Attestation, AuditPeriod, AdminAudit,
        LegalHold, ControlWorkspace, ScimDirectory, Access, RateLimiter

VARIABLE store  \* the store this behaviour runs

StoreNames == {"queue", "reports", "findings", "attestations", "audit", "trail", "holds",
               "workspace", "directory", "access", "limiter"}

Others(s) ==
  /\ s # "queue" => UNCHANGED qvars
  /\ s # "reports" => UNCHANGED vars
  /\ s # "findings" => UNCHANGED fvars
  /\ s # "attestations" => UNCHANGED attVars
  /\ s # "audit" => UNCHANGED apVars
  /\ s # "trail" => UNCHANGED trailVars
  /\ s # "holds" => UNCHANGED holdVars
  /\ s # "workspace" => UNCHANGED workspaceVars
  /\ s # "directory" => UNCHANGED scimVars
  /\ s # "access" => UNCHANGED accessVars
  /\ s # "limiter" => UNCHANGED limiterVars

StoresInit ==
  /\ store \in StoreNames
  /\ Init /\ ReportsInit /\ FInit /\ AttInit /\ ApInit /\ TrailInit /\ HoldInit
  /\ WorkspaceInit /\ ScimInit /\ AccessInit /\ LimiterInit
  /\ store # "attestations" => required = 1  \* any one value will do there

Run(s, step) == store = s /\ step /\ Others(s) /\ UNCHANGED store

StoresNext ==
  \/ Run("queue", Next)
  \/ Run("reports", ReportsNext)
  \/ Run("findings", FNext)
  \/ Run("attestations", AttNext)
  \/ Run("audit", ApNext)
  \/ Run("trail", TrailNext)
  \/ Run("holds", HoldNext)
  \/ Run("workspace", WorkspaceNext)
  \/ Run("directory", ScimNext)
  \/ Run("access", AccessNext)
  \/ Run("limiter", LimiterNext)

storesVars ==
  <<qvars, vars, fvars, attVars, apVars, trailVars, holdVars, workspaceVars,
    scimVars, accessVars, limiterVars, store>>

StoresSpec == StoresInit /\ [][StoresNext]_storesVars

\* One subject of each role and one of a role nobody defined, in two tenants.
MCRoleOf == [s \in Subjects |-> s]
MCHomeOf == [s \in Subjects |-> IF s \in {"mssp", "intern"} THEN "globex" ELSE "acme"]

\* Jobs, workers, processes and requests are alike.
CallersAlike ==
  UNION {Permutations(s) : s \in {JobIds, Workers, Procs, Requests}}
================================================================================
