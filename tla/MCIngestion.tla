------------------------------ MODULE MCIngestion ------------------------------
(***************************************************************************)
(* How data comes in and is evaluated, for TLC: background jobs, the dead  *)
(* letters of a batch run, a collection, the two builds of reference data, *)
(* the alerts of an ingest, the phases of the pipeline for one log and the *)
(* retrieval of guidance.  They have separate stores, or none, so a        *)
(* behaviour picks one and runs it.                                        *)
(***************************************************************************)
EXTENDS JobManager, DeadLetters, Collector, Crosswalk, ComplianceGraph, Alerts,
        MCEvaluation

VARIABLE part  \* what this behaviour runs

Parts == {"jobs", "letters", "collection", "crosswalk", "graph", "alerts", "event",
          "retrieval"}

Elsewhere(p) ==
  /\ p # "jobs" => UNCHANGED jobVars
  /\ p # "letters" => UNCHANGED letterVars
  /\ p # "collection" => UNCHANGED collectorVars
  /\ p # "crosswalk" => UNCHANGED crosswalkVars
  /\ p # "graph" => UNCHANGED graphVars
  /\ p # "alerts" => UNCHANGED alertVars
  /\ p # "event" => UNCHANGED eventVars
  /\ p # "retrieval" => UNCHANGED retrievalVars

IngestionInit ==
  /\ part \in Parts
  /\ JobInit /\ LetterInit /\ CollectorInit /\ CrosswalkInit /\ GraphInit /\ AlertInit
  /\ EventInit /\ RetrievalInit
  /\ part # "collection" => open = <<>>  \* the other parts do not look at it

Only(p, step) == part = p /\ step /\ Elsewhere(p) /\ UNCHANGED part

IngestionNext ==
  \/ Only("jobs", JobNext)
  \/ Only("letters", LetterNext)
  \/ Only("collection", CollectorNext)
  \/ Only("crosswalk", CrosswalkNext)
  \/ Only("graph", GraphNext)
  \/ Only("alerts", AlertNext)
  \/ Only("event", EventNext)
  \/ Only("retrieval", RetrievalNext)

ingestionVars == <<jobVars, letterVars, collectorVars, crosswalkVars, graphVars,
                   alertVars, eventVars, retrievalVars, part>>

IngestionSpec == IngestionInit /\ [][IngestionNext]_ingestionVars /\ JobFairness

\* One account with two pages of keys, the others with one.
MCPageCount == [a \in Accounts |-> IF a = CHOOSE x \in Accounts : TRUE THEN 2 ELSE 1]

\* Controls that reach HIPAA by one column or the other, and one that both
\* CIS controls reach.
MCMapsTo ==
  [gov |-> [cis |-> {"C1"}, nist |-> {"n1", "n2"}, hipaaSec |-> {}, hipaaAdmin |-> {"h1"}, pci |-> {"r1"}],
   iac |-> [cis |-> {"C1", "C2"}, nist |-> {"n1"}, hipaaSec |-> {"h1"}, hipaaAdmin |-> {}, pci |-> {}],
   net |-> [cis |-> {}, nist |-> {"n2"}, hipaaSec |-> {"h2"}, hipaaAdmin |-> {"h2"}, pci |-> {"r2"}]]
MCSheet == <<"gov", "iac", "net">>

\* A subcategory with no category is one the id pattern refuses.
MCSafeguards == [c \in CisControls |-> {IF c = "C1" THEN "1.1" ELSE "2.1"}]
MCCategories == [n1 |-> "N", n2 |-> "N"]
MCRelated == {<<"C1", "C2">>, <<"h1", "C1">>}
MCCisNist == {<<"C1", "n1">>, <<"C2", "n2">>}
MCHipaaNist == {<<"h1", "n1">>, <<"h1", "broad">>}

\* Three reports: a quiet one, one of logs older than that, and one of a configuration,
\* without a time; controls that are not seen, at risk, and seen operating.
MCStatusOf ==
  [quiet |-> [C8 |-> "unknown", C10 |-> "compliant"],
   late |-> [C8 |-> "at_risk", C10 |-> "unknown"],
   snapshot |-> [C8 |-> "at_risk", C10 |-> "at_risk"]]
MCShareOf ==
  [quiet |-> [cis |-> 0, pci |-> NoShare], late |-> [cis |-> 500, pci |-> 30],
   snapshot |-> [cis |-> 530, pci |-> 90]]
MCViolationsOf == [quiet |-> 0, late |-> 2, snapshot |-> 1]
MCWindowOf == [quiet |-> 2, late |-> 1, snapshot |-> 0]
MCPathOf == [quiet |-> "batch", late |-> "batch", snapshot |-> "config"]
================================================================================
