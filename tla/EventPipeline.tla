----------------------------- MODULE EventPipeline -----------------------------
(***************************************************************************)
(* One log through run_full_pipeline (pipeline.py): density assessment,    *)
(* deterministic analysis, control mapping, the ATT&CK pivot, two rounds   *)
(* of severity correction, suppression of false positives, the policy      *)
(* rules, and the retrieval of guidance.  Every phase but the analysis and *)
(* the retrieval has a handler: when it raises, the run goes on with what  *)
(* it had.                                                                 *)
(*                                                                         *)
(* A log is a record of what the phases find in its text: its hits of the  *)
(* threat and benign patterns, the scheduled task it may name, whether it  *)
(* shows an exploit, a success or a failed attempt, the weight its         *)
(* keywords give each control, the Sigma rules that match it, and the      *)
(* entities a regular expression extracts.                                 *)
(***************************************************************************)
EXTENDS PolicyRules, FiniteSets, FiniteSetsExt

CONSTANTS
  Logs,              \* the logs a run may be given
  Structured,        \* log types whose risk is structural
  FloorOf,           \* log type -> least severity (SEVERITY_FLOOR)
  CeilingOf,         \* log type -> most severity of a benign log
  FalseFor,          \* log type -> controls the mapping drops (LOG_TYPE_SUPPRESSED_CONTROLS)
  BenignFalseFor,    \* log type -> controls dropped at the end (BENIGN_SUPPRESSED_CONTROLS)
  SeedOf,            \* log type -> controls put back when none is left
  SigmaLevel,        \* rule -> severity
  SigmaControls,     \* rule -> controls its techniques map to
  AttackPivot,       \* FURIX_ATTACK_PIVOT
  LlmEnrich,         \* FURIX_LLM_ENRICH
  RagDisabled,       \* FURIX_DISABLE_RAG, or no embedder
  Guidance,          \* citations a retrieval may bring
  MaxRaised          \* bound: phases that raise in one run

\* The tables name severities.
ASSUME SeverityAssumption ==
  /\ \A type \in DOMAIN FloorOf : FloorOf[type] \in Severities
  /\ \A type \in DOMAIN CeilingOf : CeilingOf[type] \in Severities
  /\ \A l \in Logs : ~l.empty => \A rule \in l.sigma : SigmaLevel[rule] \in Severities

VARIABLES
  phase,      \* what the run does next
  log,        \* the log in hand
  density,    \* its threat density
  facts,      \* the findings, as the policy rules read them
  raised,     \* phases that raised in this run
  found,      \* policy findings
  summary,    \* what the policy phase says of the controls
  cited,      \* the consolidated compliance mapping
  failedAt    \* _failure_stage

eventVars == <<phase, log, density, facts, raised, found, summary, cited, failedAt>>

Handled == {"density", "mapping", "pivot", "correction", "gate", "suppression", "policy"}

After ==
  [density |-> "analysis", analysis |-> "mapping", mapping |-> "pivot", pivot |-> "correction",
   correction |-> "gate", gate |-> "suppression", suppression |-> "policy", policy |-> "retrieval"]

At(p) == IF p \in DOMAIN After THEN After[p] ELSE p
Go == phase' = At(phase)

NoLog == [empty |-> TRUE]
NoDensity == [threats |-> 0, goods |-> 0, calm |-> FALSE, benign |-> FALSE, structured |-> FALSE]
NoFacts == [severity |-> Low, controls |-> {}, flags |-> {}, cves |-> FALSE,
            external |-> FALSE, rawExternal |-> FALSE, benign |-> FALSE]
\* With no findings and no clean control: nothing was evaluated.
NoSummary == [violated |-> {}, ruleOnly |-> {}, clean |-> {}]
NoCitations == [cis |-> {}, nist |-> {}, hipaa |-> {}]

\* A scheduled task counts as benign by its name, and as a threat otherwise.
Threats(l) == l.threats + (IF l.task = "other" THEN 1 ELSE 0)
Goods(l) == l.goods + (IF l.task = "windows" THEN 1 ELSE 0)

\* net_score < -0.3, the scores being hits per line.
Calm(l) == 10 * Goods(l) > 10 * Threats(l) + 3 * l.lines

DensityOf(l) ==
  LET structured == l.type \in Structured IN
  [threats |-> Threats(l), goods |-> Goods(l), calm |-> Calm(l), structured |-> structured,
   benign |-> /\ ~structured
              /\ \/ Threats(l) = 0 /\ Goods(l) > 0
                 \/ Calm(l) /\ Threats(l) <= 1]

Start ==
  /\ phase = "idle"
  /\ \E l \in Logs :
       /\ log' = l
       /\ IF l.empty
          THEN phase' = "done" /\ failedAt' = "input_validation"
          ELSE phase' = "density" /\ failedAt' = "none"
  /\ density' = NoDensity /\ facts' = NoFacts /\ raised' = {} /\ found' = {} /\ summary' = NoSummary /\ cited' = NoCitations

AssessDensity ==
  /\ phase = "density"
  /\ density' = DensityOf(log)
  /\ Go /\ UNCHANGED <<log, facts, raised, found, summary, cited, failedAt>>

\* The model of an unknown format, when it is enabled, adds flags and CVEs
\* and never removes what the regular expressions found; an address of its
\* own is taken only when they found none at all.
MayEnrich(l) == LlmEnrich /\ l.type \in {"auto", "generic", "unknown"}

Analyse ==
  /\ phase = "analysis"
  /\ \E more \in IF MayEnrich(log) THEN SUBSET Activity ELSE {{}},
        cve \in IF MayEnrich(log) THEN BOOLEAN ELSE {FALSE},
        outside \in IF MayEnrich(log) /\ log.source = "none" THEN BOOLEAN ELSE {FALSE} :
       facts' = [NoFacts EXCEPT !.flags = log.flags \union more,
                                !.cves = log.cves \/ cve,
                                !.external = log.source = "external" \/ outside,
                                !.rawExternal = log.rawExternal]
  /\ Go /\ UNCHANGED <<log, density, raised, found, summary, cited, failedAt>>

AnalysisFails ==
  /\ phase = "analysis"
  /\ phase' = "done" /\ failedAt' = "det_analysis"
  /\ UNCHANGED <<log, density, facts, raised, found, summary, cited>>

KeywordMinWeight == 2
Detected(l) == {c \in DOMAIN l.weight : l.weight[c] >= KeywordMinWeight}

ForType(table, l) == IF l.type \in DOMAIN table THEN table[l.type] ELSE {}

\* The analysis names neither a domain nor a control, so the validator never
\* finds the mapping consistent and takes the detector's.
MapControls ==
  /\ phase = "mapping"
  /\ facts' = [facts EXCEPT !.controls = (@ \union Detected(log)) \ ForType(FalseFor, log)]
  /\ Go /\ UNCHANGED <<log, density, raised, found, summary, cited, failedAt>>

\* Rules whose techniques map to no control are not hits.
Hits(l) == {r \in l.sigma : SigmaControls[r] # {}}
Worst(hits) == Max({SigmaLevel[r] : r \in hits} \union {Informational})
AtLeast(severity, floor) == Max({severity, floor})

Pivot ==
  /\ phase = "pivot"
  /\ facts' = IF AttackPivot /\ Hits(log) # {}
              THEN [facts EXCEPT !.controls = @ \union UNION {SigmaControls[r] : r \in Hits(log)},
                                 !.severity = AtLeast(@, Worst(Hits(log)))]
              ELSE facts
  /\ Go /\ UNCHANGED <<log, density, raised, found, summary, cited, failedAt>>

\* Critical on failed attempts alone becomes high; a confirmed exploit below
\* high becomes high.
Corrected(l, severity) ==
  IF severity = Critical /\ l.failure /\ ~l.success /\ ~l.exploit THEN High
  ELSE IF l.exploit /\ severity <= Medium THEN High ELSE severity

CorrectSeverity ==
  /\ phase = "correction"
  /\ facts' = [facts EXCEPT !.severity = Corrected(log, @)]
  /\ Go /\ UNCHANGED <<log, density, raised, found, summary, cited, failedAt>>

BenignSeverity(d, type) ==
  LET raw == IF (d.threats = 0 /\ d.goods > 0) \/ d.calm THEN Informational ELSE Low IN
  IF type \in DOMAIN CeilingOf THEN Min({raw, CeilingOf[type]}) ELSE raw

\* mutant: the floor is set instead of raised to.
GatedToFloor(d, type, severity) ==
  IF d.benign THEN IF severity >= Medium THEN BenignSeverity(d, type) ELSE severity
  ELSE IF d.structured /\ type \in DOMAIN FloorOf THEN FloorOf[type] ELSE severity

\* mutant: the gate lowers high and critical only.
GatedAboveMedium(d, type, severity) ==
  IF d.benign THEN IF severity >= High THEN BenignSeverity(d, type) ELSE severity
  ELSE IF d.structured /\ type \in DOMAIN FloorOf THEN AtLeast(severity, FloorOf[type]) ELSE severity

Gated(d, type, severity) ==
  IF d.benign THEN IF severity >= Medium THEN BenignSeverity(d, type) ELSE severity
  ELSE IF d.structured /\ type \in DOMAIN FloorOf THEN AtLeast(severity, FloorOf[type])
  ELSE severity

GateSeverity ==
  /\ phase = "gate"
  /\ facts' = [facts EXCEPT !.severity = Gated(density, log.type, @)]
  /\ Go /\ UNCHANGED <<log, density, raised, found, summary, cited, failedAt>>

\* Whatever the gate said; a log type with no list is left alone, the seed too.
Suppressed(l, controls) ==
  LET left == controls \ ForType(BenignFalseFor, l) IN
  IF ForType(BenignFalseFor, l) # {} /\ left = {} THEN ForType(SeedOf, l) ELSE left

Suppress ==
  /\ phase = "suppression"
  /\ facts' = [facts EXCEPT !.controls = Suppressed(log, @)]
  /\ Go /\ UNCHANGED <<log, density, raised, found, summary, cited, failedAt>>

EvaluatePolicy ==
  /\ phase = "policy"
  /\ facts' = [facts EXCEPT !.benign = density.benign]
  /\ found' = Findings(facts')
  /\ summary' = Summary(facts.controls, found')
  /\ Go /\ UNCHANGED <<log, density, raised, cited, failedAt>>

\* The handler of a phase that raises.
Raise ==
  /\ phase \in Handled
  /\ Cardinality(raised) < MaxRaised
  /\ raised' = raised \union {phase}
  /\ Go /\ UNCHANGED <<log, density, facts, found, summary, cited, failedAt>>

Aggregate(guidance) ==
  [cis |-> facts.controls,
   nist |-> UNION {NistCited(x) : x \in found} \union guidance.nist,
   hipaa |-> UNION {HipaaCited(x) : x \in found} \union guidance.hipaa]

Retrieve ==
  /\ phase = "retrieval"
  /\ phase' = "done"
  /\ \/ /\ ~RagDisabled
        /\ \E g \in Guidance : cited' = Aggregate(g)
        /\ UNCHANGED failedAt
     \/ /\ cited' = Aggregate([nist |-> {}, hipaa |-> {}])
        /\ failedAt' \in IF RagDisabled THEN {"none"} ELSE {"rag_retrieval"}
  /\ UNCHANGED <<log, density, facts, raised, found, summary>>

Return ==
  /\ phase = "done"
  /\ phase' = "idle" /\ log' = NoLog /\ density' = NoDensity /\ facts' = NoFacts
  /\ raised' = {} /\ found' = {} /\ summary' = NoSummary /\ cited' = NoCitations /\ failedAt' = "none"

EventInit ==
  /\ phase = "idle" /\ log = NoLog /\ density = NoDensity /\ facts = NoFacts
  /\ raised = {} /\ found = {} /\ summary = NoSummary /\ cited = NoCitations /\ failedAt = "none"

EventNext ==
  \/ Start \/ AssessDensity \/ Analyse \/ AnalysisFails \/ MapControls \/ Pivot \/ CorrectSeverity
  \/ GateSeverity \/ Suppress \/ EvaluatePolicy \/ Raise \/ Retrieve \/ Return

EventSpec == EventInit /\ [][EventNext]_eventVars

Evaluated == phase = "done" /\ failedAt \in {"none", "rag_retrieval"}

\* A log that shows an exploit, and that nothing called benign, is never
\* reported below high: no later phase undoes the correction
\* (post_llm_severity_correction, the density gate, the floor).
ConfirmedIsHigh ==
  Evaluated /\ log.exploit /\ ~density.benign /\ "correction" \notin raised => facts.severity >= High

\* A log the density gate called benign raises no rule that reads the
\* severity and no escalation rule, whatever the phases before it had
\* concluded (pipeline.py, the order of phases 1d+ to 3).
BenignIsQuiet ==
  Evaluated /\ density.benign /\ "gate" \notin raised =>
    \A x \in found : x.rule \notin SeverityRules \union {"POL-002", "POL-009"}
================================================================================
