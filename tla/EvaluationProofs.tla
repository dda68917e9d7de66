--------------------------- MODULE EvaluationProofs ----------------------------
(***************************************************************************)
(* Proofs about the detection of one event and the retrieval of guidance   *)
(* for it, for every line, rule table and analysis and every set of chunks:*)
(* a confirmed threat stays high to the last finding, a benign line is     *)
(* quiet, the candidates do not depend on which thread answers first, and  *)
(* no framework loses the slots it is guaranteed.                          *)
(***************************************************************************)
EXTENDS EventPipeline, Retrieval, DataLemmas

--------------------------------------------------------------------------------
\* What each phase leaves of the severity

Working == {"density", "analysis", "mapping", "pivot", "correction", "gate", "suppression",
            "policy"}

Settled == phase \in {"suppression", "policy", "retrieval"} \/ Evaluated

\* The log in hand is one of the logs, and its severity a severity.
InHand ==
  /\ phase \in Working \cup {"idle", "retrieval", "done"}
  /\ facts.severity \in Severities
  /\ phase \in Working => log \in Logs /\ ~log.empty

\* From the correction on an exploit is high, the gate apart.
StaysHigh ==
  phase = "gate" \/ Settled =>
    (log.exploit /\ ~density.benign /\ "correction" \notin raised => facts.severity >= High)

Quiet(x) == x.rule \notin SeverityRules \union {"POL-002", "POL-009"}

\* From the gate on a benign log is low, and no rule runs before the policy.
StaysLow ==
  /\ phase \in Working => found = {}
  /\ phase \in {"suppression", "policy"} =>
       (density.benign /\ "gate" \notin raised => facts.severity <= Low)
  /\ phase = "retrieval" \/ Evaluated =>
       (density.benign /\ "gate" \notin raised => \A x \in found : Quiet(x))

EventInv == InHand /\ StaysHigh /\ StaysLow

\* The order of the phases
LEMMA PhasesFollow ==
  /\ At("density") = "analysis" /\ At("analysis") = "mapping" /\ At("mapping") = "pivot"
  /\ At("pivot") = "correction" /\ At("correction") = "gate" /\ At("gate") = "suppression"
  /\ At("suppression") = "policy" /\ At("policy") = "retrieval"
  BY DEF At, After

\* A floor raises a severity, if anything.
LEMMA AtLeastFacts ==
  ASSUME NEW s \in Severities, NEW f \in Severities
  PROVE  AtLeast(s, f) \in Severities /\ AtLeast(s, f) >= s
  <1>1. {s, f} \in SUBSET (0..4) /\ {s, f} # {}
    BY DEF Severities, Informational, Critical
  <1>2. 4 \in Nat  OBVIOUS
  <1>3. Max({s, f}) \in {s, f} /\ \A x \in {s, f} : x <= Max({s, f})
    BY <1>1, <1>2, MaxFacts
  <1> QED  BY <1>3 DEF AtLeast, Severities, Informational, Critical

\* The worst level of the rules a log hits
LEMMA WorstFacts ==
  ASSUME NEW l \in Logs, ~l.empty
  PROVE  Worst(Hits(l)) \in Severities
  <1> DEFINE S == {SigmaLevel[r] : r \in Hits(l)} \union {Informational}
  <1>1. S \in SUBSET (0..4) /\ S # {}
    BY SeverityAssumption DEF Hits, Severities, Informational, Critical
  <1>2. 4 \in Nat  OBVIOUS
  <1>3. Max(S) \in S
    <2> HIDE DEF S
    <2> QED  BY <1>1, <1>2, MaxFacts
  <1> QED  BY <1>1, <1>3 DEF Worst, Severities, Informational, Critical

\* The gate leaves a benign log low at most.
LEMMA BenignLow ==
  ASSUME NEW d, NEW type
  PROVE  BenignSeverity(d, type) \in Severities /\ BenignSeverity(d, type) <= Low
  <1> DEFINE raw == IF (d.threats = 0 /\ d.goods > 0) \/ d.calm THEN Informational ELSE Low
  <1>1. raw \in 0..1  BY DEF Informational, Low
  <1> HIDE DEF raw
  <1>2. ASSUME type \in DOMAIN CeilingOf
        PROVE  Min({raw, CeilingOf[type]}) \in Severities /\ Min({raw, CeilingOf[type]}) <= Low
    <2>1. PICK c \in 0..4 : c = CeilingOf[type]
      BY <1>2, SeverityAssumption DEF Severities, Informational, Critical
    <2>2. \E x \in {raw, c} : \A y \in {raw, c} : x <= y  BY <1>1
    <2>3. Min({raw, c}) \in {raw, c} /\ \A y \in {raw, c} : Min({raw, c}) <= y
      BY <2>2 DEF Min
    <2>4. Min({raw, c}) \in 0..4 /\ Min({raw, c}) <= 1  BY <1>1, <2>3
    <2> QED  BY <2>1, <2>4 DEF Severities, Informational, Critical, Low
  <1>3. raw \in Severities /\ raw <= Low
    BY <1>1 DEF Severities, Informational, Critical, Low
  <1> QED  BY <1>2, <1>3 DEF BenignSeverity, raw

\* The correction leaves an exploit high at least.
LEMMA CorrectedFacts ==
  ASSUME NEW l, NEW s \in Severities
  PROVE  Corrected(l, s) \in Severities /\ (l.exploit => Corrected(l, s) >= High)
  BY DEF Corrected, Severities, Informational, Medium, High, Critical

\* What the gate leaves of a severity
LEMMA GatedFacts ==
  ASSUME NEW d, NEW type, NEW s \in Severities
  PROVE  /\ Gated(d, type, s) \in Severities
         /\ ~d.benign => Gated(d, type, s) >= s
         /\ d.benign => Gated(d, type, s) <= Low
  <1>1. CASE d.benign
    <2>1. BenignSeverity(d, type) \in Severities /\ BenignSeverity(d, type) <= Low
      BY BenignLow
    <2> QED  BY <1>1, <2>1 DEF Gated, Severities, Informational, Low, Medium, Critical
  <1>2. CASE ~d.benign
    <2>1. type \in DOMAIN FloorOf =>
            AtLeast(s, FloorOf[type]) \in Severities /\ AtLeast(s, FloorOf[type]) >= s
      BY SeverityAssumption, AtLeastFacts
    <2>2. s >= s  BY DEF Severities, Informational, Critical
    <2> QED  BY <1>2, <2>1, <2>2 DEF Gated
  <1> QED  BY <1>1, <1>2

\* A benign log of no severity to speak of raises only the rules that read neither.
LEMMA QuietFindings ==
  ASSUME NEW f, f.benign, f.severity \in Severities, f.severity <= Low, NEW x \in Findings(f)
  PROVE  Quiet(x)
  <1>1. ~(f.severity >= Medium) /\ ~(f.severity >= High)
    BY DEF Severities, Informational, Low, Medium, High, Critical
  <1>2. /\ ~Pol002(f) /\ ~Pol006(f) /\ ~Pol007(f) /\ ~Pol008(f) /\ ~Pol009(f)
        /\ ~Pol010(f) /\ ~Pol012(f) /\ ~Pol013(f) /\ ~Pol015(f)
    BY <1>1 DEF Pol002, Pol006, Pol007, Pol008, Pol009, Pol010, Pol012, Pol013, Pol015
  <1>3. PICK r \in RuleBook(f) : x = r.finding  BY DEF Findings
  <1>4. x.rule \in {"POL-001", "POL-003", "POL-004", "POL-005", "POL-011", "POL-014"}
    BY <1>2, <1>3 DEF RuleBook, Finding
  <1> QED  BY <1>4 DEF Quiet, SeverityRules

\* No log is in hand at first.
LEMMA EventInitInv == EventInit => EventInv
  BY DEF EventInit, EventInv, InHand, StaysHigh, StaysLow, Settled, Evaluated, NoFacts,
         NoLog, Working,
         Severities, Informational, Low, Critical

\* Phase by phase, a confirmed log stays high, and a benign one low.
LEMMA EventStepInv == EventInv /\ [EventNext]_eventVars => EventInv'
  <1> SUFFICES ASSUME EventInv, [EventNext]_eventVars PROVE EventInv'
    OBVIOUS
  <1> USE DEF EventInv, Settled, Evaluated
  <1>1. CASE Start
    <2>1. PICK l \in Logs :
            /\ log' = l
            /\ IF l.empty THEN phase' = "done" /\ failedAt' = "input_validation"
               ELSE phase' = "density" /\ failedAt' = "none"
      BY <1>1 DEF Start
    <2>2. found' = {} /\ facts' = NoFacts  BY <1>1 DEF Start
    <2>3. NoFacts.severity \in Severities
      BY DEF NoFacts, Severities, Informational, Low, Critical
    <2> QED  BY <2>1, <2>2, <2>3 DEF InHand, StaysHigh, StaysLow, Working
  <1>2. CASE AssessDensity
    BY <1>2, PhasesFollow DEF AssessDensity, Go, InHand, StaysHigh, StaysLow, Working
  <1>3. CASE Analyse
    <2>1. phase = "analysis" /\ phase' = "mapping" /\ UNCHANGED <<log, density, raised, found>>
      BY <1>3, PhasesFollow DEF Analyse, Go
    <2>2. facts'.severity \in Severities
      BY <1>3 DEF Analyse, NoFacts, Severities, Informational, Low, Critical
    <2> QED  BY <2>1, <2>2 DEF InHand, StaysHigh, StaysLow, Working
  <1>4. CASE AnalysisFails
    BY <1>4 DEF AnalysisFails, InHand, StaysHigh, StaysLow, Working
  <1>5. CASE MapControls
    <2>1. phase = "mapping" /\ phase' = "pivot" /\ UNCHANGED <<log, density, raised, found>>
      BY <1>5, PhasesFollow DEF MapControls, Go
    <2>2. facts'.severity = facts.severity
      BY <1>5 DEF MapControls
    <2> QED  BY <2>1, <2>2 DEF InHand, StaysHigh, StaysLow, Working
  <1>6. CASE Pivot
    <2>1. phase = "pivot" /\ phase' = "correction" /\ UNCHANGED <<log, density, raised, found>>
      BY <1>6, PhasesFollow DEF Pivot, Go
    <2>2. facts'.severity \in Severities
      <3>1. facts.severity \in Severities /\ log \in Logs /\ ~log.empty
        BY <2>1 DEF InHand, Working
      <3>2. AtLeast(facts.severity, Worst(Hits(log))) \in Severities
        BY <3>1, WorstFacts, AtLeastFacts
      <3>3. facts'.severity \in {facts.severity, AtLeast(facts.severity, Worst(Hits(log)))}
        BY <1>6 DEF Pivot
      <3> QED  BY <3>1, <3>2, <3>3
    <2> QED  BY <2>1, <2>2 DEF InHand, StaysHigh, StaysLow, Working
  <1>7. CASE CorrectSeverity
    <2>1. phase = "correction" /\ phase' = "gate" /\ UNCHANGED <<log, density, raised, found>>
      BY <1>7, PhasesFollow DEF CorrectSeverity, Go
    <2>2. facts'.severity = Corrected(log, facts.severity)
      BY <1>7 DEF CorrectSeverity
    <2>3. facts'.severity \in Severities /\ (log.exploit => facts'.severity >= High)
      BY <2>2, CorrectedFacts DEF InHand
    <2> QED  BY <2>1, <2>3 DEF InHand, StaysHigh, StaysLow, Working
  <1>8. CASE GateSeverity
    <2>1. phase = "gate" /\ phase' = "suppression" /\ UNCHANGED <<log, density, raised, found>>
      BY <1>8, PhasesFollow DEF GateSeverity, Go
    <2>2. facts'.severity = Gated(density, log.type, facts.severity)
      BY <1>8 DEF GateSeverity
    <2>3. /\ facts'.severity \in Severities
          /\ ~density.benign => facts'.severity >= facts.severity
          /\ density.benign => facts'.severity <= Low
      BY <2>2, GatedFacts DEF InHand
    <2>4. facts'.severity >= facts.severity /\ facts.severity >= High => facts'.severity >= High
      BY <2>3 DEF InHand, Severities, Informational, Critical, High
    <2> QED  BY <2>1, <2>3, <2>4 DEF InHand, StaysHigh, StaysLow, Working
  <1>9. CASE Suppress
    <2>1. phase = "suppression" /\ phase' = "policy" /\ UNCHANGED <<log, density, raised, found>>
      BY <1>9, PhasesFollow DEF Suppress, Go
    <2>2. facts'.severity = facts.severity
      BY <1>9 DEF Suppress
    <2> QED  BY <2>1, <2>2 DEF InHand, StaysHigh, StaysLow, Working
  <1>10. CASE EvaluatePolicy
    <2>1. phase = "policy" /\ phase' = "retrieval" /\ UNCHANGED <<log, density, raised>>
      BY <1>10, PhasesFollow DEF EvaluatePolicy, Go
    <2>2. /\ facts'.severity = facts.severity /\ facts'.benign = density.benign
          /\ found' = Findings(facts')
      BY <1>10 DEF EvaluatePolicy
    <2>3. density.benign /\ "gate" \notin raised => \A x \in found' : Quiet(x)
      BY <2>1, <2>2, QuietFindings DEF InHand, StaysLow
    <2> QED  BY <2>1, <2>2, <2>3 DEF InHand, StaysHigh, StaysLow, Working, Quiet
  <1>11. CASE Raise
    <2>1. /\ phase \in Handled /\ phase' = At(phase) /\ raised' = raised \union {phase}
          /\ UNCHANGED <<log, density, facts, found, failedAt>>
      BY <1>11 DEF Raise, Go
    <2>2. phase \in Working /\ phase' \in Working \cup {"retrieval"} /\ found = {}
      BY <2>1, PhasesFollow DEF Handled, Working, StaysLow
    <2>3. InHand'  BY <2>1, <2>2 DEF InHand, Working
    <2>4. StaysHigh'
      BY <2>1, PhasesFollow DEF Handled, StaysHigh
    <2>5. StaysLow'
      BY <2>1, <2>2, PhasesFollow DEF Handled, StaysLow, Working
    <2> QED  BY <2>3, <2>4, <2>5
  <1>12. CASE Retrieve
    <2>1. phase = "retrieval" /\ phase' = "done" /\ UNCHANGED <<log, density, facts, raised, found>>
      BY <1>12 DEF Retrieve
    <2> QED  BY <2>1 DEF InHand, StaysHigh, StaysLow, Working, Quiet
  <1>13. CASE Return
    BY <1>13 DEF Return, InHand, StaysHigh, StaysLow, Working, NoFacts, NoLog, Severities,
       Informational, Low, Critical
  <1>14. CASE UNCHANGED eventVars
    BY <1>14 DEF eventVars, InHand, StaysHigh, StaysLow, Quiet
  <1> QED
    BY <1>1, <1>2, <1>3, <1>4, <1>5, <1>6, <1>7, <1>8, <1>9, <1>10, <1>11, <1>12, <1>13, <1>14
        DEF EventNext

\* For any rule table and analysis: what the correction raised to high for an
\* exploit is high in the result, whatever the later phases did to it.
THEOREM ConfirmedAlwaysHigh == EventSpec => []ConfirmedIsHigh
  <1>1. EventInv => ConfirmedIsHigh
    BY DEF EventInv, StaysHigh, Settled, ConfirmedIsHigh
  <1> QED  BY EventInitInv, EventStepInv, <1>1, PTL DEF EventSpec

\* For any rule table and analysis: the policy engine says nothing that severity
\* calls for about a log that the density gate called benign.
THEOREM BenignAlwaysQuiet == EventSpec => []BenignIsQuiet
  <1>1. EventInv => BenignIsQuiet
    BY DEF EventInv, StaysLow, Quiet, BenignIsQuiet
  <1> QED  BY EventInitInv, EventStepInv, <1>1, PTL DEF EventSpec

--------------------------------------------------------------------------------
\* What retrieval keeps: lists by position

\* before is a strict total order on at.
Orders(before, at) ==
  /\ \A i \in at : <<i, i>> \notin before
  /\ \A i, j, k \in at : <<i, j>> \in before /\ <<j, k>> \in before => <<i, k>> \in before
  /\ \A i, j \in at : i # j => <<i, j>> \in before \/ <<j, i>> \in before

\* An arrangement holds the elements at the positions given, each once.
LEMMA ArrangedFacts ==
  ASSUME NEW S, NEW s \in Seq(S), NEW at \in SUBSET DOMAIN s, NEW before, Orders(before, at),
         NEW value
  PROVE  /\ Arranged(s, at, before) \in Seq(S)
         /\ Len(Arranged(s, at, before)) = Cardinality(at)
         /\ ToSet(Arranged(s, at, before)) = {s[i] : i \in at}
         /\ (\A i, k \in at : value[s[i]] = value[s[k]] => i = k)
              => \A i, k \in DOMAIN Arranged(s, at, before) :
                     value[Arranged(s, at, before)[i]] = value[Arranged(s, at, before)[k]] => i = k
         /\ IsInjective(s) => IsInjective(Arranged(s, at, before))
  <1> DEFINE size == Cardinality(at)
             Preds(i) == {j \in at : <<j, i>> \in before}
             place == [n \in 1 .. size |-> CHOOSE i \in at : Cardinality(Preds(i)) = n - 1]
             t == Arranged(s, at, before)
  <1>1. DOMAIN s = 1 .. Len(s) /\ Len(s) \in Nat  BY LenProperties
  <1>2. IsFiniteSet(at)
    <2>1. IsFiniteSet(1 .. Len(s))  BY <1>1, FS_Interval
    <2> QED  BY <1>1, <2>1, FS_Subset
  <1>3. /\ size \in Nat
        /\ \A n \in 1 .. size : \E i \in at : Cardinality(Preds(i)) = n - 1
        /\ \A i \in at : Cardinality(Preds(i)) \in 0 .. size - 1
        /\ \A i, k \in at : Cardinality(Preds(i)) = Cardinality(Preds(k)) => i = k
    BY <1>2, RankFacts DEF Orders
  <1>4. t = [n \in 1 .. size |-> s[place[n]]]  BY DEF Arranged
  <1>5. \A n \in 1 .. size : place[n] = CHOOSE i \in at : Cardinality(Preds(i)) = n - 1  OBVIOUS
  <1> HIDE DEF size, Preds, place, t
  <1>6. \A n \in 1 .. size : place[n] \in at /\ Cardinality(Preds(place[n])) = n - 1
    BY <1>3, <1>5
  <1>7. \A n, m \in 1 .. size : place[n] = place[m] => n = m  BY <1>3, <1>6
  <1>8. \A i \in at : \E n \in 1 .. size : place[n] = i
    <2> TAKE i \in at
    <2>1. Cardinality(Preds(i)) + 1 \in 1 .. size
      BY <1>3
    <2>2. Cardinality(Preds(i)) + 1 - 1 = Cardinality(Preds(i))  BY <1>3
    <2>3. place[Cardinality(Preds(i)) + 1] = i  BY <1>3, <1>6, <2>1, <2>2
    <2> QED  BY <2>1, <2>3
  <1>9. \A i \in at : s[i] \in S  BY <1>1, ElementOfSeq
  <1>10. /\ \A n \in 1 .. size : t[n] = s[place[n]] /\ t[n] \in S
         /\ DOMAIN t = 1 .. size
    BY <1>4, <1>6, <1>9
  <1>11. t \in Seq(S) /\ Len(t) = size
    <2>1. t \in [1 .. size -> S]  BY <1>4, <1>10
    <2>2. t \in Seq(S)  BY <1>3, <2>1, SeqDef
    <2>3. DOMAIN t = 1 .. Len(t) /\ Len(t) \in Nat  BY <2>2, LenProperties
    <2> QED  BY <1>3, <1>10, <2>2, <2>3
  <1>12. ToSet(t) = {s[i] : i \in at}
    <2>1. ASSUME NEW x \in ToSet(t)  PROVE x \in {s[i] : i \in at}
      BY <1>6, <1>10 DEF ToSet
    <2>2. ASSUME NEW i \in at  PROVE s[i] \in ToSet(t)
      BY <1>8, <1>10 DEF ToSet
    <2> QED  BY <2>1, <2>2
  <1>13. ASSUME \A i, k \in at : value[s[i]] = value[s[k]] => i = k
         PROVE  \A i, k \in DOMAIN t : value[t[i]] = value[t[k]] => i = k
    BY <1>6, <1>7, <1>10, <1>13
  <1>14. IsInjective(s) => IsInjective(t)
    BY <1>6, <1>7, <1>10 DEF IsInjective
  <1> QED  BY <1>11, <1>12, <1>13, <1>14 DEF t, size

\* The elements picked are those at the positions given, each once.
LEMMA PickedFacts ==
  ASSUME NEW S, NEW s \in Seq(S), NEW at \in SUBSET DOMAIN s, NEW value
  PROVE  /\ Picked(s, at) \in Seq(S)
         /\ Len(Picked(s, at)) = Cardinality(at)
         /\ ToSet(Picked(s, at)) = {s[i] : i \in at}
         /\ (\A i, k \in at : value[s[i]] = value[s[k]] => i = k)
              => \A i, k \in DOMAIN Picked(s, at) :
                     value[Picked(s, at)[i]] = value[Picked(s, at)[k]] => i = k
         /\ IsInjective(s) => IsInjective(Picked(s, at))
  <1> DEFINE before == {p \in at \X at : p[1] < p[2]}
  <1>1. at \subseteq Int
    <2>1. DOMAIN s = 1 .. Len(s) /\ Len(s) \in Nat  BY LenProperties
    <2> QED  BY <2>1
  <1>2. \A i, j \in at : <<i, j>> \in before <=> i < j  OBVIOUS
  <1>3. Picked(s, at) = Arranged(s, at, before)  BY DEF Picked
  <1> HIDE DEF before
  <1>4. Orders(before, at)  BY <1>1, <1>2 DEF Orders
  <1> QED  BY <1>3, <1>4, ArrangedFacts

\* A list filtered
LEMMA AmongFacts ==
  ASSUME NEW S, NEW s \in Seq(S), NEW set
  PROVE  /\ Among(s, set) \in Seq(S)
         /\ ToSet(Among(s, set)) = ToSet(s) \cap set
         /\ IsInjective(s) => IsInjective(Among(s, set))
  <1> DEFINE at == {i \in DOMAIN s : s[i] \in set}
  <1>1. at \in SUBSET DOMAIN s  OBVIOUS
  <1>2. {s[i] : i \in at} = ToSet(s) \cap set  BY DEF ToSet
  <1>3. Among(s, set) = Picked(s, at)  BY DEF Among
  <1> HIDE DEF at
  <1> QED  BY <1>1, <1>2, <1>3, PickedFacts

\* A list from which nothing is left is the empty one.
LEMMA NoneAmong ==
  ASSUME NEW S, NEW s \in Seq(S), NEW set, ToSet(s) \cap set = {}
  PROVE  Among(s, set) = <<>>
  <1>1. Among(s, set) \in Seq(S) /\ ToSet(Among(s, set)) = {}  BY AmongFacts
  <1> QED  BY <1>1, NoElements

\* The head of a list
LEMMA FirstFacts ==
  ASSUME NEW S, NEW s \in Seq(S), NEW n \in Nat
  PROVE  /\ First(s, n) \in Seq(S)
         /\ Len(First(s, n)) = IF n <= Len(s) THEN n ELSE Len(s)
         /\ ToSet(First(s, n)) \subseteq ToSet(s)
         /\ DOMAIN First(s, n) \subseteq DOMAIN s
         /\ \A i \in DOMAIN First(s, n) : First(s, n)[i] = s[i]
         /\ IsInjective(s) => IsInjective(First(s, n))
         /\ Len(s) <= n => First(s, n) = s
  <1> DEFINE len == Len(s)
             m == Min({n, len})
             t == First(s, n)
  <1>1. len \in Nat /\ DOMAIN s = 1 .. len  BY LenProperties
  <1>2. t = SubSeq(s, 1, m) /\ len = Len(s)  BY DEF First
  <1>3. n \in Int /\ len \in Int  BY <1>1
  <1> HIDE DEF len, t
  <1>4. m = IF n <= len THEN n ELSE len  BY <1>3, MinOfTwo
  <1> HIDE DEF m
  <1>5. len \in Nat  BY <1>1
  <1>6. m \in Nat /\ m <= len /\ (len <= n => m = len)
    <2>1. CASE n <= len  BY <1>5, <1>4, <2>1
    <2>2. CASE ~(n <= len)  BY <1>5, <1>4, <2>2
    <2> QED  BY <2>1, <2>2
  <1>7. \A i \in 1 .. m : i \in 1 .. len /\ s[i] \in S
    <2>1. \A i \in 1 .. m : i \in 1 .. len  BY <1>5, <1>6
    <2> QED  BY <2>1, <1>2, ElementOfSeq
  <1>8. /\ t \in Seq(S)
        /\ Len(t) = m
        /\ \A i \in 1 .. m : t[i] = s[i]
    <2>1. 1 \in Int /\ m \in Int  BY <1>6
    <2>2. /\ SubSeq(s, 1, m) \in Seq(S)
          /\ Len(SubSeq(s, 1, m)) = IF 1 <= m THEN m - 1 + 1 ELSE 0
          /\ \A i \in 1 .. m - 1 + 1 : SubSeq(s, 1, m)[i] = s[1 + i - 1]
      BY <1>7, <2>1, SubSeqProperties
    <2>3. m - 1 + 1 = m /\ (IF 1 <= m THEN m - 1 + 1 ELSE 0) = m  BY <1>6
    <2>4. \A i \in 1 .. m : 1 + i - 1 = i  BY <1>6
    <2> QED  BY <1>2, <2>2, <2>3, <2>4
  <1>9. DOMAIN t = 1 .. m /\ DOMAIN t \subseteq DOMAIN s
    BY <1>1, <1>7, <1>8, LenProperties
  <1>10. ToSet(t) \subseteq ToSet(s)  BY <1>8, <1>9 DEF ToSet
  <1>11. IsInjective(s) => IsInjective(t)  BY <1>8, <1>9 DEF IsInjective
  <1>12. ASSUME Len(s) <= n  PROVE t = s
    <2>1. m = Len(s)  BY <1>2, <1>6, <1>12
    <2>2. Len(t) = Len(s) /\ \A i \in 1 .. Len(t) : t[i] = s[i]  BY <1>8, <2>1
    <2> QED  BY <1>8, <2>2, SeqEqual
  <1> QED  BY <1>2, <1>4, <1>8, <1>9, <1>10, <1>11, <1>12 DEF t

\* Of a list without duplicates nothing is lost but the duplicates.
LEMMA DistinctFacts ==
  ASSUME NEW S, NEW s \in Seq(S), NEW group
  PROVE  /\ Distinct(s, group) \in Seq(S)
         /\ ToSet(Distinct(s, group)) \subseteq ToSet(s)
         /\ \A i, k \in DOMAIN Distinct(s, group) :
              group[Distinct(s, group)[i]] = group[Distinct(s, group)[k]] => i = k
         /\ IsInjective(Distinct(s, group))
         /\ {group[c] : c \in ToSet(Distinct(s, group))} = {group[c] : c \in ToSet(s)}
  <1> DEFINE at == {i \in DOMAIN s : \A j \in 1 .. i - 1 : group[s[j]] # group[s[i]]}
             t == Distinct(s, group)
  <1>1. DOMAIN s = 1 .. Len(s) /\ Len(s) \in Nat  BY LenProperties
  <1>2. at \in SUBSET DOMAIN s  OBVIOUS
  <1>3. \A i, k \in at : group[s[i]] = group[s[k]] => i = k
    <2>1. SUFFICES ASSUME NEW i \in at, NEW k \in at, group[s[i]] = group[s[k]], i # k  PROVE FALSE
      OBVIOUS
    <2>2. i \in 1 .. Len(s) /\ k \in 1 .. Len(s)  BY <1>1
    <2>3. i \in 1 .. k - 1 \/ k \in 1 .. i - 1  BY <1>1, <2>1, <2>2
    <2> QED  BY <2>1, <2>3
  <1>4. t = Picked(s, at)  BY DEF Distinct
  <1>5. \A i \in DOMAIN s : \E k \in at : group[s[k]] = group[s[i]]
    <2> TAKE i \in DOMAIN s
    <2> DEFINE same == {k \in DOMAIN s : group[s[k]] = group[s[i]]}
    <2>1. same \in SUBSET Nat /\ same # {}  BY <1>1
    <2>2. PICK k \in same : \A j \in same : k <= j
      <3> HIDE DEF same
      <3> QED  BY <2>1, LeastNatural
    <2>3. k \in 1 .. Len(s) /\ group[s[k]] = group[s[i]]  BY <1>1
    <2>4. ASSUME NEW j \in 1 .. k - 1  PROVE group[s[j]] # group[s[k]]
      <3>1. j \in DOMAIN s /\ ~(k <= j)  BY <1>1, <2>3
      <3> QED  BY <2>2, <2>3, <3>1
    <2>5. k \in at  BY <1>1, <2>3, <2>4
    <2> QED  BY <2>3, <2>5
  <1> HIDE DEF at, t
  <1>6. /\ t \in Seq(S) /\ ToSet(t) = {s[i] : i \in at}
        /\ \A i, k \in DOMAIN t : group[t[i]] = group[t[k]] => i = k
    BY <1>2, <1>3, <1>4, PickedFacts
  <1>7. ToSet(t) \subseteq ToSet(s)  BY <1>2, <1>6 DEF ToSet
  <1>8. IsInjective(t)  BY <1>6 DEF IsInjective
  <1>9. {group[c] : c \in ToSet(t)} = {group[c] : c \in ToSet(s)}
    <2>1. ASSUME NEW c \in ToSet(s)  PROVE \E d \in ToSet(t) : group[d] = group[c]
      <3>1. PICK i \in DOMAIN s : c = s[i]  BY DEF ToSet
      <3> QED  BY <1>5, <1>6, <3>1
    <2> QED  BY <1>7, <2>1
  <1> QED  BY <1>6, <1>7, <1>8, <1>9 DEF t

\* Sorting loses nothing.
LEMMA RankedFacts ==
  ASSUME NEW S, NEW s \in Seq(S), NEW score, \A c \in ToSet(s) : score[c] \in Int
  PROVE  /\ Ranked(s, score) \in Seq(S)
         /\ ToSet(Ranked(s, score)) = ToSet(s)
         /\ Len(Ranked(s, score)) = Len(s)
         /\ IsInjective(s) => IsInjective(Ranked(s, score))
  <1> DEFINE at == DOMAIN s
             before == {p \in at \X at : \/ score[s[p[1]]] > score[s[p[2]]]
                                         \/ score[s[p[1]]] = score[s[p[2]]] /\ p[1] < p[2]}
             w == [i \in at |-> score[s[i]]]
  <1>1. at = 1 .. Len(s) /\ Len(s) \in Nat  BY LenProperties
  <1>2. \A i \in at : w[i] \in Int /\ w[i] = score[s[i]]
    <2>1. \A i \in at : s[i] \in ToSet(s)  BY DEF ToSet
    <2> QED  BY <2>1
  <1>3. \A i, j \in at : <<i, j>> \in before <=> w[i] > w[j] \/ (w[i] = w[j] /\ i < j)
    <2> TAKE i, j \in at
    <2>1. <<i, j>> \in before <=> score[s[i]] > score[s[j]] \/ (score[s[i]] = score[s[j]] /\ i < j)
      OBVIOUS
    <2>2. score[s[i]] = w[i] /\ score[s[j]] = w[j]  BY <1>2
    <2> HIDE DEF before, w
    <2> QED  BY <2>1, <2>2
  <1>4. at \subseteq Int  BY <1>1
  <1>5. Ranked(s, score) = Arranged(s, at, before)  BY DEF Ranked
  <1>6. Cardinality(at) = Len(s)
    <2>1. Cardinality(1 .. Len(s)) = IF 1 > Len(s) THEN 0 ELSE Len(s) - 1 + 1
      BY <1>1, FS_Interval
    <2> QED  BY <1>1, <2>1
  <1>7. ToSet(s) = {s[i] : i \in at}  BY DEF ToSet
  <1>8. at \in SUBSET DOMAIN s  OBVIOUS
  <1> HIDE DEF before, at, w
  <1>9. Orders(before, at)
    <2>1. \A i \in at : <<i, i>> \notin before  BY <1>2, <1>3, <1>4
    <2>2. \A i, j, k \in at : <<i, j>> \in before /\ <<j, k>> \in before => <<i, k>> \in before
      BY <1>2, <1>3, <1>4
    <2>3. \A i, j \in at : i # j => <<i, j>> \in before \/ <<j, i>> \in before
      BY <1>2, <1>3, <1>4
    <2> QED  BY <2>1, <2>2, <2>3 DEF Orders
  <1> QED  BY <1>5, <1>6, <1>7, <1>8, <1>9, ArrangedFacts

\* Rows that join the candidates
LEMMA WithFacts ==
  ASSUME NEW seen \in Seq(Chunks), NEW rows \in Seq(Chunks)
  PROVE  /\ With(seen, rows) \in Seq(Chunks)
         /\ ToSet(With(seen, rows)) = ToSet(seen) \union ToSet(rows)
         /\ With(With(seen, rows), rows) = With(seen, rows)
  <1>1. \A s \in Seq(Chunks) : ToSet(s) \subseteq Chunks
    <2> TAKE s \in Seq(Chunks)
    <2>1. DOMAIN s = 1 .. Len(s)  BY LenProperties
    <2> QED  BY <2>1, ElementOfSeq DEF ToSet
  <1>2. /\ Unseen(rows, seen) \in Seq(Chunks)
        /\ ToSet(Unseen(rows, seen)) = ToSet(rows) \cap (Chunks \ ToSet(seen))
    BY AmongFacts DEF Unseen
  <1>3. /\ With(seen, rows) \in Seq(Chunks)
        /\ ToSet(With(seen, rows)) = ToSet(seen) \union ToSet(Unseen(rows, seen))
    BY <1>2, JoinedSet DEF With
  <1>4. ToSet(With(seen, rows)) = ToSet(seen) \union ToSet(rows)
    BY <1>1, <1>2, <1>3
  <1>5. Unseen(rows, With(seen, rows)) = <<>>
    <2>1. ToSet(rows) \cap (Chunks \ ToSet(With(seen, rows))) = {}  BY <1>4
    <2> QED  BY <2>1, NoneAmong DEF Unseen
  <1>6. With(With(seen, rows), rows) = With(seen, rows) \o <<>>
    BY <1>5 DEF With
  <1> QED  BY <1>3, <1>4, <1>6, ConcatEmptySeq

\* The nearest of a set: chunks of the set, each once
LEMMA NearestFacts ==
  ASSUME NEW query \in {"control", "log", "hipaa"}, NEW set, NEW n \in Nat
  PROVE  /\ Nearest(query, set, n) \in Seq(Chunks)
         /\ ToSet(Nearest(query, set, n)) \subseteq set
         /\ IsInjective(Nearest(query, set, n))
  <1> DEFINE near == Among(Near[query], set)
  <1>1. Near[query] \in Seq(Chunks) /\ IsInjective(Near[query])  BY NearAssumption
  <1>2. near \in Seq(Chunks) /\ ToSet(near) \subseteq set /\ IsInjective(near)
    BY <1>1, AmongFacts
  <1>3. Nearest(query, set, n) = First(near, n)  BY DEF Nearest
  <1> HIDE DEF near
  <1> QED  BY <1>2, <1>3, FirstFacts

\* What the first stage finds: CIS chunks only
CisLists == {p \in Seq(Chunks) : ToSet(p) \subseteq Of("cis")}

LEMMA OfEachFacts ==
  ASSUME NEW controls \in Seq(STRING)
  PROVE  OfEach(controls) \in CisLists
  <1> DEFINE size == Len(controls)
             Rows(n) == Nearest("control", OfControl(controls[n]), TopKPerCtrl)
             gathered == CHOOSE f : f = [n \in 0 .. size |-> IF n = 0 THEN <<>> ELSE With(f[n - 1], Rows(n))]
             Upto(n, g) == /\ g \in [0 .. n -> CisLists]
                           /\ g[0] = <<>>
                           /\ \A i \in 1 .. n : g[i] = With(g[i - 1], Rows(i))
             short == {n \in 0 .. size : ~\E g : Upto(n, g)}
  <1>1. size \in Nat  BY LenProperties
  <1>2. <<>> \in CisLists
    <2>1. <<>> \in Seq(Chunks)  BY EmptySeq
    <2>2. ToSet(<<>>) = {}  BY <2>1, NoElements
    <2> QED  BY <2>1, <2>2 DEF CisLists
  <1>3. ASSUME NEW n, NEW p \in CisLists  PROVE With(p, Rows(n)) \in CisLists
    <2>1. TopKPerCtrl \in Nat  BY NumberAssumption
    <2>2. Rows(n) \in Seq(Chunks) /\ ToSet(Rows(n)) \subseteq Of("cis")
      <3>1. OfControl(controls[n]) \subseteq Of("cis")  BY DEF OfControl
      <3>2. /\ Nearest("control", OfControl(controls[n]), TopKPerCtrl) \in Seq(Chunks)
            /\ ToSet(Nearest("control", OfControl(controls[n]), TopKPerCtrl)) \subseteq OfControl(controls[n])
        BY <2>1, NearestFacts
      <3> QED  BY <3>1, <3>2
    <2> HIDE DEF Rows
    <2>3. p \in Seq(Chunks) /\ ToSet(p) \subseteq Of("cis")  BY DEF CisLists
    <2>4. With(p, Rows(n)) \in Seq(Chunks) /\ ToSet(With(p, Rows(n))) = ToSet(p) \union ToSet(Rows(n))
      BY <2>2, <2>3, WithFacts
    <2> QED  BY <2>2, <2>3, <2>4 DEF CisLists
  <1> HIDE DEF Rows
  <1>4. short = {}
    <2>1. SUFFICES ASSUME short # {}  PROVE FALSE  OBVIOUS
    <2>2. PICK n \in short : \A m \in short : n <= m
      <3>1. short \in SUBSET Nat  OBVIOUS
      <3> HIDE DEF short
      <3> QED  BY <2>1, <3>1, LeastNatural
    <2>3. n \in 0 .. size /\ ~\E g : Upto(n, g)  BY <2>2
    <2>4. CASE n = 0
      <3> DEFINE g == [i \in 0 .. 0 |-> <<>>]
      <3>1. g \in [0 .. 0 -> CisLists] /\ g[0] = <<>>  BY <1>2
      <3>2. \A i \in 1 .. 0 : g[i] = With(g[i - 1], Rows(i))  OBVIOUS
      <3>3. Upto(0, g)
        <4> HIDE DEF g
        <4> QED  BY <3>1, <3>2
      <3> HIDE DEF Upto
      <3> QED  BY <2>3, <2>4, <3>3
    <2>5. CASE n # 0
      <3>1. n - 1 \in 0 .. size /\ n \in Nat /\ ~(n <= n - 1)  BY <1>1, <2>3, <2>5
      <3>2. n - 1 \notin short  BY <2>2, <3>1
      <3>3. PICK g : Upto(n - 1, g)
        <4> HIDE DEF Upto
        <4> QED  BY <3>1, <3>2
      <3> DEFINE last == With(g[n - 1], Rows(n))
                 h == [i \in 0 .. n |-> IF i = n THEN last ELSE g[i]]
      <3>4. \A i \in 0 .. n - 1 : g[i] \in CisLists  BY <3>3
      <3>5. last \in CisLists
        <4>1. n - 1 \in 0 .. n - 1  BY <3>1, <2>3, <2>5
        <4>2. g[n - 1] \in CisLists  BY <3>4, <4>1
        <4> QED  BY <1>3, <4>2
      <3>6. h \in [0 .. n -> CisLists]
        <4>1. \A i \in 0 .. n : i # n => i \in 0 .. n - 1  BY <3>1
        <4> HIDE DEF last
        <4> QED  BY <3>4, <3>5, <4>1
      <3>7. h[0] = <<>>
        <4>1. 0 \in 0 .. n /\ 0 # n  BY <2>3, <2>5
        <4>2. h[0] = g[0]  BY <4>1
        <4> QED  BY <3>3, <4>2
      <3>8. ASSUME NEW i \in 1 .. n  PROVE h[i] = With(h[i - 1], Rows(i))
        <4>1. i \in 0 .. n /\ i - 1 \in 0 .. n /\ i - 1 # n /\ (i # n => i \in 1 .. n - 1)  BY <3>1
        <4>2. h[i - 1] = g[i - 1] /\ (i # n => h[i] = g[i]) /\ (i = n => h[i] = last)
          <5> HIDE DEF last
          <5> QED  BY <4>1
        <4>3. CASE i = n  BY <4>2, <4>3
        <4>4. CASE i # n
          <5>1. g[i] = With(g[i - 1], Rows(i))  BY <3>3, <4>1, <4>4
          <5> QED  BY <4>2, <4>4, <5>1
        <4> QED  BY <4>3, <4>4
      <3>9. Upto(n, h)
        <4> HIDE DEF h
        <4> QED  BY <3>6, <3>7, <3>8
      <3> HIDE DEF Upto
      <3> QED  BY <2>3, <3>9
    <2> QED  BY <2>4, <2>5
  <1>5. PICK g : Upto(size, g)
    <2>1. size \in 0 .. size  BY <1>1
    <2>2. size \notin short  BY <1>4
    <2> HIDE DEF Upto, size
    <2> QED  BY <2>1, <2>2
  <1>6. g = [n \in 0 .. size |-> IF n = 0 THEN <<>> ELSE With(g[n - 1], Rows(n))]
    <2>1. DOMAIN g = 0 .. size /\ g = [n \in 0 .. size |-> g[n]]  BY <1>5
    <2>2. \A n \in 0 .. size : g[n] = IF n = 0 THEN <<>> ELSE With(g[n - 1], Rows(n))
      <3>1. \A n \in 0 .. size : n # 0 => n \in 1 .. size  BY <1>1
      <3> QED  BY <1>5, <3>1
    <2> QED  BY <2>1, <2>2
  <1>7. gathered = [n \in 0 .. size |-> IF n = 0 THEN <<>> ELSE With(gathered[n - 1], Rows(n))]
    BY <1>6
  <1>8. gathered[size] \in CisLists
    <2> DEFINE bad == {n \in 0 .. size : gathered[n] \notin CisLists}
    <2> HIDE DEF gathered
    <2>1. SUFFICES ASSUME bad # {}  PROVE FALSE  BY <1>1
    <2>2. PICK n \in bad : \A m \in bad : n <= m
      <3>1. bad \in SUBSET Nat  OBVIOUS
      <3> HIDE DEF bad
      <3> QED  BY <2>1, <3>1, LeastNatural
    <2>3. n # 0 /\ n \in 0 .. size
      <3>1. 0 \in 0 .. size  BY <1>1
      <3>2. gathered[0] = <<>>  BY <1>7, <3>1
      <3> QED  BY <1>2, <2>2, <3>2
    <2>4. n - 1 \in 0 .. size /\ ~(n <= n - 1)  BY <1>1, <2>3
    <2>5. gathered[n - 1] \in CisLists  BY <2>2, <2>4
    <2>6. gathered[n] = With(gathered[n - 1], Rows(n))  BY <1>7, <2>3
    <2> QED  BY <1>3, <2>2, <2>5, <2>6
  <1> QED  BY <1>8 DEF OfEach, Rows

\* A list holds chunks.
LEMMA ListOfChunks ==
  ASSUME NEW s \in Seq(Chunks)
  PROVE  ToSet(s) \subseteq Chunks /\ \A i \in DOMAIN s : s[i] \in Chunks /\ s[i] \in ToSet(s)
  <1>1. DOMAIN s = 1 .. Len(s)  BY LenProperties
  <1> QED  BY <1>1, ElementOfSeq DEF ToSet

\* A framework's chunks are no other's.
LEMMA FrameworksApart ==
  /\ Of("cis") \subseteq Chunks /\ Of("nist") \subseteq Chunks /\ Of("hipaa") \subseteq Chunks
  /\ Of("cis") \cap Of("nist") = {} /\ Of("cis") \cap Of("hipaa") = {} /\ Of("nist") \cap Of("hipaa") = {}
  <1>1. \A f, c : c \in Of(f) <=> c \in Chunks /\ ChunkOf[c].framework = f  BY DEF Of
  <1>2. "cis" # "nist" /\ "cis" # "hipaa" /\ "nist" # "hipaa"  OBVIOUS
  <1> QED  BY <1>1, <1>2

\* As many values as there are elements when each value is left but once
LEMMA DistinctCount ==
  ASSUME NEW S, NEW s \in Seq(S), NEW group
  PROVE  /\ IsFiniteSet({group[c] : c \in ToSet(s)})
         /\ Cardinality({group[c] : c \in ToSet(s)}) = Len(Distinct(s, group))
  <1> DEFINE d == Distinct(s, group)
  <1>1. /\ d \in Seq(S)
        /\ \A i, k \in DOMAIN d : group[d[i]] = group[d[k]] => i = k
        /\ {group[c] : c \in ToSet(d)} = {group[c] : c \in ToSet(s)}
    BY DistinctFacts
  <1> HIDE DEF d
  <1>2. /\ IsFiniteSet({group[c] : c \in ToSet(d)})
        /\ Cardinality({group[c] : c \in ToSet(d)}) = Len(d)
    BY <1>1, ValueCount
  <1> QED  BY <1>1, <1>2 DEF d

\* What is left of a list without some of its elements
LEMMA OthersCount ==
  ASSUME NEW s \in Seq(Chunks), IsInjective(s), NEW a \in Seq(Chunks), IsInjective(a),
         ToSet(a) \subseteq ToSet(s)
  PROVE  /\ Len(Among(s, Chunks \ ToSet(a))) = Len(s) - Len(a)
         /\ Len(a) <= Len(s)
  <1> DEFINE left == Among(s, Chunks \ ToSet(a))
  <1>1. /\ left \in Seq(Chunks) /\ IsInjective(left)
        /\ ToSet(left) = ToSet(s) \cap (Chunks \ ToSet(a))
    BY AmongFacts
  <1>2. ToSet(left) = ToSet(s) \ ToSet(a)  BY <1>1, ListOfChunks
  <1> HIDE DEF left
  <1>3. /\ IsFiniteSet(ToSet(s)) /\ Cardinality(ToSet(s)) = Len(s)
        /\ Cardinality(ToSet(a)) = Len(a) /\ Cardinality(ToSet(left)) = Len(left)
    BY <1>1, ElementCount
  <1>4. ToSet(s) \cap ToSet(a) = ToSet(a)  OBVIOUS
  <1>5. Cardinality(ToSet(left)) = Cardinality(ToSet(s)) - Cardinality(ToSet(a))
    <2>1. Cardinality(ToSet(s) \ ToSet(a)) = Cardinality(ToSet(s)) - Cardinality(ToSet(s) \cap ToSet(a))
      BY <1>3, FS_Difference
    <2> QED  BY <1>2, <1>4, <2>1
  <1>6. Len(left) \in Nat /\ Len(s) \in Nat /\ Len(a) \in Nat  BY <1>1, LenProperties
  <1> QED  BY <1>3, <1>5, <1>6 DEF left

\* What the cap keeps: no more than there was, and the firm ones
LEMMA CappedFacts ==
  ASSUME NEW s \in Seq(Chunks), IsInjective(s)
  PROVE  /\ Capped(s) \in Seq(Chunks) /\ IsInjective(Capped(s))
         /\ ToSet(Capped(s)) \subseteq ToSet(s)
         /\ Capped(s) = s \/ Firm(s) \cap ToSet(s) \subseteq ToSet(Capped(s))
  <1> DEFINE limit == TopKRerank + RerankSpare
             firm == Among(s, Firm(s))
             other == Among(s, Chunks \ Firm(s))
             room == Room(limit, Len(firm))
  <1>1. /\ firm \in Seq(Chunks) /\ IsInjective(firm) /\ ToSet(firm) = ToSet(s) \cap Firm(s)
        /\ other \in Seq(Chunks) /\ IsInjective(other) /\ ToSet(other) = ToSet(s) \cap (Chunks \ Firm(s))
    BY AmongFacts
  <1>2. room \in Nat
    <2>1. limit \in Nat  BY NumberAssumption
    <2> HIDE DEF limit, firm
    <2>2. Len(firm) \in Nat  BY <1>1, LenProperties
    <2> QED  BY <2>1, <2>2 DEF Room
  <1>3. Capped(s) = s \/ Capped(s) = firm \o First(other, room)  BY DEF Capped
  <1> HIDE DEF firm, other, room
  <1>4. /\ First(other, room) \in Seq(Chunks) /\ IsInjective(First(other, room))
        /\ ToSet(First(other, room)) \subseteq ToSet(other)
    BY <1>1, <1>2, FirstFacts
  <1>5. ToSet(firm) \cap ToSet(First(other, room)) = {}  BY <1>1, <1>4
  <1>6. /\ firm \o First(other, room) \in Seq(Chunks)
        /\ IsInjective(firm \o First(other, room))
        /\ ToSet(firm \o First(other, room)) = ToSet(firm) \union ToSet(First(other, room))
    BY <1>1, <1>4, <1>5, JoinedSet
  <1> QED  BY <1>1, <1>3, <1>4, <1>6

\* The slots of a framework are filled as far as there are names.
LEMMA FilledFacts ==
  ASSUME NEW s \in Seq(Chunks), NEW score, NEW floor, NEW slots \in Nat
  PROVE  /\ Filled(s, score, floor, slots) \in Seq(Chunks)
         /\ ToSet(Filled(s, score, floor, slots)) \subseteq ToSet(s)
         /\ IsInjective(Filled(s, score, floor, slots))
         /\ Len(Filled(s, score, floor, slots)) <= slots
         /\ \/ Len(Filled(s, score, floor, slots)) = slots
            \/ Len(Filled(s, score, floor, slots)) = Cardinality({Label[c] : c \in ToSet(s) \cap Labelled})
  <1> DEFINE named == Among(s, Labelled)
             best == Distinct(named, Label)
             high == Among(best, {c \in ToSet(s) : score[c] >= floor})
             above == First(high, slots)
             left == Among(best, Chunks \ ToSet(above))
             more == First(left, Room(slots, Len(above)))
  <1>1. named \in Seq(Chunks) /\ ToSet(named) = ToSet(s) \cap Labelled  BY AmongFacts
  <1>2. Filled(s, score, floor, slots) = above \o more  BY DEF Filled
  <1> HIDE DEF named
  <1>3. best \in Seq(Chunks) /\ ToSet(best) \subseteq ToSet(named) /\ IsInjective(best)
    BY <1>1, DistinctFacts
  <1>4. Cardinality({Label[c] : c \in ToSet(named)}) = Len(best)
    BY <1>1, DistinctCount
  <1> HIDE DEF best
  <1>5. high \in Seq(Chunks) /\ ToSet(high) \subseteq ToSet(best) /\ IsInjective(high)
    BY <1>3, AmongFacts
  <1> HIDE DEF high
  <1>6. /\ above \in Seq(Chunks) /\ ToSet(above) \subseteq ToSet(high) /\ IsInjective(above)
        /\ Len(above) = IF slots <= Len(high) THEN slots ELSE Len(high)
    BY <1>5, FirstFacts
  <1> HIDE DEF above
  <1>7. /\ left \in Seq(Chunks) /\ ToSet(left) = ToSet(best) \cap (Chunks \ ToSet(above)) /\ IsInjective(left)
    BY <1>3, AmongFacts
  <1>8. Len(left) = Len(best) - Len(above) /\ Len(above) <= Len(best)
    BY <1>3, <1>5, <1>6, OthersCount
  <1> HIDE DEF left
  <1>9. Len(above) \in Nat /\ Len(left) \in Nat /\ Len(best) \in Nat /\ Len(high) \in Nat
    BY <1>3, <1>5, <1>6, <1>7, LenProperties
  <1>10. Len(above) <= slots
    <2>1. CASE slots <= Len(high)  BY <1>6, <1>9, <2>1
    <2>2. CASE ~(slots <= Len(high))  BY <1>6, <1>9, <2>2
    <2> QED  BY <2>1, <2>2
  <1>11. Room(slots, Len(above)) = slots - Len(above)  BY <1>9, <1>10 DEF Room
  <1>12. /\ more \in Seq(Chunks) /\ ToSet(more) \subseteq ToSet(left) /\ IsInjective(more)
         /\ Len(more) = IF slots - Len(above) <= Len(left) THEN slots - Len(above) ELSE Len(left)
    <2>1. slots - Len(above) \in Nat  BY <1>9, <1>10
    <2> QED  BY <1>7, <1>11, <2>1, FirstFacts
  <1> HIDE DEF more
  <1>13. ToSet(above) \cap ToSet(more) = {}  BY <1>7, <1>12
  <1>14. /\ above \o more \in Seq(Chunks) /\ IsInjective(above \o more)
         /\ ToSet(above \o more) = ToSet(above) \union ToSet(more)
         /\ Len(above \o more) = Len(above) + Len(more)
    <2>1. above \in Seq(Chunks) /\ more \in Seq(Chunks) /\ IsInjective(above) /\ IsInjective(more)
      BY <1>6, <1>12
    <2> QED  BY <1>13, <2>1, JoinedSet
  <1>15. Len(above \o more) <= slots /\ (Len(above \o more) = slots \/ Len(above \o more) = Len(best))
    <2>1. CASE slots - Len(above) <= Len(left)  BY <1>8, <1>9, <1>10, <1>12, <1>14, <2>1
    <2>2. CASE ~(slots - Len(above) <= Len(left))  BY <1>8, <1>9, <1>10, <1>12, <1>14, <2>2
    <2> QED  BY <2>1, <2>2
  <1>16. ToSet(above \o more) \subseteq ToSet(s)
    BY <1>1, <1>3, <1>5, <1>6, <1>7, <1>12, <1>14
  <1> QED  BY <1>1, <1>2, <1>4, <1>14, <1>15, <1>16

\* The scores as the coverage guarantee raises them are numbers still.
LEMMA BoostedFacts ==
  ASSUME NEW s \in Seq(Chunks), NEW score, \A c \in ToSet(s) : score[c] \in Int
  PROVE  \A c \in ToSet(s) : Boosted(s, score)[c] \in Int
  <1>1. SUFFICES ASSUME NEW c \in ToSet(s)  PROVE Boosted(s, score)[c] \in Int
    OBVIOUS
  <1>2. Boosted(s, score)[c] = IF c \in Covering(s) THEN Max({score[c], CoverageFloor}) ELSE score[c]
    BY DEF Boosted
  <1>3. CoverageFloor \in Int /\ score[c] \in Int  BY NumberAssumption
  <1>4. Max({score[c], CoverageFloor}) \in Int
    <2> DEFINE x == score[c]
    <2>1. x \in Int  BY <1>3
    <2> HIDE DEF x
    <2>2. Max({x, CoverageFloor}) \in {x, CoverageFloor}  BY <1>3, <2>1, MaxOfTwo
    <2> QED  BY <1>3, <2>1, <2>2 DEF x
  <1> QED  BY <1>2, <1>3, <1>4

\* The CIS candidates that count: chunks of the list, each once, with one of
\* every mapped control that the list has.
LEMMA CombinedFacts ==
  ASSUME NEW s \in Seq(Chunks), IsInjective(s),
         NEW score, \A c \in ToSet(s) : score[c] \in Int
  PROVE  /\ CisCombined(s, score) \in Seq(Chunks) /\ IsInjective(CisCombined(s, score))
         /\ ToSet(CisCombined(s, score)) \subseteq ToSet(s) \cap Of("cis")
         /\ \A k \in ToSet(mapped) :
              ToSet(s) \cap OfControl(k) # {} => ToSet(CisCombined(s, score)) \cap OfControl(k) # {}
  <1> DEFINE ours == Among(s, {c \in Of("cis") : ChunkOf[c].control \in ToSet(mapped)})
             cover == Covering(s)
             others == {c \in (ToSet(s) \cap Of("cis")) \ cover :
                          ChunkOf[c].control \in ToSet(mapped) \/ score[c] >= CrossThreshold}
             a == Among(s, cover)
             b == Among(s, others)
             t == CisCombined(s, score)
  <1>1. /\ ours \in Seq(Chunks)
        /\ ToSet(ours) = ToSet(s) \cap {c \in Of("cis") : ChunkOf[c].control \in ToSet(mapped)}
    BY AmongFacts
  <1>2. cover = ToSet(Distinct(ours, ControlOf))  BY DEF Covering
  <1>3. t = Ranked(a \o b, Boosted(s, score))  BY DEF CisCombined
  <1> HIDE DEF ours
  <1>4. /\ cover \subseteq ToSet(ours)
        /\ {ControlOf[c] : c \in cover} = {ControlOf[c] : c \in ToSet(ours)}
    <2> DEFINE each == Distinct(ours, ControlOf)
    <2>1. /\ ToSet(each) \subseteq ToSet(ours)
          /\ {ControlOf[c] : c \in ToSet(each)} = {ControlOf[c] : c \in ToSet(ours)}
      BY <1>1, DistinctFacts
    <2>2. cover = ToSet(each)  BY <1>2
    <2> HIDE DEF each, cover
    <2> QED  BY <2>1, <2>2
  <1>5. others \subseteq ToSet(s) \cap Of("cis") /\ cover \cap others = {}  OBVIOUS
  <1> HIDE DEF cover, others
  <1>6. /\ a \in Seq(Chunks) /\ IsInjective(a) /\ ToSet(a) = ToSet(s) \cap cover
        /\ b \in Seq(Chunks) /\ IsInjective(b) /\ ToSet(b) = ToSet(s) \cap others
    BY AmongFacts
  <1> HIDE DEF a, b
  <1>7. ToSet(a) \cap ToSet(b) = {}  BY <1>5, <1>6
  <1>8. a \o b \in Seq(Chunks) /\ IsInjective(a \o b) /\ ToSet(a \o b) = ToSet(a) \union ToSet(b)
    BY <1>6, <1>7, JoinedSet
  <1>9. \A c \in ToSet(a \o b) : Boosted(s, score)[c] \in Int
    BY <1>6, <1>8, BoostedFacts
  <1>10. /\ t \in Seq(Chunks) /\ IsInjective(t) /\ ToSet(t) = ToSet(a) \union ToSet(b)
    <2> DEFINE joined == a \o b
               worth == Boosted(s, score)
    <2>1. joined \in Seq(Chunks) /\ \A c \in ToSet(joined) : worth[c] \in Int  BY <1>8, <1>9
    <2>2. t = Ranked(joined, worth)  BY <1>3
    <2>3. IsInjective(joined) /\ ToSet(joined) = ToSet(a) \union ToSet(b)  BY <1>8
    <2> HIDE DEF t, joined, worth
    <2> QED  BY <2>1, <2>2, <2>3, RankedFacts
  <1> HIDE DEF t
  <1>11. ToSet(t) \subseteq ToSet(s) \cap Of("cis") /\ cover \subseteq ToSet(t)
    BY <1>1, <1>4, <1>5, <1>6, <1>10
  <1>12. ASSUME NEW k \in ToSet(mapped), NEW c \in ToSet(s) \cap OfControl(k)
         PROVE  ToSet(t) \cap OfControl(k) # {}
    <2>1. c \in Of("cis") /\ c \in Chunks /\ ChunkOf[c].control = k
      BY <1>12, FrameworksApart DEF OfControl
    <2>2. c \in ToSet(ours) /\ ControlOf[c] = k  BY <1>1, <2>1 DEF ControlOf
    <2>3. k \in {ControlOf[d] : d \in cover}
      <3>1. k \in {ControlOf[d] : d \in ToSet(ours)}  BY <2>2
      <3> QED  BY <1>4, <3>1
    <2>4. PICK d \in cover : ControlOf[d] = k  BY <2>3
    <2>5. d \in Of("cis") /\ d \in Chunks /\ d \in ToSet(t)  BY <1>11, <2>4, FrameworksApart
    <2>6. d \in OfControl(k)  BY <2>4, <2>5 DEF OfControl, ControlOf
    <2> QED  BY <2>5, <2>6
  <1> QED  BY <1>10, <1>11, <1>12 DEF t

\* The slots of the CIS controls: one chunk for each of the first controls, and
\* every mapped control that has a chunk, unless there are too many.
LEMMA CisFacts ==
  ASSUME NEW combined \in Seq(Chunks), IsInjective(combined), ToSet(combined) \subseteq Of("cis")
  PROVE  /\ CisFilled(combined) \in Seq(Chunks) /\ IsInjective(CisFilled(combined))
         /\ ToSet(CisFilled(combined)) \subseteq ToSet(combined)
         /\ Len(CisFilled(combined)) <= CisGuaranteed
         /\ \A k \in ToSet(ControlOrder) :
              ToSet(combined) \cap OfControl(k) # {} =>
                \/ ToSet(CisFilled(combined)) \cap OfControl(k) # {}
                \/ Cardinality({ChunkOf[c].control : c \in ToSet(CisFilled(combined))}) = CisGuaranteed
  <1> DEFINE named == Among(combined, {c \in Chunks : ControlOf[c] # ""})
             each == Distinct(named, ControlOf)
             cis == CisFilled(combined)
  <1>1. named \in Seq(Chunks) /\ ToSet(named) = ToSet(combined) \cap {c \in Chunks : ControlOf[c] # ""}
    BY AmongFacts
  <1>2. cis = First(each, CisGuaranteed)  BY DEF CisFilled
  <1> HIDE DEF named, cis
  <1>3. /\ each \in Seq(Chunks) /\ ToSet(each) \subseteq ToSet(named) /\ IsInjective(each)
        /\ \A i, k \in DOMAIN each : ControlOf[each[i]] = ControlOf[each[k]] => i = k
        /\ {ControlOf[c] : c \in ToSet(each)} = {ControlOf[c] : c \in ToSet(named)}
    BY <1>1, DistinctFacts
  <1>4. CisGuaranteed \in Nat  BY NumberAssumption
  <1> HIDE DEF each
  <1>5. /\ cis \in Seq(Chunks) /\ IsInjective(cis) /\ ToSet(cis) \subseteq ToSet(each)
        /\ Len(cis) = IF CisGuaranteed <= Len(each) THEN CisGuaranteed ELSE Len(each)
        /\ DOMAIN cis \subseteq DOMAIN each /\ \A i \in DOMAIN cis : cis[i] = each[i]
        /\ Len(each) <= CisGuaranteed => cis = each
    <2> DEFINE head == First(each, CisGuaranteed)
    <2>1. /\ head \in Seq(Chunks) /\ (IsInjective(each) => IsInjective(head))
          /\ ToSet(head) \subseteq ToSet(each)
          /\ Len(head) = IF CisGuaranteed <= Len(each) THEN CisGuaranteed ELSE Len(each)
          /\ DOMAIN head \subseteq DOMAIN each /\ \A i \in DOMAIN head : head[i] = each[i]
          /\ Len(each) <= CisGuaranteed => head = each
      BY <1>3, <1>4, FirstFacts
    <2>2. cis = head  BY <1>2
    <2> HIDE DEF head
    <2> QED  BY <1>3, <2>1, <2>2
  <1>6. Len(each) \in Nat /\ Len(cis) \in Nat  BY <1>3, <1>5, LenProperties
  <1>7. /\ Len(cis) <= CisGuaranteed
        /\ Len(cis) = CisGuaranteed \/ Len(each) <= CisGuaranteed
    <2>1. CASE CisGuaranteed <= Len(each)  BY <1>5, <1>6, <1>4, <2>1
    <2>2. CASE ~(CisGuaranteed <= Len(each))  BY <1>5, <1>6, <1>4, <2>2
    <2> QED  BY <2>1, <2>2
  <1>8. Cardinality({ChunkOf[c].control : c \in ToSet(cis)}) = Len(cis)
    <2>1. \A i, k \in DOMAIN cis : ControlOf[cis[i]] = ControlOf[cis[k]] => i = k
      BY <1>3, <1>5
    <2>2. Cardinality({ControlOf[c] : c \in ToSet(cis)}) = Len(cis)
      <3>1. cis \in Seq(Chunks)  BY <1>5
      <3> QED  BY <2>1, <3>1, ValueCount
    <2>3. \A c \in ToSet(cis) : ControlOf[c] = ChunkOf[c].control
      BY <1>5, ListOfChunks DEF ControlOf
    <2>4. {ControlOf[c] : c \in ToSet(cis)} = {ChunkOf[c].control : c \in ToSet(cis)}  BY <2>3
    <2> QED  BY <2>2, <2>4
  <1>9. ASSUME NEW k \in ToSet(ControlOrder), NEW c \in ToSet(combined) \cap OfControl(k),
               Len(each) <= CisGuaranteed
        PROVE  ToSet(cis) \cap OfControl(k) # {}
    <2>1. c \in Chunks /\ ControlOf[c] = k /\ k # ""
      BY FrameworksApart, NameAssumption DEF OfControl, ControlOf
    <2>2. c \in ToSet(named)  BY <1>1, <2>1
    <2>3. PICK d \in ToSet(each) : ControlOf[d] = k  BY <1>3, <2>1, <2>2
    <2>4. d \in Of("cis") /\ d \in Chunks  BY <1>1, <1>3, <2>3
    <2>5. d \in OfControl(k)  BY <2>3, <2>4 DEF OfControl, ControlOf
    <2> QED  BY <1>5, <1>9, <2>3, <2>5
  <1>10. ToSet(cis) \subseteq ToSet(combined)  BY <1>1, <1>3, <1>5
  <1> QED  BY <1>5, <1>7, <1>8, <1>9, <1>10 DEF cis

\* A framework's slots after the reranker, over the candidates kept.
LEMMA SlotsFilled ==
  ASSUME NEW s \in Seq(Chunks), NEW score, NEW f, NEW floor, NEW slots \in Nat
  PROVE  /\ Filled(Among(s, Of(f)), score, floor, slots) \in Seq(Chunks)
         /\ ToSet(Filled(Among(s, Of(f)), score, floor, slots)) \subseteq ToSet(s) \cap Of(f)
         /\ IsInjective(Filled(Among(s, Of(f)), score, floor, slots))
         /\ Len(Filled(Among(s, Of(f)), score, floor, slots)) <= slots
         /\ \/ Len(Filled(Among(s, Of(f)), score, floor, slots)) = slots
            \/ Len(Filled(Among(s, Of(f)), score, floor, slots)) = Cardinality(Labels(f, s))
  <1> DEFINE own == Among(s, Of(f))
             names == {Label[c] : c \in ToSet(own) \cap Labelled}
  <1>1. own \in Seq(Chunks) /\ ToSet(own) = ToSet(s) \cap Of(f)  BY AmongFacts
  <1>2. names = Labels(f, s)  BY <1>1 DEF Labels
  <1> HIDE DEF own
  <1>3. /\ Filled(own, score, floor, slots) \in Seq(Chunks)
        /\ ToSet(Filled(own, score, floor, slots)) \subseteq ToSet(own)
        /\ IsInjective(Filled(own, score, floor, slots))
        /\ Len(Filled(own, score, floor, slots)) <= slots
        /\ \/ Len(Filled(own, score, floor, slots)) = slots
           \/ Len(Filled(own, score, floor, slots)) = Cardinality(names)
    BY <1>1, FilledFacts
  <1> HIDE DEF names
  <1> QED  BY <1>1, <1>2, <1>3 DEF own

\* There are finitely many names.
LEMMA LabelsFinite ==
  ASSUME NEW s \in Seq(Chunks), NEW f
  PROVE  IsFiniteSet(Labels(f, s)) /\ Cardinality(Labels(f, s)) \in Nat
  <1> DEFINE own == Among(s, Of(f) \cap Labelled)
  <1>1. own \in Seq(Chunks) /\ ToSet(own) = ToSet(s) \cap (Of(f) \cap Labelled)  BY AmongFacts
  <1>2. Labels(f, s) = {Label[c] : c \in ToSet(own)}  BY <1>1 DEF Labels
  <1> HIDE DEF own
  <1>3. IsFiniteSet({Label[c] : c \in ToSet(own)})  BY <1>1, DistinctCount
  <1> QED  BY <1>2, <1>3, FS_CardinalityType

\* The results: as many as there may be, none twice, the slots of NIST and HIPAA
\* filled as far as there are names, the mapped controls covered.
LEMMA ChosenFacts ==
  ASSUME kept \in Seq(Chunks), IsInjective(kept), ToSet(mapped) \subseteq ToSet(ControlOrder),
         NEW score \in [ToSet(kept) -> Scores]
  PROVE  /\ Chosen(score) \in Seq(Chunks)
         /\ Len(Chosen(score)) <= TopKRerank /\ IsInjective(Chosen(score))
         /\ \A f \in {"nist", "hipaa"} :
              Cardinality(ToSet(Chosen(score)) \cap Of(f)) >= Min({Slots[f], Cardinality(Labels(f, kept))})
         /\ \A k \in ToSet(mapped) :
              ToSet(kept) \cap OfControl(k) # {} =>
                \/ ToSet(Chosen(score)) \cap OfControl(k) # {}
                \/ Cardinality(CisControlsIn(Chosen(score))) >= CisGuaranteed
  <1> DEFINE scored == Ranked(kept, score)
             worth == Boosted(scored, score)
             nist == Filled(Among(scored, Of("nist")), score, NistFloor, NistGuaranteed)
             hipaa == Filled(Among(scored, Of("hipaa")), score, HipaaFloor, HipaaGuaranteed)
             combined == CisCombined(scored, score)
             cis == CisFilled(combined)
             extra == Among(combined, Chunks \ ToSet(cis))
             room == Room(TopKRerank, Len(nist) + Len(hipaa))
             cisFinal == First(cis \o extra, room)
             firm == nist \o hipaa \o cis
             guaranteed == Ranked(firm, worth)
             others == Among(cisFinal, Chunks \ ToSet(guaranteed))
             rest == Ranked(others, worth)
             spare == Room(TopKRerank, Len(guaranteed))
             more == First(rest, spare)
             t == Chosen(score)
  <1>1. t = guaranteed \o more  BY DEF Chosen
  <1> HIDE DEF t
  <1>2. \A c \in ToSet(kept) : score[c] \in Int  BY NumberAssumption
  <1>3. /\ scored \in Seq(Chunks) /\ ToSet(scored) = ToSet(kept) /\ IsInjective(scored)
    BY <1>2, RankedFacts
  <1> HIDE DEF scored
  <1>4. \A c \in ToSet(kept) : worth[c] \in Int  BY <1>2, <1>3, BoostedFacts
  <1> HIDE DEF worth
  <1>5. /\ NistGuaranteed \in Nat /\ HipaaGuaranteed \in Nat /\ CisGuaranteed \in Nat /\ TopKRerank \in Nat
    BY NumberAssumption
  <1>6. /\ nist \in Seq(Chunks) /\ ToSet(nist) \subseteq ToSet(scored) \cap Of("nist") /\ IsInjective(nist)
        /\ Len(nist) <= NistGuaranteed
        /\ Len(nist) = NistGuaranteed \/ Len(nist) = Cardinality(Labels("nist", scored))
    BY <1>3, <1>5, SlotsFilled
  <1>7. /\ hipaa \in Seq(Chunks) /\ ToSet(hipaa) \subseteq ToSet(scored) \cap Of("hipaa") /\ IsInjective(hipaa)
        /\ Len(hipaa) <= HipaaGuaranteed
        /\ Len(hipaa) = HipaaGuaranteed \/ Len(hipaa) = Cardinality(Labels("hipaa", scored))
    BY <1>3, <1>5, SlotsFilled
  <1>8. /\ combined \in Seq(Chunks) /\ IsInjective(combined)
        /\ ToSet(combined) \subseteq ToSet(kept) \cap Of("cis")
        /\ \A k \in ToSet(mapped) :
             ToSet(kept) \cap OfControl(k) # {} => ToSet(combined) \cap OfControl(k) # {}
    BY <1>2, <1>3, CombinedFacts
  <1> HIDE DEF nist, hipaa, combined
  <1>9. /\ cis \in Seq(Chunks) /\ IsInjective(cis) /\ ToSet(cis) \subseteq ToSet(combined)
        /\ Len(cis) <= CisGuaranteed
        /\ \A k \in ToSet(ControlOrder) :
             ToSet(combined) \cap OfControl(k) # {} =>
               \/ ToSet(cis) \cap OfControl(k) # {}
               \/ Cardinality({ChunkOf[c].control : c \in ToSet(cis)}) = CisGuaranteed
    BY <1>8, CisFacts
  <1> HIDE DEF cis
  <1>10. Len(nist) \in Nat /\ Len(hipaa) \in Nat /\ Len(cis) \in Nat
    BY <1>6, <1>7, <1>9, LenProperties
  <1>11. /\ firm \in Seq(Chunks) /\ IsInjective(firm)
         /\ ToSet(firm) = ToSet(nist) \union ToSet(hipaa) \union ToSet(cis)
         /\ Len(firm) = Len(nist) + Len(hipaa) + Len(cis)
    <2> DEFINE both == nist \o hipaa
    <2>1. /\ ToSet(nist) \cap ToSet(hipaa) = {}
          /\ (ToSet(nist) \union ToSet(hipaa)) \cap ToSet(cis) = {}
      BY <1>6, <1>7, <1>8, <1>9, FrameworksApart
    <2>2. nist \in Seq(Chunks) /\ hipaa \in Seq(Chunks) /\ IsInjective(nist) /\ IsInjective(hipaa)
      BY <1>6, <1>7
    <2>3. /\ both \in Seq(Chunks) /\ IsInjective(both) /\ ToSet(both) = ToSet(nist) \union ToSet(hipaa)
          /\ Len(both) = Len(nist) + Len(hipaa)
      BY <2>1, <2>2, JoinedSet
    <2>4. firm = both \o cis  OBVIOUS
    <2> HIDE DEF both, firm
    <2>5. cis \in Seq(Chunks) /\ IsInjective(cis)  BY <1>9
    <2>6. both \in Seq(Chunks) /\ IsInjective(both) /\ ToSet(both) \cap ToSet(cis) = {}  BY <2>1, <2>3
    <2>7. /\ both \o cis \in Seq(Chunks) /\ IsInjective(both \o cis)
          /\ ToSet(both \o cis) = ToSet(both) \union ToSet(cis)
          /\ Len(both \o cis) = Len(both) + Len(cis)
      BY <2>5, <2>6, JoinedSet
    <2> QED  BY <2>3, <2>4, <2>7
  <1>12. ToSet(firm) \subseteq ToSet(kept)  BY <1>3, <1>6, <1>7, <1>8, <1>9, <1>11
  <1>13. Len(firm) \in Nat /\ Len(firm) <= TopKRerank
    <2>1. Len(nist) <= NistGuaranteed /\ Len(hipaa) <= HipaaGuaranteed /\ Len(cis) <= CisGuaranteed
      BY <1>6, <1>7, <1>9
    <2>2. Len(firm) = Len(nist) + Len(hipaa) + Len(cis)  BY <1>11
    <2> HIDE DEF firm
    <2> QED  BY <1>5, <1>10, <2>1, <2>2, SlotsAssumption
  <1> HIDE DEF firm
  <1>14. /\ guaranteed \in Seq(Chunks) /\ IsInjective(guaranteed) /\ ToSet(guaranteed) = ToSet(firm)
         /\ Len(guaranteed) = Len(firm)
    <2>1. \A c \in ToSet(firm) : worth[c] \in Int  BY <1>4, <1>12
    <2> QED  BY <1>11, <2>1, RankedFacts
  <1> HIDE DEF guaranteed
  <1>15. /\ cis \o extra \in Seq(Chunks) /\ IsInjective(cis \o extra)
         /\ ToSet(cis \o extra) \subseteq ToSet(kept)
    <2>1. /\ extra \in Seq(Chunks) /\ IsInjective(extra)
          /\ ToSet(extra) = ToSet(combined) \cap (Chunks \ ToSet(cis))
      BY <1>8, AmongFacts
    <2> HIDE DEF extra
    <2>2. ToSet(cis) \cap ToSet(extra) = {}  BY <2>1
    <2>3. cis \in Seq(Chunks) /\ IsInjective(cis) /\ extra \in Seq(Chunks) /\ IsInjective(extra)
      BY <1>9, <2>1
    <2>4. /\ cis \o extra \in Seq(Chunks) /\ IsInjective(cis \o extra)
          /\ ToSet(cis \o extra) = ToSet(cis) \union ToSet(extra)
      BY <2>2, <2>3, JoinedSet
    <2> QED  BY <1>8, <1>9, <2>1, <2>4
  <1> HIDE DEF extra
  <1>16. room \in Nat
    <2>1. Len(nist) + Len(hipaa) \in Nat  BY <1>10
    <2> QED  BY <1>5, <2>1 DEF Room
  <1> HIDE DEF room
  <1>17. /\ cisFinal \in Seq(Chunks) /\ IsInjective(cisFinal) /\ ToSet(cisFinal) \subseteq ToSet(kept)
    <2> DEFINE both == cis \o extra
    <2>1. both \in Seq(Chunks) /\ IsInjective(both) /\ ToSet(both) \subseteq ToSet(kept)  BY <1>15
    <2>2. cisFinal = First(both, room)  OBVIOUS
    <2> HIDE DEF both, cisFinal
    <2> QED  BY <1>16, <2>1, <2>2, FirstFacts
  <1> HIDE DEF cisFinal
  <1>18. /\ others \in Seq(Chunks) /\ IsInjective(others)
         /\ ToSet(others) = ToSet(cisFinal) \cap (Chunks \ ToSet(guaranteed))
    BY <1>17, AmongFacts
  <1> HIDE DEF others
  <1>19. rest \in Seq(Chunks) /\ IsInjective(rest) /\ ToSet(rest) = ToSet(others)
    <2>1. \A c \in ToSet(others) : worth[c] \in Int  BY <1>4, <1>17, <1>18
    <2> QED  BY <1>18, <2>1, RankedFacts
  <1> HIDE DEF rest
  <1>20. spare = TopKRerank - Len(firm) /\ spare \in Nat
    BY <1>5, <1>13, <1>14 DEF Room
  <1> HIDE DEF spare
  <1>21. /\ more \in Seq(Chunks) /\ IsInjective(more) /\ ToSet(more) \subseteq ToSet(rest)
         /\ Len(more) = IF spare <= Len(rest) THEN spare ELSE Len(rest)
    BY <1>19, <1>20, FirstFacts
  <1> HIDE DEF more
  <1>22. /\ t \in Seq(Chunks) /\ IsInjective(t) /\ ToSet(t) = ToSet(guaranteed) \union ToSet(more)
         /\ Len(t) = Len(guaranteed) + Len(more)
    <2>1. ToSet(guaranteed) \cap ToSet(more) = {}  BY <1>18, <1>19, <1>21
    <2>2. guaranteed \in Seq(Chunks) /\ IsInjective(guaranteed) /\ more \in Seq(Chunks) /\ IsInjective(more)
      BY <1>14, <1>21
    <2>3. /\ guaranteed \o more \in Seq(Chunks) /\ IsInjective(guaranteed \o more)
          /\ ToSet(guaranteed \o more) = ToSet(guaranteed) \union ToSet(more)
          /\ Len(guaranteed \o more) = Len(guaranteed) + Len(more)
      BY <2>1, <2>2, JoinedSet
    <2> QED  BY <1>1, <2>3
  <1>23. Len(t) <= TopKRerank
    <2>1. Len(more) <= spare
      <3>1. Len(rest) \in Nat  BY <1>19, LenProperties
      <3>2. CASE spare <= Len(rest)  BY <1>20, <1>21, <3>2
      <3>3. CASE ~(spare <= Len(rest))  BY <1>20, <1>21, <3>1, <3>3
      <3> QED  BY <3>2, <3>3
    <2>2. Len(more) \in Nat  BY <1>21, LenProperties
    <2>3. Len(t) = Len(firm) + Len(more)  BY <1>14, <1>22
    <2> QED  BY <1>5, <1>13, <1>20, <2>1, <2>2, <2>3
  <1>24. ToSet(nist) \subseteq ToSet(t) /\ ToSet(hipaa) \subseteq ToSet(t) /\ ToSet(cis) \subseteq ToSet(t)
    BY <1>11, <1>14, <1>22
  <1>25. IsFiniteSet(ToSet(t))  BY <1>22, ElementCount
  <1>26. ASSUME NEW f \in {"nist", "hipaa"}, NEW own \in Seq(Chunks), IsInjective(own),
                ToSet(own) \subseteq ToSet(t) \cap Of(f), NEW slots \in Nat,
                Len(own) = slots \/ Len(own) = Cardinality(Labels(f, kept))
         PROVE  Cardinality(ToSet(t) \cap Of(f)) >= Min({slots, Cardinality(Labels(f, kept))})
    <2> DEFINE a == Cardinality(ToSet(t) \cap Of(f))
               b == Cardinality(Labels(f, kept))
    <2>1. IsFiniteSet(ToSet(t) \cap Of(f))  BY <1>25, FS_Subset
    <2>2. Cardinality(ToSet(own)) = Len(own)  BY <1>26, ElementCount
    <2>3. a \in Nat /\ Cardinality(ToSet(own)) <= a
      BY <1>26, <2>1, FS_Subset, FS_CardinalityType
    <2>4. b \in Nat  BY LabelsFinite
    <2>5. Len(own) = slots \/ Len(own) = b  BY <1>26
    <2> HIDE DEF a, b
    <2>6. Min({slots, b}) = IF slots <= b THEN slots ELSE b  BY <2>4, MinOfTwo
    <2>7. a >= Min({slots, b})
      <3>1. CASE slots <= b  BY <2>2, <2>3, <2>4, <2>5, <2>6, <3>1
      <3>2. CASE ~(slots <= b)  BY <2>2, <2>3, <2>4, <2>5, <2>6, <3>2
      <3> QED  BY <3>1, <3>2
    <2> QED  BY <2>7 DEF a, b
  <1>27. \A f : Labels(f, scored) = Labels(f, kept)  BY <1>3 DEF Labels
  <1>28. ASSUME NEW f \in {"nist", "hipaa"}
         PROVE  Cardinality(ToSet(t) \cap Of(f)) >= Min({Slots[f], Cardinality(Labels(f, kept))})
    <2>1. CASE f = "nist"
      <3>1. Slots[f] = NistGuaranteed  BY <2>1 DEF Slots
      <3>2. /\ nist \in Seq(Chunks) /\ IsInjective(nist) /\ ToSet(nist) \subseteq ToSet(t) \cap Of(f)
            /\ Len(nist) = NistGuaranteed \/ Len(nist) = Cardinality(Labels(f, kept))
        BY <1>6, <1>24, <1>27, <2>1
      <3> QED  BY <1>5, <1>26, <3>1, <3>2
    <2>2. CASE f = "hipaa"
      <3>1. Slots[f] = HipaaGuaranteed  BY <2>2 DEF Slots
      <3>2. /\ hipaa \in Seq(Chunks) /\ IsInjective(hipaa) /\ ToSet(hipaa) \subseteq ToSet(t) \cap Of(f)
            /\ Len(hipaa) = HipaaGuaranteed \/ Len(hipaa) = Cardinality(Labels(f, kept))
        BY <1>7, <1>24, <1>27, <2>2
      <3> QED  BY <1>5, <1>26, <3>1, <3>2
    <2> QED  BY <2>1, <2>2
  <1>29. ASSUME NEW k \in ToSet(mapped), ToSet(kept) \cap OfControl(k) # {}
         PROVE  \/ ToSet(t) \cap OfControl(k) # {}
                \/ Cardinality(CisControlsIn(t)) >= CisGuaranteed
    <2>1. ToSet(combined) \cap OfControl(k) # {}  BY <1>8, <1>29
    <2>2. CASE ToSet(cis) \cap OfControl(k) # {}  BY <1>24, <2>2
    <2>3. CASE Cardinality({ChunkOf[c].control : c \in ToSet(cis)}) = CisGuaranteed
      <3> DEFINE some == {ChunkOf[c].control : c \in ToSet(cis)}
                 all == {ChunkOf[c].control : c \in ToSet(t) \cap Of("cis")}
                 ours == Among(t, Of("cis"))
      <3>1. some \subseteq all
        <4>1. ToSet(cis) \subseteq ToSet(t) \cap Of("cis")  BY <1>8, <1>9, <1>24
        <4> QED  BY <4>1
      <3>2. IsFiniteSet(all)
        <4>1. ours \in Seq(Chunks) /\ ToSet(ours) = ToSet(t) \cap Of("cis")  BY <1>22, AmongFacts
        <4> HIDE DEF ours
        <4>2. IsFiniteSet({ControlOf[c] : c \in ToSet(ours)})  BY <4>1, DistinctCount
        <4>3. all = {ControlOf[c] : c \in ToSet(ours)}
          BY <4>1, FrameworksApart DEF ControlOf
        <4> QED  BY <4>2, <4>3
      <3>3. Cardinality(some) = CisGuaranteed  BY <2>3
      <3> HIDE DEF some, all
      <3>4. Cardinality(some) <= Cardinality(all) /\ Cardinality(all) \in Nat
        BY <3>1, <3>2, FS_Subset, FS_CardinalityType
      <3>5. Cardinality(all) >= CisGuaranteed  BY <1>5, <3>3, <3>4
      <3> QED  BY <3>5 DEF all, CisControlsIn
    <2> QED  BY <1>9, <2>1, <2>2, <2>3
  <1> QED  BY <1>22, <1>23, <1>28, <1>29 DEF t

\* The stages after the candidates are complete
Later == {"filter", "recover", "cap", "expand", "rerank", "returned"}

\* The candidates after each stage, whichever thread was first
Candidates ==
  /\ mapped \in Seq(STRING) /\ ToSet(mapped) \subseteq ToSet(ControlOrder)
  /\ stage = "sweep" => pool = OfEach(mapped)
  /\ stage = "fetch" => pool = With(OfEach(mapped), RowsOf("cis"))
  /\ stage \in Later => pool = InSequence

\* The slots of NIST and HIPAA can be filled from what is kept, and the foremost
\* CIS candidates are still there.
Enough(s) ==
  /\ \A f \in {"nist", "hipaa"} : Cardinality(Labels(f, s)) >= Promised(f)
  /\ ToSet(Foremost("cis")) \subseteq ToSet(s)

\* What is kept after each stage
Survivors ==
  /\ stage \in Later \ {"filter"} => kept \in Seq(Chunks) /\ IsInjective(kept)
  /\ stage = "recover" => Sieved = <<>>
  /\ stage = "cap" => kept = Offered
  /\ stage \in {"expand", "rerank"} => Enough(kept)
  /\ stage # "returned" => results = <<>>

RetrievalInv == Candidates /\ Survivors /\ FrameworksServed

\* What a query finds
LEMMA RowsFacts ==
  ASSUME ToSet(mapped) \subseteq ToSet(ControlOrder)
  PROVE  /\ RowsOf("cis") \in Seq(Chunks) /\ ToSet(RowsOf("cis")) \subseteq Of("cis")
         /\ RowsOf("nist") \in Seq(Chunks) /\ ToSet(RowsOf("nist")) \subseteq Of("nist")
         /\ \A c \in ToSet(RowsOf("nist")) : ChunkOf[c].safeguard # ""
         /\ RowsOf("hipaa") \in Seq(Chunks) /\ ToSet(RowsOf("hipaa")) \subseteq Of("hipaa")
  <1> DEFINE N == {c \in Of("nist") : ChunkOf[c].safeguard \in Subcategories(mapped)}
             H == {c \in Of("hipaa") : ChunkOf[c].control \in Sections}
  <1>1. TopK \in Nat  BY NumberAssumption
  <1>2. RowsOf("cis") = Nearest("log", Of("cis"), TopK)  BY DEF RowsOf
  <1>3. RowsOf("nist") = Nearest("log", N, TopK)  BY DEF RowsOf
  <1>4. RowsOf("hipaa") = Nearest("hipaa", H, TopK)  BY DEF RowsOf
  <1>5. N \subseteq Of("nist") /\ H \subseteq Of("hipaa")  OBVIOUS
  <1>6. "" \notin Subcategories(mapped)  BY NameAssumption DEF Subcategories
  <1>7. \A c \in N : ChunkOf[c].safeguard # ""  BY <1>6
  <1> HIDE DEF N, H
  <1>8. RowsOf("cis") \in Seq(Chunks) /\ ToSet(RowsOf("cis")) \subseteq Of("cis")
    BY <1>1, <1>2, NearestFacts
  <1>9. RowsOf("nist") \in Seq(Chunks) /\ ToSet(RowsOf("nist")) \subseteq N
    BY <1>1, <1>3, NearestFacts
  <1>10. RowsOf("hipaa") \in Seq(Chunks) /\ ToSet(RowsOf("hipaa")) \subseteq H
    BY <1>1, <1>4, NearestFacts
  <1> QED  BY <1>5, <1>7, <1>8, <1>9, <1>10

\* The candidates are chunks, and those of NIST and HIPAA have a safeguard.
LEMMA InSequenceFacts ==
  ASSUME mapped \in Seq(STRING), ToSet(mapped) \subseteq ToSet(ControlOrder)
  PROVE  /\ InSequence \in Seq(Chunks)
         /\ \A c \in ToSet(InSequence) : c \in Of("nist") \/ c \in Of("hipaa") => ChunkOf[c].safeguard # ""
  <1> DEFINE a == OfEach(mapped)
             b == With(a, RowsOf("cis"))
             d == With(b, RowsOf("nist"))
             e == With(d, RowsOf("hipaa"))
  <1>1. a \in Seq(Chunks) /\ ToSet(a) \subseteq Of("cis")  BY OfEachFacts DEF CisLists
  <1>2. InSequence = e  BY DEF InSequence
  <1> HIDE DEF a
  <1>3. b \in Seq(Chunks) /\ ToSet(b) = ToSet(a) \union ToSet(RowsOf("cis"))
    BY <1>1, RowsFacts, WithFacts
  <1> HIDE DEF b
  <1>4. d \in Seq(Chunks) /\ ToSet(d) = ToSet(b) \union ToSet(RowsOf("nist"))
    BY <1>3, RowsFacts, WithFacts
  <1> HIDE DEF d
  <1>5. e \in Seq(Chunks) /\ ToSet(e) = ToSet(d) \union ToSet(RowsOf("hipaa"))
    BY <1>4, RowsFacts, WithFacts
  <1> HIDE DEF e
  <1>6. \A c \in ToSet(e) : \/ c \in Of("cis")
                            \/ c \in ToSet(RowsOf("nist"))
                            \/ c \in Of("hipaa")
    BY <1>1, <1>3, <1>4, <1>5, RowsFacts
  <1>7. ASSUME NEW c \in Of("hipaa")  PROVE ChunkOf[c].safeguard # ""
    BY <1>7, CorpusAssumption DEF Of
  <1>8. ASSUME NEW c \in ToSet(e), c \in Of("nist") \/ c \in Of("hipaa")  PROVE ChunkOf[c].safeguard # ""
    BY <1>6, <1>7, <1>8, RowsFacts, FrameworksApart
  <1> QED  BY <1>2, <1>5, <1>8

\* The cap takes no framework's slots away.
LEMMA CapServes ==
  ASSUME pool \in Seq(Chunks),
         \A c \in ToSet(pool) : c \in Of("nist") \/ c \in Of("hipaa") => ChunkOf[c].safeguard # "",
         NEW f \in {"nist", "hipaa"}
  PROVE  Cardinality(Labels(f, Capped(Sieved))) >= Min({Slots[f], Cardinality(Labels(f, Sieved))})
  <1> DEFINE good == Among(pool, sound)
             s == Sieved
             own == Among(s, Of(f))
             slots == Slots[f]
             head == First(own, slots)
             some == {Label[c] : c \in ToSet(head)}
             x == Cardinality(Labels(f, Capped(s)))
             y == Cardinality(Labels(f, s))
  <1> DEFINE each == Distinct(good, Group)
  <1>1. good \in Seq(Chunks) /\ ToSet(good) \subseteq ToSet(pool)
    <2>1. good \in Seq(Chunks) /\ ToSet(good) = ToSet(pool) \cap sound  BY AmongFacts
    <2> HIDE DEF good
    <2> QED  BY <2>1
  <1>2. s = each  BY DEF Sieved
  <1> HIDE DEF good
  <1>3. /\ each \in Seq(Chunks) /\ ToSet(each) \subseteq ToSet(good) /\ IsInjective(each)
         /\ \A i, k \in DOMAIN each : Group[each[i]] = Group[each[k]] => i = k
    BY <1>1, DistinctFacts
  <1> HIDE DEF s, each
  <1>4. /\ s \in Seq(Chunks) /\ ToSet(s) \subseteq ToSet(pool) /\ IsInjective(s)
        /\ \A i, k \in DOMAIN s : Group[s[i]] = Group[s[k]] => i = k
    BY <1>1, <1>2, <1>3
  <1>5. slots \in Nat
    <2>1. CASE f = "nist"  BY <2>1, NumberAssumption DEF Slots
    <2>2. CASE f = "hipaa"  BY <2>2, NumberAssumption DEF Slots
    <2> QED  BY <2>1, <2>2
  <1> HIDE DEF slots
  <1>6. own \in Seq(Chunks) /\ ToSet(own) = ToSet(s) \cap Of(f) /\ IsInjective(own)
    BY <1>4, AmongFacts
  <1> HIDE DEF own
  <1>7. \A c \in ToSet(own) :
          /\ c \in Chunks /\ Label[c] # "" /\ c \in Labelled
          /\ Group[c] = <<Label[c]>>
    <2>1. SUFFICES ASSUME NEW c \in ToSet(own)
                   PROVE  c \in Chunks /\ Label[c] # "" /\ Group[c] = <<Label[c]>>
      BY DEF Labelled
    <2>2. c \in Chunks /\ ChunkOf[c].safeguard # ""  BY <1>4, <1>6, ListOfChunks
    <2> QED  BY <2>2 DEF Label, Group
  <1>8. \A i, k \in DOMAIN own : Label[own[i]] = Label[own[k]] => i = k
    <2>1. SUFFICES ASSUME NEW i \in DOMAIN own, NEW k \in DOMAIN own, Label[own[i]] = Label[own[k]]
                   PROVE  i = k
      OBVIOUS
    <2>2. own[i] \in ToSet(own) /\ own[k] \in ToSet(own)  BY DEF ToSet
    <2>3. Group[own[i]] = Group[own[k]]  BY <1>7, <2>1, <2>2
    <2>4. own[i] \in ToSet(s) /\ own[k] \in ToSet(s)  BY <1>6, <2>2
    <2>5. own[i] = own[k]  BY <1>4, <2>3, <2>4 DEF ToSet
    <2> QED  BY <1>6, <2>5 DEF IsInjective
  <1>9. Labels(f, s) = {Label[c] : c \in ToSet(own)}
    BY <1>6, <1>7 DEF Labels
  <1>10. y = Len(own) /\ Len(own) \in Nat
    <2>1. Cardinality({Label[c] : c \in ToSet(own)}) = Len(own)  BY <1>6, <1>8, ValueCount
    <2> QED  BY <1>6, <1>9, <2>1, LenProperties
  <1>11. /\ head \in Seq(Chunks) /\ ToSet(head) \subseteq ToSet(own)
         /\ Len(head) = IF slots <= Len(own) THEN slots ELSE Len(own)
         /\ \A i \in DOMAIN head : i \in DOMAIN own /\ head[i] = own[i]
    BY <1>5, <1>6, FirstFacts
  <1>12. ToSet(head) \subseteq Firm(s)
    <2>1. f \in Frameworks  BY DEF Frameworks
    <2> QED  BY <2>1 DEF Firm, own, slots, head
  <1> HIDE DEF head
  <1>13. Cardinality(some) = Len(head)
    <2>1. \A i, k \in DOMAIN head : Label[head[i]] = Label[head[k]] => i = k
      BY <1>8, <1>11
    <2>2. head \in Seq(Chunks)  BY <1>11
    <2> QED  BY <2>1, <2>2, ValueCount
  <1>14. /\ Capped(s) \in Seq(Chunks)
         /\ Capped(s) = s \/ Firm(s) \cap ToSet(s) \subseteq ToSet(Capped(s))
    BY <1>4, CappedFacts
  <1>15. x \in Nat /\ IsFiniteSet(Labels(f, Capped(s)))  BY <1>14, LabelsFinite
  <1>16. y \in Nat  BY <1>10
  <1>17. CASE Capped(s) = s
    <2> HIDE DEF x, y, some
    <2>1. y >= Min({slots, y})  BY <1>5, <1>16, NoLessThanMin
    <2> QED  BY <1>17, <2>1 DEF x, y, s, slots
  <1>18. CASE Firm(s) \cap ToSet(s) \subseteq ToSet(Capped(s))
    <2>1. some \subseteq Labels(f, Capped(s))
      <3>1. ToSet(head) \subseteq ToSet(Capped(s)) \cap Of(f) \cap Labelled
        BY <1>6, <1>7, <1>11, <1>12, <1>18
      <3> QED  BY <3>1 DEF Labels
    <2> HIDE DEF some
    <2>2. Cardinality(some) <= x  BY <1>15, <2>1, FS_Subset
    <2> HIDE DEF x, y
    <2>3. Len(head) <= x /\ x \in Nat  BY <1>13, <1>15, <2>2
    <2>4. slots <= x \/ y <= x  BY <1>10, <1>11, <2>3
    <2>5. x >= Min({slots, y})  BY <1>5, <1>16, <2>3, <2>4, AtLeastMin
    <2> QED  BY <2>5 DEF x, y, s, slots
  <1> QED  BY <1>14, <1>17, <1>18

\* What the queries find depends on the findings alone.
LEMMA StillSame ==
  ASSUME mapped' = mapped, acts' = acts
  PROVE  /\ RowsOf("cis")' = RowsOf("cis")
         /\ InSequence' = InSequence
  <1>1. Subcategories(mapped)' = Subcategories(mapped)  BY DEF Subcategories
  <1>2. Sections' = Sections  BY <1>1 DEF Sections
  <1>3. /\ RowsOf("cis")' = RowsOf("cis")
        /\ RowsOf("nist")' = RowsOf("nist")
        /\ RowsOf("hipaa")' = RowsOf("hipaa")
    BY <1>1, <1>2 DEF RowsOf
  <1> QED  BY <1>3 DEF InSequence

\* Nor does what the filter leaves of the candidates change, and what follows
\* from it.
LEMMA StillSieved ==
  ASSUME pool' = pool, sound' = sound
  PROVE  /\ Sieved' = Sieved /\ Offered' = Offered
         /\ \A f : Foremost(f)' = Foremost(f) /\ Promised(f)' = Promised(f)
  <1>1. Sieved' = Sieved /\ Recovered' = Recovered  BY DEF Sieved, Recovered
  <1>2. Offered' = Offered  BY <1>1 DEF Offered
  <1>3. \A f : Foremost(f)' = Foremost(f)  BY <1>2 DEF Foremost
  <1>4. \A f : Promised(f)' = Promised(f)  BY <1>1, <1>3 DEF Promised
  <1> QED  BY <1>1, <1>2, <1>3, <1>4

\* Every step leaves the candidates its stage says.
LEMMA CandidatesStep ==
  Candidates /\ [RetrievalNext]_retrievalVars => Candidates'
  <1> SUFFICES ASSUME Candidates, [RetrievalNext]_retrievalVars  PROVE Candidates'
    OBVIOUS
  <1>1. CASE Open
    <2>1. PICK set \in SUBSET ToSet(ControlOrder) : mapped' = Among(ControlOrder, set)
      BY <1>1 DEF Open
    <2>2. mapped' \in Seq(STRING) /\ ToSet(mapped') \subseteq ToSet(ControlOrder)
      <3> DEFINE named == Among(ControlOrder, set)
      <3>1. ControlOrder \in Seq(STRING)  BY NameAssumption
      <3>2. named \in Seq(STRING) /\ ToSet(named) = ToSet(ControlOrder) \cap set  BY <3>1, AmongFacts
      <3> HIDE DEF named
      <3> QED  BY <2>1, <3>2 DEF named
    <2>3. stage' = "controls"  BY <1>1 DEF Open
    <2> QED  BY <2>2, <2>3 DEF Candidates, Later
  <1>2. CASE PerControl
    <2>1. pool' = OfEach(mapped') /\ stage' = "sweep" /\ mapped' = mapped  BY <1>2 DEF PerControl
    <2> QED  BY <2>1 DEF Candidates, Later
  <1>3. CASE Sweep
    <2>1. /\ pool' = With(pool, Nearest("log", Of("cis"), TopK)) /\ pool = OfEach(mapped)
          /\ stage' = "fetch" /\ mapped' = mapped /\ acts' = acts
      BY <1>3 DEF Sweep, Candidates
    <2>2. pool' = With(OfEach(mapped'), RowsOf("cis")')
      BY <2>1, StillSame DEF RowsOf
    <2> QED  BY <2>1, <2>2 DEF Candidates, Later
  <1>4. ASSUME NEW query \in Frameworks, Hear(query)  PROVE Candidates'
    <2>1. /\ pool = With(OfEach(mapped), RowsOf("cis")) /\ pool' = Joined(query)
          /\ stage' = "fetch" /\ mapped' = mapped /\ acts' = acts
      BY <1>4 DEF Hear, Candidates
    <2>2. OfEach(mapped) \in Seq(Chunks) /\ RowsOf("cis") \in Seq(Chunks)
      BY OfEachFacts, RowsFacts DEF Candidates, CisLists
    <2>3. With(pool, RowsOf("cis")) = pool  BY <2>1, <2>2, WithFacts
    <2>4. pool' = pool  BY <2>1, <2>3 DEF Joined
    <2> QED  BY <2>1, <2>4, StillSame DEF Candidates, Later
  <1>5. CASE Ingest
    <2>1. /\ pool = With(OfEach(mapped), RowsOf("cis"))
          /\ pool' = With(With(pool, RowsOf("nist")), RowsOf("hipaa"))
          /\ stage' = "filter" /\ mapped' = mapped /\ acts' = acts
      BY <1>5 DEF Ingest, Candidates
    <2>2. pool' = InSequence  BY <2>1 DEF InSequence
    <2> QED  BY <2>1, <2>2, StillSame DEF Candidates, Later
  <1>6. CASE Leave
    <2>1. mapped' = <<>> /\ stage' = "idle"  BY <1>6 DEF Leave
    <2>2. <<>> \in Seq(STRING)  BY EmptySeq
    <2>3. ToSet(<<>>) = {}  BY <2>2, NoElements
    <2> QED  BY <2>1, <2>2, <2>3 DEF Candidates, Later
  <1>7. ASSUME mapped' = mapped, acts' = acts, pool' = pool,
               \/ stage' = stage
               \/ stage \in Later /\ stage' \in Later
               \/ stage' = "raised"
        PROVE  Candidates'
    BY <1>7, StillSame DEF Candidates, Later
  <1>8. CASE Filter \/ Recover \/ Cap \/ Expand \/ Rerank
    BY <1>7, <1>8 DEF Filter, Recover, Cap, Expand, Rerank, Later
  <1>9. CASE HearFailure \/ CallFails
    BY <1>7, <1>9 DEF HearFailure, CallFails
  <1>10. ASSUME NEW query \in Frameworks, Fetch(query)  PROVE Candidates'
    BY <1>7, <1>10 DEF Fetch
  <1>11. CASE UNCHANGED retrievalVars
    BY <1>7, <1>11 DEF retrievalVars
  <1> QED
    BY <1>1, <1>2, <1>3, <1>4, <1>5, <1>6, <1>8, <1>9, <1>10, <1>11 DEF RetrievalNext

\* The list the recovery finds: chunks, none twice
LEMMA RecoveredFacts ==
  ASSUME pool \in Seq(Chunks)
  PROVE  Recovered \in Seq(Chunks) /\ IsInjective(Recovered)
  <1> DEFINE rows == Nearest("log", Chunks, 2 * TopKRerank)
  <1>1. 2 * TopKRerank \in Nat  BY NumberAssumption
  <1>2. rows \in Seq(Chunks) /\ IsInjective(rows)  BY <1>1, NearestFacts
  <1>3. Recovered = Among(rows, Chunks \ ToSet(pool))  BY DEF Recovered, Unseen
  <1> HIDE DEF rows
  <1> QED  BY <1>2, <1>3, AmongFacts

\* The list the filter leaves: chunks, none twice
LEMMA SievedFacts ==
  ASSUME pool \in Seq(Chunks)
  PROVE  Sieved \in Seq(Chunks) /\ IsInjective(Sieved)
  <1> DEFINE good == Among(pool, sound)
  <1>1. good \in Seq(Chunks)  BY AmongFacts
  <1>2. Sieved = Distinct(good, Group)  BY DEF Sieved
  <1> HIDE DEF good
  <1> QED  BY <1>1, <1>2, DistinctFacts

\* So is the list before the cap.
LEMMA OfferedFacts ==
  ASSUME pool \in Seq(Chunks)
  PROVE  Offered \in Seq(Chunks) /\ IsInjective(Offered)
  BY SievedFacts, RecoveredFacts DEF Offered

\* The slots are numbers.
LEMMA SlotsType ==
  ASSUME NEW f \in Frameworks
  PROVE  Slots[f] \in Nat
  <1>1. CASE f = "nist"  BY <1>1, NumberAssumption DEF Slots
  <1>2. CASE f = "hipaa"  BY <1>2, NumberAssumption DEF Slots
  <1>3. CASE f = "cis"  BY <1>3, NumberAssumption DEF Slots
  <1> QED  BY <1>1, <1>2, <1>3 DEF Frameworks

\* The foremost candidates of a framework: its own, no more than its slots
LEMMA ForemostFacts ==
  ASSUME pool \in Seq(Chunks), NEW f \in Frameworks
  PROVE  /\ Foremost(f) \in Seq(Chunks) /\ IsInjective(Foremost(f))
         /\ ToSet(Foremost(f)) \subseteq ToSet(Offered) \cap Of(f)
         /\ ToSet(Foremost(f)) \subseteq Firm(Offered)
         /\ Len(Foremost(f)) <= Slots[f]
  <1> DEFINE own == Among(Offered, Of(f))
             slots == Slots[f]
             head == First(own, slots)
  <1>1. Foremost(f) = head  BY DEF Foremost
  <1>2. head = Foremost(f) /\ ToSet(head) \subseteq Firm(Offered)  BY <1>1 DEF Firm
  <1>3. slots \in Nat  BY SlotsType
  <1>4. own \in Seq(Chunks) /\ IsInjective(own) /\ ToSet(own) = ToSet(Offered) \cap Of(f)
    BY OfferedFacts, AmongFacts
  <1> HIDE DEF own
  <1>5. slots = Slots[f]  OBVIOUS
  <1> HIDE DEF slots
  <1>6. /\ head \in Seq(Chunks) /\ IsInjective(head) /\ ToSet(head) \subseteq ToSet(own)
        /\ Len(head) = IF slots <= Len(own) THEN slots ELSE Len(own)
    BY <1>3, <1>4, FirstFacts
  <1>7. Len(own) \in Nat  BY <1>4, LenProperties
  <1> HIDE DEF head
  <1>8. Len(head) <= slots  BY <1>3, <1>6, <1>7
  <1> QED  BY <1>2, <1>4, <1>5, <1>6, <1>8

\* What is promised is a number, and no more than the slots.
LEMMA PromisedFacts ==
  ASSUME pool \in Seq(Chunks), NEW f \in Frameworks
  PROVE  Promised(f) \in Nat /\ Promised(f) <= Slots[f]
  <1> DEFINE slots == Slots[f]
             y == Cardinality(Labels(f, Sieved))
             head == Foremost(f)
             x == Cardinality(Labels(f, head))
  <1>1. slots \in Nat  BY SlotsType
  <1>2. y \in Nat  BY SievedFacts, LabelsFinite
  <1>3. head \in Seq(Chunks) /\ IsInjective(head) /\ Len(head) <= slots  BY ForemostFacts
  <1>4. x \in Nat  BY <1>3, LabelsFinite
  <1>5. Promised(f) = IF Sieved # <<>> THEN Min({slots, y}) ELSE x  BY DEF Promised
  <1>6. x <= slots
    <2> DEFINE each == Distinct(head, Label)
               all == {Label[c] : c \in ToSet(head)}
    <2>1. Labels(f, head) \subseteq all  BY DEF Labels
    <2>2. IsFiniteSet(all) /\ Cardinality(all) = Len(each)  BY <1>3, DistinctCount
    <2>3. x <= Cardinality(all)  BY <2>1, <2>2, FS_Subset
    <2>4. each \in Seq(Chunks) /\ IsInjective(each) /\ ToSet(each) \subseteq ToSet(head)
      BY <1>3, DistinctFacts
    <2>5. /\ Cardinality(ToSet(each)) = Len(each)
          /\ IsFiniteSet(ToSet(head)) /\ Cardinality(ToSet(head)) = Len(head)
      BY <1>3, <2>4, ElementCount
    <2>6. Len(each) <= Len(head)  BY <2>4, <2>5, FS_Subset
    <2>7. Len(each) \in Nat /\ Len(head) \in Nat  BY <1>3, <2>4, LenProperties
    <2> HIDE DEF all, each, x, head, slots
    <2> QED  BY <1>1, <1>3, <1>4, <2>2, <2>3, <2>6, <2>7
  <1> HIDE DEF x, y, slots, head
  <1>7. CASE Sieved # <<>>
    <2>1. Min({slots, y}) = IF slots <= y THEN slots ELSE y  BY <1>1, <1>2, MinOfTwo
    <2>2. Promised(f) \in Nat /\ Promised(f) <= slots  BY <1>1, <1>2, <1>5, <1>7, <2>1
    <2> QED  BY <2>2 DEF slots
  <1>8. CASE Sieved = <<>>
    <2>1. Promised(f) \in Nat /\ Promised(f) <= slots  BY <1>4, <1>5, <1>6, <1>8
    <2> QED  BY <2>1 DEF slots
  <1> QED  BY <1>7, <1>8

\* The cap drops none of the foremost.
LEMMA CapKeepsForemost ==
  ASSUME pool \in Seq(Chunks), NEW f \in Frameworks
  PROVE  ToSet(Foremost(f)) \subseteq ToSet(Capped(Offered))
  <1>1. Offered \in Seq(Chunks) /\ IsInjective(Offered)  BY OfferedFacts
  <1>2. \/ Capped(Offered) = Offered
        \/ Firm(Offered) \cap ToSet(Offered) \subseteq ToSet(Capped(Offered))
    BY <1>1, CappedFacts
  <1>3. ToSet(Foremost(f)) \subseteq ToSet(Offered) /\ ToSet(Foremost(f)) \subseteq Firm(Offered)
    BY ForemostFacts
  <1> QED  BY <1>2, <1>3

\* The filter, the recovery and the cap keep what the slots need.
LEMMA SurvivorsStep ==
  Candidates /\ Survivors /\ [RetrievalNext]_retrievalVars => Survivors'
  <1> SUFFICES ASSUME Candidates, Survivors, [RetrievalNext]_retrievalVars  PROVE Survivors'
    OBVIOUS
  <1>1. stage \in Later =>
          /\ pool \in Seq(Chunks)
          /\ \A c \in ToSet(pool) : c \in Of("nist") \/ c \in Of("hipaa") => ChunkOf[c].safeguard # ""
    BY InSequenceFacts DEF Candidates
  <1>2. CASE Filter
    <2>1. /\ kept' = Sieved /\ stage \in Later /\ pool' = pool /\ sound' = sound /\ results' = results
          /\ stage' = IF kept' = <<>> THEN "recover" ELSE "cap"
          /\ results = <<>>
      BY <1>2 DEF Filter, Survivors, Later
    <2>2. Sieved' = Sieved /\ Offered' = Offered  BY <2>1, StillSieved
    <2>3. kept' \in Seq(Chunks) /\ IsInjective(kept')  BY <1>1, <2>1, SievedFacts
    <2>4. kept' # <<>> => kept' = Offered'  BY <2>1, <2>2 DEF Offered
    <2> QED  BY <2>1, <2>2, <2>3, <2>4 DEF Survivors, Later
  <1>3. CASE Recover
    <2>1. /\ stage = "recover" /\ pool' = pool /\ sound' = sound /\ results' = results /\ results = <<>>
          /\ Sieved = <<>> /\ kept \in Seq(Chunks) /\ IsInjective(kept)
      BY <1>3 DEF Recover, Survivors, Later
    <2>2. Sieved' = Sieved /\ Offered' = Offered  BY <2>1, StillSieved
    <2>3. \/ kept' = Recovered /\ stage' = "cap"
          \/ stage' = "returned" /\ kept' = kept
      BY <1>3 DEF Recover
    <2>4. kept' \in Seq(Chunks) /\ IsInjective(kept')
      BY <1>1, <2>1, <2>3, RecoveredFacts DEF Later
    <2>5. Offered = Recovered  BY <2>1 DEF Offered
    <2> QED  BY <2>1, <2>2, <2>3, <2>4, <2>5 DEF Survivors, Later
  <1>4. CASE Cap
    <2>1. /\ stage = "cap" /\ stage' = "expand" /\ kept' = Capped(kept)
          /\ pool' = pool /\ sound' = sound /\ results' = results /\ results = <<>>
          /\ kept \in Seq(Chunks) /\ IsInjective(kept) /\ kept = Offered
          /\ stage \in Later
      BY <1>4 DEF Cap, Survivors, Later
    <2>2. \A f : Foremost(f)' = Foremost(f) /\ Promised(f)' = Promised(f)  BY <2>1, StillSieved
    <2>3. kept' \in Seq(Chunks) /\ IsInjective(kept')  BY <2>1, CappedFacts
    <2>4. \A f \in Frameworks : ToSet(Foremost(f)) \subseteq ToSet(kept')
      BY <1>1, <2>1, CapKeepsForemost
    <2>5. \A f \in {"nist", "hipaa"} : Cardinality(Labels(f, kept')) >= Promised(f)
      <3>1. TAKE f \in {"nist", "hipaa"}
      <3>2. CASE Sieved = <<>>
        <4>1. Promised(f) = Cardinality(Labels(f, Foremost(f)))  BY <3>2 DEF Promised
        <4>2. f \in Frameworks  BY DEF Frameworks
        <4>3. Labels(f, Foremost(f)) \subseteq Labels(f, kept')  BY <2>4, <4>2 DEF Labels
        <4>4. IsFiniteSet(Labels(f, kept'))  BY <2>3, LabelsFinite
        <4>5. Promised(f) <= Cardinality(Labels(f, kept'))  BY <4>1, <4>3, <4>4, FS_Subset
        <4>6. Promised(f) \in Nat /\ Cardinality(Labels(f, kept')) \in Nat
          BY <1>1, <2>1, <2>3, <4>2, LabelsFinite, PromisedFacts
        <4> QED  BY <4>5, <4>6
      <3>3. CASE Sieved # <<>>
        <4>1. kept' = Capped(Sieved)  BY <2>1, <3>3 DEF Offered
        <4>2. Cardinality(Labels(f, kept')) >= Min({Slots[f], Cardinality(Labels(f, Sieved))})
          BY <1>1, <2>1, <4>1, CapServes
        <4> QED  BY <3>3, <4>2 DEF Promised
      <3> QED  BY <3>2, <3>3
    <2>6. "cis" \in Frameworks  BY DEF Frameworks
    <2>7. Enough(kept)'  BY <2>2, <2>4, <2>5, <2>6 DEF Enough
    <2> QED  BY <2>1, <2>3, <2>7 DEF Survivors, Later
  <1>5. CASE Expand
    <2>1. /\ stage = "expand" /\ stage' = "rerank" /\ kept' = kept
          /\ pool' = pool /\ sound' = sound /\ results' = results
          /\ kept \in Seq(Chunks) /\ IsInjective(kept) /\ Enough(kept) /\ results = <<>>
      BY <1>5 DEF Expand, Survivors, Later
    <2>2. Enough(kept)'  BY <2>1, StillSieved DEF Enough
    <2> QED  BY <2>1, <2>2 DEF Survivors, Later
  <1>6. CASE Rerank
    <2>1. /\ stage = "rerank" /\ stage' = "returned" /\ kept' = kept
          /\ kept \in Seq(Chunks) /\ IsInjective(kept)
      BY <1>6 DEF Rerank, Survivors, Later
    <2> QED  BY <2>1 DEF Survivors, Later
  <1>7. ASSUME results' = results \/ results' = <<>>,
               \/ stage \notin {"returned"} /\ stage' \notin Later
               \/ stage' = "filter" /\ stage # "returned"
               \/ stage' = "idle" /\ results' = <<>>
        PROVE  Survivors'
    BY <1>7 DEF Survivors, Later
  <1>8. CASE Open \/ PerControl \/ Sweep \/ HearFailure \/ Ingest \/ CallFails \/ Leave
    BY <1>7, <1>8 DEF Open, PerControl, Sweep, HearFailure, Ingest, CallFails, Leave, Later
  <1>9. ASSUME NEW query \in Frameworks, Fetch(query) \/ Hear(query)  PROVE Survivors'
    BY <1>7, <1>9 DEF Fetch, Hear, Later
  <1>10. CASE UNCHANGED retrievalVars
    <2>1. /\ stage' = stage /\ kept' = kept /\ results' = results
          /\ pool' = pool /\ sound' = sound
      BY <1>10 DEF retrievalVars
    <2>2. Sieved' = Sieved /\ Offered' = Offered  BY <2>1, StillSieved
    <2>3. Enough(kept)' = Enough(kept)  BY <2>1, StillSieved DEF Enough
    <2> QED  BY <2>1, <2>2, <2>3 DEF Survivors, Later
  <1> QED
    BY <1>2, <1>3, <1>4, <1>5, <1>6, <1>8, <1>9, <1>10 DEF RetrievalNext

\* The choice serves every framework.
LEMMA ServedStep ==
  RetrievalInv /\ [RetrievalNext]_retrievalVars => FrameworksServed'
  <1> SUFFICES ASSUME RetrievalInv, [RetrievalNext]_retrievalVars  PROVE FrameworksServed'
    OBVIOUS
  <1>1. CASE Rerank
    <2>1. /\ stage = "rerank" /\ stage' = "returned" /\ kept' = kept /\ mapped' = mapped
          /\ pool' = pool /\ sound' = sound
          /\ kept \in Seq(Chunks) /\ IsInjective(kept) /\ Enough(kept)
          /\ ToSet(mapped) \subseteq ToSet(ControlOrder)
          /\ pool \in Seq(Chunks)
      BY <1>1, InSequenceFacts DEF Rerank, RetrievalInv, Candidates, Survivors, Later
    <2>2. PICK score \in [ToSet(kept) -> Scores] : results' = Chosen(score)
      BY <1>1 DEF Rerank
    <2>3. \A f : Foremost(f)' = Foremost(f) /\ Promised(f)' = Promised(f)  BY <2>1, StillSieved
    <2> DEFINE t == Chosen(score)
    <2>4. /\ t \in Seq(Chunks) /\ Len(t) <= TopKRerank /\ IsInjective(t)
          /\ \A f \in {"nist", "hipaa"} :
               Cardinality(ToSet(t) \cap Of(f)) >= Min({Slots[f], Cardinality(Labels(f, kept))})
          /\ \A k \in ToSet(mapped) :
               ToSet(kept) \cap OfControl(k) # {} =>
                 \/ ToSet(t) \cap OfControl(k) # {}
                 \/ Cardinality(CisControlsIn(t)) >= CisGuaranteed
      BY <2>1, ChosenFacts
    <2>5. results' = t  BY <2>2
    <2> HIDE DEF t
    <2>6. ASSUME NEW f \in {"nist", "hipaa"}
          PROVE  Cardinality(ToSet(t) \cap Of(f)) >= Promised(f)
      <3> DEFINE x == Cardinality(Labels(f, kept))
                 y == Promised(f)
                 z == Cardinality(ToSet(t) \cap Of(f))
                 slots == Slots[f]
      <3>1. f \in Frameworks  BY DEF Frameworks
      <3>2. slots \in Nat /\ y \in Nat /\ y <= slots  BY <2>1, <3>1, SlotsType, PromisedFacts
      <3>3. x \in Nat  BY <2>1, LabelsFinite
      <3>4. z \in Nat
        <4>1. IsFiniteSet(ToSet(t))  BY <2>4, ElementCount
        <4> QED  BY <4>1, FS_Intersection, FS_CardinalityType
      <3>5. x >= y  BY <2>1 DEF Enough
      <3>6. z >= Min({slots, x})  BY <2>4
      <3> HIDE DEF x, y, z, slots
      <3>7. Min({slots, x}) = IF slots <= x THEN slots ELSE x  BY <3>2, <3>3, MinOfTwo
      <3>8. z >= y  BY <3>2, <3>3, <3>4, <3>5, <3>6, <3>7
      <3> QED  BY <3>8 DEF y, z
    <2>7. ASSUME NEW k \in ToSet(mapped), k \in CisControlsIn(Foremost("cis"))
          PROVE  k \in CisControlsIn(t) \/ Cardinality(CisControlsIn(t)) >= CisGuaranteed
      <3>1. PICK c \in ToSet(Foremost("cis")) \cap Of("cis") : ChunkOf[c].control = k
        BY <2>7 DEF CisControlsIn
      <3>2. c \in ToSet(kept) /\ c \in OfControl(k)  BY <2>1, <3>1 DEF Enough, OfControl
      <3>3. CASE ToSet(t) \cap OfControl(k) # {}
        <4>1. PICK d \in ToSet(t) : d \in OfControl(k)  BY <3>3
        <4>2. d \in Of("cis") /\ ChunkOf[d].control = k  BY <4>1 DEF OfControl
        <4> QED  BY <4>1, <4>2 DEF CisControlsIn
      <3> QED  BY <2>4, <3>2, <3>3
    <2> QED  BY <2>1, <2>3, <2>4, <2>5, <2>6, <2>7 DEF FrameworksServed
  <1>2. ASSUME results' = <<>> \/ stage' # "returned"  PROVE FrameworksServed'
    BY <1>2 DEF FrameworksServed
  <1>3. CASE Recover
    BY <1>2, <1>3 DEF Recover, RetrievalInv, Survivors
  <1>4. CASE Open \/ PerControl \/ Sweep \/ HearFailure \/ Ingest \/ Filter \/ Cap \/ Expand
             \/ CallFails \/ Leave
    BY <1>2, <1>4 DEF Open, PerControl, Sweep, HearFailure, Ingest, Filter, Cap, Expand, CallFails, Leave
  <1>5. ASSUME NEW query \in Frameworks, Fetch(query) \/ Hear(query)  PROVE FrameworksServed'
    BY <1>2, <1>5 DEF Fetch, Hear
  <1>6. CASE UNCHANGED retrievalVars
    <2>1. /\ stage' = stage /\ kept' = kept /\ results' = results /\ mapped' = mapped
          /\ pool' = pool /\ sound' = sound
      BY <1>6 DEF retrievalVars
    <2>2. \A f : Foremost(f)' = Foremost(f) /\ Promised(f)' = Promised(f)  BY <2>1, StillSieved
    <2> QED  BY <2>1, <2>2 DEF RetrievalInv, FrameworksServed
  <1> QED
    BY <1>1, <1>3, <1>4, <1>5, <1>6 DEF RetrievalNext

\* The invariant holds before the first retrieval.
LEMMA RetrievalInitInv == RetrievalInit => RetrievalInv
  <1>1. <<>> \in Seq(STRING)  BY EmptySeq
  <1>2. ToSet(<<>>) = {}  BY <1>1, NoElements
  <1> QED
    BY <1>1, <1>2 DEF RetrievalInit, Fresh, RetrievalInv, Candidates, Survivors, FrameworksServed, Later

\* And every step keeps it.
LEMMA RetrievalStepInv == RetrievalInv /\ [RetrievalNext]_retrievalVars => RetrievalInv'
  BY CandidatesStep, SurvivorsStep, ServedStep DEF RetrievalInv

\* For any number of chunks, controls and mappings: the candidates handed to the
\* filter are those of the queries run one after the other, in their order,
\* whichever thread answers first.
THEOREM OrderNeverMatters == RetrievalSpec => []OrderDoesNotMatter
  <1>1. RetrievalInv => OrderDoesNotMatter
    BY DEF RetrievalInv, Candidates, Later, OrderDoesNotMatter
  <1> QED  BY RetrievalInitInv, RetrievalStepInv, <1>1, PTL DEF RetrievalSpec

\* For any number of chunks, any scores and any limits whose guaranteed slots
\* fit into the results: NIST and HIPAA fill their slots as far as candidates
\* about different things survived the filter, a mapped control of one of the
\* foremost CIS candidates before the cap is among the results unless the CIS
\* slots are full of other controls, and no result comes twice.
THEOREM FrameworksAlwaysServed == RetrievalSpec => []FrameworksServed
  <1>1. RetrievalInv => FrameworksServed  BY DEF RetrievalInv
  <1> QED  BY RetrievalInitInv, RetrievalStepInv, <1>1, PTL DEF RetrievalSpec
================================================================================
