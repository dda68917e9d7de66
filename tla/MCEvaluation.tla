------------------------------ MODULE MCEvaluation ------------------------------
(***************************************************************************)
(* The evaluation of one log, for TLC: the logs, the tables of the         *)
(* pipeline and the chunks of the knowledge base.                          *)
(***************************************************************************)
EXTENDS EventPipeline, Retrieval

\* Logs: two of an unknown format, whose entities a model may add to, and for
\* the known ones every density, exploit, success and failure, on a log type of every
\* kind; keywords and rules that reach the controls the policy reads.
Kinds == {"nmap", "vpn", "cisco_asa", "benign_network", "benign_windows"}

Weights ==
  {[c \in {"C6", "C13"} |-> 1],
   [c \in {"C7", "C8"} |-> 3],
   [c \in {"C3", "C4", "C12"} |-> 2]}

Logged(type, hits, task, seen, weight, sigma, entities) ==
  [empty |-> FALSE, type |-> type, threats |-> hits[1], goods |-> hits[2], lines |-> 5, task |-> task,
   exploit |-> "exploit" \in seen, success |-> "success" \in seen, failure |-> "failure" \in seen,
   weight |-> weight, sigma |-> sigma, flags |-> entities[1], cves |-> entities[2],
   source |-> entities[3], rawExternal |-> entities[4]]

MCLogs ==
  {[empty |-> TRUE],
   Logged("auto", <<0, 0>>, "none", {"exploit"}, [c \in {"C7", "C8"} |-> 3], {}, <<{"failed"}, FALSE, "none", TRUE>>),
   Logged("auto", <<0, 1>>, "none", {}, [c \in {"C3", "C4"} |-> 2], {"shell"}, <<{}, FALSE, "none", FALSE>>)}
  \union
  {Logged(type, hits, task, seen, weight, sigma, entities) :
     type \in Kinds,
     hits \in {<<0, 0>>, <<0, 1>>, <<1, 3>>, <<1, 1>>, <<2, 4>>},
     task \in {"none", "windows", "other"},
     seen \in SUBSET {"exploit", "success", "failure"},
     weight \in Weights,
     sigma \in {{}, {"shell", "unmapped", "cloud"}, {"scan"}},
     entities \in {<<{"escalated", "failed"}, TRUE, "internal", TRUE>>,
                   <<{"created", "failed", "succeeded", "lateral"}, FALSE, "none", FALSE>>,
                   <<{"escalated"}, FALSE, "external", FALSE>>}}

MCFloorOf == [vpn |-> Low, cisco_asa |-> Medium, nmap |-> Medium]
MCCeilingOf == [benign_network |-> Informational, benign_windows |-> Low]
MCFalseFor == [vpn |-> {"C5", "C13"}]
MCBenignFalseFor == [benign_network |-> {"C12", "C3", "C4"}, benign_windows |-> {"C12", "C6"}]
MCSeedOf == [benign_network |-> {"C13"}]
MCSigmaLevel == [shell |-> Critical, unmapped |-> Critical, scan |-> Medium, cloud |-> High]
MCSigmaControls == [shell |-> {"C10", "C17"}, unmapped |-> {}, scan |-> {"C13"}, cloud |-> {"C6", "C15"}]
MCGuidance == {[nist |-> {}, hipaa |-> {}], [nist |-> {"PR"}, hipaa |-> {"164.308"}]}

AllControls == {"C3", "C4", "C5", "C6", "C7", "C8", "C10", "C12", "C13", "C15", "C17"}
MCNistOf == [c \in AllControls |-> CASE c = "C6" -> {"PR"} [] c = "C7" -> {"ID", "PR"} [] OTHER -> {}]
MCHipaaOf == [c \in AllControls |-> IF c \in {"C3", "C4", "C8", "C12"} THEN {"164.312"}
                                    ELSE IF c = "C15" THEN {} ELSE {"164.308"}]

\* A CIS control with three chunks and one with two, which are more than the cap
\* leaves room for beside the chunks of the other frameworks; two NIST
\* subcategories, a category and a function, which only the recovery finds,
\* and three HIPAA chunks.  The filter drops one chunk or all of them.
Chunk(framework, control, safeguard, type) ==
  [framework |-> framework, control |-> control, safeguard |-> safeguard, type |-> type]
MCChunkOf ==
  [a1 |-> Chunk("cis", "C6", "6.1", "safeguard"), a2 |-> Chunk("cis", "C6", "", "control_overview"),
   a3 |-> Chunk("cis", "C6", "6.3", "safeguard"),
   b1 |-> Chunk("cis", "C7", "7.1", "safeguard"), b2 |-> Chunk("cis", "C7", "7.2", "safeguard"),
   n1 |-> Chunk("nist", "PR", "PR", "subcategory"), n2 |-> Chunk("nist", "ID", "ID", "subcategory"),
   n3 |-> Chunk("nist", "PR", "", "category"), n4 |-> Chunk("nist", "", "", "function_overview"),
   h1 |-> Chunk("hipaa", "164.308", "AA", "standard"),
   h2 |-> Chunk("hipaa", "164.312", "TS", "standard")]
MCCorpora == {DOMAIN MCChunkOf \ {"b2"}, {}}
MCNear ==
  [control |-> <<"a2", "b1", "a1", "b2", "a3">>,
   log |-> <<"n4", "n2", "a1", "h1", "n1", "n3", "b2", "b1", "a2", "a3", "h2">>,
   hipaa |-> <<"h2", "h1">>]
MCControlOrder == <<"C6", "C7">>
MCSpecsOfNist == [PR |-> {"AA"}, ID |-> {"odd"}]
MCSpecsOfFlag == [escalated |-> {"TS"}, failed |-> {}]
MCSectionOf == [AA |-> "164.308", TS |-> "164.312", odd |-> ""]
MCGraphNist == [C6 |-> {"PR"}, C7 |-> {"ID"}]

\* What Among, Distinct and Ranked say by position, said the way the code does
\* it: one pass over the list, one bucket after the other.
Levels(s, score) == SetToSortSeq({score[c] : c \in ToSet(s)}, >)
ASSUME ListsAssumption ==
  LET some == {"a1", "a2", "h1"} IN
  \A n \in 0 .. 4 : \A s \in [1 .. n -> some] :
    /\ \A set \in SUBSET some : Among(s, set) = SelectSeq(s, LAMBDA c : c \in set)
    /\ Distinct(s, ControlOf) =
         FoldLeft(LAMBDA acc, c : IF \E d \in ToSet(acc) : ControlOf[d] = ControlOf[c] THEN acc
                                  ELSE Append(acc, c), <<>>, s)
    /\ \A score \in [some -> Scores] :
         Ranked(s, score) =
           FlattenSeq([i \in 1 .. Len(Levels(s, score)) |->
                         SelectSeq(s, LAMBDA c : score[c] = Levels(s, score)[i])])
=================================================================================
