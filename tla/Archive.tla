--------------------------------- MODULE Archive -------------------------------
(***************************************************************************)
(* What the report archive promises, without files, processes or failures: *)
(* evidence is retained for good, a report is published only over retained *)
(* evidence and for good, and the index and the posture runs name          *)
(* published reports only ("a report must never present evidence that was  *)
(* not durably retained", api/service.py:790-792).                         *)
(***************************************************************************)
CONSTANTS Reports, Evidence, EvidenceOf

VARIABLES
  retained,     \* evidence
  published,    \* reports
  listed,       \* the reports of the index
  linked        \* the reports of the posture runs

avars == <<retained, published, listed, linked>>

Init == retained = {} /\ published = {} /\ listed = {} /\ linked = {}

Retain(e) ==
  /\ retained' = retained \cup {e}
  /\ UNCHANGED <<published, listed, linked>>

Publish(r) ==
  /\ EvidenceOf[r] \subseteq retained
  /\ published' = published \cup {r}
  /\ UNCHANGED <<retained, listed, linked>>

\* The index grows, or is rebuilt (and then may lose a report).
List(S) ==
  /\ S \subseteq published
  /\ listed' = S
  /\ UNCHANGED <<retained, published, linked>>

Link(r) ==
  /\ r \in published
  /\ linked' = linked \cup {r}
  /\ UNCHANGED <<retained, published, listed>>

Next ==
  \/ \E e \in Evidence : Retain(e)
  \/ \E r \in Reports : Publish(r) \/ Link(r)
  \/ \E S \in SUBSET Reports : List(S)

Spec == Init /\ [][Next]_avars
================================================================================
