------------------------------- MODULE EventStore ------------------------------
(***************************************************************************)
(* What an event-sourced store promises, without requests, numbers or      *)
(* races: the history of an entity is a sequence of events that only       *)
(* grows, and an event is judged by, and takes effect on, the history as   *)
(* it is at one moment.  FindingLifecycle and AdminAudit implement it,     *)
(* though what they insert was decided on an earlier reading.              *)
(***************************************************************************)
EXTENDS Sequences

CONSTANTS
  Entities,    \* what has a history
  Allowed(_)   \* a history -> the events that may come next

VARIABLE history

Init == history = [x \in Entities |-> <<>>]

Record(x) ==
  \E e \in Allowed(history[x]) : history' = [history EXCEPT ![x] = Append(@, e)]

Next == \E x \in Entities : Record(x)

Spec == Init /\ [][Next]_history
================================================================================
