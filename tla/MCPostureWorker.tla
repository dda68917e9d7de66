---------------------------- MODULE MCPostureWorker ----------------------------
(***************************************************************************)
(* Instances of PostureWorker for TLC.  Job ids are pairs of a connector   *)
(* and a window up to the end of time, so NoJob must be a pair as well for *)
(* TLC to compare them.                                                    *)
(*                                                                         *)
(* Two connectors beside an API thread are out of reach.  A behaviour of   *)
(* PostureSpec is one of two situations: two connectors of a long cadence, *)
(* which compete for the one worker (a backlog), or one connector of a     *)
(* short cadence that is run by hand as well.                              *)
(***************************************************************************)
EXTENDS PostureWorker

CONSTANTS c1, c2

MCJobIds == Connectors \X (0..MaxTime)

VARIABLE situation

\* A backlog: nobody runs a connector by hand.
Backlog == manual' = manual /\ \A c \in Connectors : reg'[c].schedule \in {0, 3}

ByHand == reg'[c2] = reg[c2] /\ reg'[c1].schedule \in {0, 2}

PostureSpec ==
  /\ situation \in {"backlog", "by hand"}
  /\ PWInit
  /\ [][/\ PWNext /\ situation' = situation
        /\ situation = "backlog" => Backlog
        /\ situation = "by hand" => ByHand]_<<vars, situation>>
  /\ PWFairness
================================================================================
