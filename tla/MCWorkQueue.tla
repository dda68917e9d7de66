------------------------------ MODULE MCWorkQueue ------------------------------
(***************************************************************************)
(* Instances of WorkQueue for TLC: model values for jobs and workers; the  *)
(* workers are interchangeable.  (Jobs are too, in every safety run.)      *)
(***************************************************************************)
EXTENDS WorkQueue, TLC

Symmetry == Permutations(Workers) \cup Permutations(JobIds)
================================================================================
