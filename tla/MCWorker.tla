----------------------------- MODULE MCWorker -----------------------------
(***************************************************************************)
(* Instances of Worker for TLC.  Workers are interchangeable; jobs differ  *)
(* by their compile step and their blob reference.                         *)
(***************************************************************************)
EXTENDS Worker, TLC

WorkerSymmetry == Permutations(Workers)

===========================================================================
