----------------------------- MODULE MCJobHook -----------------------------
(***************************************************************************)
(* Instances of JobHook: a job that runs while the page looks, and one     *)
(* that is over.                                                           *)
(***************************************************************************)
EXTENDS JobHook

CONSTANTS own, other

SeqBound == [j \in Jobs |-> IF j = own THEN 2 ELSE 0]
===========================================================================
