----------------------------- MODULE MCReaper -----------------------------
(***************************************************************************)
(* Instances of Reaper for TLC: all workers on one Docker host.            *)
(***************************************************************************)
EXTENDS Reaper

OneHost == [w \in Workers |-> "host"]

===========================================================================
