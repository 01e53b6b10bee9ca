---------------------------- MODULE MCStdinPath ----------------------------
(* Instances of StdinPath: two chunks of one byte and one of two. *)
EXTENDS StdinPath

CONSTANTS c1, c2, c3

SizeTwo   == [c \in Chunks |-> IF c = c1 THEN 2 ELSE 1]
===========================================================================
