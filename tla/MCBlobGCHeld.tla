---------------------------- MODULE MCBlobGCHeld ----------------------------
(***************************************************************************)
(* Instances of BlobGCHeld for TLC: jobs that name one blob in two files.  *)
(***************************************************************************)
EXTENDS BlobGCHeld, TLC

Blob     == CHOOSE h \in Hashes : TRUE
TwoFiles == [j \in Jobs |-> <<Blob, Blob>>]
Symmetry == Permutations(Sweepers)
=============================================================================
