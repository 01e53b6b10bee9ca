------------------------------ MODULE MCBlobGC ------------------------------
(***************************************************************************)
(* Instances of BlobGC for TLC.                                            *)
(***************************************************************************)
EXTENDS BlobGC

OneRef == [j \in Jobs |-> <<CHOOSE h \in Hashes : TRUE>>]
=============================================================================
