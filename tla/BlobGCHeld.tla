------------------------------ MODULE BlobGCHeld ------------------------------
(***************************************************************************)
(* BlobGC with a history variable: for each sweep, the blobs that were     *)
(* leased when it read blobs:index and at every moment since.              *)
(***************************************************************************)
EXTENDS BlobGC

VARIABLE heldSince

heldVars  == <<vars, heldSince>>
Leased(h) == lease[h] # {}

HeldInit == Init /\ heldSince = [s \in Sweepers |-> {}]

HeldNext ==
  /\ Next
  /\ heldSince' = [s \in Sweepers |->
                     {h \in Hashes : /\ Leased(h)'
                                     /\ IF sweep[s].at = "list" THEN Leased(h) ELSE h \in heldSince[s]}]

HeldSpec == HeldInit /\ [][HeldNext]_heldVars

\* A lease that was there when the sweep began and is still there keeps the
\* blob: SCARD comes after SMEMBERS and before Remove (gc.go:92, 108, 136),
\* whatever expires, crashes or overlaps meanwhile.
PinnedFromStart ==
  [][\A s \in Sweepers : From(s, "remove") /\ sweep'[s].at = "scrubIndex" => Hash(s) \notin heldSince[s]]_heldVars
=============================================================================
