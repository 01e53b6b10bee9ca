\* One blob, an uploader and a job that reuses it; two replicas of
\* which one may stop; S3 may refuse.
CONSTANTS
  Hashes = {h1}
  Stored = {h1}
  Jobs = {j1, j2}
  Refs <- OneRef
  Reusers = {j1}
  Sweepers = {s1, s2}
  Faults = {"idle", "store", "crash", "client"}
  NoHash = NoHash
SPECIFICATION FairSpec
INVARIANTS OneSweep LeasesReleased
PROPERTY UnusedCollected
CHECK_DEADLOCK FALSE
