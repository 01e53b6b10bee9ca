\* One blob, a job that uploads it and uses it in two files, two replicas whose sweeps may overlap,
\* Redis commands that may fail.
CONSTANTS
  Hashes = {h1}
  Stored = {h1}
  Jobs = {j1}
  Refs <- TwoFiles
  Reusers = {}
  Sweepers = {s1, s2}
  Faults = {"idle", "slowSweep", "redis"}
  NoHash = NoHash
SPECIFICATION HeldSpec
SYMMETRY Symmetry
PROPERTY PinnedFromStart
CHECK_DEADLOCK FALSE
