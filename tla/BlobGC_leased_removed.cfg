\* A job leases between SCARD and Remove.
CONSTANTS
  Hashes = {h1}
  Stored = {h1}
  Jobs = {j1}
  Refs <- OneRef
  Reusers = {j1}
  Sweepers = {s1}
  Faults = {}
  NoHash = NoHash
SPECIFICATION Spec
PROPERTY LeasedNotRemoved
CHECK_DEADLOCK FALSE
