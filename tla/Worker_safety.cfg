CONSTANTS
  NoWorker = NoWorker
  Workers = {w1, w2}
  Jobs = {j1, j2}
  Compiled = {j1}
  WithBlobs = {j2}
  MaxSandboxes = 1
  CtrlCap = 2
  MaxCtrl = 1
  Faults = {"sigterm", "deadline", "expiry"}
SPECIFICATION Spec
SYMMETRY WorkerSymmetry
INVARIANTS
  TypeOK
  SlotsBalance
  ClaimedOnce
  StartDelivered
  SandboxIsOwned
  GivenBackUnlessCancelled
CHECK_DEADLOCK FALSE
