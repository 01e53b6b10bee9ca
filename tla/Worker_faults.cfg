CONSTANTS
  NoWorker = NoWorker
  Workers = {w1}
  Jobs = {j1}
  Compiled = {j1}
  WithBlobs = {j1}
  MaxSandboxes = 1
  CtrlCap = 1
  MaxCtrl = 3
  Faults = {"redis", "sigterm", "deadline", "expiry", "lateSubscribe", "docker", "soketi", "hang"}
SPECIFICATION FairSpec
INVARIANTS
  KillNeverForgotten
PROPERTIES
  ImplementsLifecycle
  ClaimedJobEnds
  DrainCompletes
CHECK_DEADLOCK FALSE
