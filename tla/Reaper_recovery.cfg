SPECIFICATION FairSpec
CONSTANTS
  Workers = {w1, w2}
  Reapers = {w1, w2}
  HostOf <- OneHost
  Jobs = {j1}
  MaxDown = 1
  Faults = {}
  NoWorker = NoWorker
  NoJob = NoJob
INVARIANT InUseUntouched
PROPERTIES OrphansReported OrphansForgotten
CHECK_DEADLOCK FALSE
