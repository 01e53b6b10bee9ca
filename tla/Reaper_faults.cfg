SPECIFICATION FairSpec
CONSTANTS
  Workers = {w1, w2}
  Reapers = {w1, w2}
  HostOf <- OneHost
  Jobs = {j1}
  MaxDown = 1
  Faults = {"docker", "workerRedis", "reaperRedis", "missedBeats"}
  NoWorker = NoWorker
  NoJob = NoJob
PROPERTY OrphansReaped
CHECK_DEADLOCK FALSE
