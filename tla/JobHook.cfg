CONSTANTS
  own = own other = other NoJob = NoJob
  Jobs = {own, other}
  Compiled = {own}
  Over = {other}
  Streams = {"stdout", "stderr"}
  MaxSeq <- SeqBound
  MaxTurns = 2
  Faults = {"trigger", "pull", "fail", "status"}
SPECIFICATION FairSpec
INVARIANTS ShowsItsJob NothingMissed
PROPERTIES TextGrowsAtItsEnd FallsBackForEventsOnly SettlesDone
CHECK_DEADLOCK FALSE
