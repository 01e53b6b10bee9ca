CONSTANTS
  k1 = k1 k2 = k2 j1 = j1 j2 = j2 j3 = j3 p1 = p1 p2 = p2 p3 = p3
  Keys = {k1}
  Jobs = {j1, j2}
  Parents = {p1, p2}
  KeyOf <- OneKey
  Faults = {"probe", "crash", "hang", "agent", "deadline"}
  NoParent = NoParent
  NoJob = NoJob
SPECIFICATION FairSpec
INVARIANTS InflightExact EveryParentOwned
PROPERTIES ReapSparesCounted CreateReturns IdleReclaimed
CHECK_DEADLOCK FALSE
