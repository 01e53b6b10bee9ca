CONSTANTS
  c1 = c1 c2 = c2 c3 = c3
  Chunks = {c1, c2}
  Size <- SizeTwo
  InFlight = 2
  FrameLimit = 1
  ByteCap = 2
  ChanCap = 1
  PipeCap = 1
  Faults = {"redis", "pipe"}
SPECIFICATION FairSpec
INVARIANTS CapIsKept AcceptedIsAccountedFor
PROPERTIES EofAfterQueued ImplementsInputStream KillTaken
CHECK_DEADLOCK FALSE
