CONSTANTS
  Streams = {stdout}
  Budget = 1
  MaxOut = 1
  MaxChunk = 1
  PipeCap = 1
  ActivityCap = 1
  Events = {"closeStdin", "kill", "cancel", "docker", "hang"}
SPECIFICATION FairSpec
PROPERTIES
  SessionEnds
  GoroutinesEnd
CHECK_DEADLOCK FALSE
