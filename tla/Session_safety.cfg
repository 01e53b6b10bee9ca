CONSTANTS
  Streams = {stdout, stderr}
  Budget = 2
  MaxOut = 3
  MaxChunk = 2
  PipeCap = 1
  ActivityCap = 1
  Events = {"stdin", "closeStdin", "kill", "cancel"}
SPECIFICATION Spec
SYMMETRY Symmetry
INVARIANTS
  ForwardedWithinBudget
  TruncatedWhenCut
  ContainerGone
PROPERTIES
  FirstCallerDecides
  IdleOnlyWhenQuiet
CHECK_DEADLOCK FALSE
