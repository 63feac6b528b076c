SPECIFICATION FairSpec
CONSTANTS
  p1 = p1
  p2 = p2
  p3 = p3
  c1 = c1
  c2 = c2
  Pid <- MCPid
  NoPid = NoPid
  Cmd <- MCCmd
  Serial = TRUE
  Prompt = TRUE
INVARIANTS
  LifeTypeOK
  OneServer
  FileNamesServer
PROPERTIES
  StoppedOrTold
  FailureIsTrue
  SignalEnds
