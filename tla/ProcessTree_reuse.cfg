\* Full maps, ids handed out again, a depth of one bit.
SPECIFICATION Spec
CONSTANTS
  p1 = p1
  p2 = p2
  p3 = p3
  p4 = p4
  agent = agent
  other = other
  Absent = Absent
  NoPid = NoPid
  NoComm = NoComm
  Pid <- ThreePids
  Comm <- OneComm
  TargetComms <- OneTarget
  Boot <- BootOne
  WlCap = 2
  TreeCap = 2
  MaxChain = 2
  DepthMod = 2
  Cpus = 2
  Threads = FALSE
  PidReuse = TRUE
SYMMETRY Symmetry
CHECK_DEADLOCK FALSE
INVARIANTS
  TypeOK
  EntriesLive
  NodeIsOwn
PROPERTIES
  KeptUntilExit
  FirstLinkTrue
