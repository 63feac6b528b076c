\* Handlers of four tasks and threads interleave on three CPUs; room in the maps,
\* ids are not handed out again.
SPECIFICATION Spec
CONSTANTS
  p1 = p1
  p2 = p2
  p3 = p3
  p4 = p4
  agent = agent
  other = other
  Absent = Absent
  NoPid = NoPid
  NoComm = NoComm
  Pid <- FourPids
  Comm <- OneComm
  TargetComms <- OneTarget
  Boot <- BootOne
  WlCap = 5
  TreeCap = 5
  MaxChain = 3
  DepthMod = 256
  Cpus = 3
  Threads = TRUE
  PidReuse = FALSE
SYMMETRY Symmetry
CHECK_DEADLOCK FALSE
INVARIANTS
  Inherits
  ChainTruth
  ChainEnds
