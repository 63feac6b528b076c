\* Three tasks or threads and two names: the maps agree, and the handlers implement
\* AuditPolicy.
SPECIFICATION Spec
CONSTANTS
  p1 = p1
  p2 = p2
  p3 = p3
  p4 = p4
  agent = agent
  other = other
  Absent = Absent
  NoPid = NoPid
  NoComm = NoComm
  Pid <- ThreePids
  Comm <- TwoComms
  TargetComms <- OneTarget
  Boot <- BootOne
  WlCap = 5
  TreeCap = 5
  MaxChain = 2
  DepthMod = 256
  Cpus = 3
  Threads = TRUE
  PidReuse = FALSE
SYMMETRY Symmetry
CHECK_DEADLOCK FALSE
INVARIANTS
  MapsAgree
PROPERTIES
  ImplementsPolicy
