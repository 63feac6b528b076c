\* Fair handlers and a fair daemon; a configuration that names the program by name,
\* by path or not at all, and one process by its id.  It may all end: no task, and no
\* daemon either.
SPECIFICATION AuditFairSpec
CONSTANTS
  p1 = p1
  p2 = p2
  agent = agent
  Absent = Absent
  NoPid = NoPid
  NoComm = NoComm
  Pid <- TwoPids
  Comm <- OneComm
  TargetComms <- NoTargets
  Configs <- ThreeConfigs
  Agents <- BootOne
  Boot <- BootOne
  WlCap = 5
  TreeCap = 5
  MaxChain = 3
  DepthMod = 256
  Cpus = 1
  Threads = FALSE
  PidReuse = FALSE
CHECK_DEADLOCK FALSE
INVARIANTS
  AuditTypeOK
  DeadEntryIsRoot
PROPERTIES
  ChainStops
  TargetsGetListed
