\* Two CPUs make three records while the daemon polls; everything can happen.
SPECIFICATION Spec
CONSTANTS
  c1 = c1
  c2 = c2
  Absent = Absent
  Cpu <- TwoCpus
  MaxRecords = 3
  MaxTs = 3
  MapCap = 2
  Lens <- OneLen
  HeadLen = 3
  TailLen = 1
  BufSize = 17
  MaxExp = 1024
  MaxIdle = 1
  Exits = TRUE
CHECK_DEADLOCK FALSE
INVARIANTS
  LogTypeOK
  OnePlace
  NothingVanishes
  FitsIsParsed
PROPERTIES
  AllSettle
  ImplementsChannel
  StopEnds
