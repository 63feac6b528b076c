\* Nobody makes a record for 1024 polls.
SPECIFICATION Spec
CONSTANTS
  c1 = c1
  c2 = c2
  Absent = Absent
  Cpu <- TwoCpus
  MaxRecords = 0
  MaxTs = 1
  MapCap = 2
  Lens <- OneLen
  HeadLen = 3
  TailLen = 1
  BufSize = 14
  MaxExp = 1024
  MaxIdle = 1024
  Exits = FALSE
CHECK_DEADLOCK FALSE
INVARIANTS
  RunsUntilStopped
