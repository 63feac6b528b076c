\* Two records that do not fit the text.
SPECIFICATION Spec
CONSTANTS
  c1 = c1
  c2 = c2
  Absent = Absent
  Cpu <- TwoCpus
  MaxRecords = 2
  MaxTs = 2
  MapCap = 2
  Lens <- OneLen
  HeadLen = 3
  TailLen = 1
  BufSize = 14
  MaxExp = 1024
  MaxIdle = 1
  Exits = FALSE
CHECK_DEADLOCK FALSE
PROPERTIES
  FetchReturnsAll
