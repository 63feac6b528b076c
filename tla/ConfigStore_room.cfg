\* Two commands, a hand editor and the daemon; notifications get lost.
SPECIFICATION Spec
CONSTANTS
  c1 = c1
  c2 = c2
  n1 = n1
  n2 = n2
  Cmd <- TwoCmds
  Name <- OneName
  MaxId = 2
  QueueCap = 2
  ReadMax = 2
  Editor = TRUE
SYMMETRY Symmetry
CHECK_DEADLOCK FALSE
INVARIANTS
  StoreTypeOK
  TornByHandOnly
  ConfigIsCurrent
PROPERTIES
  ChangesItsOwn
