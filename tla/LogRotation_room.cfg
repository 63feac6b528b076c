SPECIFICATION Spec
CONSTANTS
  Cap <- MCCap
  BackupCount <- MCBackupCount
  Days <- MCDays
  MaxLines = 9
INVARIANTS
  RotationTypeOK
  ReadsInOrder
  Accounted
  NewestKept
PROPERTIES
  ReadsARun
CHECK_DEADLOCK FALSE
