SPECIFICATION Spec
CONSTANTS
  Cap <- MCCap
  BackupCount <- MCBackupCount
  Days <- MCDays
  MaxLines = 9
PROPERTIES
  RolloverWrites
CHECK_DEADLOCK FALSE
