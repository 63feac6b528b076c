---------------------------- MODULE MCLogRotation ----------------------------
\* Sizes for TLC: a log of two lines, three names for backups, three days.
EXTENDS LogRotation

MCCap == 2
MCBackupCount == 3
MCDays == 3
==============================================================================
