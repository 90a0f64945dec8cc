CONSTANTS
  None = None
  Tests <- MCTests
  Names <- MCNames
  BackupName <- MCBackupName
  MaxBackups = 3
  Commands <- MCCommands
  Overrides = {"rv32e"}
  MaxBuilds = 2
  MaxEdits = 1
SPECIFICATION Spec
CHECK_DEADLOCK FALSE
INVARIANTS StatusHonest PassedIsReal PassedIsClean BoardHasThisProgram
PROPERTY TrackersKept
