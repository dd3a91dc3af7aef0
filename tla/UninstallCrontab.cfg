CONSTANTS
  Entry = {"e"}
  MaxCommands = 1
  MaxFailures = 1
  MaxEdits = 0
  MaxCrontab = 5
SPECIFICATION Spec
PROPERTY UninstallRemovesOnlyItsBlock
CHECK_DEADLOCK FALSE
