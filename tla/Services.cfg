CONSTANTS
  TotalAttempts = 3
  OperationBudget = 30
  ConnectTimeout = 6
  ReadTimeout = 20
  BackoffBase = 1
  BackoffCap = 16
  RetryAfterCap = 40
  RetryAfters = {2, 60}
  Proxies = {"p1", "p2"}
  MaxOperations = 1
  Check = {"c1", "c2"}
  Accounts = 2
  Saved <- MCSaved
  Identity = {"i", "j"}
  Profiles <- MCProfiles
  MaxTotal = 2
  MaxClock = 1
  MainFile = {"main"}
  SubagentFile = {"subagent"}
  MaxLines = 3
  MaxDay = 1
  Label = {1, 2}
  Usage = {"usage"}
  Maintain = {"maintain"}
  MaxSweeps = 1
  MaxChanges = 1
  Entry = {"e", "f"}
  MaxCommands = 2
  MaxFailures = 1
  MaxEdits = 1
  MaxCrontab = 5
SPECIFICATION ServicesSpec
INVARIANTS CarriedOutOnce ShownNotStale LocalBetween AskedOwnProvider NoBeatAfterFailure QuiescentIsTrue
PROPERTIES SnapshotsAdvance KeepsTheRest KeepsUserLines
CHECK_DEADLOCK FALSE
