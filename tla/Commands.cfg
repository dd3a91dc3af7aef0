SPECIFICATION CommandsSpec
CONSTANTS
  Account = {"claude", "codex"}
  Owned = {"codex"}
  MaxVersion = 3
  Prototypes = {"EMPTY", "PROTOTYPE_IMPORT_REQUIRED"}
  Lossy = {"compatibility"}
  MaxUpdates = 1
  MaxFaults = 1
  Label = {"l", "m"}
  Owner = {a, b}
  Serial = {s, t}
  None = None
  Ops = {"add", "refresh", "login", "export", "setup", "restore"}
  MaxChanges = 2
INVARIANTS SelectedIsNewest NewestIsRetained AuthorityHasBundles OneIdentity
PROPERTIES Authorized ExportKeepsOwner RestoreKeepsTheRest
SYMMETRY Tokens
CHECK_DEADLOCK FALSE
