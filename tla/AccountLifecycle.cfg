SPECIFICATION Spec
SYMMETRY Symmetry
CONSTANTS
  Document = {"a", "b", "c"}
  NoDocument = "-"
  Inode <- MCInodes
  Slot = {1, 2}
  Representable = {"a", "b"}
  Migratable = {"a"}
  Process = {p, q}
  NoProcess = nobody
  Platforms = {"posix", "windows"}
  Sources <- MCSources
  Prototypes <- MCPrototypes
  MaxCommands = 2
  MaxFaults = 2
INVARIANTS FinalNamesWhole TemporaryResolvable AuthorityDeletedLast
PROPERTIES BackupBeforeReplace FailureIsTruthful CommitSurvivesPowerLoss
CONSTRAINT FewEvents
CHECK_DEADLOCK FALSE
