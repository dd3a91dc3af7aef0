\* A commit that dies or raises twice, also in the midst of its recovery, while
\* commands keep opening the store.
SPECIFICATION FairSpec
CONSTANTS
  p1 = p1
  p2 = p2
  auth = auth
  config = config
  other = other
  codex = codex
  spare = spare
  x = x
  y = y
  None = None
  Proc = {p1, p2}
  Content = {x, y}
  Bundle = {codex}
  File = {auth, config}
  BundleOf <- OneBundle
  MaxGeneration = 2
  MaxFaults = 2
CHECK_DEADLOCK FALSE
INVARIANTS WholeBundles EvidenceSufficient
PROPERTIES NoBlindReplace CommitIsAtomic InterruptionResolved
