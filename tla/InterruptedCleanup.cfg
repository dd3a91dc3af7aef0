\* A crash between two unlinks of _cleanup.
SPECIFICATION SpecOneAccount
CONSTANTS
  p1 = p1
  p2 = p2
  a = a
  b = b
  c1 = c1
  c2 = c2
  c3 = c3
  c4 = c4
  t1 = t1
  t2 = t2
  t3 = t3
  Proc = {p1, p2}
  Label = {a, b}
  Cred = {c1, c2, c3}
  Token = {t1, t2}
  RefreshToken <- MCRefreshToken
  Rank <- MCRank
  Registered = {a}
  Setup = Setup
  Absent = Absent
  None = None
  MaxAttempts = 1
  MaxEdits = 0
  MaxFaults = 1
INVARIANT CompleteStageRecoverable
CONSTRAINT NoLifecycleCommand
SYMMETRY Processes
CHECK_DEADLOCK FALSE
