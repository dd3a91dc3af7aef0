\* The owner stores a setup token while a refresh is in flight.
SPECIFICATION SpecOneAccount
CONSTANTS
  p1 = p1
  p2 = p2
  a = a
  b = b
  c1 = c1
  c2 = c2
  c3 = c3
  c4 = c4
  t1 = t1
  t2 = t2
  t3 = t3
  Proc = {p1, p2}
  Label = {a, b}
  Cred = {c1, c2, c3}
  Token = {t1, t2}
  RefreshToken <- MCRefreshToken
  Rank <- MCRank
  Registered = {a}
  Setup = Setup
  Absent = Absent
  None = None
  MaxAttempts = 1
  MaxEdits = 1
  MaxFaults = 0
INVARIANT RecoverableIsResolvable
CONSTRAINT NoLifecycleCommand
SYMMETRY Processes
CHECK_DEADLOCK FALSE
