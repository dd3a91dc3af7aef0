\* Two processes refresh an account each, open the store and migrate; the owner runs
\* one command and one failure happens, at any point.  What is left behind is
\* resolved while commands keep starting, one directory after the other.
SPECIFICATION FairSpecTwoAccounts
CONSTANTS
  p1 = p1
  p2 = p2
  a = a
  b = b
  c1 = c1
  c2 = c2
  c3 = c3
  c4 = c4
  t1 = t1
  t2 = t2
  t3 = t3
  Proc = {p1, p2}
  Label = {a, b}
  Cred = {c1, c3, c4}
  Token = {t1, t2, t3}
  RefreshToken <- MCRefreshToken
  Rank <- MCRank
  Registered = {a, b}
  Setup = Setup
  Absent = Absent
  None = None
  MaxAttempts = 1
  MaxEdits = 1
  MaxFaults = 1
CONSTRAINT OneEach
INVARIANT EvidenceCoherent
PROPERTIES EvidenceResolved StageNeverDropped
CHECK_DEADLOCK FALSE
