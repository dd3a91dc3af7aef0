SPECIFICATION Spec
CONSTANTS
  p1 = p1
  p2 = p2
  l1 = l1
  l2 = l2
  Proc = {p1, p2}
  Label = {l1, l2}
  Cred = {x1, x2, x3}
  Private = {}
  Rotating = {x1, x2, x3}
  NoAccount = NoAccount
  None = None
  MaxVersion = 4
INVARIANT NeverReturns
SYMMETRY Processes
