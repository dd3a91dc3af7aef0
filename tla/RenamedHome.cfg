SPECIFICATION Spec
CONSTANTS
  p1 = p1
  p2 = p2
  l1 = l1
  l2 = l2
  Proc = {p1, p2}
  Label = {l1, l2}
  Cred = {k1, k2, k3}
  Private = {k1, k2, k3}
  Rotating = {k1, k2, k3}
  NoAccount = NoAccount
  None = None
  MaxVersion = 4
PROPERTY ResetRemovesBundles
SYMMETRY Processes
