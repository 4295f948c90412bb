CONSTANTS
  l1 = l1  l2 = l2  r1 = r1  r2 = r2  r3 = r3
  Session = {l1, l2}
  Request = {r1}
  NoText = NoText
SPECIFICATION Spec
INVARIANTS DoneMeansLoggedIn
SYMMETRY Sym
CHECK_DEADLOCK FALSE
