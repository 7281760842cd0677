SPECIFICATION Spec
CONSTANTS
  c1 = c1  c2 = c2  t1 = t1  t2 = t2  p1 = p1  p2 = p2
  Clients = {c1, c2}
  Topics = {t1, t2}
  Patterns = {p1, p2}
  Matches <- MCMatches
SYMMETRY MCSymmetry
INVARIANTS
  DeletedOnce
  IndexesAgree
PROPERTY
  ReceivesItsSubscriptions
