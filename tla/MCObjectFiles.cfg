SPECIFICATION Spec
CONSTANTS
  d1 = d1  d2 = d2  f1 = f1  f2 = f2  f3 = f3  f4 = f4  p1 = p1  p2 = p2  p3 = p3
  NULL = NULL
  Digests = {d1}
  Files = {f1, f2, f3, f4}
  Callers = {p1, p2, p3}
SYMMETRY MCSymmetry
INVARIANTS TypeOK IntegrityErrorsMeanDamage SuccessMeansInstalled CreatedByOne TemporariesAccountedFor
PROPERTIES ImplementsContentStore
