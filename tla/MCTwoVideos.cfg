SPECIFICATION Spec
CONSTANTS
  a = a  b = b  k1 = k1  k2 = k2  k3 = k3  NULL = NULL
  Octets = {a, b}
  MinSegmentBytes = 1
  MaxSegmentBytes = 2
  Videos = {v1, v2}
  IdempotencyKeys = {k1, k2}
  Intents <- MCTwoIntents
  ChunkRequests <- MCTwoChunks
  Handlers = {h1}
  Workers = {w1, w2}
  Tokens = {t1, t2}
  Viewers = {}
  SegmentBytes = 1
  LeaseMs = 1
  MaxClock = 1
  MaxDamage = 0
SYMMETRY MCVideosToo
INVARIANTS LeaseHeldByOneRun RenditionMatchesDeclaredSource
