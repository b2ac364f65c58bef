SPECIFICATION Spec
CONSTANTS
  a = a  b = b  k1 = k1  k2 = k2  k3 = k3  NULL = NULL
  Octets = {a, b}
  MinSegmentBytes = 1
  MaxSegmentBytes = 2
  Videos = {v1}
  IdempotencyKeys = {k1, k2, k3}
  Intents <- MCOneIntent
  ChunkRequests <- MCOneChunk
  Handlers = {h1}
  Workers = {w1, w2}
  Tokens = {t1, t2, t3}
  Viewers = {}
  SegmentBytes = 1
  LeaseMs = 2
  MaxClock = 4
  MaxDamage = 0
SYMMETRY MCWorkersAndTokens
INVARIANTS TypeOK LifecycleAgreement
PROPERTIES LeaseRespected CompletionCarriesCurrentLease ClosedJobsFinal TombstonePermanentOnceFinalized ImplementsLifecycle
