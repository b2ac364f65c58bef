SPECIFICATION Spec
CONSTANTS
  a = a  b = b  k1 = k1  k2 = k2  k3 = k3  NULL = NULL
  Octets = {a, b}
  MinSegmentBytes = 1
  MaxSegmentBytes = 2
  Videos = {v1}
  IdempotencyKeys = {k1, k2, k3}
  Intents <- MCIntents
  ChunkRequests <- MCChunks
  Handlers = {h1, h2}
  Workers = {}
  Tokens = {}
  Viewers = {}
  SegmentBytes = 1
  LeaseMs = 1
  MaxClock = 0
  MaxDamage = 1
SYMMETRY MCHandlers
INVARIANTS ChunksTileOffset FinalizeFindsNoGap AcknowledgedBytesFinalized
