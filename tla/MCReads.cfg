SPECIFICATION Spec
CONSTANTS
  a = a  b = b  k1 = k1  k2 = k2  k3 = k3  NULL = NULL
  Octets = {a, b}
  MinSegmentBytes = 1
  MaxSegmentBytes = 2
  Videos = {v1}
  IdempotencyKeys = {k1, k2, k3}
  Intents <- MCShortIntent
  ChunkRequests <- MCShortChunk
  Handlers = {h1}
  Workers = {w1}
  Tokens = {t1, t2}
  Viewers = {r1}
  SegmentBytes = 2
  LeaseMs = 1
  MaxClock = 2
  MaxDamage = 1
SYMMETRY MCTokens
INVARIANTS ReferencedObjectsStored IntactRenditionsPublishable SegmentsCarrySource AuthorizedReadsServeDeclaredSource TombstonedAtMostTwice
PROPERTIES CommitsVerifiedObjects
