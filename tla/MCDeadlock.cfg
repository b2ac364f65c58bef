SPECIFICATION Spec
CONSTANTS
  c1 = c1  c2 = c2
  NULL = NULL
  Clients = {c1, c2}
  Kinds = {"open", "chunk", "finalize", "claim", "tombstone"}
INVARIANTS ConsistentLockOrder
