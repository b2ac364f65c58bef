SPECIFICATION FairSpec
CONSTANTS
  c1 = c1  c2 = c2
  NULL = NULL
  Clients = {c1, c2}
  Kinds = {"open", "chunk", "finalize", "claim", "ready", "publish", "tombstone", "foreign_tombstone", "migrate"}
INVARIANTS TypeOK OneWriterPerRow DecisionsHoldAtCommit OthersLockInOrder
PROPERTIES ImplementsLifecycle TransactionsEnd
