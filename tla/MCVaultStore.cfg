SPECIFICATION Spec
CONSTANTS
  vaultd = vaultd
  gui = gui
  it = it
  Handles <- MCHandles
  Strict <- MCStrict
  NoHandle = NoHandle
  MaxChanges = 3
INVARIANTS
  TypeOK
  LockMatchesModes
  WriterIsUpToDate
  FlushPublishesOwnCopy
  PrivateChangesStayPrivate
  ReadersSeeACommit
PROPERTIES
  ImplementsCommittedLog
