\* Any order of connections, keys, timeouts and sources; attempts, batches and keys end.
SPECIFICATION FairSpec
CONSTANTS
  f1 = f1  f2 = f2  None = None  Noop = Noop  Remove = Remove
  Fds <- TwoFds
  MaxKeys = 3
  MaxSources = 3
  BufferSize = 2
  TimeoutConnect = 1
  TimeoutSend = 1
  NoopAfter = 2
  Immediate = TRUE
INVARIANTS
  TypeOK
  PendingMatches
  NoSilentLoss
PROPERTIES
  SocketClosedOnlyByStale
  KeepsChannel
  ConnectingEnds
  SendingEnds
  KeysSettle
