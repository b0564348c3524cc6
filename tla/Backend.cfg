\* Two clients that connect again before their former connection is closed.
SPECIFICATION Spec
CONSTANTS
  a1 = a1  a2 = a2  f1 = f1  f2 = f2  f3 = f3  None = None  Dead = Dead
  Noop = Noop  Remove = Remove  BadMagic = BadMagic  BadCmd = BadCmd  Short = Short
  Addrs <- TwoAddrs
  Fds <- TwoFds
  Batches <- EveryKind
  MaxKeys = 2
  MaxInbox = 1
SYMMETRY Symmetry
INVARIANTS
  TypeOK
  OneSource
  NoLeak
PROPERTIES
  KeepsRegistry
  RemovalLostOnlyWhenClosed
