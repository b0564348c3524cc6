\* Every key is read.
SPECIFICATION FairSpec
CONSTANTS
  a1 = a1  a2 = a2  f1 = f1  f2 = f2  f3 = f3  None = None  Dead = Dead
  Noop = Noop  Remove = Remove  BadMagic = BadMagic  BadCmd = BadCmd  Short = Short
  Addrs <- TwoAddrs
  Fds <- TwoFds
  Batches <- Protocol
  MaxKeys = 2
  MaxInbox = 1
PROPERTY
  KeysRead
