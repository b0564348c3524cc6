\* Inquiries that fail, hang or return too late, with and without extra server.
SPECIFICATION FairSpec
CONSTANTS
  a1 = a1  a2 = a2  Zero = Zero  None = None
  CommandPort = 4097  DefaultPort = 8353
  Addrs <- TwoAddrs
  Ports <- ThreePorts
  MaxRefreshes = 3
  Limit = 2
INVARIANTS
  TypeOK
  ButtonsAgree
  ListAgrees
  StagedIsConnected
  StandsStillForHung
PROPERTIES
  RefreshEnds
  ProgramEnds
