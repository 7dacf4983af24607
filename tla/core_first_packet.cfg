SPECIFICATION Spec
CONSTANTS
  m = m
  k = k
  w = w
  u = u
  c1 = c1
  c2 = c2
  n1 = n1
  n2 = n2
  CPUs = {c1, c2}
  Conns = {m}
  Root <- RootM
  Acct = {m}
  Names = {"ftp", "qq", "mqq"}
  Unknown = "unknown"
  NoProto = NoProto
  Uninit = Uninit
  WellKnown <- PortM
  Nodes = {n1}
  NodeName <- OneNode
  None = None
  Untracked = Untracked
  Alien = Alien
  NoPacket = NoPacket
  NumPackets = 2
  MaxDataLen = 2
  MaxSeg = 1
  MaxPkts = 3
  Foreign = FALSE
  LowMemory = FALSE
  Unloads = FALSE
  Loopback = FALSE
INVARIANT NoDataMeansFirstMissed
