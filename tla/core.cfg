SPECIFICATION FairSpec
CONSTANTS
  m = m
  k = k
  w = w
  u = u
  c1 = c1
  c2 = c2
  n1 = n1
  n2 = n2
  CPUs = {c1, c2}
  Conns = {m, k, u}
  Root <- RootMKU
  Acct = {m, k}
  Names = {"ftp", "qq", "mqq"}
  Unknown = "unknown"
  NoProto = NoProto
  Uninit = Uninit
  WellKnown <- PortMKU
  Nodes = {n1}
  NodeName <- OneNode
  None = None
  Untracked = Untracked
  Alien = Alien
  NoPacket = NoPacket
  NumPackets = 2
  MaxDataLen = 3
  MaxSeg = 2
  MaxPkts = 3
  Foreign = FALSE
  LowMemory = FALSE
  Unloads = FALSE
  Loopback = FALSE
PROPERTY PacketReleased
PROPERTY Decided
PROPERTY BufferReclaimed
INVARIANT TypeOK
INVARIANT MutualExclusion
INVARIANT FamilyAgrees
PROPERTY FlowPromise
