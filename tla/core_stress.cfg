SPECIFICATION Spec
CONSTANTS
  m = m
  k = k
  w = w
  u = u
  c1 = c1
  c2 = c2
  n1 = n1
  n2 = n2
  CPUs = {c1, c2}
  Conns = {m, w}
  Root <- RootMW
  Acct = {m, w}
  Names = {"ftp", "qq", "mqq"}
  Unknown = "unknown"
  NoProto = NoProto
  Uninit = Uninit
  WellKnown <- PortMW
  Nodes = {n1, n2}
  NodeName <- NodeNames
  None = None
  Untracked = Untracked
  Alien = Alien
  NoPacket = NoPacket
  NumPackets = 1
  MaxDataLen = 2
  MaxSeg = 1
  MaxPkts = 2
  Foreign = TRUE
  LowMemory = TRUE
  Unloads = TRUE
  Loopback = TRUE
INVARIANT OnlyStrayUnlockBreaks
PROPERTY LabelFinal
CHECK_DEADLOCK FALSE
