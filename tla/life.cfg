SPECIFICATION FairSpec
CONSTANTS
  c1 = c1
  c2 = c2
  CPUs = {c1, c2}
  Ports = {21, 53}
  Names = {"ftp", "dns"}
  Files <- SomeFiles
  MaxProto = 2
  MaxLoads = 2
  MayFail = TRUE
INVARIANT TypeOK
INVARIANT PartsUnderHook
INVARIANT RowPerPort
INVARIANT NothingLeaks
INVARIANT LockFreeUnderHook
PROPERTY InsmodEnds
PROPERTY RmmodEnds
CHECK_DEADLOCK FALSE
