SPECIFICATION NdFairSpec
CONSTANTS
  c1 = c1
  c2 = c2
  web = web
  peer = peer
  CPUs = {c1, c2}
  Keys = {web, peer}
  WellKnown <- OneWellKnown
  Patterns = {"qq"}
  Unknown = "unknown"
  None = None
  MaxPackets = 6
INVARIANT BooksBalance
PROPERTY PacketsLeave
CHECK_DEADLOCK FALSE
