SPECIFICATION Spec
CONSTANTS
  a = a
  b = b
  c = c
  d = d
  e = e
  NoName = NoName
  Mods = {a, b, c, d, e}
  Confs <- AllConfs
  Conf <- ConfOf
  BaseNames = {"unknown", "ftp"}
  MaxProto = 7
  LowMemory = TRUE
INVARIANT TypeOK
INVARIANT RowsKept
INVARIANT NamesUnique
INVARIANT ListExact
