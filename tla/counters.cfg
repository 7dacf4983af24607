SPECIFICATION Spec
CONSTANTS
  x = x
  y = y
  Conns = {x, y}
  Names = {"ftp", "qq"}
  Base = {"ftp"}
  NoProto = NoProto
  Uninit = Uninit
  NoName = NoName
  MaxProto = 2
  MaxPkts = 3
  Turnover <- SomeTurnover
SYMMETRY ConnSymmetry
PROPERTY OnlyRacesMisplace
INVARIANT TypeOK
INVARIANT InactiveExact
PROPERTY ReportSandwich
