SPECIFICATION FairSpec
CONSTANTS
  p = p
  q = q
  r = r
  NoPid = NoPid
  Clients = {p, q, r}
  Args <- AllAllHttp
  Kernels = {"nl_kcmd", "nl_log"}
  MayFail = TRUE
  BufLen = 11
  MaxRows = 4
  LineLens = {3, 4}
INVARIANT TypeOK
INVARIANT OneReport
INVARIANT AnswerMine
INVARIANT ReplyFits
PROPERTY AllAnswered
CHECK_DEADLOCK FALSE
