SPECIFICATION SpecIncoming
CONSTANTS
  mjl = mjl
  ops = ops
  mjlAddr = mjlAddr
  opsAddr = opsAddr
  list = list
  nobody = nobody
  remote = remote
  Accounts = {mjl, ops}
  LocalAddr = {mjlAddr, opsAddr}
  Owner <- TwoOwners
  ReportAddr = {opsAddr}
  AliasAddr = {list}
  Members <- ListMembers
  UnknownAddr = {nobody}
  RemoteAddr = {remote}
  PostPublic = TRUE
  AliasFrom = FALSE
  Listeners <- OneOfEachKind
  RcptToLimit = 2
  BadLimit = 1
  FailedAuthLimit = 1
INVARIANTS
  SessionSound
  RecipientsAccounted
  DecisionSound
  TransientNeverRejects
  SignatureHolds
