SPECIFICATION ObserveSpec
CONSTANTS
  dep = dep
  rst = rst
  p1 = p1
  p2 = p2
  sts = sts
  p3 = p3
  hpa = hpa
  e1 = e1
  None = None
  Gone = Gone
  Objects <- MCObjects
  Kind <- MCKind
  Name <- MCName
  Controller <- MCController
  Target <- MCTarget
  EventLimit = 1
  Tokens = {"a"}
  Refresh = 1
  Codes = {401, 503}
  Mutable <- MCMutable
  Val <- MCVal
  Configs <- MCConfigs
  Inits <- MCInits
  MaxChurn = 2
  ReplySet <- MCReplySet
INVARIANT Conserved
INVARIANT MissingLeavesTrace
INVARIANT WornOnlyAfterError
PROPERTY SettlesOnOwners
CHECK_DEADLOCK FALSE
