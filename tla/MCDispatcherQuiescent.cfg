SPECIFICATION Spec
CONSTANTS
  Callers = {c1, c2}
  Drainers = {d1, d2}
  Names = {n1}
  Tenants = {t1}
  NoTenant = NoTenant
  SupportedQueues = {"default", "priority"}
  OtherQueue = "other"
INVARIANT
  DrainQuiescent
CHECK_DEADLOCK FALSE
