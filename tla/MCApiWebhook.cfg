SPECIFICATION Spec
CONSTANTS
  t1 = t1
  t2 = t2
  h1 = h1
  h2 = h2
  e1 = e1
  e2 = e2
  e3 = e3
  e4 = e4
  e5 = e5
  None = None
  Nobody = Nobody
  Absent = Absent
  Tenants = {t1, t2}
  SessionTTL = 3
  Bodies <- MCBodies
  Hash <- MCHash
  ShareTTL = 2
  Mixes <- HookMixes
  Clients = {1, 2}
  Releases = {1, 2}
  Events = {e1, e2, e3, e4, e5}
  HookKind <- MCHookKind
  Callers <- MCCallers
  Batches <- MCBatches
  Asks <- MCAsks
  Worlds <- MCWorlds
PROPERTY MergeAttributed
CHECK_DEADLOCK FALSE
