SPECIFICATION Spec
CONSTANTS
  t1 = t1
  t2 = t2
  f1 = f1
  f2 = f2
  Tenants = {t1, t2}
  Fixes = {f1, f2}
  OwnerOf <- MCOwnerOf
  Requests = {r1, r2}
  Window = 1
  MaxNow = 2
  MaxDeliveries = 3
  Followed = {f1}
  Keys = {k1, k2}
  Nil = Nil
SYMMETRY Symmetry
INVARIANTS
  ToldWhenMerged
  OwnTenantOnly
  CommentedOnceAlone
  RollbackInWindow
PROPERTY
