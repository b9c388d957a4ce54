SPECIFICATION Spec
CONSTANTS
  Nil = Nil
  Invocations <- MCInvocations
INVARIANTS
  GateSound
  LateRefusal
  AdviceSettles
  AdvicePays
  DiffIsLedger
CHECK_DEADLOCK FALSE
