SPECIFICATION Spec
CONSTANTS
  Nil = Nil
  Payloads <- MCPayloads
  Resolve <- MCResolve
  Refs <- MCRefs
  BuiltInRefs <- MCBuiltIn
  NoRef = NoRef
  MaxDepth = 2
  dep = dep
  cron = cron
  job = job
  kafka = kafka
  Wirings <- MCWirings
  Answers <- MCAnswers
INVARIANTS
  OnlyVetted
  SkepticRespected
  NoSpendOnRefused
  JudgedAsMeant
  WalkDecides
