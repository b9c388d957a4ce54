SPECIFICATION OnboardingSpec
CONSTANTS
  Handlers = {h1, h2}
  Targets = {"first_pr_analyzed", "agent_installed", "bogus"}
  Reasons = {"24h_no_vcs", "72h_no_agent", "7d_no_apply_fix"}
  VCSAfter = 1
  AgentAfter = 1
  FixAfter = 1
  MaxTime = 1
  Nil = Nil
SYMMETRY Symmetry
INVARIANTS
  RecordInOrder
  AckedKeptAlone
PROPERTIES
  NudgeHonest
