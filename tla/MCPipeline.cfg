SPECIFICATION MCSpec
CONSTANTS
  bump = bump
  bump2 = bump2
  spec = spec
  rs = rs
  verifier = verifier
  website = website
  notify_spec = notify_spec
  notify_website = notify_website
  Main = main_ref
  Prs <- MCPrs
  MaxRev <- MCMaxRev
  Broken <- MCBroken
  Dependabot <- MCDependabot
  Required <- MCRequired
  Workflows <- MCNobody
  Consumers <- MCNobody
  WorkflowOf <- MCWorkflowOf
  Touches <- MCTouches
INVARIANTS
  MergedWasValidated
PROPERTIES
  HeadOfMainIsJudged
  EveryChangeIsTold
CHECK_DEADLOCK FALSE
