SPECIFICATION FairSpec
CONSTANTS
  Nodes <- ApprovalNodes
  NoNode = "NoNode"
  Triggers <- TrigOnly
  Kind <- ApprovalKind
  OutEdges <- ApprovalOut
  TimerBoundary <- ApprovalTimer
  ErrorBoundary <- ApprovalError
  MaxAttempts <- ApprovalAttempts
  ContinueOnError = {}
  Choices <- ApprovalChoices
  MAX_RUN_STEPS = 8
  MAX_TOKENS_PER_RUN = 8
  MAX_PASSES = 20
  Requests = {}
  MaxRetries = 1
  MaxFaults = 1
INVARIANTS NoOrphanClaim SucceededIsQuiet NoStrandedRun TokenBudget
PROPERTIES FailureSticks RunSettles
CHECK_DEADLOCK FALSE
