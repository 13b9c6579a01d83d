SPECIFICATION Spec
CONSTANTS
  Nodes <- ReviewNodes
  NoNode = "NoNode"
  Triggers <- TrigOnly
  Kind <- ReviewKind
  OutEdges <- ReviewOut
  TimerBoundary <- ReviewNone
  ErrorBoundary <- ReviewNone
  MaxAttempts <- ReviewOnce
  ContinueOnError <- ReviewContinue
  Choices <- ReviewChoices
  MAX_RUN_STEPS = 8
  MAX_TOKENS_PER_RUN = 8
  MAX_PASSES = 3
  Requests = {r1}
  MaxRetries = 0
  MaxFaults = 0
INVARIANTS  CloseOnce
CHECK_DEADLOCK FALSE
