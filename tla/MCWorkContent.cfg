SPECIFICATION Spec
CONSTANTS
  Parts = {"schedule", "agents", "call", "sweeps", "ingest", "local", "remote", "versions", "graph", "turn", "actions", "spoken", "json", "quiz", "model"}
  r1 = r1
  r2 = r2
SYMMETRY SymmetricProcesses
INVARIANTS   PromotionHolds PublishingHolds StepsHold
PROPERTIES ContentSteps
CHECK_DEADLOCK FALSE
