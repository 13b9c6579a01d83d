SPECIFICATION FairSpec
CONSTANTS
  Workflows = {"inline", "later"}
  Inline = {"inline"}
  Matches <- Both
  Requests = {q1}
  Workers = {w1, w2}
  NoTx = NoTx
  MAX_DEPTH = 0
  MAX_RUN_STEPS = 2
  Legs <- Walks
  LegSize = 1
  Limit = 1
  MaxEvents = 3
  MaxFaults = 1
INVARIANTS OneRunPerEvent ActedOnce ChainsEnd DoneIsComplete
PROPERTY EventsSettle
CHECK_DEADLOCK FALSE
