SPECIFICATION FairSpec
CONSTANTS
  AgentRuns = {a1, a2}
  NoRun = NoRun
  Workers = {w1, w2}
  NoWorker = NoWorker
  Humans = {h1}
  Sla = {TRUE, FALSE}
  Caught = {"escalated"}
  MAX_ITERATIONS = 2
  EarlyExpiry = FALSE
  MaxFaults = 1
  MaxDecisions = 1
INVARIANTS  OneExecutor StampIsOwn
PROPERTIES AgentStepEnds
CHECK_DEADLOCK FALSE
