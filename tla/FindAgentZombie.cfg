SPECIFICATION Spec
CONSTANTS
  AgentRuns = {a1, a2}
  NoRun = NoRun
  Workers = {w1, w2}
  NoWorker = NoWorker
  Humans = {h1}
  Sla = {TRUE, FALSE}
  Caught = {"escalated"}
  MAX_ITERATIONS = 2
  EarlyExpiry = FALSE
  MaxFaults = 2
  MaxDecisions = 2
INVARIANTS EffectsOwned
CHECK_DEADLOCK FALSE
