SPECIFICATION FairSpec
CONSTANTS
  Tokens = {1, 2, 3}
  Runs = {"r1", "r2"}
  RunOf <- CrossRuns
  Terminating = {"r1", "r2"}
  Parked = {3}
  Sessions = {s1, s2}
  NoSession = NoSession
  NoToken = 0
  Limit = 2
  MaxAdvances = 1
  MaxErrors = 1
  MaxCrashes = 1
INVARIANTS OneAdvancerPerRun
PROPERTIES OwnersSerialise ActiveIsTaken
CHECK_DEADLOCK FALSE
