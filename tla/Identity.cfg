SPECIFICATION Spec
CONSTANTS
  Callers <- MCCallers
  Processes = {"left", "right"}
  ProcessOf <- MCProcessOf
  PoolSize <- MCPoolSize
  Calls <- MCCalls
  OnCurve <- MCOnCurve
  MaxCalls = 3
  MaxCrashes = 1
INVARIANTS
  OneKeyOneHuman
  AnswersAgree
  TrailTellsRegistrations
  CheckOneNamesTheSigner
PROPERTIES
  CallsReturn
CHECK_DEADLOCK FALSE
