SPECIFICATION FairSpec
CONSTANTS
  i1 = i1  s1 = s1  s2 = s2
  Instances = {i1}
  Schedulers = {s1, s2}
  None = None
  Plan <- MCPlan
  Due <- MCDue
  NonIdempotent = {i1}
  MaxAttempts = 1
  Answers = {"success", "transient"}
  MaxReady = 1
  Mortal = {s1}
  Faults = {"crash", "cancel", "quarantine", "hold", "slow"}
  MaxFaults = 1
INVARIANTS TypeOK RunnableIsQueued WaitsAreServed
PROPERTIES WokenByOwnTimer FirstAnswerStands InstancesSettle
CHECK_DEADLOCK FALSE
