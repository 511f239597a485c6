SPECIFICATION Spec
CONSTANTS
  j1 = j1  c1 = c1  c2 = c2
  Jobs = {j1}
  Routed = {}
  Calls = {c1}
  Retries = 1
  NoJob = NoJob
  MaxTokens = 2

INVARIANT ExhaustedRaisesIncident
CHECK_DEADLOCK FALSE
