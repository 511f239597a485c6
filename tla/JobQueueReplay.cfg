SPECIFICATION FairSpec
CONSTANTS
  j1 = j1  c1 = c1  c2 = c2
  Jobs = {j1}
  Routed = {}
  Calls = {c1}
  Retries = 2
  NoJob = NoJob
  MaxTokens = 3

PROPERTY ReplaySucceeds
CHECK_DEADLOCK FALSE
