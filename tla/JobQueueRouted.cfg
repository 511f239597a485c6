SPECIFICATION FairSpec
CONSTANTS
  j1 = j1  c1 = c1  c2 = c2
  Jobs = {j1}
  Routed = {j1}
  Calls = {c1}
  Retries = 2
  NoJob = NoJob
  MaxTokens = 3

PROPERTY LeaseHolderDecides
CHECK_DEADLOCK FALSE
