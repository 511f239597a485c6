SPECIFICATION FairSpec
CONSTANTS
  j1 = j1  c1 = c1  c2 = c2
  Jobs = {j1}
  Routed = {j1}
  Calls = {c1, c2}
  Retries = 2
  NoJob = NoJob
  MaxTokens = 3
INVARIANTS TypeOK NoGhostJobs ParkedHasRow CompletionSticks AttemptsBounded
PROPERTIES OnlyClaimOwnerDecides LeasesEnd
CHECK_DEADLOCK FALSE
