SPECIFICATION Spec
CONSTANTS
  t1 = t1  t2 = t2  t3 = t3
  a = a  b = b  p = p  q = q
  Tasks <- MCTasks
  Owner <- MCOwner
  Process <- MCProcess
  Guarded <- MCGuarded
  NoOwner = NoOwner
  Durable = TRUE
  MaxClaims = 4
  MaxRevision = 3
INVARIANTS TypeOK Replayable OneWriter
PROPERTIES LateReleaseIsHarmless QuarantineIsFinal LogSpec
