SPECIFICATION FairSpec
CONSTANTS
  k1 = k1
  k2 = k2
  c1 = c1
  c2 = c2
  r1 = r1
  Calls = {k1, k2}
  Senders = {c1, c2}
  Returners = {r1}
  Once = {k1}
  Made = {{k1}, {k2}}
  Outcome <- MCOutcome
  Mortal = {c1}
  MaxFaults = 2
INVARIANTS ReceiptHasResult AckIsAtomic
PROPERTIES SubmittedStays ImplementsCallout CallsSettle
CHECK_DEADLOCK FALSE
