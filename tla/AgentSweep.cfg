SPECIFICATION FairSpec
CHECK_DEADLOCK FALSE
CONSTANTS
  a1 = a1
  a2 = a2
  t1 = t1
  w1 = w1
  Agents = {a1, a2}
  Tenants = {t1}
  Workers = {w1}
  Gateways = {}
  StaleAfter = 1
  Batch = 2
  Compacting = FALSE
  MaxRevision = 2
  MaxWrites = 6
  MaxUnreadable = 0
  MaxTime = 2
  MaxFailures = 1
  MaxRestarts = 0
INVARIANT DecisionIsWrittenOrOutstanding
PROPERTY EverythingIsAnnounced
