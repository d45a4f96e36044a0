SPECIFICATION FairSpec
CONSTANTS
  a1 = a1
  t1 = t1
  w1 = w1
  w2 = w2
  g1 = g1
  Agents = {a1}
  Tenants = {t1}
  Workers = {w1, w2}
  Gateways = {g1}
  StaleAfter = 1
  Batch = 1
  Compacting = FALSE
  MaxRevision = 2
  MaxWrites = 8
  MaxUnreadable = 0
  MaxTime = 1
  MaxFailures = 1
  MaxRestarts = 0
INVARIANTS
  LogFollowsRegistry
  OneDecisionPerRevision
  DecisionIsWrittenOrOutstanding
PROPERTIES
  EverythingIsAnnounced
  GatewaysConverge
