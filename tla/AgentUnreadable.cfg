SPECIFICATION Spec
CONSTANTS
  a1 = a1
  t1 = t1
  w1 = w1
  g1 = g1
  Agents = {a1}
  Tenants = {t1}
  Workers = {w1}
  Gateways = {g1}
  StaleAfter = 0
  Batch = 1
  Compacting = TRUE
  MaxRevision = 3
  MaxWrites = 4
  MaxUnreadable = 1
  MaxTime = 1
  MaxFailures = 1
  MaxRestarts = 0
INVARIANT RosterHoldsADecision
