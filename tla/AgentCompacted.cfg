SPECIFICATION Spec
CONSTANTS
  a1 = a1
  t1 = t1
  w1 = w1
  w2 = w2
  g1 = g1
  Agents = {a1}
  Tenants = {t1}
  Workers = {w1, w2}
  Gateways = {g1}
  StaleAfter = 1
  Batch = 1
  Compacting = TRUE
  MaxRevision = 2
  MaxWrites = 2
  MaxUnreadable = 0
  MaxTime = 3
  MaxFailures = 0
  MaxRestarts = 1
SYMMETRY Interchangeable
INVARIANT RevokedStaysRefused
