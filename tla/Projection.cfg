SPECIFICATION Spec
CONSTANTS
  m1 = m1
  m2 = m2
  p1 = p1
  p2 = p2
  x = x
  y = y
  z = z
  Members = {m1, m2}
  Partitions = {p1, p2}
  Stream <- Mixed
  MaxRecords = 2
  Earliest = 2
  Latest = 9
  Precision = 2
  MaxFailures = 3
SYMMETRY AlikeMembers
INVARIANTS
  TypeOK
  CommittedIsSettled
  NothingConfirmedReadsAsGone
  AnswerIsTheFold
