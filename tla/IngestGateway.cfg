SPECIFICATION Spec
CONSTANTS
  b1 = b1
  b2 = b2
  b3 = b3
  a1 = a1
  t1 = t1
  h1 = h1
  h2 = h2
  h3 = h3
  Requests = {h1, h2, h3}
  Batches = {b1, b2, b3}
  AgentOf <- MCAgentOf
  RecordsOf <- MCRecordsOf
  Estate <- MCEstate
  Body <- MCBody
  Declared = {b1, b3}
  Weight <- MCWeight
  Malformed = {}
  Invalid = {b2}
  MaxBody = 2
  Bytes = 3
  MaxInflight = 2
INVARIANTS
  TypeOK
  HeldIsReserved
  MemoryIsBounded
PROPERTIES
  AgentsKeepTheirCopy
  EveryRequestEnds
