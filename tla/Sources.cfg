SPECIFICATION FairSpec
CONSTANTS
  a = a
  b = b
  u1 = u1
  u2 = u2
  h1 = h1
  h2 = h2
  Ids = {a}
  Urls = {u1, u2}
  HostLists = {h1, h2}
  Blank = Blank
  HostOf <- HostOfUrl
  Seed <- BuiltIn
  NoRow = NoRow
  Handlers = {w1, w2}
  MaxOps = 5
INVARIANTS TypeOK EnabledWasTested ToldWasTested
PROPERTIES AgentsLearn
CHECK_DEADLOCK FALSE
