\* Queries of every kind, and two connections that write a table with or without a key.
SPECIFICATION MCSpec
CONSTANTS
  c1 = c1  c2 = c2
  Questions = {"set"}
  Connections = {c1, c2}
  AnyKey <- AllKeys
  AnyVal <- AllVals
  Statements <- Everything
  Sources <- ThreeTables
  TooBig <- BigRow
  Keyed = {TRUE, FALSE}
  Null = Null  Garbage = Garbage  Idle = Idle
  VectorSize = 2
  MaxRows = 4
  MaxStatements = 3
  SmallSide = 2
  EmptyText = EmptyText  NullText = NullText
  Threads = {1, 2}
  Parts = 2
  MaxHash = 5
  ActiveCap = 1
  LimitSlack = 1
  MaxIterations = 3
  MaxRecursiveRows = 9
  TopNThreshold = 3
  Oversample = 2
  CacheCap = 3
  EagerRows = 4
INVARIANTS UnionDeduplicates
CHECK_DEADLOCK FALSE
