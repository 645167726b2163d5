\* One process and one crash.
SPECIFICATION MCSpec
CONSTANTS
  saver = saver  visitor = visitor
  c1 = c1  c2 = c2  c3 = c3  f1 = f1  f2 = f2  f3 = f3 
  s1 = s1  t1 = t1  t2 = t2
  Parts = {"database"}
  Procs = {saver}
  Writers = {saver}
  Changes = {c1, c2, c3}
  Files = {f1, f2, f3}
  NoFile = NoFile
  MaxCrashes = 1
  Catalogs <- SavedCatalogs
  Null = Null  Garbage = Garbage  Misparsed = Misparsed
  MaxTables = 2
  MaxRows = 2
  Digit = Digit  Decimal = Decimal  Stamp = Stamp  Minus = Minus  Letter = Letter
  Delimiter = Delimiter  Quote = Quote  NL = NL  CR = CR  Unread = Unread
  Columns = 2
  Tables <- SmallTables
  VectorSize = 2
  SampleSize = 2
  Threads = 2
  VECTOR_SIZE = 2  ROW_GROUP_SIZE = 3
  Scans = {s1}
  Tasks = {t1, t2}
  None = None
  MaxTableRows = 6
INVARIANT SavedSurvivesCrash
CHECK_DEADLOCK FALSE
