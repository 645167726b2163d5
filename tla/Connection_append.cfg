\* The same; an eligible view and whole lines.
SPECIFICATION MCSpec
CONSTANTS
  h = h  x = x  y = y  NL = NL  Missing = Missing
  c1 = c1  c2 = c2
  Connections = {c1, c2}
  Files <- AtFirst
  Contents <- Rewritten
  Tails <- Appended
  HeadSize = 3
  MaxSize = 8
  MaxChanges = 3
  Names <- TheNames
  Digits <- TheDigits
  Questions = {"view"}
  MaxCalls = 3
  LastInline = 8
  Wide = 8
INVARIANT AppendsAreSeen
CHECK_DEADLOCK FALSE
