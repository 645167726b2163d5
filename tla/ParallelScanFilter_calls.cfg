\* No symmetry, since liveness is checked.
SPECIFICATION FairSpec
CONSTANTS
  a = a  b = b  w1 = w1  w2 = w2
  Callers = {a, b}
  Workers = {w1, w2}
  Threads <- TwoTasksEach
  Morsels = 3
  Passing = {0, 1}
  Risky <- SecondOfA
  NoTask = NoTask  None = None
INVARIANTS ReturnIsComplete NoErrorSwallowed LocalsOutliveTasks
PROPERTY CallEnds
