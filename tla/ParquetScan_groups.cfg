\* Two threads, five row groups; no symmetry, since liveness is checked.
SPECIFICATION FairSpec
CONSTANTS
  NumGroups = 5
  NumThreads = 2
  Sizes <- SmallSizes
  Requests <- SmallRequests
  VectorSize = 2
  Caller = Caller
  Nobody = Nobody
INVARIANTS RowsInFileOrder GroupsInTurn
PROPERTIES EndsUnlessMissed
CHECK_DEADLOCK FALSE
