\* Two workers, two clients and three tasks; no symmetry, since liveness is checked.
SPECIFICATION FairSpec
CONSTANTS
  w1 = w1  w2 = w2  main = main  other = other  t1 = t1  t2 = t2  t3 = t3
  Workers = {w1, w2}
  Clients = {main, other}
  Owner = main
  Tasks = {t1, t2, t3}
  NoTask = NoTask
  Nobody = Nobody
INVARIANTS NoTaskForgotten DrainedBeforeExit QuietUpToPopped
PROPERTIES RunsInOrderOnce EveryTaskFinishes ReturnsUnlessMissed
CHECK_DEADLOCK FALSE
