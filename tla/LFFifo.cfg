\* Two producers and two consumers, in three threads: p2 does both.
CONSTANTS
  Producers = {p1, p2}
  Consumers = {p2, p3}
  Cells = {c1, c2}
  Dummy = Dummy
  End = End
  NULL = NULL
  MaxIc = 2
  MaxOc = 2
SPECIFICATION Spec
SYMMETRY CellsAlike
INVARIANTS TypeOK ChainOK NothingLost CountAccurate
\* The calls stop when ic and oc reach their bounds.
CHECK_DEADLOCK FALSE
