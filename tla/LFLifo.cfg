\* Two threads and two cells are enough for ABA: a thread stops before its CAS2
\* while the other pops both cells and pushes the first one back.
CONSTANTS
  Procs = {p1, p2}
  Cells = {c1, c2}
  NULL = NULL
  MaxOc = 3
SPECIFICATION FairSpec
INVARIANTS TypeOK Linked OneOwner CountAccurate
PROPERTIES IsAStack CallsReturn
\* The calls stop when oc reaches its bound.
CHECK_DEADLOCK FALSE
