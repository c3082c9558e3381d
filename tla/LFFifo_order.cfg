\* One producer and one consumer.
CONSTANTS
  Producers = {p1}
  Consumers = {r1}
  Cells = {c1, c2, c3}
  Dummy = Dummy
  End = End
  NULL = NULL
  MaxIc = 8
  MaxOc = 8
SPECIFICATION Spec
SYMMETRY CellsAlike
PROPERTY InOrder
CHECK_DEADLOCK FALSE
