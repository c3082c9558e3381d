CONSTANTS
  clock = clock
  other = other
  Client = {clock, other}
  Kind <- MCKind
  Cell = {1, 2, 3}
  NULL = NULL
SPECIFICATION Spec
INVARIANTS TypeOK ClockPointed
PROPERTY TasksEnd
