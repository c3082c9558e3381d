CONSTANTS
  Cell = {1, 2, 3, 4, 5, 6}
  NULL = NULL
  Room = 2
  Text <- MCText
  Small <- MCSmall
  MaxWire = 1
  MaxCopies = 1
  MaxDue = 2
  MaxReset = 1
SPECIFICATION Spec
INVARIANTS TypeOK Intact
PROPERTY Faithful
