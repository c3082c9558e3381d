CONSTANTS
  End = 4
  Tempo <- MCTempo
  Notes <- MCNotes
  Prog <- MCProg
  LoopStart = 2
  LoopMarker = 3
  Far = 7
  Garbage = {0, 3, 9}
  Position = {1, 3, 5}
  Cell = {1, 2}
  NULL = NULL
  MaxMs = 7
  MaxEnds = 1
SPECIFICATION Spec
INVARIANTS TypeOK Punctual Chased
PROPERTY Silent
