\* One client besides MidiShare, whose receive alarm connects at interrupt level.
CONSTANTS
  Apps = {1}
  Cells = {c1, c2}
  NULL = NULL
  Client = client
  Interrupts = {alarm}
SPECIFICATION Spec
SYMMETRY CellsAlike
INVARIANT AssumedInList
