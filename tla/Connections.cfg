\* Two clients besides MidiShare, and cells for two connections, an event and a
\* copy for each destination; any pair may be connected, a client to itself too.
CONSTANTS
  Apps = {1, 2}
  Cells = {c1, c2, c3, c4, c5}
  NULL = NULL
  Client = client
  Interrupts = {}
SPECIFICATION Spec
SYMMETRY CellsAlike
INVARIANTS TypeOK ListsAgree NoDangling
PROPERTY IsAPatchbay
