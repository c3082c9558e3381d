CONSTANTS
  Client = {c1, c2}
  NDrivers = 2
  MaxSlots = 1
  MaxPorts = 2
  RcvMod = 2
  Cells = 5
  MaxSched = 2
  Alarmed = {1, c1}
  NoMap = NoMap
SPECIFICATION Spec
INVARIANTS TypeOK AwakeTogether Conserved NobodyForgotten
PROPERTY FollowsConnections
