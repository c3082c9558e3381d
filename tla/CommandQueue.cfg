\* One sender, two commands, one larger than the first buffer, one signal.
CONSTANTS
  Producers = {s1}
  Thread = h
  Consumers = {h}
  Cells = {c1, c2}
  Dummy = Dummy
  End = End
  NULL = NULL
  MaxIc = 9
  MaxOc = 9
  Large = {c2}
  Interrupts = 1
SPECIFICATION QueueFairSpec
INVARIANTS QueueTypeOK SameCommand OnceOnly
PROPERTIES WokenByTheNext IsAPool CallsReturn
\* The commands to send run out.
CHECK_DEADLOCK FALSE
