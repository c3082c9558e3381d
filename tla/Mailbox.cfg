\* Two readers, two writers and three messages.
CONSTANTS
  Readers = {r1, r2}
  Writers = {w1, w2}
  Messages = {m1, m2, m3}
  NIL = NIL
SPECIFICATION MailSpec
INVARIANT TakenOnce
\* The messages run out.
CHECK_DEADLOCK FALSE
