------------------------------ MODULE MCPlayer ------------------------------
(* Small instances of Player for TLC.                                       *)
EXTENDS Player

MCTempo == [d \in Date |-> IF d \in {0, 2} THEN 2 ELSE 1]    \* faster, slower, faster
MCNotes == {<<1, 4>>}                  \* sounds when the loop is left
MCProg == [d \in Date |-> IF d = 0 THEN "organ" ELSE IF d = 2 THEN "piano" ELSE NULL]
=============================================================================
