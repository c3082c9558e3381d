------------------------------ MODULE MCLFFifo ------------------------------
(***************************************************************************)
(* Small instances of LFFifo for TLC.                                      *)
(***************************************************************************)
EXTENDS LFFifo, TLC

\* Cells are interchangeable.
CellsAlike == Permutations(Cells)
=============================================================================
