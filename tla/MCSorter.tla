------------------------------ MODULE MCSorter ------------------------------
(* The sorter with small bases: with Base = 2 the clock wraps every 16      *)
(* ticks, with Base = 3 every 81.                                           *)
EXTENDS Sorter
=============================================================================
