--------------------------- MODULE MCCommandQueue ---------------------------
(* The command queue over its fifo, with one sender and two commands.       *)
EXTENDS CommandQueue

ASSUME OneReader
=============================================================================
