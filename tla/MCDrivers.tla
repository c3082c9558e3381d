----------------------------- MODULE MCDrivers -----------------------------
(* Small instances of Drivers for TLC.                                      *)
EXTENDS Drivers, TLC
=============================================================================
