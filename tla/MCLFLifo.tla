------------------------------ MODULE MCLFLifo ------------------------------
(***************************************************************************)
(* Small instances of LFLifo for TLC.                                      *)
(***************************************************************************)
EXTENDS LFLifo, TLC
=============================================================================
