------------------------------ MODULE MCTasks ------------------------------
(* Small instances of Tasks for TLC.                                        *)
EXTENDS Tasks, TLC

CONSTANTS clock, other       \* a client with a clock, one with deferred tasks

MCKind == clock :> typeProcess @@ other :> typeDProcess
=============================================================================
