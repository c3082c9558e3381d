----------------------------- MODULE MCStreams -----------------------------
(* Small instances of Streams for TLC.                                      *)
EXTENDS Streams

MCText == {<<0, 1>>, <<1, 0, 1>>}
MCSmall == {Message(Note, <<1, 1>>), Message(Ctrl14b, <<0, 1, 1, 0>>), Message(ProgramChg, <<1>>)}
=============================================================================
