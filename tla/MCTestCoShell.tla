--------------------------- MODULE MCTestCoShell ---------------------------
(* TestCoShell with the values of its constants for TLC. *)
EXTENDS TestCoShell

CONSTANTS comstate, other, x, y

MCNames   == {comstate, other}
MCBuiltIn == {}
MCScalars == {x, y}
MCVectors == {<<x>>, <<y>>}
MCSizes   == {SizeAsked}
=============================================================================
