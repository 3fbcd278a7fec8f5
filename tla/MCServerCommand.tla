-------------------------- MODULE MCServerCommand --------------------------
(* ServerCommand with the values of its constants for TLC. *)
EXTENDS ServerCommand

CONSTANTS n1, n2, position, x, y

MCNames   == {n1, n2, position}
MCBuiltIn == {position}
MCScalars == {x, y}
MCVectors == {<<x>>, <<x, y>>}
MCMoreVectors == {<<x>>, <<y>>, <<x, y>>}
=============================================================================
