--------------------------- MODULE MCDistantShell ---------------------------
(* DistantShell with the values of its constants for TLC. *)
EXTENDS DistantShell

CONSTANT f

MCOneFile == {f}
MCRaises  == {<<f, MaxLines>>}
=============================================================================
