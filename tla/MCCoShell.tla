----------------------------- MODULE MCCoShell -----------------------------
(* CoShell with the values of its constants for TLC. *)
EXTENDS CoShell

CONSTANTS c1, c2

MCOneClient  == {c1}
MCTwoClients == {c1, c2}
=============================================================================
