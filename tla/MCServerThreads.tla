-------------------------- MODULE MCServerThreads --------------------------
(* ServerThreads with the values of its constants for TLC. *)
EXTENDS ServerThreads

CONSTANTS t1, t2, n1, n2, position

MCUpcalls == {t1, t2}
MCNames   == {n1, n2, position}
MCBuiltIn == {position}
=============================================================================
