---------------------------- MODULE MCBufferRead ----------------------------
(* BufferRead for TLC: its constants are numbers, given in the cfg.        *)
EXTENDS BufferRead
=============================================================================
