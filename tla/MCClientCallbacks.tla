------------------------- MODULE MCClientCallbacks -------------------------
(* ClientCallbacks with the values of its constants for TLC: two of the    *)
(* four clients have the same name.                                        *)
EXTENDS ClientCallbacks, TLC

CONSTANTS c1, c2, c3, c4, p1

MCClients == {c1, c2, c3, c4}
MCNameOf  == c1 :> 1 @@ c2 :> 2 @@ c3 :> 2 @@ c4 :> 3
MCPings   == {p1}
=============================================================================
