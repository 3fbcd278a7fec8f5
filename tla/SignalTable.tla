---------------------------- MODULE SignalTable ----------------------------
(***************************************************************************)
(* What the creation of signals promises its clients: a table that only    *)
(* grows, in which a name has one rank for ever, and this rank is the only *)
(* one that is ever given out for it.                                      *)
(***************************************************************************)
EXTENDS RankTable

CONSTANT Names

VARIABLES table,    \* the names, by rank
          handed    \* the <<name, rank>> that clients have received

vars == <<table, handed>>

Init == table = << >> /\ handed = {}

(* The name enters the table if it is new; the answer may come later.      *)
Create(n) ==
  /\ table' = IF n \in Range(table) THEN table ELSE Append(table, n)
  /\ handed' \in {handed, handed \cup {<<n, RankOf(table', n)>>}}

Next == \E n \in Names : Create(n)

Spec == Init /\ [][Next]_vars
=============================================================================
