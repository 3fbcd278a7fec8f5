----------------------------- MODULE RankTable -----------------------------
(***************************************************************************)
(* Names and ranks: the rank of a name in a std::vector of signals, and    *)
(* the std::map from names to ranks of server-command.h.  Rank r is        *)
(* position r+1 of the sequence.                                           *)
(***************************************************************************)
EXTENDS Integers, Sequences, Functions

(* Mutant: positions counted from 1. *)
RankFromOne(v, n) == CHOOSE i \in 1 .. Len(v) : v[i] = n

(* std::distance(begin(), find_if(...)). *)
RankOf(v, n) == (CHOOSE i \in 1 .. Len(v) : v[i] = n) - 1

Valid(v, r) == 0 <= r /\ r < Len(v)

(* Mutant: the rank of a new element without the -1. *)
SizeAsRank(v) == Len(v)

(* size()-1, the rank of the element pushed last. *)
LastRank(v) == Len(v) - 1

(* Mutant: std::map::insert, which keeps the entry there is. *)
Insert(m, n, r) ==
  [x \in DOMAIN m \cup {n} |-> IF x \in DOMAIN m THEN m[x] ELSE r]

(* std::map::operator[](n) = r. *)
Put(m, n, r) == [x \in DOMAIN m \cup {n} |-> IF x = n THEN r ELSE m[x]]

(* std::map::operator[] on a name that has no entry enters it with rank 0. *)
Get(m, n) == IF n \in DOMAIN m THEN m[n] ELSE 0
=============================================================================
