----------------------------- MODULE DataStack -----------------------------
(***************************************************************************)
(* The circular buffer of server-command.h: struct s_dataStack, a vector   *)
(* of time-stamped samples (tsData) with the write position `index' and    *)
(* the flag `turnaround', which says that the write position has come back *)
(* to the start at least once.                                             *)
(*                                                                         *)
(* The C++ vector is a sequence here, so cell i of the code is i+1 below;  *)
(* index keeps the code's 0-based value.  index is an unsigned int: it     *)
(* needs 2^32 ticks to wrap and is a natural number here.                  *)
(***************************************************************************)
EXTENDS Integers, Sequences

CONSTANT Garbage   \* what is found by reading beyond the end of a vector

(* A buffer whose cells are in S. *)
StackOf(S) == [slots : Seq(S), index : Nat, turnaround : BOOLEAN]

(* tsData(): what vector::resize puts in the cells it adds. *)
Blank == [ts |-> 0, data |-> << >>]

(* The constructor: no cell, nothing written. *)
EmptyStack == [slots |-> << >>, index |-> 0, turnaround |-> FALSE]

(* stackOfTsData.resize(k): keeps the first k cells, adds blank ones at    *)
(* the end.  index and turnaround are left as they are.                    *)
Resize(ds, k) ==
  [ds EXCEPT !.slots =
     [j \in 1 .. k |-> IF j <= Len(ds.slots) THEN ds.slots[j] ELSE Blank]]

(* The cell that a tick writes exists. *)
InRange(ds) == ds.index < Len(ds.slots)

(* Mutants of inc: the flag set outside the if; the flag not set. *)
IncFlagAlways(ds) ==
  [ds EXCEPT !.index = IF @ + 1 = Len(ds.slots) THEN 0 ELSE @ + 1, !.turnaround = TRUE]

IncFlagNever(ds) ==
  [ds EXCEPT !.index = IF @ + 1 = Len(ds.slots) THEN 0 ELSE @ + 1]

(* s_dataStack::inc: wraps only when index meets the size exactly. *)
Inc(ds) ==
  IF ds.index + 1 = Len(ds.slots)
  THEN [ds EXCEPT !.index = 0, !.turnaround = TRUE]
  ELSE [ds EXCEPT !.index = @ + 1]

(* One tick of synchroValue on one buffer: write the sample in cell index  *)
(* and advance.  A write beyond the last cell lands outside the vector.    *)
Store(ds, sample) ==
  Inc(IF InRange(ds) THEN [ds EXCEPT !.slots[ds.index + 1] = sample] ELSE ds)

(* Mutant: every cell, written or not. *)
CountAllCells(ds) == Len(ds.slots)

(* lsizeOfSTD of readInputVectorSignal: how many cells a read returns. *)
Count(ds) == IF ds.turnaround THEN Len(ds.slots) ELSE ds.index

(* Mutant: cells counted from 1 in the code too. *)
RowFromOne(ds, j, dim) ==
  LET cell == IF j + 1 <= Len(ds.slots) THEN ds.slots[j + 1] ELSE Blank
  IN  [ts |-> cell.ts, data |-> cell.data]

(* Cell j (from 1) as it is copied into the reply, dim elements of it.     *)
Row(ds, j, dim) ==
  LET cell == IF j <= Len(ds.slots) THEN ds.slots[j]
                                    ELSE [ts |-> Garbage, data |-> << >>]
  IN  [ts   |-> cell.ts,
       data |-> [i \in 1 .. dim |->
                   IF i <= Len(cell.data) THEN cell.data[i] ELSE Garbage]]

(* The rows of a reply, in the order of the cells, not of time. *)
Rows(ds, dim) == [j \in 1 .. Count(ds) |-> Row(ds, j, dim)]

(* A resize that cannot leave index outside the vector, nor blank cells in *)
(* front of it once the buffer has turned around.                          *)
HarmlessResize(ds, k) ==
  \/ k = Len(ds.slots)
  \/ ~ds.turnaround /\ (ds.index = 0 \/ k > ds.index)

(* The samples in the buffer, oldest first. *)
Window(ds) ==
  [j \in 1 .. Count(ds) |->
     IF ~ds.turnaround THEN ds.slots[j]
     ELSE IF ds.index + j <= Len(ds.slots) THEN ds.slots[ds.index + j]
     ELSE ds.slots[ds.index + j - Len(ds.slots)]]
=============================================================================
