------------------------- MODULE BufferRead_proofs -------------------------
(***************************************************************************)
(* Theorems about BufferRead, for every size of the buffer: what a read    *)
(* may return although a tick runs at the same time.                       *)
(*                                                                         *)
(* The argument is that cells only get better: a cell once written has a   *)
(* stamp and a value ever after, its value is never older than its stamp,  *)
(* and values only grow.  The cells that a read counts are written when it *)
(* counts them, wherever inc() is.                                         *)
(***************************************************************************)
EXTENDS BufferRead, DataStack_proofs

Complete(j) == stack.slots[j].ts \in 1 .. now /\ stack.slots[j].data # << >>

(* The number of cells that have been written. *)
Written == IF stack.turnaround \/ writer = "turn" THEN Size ELSE stack.index

WriterLabels == {"idle", "data", "stamp", "inc", "restart", "turn"}
ReaderLabels == {"idle", "test", "index", "size", "stamp", "data"}

(* A cell is blank or has the value of a tick not older than its stamp. *)
CellsInv ==
  \A j \in 1 .. Size :
     \/ stack.slots[j].data = << >> /\ stack.slots[j].ts = 0
     \/ \E d \in 1 .. now : stack.slots[j].data = <<d>> /\ stack.slots[j].ts <= d

WrittenInv == \A j \in 1 .. Written : Complete(j)

WriterInv ==
  /\ writer \in WriterLabels
  /\ writer # "idle" => now >= 1
  /\ writer = "stamp" => stack.slots[stack.index + 1].data = <<now>>
  /\ writer = "inc" => Complete(stack.index + 1)

ReaderInv ==
  /\ reader \in ReaderLabels
  /\ reader \in {"test", "index", "size"} => reply = << >>
  /\ reader = "size" => stack.turnaround
  /\ reader \in {"stamp", "data"} =>
        Len(reply) <= lsizeOfSTD /\ \A j \in 1 .. lsizeOfSTD : Complete(j)
  /\ reader = "data" =>
        Len(reply) >= 1 /\ reply[Len(reply)].ts <= stack.slots[Len(reply)].data[1]

(* Samples that a call could find are only ever hidden by the turn-around. *)
SeenInv ==
  atCall \in Nat /\ (atCall > 0 => stack.index > 0 \/ writer = "turn" \/ stack.turnaround)

IInv ==
  /\ TypeOK /\ CellsInv /\ WrittenInv /\ WriterInv /\ ReaderInv /\ SeenInv
  /\ OnlyWrittenCells /\ ValueNotOlder

(* What the control thread does to cells and counters that a read relies   *)
(* on, in every one of its steps.                                          *)
Better ==
  /\ now' \in Nat /\ now <= now'
  /\ stack.turnaround => stack'.turnaround
  /\ \A j \in 1 .. Size :
       Complete(j) =>
         /\ Complete(j)'
         /\ \E d, e \in Nat : d <= e /\ stack.slots[j].data = <<d>> /\ stack'.slots[j].data = <<e>>

-----------------------------------------------------------------------------
(* The types of what the steps use. *)
LEMMA Types ==
  ASSUME TypeOK
  PROVE  /\ Size \in Nat \ {0} /\ MaxTime \in Nat /\ now \in Nat
         /\ stack.slots \in Seq(Cell) /\ Len(stack.slots) = Size
         /\ stack.slots \in [1 .. Size -> Cell]
         /\ stack.index \in 0 .. Size /\ stack.turnaround \in BOOLEAN
         /\ stack = [slots |-> stack.slots, index |-> stack.index,
                     turnaround |-> stack.turnaround]
         /\ reply \in Seq(Cell) /\ Len(reply) \in Nat
         /\ reply \in [1 .. Len(reply) -> Cell]
BY SizeAssumption, MaxTimeAssumption, LenProperties DEF TypeOK

LEMMA InitInv == Init => IInv
<1> SUFFICES ASSUME Init PROVE IInv
  OBVIOUS
<1>1. Blank \in Cell
  BY MaxTimeAssumption DEF Blank, Cell
<1>2. EmptyStack \in StackOf(Cell) /\ Len(EmptyStack.slots) = 0
  BY EmptyStackType
<1>3. /\ stack \in StackOf(Cell) /\ Len(stack.slots) = Size
      /\ stack.index = 0 /\ stack.turnaround = FALSE
      /\ \A j \in 1 .. Size : stack.slots[j] = Blank
  <2>1. EmptyStack.index = 0 /\ EmptyStack.turnaround = FALSE
    BY DEF EmptyStack
  <2>2. Size \in Nat
    BY SizeAssumption
  <2>3. stack = Resize(EmptyStack, Size)
    BY DEF Init
  <2>4. \A j \in 1 .. Size : ~(j <= 0)
    BY <2>2
  <2> QED
    BY <1>1, <1>2, <2>1, <2>2, <2>3, <2>4, ResizeType
<1>4. TypeOK
  BY <1>3, SizeAssumption, MaxTimeAssumption, EmptySeq DEF Init, TypeOK, StackOf
<1>5. CellsInv /\ WrittenInv /\ WriterInv /\ ReaderInv /\ SeenInv
  BY <1>3, SizeAssumption
     DEF Init, CellsInv, WrittenInv, Written, WriterInv, ReaderInv, SeenInv, Blank,
         WriterLabels, ReaderLabels
<1>6. OnlyWrittenCells /\ ValueNotOlder
  BY EmptySeq DEF Init, OnlyWrittenCells, ValueNotOlder
<1> QED
  BY <1>4, <1>5, <1>6 DEF IInv

(* A step of the control thread leaves the reader's part of the invariant. *)
LEMMA ReaderKept ==
  ASSUME IInv, Better, UNCHANGED readerVars
  PROVE  ReaderInv' /\ OnlyWrittenCells' /\ ValueNotOlder'
<1>1. UNCHANGED <<reader, lsizeOfSTD, reply, atCall>> /\ UNCHANGED Len(reply)
  BY DEF readerVars
<1>2. OnlyWrittenCells'
  <2> SUFFICES ASSUME NEW j \in 1 .. Len(reply)
               PROVE  reply[j].ts \in 1 .. now' /\ (Copied(j) => reply[j].data # << >>)
    BY <1>1 DEF OnlyWrittenCells, Copied
  <2>1. reply[j].ts \in 1 .. now /\ (Copied(j) => reply[j].data # << >>)
    BY DEF IInv, OnlyWrittenCells
  <2> QED
    BY <2>1, Types DEF Better, IInv
<1>3. ValueNotOlder'
  BY <1>1 DEF ValueNotOlder, Copied, IInv
<1>4. ReaderInv'
  <2>1. lsizeOfSTD \in 0 .. Size
    BY DEF IInv, TypeOK
  <2>2. reader = "data" =>
          reply[Len(reply)].ts <= stack'.slots[Len(reply)].data[1]
    <3> SUFFICES ASSUME reader = "data"
                 PROVE  reply[Len(reply)].ts <= stack'.slots[Len(reply)].data[1]
      OBVIOUS
    <3> DEFINE k == Len(reply)
    <3>1. k \in 1 .. lsizeOfSTD /\ reply[k].ts <= stack.slots[k].data[1] /\ k \in 1 .. Size
      BY <2>1, Types DEF IInv, ReaderInv
    <3>2. Complete(k)
      BY <3>1 DEF IInv, ReaderInv
    <3>3. PICK d \in Nat, e \in Nat :
             d <= e /\ stack.slots[k].data = <<d>> /\ stack'.slots[k].data = <<e>>
      BY <3>1, <3>2 DEF Better
    <3>4. reply[k].ts \in Int
      <4>1. k \in 1 .. Len(reply) /\ reply[k] \in Cell
        BY <3>1, Types DEF IInv
      <4> QED
        BY <4>1, Types DEF Cell, IInv
    <3>5. stack.slots[k].data[1] = d /\ stack'.slots[k].data[1] = e
      BY <3>3
    <3> QED
      BY <3>1, <3>3, <3>4, <3>5
  <2>3. reader \in {"stamp", "data"} =>
          Len(reply) <= lsizeOfSTD /\ \A j \in 1 .. lsizeOfSTD : Complete(j)'
    BY <2>1, Types DEF IInv, ReaderInv, Better
  <2>4. /\ reader \in ReaderLabels
        /\ reader \in {"test", "index", "size"} => reply = << >>
        /\ reader = "size" => stack'.turnaround
        /\ reader = "data" => Len(reply) >= 1
    BY DEF IInv, ReaderInv, Better
  <2> QED
    BY <1>1, <2>2, <2>3, <2>4 DEF ReaderInv
<1> QED
  BY <1>2, <1>3, <1>4

-----------------------------------------------------------------------------
(* The control thread.                                                     *)

Buffer == [slots : Seq(Cell), index : 0 .. Size, turnaround : BOOLEAN]

LEMMA WithSlots ==
  ASSUME NEW b \in Buffer, NEW t \in Seq(Cell)
  PROVE  LET r == [b EXCEPT !.slots = t]
         IN  r \in Buffer /\ r.slots = t /\ r.index = b.index /\ r.turnaround = b.turnaround
<1>1. [b EXCEPT !.slots = t] \in Buffer
  BY DEF Buffer
<1>2. [b EXCEPT !.slots = t].slots = t /\ [b EXCEPT !.slots = t].index = b.index
  BY DEF Buffer
<1>3. [b EXCEPT !.slots = t].turnaround = b.turnaround
  BY DEF Buffer
<1> QED
  BY <1>1, <1>2, <1>3

(* A write to the cell at the write position. *)
LEMMA CellWritten ==
  ASSUME TypeOK, NEW c \in Cell, stack.index + 1 \in 1 .. Size,
         stack' = [stack EXCEPT !.slots = [stack.slots EXCEPT ![stack.index + 1] = c]]
  PROVE  /\ stack' \in [slots : Seq(Cell), index : 0 .. Size, turnaround : BOOLEAN]
         /\ Len(stack'.slots) = Size
         /\ stack'.index = stack.index /\ stack'.turnaround = stack.turnaround
         /\ \A j \in 1 .. Size :
              stack'.slots[j] = IF j = stack.index + 1 THEN c ELSE stack.slots[j]
<1> DEFINE t == [stack.slots EXCEPT ![stack.index + 1] = c]
<1>1. t \in Seq(Cell) /\ Len(t) = Size
      /\ \A j \in 1 .. Size : t[j] = IF j = stack.index + 1 THEN c ELSE stack.slots[j]
  BY Types, ExceptSeq
<1> HIDE DEF t
<1>2. stack \in Buffer
  BY DEF TypeOK, Buffer
<1>3. stack' = [stack EXCEPT !.slots = t]
  BY DEF t
<1> QED
  BY <1>1, <1>2, <1>3, WithSlots DEF Buffer, t

LEMMA StartTickInv == IInv /\ StartTick => IInv'
<1> SUFFICES ASSUME IInv, StartTick PROVE IInv'
  OBVIOUS
<1>1. /\ stack' = stack /\ now' = now + 1 /\ now < MaxTime
      /\ writer = "idle" /\ writer' = "data" /\ UNCHANGED readerVars
  BY DEF StartTick, Writes
<1>2. TypeOK'
  BY <1>1, Types DEF IInv, TypeOK, readerVars
<1>3. CellsInv'
  BY <1>1, Types DEF IInv, CellsInv
<1>4. \A j \in 1 .. Size : Complete(j) => Complete(j)'
  BY <1>1, Types DEF IInv, Complete
<1>5. Better
  <2> SUFFICES ASSUME NEW j \in 1 .. Size, Complete(j)
               PROVE \E d, e \in Nat : d <= e /\ stack.slots[j].data = <<d>> /\ stack'.slots[j].data = <<e>>
    BY <1>1, <1>4, Types DEF Better, IInv
  <2> QED
    BY <1>1 DEF IInv, CellsInv, Complete
<1>6. WrittenInv' /\ WriterInv' /\ SeenInv'
  <2>1. Written' = Written /\ Written \in 0 .. Size
    BY <1>1, Types DEF Written, IInv
  <2> QED
    BY <1>1, <1>4, <2>1, Types
       DEF IInv, WrittenInv, WriterInv, SeenInv, WriterLabels, readerVars
<1> QED
  BY <1>1, <1>2, <1>3, <1>5, <1>6, ReaderKept DEF IInv

LEMMA WriteDataInv == IInv /\ WriteData => IInv'
<1> SUFFICES ASSUME IInv, WriteData PROVE IInv'
  OBVIOUS
<1> DEFINE i == stack.index + 1
           c == [ts |-> stack.slots[i].ts, data |-> <<now>>]
<1>1. /\ now' = now /\ writer = "data" /\ writer' = "stamp" /\ UNCHANGED readerVars
      /\ stack' = [stack EXCEPT !.slots[i].data = <<now>>]
  BY DEF WriteData, Writes
<1>2. i \in 1 .. Size /\ now >= 1 /\ stack.slots[i] \in Cell
  BY <1>1, Types DEF IInv, TypeOK, WriterInv
<1>3. c \in Cell /\ c.ts = stack.slots[i].ts /\ c.data = <<now>>
  BY <1>2, Types DEF Cell, IInv, TypeOK
<1>4. stack' = [stack EXCEPT !.slots = [stack.slots EXCEPT ![i] = c]]
  <2>1. [stack.slots[i] EXCEPT !.data = <<now>>] = c
    BY <1>2 DEF Cell
  <2> QED
    BY <1>1, <2>1, Zenon
<1> HIDE DEF c
<1>5. /\ stack' \in [slots : Seq(Cell), index : 0 .. Size, turnaround : BOOLEAN]
      /\ Len(stack'.slots) = Size
      /\ stack'.index = stack.index /\ stack'.turnaround = stack.turnaround
      /\ \A j \in 1 .. Size : stack'.slots[j] = IF j = i THEN c ELSE stack.slots[j]
  BY <1>2, <1>3, <1>4, CellWritten DEF IInv
<1>6. TypeOK'
  BY <1>1, <1>5, Types DEF IInv, TypeOK, readerVars
<1>7. CellsInv'
  <2> SUFFICES ASSUME NEW j \in 1 .. Size
               PROVE \/ stack'.slots[j].data = << >> /\ stack'.slots[j].ts = 0
                     \/ \E d \in 1 .. now : stack'.slots[j].data = <<d>> /\ stack'.slots[j].ts <= d
    BY <1>1 DEF CellsInv
  <2>1. CASE j # i
    BY <1>5, <2>1 DEF IInv, CellsInv
  <2>2. CASE j = i
    <3>1. stack.slots[i].ts <= now
      <4>1. CASE stack.slots[i].ts = 0
        BY <1>2, <4>1, Types DEF IInv
      <4>2. CASE \E d \in 1 .. now : stack.slots[i].ts <= d
        <5>1. stack.slots[i].ts \in Int /\ now \in Int
          BY <1>2, Types DEF Cell, IInv
        <5> QED
          BY <4>2, <5>1
      <4> QED
        BY <1>2, <4>1, <4>2 DEF IInv, CellsInv
    <3>2. now \in 1 .. now
      BY <1>2, Types DEF IInv
    <3> QED
      BY <1>3, <1>5, <2>2, <3>1, <3>2
  <2> QED
    BY <2>1, <2>2
<1>8. ASSUME NEW j \in 1 .. Size, Complete(j)
      PROVE  /\ Complete(j)'
             /\ \E d, e \in Nat : d <= e /\ stack.slots[j].data = <<d>> /\ stack'.slots[j].data = <<e>>
  <2>1. PICK d \in 1 .. now : stack.slots[j].data = <<d>>
    BY <1>8 DEF IInv, CellsInv, Complete
  <2>2. stack'.slots[j].ts = stack.slots[j].ts
        /\ \E e \in Nat : d <= e /\ stack'.slots[j].data = <<e>>
    BY <1>3, <1>5, <2>1, Types DEF IInv
  <2>3. stack'.slots[j].data # << >>
    BY <2>2
  <2> QED
    BY <1>1, <1>8, <2>1, <2>2, <2>3, Types DEF Complete, IInv
<1>9. Better
  BY <1>1, <1>5, <1>8, Types DEF Better, IInv
<1>10. WrittenInv' /\ WriterInv' /\ SeenInv'
  <2>1. Written' = Written /\ Written \in 0 .. Size
    BY <1>1, <1>5, Types DEF Written, IInv
  <2>2. WrittenInv'
    BY <1>8, <2>1, Types DEF IInv, WrittenInv
  <2>3. WriterInv'
    BY <1>1, <1>2, <1>3, <1>5 DEF WriterInv, WriterLabels
  <2> QED
    BY <1>1, <1>5, <2>2, <2>3 DEF IInv, SeenInv, readerVars
<1> QED
  BY <1>1, <1>6, <1>7, <1>9, <1>10, ReaderKept DEF IInv

LEMMA WriteStampInv == IInv /\ WriteStamp => IInv'
<1> SUFFICES ASSUME IInv, WriteStamp PROVE IInv'
  OBVIOUS
<1> DEFINE i == stack.index + 1
           c == [ts |-> now, data |-> stack.slots[i].data]
<1>1. /\ now' = now /\ writer = "stamp" /\ writer' = "inc" /\ UNCHANGED readerVars
      /\ stack' = [stack EXCEPT !.slots[i].ts = now]
  BY DEF WriteStamp, Writes
<1>2. /\ i \in 1 .. Size /\ now >= 1 /\ stack.slots[i] \in Cell
      /\ stack.slots[i].data = <<now>>
  BY <1>1, Types DEF IInv, TypeOK, WriterInv
<1>3. c \in Cell /\ c.ts = now /\ c.data = <<now>>
  BY <1>2, Types DEF Cell, IInv, TypeOK
<1>4. stack' = [stack EXCEPT !.slots = [stack.slots EXCEPT ![i] = c]]
  <2>1. [stack.slots[i] EXCEPT !.ts = now] = c
    BY <1>2 DEF Cell
  <2> QED
    BY <1>1, <2>1, Zenon
<1> HIDE DEF c
<1>5. /\ stack' \in [slots : Seq(Cell), index : 0 .. Size, turnaround : BOOLEAN]
      /\ Len(stack'.slots) = Size
      /\ stack'.index = stack.index /\ stack'.turnaround = stack.turnaround
      /\ \A j \in 1 .. Size : stack'.slots[j] = IF j = i THEN c ELSE stack.slots[j]
  BY <1>2, <1>3, <1>4, CellWritten DEF IInv
<1>6. TypeOK'
  BY <1>1, <1>5, Types DEF IInv, TypeOK, readerVars
<1>7. CellsInv'
  <2> SUFFICES ASSUME NEW j \in 1 .. Size
               PROVE \/ stack'.slots[j].data = << >> /\ stack'.slots[j].ts = 0
                     \/ \E d \in 1 .. now : stack'.slots[j].data = <<d>> /\ stack'.slots[j].ts <= d
    BY <1>1 DEF CellsInv
  <2>1. CASE j # i
    BY <1>5, <2>1 DEF IInv, CellsInv
  <2>2. CASE j = i
    <3>1. now \in 1 .. now /\ now <= now
      BY <1>2, Types DEF IInv
    <3> QED
      BY <1>3, <1>5, <2>2, <3>1
  <2> QED
    BY <2>1, <2>2
<1>8. ASSUME NEW j \in 1 .. Size, Complete(j)
      PROVE  /\ Complete(j)'
             /\ \E d, e \in Nat : d <= e /\ stack.slots[j].data = <<d>> /\ stack'.slots[j].data = <<e>>
  <2>1. PICK d \in 1 .. now : stack.slots[j].data = <<d>>
    BY <1>8 DEF IInv, CellsInv, Complete
  <2>2. stack'.slots[j].data = <<d>>
    BY <1>2, <1>3, <1>5, <2>1
  <2>3. stack'.slots[j].ts \in 1 .. now
    BY <1>2, <1>3, <1>5, <1>8, Types DEF Complete, IInv
  <2>4. d \in Nat /\ d <= d /\ <<d>> # << >>
    BY Types DEF IInv
  <2> QED
    BY <1>1, <2>1, <2>2, <2>3, <2>4 DEF Complete
<1>9. Better
  BY <1>1, <1>5, <1>8, Types DEF Better, IInv
<1>10. WrittenInv' /\ WriterInv' /\ SeenInv'
  <2>1. Written' = Written /\ Written \in 0 .. Size
    BY <1>1, <1>5, Types DEF Written, IInv
  <2>2. WrittenInv'
    BY <1>8, <2>1, Types DEF IInv, WrittenInv
  <2>3. Complete(stack.index + 1)'
    <3>1. <<now>> # << >> /\ now \in 1 .. now
      BY <1>2, Types DEF IInv
    <3> QED
      BY <1>1, <1>2, <1>3, <1>5, <3>1 DEF Complete
  <2>4. WriterInv'
    BY <1>1, <1>2, <1>5, <2>3 DEF WriterInv, WriterLabels
  <2> QED
    BY <1>1, <1>5, <2>2, <2>4 DEF IInv, SeenInv, readerVars
<1> QED
  BY <1>1, <1>6, <1>7, <1>9, <1>10, ReaderKept DEF IInv

(* The steps of inc() leave the cells alone. *)
LEMMA WithPosition ==
  ASSUME NEW b \in Buffer, NEW k \in 0 .. Size
  PROVE  LET r == [b EXCEPT !.index = k]
         IN  r \in Buffer /\ r.slots = b.slots /\ r.index = k /\ r.turnaround = b.turnaround
<1>1. [b EXCEPT !.index = k] \in Buffer
  BY DEF Buffer
<1>2. [b EXCEPT !.index = k].slots = b.slots /\ [b EXCEPT !.index = k].index = k
  BY DEF Buffer
<1>3. [b EXCEPT !.index = k].turnaround = b.turnaround
  BY DEF Buffer
<1> QED
  BY <1>1, <1>2, <1>3

LEMMA CellsKept ==
  ASSUME IInv, UNCHANGED now, stack'.slots = stack.slots,
         stack.turnaround => stack'.turnaround
  PROVE  Better /\ CellsInv' /\ \A j \in 1 .. Size : Complete(j) => Complete(j)'
<1>1. \A j \in 1 .. Size : Complete(j) => Complete(j)'
  BY DEF Complete
<1>2. ASSUME NEW j \in 1 .. Size, Complete(j)
      PROVE  \E d, e \in Nat : d <= e /\ stack.slots[j].data = <<d>> /\ stack'.slots[j].data = <<e>>
  BY <1>2 DEF IInv, CellsInv, Complete
<1>3. CellsInv'
  BY DEF IInv, CellsInv
<1> QED
  BY <1>1, <1>2, <1>3, Types DEF Better, IInv

LEMMA IncrementInv == IInv /\ Increment => IInv'
<1> SUFFICES ASSUME IInv, Increment PROVE IInv'
  OBVIOUS
<1>1. /\ now' = now /\ UNCHANGED readerVars /\ writer = "inc"
      /\ writer' = IF stack.index + 1 = Size THEN "restart" ELSE "idle"
      /\ stack' = [stack EXCEPT !.index = stack.index + 1]
  BY DEF Increment, Writes
<1>2. stack \in Buffer /\ stack.index + 1 \in 0 .. Size /\ stack.index \in Nat
  BY <1>1, Types DEF Buffer, IInv, TypeOK
<1>3. /\ stack' \in Buffer /\ stack'.slots = stack.slots
      /\ stack'.index = stack.index + 1 /\ stack'.turnaround = stack.turnaround
  BY <1>1, <1>2, WithPosition
<1>4. TypeOK'
  BY <1>1, <1>2, <1>3, Types DEF IInv, TypeOK, Buffer, readerVars
<1>5. Better /\ CellsInv' /\ \A j \in 1 .. Size : Complete(j) => Complete(j)'
  BY <1>1, <1>3, CellsKept
<1>6. WrittenInv'
  <2> SUFFICES ASSUME NEW j \in 1 .. Written' PROVE Complete(j)
    BY <1>1, <1>2, <1>3, <1>5, Types DEF WrittenInv, Written, IInv
  <2>1. CASE j = stack.index + 1
    BY <1>1, <2>1 DEF IInv, WriterInv
  <2>2. CASE j # stack.index + 1
    BY <1>1, <1>2, <1>3, <2>2, Types DEF IInv, WrittenInv, Written
  <2> QED
    BY <2>1, <2>2
<1>7. WriterInv' /\ SeenInv'
  BY <1>1, <1>2, <1>3 DEF IInv, WriterInv, SeenInv, WriterLabels, readerVars
<1> QED
  BY <1>1, <1>4, <1>5, <1>6, <1>7, ReaderKept DEF IInv

LEMMA RestartInv == IInv /\ Restart => IInv'
<1> SUFFICES ASSUME IInv, Restart PROVE IInv'
  OBVIOUS
<1>1. /\ now' = now /\ UNCHANGED readerVars /\ writer = "restart" /\ writer' = "turn"
      /\ stack' = [stack EXCEPT !.index = 0]
  BY DEF Restart, Writes
<1>2. stack \in Buffer /\ 0 \in 0 .. Size /\ stack.index = Size
  BY <1>1, Types DEF Buffer, IInv, TypeOK
<1>3. /\ stack' \in Buffer /\ stack'.slots = stack.slots
      /\ stack'.index = 0 /\ stack'.turnaround = stack.turnaround
  BY <1>1, <1>2, WithPosition
<1>4. TypeOK'
  BY <1>1, <1>3, Types DEF IInv, TypeOK, Buffer, readerVars
<1>5. Better /\ CellsInv' /\ \A j \in 1 .. Size : Complete(j) => Complete(j)'
  BY <1>1, <1>3, CellsKept
<1>6. WrittenInv'
  BY <1>1, <1>2, <1>5 DEF IInv, WrittenInv, Written
<1>7. WriterInv' /\ SeenInv'
  BY <1>1 DEF IInv, WriterInv, SeenInv, WriterLabels, readerVars
<1> QED
  BY <1>1, <1>4, <1>5, <1>6, <1>7, ReaderKept DEF IInv

LEMMA TurnAroundInv == IInv /\ TurnAround => IInv'
<1> SUFFICES ASSUME IInv, TurnAround PROVE IInv'
  OBVIOUS
<1>1. /\ now' = now /\ UNCHANGED readerVars /\ writer = "turn" /\ writer' = "idle"
      /\ stack' = [stack EXCEPT !.turnaround = TRUE]
  BY DEF TurnAround, Writes
<1>2. stack \in Buffer
  BY DEF Buffer, IInv, TypeOK
<1>3. /\ stack' \in Buffer /\ stack'.slots = stack.slots
      /\ stack'.index = stack.index /\ stack'.turnaround
  BY <1>1, <1>2 DEF Buffer
<1>4. TypeOK'
  BY <1>1, <1>3, Types DEF IInv, TypeOK, Buffer, readerVars
<1>5. Better /\ CellsInv' /\ \A j \in 1 .. Size : Complete(j) => Complete(j)'
  BY <1>1, <1>3, CellsKept
<1>6. WrittenInv'
  BY <1>1, <1>3, <1>5 DEF IInv, WrittenInv, Written
<1>7. WriterInv' /\ SeenInv'
  BY <1>1, <1>3 DEF IInv, WriterInv, SeenInv, WriterLabels, readerVars
<1> QED
  BY <1>1, <1>4, <1>5, <1>6, <1>7, ReaderKept DEF IInv

-----------------------------------------------------------------------------
(* The read.                                                               *)

(* A step of the read leaves the control thread's part of the invariant.   *)
LEMMA WriterKept ==
  ASSUME IInv, UNCHANGED writerVars
  PROVE  /\ UNCHANGED <<stack, now, writer>>
         /\ CellsInv' /\ WrittenInv' /\ WriterInv' /\ \A j : Complete(j)' <=> Complete(j)
BY DEF writerVars, IInv, CellsInv, WrittenInv, Written, WriterInv, Complete

LEMMA CallInv == IInv /\ Call => IInv'
<1> SUFFICES ASSUME IInv, Call PROVE IInv'
  OBVIOUS
<1>1. /\ UNCHANGED <<writerVars, lsizeOfSTD>> /\ reader' = "test" /\ reply' = << >>
      /\ atCall' = Count(stack)
  BY DEF Call, Reads
<1>2. reply' \in Seq(Cell) /\ Len(reply') = 0
  BY <1>1, EmptySeq
<1>3. TypeOK'
  BY <1>1, <1>2, WriterKept, Types DEF IInv, TypeOK
<1>4. ReaderInv'
  BY <1>1, WriterKept DEF ReaderInv, ReaderLabels
<1>5. SeenInv'
  BY <1>1, WriterKept, Types DEF IInv, SeenInv, Count
<1>6. OnlyWrittenCells' /\ ValueNotOlder'
  BY <1>2 DEF OnlyWrittenCells, ValueNotOlder
<1> QED
  BY <1>1, <1>3, <1>4, <1>5, <1>6, WriterKept DEF IInv

(* The steps that find out how many rows there are: the reply is empty.    *)
LEMMA CountInv == IInv /\ (TestTurnaround \/ ReadIndex \/ ReadSize) => IInv'
<1> SUFFICES ASSUME IInv, TestTurnaround \/ ReadIndex \/ ReadSize PROVE IInv'
  OBVIOUS
<1>1. UNCHANGED <<writerVars, reply, atCall>> /\ reply = << >>
  BY DEF TestTurnaround, ReadIndex, ReadSize, Reads, IInv, ReaderInv
<1>2. Len(reply) = 0
  BY <1>1
<1>3. lsizeOfSTD' \in 0 .. Size /\ ReaderInv'
  <2>1. CASE TestTurnaround
    BY <1>1, <2>1, WriterKept DEF TestTurnaround, Reads, IInv, TypeOK, ReaderInv, ReaderLabels
  <2>2. CASE ReadIndex
    <3>1. lsizeOfSTD' = stack.index /\ reader' = "stamp"
      BY <2>2 DEF ReadIndex, Reads
    <3>2. \A j \in 1 .. stack.index : Complete(j)
      BY Types DEF IInv, WrittenInv, Written
    <3> QED
      BY <1>1, <1>2, <3>1, <3>2, WriterKept, Types DEF IInv, ReaderInv, ReaderLabels
  <2>3. CASE ReadSize
    <3>1. lsizeOfSTD' = Size /\ reader' = "stamp" /\ stack.turnaround
      BY <2>3, Types DEF ReadSize, Reads, IInv, ReaderInv
    <3>2. \A j \in 1 .. Size : Complete(j)
      BY <3>1 DEF IInv, WrittenInv, Written
    <3> QED
      BY <1>1, <1>2, <3>1, <3>2, WriterKept, Types DEF IInv, ReaderInv, ReaderLabels
  <2> QED
    BY <2>1, <2>2, <2>3
<1>4. TypeOK'
  BY <1>1, <1>3, WriterKept, Types DEF IInv, TypeOK
<1>5. SeenInv' /\ OnlyWrittenCells' /\ ValueNotOlder'
  BY <1>1, <1>2, WriterKept DEF IInv, SeenInv, OnlyWrittenCells, ValueNotOlder
<1> QED
  BY <1>1, <1>3, <1>4, <1>5, WriterKept DEF IInv

LEMMA CopyStampInv == IInv /\ CopyStamp => IInv'
<1> SUFFICES ASSUME IInv, CopyStamp PROVE IInv'
  OBVIOUS
<1> DEFINE k   == Len(reply) + 1
           row == [ts |-> stack.slots[k].ts, data |-> << >>]
<1>1. /\ UNCHANGED <<writerVars, lsizeOfSTD, atCall>> /\ reader = "stamp" /\ reader' = "data"
      /\ reply' = Append(reply, row) /\ Len(reply) < lsizeOfSTD
  BY DEF CopyStamp, Reads
<1>2. k \in 1 .. lsizeOfSTD /\ k \in 1 .. Size /\ lsizeOfSTD \in 0 .. Size
  BY <1>1, Types DEF IInv, TypeOK
<1>3. Complete(k) /\ stack.slots[k] \in Cell
  BY <1>1, <1>2, Types DEF IInv, ReaderInv
<1>4. row \in Cell /\ row.ts = stack.slots[k].ts /\ row.ts \in 1 .. now
  BY <1>3 DEF Cell, Complete
<1> HIDE DEF row
<1>5. /\ reply' \in Seq(Cell) /\ Len(reply') = k /\ reply'[k] = row
      /\ \A j \in 1 .. k - 1 : reply'[j] = reply[j]
  BY <1>1, <1>4, AppendProperties, Types DEF IInv
<1>6. TypeOK'
  BY <1>1, <1>2, <1>5, WriterKept, Types DEF IInv, TypeOK
<1>7. ReaderInv'
  <2>1. PICK d \in 1 .. now : stack.slots[k].data = <<d>> /\ stack.slots[k].ts <= d
    BY <1>2, <1>3 DEF IInv, CellsInv, Complete
  <2>2. reply'[k].ts <= stack.slots[k].data[1]
    BY <1>4, <1>5, <2>1
  <2> QED
    BY <1>1, <1>2, <1>5, <2>2, WriterKept, Types DEF IInv, ReaderInv, ReaderLabels
<1>8. OnlyWrittenCells' /\ ValueNotOlder'
  <2> SUFFICES ASSUME NEW j \in 1 .. k
               PROVE  /\ reply'[j].ts \in 1 .. now
                      /\ j < k => reply'[j].data # << >> /\ reply'[j].ts <= reply'[j].data[1]
    BY <1>1, <1>5, WriterKept DEF OnlyWrittenCells, ValueNotOlder, Copied
  <2>1. CASE j = k
    BY <1>4, <1>5, <2>1
  <2>2. CASE j # k
    <3>1. j \in 1 .. Len(reply) /\ Copied(j) /\ reply'[j] = reply[j]
      BY <1>1, <1>5, <2>2, Types DEF Copied, IInv
    <3> QED
      BY <3>1 DEF IInv, OnlyWrittenCells, ValueNotOlder
  <2> QED
    BY <2>1, <2>2
<1>9. SeenInv'
  BY <1>1, WriterKept DEF IInv, SeenInv
<1> QED
  BY <1>1, <1>6, <1>7, <1>8, <1>9, WriterKept DEF IInv

LEMMA CopyDataInv == IInv /\ CopyData => IInv'
<1> SUFFICES ASSUME IInv, CopyData PROVE IInv'
  OBVIOUS
<1> DEFINE k   == Len(reply)
           row == [ts |-> reply[k].ts, data |-> stack.slots[k].data]
<1>1. /\ UNCHANGED <<writerVars, lsizeOfSTD, atCall>> /\ reader = "data" /\ reader' = "stamp"
      /\ reply' = [reply EXCEPT ![k].data = stack.slots[k].data]
  BY DEF CopyData, Reads
<1>2. k \in 1 .. lsizeOfSTD /\ k \in 1 .. Size /\ lsizeOfSTD \in 0 .. Size
  BY <1>1, Types DEF IInv, TypeOK, ReaderInv
<1>3. Complete(k) /\ stack.slots[k] \in Cell /\ reply[k] \in Cell
  BY <1>1, <1>2, Types DEF IInv, ReaderInv
<1>4. row \in Cell /\ row.ts = reply[k].ts /\ row.data = stack.slots[k].data
  BY <1>3 DEF Cell
<1>5. reply' = [reply EXCEPT ![k] = row]
  <2>1. [reply[k] EXCEPT !.data = stack.slots[k].data] = row
    BY <1>3 DEF Cell
  <2> QED
    BY <1>1, <2>1, Zenon
<1> HIDE DEF row
<1>6. /\ reply' \in Seq(Cell) /\ Len(reply') = k
      /\ \A j \in 1 .. k : reply'[j] = IF j = k THEN row ELSE reply[j]
  BY <1>2, <1>4, <1>5, ExceptSeq, Types DEF IInv
<1>7. TypeOK'
  BY <1>1, <1>2, <1>6, WriterKept, Types DEF IInv, TypeOK
<1>8. ReaderInv'
  BY <1>1, <1>2, <1>6, WriterKept, Types DEF IInv, ReaderInv, ReaderLabels
<1>9. OnlyWrittenCells' /\ ValueNotOlder'
  <2> SUFFICES ASSUME NEW j \in 1 .. k
               PROVE  /\ reply'[j].ts \in 1 .. now
                      /\ reply'[j].data # << >> /\ reply'[j].ts <= reply'[j].data[1]
    BY <1>1, <1>6, WriterKept DEF OnlyWrittenCells, ValueNotOlder, Copied
  <2>1. CASE j = k
    <3>1. reply[k].ts \in 1 .. now /\ reply[k].ts <= stack.slots[k].data[1]
      BY <1>1, <1>2, Types DEF IInv, OnlyWrittenCells, ReaderInv
    <3> QED
      BY <1>3, <1>4, <1>6, <2>1, <3>1 DEF Complete
  <2>2. CASE j # k
    <3>1. j \in 1 .. Len(reply) /\ Copied(j) /\ reply'[j] = reply[j]
      BY <1>2, <1>6, <2>2, Types DEF Copied, IInv
    <3> QED
      BY <3>1 DEF IInv, OnlyWrittenCells, ValueNotOlder
  <2> QED
    BY <2>1, <2>2
<1>10. SeenInv'
  BY <1>1, WriterKept DEF IInv, SeenInv
<1> QED
  BY <1>1, <1>7, <1>8, <1>9, <1>10, WriterKept DEF IInv

LEMMA ReplyInv == IInv /\ Reply => IInv'
<1> SUFFICES ASSUME IInv, Reply PROVE IInv'
  OBVIOUS
<1>1. UNCHANGED <<writerVars, lsizeOfSTD, reply, atCall>> /\ reader = "stamp" /\ reader' = "idle"
  BY DEF Reply, Reads
<1> QED
  BY <1>1, WriterKept
     DEF IInv, TypeOK, ReaderInv, ReaderLabels, SeenInv, OnlyWrittenCells, ValueNotOlder, Copied

-----------------------------------------------------------------------------
LEMMA StepInv == IInv /\ [Next]_vars => IInv'
<1> SUFFICES ASSUME IInv, [Next]_vars PROVE IInv'
  OBVIOUS
<1>1. CASE UNCHANGED vars
  <2>1. UNCHANGED <<stack, now, writer, reader, lsizeOfSTD, reply, atCall>>
    BY <1>1 DEF vars, writerVars, readerVars
  <2> QED
    BY <2>1 DEF IInv, TypeOK, CellsInv, WrittenInv, Written, WriterInv, ReaderInv, SeenInv,
                OnlyWrittenCells, ValueNotOlder, Copied, Complete
<1> QED
  BY <1>1, StartTickInv, WriteDataInv, WriteStampInv, IncrementInv, RestartInv, TurnAroundInv,
     CallInv, CountInv, CopyStampInv, CopyDataInv, ReplyInv DEF Next

(* The invariant of a read that runs against ticks. *)
THEOREM ReadInvariant == Spec => []IInv
BY InitInv, StepInv, PTL DEF Spec

(* Type correctness: the write position is a cell, but in the middle of    *)
(* inc() (server-command.h:65-73).                                         *)
THEOREM ReadTypeCorrect == Spec => []TypeOK
<1>1. IInv => TypeOK
  BY DEF IInv
<1> QED
  BY <1>1, ReadInvariant, PTL

(* A read never returns a blank cell, for any size and wherever inc() is   *)
(* (server-command.h:65-73, server-command.cpp:315-320).                   *)
THEOREM OnlyWrittenCellsReturned == Spec => []OnlyWrittenCells
<1>1. IInv => OnlyWrittenCells
  BY DEF IInv
<1> QED
  BY <1>1, ReadInvariant, PTL

(* The value of a row is never older than its stamp (server-command.cpp    *)
(* 333-338, 444-451).                                                      *)
THEOREM ValueNeverOlder == Spec => []ValueNotOlder
<1>1. IInv => ValueNotOlder
  BY DEF IInv
<1> QED
  BY <1>1, ReadInvariant, PTL

(* A read overlooks the samples that were there when it was called only if *)
(* it meets the first turn-around (server-command.h:70-71,                 *)
(* server-command.cpp:317-318).                                            *)
THEOREM EmptyOnlyAtTurnAround == Spec => EmptyOnlyAtTurn
<1> DEFINE Empty == reader = "index" /\ reader' = "stamp" /\ atCall > 0 /\ lsizeOfSTD' = 0
                      => writer = "turn" \/ stack.turnaround
<1>1. IInv /\ [Next]_vars => [Empty]_vars
  <2> SUFFICES ASSUME IInv, Next, reader = "index", reader' = "stamp", atCall > 0,
                      lsizeOfSTD' = 0
               PROVE  writer = "turn" \/ stack.turnaround
    OBVIOUS
  <2>1. ReadIndex
    BY DEF Next, StartTick, WriteData, WriteStamp, Increment, Restart, TurnAround, Writes,
           readerVars, Call, TestTurnaround, ReadSize, CopyStamp, CopyData, Reply, Reads
  <2>2. stack.index = 0
    BY <2>1 DEF ReadIndex
  <2> QED
    BY <2>2 DEF IInv, SeenInv
<1> QED
  BY <1>1, ReadInvariant, PTL DEF Spec, EmptyOnlyAtTurn
=============================================================================
