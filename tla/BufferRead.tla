----------------------------- MODULE BufferRead -----------------------------
(***************************************************************************)
(* One circular buffer, read by readInputVectorSignal in an upcall thread  *)
(* while synchroValue stores samples in it in the control thread, with no  *)
(* lock between them.  One action per access to the buffer, in the order   *)
(* of the statements.                                                      *)
(*                                                                         *)
(* The sample of tick t has time stamp t and a value of its own, <<t>>.    *)
(***************************************************************************)
EXTENDS DataStack

CONSTANTS Size,       \* the size given to the command "buffer"
          MaxTime     \* bound on the number of ticks

ASSUME SizeAssumption    == Size \in Nat \ {0}
ASSUME MaxTimeAssumption == MaxTime \in Nat

VARIABLES
  stack,        \* the buffer
  now,          \* the time of the tick that runs, or of the last
  writer,       \* where synchroValue is
  reader,       \* where readInputVectorSignal is
  lsizeOfSTD,   \* its local variable
  reply,        \* the rows copied so far
  atCall        \* history: Count(stack) when the read was called

writerVars == <<stack, now, writer>>
readerVars == <<reader, lsizeOfSTD, reply, atCall>>
vars       == <<writerVars, readerVars>>

Init ==
  /\ stack = Resize(EmptyStack, Size)
  /\ now = 0
  /\ writer = "idle" /\ reader = "idle"
  /\ lsizeOfSTD = 0 /\ reply = << >> /\ atCall = 0

-----------------------------------------------------------------------------
(***************************************************************************)
(* synchroValue, on this buffer.                                           *)
(***************************************************************************)
Writes(here, there) ==
  /\ writer = here
  /\ writer' = there
  /\ UNCHANGED readerVars

StartTick ==
  /\ Writes("idle", "data")
  /\ now < MaxTime
  /\ now' = now + 1
  /\ UNCHANGED stack

WriteData ==
  /\ Writes("data", "stamp")
  /\ stack' = [stack EXCEPT !.slots[stack.index + 1].data = <<now>>]
  /\ UNCHANGED now

(* Mutant: the stamp of the next period. *)
WriteNextStamp ==
  /\ Writes("stamp", "inc")
  /\ stack' = [stack EXCEPT !.slots[stack.index + 1].ts = now + 1]
  /\ UNCHANGED now

WriteStamp ==
  /\ Writes("stamp", "inc")
  /\ stack' = [stack EXCEPT !.slots[stack.index + 1].ts = now]
  /\ UNCHANGED now

(* Mutant: index compared with the size before it is incremented. *)
IncrementComparedFirst ==
  /\ Writes("inc", IF stack.index = Size THEN "restart" ELSE "idle")
  /\ stack' = [stack EXCEPT !.index = @ + 1]
  /\ UNCHANGED now

(* inc(): index++, then, when index meets the size, index=0 and            *)
(* turnaround=true.                                                        *)
Increment ==
  /\ Writes("inc", IF stack.index + 1 = Size THEN "restart" ELSE "idle")
  /\ stack' = [stack EXCEPT !.index = @ + 1]
  /\ UNCHANGED now

Restart ==
  /\ Writes("restart", "turn")
  /\ stack' = [stack EXCEPT !.index = 0]
  /\ UNCHANGED now

(* Mutant: the flag is not set. *)
TurnAroundNever ==
  /\ Writes("turn", "idle")
  /\ UNCHANGED <<stack, now>>

TurnAround ==
  /\ Writes("turn", "idle")
  /\ stack' = [stack EXCEPT !.turnaround = TRUE]
  /\ UNCHANGED now

-----------------------------------------------------------------------------
(***************************************************************************)
(* readInputVectorSignal, on this buffer.                                  *)
(***************************************************************************)
Reads(here, there) ==
  /\ reader = here
  /\ reader' = there
  /\ UNCHANGED writerVars

Call ==
  /\ Reads("idle", "test")
  /\ reply' = << >>
  /\ atCall' = Count(stack)
  /\ UNCHANGED lsizeOfSTD

(* Mutant: the test negated. *)
TestNotTurnaround ==
  /\ Reads("test", IF stack.turnaround THEN "index" ELSE "size")
  /\ UNCHANGED <<lsizeOfSTD, reply, atCall>>

TestTurnaround ==
  /\ Reads("test", IF stack.turnaround THEN "size" ELSE "index")
  /\ UNCHANGED <<lsizeOfSTD, reply, atCall>>

ReadIndex ==
  /\ Reads("index", "stamp")
  /\ lsizeOfSTD' = stack.index
  /\ UNCHANGED <<reply, atCall>>

ReadSize ==
  /\ Reads("size", "stamp")
  /\ lsizeOfSTD' = Len(stack.slots)
  /\ UNCHANGED <<reply, atCall>>

(* The next row of the reply: its stamp, then its data. *)
CopyStamp ==
  /\ Reads("stamp", "data")
  /\ Len(reply) < lsizeOfSTD
  /\ reply' = Append(reply, [ts |-> stack.slots[Len(reply) + 1].ts, data |-> << >>])
  /\ UNCHANGED <<lsizeOfSTD, atCall>>

CopyData ==
  /\ Reads("data", "stamp")
  /\ reply' = [reply EXCEPT ![Len(reply)].data = stack.slots[Len(reply)].data]
  /\ UNCHANGED <<lsizeOfSTD, atCall>>

(* With no row to copy the reply is the current value, without a stamp.    *)
Reply ==
  /\ Reads("stamp", "idle")
  /\ Len(reply) = lsizeOfSTD
  /\ UNCHANGED <<lsizeOfSTD, reply, atCall>>

-----------------------------------------------------------------------------
Next ==
  \/ StartTick \/ WriteData \/ WriteStamp \/ Increment \/ Restart \/ TurnAround
  \/ Call \/ TestTurnaround \/ ReadIndex \/ ReadSize
  \/ CopyStamp \/ CopyData \/ Reply

Spec == Init /\ [][Next]_vars

-----------------------------------------------------------------------------
(***************************************************************************)
(* Properties.                                                             *)
(***************************************************************************)

Cell == [ts : 0 .. MaxTime, data : {<< >>} \cup {<<t>> : t \in 1 .. MaxTime}]

(* Row j of the reply is complete. *)
Copied(j) == j < Len(reply) \/ reader # "data"

(* The type invariant: the write position is a cell, but between index++   *)
(* and index=0.                                                            *)
TypeOK ==
  /\ stack \in [slots : Seq(Cell), index : 0 .. Size, turnaround : BOOLEAN]
  /\ Len(stack.slots) = Size
  /\ stack.index = Size <=> writer = "restart"
  /\ now \in 0 .. MaxTime
  /\ lsizeOfSTD \in 0 .. Size
  /\ reply \in Seq(Cell) /\ Len(reply) <= Size

(* A row of a reply is a sample that some tick has taken: never a blank    *)
(* cell, wherever inc() is (server-command.h:65-73, server-command.cpp     *)
(* 317-320).                                                               *)
OnlyWrittenCells ==
  \A j \in 1 .. Len(reply) :
     /\ reply[j].ts \in 1 .. now
     /\ Copied(j) => reply[j].data # << >>

(* The value in a row is never older than its stamp: the tick writes the   *)
(* value before the stamp, the reader copies the stamp before the value.   *)
ValueNotOlder ==
  \A j \in 1 .. Len(reply) :
     Copied(j) => reply[j].ts <= reply[j].data[1]

(* A row is a sample of the signal: the value has the stamp of the tick    *)
(* that took it (server-command.h:50-54, 93-95).                           *)
NoTornRow ==
  \A j \in 1 .. Len(reply) :
     Copied(j) => reply[j].data = <<reply[j].ts>>

(* A read that finds no sample although there were some when it was called *)
(* (it answers with the current value instead) has met the first           *)
(* turn-around: it has found the flag not set, and index set to 0          *)
(* (server-command.h:70-71, server-command.cpp:317-318).                   *)
EmptyOnlyAtTurn ==
  [][reader = "index" /\ reader' = "stamp" /\ atCall > 0 /\ lsizeOfSTD' = 0
       => writer = "turn" \/ stack.turnaround]_vars
=============================================================================
