--------------------------- MODULE ServerCommand ---------------------------
(***************************************************************************)
(* The entity ServerCommand (server-command.h, server-command.cpp): the    *)
(* vector signals that remote clients create, write and read, and the      *)
(* buffering of the input ones.  One action per handler, each handler      *)
(* being one step; ServerThreads takes the handlers apart.                 *)
(*                                                                         *)
(* Signals are known by name to the command interpreter and by rank to the *)
(* CORBA clients.  The C++ vectors are sequences: rank r is position r+1.  *)
(***************************************************************************)
EXTENDS DataStack, RankTable

CONSTANTS
  Names,      \* the names that clients and commands use
  BuiltIn,    \* names registered by the constructor: synchro, position...
  Scalars,    \* the numbers a vector is made of
  Vectors,    \* the values of a signal
  Sizes,      \* the sizes given to the command "buffer"
  NoValue,    \* an input signal not plugged, an output never written
  MaxTime     \* bound on the number of ticks

ASSUME VectorsAssumption == Vectors \subseteq Seq(Scalars)
ASSUME NoValueAssumption == NoValue \notin Vectors
ASSUME SizesAssumption   == Sizes \subseteq Nat
ASSUME MaxTimeAssumption == MaxTime \in Nat

VARIABLES
  alive,            \* the process has not aborted
  now,              \* the time of the last tick
  vectorSOUT,       \* names of the output signals, by rank
  outValue,         \* their values
  vectorSIN,        \* names of the input signals, by rank
  source,           \* the current copy of what each input is plugged to
  vectorSINStored,  \* their circular buffers
  vectorName2Rank,  \* the map that the command "buffer" looks names up in
  outRanks,         \* history: <<name, rank>> returned for output signals
  inRanks           \* history: <<name, rank>> returned for input signals

outVars == <<vectorSOUT, outValue, outRanks>>
inVars  == <<vectorSIN, source, inRanks>>
vars    == <<alive, now, outVars, inVars, vectorSINStored, vectorName2Rank>>

(* Entity::signalRegistration raises an exception when another signal of   *)
(* the entity has the name.                                                *)
SignalMap == BuiltIn \cup Range(vectorSOUT) \cup Range(vectorSIN)

Init ==
  /\ alive = TRUE
  /\ now = 0
  /\ vectorSOUT = << >> /\ outValue = << >> /\ outRanks = {}
  /\ vectorSIN = << >> /\ source = << >> /\ inRanks = {}
  /\ vectorSINStored = << >>
  /\ vectorName2Rank = [x \in {} |-> 0]

(* An exception that leaves a method declared throw(CORBA::SystemException)*)
(* ends in std::unexpected, that is, in abort().                           *)
Abort == alive' = FALSE

-----------------------------------------------------------------------------
(***************************************************************************)
(* CORBA handlers.                                                         *)
(***************************************************************************)

CreateOutputVectorSignal(n) ==
  /\ alive
  /\ UNCHANGED <<now, inVars, vectorSINStored, vectorName2Rank>>
  /\ \/ /\ n \in Range(vectorSOUT)
        /\ outRanks' = outRanks \cup {<<n, RankOf(vectorSOUT, n)>>}
        /\ UNCHANGED <<alive, vectorSOUT, outValue>>
     \/ /\ n \notin SignalMap
        /\ vectorSOUT' = Append(vectorSOUT, n)
        /\ outValue' = Append(outValue, NoValue)
        /\ outRanks' = outRanks \cup {<<n, LastRank(vectorSOUT')>>}
        /\ UNCHANGED alive
     \/ /\ n \in SignalMap \ Range(vectorSOUT)
        /\ Abort
        /\ UNCHANGED outVars

CreateInputVectorSignal(n) ==
  /\ alive
  /\ UNCHANGED <<now, outVars>>
  /\ \/ /\ n \in Range(vectorSIN)
        /\ inRanks' = inRanks \cup {<<n, RankOf(vectorSIN, n)>>}
        /\ UNCHANGED <<alive, vectorSIN, source, vectorSINStored, vectorName2Rank>>
     \/ /\ n \notin SignalMap
        /\ vectorSIN' = Append(vectorSIN, n)
        /\ source' = Append(source, NoValue)
        /\ vectorSINStored' = Append(vectorSINStored, EmptyStack)
        /\ vectorName2Rank' = Put(vectorName2Rank, n, LastRank(vectorSIN'))
        /\ inRanks' = inRanks \cup {<<n, LastRank(vectorSIN')>>}
        /\ UNCHANGED alive
     \/ /\ n \in SignalMap \ Range(vectorSIN)
        /\ Abort
        /\ UNCHANGED <<inVars, vectorSINStored, vectorName2Rank>>

(* The rank is not checked: one that no signal has reaches memory outside  *)
(* the vector.                                                             *)
WriteOutputVectorSignal(r, v) ==
  /\ alive
  /\ \/ /\ Valid(vectorSOUT, r)
        /\ outValue' = [outValue EXCEPT ![r + 1] = v]
        /\ UNCHANGED alive
     \/ /\ ~Valid(vectorSOUT, r)
        /\ alive' \in BOOLEAN
        /\ UNCHANGED outValue
  /\ UNCHANGED <<now, vectorSOUT, outRanks, inVars, vectorSINStored, vectorName2Rank>>

(* The reply of readInputVectorSignal: nothing for a rank that no signal   *)
(* has, the buffered rows, or the current value (one row, not stamped) when*)
(* nothing is buffered.                                                    *)
ReadReply(r) ==
  IF ~Valid(vectorSIN, r) THEN << >>
  ELSE IF Count(vectorSINStored[r + 1]) = 0 THEN << [data |-> source[r + 1]] >>
  ELSE Rows(vectorSINStored[r + 1], Len(source[r + 1]))

(* The copy of the rows leaves the cells of the buffer, or the elements of *)
(* a cell that is shorter than the current value.                          *)
ReadsOutside(r) ==
  LET ds == vectorSINStored[r + 1] IN
  \E j \in 1 .. Count(ds) :
     j > Len(ds.slots) \/ Len(ds.slots[j].data) < Len(source[r + 1])

(* readInputVectorSignal leaves the entity as it is, if the process lives: *)
(* accessCopy raises for a signal that is not plugged.                     *)
ReadInputVectorSignal(r) ==
  /\ alive
  /\ \/ /\ ~Valid(vectorSIN, r)
        /\ UNCHANGED alive
     \/ /\ Valid(vectorSIN, r)
        /\ source[r + 1] = NoValue
        /\ Abort
     \/ /\ Valid(vectorSIN, r)
        /\ source[r + 1] # NoValue
        /\ alive' \in IF ReadsOutside(r) THEN BOOLEAN ELSE {TRUE}
  /\ UNCHANGED <<now, outVars, inVars, vectorSINStored, vectorName2Rank>>

(* The reply of readSeqInputVectorSignal: the current values are written   *)
(* to resCorba, a copy of the element of the reply, which stays empty.     *)
ReadSeqReply(ranks) == [j \in 1 .. Len(ranks) |-> << >>]

(* readSeqInputVectorSignal tests each rank and reads the current value.   *)
ReadSeqInputVectorSignal(ranks) ==
  /\ alive
  /\ alive' = \A j \in 1 .. Len(ranks) :
                 Valid(vectorSIN, ranks[j]) => source[ranks[j] + 1] # NoValue
  /\ UNCHANGED <<now, outVars, inVars, vectorSINStored, vectorName2Rank>>

-----------------------------------------------------------------------------
(***************************************************************************)
(* The command "buffer", from a client (runAndRead) or locally.            *)
(***************************************************************************)

(* Mutant: -1 for a name that is not found. *)
LookUpOrMinusOne(n) == IF n \in DOMAIN vectorName2Rank THEN vectorName2Rank[n] ELSE -1

(* signalRank of bufferSignal. *)
LookUp(n) == Get(vectorName2Rank, n)

(* A size that is missing from the command line leaves SizeOfTheBuffer     *)
(* uninitialized: any k.  The resize raises when there is no memory for    *)
(* it; runAndRead catches that exception.                                  *)
BufferSignal(n, k) ==
  /\ alive
  /\ vectorName2Rank' = Put(vectorName2Rank, n, LookUp(n))
  /\ \/ /\ LookUp(n) < Len(vectorSINStored)
        /\ vectorSINStored' = [vectorSINStored EXCEPT ![LookUp(n) + 1] = Resize(@, k)]
        /\ UNCHANGED alive
     \/ /\ LookUp(n) < Len(vectorSINStored)
        /\ UNCHANGED <<alive, vectorSINStored>>
     \/ /\ LookUp(n) >= Len(vectorSINStored)
        /\ Abort
        /\ UNCHANGED vectorSINStored
  /\ UNCHANGED <<now, outVars, inVars>>

-----------------------------------------------------------------------------
(***************************************************************************)
(* The control loop.                                                       *)
(***************************************************************************)

Buffered(i) == Len(vectorSINStored[i].slots) # 0

(* The buffers that a tick reaches: the sweep ends with an exception at    *)
(* the first buffered signal that is not plugged.                          *)
Swept(i) == \A j \in 1 .. i : Buffered(j) => source[j] # NoValue

(* synchroValue at the next time.  A write outside a buffer corrupts       *)
(* memory: the process dies now or goes on.                                *)
SynchroValue ==
  /\ alive
  /\ now < MaxTime
  /\ now' = now + 1
  /\ vectorSINStored' =
       [i \in 1 .. Len(vectorSINStored) |->
          IF Buffered(i) /\ Swept(i)
          THEN Store(vectorSINStored[i], [ts |-> now', data |-> source[i]])
          ELSE vectorSINStored[i]]
  /\ IF \E i \in 1 .. Len(vectorSINStored) :
          Buffered(i) /\ Swept(i) /\ ~InRange(vectorSINStored[i])
     THEN alive' \in BOOLEAN
     ELSE UNCHANGED alive
  /\ UNCHANGED <<outVars, inVars, vectorName2Rank>>

(* The graph plugs the input signal to a signal with value v, the signal   *)
(* it is plugged to takes value v, or it is unplugged (v is NoValue).      *)
SourceChange(i, v) ==
  /\ alive
  /\ source' = [source EXCEPT ![i] = v]
  /\ UNCHANGED <<alive, now, outVars, vectorSIN, inRanks, vectorSINStored,
                 vectorName2Rank>>

-----------------------------------------------------------------------------
(***************************************************************************)
(* Every call that a client or a command can make...                       *)
(***************************************************************************)
Ranks == -1 .. Len(vectorSIN) + Len(vectorSOUT)

Next ==
  \/ \E n \in Names : CreateOutputVectorSignal(n)
  \/ \E n \in Names : CreateInputVectorSignal(n)
  \/ \E r \in Ranks, v \in Vectors : WriteOutputVectorSignal(r, v)
  \/ \E r \in Ranks : ReadInputVectorSignal(r)
  \/ \E r, q \in Ranks : ReadSeqInputVectorSignal(<<r, q>>)
  \/ \E n \in Names, k \in Sizes : BufferSignal(n, k)
  \/ SynchroValue
  \/ \E i \in 1 .. Len(source), v \in Vectors \cup {NoValue} : SourceChange(i, v)

Spec == Init /\ [][Next]_vars

(***************************************************************************)
(* ... and those of the protocol that test_corba_shell.cpp follows: create *)
(* signals under names of their own, write to ranks received, plug before  *)
(* reading, buffer a signal that exists, before its buffer has filled up   *)
(* beyond the new size.                                                    *)
(***************************************************************************)

(* An assumption on the graph, not something the source says or checks: a  *)
(* signal keeps its dimension.                                             *)
KeepsDimension(i, v) == source[i] # NoValue => Len(source[i]) = Len(v)

ProtocolNext ==
  \/ \E n \in Names \ (BuiltIn \cup Range(vectorSIN)) : CreateOutputVectorSignal(n)
  \/ \E n \in Names \ (BuiltIn \cup Range(vectorSOUT)) : CreateInputVectorSignal(n)
  \/ \E p \in outRanks, v \in Vectors : WriteOutputVectorSignal(p[2], v)
  \/ \E p \in inRanks :
        source[p[2] + 1] # NoValue /\ ReadInputVectorSignal(p[2])
  \/ \E p, q \in inRanks :
        /\ source[p[2] + 1] # NoValue /\ source[q[2] + 1] # NoValue
        /\ ReadSeqInputVectorSignal(<<p[2], q[2]>>)
  \/ \E n \in Range(vectorSIN), k \in Sizes :
        /\ HarmlessResize(vectorSINStored[RankOf(vectorSIN, n) + 1], k)
        /\ BufferSignal(n, k)
  \/ SynchroValue
  \/ \E i \in 1 .. Len(source), v \in Vectors :
        KeepsDimension(i, v) /\ SourceChange(i, v)

ProtocolSpec == Init /\ [][ProtocolNext]_vars

-----------------------------------------------------------------------------
(***************************************************************************)
(* Properties.                                                             *)
(***************************************************************************)

Slot == [ts : Nat, data : Seq(Scalars)]

(* The type invariant. *)
TypeOK ==
  /\ alive \in BOOLEAN
  /\ now \in Nat
  /\ vectorSOUT \in Seq(Names)
  /\ outValue \in Seq(Vectors \cup {NoValue})
  /\ vectorSIN \in Seq(Names)
  /\ source \in Seq(Vectors \cup {NoValue})
  /\ vectorSINStored \in Seq(StackOf(Slot))
  /\ DOMAIN vectorName2Rank \subseteq Names
  /\ vectorName2Rank \in [DOMAIN vectorName2Rank -> Nat]
  /\ outRanks \subseteq Names \X Nat
  /\ inRanks \subseteq Names \X Nat

(* The vectors and the map that describe the input signals agree: there is *)
(* one source, one buffer and one name for each rank, names differ, and    *)
(* the command "buffer" finds every signal under its name, whatever        *)
(* unknown names it was given before the signal existed.                   *)
RanksAgree ==
  /\ Len(source) = Len(vectorSIN) /\ Len(vectorSINStored) = Len(vectorSIN)
  /\ \A i \in 1 .. Len(vectorSIN) :
       /\ vectorSIN[i] \in DOMAIN vectorName2Rank
       /\ vectorName2Rank[vectorSIN[i]] = i - 1
  /\ Len(outValue) = Len(vectorSOUT)
  /\ \A i, j \in 1 .. Len(vectorSOUT) : vectorSOUT[i] = vectorSOUT[j] => i = j

(* A rank that create...VectorSignal has returned for a name designates,   *)
(* from then on, the signal that has that name.                            *)
HandedRanksHold ==
  /\ \A p \in outRanks : Valid(vectorSOUT, p[2]) /\ vectorSOUT[p[2] + 1] = p[1]
  /\ \A p \in inRanks : Valid(vectorSIN, p[2]) /\ vectorSIN[p[2] + 1] = p[1]

(* No tick writes outside a buffer (server-command.h:93-98 lets the size   *)
(* of a buffer be set to any integer).                                     *)
TicksInRange ==
  \A i \in 1 .. Len(vectorSINStored) :
     Buffered(i) => InRange(vectorSINStored[i])

(* Everything a tick or a read of signal i touches exists and has the      *)
(* dimension of its current value: the write position is a cell of the     *)
(* buffer, or 0 when there is none, and the cells that a read copies have  *)
(* as many elements as it takes from them.                                 *)
Fits(ds, value) ==
  /\ IF Len(ds.slots) = 0 THEN ds.index = 0 ELSE InRange(ds)
  /\ \A j \in 1 .. Count(ds) :
       value # NoValue /\ Len(ds.slots[j].data) = Len(value)

BuffersFit ==
  \A i \in 1 .. Len(vectorSINStored) : Fits(vectorSINStored[i], source[i])

(* Clients and commands that follow the protocol never make the process    *)
(* abort, nor run into undefined behaviour.                                *)
NeverAborts == alive

(* A read of a plugged signal returns the samples of the last ticks, every *)
(* one exactly as it was taken, up to a rotation of their order.           *)
ReadsReturnWindow ==
  \A i \in 1 .. Len(vectorSIN) :
     LET win == Window(vectorSINStored[i])  rows == ReadReply(i - 1) IN
     source[i] # NoValue /\ win # << >> =>
       /\ Len(rows) = Len(win)
       /\ \E k \in 0 .. Len(win) - 1 : \A j \in 1 .. Len(win) :
            rows[j] = win[((j - 1 + k) % Len(win)) + 1]

(* The circular buffers implement the sliding windows of SampleWindow.     *)
Windows == INSTANCE SampleWindow
  WITH cap <- [i \in 1 .. Len(vectorSINStored) |-> Len(vectorSINStored[i].slots)],
       win <- [i \in 1 .. Len(vectorSINStored) |-> Window(vectorSINStored[i])]

WindowSpec == Windows!Spec

(* Creation implements SignalTable, for the input signals...               *)
Inputs == INSTANCE SignalTable WITH table <- vectorSIN, handed <- inRanks

InputTable == Inputs!Spec

(* ... and for the output signals.                                         *)
Outputs == INSTANCE SignalTable WITH table <- vectorSOUT, handed <- outRanks

OutputTable == Outputs!Spec

=============================================================================
