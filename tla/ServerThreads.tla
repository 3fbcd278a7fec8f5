--------------------------- MODULE ServerThreads ---------------------------
(***************************************************************************)
(* The handlers of ServerCommand that touch the input signals, taken apart *)
(* into the accesses they make to the vectors they share, with the control *)
(* thread that sweeps the buffers (synchroValue) running against them.     *)
(*                                                                         *)
(* An upcall thread executes one call at a time: createInputVectorSignal,  *)
(* or the command "buffer" through runAndRead.  createThreadPolicy keeps   *)
(* the policy of the RootPOA, under which the ORB runs upcalls of several  *)
(* connections at once (Spec); with the single-threaded policy that its    *)
(* comment announces they would run one after the other (SerialSpec).      *)
(*                                                                         *)
(* A push_back or a resize is one step (what is found to fail under Spec   *)
(* fails without overlapping ones) which may move the elements to other    *)
(* memory: a reference that synchroValue holds to them then dangles.       *)
(***************************************************************************)
EXTENDS RankTable, FiniteSets

CONSTANTS
  Upcalls,    \* the threads that execute the calls of clients
  Names,      \* the names clients use
  BuiltIn,    \* names registered by the constructor
  Sizes       \* the sizes given to the command "buffer"

ASSUME UpcallsAssumption == IsFiniteSet(Upcalls)
ASSUME NamesAssumption == Names # {}
ASSUME SizesAssumption == Sizes \subseteq Nat

VARIABLES
  alive,            \* the process has not aborted
  pc,               \* pc[t]: the next access of upcall thread t
  name,             \* name[t]: the argument signalName of its call
  rank,             \* rank[t]: the local signalRank of bufferSignal,
  sizeOfTheBuffer,  \* sizeOfTheBuffer[t]: and its local SizeOfTheBuffer
  vectorSIN,        \* names of the input signals, by rank
  signalMap,        \* names registered in the entity
  vectorSINStored,  \* the buffers: number of cells and write position
  vectorName2Rank,
  handed,           \* history: <<name, rank>> returned to clients
  at,               \* the variable i of synchroValue
  sweep,            \* the next access of synchroValue
  reference         \* "dangling": memory was moved under a reference that
                    \* synchroValue holds; "used": it has used such a one

clientVars  == <<name, rank, sizeOfTheBuffer, handed>>
controlVars == <<at, sweep>>
vectors     == <<vectorSIN, signalMap, vectorSINStored, vectorName2Rank>>
vars        == <<alive, pc, clientVars, vectors, controlVars, reference>>

Init ==
  /\ alive = TRUE
  /\ pc = [t \in Upcalls |-> "idle"]
  /\ name = [t \in Upcalls |-> CHOOSE n \in Names : TRUE]
  /\ rank = [t \in Upcalls |-> 0] /\ sizeOfTheBuffer = [t \in Upcalls |-> 0]
  /\ vectorSIN = << >> /\ signalMap = BuiltIn /\ vectorSINStored = << >>
  /\ vectorName2Rank = [x \in {} |-> 0]
  /\ handed = {}
  /\ at = 0 /\ sweep = "test" /\ reference = "good"

(* Thread t is at label `here' and goes to `there'. *)
Goto(t, here, there) ==
  /\ alive
  /\ pc[t] = here
  /\ pc' = [pc EXCEPT ![t] = there]
  /\ UNCHANGED controlVars

(* synchroValue holds aDS, a reference to an element of vectorSINStored,   *)
(* and in the end aTsData, a reference to a cell of buffer r.              *)
HoldsBuffer  == sweep \in {"signal", "cell", "store"}
HoldsCell(r) == sweep = "store" /\ at = r

(* The elements are moved or not; when they are, references to them dangle.*)
MayMove(held) ==
  reference' \in {reference, IF held /\ reference = "good" THEN "dangling" ELSE reference}

-----------------------------------------------------------------------------
(***************************************************************************)
(* createInputVectorSignal.                                                *)
(***************************************************************************)

CallCreate(t, n) ==
  /\ Goto(t, "idle", "find")
  /\ name' = [name EXCEPT ![t] = n]
  /\ UNCHANGED <<alive, rank, sizeOfTheBuffer, handed, vectors, reference>>

(* Mutant: the search is left out. *)
FindNothing(t) ==
  /\ Goto(t, "find", "push")
  /\ UNCHANGED <<alive, clientVars, vectors, reference>>

Find(t) ==
  /\ \/ /\ name[t] \in Range(vectorSIN)
        /\ Goto(t, "find", "idle")
        /\ handed' = handed \cup {<<name[t], RankOf(vectorSIN, name[t])>>}
     \/ /\ name[t] \notin Range(vectorSIN)
        /\ Goto(t, "find", "push")
        /\ UNCHANGED handed
  /\ UNCHANGED <<alive, name, rank, sizeOfTheBuffer, vectors, reference>>

(* synchroValue holds a signal of vectorSIN, never a reference to one of   *)
(* the pointers that the vector is made of.                                *)
PushSignal(t) ==
  /\ Goto(t, "push", "register")
  /\ vectorSIN' = Append(vectorSIN, name[t])
  /\ UNCHANGED <<alive, clientVars, signalMap, vectorSINStored, vectorName2Rank, reference>>

(* signalRegistration raises when the name is taken; see ServerCommand.    *)
Register(t) ==
  /\ Goto(t, "register", "store")
  /\ alive' = (name[t] \notin signalMap)
  /\ signalMap' = signalMap \cup {name[t]}
  /\ UNCHANGED <<clientVars, vectorSIN, vectorSINStored, vectorName2Rank, reference>>

(* Mutant: a signal is pushed without a buffer. *)
PushNoBuffer(t) ==
  /\ Goto(t, "store", "map")
  /\ UNCHANGED <<alive, clientVars, vectors, reference>>

PushBuffer(t) ==
  /\ Goto(t, "store", "map")
  /\ vectorSINStored' = Append(vectorSINStored, [size |-> 0, index |-> 0])
  /\ MayMove(HoldsBuffer)
  /\ UNCHANGED <<alive, clientVars, vectorSIN, signalMap, vectorName2Rank>>

(* Mutant: a rank too low. *)
MapNameTooLow(t) ==
  /\ Goto(t, "map", "return")
  /\ vectorName2Rank' = Put(vectorName2Rank, name[t], Len(vectorSINStored) - 2)
  /\ UNCHANGED <<alive, clientVars, vectorSIN, signalMap, vectorSINStored, reference>>

(* The size of vectorSIN is read again, here and for the answer.           *)
MapName(t) ==
  /\ Goto(t, "map", "return")
  /\ vectorName2Rank' = Put(vectorName2Rank, name[t], LastRank(vectorSIN))
  /\ UNCHANGED <<alive, clientVars, vectorSIN, signalMap, vectorSINStored, reference>>

(* Mutant: the size is returned. *)
ReturnSize(t) ==
  /\ Goto(t, "return", "idle")
  /\ handed' = handed \cup {<<name[t], Len(vectorSIN)>>}
  /\ UNCHANGED <<alive, name, rank, sizeOfTheBuffer, vectors, reference>>

Return(t) ==
  /\ Goto(t, "return", "idle")
  /\ handed' = handed \cup {<<name[t], LastRank(vectorSIN)>>}
  /\ UNCHANGED <<alive, name, rank, sizeOfTheBuffer, vectors, reference>>

-----------------------------------------------------------------------------
(***************************************************************************)
(* bufferSignal.                                                           *)
(***************************************************************************)

CallBuffer(t, n, k) ==
  /\ Goto(t, "idle", "lookup")
  /\ name' = [name EXCEPT ![t] = n]
  /\ sizeOfTheBuffer' = [sizeOfTheBuffer EXCEPT ![t] = k]
  /\ UNCHANGED <<alive, rank, handed, vectors, reference>>

LookUp(t) ==
  /\ Goto(t, "lookup", "resize")
  /\ rank' = [rank EXCEPT ![t] = Get(vectorName2Rank, name[t])]
  /\ vectorName2Rank' = Put(vectorName2Rank, name[t], rank'[t])
  /\ UNCHANGED <<alive, name, sizeOfTheBuffer, handed, vectorSIN, signalMap,
                 vectorSINStored, reference>>

(* A resize that finds no memory raises and leaves the buffer as it was;   *)
(* runAndRead catches the exception.  A rank without a buffer reaches      *)
(* memory outside vectorSINStored.                                         *)
ResizeBuffer(t) ==
  /\ Goto(t, "resize", "idle")
  /\ \/ /\ rank[t] < Len(vectorSINStored)
        /\ vectorSINStored' = [vectorSINStored EXCEPT ![rank[t] + 1].size = sizeOfTheBuffer[t]]
        /\ MayMove(HoldsCell(rank[t]))
        /\ UNCHANGED alive
     \/ /\ rank[t] < Len(vectorSINStored)
        /\ UNCHANGED <<alive, vectorSINStored, reference>>
     \/ /\ rank[t] >= Len(vectorSINStored)
        /\ alive' \in BOOLEAN
        /\ UNCHANGED <<vectorSINStored, reference>>
  /\ UNCHANGED <<name, rank, sizeOfTheBuffer, handed, vectorSIN, signalMap, vectorName2Rank>>

-----------------------------------------------------------------------------
(***************************************************************************)
(* The loop of synchroValue.                                               *)
(***************************************************************************)
Sweeps(here, there) ==
  /\ alive
  /\ sweep = here
  /\ sweep' = there
  /\ UNCHANGED <<pc, clientVars, vectorSIN, signalMap, vectorName2Rank>>

(* An access, which is safe if what it reaches exists and no reference to  *)
(* it dangles; if it is not, the process dies or goes on.                  *)
Access(exists) ==
  /\ reference' = IF reference = "dangling" THEN "used" ELSE reference
  /\ alive' \in IF exists /\ reference = "good" THEN {TRUE} ELSE BOOLEAN

(* The references are local to the body of the loop. *)
Forget == reference' = IF reference = "dangling" THEN "good" ELSE reference

(* Mutant: <= for <. *)
TestBoundInclusive ==
  /\ IF at <= Len(vectorSINStored) THEN Sweeps("test", "buffer") /\ UNCHANGED at
                                   ELSE Sweeps("test", "test") /\ at' = 0
  /\ UNCHANGED <<alive, vectorSINStored, reference>>

TestBound ==
  /\ IF at < Len(vectorSINStored) THEN Sweeps("test", "buffer") /\ UNCHANGED at
                                  ELSE Sweeps("test", "test") /\ at' = 0
  /\ UNCHANGED <<alive, vectorSINStored, reference>>

(* The reference aDS, and the size of the buffer. *)
TakeBuffer ==
  /\ IF at < Len(vectorSINStored) /\ vectorSINStored[at + 1].size # 0
     THEN Sweeps("buffer", "signal") /\ UNCHANGED at
     ELSE Sweeps("buffer", "test") /\ at' = at + 1
  /\ Access(at < Len(vectorSINStored))
  /\ UNCHANGED vectorSINStored

(* The current value; when the signal is not plugged an exception ends the *)
(* sweep.                                                                  *)
UseSignal ==
  /\ \/ /\ Sweeps("signal", "cell")
        /\ alive' \in IF at < Len(vectorSIN) THEN {TRUE} ELSE BOOLEAN
        /\ UNCHANGED <<at, reference>>
     \/ /\ Sweeps("signal", "test")
        /\ at' = 0
        /\ Forget
        /\ UNCHANGED alive
  /\ UNCHANGED vectorSINStored

(* The reference aTsData, found through aDS. *)
TakeCell ==
  /\ Sweeps("cell", "store")
  /\ Access(vectorSINStored[at + 1].index < vectorSINStored[at + 1].size)
  /\ UNCHANGED <<at, vectorSINStored>>

Advance(ds) == [ds EXCEPT !.index = IF @ + 1 = ds.size THEN 0 ELSE @ + 1]

(* The sample is written and aDS.inc() called, on what is still a buffer   *)
(* or on memory that no longer is one.                                     *)
StoreSample ==
  /\ Sweeps("store", "test")
  /\ at' = at + 1
  /\ vectorSINStored' \in
       {[vectorSINStored EXCEPT ![at + 1] = Advance(@)]}
       \cup IF reference = "good" THEN {} ELSE {vectorSINStored}
  /\ Access(TRUE)

-----------------------------------------------------------------------------
Running(t) ==
  \/ Find(t) \/ PushSignal(t) \/ Register(t) \/ PushBuffer(t) \/ MapName(t)
  \/ Return(t) \/ LookUp(t) \/ ResizeBuffer(t)

Control == TestBound \/ TakeBuffer \/ UseSignal \/ TakeCell \/ StoreSample

(* A buffer is not made smaller (see LateShrink.cfg for what happens then).*)
Grows(r, k) == r < Len(vectorSINStored) => k >= vectorSINStored[r + 1].size

(* An assumption on the clients, in Spec and in SerialSpec: they create    *)
(* signals under names that are not the entity's own, and give the command *)
(* "buffer" a name that was handed out and a size that does not shrink the *)
(* buffer.  The code checks neither; ServerCommand's Next does without.    *)
Call(t) ==
  \/ \E n \in Names \ BuiltIn : CallCreate(t, n)
  \/ \E p \in handed, k \in Sizes : Grows(p[2], k) /\ CallBuffer(t, p[1], k)

Next == Control \/ \E t \in Upcalls : Call(t) \/ Running(t)

Spec == Init /\ [][Next]_vars

SerialNext ==
  \/ Control
  \/ \E t \in Upcalls : \/ Running(t)
                        \/ Call(t) /\ \A u \in Upcalls : pc[u] = "idle"

SerialSpec == Init /\ [][SerialNext]_vars

-----------------------------------------------------------------------------
(***************************************************************************)
(* Properties.                                                             *)
(***************************************************************************)

Labels == {"idle", "find", "push", "register", "store", "map", "return",
           "lookup", "resize"}

(* The type invariant. *)
TypeOK ==
  /\ alive \in BOOLEAN
  /\ pc \in [Upcalls -> Labels]
  /\ name \in [Upcalls -> Names]
  /\ rank \in [Upcalls -> Nat] /\ sizeOfTheBuffer \in [Upcalls -> Nat]
  /\ vectorSIN \in Seq(Names)
  /\ signalMap \subseteq Names \cup BuiltIn
  /\ vectorSINStored \in Seq([size : Nat, index : Nat])
  /\ DOMAIN vectorName2Rank \subseteq Names
  /\ \A n \in DOMAIN vectorName2Rank : vectorName2Rank[n] \in Nat
  /\ handed \subseteq Names \X Nat
  /\ at \in Nat /\ sweep \in {"test", "buffer", "signal", "cell", "store"}
  /\ reference \in {"good", "dangling", "used"}

(* Every signal has its buffer, but those whose creation is between the    *)
(* two push_backs (server-command.cpp:265-269).                            *)
BuffersFollowSignals ==
  Len(vectorSIN) = Len(vectorSINStored)
                 + Cardinality({t \in Upcalls : pc[t] \in {"register", "store"}})

(* "Return the rank of the new signal in the std::vector"                  *)
(* (server-command.cpp:274).                                               *)
ReturnsOwnRank ==
  \A p \in handed : Valid(vectorSIN, p[2]) /\ vectorSIN[p[2] + 1] = p[1]

(* With one upcall at a time, names that were handed out and buffers that  *)
(* only grow (Call), the process dies of one thing only: synchroValue uses *)
(* a buffer or a cell that a creation, or a resize, has moved since it took*)
(* a reference to it (server-command.cpp:269, 288, 431-456).  No name is   *)
(* registered twice, no signal, buffer or cell that the sweep reaches is   *)
(* missing, wherever a creation is, and although a buffer grows between the*)
(* test of its size and the access to its cell.  LateShrink.cfg and        *)
(* ServerCommandAny.cfg have the other ways to die.                        *)
AbortsOnlyDangling == ~alive => reference = "used"

(* Creation, taken apart, implements the table that atomic handlers        *)
(* implement.                                                              *)
Table == INSTANCE SignalTable WITH table <- vectorSIN

TableSpec == Table!Spec
=============================================================================
