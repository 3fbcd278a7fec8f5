# dg-middleware in TLA+

dg-middleware gives remote access to a *dynamic-graph* (the data-flow that
computes a robot's control). This directory models its components in TLA+,
checks the models with TLC on small instances and proves every safety property that
these checks find to hold, with TLAPS, for every value of the constants.

## 1. The system

| Component | State | Operations | Talks to |
|---|---|---|---|
| `ServerCommand` (server-command.h/.cpp) | `vectorSOUT`, `vectorSIN`, `vectorSINStored`, `vectorName2Rank`, the entity's signals | create / read / write vector signals, command `buffer`, `synchroValue` | clients (CORBA), the interpreter, the control loop |
| its callbacks | `callbackList` | `registerClient`, `unregisterClient`, `ping`, `clients` | clients, which it calls back |
| `ServerAbstract`, `CorbaServerGeneric` | static `genericServer`, `serverThread`; ORB, POA, naming context, `idlList` | `initCorba`, `start`, `initAndStart`, `closeCorbaServer` | ORB, naming service |
| `DistantShell` (entity `DShell`) | `filein`, `endLoop`, `threadLoop` | `open`, `start`, `stop`, `latency`, destructor; the thread `loop` | interpreter, a file that a user appends to |
| `coshell` (`CoShell`, `ConnectToShell`, `CorbaConnection`) | `serverPtr_`, its callback object | connect, `runAndRead` per line, one retry, unregister | naming service, `ServerCommand` |
| `test_corba_shell` | `serverPtr_`, the rank `lIVS` | one scripted session: register, create, four commands with one retry each, read, unregister | as `coshell` |
| `run`, `runAndRead`, `readVector` | none of their own | hand a line to the interpreter, read a signal of the pool | interpreter, pool (outside this repository) |

What makes it hard:

- **Threads.** The ORB runs upcalls in its own threads (several at once:
  `createThreadPolicy` keeps the policy of the RootPOA), the robot's control
  thread runs `synchroValue`, the local interpreter and the `DShell` thread run
  commands. There is no lock anywhere.
- **Positions kept next to containers.** Ranks, the circular buffer's `index` and
  `turnaround`, the map from names to ranks, a map iterator held during a remote
  call: each is right only as long as the container it points into is.
- **Partial failure.** Exceptions leave a creation, a sweep, `init()`, `addIdl` in
  the middle; one that leaves a method declared `throw(CORBA::SystemException)`
  ends the process. `runAndRead` swallows what the interpreter raises, and its
  answer is text that nobody reads.
- **Distribution.** Connections are lost before or after a command is executed,
  servers restart and leave stale bindings, clients die registered.

The hazards of the code, with their lines and the properties that cover them, are
listed in `PROJECT.json`.

## 2. Modules

| Module | Models |
|---|---|
| `RankTable` | position of a name in a vector, `std::map` access |
| `DataStack` | `struct s_dataStack`: the circular buffer, a tick's write, the rows of a read |
| `ServerCommand` | signals and buffering, one handler per step |
| `SignalTable` | abstract: what creation promises (a table that only grows) |
| `SampleWindow` | abstract: what buffering promises (the last *n* samples) |
| `ServerThreads` | creation, `buffer` and `synchroValue` taken apart access by access, with the references held in between |
| `BufferRead` | one buffer, a read against a tick, statement by statement |
| `ClientCallbacks` | `callbackList` and `ping` against clients that come and go |
| `CorbaServer` | life of the CORBA server in a process that crashes and restarts, naming service |
| `CoShell` | coshells against `CorbaServer`, which it extends and whose steps it contains |
| `TestCoShell` | test_corba_shell against `ServerCommand`, which it extends and whose handlers its calls run |
| `DistantShell` | the entity `DShell` with its threads |
| `DataStack_proofs`, `ServerCommand_proofs`, `ServerThreads_proofs`, `BufferRead_proofs`, `ClientCallbacks_proofs`, `CoShell_proofs` (with `CorbaServer`), `TestCoShell_proofs`, `DistantShell_proofs` | theorems |
| `MC*` | values of the constants for TLC |

`PROJECT.json` (`map`) gives the source lines of each definition. Definitions
whose comment begins with "Mutant" are plausible bugs: each property is violated
when one of them replaces the definition it belongs to.

### How state and actions correspond to the code

**`ServerCommand`.** A C++ vector is a sequence, so rank *r* is position *r*+1.
`source[i]` is the current copy of the signal that input *i* is plugged to,
`NoValue` when it is not plugged. Each CORBA method and command is one action that
covers all its branches, failure included; a failure that ends the process is
`alive' = FALSE`, undefined behaviour is a choice between dying and going on.
`Next` allows any call with any argument. `ProtocolNext` allows the calls of the
protocol that test_corba_shell.cpp follows: names of one's own, ranks
received, plugged before read or buffered into a read, the size of a buffer changed
only while that is harmless (`HarmlessResize`). It also assumes of the graph that a
signal keeps its dimension (`KeepsDimension`).

**`ServerThreads`.** Same variables, but a handler is a sequence of accesses and
each upcall thread has a program counter; a buffer is reduced to its size and `index`.
`synchroValue` keeps a reference to a buffer (`aDS`) and one to a cell (`aTsData`).
A `push_back` or a `resize` in between moves the elements or not (`MayMove`), and
`reference` says whether what is held dangles. An access through a dangling
reference kills the process or not, and leaves the buffer as it was or advances it.
`Spec` lets all upcalls run at once, `SerialSpec` one at a time, as the comment
above `createThreadPolicy` announces. The control thread runs against them in both.
In both, clients give the command `buffer` only names that were handed out, and sizes
that do not shrink the buffer (`Call`): the code checks neither. `Next` of
`ServerCommand` does without, and `late_shrink` shows what a smaller buffer does.

**`BufferRead`.** The control thread writes data, stamp, `index`, `turnaround`;
the reader tests the flag, reads `index` or the size, copies stamp and data row by
row. Accesses take effect in program order: the properties that hold are those of
a build and a machine that do not reorder them, those violated are violated even so.

**`ClientCallbacks`.** `callbackList` maps names (numbers, in the map's order) to
clients. A ping is a sequence of calls out; between two of its steps clients
register, unregister and die. `freed` says whether the map entry or the reference
in use has been freed meanwhile; going on from it has every outcome.

**`CorbaServer`.** `genericServer` records how far `init()` came before it raised.
A reference is the epoch (number of starts) of the process it designates; the
naming service keeps its bindings when a process dies. `initAndStart` is
`initCorbaServer` followed, unless that raised, by the registration of the
servant (`todo`), and the naming service may go away in between.

**`CoShell`.** One program counter per coshell; a call is split into its execution by
the server and the arrival of the answer, and the connection may break before or
after either, registration and unregistration too. A new server process holds no callback.
`home` is history: the process with which a coshell registered. The callback servant
is a local variable of `run()`, so a ping that comes after `run()` finds it destroyed
(`PingDestroyed`).

**`TestCoShell`.** `pc` follows `run()`, `sendBuffer` and the destructor. A call runs
the action of `ServerCommand` that is its handler and returns (`Answered`), or raises
(`Raises`): no process, a process that dies of it, or a connection lost before or after
the handler has run. The interpreter may refuse each of the four commands (`pg.comref` or
`OpenHRP` is missing, there is no memory): `runAndRead` answers all the same, the
program goes on, and `refused` is the history of it. The server process may be killed and restarted, empty, at any
time; ticks come once the command `OpenHRP.periodicCall` has been executed (in a
server that another program has set up, from the start); other clients create and
plug signals; a signal keeps its dimension, as in `ProtocolNext`. `sendBuffer` ends
without the `return` its type asks for: the program ends there or goes on. `shown` is history: what the ticks have found in `comstate`
since it was buffered.

**`DistantShell`.** `at[t]` is where the thread of the *t*-th `start` is. `usage`
is history: whether the commands so far were one `open` and one `start` ("once"),
included a `start` after a `stop` ("again"), or anything else ("mixed"). The latency
is not represented: it only says how long the step `Sleep` lasts. The destructor joins
the last thread only; a loop of an earlier `start` that goes on after it runs on freed
memory, and does anything (`UseFreed`).

### Assumptions about code that is not here

- `Entity::signalRegistration` raises when the name is taken in the entity;
  `SignalPtr::accessCopy` raises when the signal is not plugged.
- An exception that a method declared `throw(CORBA::SystemException)` does not
  allow ends in `std::unexpected`, hence `abort()`; one that leaves a
  `boost::thread` does too.
- `vector::resize` adds value-initialised cells; a failed `>>` leaves its
  variable as it was.
- `Contiifstream`: `loop()` queues the lines added since the last call and says
  whether there are any, `ready()` whether a line is queued, `next()` takes one.
- `vector::push_back` and `vector::resize` may move the elements, and a resize may
  find no memory.
- A CORBA call whose connection breaks raises, and its caller cannot know whether it
  was executed.
- The POA activates a servant once and raises after that; an ORB that has been
  shut down answers nothing more; nil references raise or crash.
- Clients and graph, where a specification assumes something of them: a signal keeps its
  dimension (`KeepsDimension`: `ProtocolSpec`, `SessionSpec`); names given to `buffer`
  were handed out, and buffers do not shrink (`Call`: `ServerThreads`).
- `index` is unsigned and would wrap after 2^32 increments; it is a natural number.

## 3. Runs

| Run | Question | Bounds |
|---|---|---|
| `server_any` | Any calls: do the tables agree, do ranks stay valid, is creation the abstract table? | 3 names (one built in), 2 values of different dimension, sizes 0..2, 2 ticks |
| `server_protocol` | Under the protocol: nothing out of bounds, buffers are the sliding window | 3 names, 3 values, sizes 0..3, 5 ticks |
| `late_shrink` (violated) | May a buffer be resized at any time? | sizes 0, 1, 3 |
| `threads_serial` | Are the handlers, one at a time, safe against the control thread? | 2 threads, 3 names (one built in), sizes 1, 2 |
| `threads_rank` (violated) | Several at a time: does a client receive the rank of its signal? | same |
| `buffer_read` | What can a read return while a tick runs? | buffer of 3, 8 ticks |
| `read_torn` (violated) | Is a row one sample? | buffer of 2, 4 ticks |
| `callbacks` | What does a ping guarantee? | 4 clients, 2 of one name, 3 names |
| `coshell` | What does a session guarantee? | 1 coshell, 2 lines, 2 losses, 2 server processes, 2 contexts |
| `init_retry` (violated) | Does initCorba register the context? | 2 processes |
| `shell` | Does `stop` end loops, are lines executed in order, once? | 1 file of 2 lines, 2 starts |
| `session` | What does the session of test_corba_shell guarantee? | 2 names, 2 values, size 2, 3 ticks, 2 losses, 2 server processes |

Why these are enough: two input signals and a built-in name give every collision of
names and ranks; a dimension 1 and a dimension 2 give every mismatch; 5 ticks turn a
buffer of 3 around and leave it part of the way round again, and a buffer of 2 twice;
8 ticks on a buffer of 3 let the writer overtake a reader twice. Two upcalls are what
the races need. A ping shares nothing with another ping except the list they read,
so one is enough; two clients of one name next to two others give insertions,
removals and replacements before, at and after the iterator. One coshell makes two
retries possible, each with its own loss, and a restart in between; coshells only
share the callback's name, which `ClientCallbacks` covers. (Two coshells with losses
and liveness are beyond five minutes; with one line each and no loss the invariants
hold as well.) In a session, the other name stands for every other client; 3 ticks
turn a buffer of 2 around, two losses break one call and its retry or two commands,
and the restart may come before any call; its signals keep their dimension, so one
dimension does there. Sizes 1 and 2 let a buffer grow under a reference, and from a
cell that is the last one. Two loops are what sharing a stream needs. The bounds on ticks, lines, starts, losses and processes
are constants whose names begin with `Max`.

`CHECK_DEADLOCK FALSE` is set where the process may die or where bounds
end the behaviour (a coshell that has ended, a client that has left).

### What the passing runs show

- `RanksAgree`, `HandedRanksHold`, `InputTable`, `OutputTable`: no sequence of calls,
  not even `buffer` with unknown names (which enters them with rank 0) or creations
  that fail half-way, makes the vectors and the map disagree; a rank returned is
  valid for ever.
- `BuffersFit`, `NeverAborts`: under the protocol no tick and no read
  leaves a buffer, a cell or the process.
- `ReadsReturnWindow`, `WindowSpec`: the circular buffer with its
  `index` and `turnaround` is the window of the last samples, also through resizes,
  and a read returns exactly it, up to rotation. The refinement shows too that a
  tick samples a *prefix* of the signals: one that is buffered and not plugged raises
  and ends the sweep.
- `BuffersFollowSignals`, `AbortsOnlyDangling`, `TableSpec`: with
  serial upcalls the control thread can meet a creation half done and still reaches
  only signals and buffers that exist, because its bound is the vector that is pushed
  last; a buffer that grows between the test of its size and the access to its cell
  keeps that cell. What remains is a vector that moves under a reference of
  `synchroValue`: as long as clients buffer only signals they were handed and no buffer
  is made smaller, this is the only way the process can die. `Next` of `ServerCommand`
  (any name), `late_shrink` (smaller buffers) and several upcalls at once have others.
- `OnlyWrittenCells`, `ValueNotOlder`, `EmptyOnlyAtTurn`: a read against a tick
  returns no blank cell, no value older than its stamp, and overlooks the
  samples only when it meets the first turn-around.
- `SweepComplete`, `NotifiedOnce`, `SweepEnds`: what a ping does guarantee: one call for
  each name bound all the time, up to the first client that does not answer, and an end.
- `NoneSkipped`, `AtMostTwice`, `PromptAfterExecution`, `CallsEnd`, `StartServes`:
  what a session of coshell guarantees. `CallbackOfLiving`: the server pings a coshell
  at work exactly as long as it is the process with which this registered, and no
  coshell that has ended (lost connections, a closed server and a second coshell
  aside).
- `SetUpHolds`, `ReadsLastSamples`, `AbortsOnlyWarned`, `SessionEnds`: the session of
  test_corba_shell, whose commands may all be refused, executed twice or raise, finds the
  server set up as it asked, but for what was refused, and reads its last samples, as
  long as the process that created the signal lives. It makes a process abort in two
  ways only, and it has been told each time: it goes on with another process after a
  rebind, or after an answer that says that `comstate` was not plugged. And it ends.
- `LoopEnds`, `LinesExecuted`, `InOrderOnce`, `NoUseAfterDestroy`, `DiesOnlyOfRaise`: the
  shell. `stop` ends every loop, whatever the commands; destruction ends the last one,
  and nothing is known of an earlier one that it does not join. With one loop at a time
  the only deaths are a line that raises and the destruction of a shell that was never
  started.

### Where the code and its texts disagree

The violated properties are quoted with their lines in `PROJECT.json`
(`findings`). Other behaviours that the models contain and that a reader should
know of:

- `readSeqInputVectorSignal` fills a copy of each element of its reply
  (server-command.cpp:366): the sequences it returns are empty (`ReadSeqReply`).
- `buffer` with an unknown name resizes the buffer of rank 0, or reaches outside the
  vector when there is none (server-command.cpp:287).
- Two creations of one name at once both register it, and the process aborts. Two
  creations of different names at once may put the rank of the signal pushed last into the
  map for both (server-command.cpp:273), and one that finds a signal half created
  returns its rank before the map has it (247-258): `buffer` then acts on another signal's
  buffer.
- What the interpreter raises is answered like a result (server-command.cpp:130-142), and
  `sendBuffer` prints it (test_corba_shell.cpp:65-67): when `pg.comref` is missing, the
  session goes on to read a signal that is not plugged, and this read makes the server
  abort (server-command.cpp:312).
- The destructor of `DistantShell` joins the last thread only (distant-shell.cpp:37): a
  loop of an earlier `start` that still runs then uses a freed object.
- `start` that failed to bind cannot be given again: the servant is active already.
- The argument of `initCorba` is dropped unless something follows it
  (server-command.cpp:554): the context is the default one.
- A retry executes a line twice when only the answer was lost; after a
  rebind the callback is not registered with the new process; the destructor of
  `CoShell` calls the server, and when this raises while another exception unwinds
  the stack the program terminates.
- Two coshells share one callback name: the first to leave unregisters the other, and
  one that was rebound to a new process may erase there the callback of another.
- A ping between the end of `run()` and the destructor of `CoShell` reaches a callback
  servant that has been destroyed (coshell.cpp:66).
- A loop of `DShell` started after a `stop` executes no line: `endLoop` is not reset
  (distant-shell.cpp:49, distant-shell.h:82); the help text of the commands
  (distant-shell.cpp:138-142) does not say that `stop` is final.
- After a restart in the middle of test_corba_shell's session the command `buffer`
  does not know `comstate`: it resizes the buffer of another client, or reaches outside
  an empty vector; the read that follows has a rank of the old process and returns
  another signal, or makes the server abort.
- `exit(-1)` (test_corba_shell.cpp:109, 139) runs no destructor: the callback stays.

## 4. Fairness

- `DistantShell`: `WF(Loop(t))`, the scheduler runs a live thread, and a command
  returns; `WF(Join)`. None on commands or on the user.
- `ClientCallbacks`: `WF(Sweep(p))`, the thread of a ping runs, and a client answers or
  its connection breaks. A client that keeps the connection and never answers
  blocks the ping: the call has no time-out.
- `CoShell`: `WF(Works(c))`, the program runs, the server executes or the call
  fails. None on the server's restart, the naming service or the user; lost
  connections are bounded by `MaxLosses`.

- `TestCoShell`: `WF(Program)`, the program runs and each call returns or raises. None
  on ticks, other clients or the restart of the server.

The other specifications state safety only.

## 5. Proofs

Every safety property of a passing run is a theorem, for all values of the
constants: all names, values, sizes and files, any number of threads, clients,
losses, restarts, ticks and lines. The proofs use the named ASSUMEs of the modules
and nothing else. These say what the constants stand for: bounds and sizes are natural
numbers, at least one process is started, the buffer of `BufferRead` has a cell, values
are sequences of scalars, `NoValue`, `NoFile` and `Nobody` are none of the values, files
and clients, the names of callbacks are ordered as in the map, upcall threads are
finitely many, the default context is a context, `comstate` is not a built-in name and
the session asks for a size that is not 0. Each specification is proved as its run checks
it, the protocol or the serial upcalls included where the run has them.

| Module | Specification | Theorems | Property |
|---|---|---|---|
| `ServerCommand_proofs` | `Spec` | `TypeCorrect`, `RanksAlwaysAgree`, `HandedRanksAlwaysHold` | `TypeOK`, `RanksAgree`, `HandedRanksHold` |
| | | `InputTableImplemented`, `OutputTableImplemented` | refinements of `SignalTable` |
| | `ProtocolSpec` | `BuffersAlwaysFit`, `TicksAlwaysInRange`, `ProtocolNeverAborts` | `BuffersFit`, `TicksInRange`, `NeverAborts` |
| | | `ReadsAlwaysReturnWindow` | `ReadsReturnWindow` |
| | | `WindowsImplemented` | refinement of `SampleWindow` |
| `ServerThreads_proofs` | `SerialSpec` | `ThreadsTypeCorrect`, `BuffersAlwaysFollow`, `OnlyDanglingAborts` | `TypeOK`, `BuffersFollowSignals`, `AbortsOnlyDangling` |
| | | `SerialImplementsTable` | refinement of `SignalTable` |
| `BufferRead_proofs` | `Spec` | `ReadTypeCorrect`, `OnlyWrittenCellsReturned`, `ValueNeverOlder`, `EmptyOnlyAtTurnAround` | `TypeOK`, `OnlyWrittenCells`, `ValueNotOlder`, `EmptyOnlyAtTurn` |
| `ClientCallbacks_proofs` | `Spec` | `CallbacksTypeCorrect`, `CalledAtMostOnce`, `SweepsComplete` | `TypeOK`, `NotifiedOnce`, `SweepComplete` |
| `CoShell_proofs` | `Spec` of `CorbaServer` | `ServerTypeCorrect`, `StartAlwaysServes` | `TypeOK`, `StartServes` |
| | `SystemSpec` | `ShellTypesCorrect`, `StartServesCoShells`, `NoLineSkipped`, `LinesAtMostTwice`, `PromptOnlyAfterExecution`, `CallbackAlwaysOfLiving` | `ShellTypeOK`, `StartServes`, `NoneSkipped`, `AtMostTwice`, `PromptAfterExecution`, `CallbackOfLiving` |
| `TestCoShell_proofs` | `SessionSpec` | `SessionTypeCorrect`, `SetUpAlwaysHolds`, `KillsOnlyWarned`, `LastSamplesRead` | `SessionTypeOK`, `SetUpHolds`, `AbortsOnlyWarned`, `ReadsLastSamples` |
| `DistantShell_proofs` | `Spec` | `ShellTypeCorrect`, `LinesInOrderOnce`, `JoinedBeforeFreed`, `ShellDiesOnlyOfRaise` | `TypeOK`, `InOrderOnce`, `NoUseAfterDestroy`, `DiesOnlyOfRaise` |

Each rests on an inductive invariant, a theorem of its own (`RanksInvariant`,
`ProtocolInvariant`, `ThreadsInvariant`, `ReadInvariant`, `SweepsInvariant`,
`ServerInvariant`, `ShellInvariant`, `SessionInvariant`). The properties are not
inductive; this is what they need.

**`ServerCommand`.** `RanksInv` is the type invariant with `RanksAgree` (lengths, names
and map agree, a name is in a vector once) and `HandedRanksHold`. `HandedRanksHold`
alone is not inductive: that a creation leaves the handed ranks right needs that the
vectors have the same length and that the name, found in the map or not, is in the
vector or not. `ProtocolInv` adds `BuffersFit` and `alive`: that a tick stays in range
needs the write position, that a read does needs every counted cell to have the
signal's dimension, which needs that a signal with counted cells is plugged. The steps
of `Next` and of `ProtocolNext` are all steps of `AnyStep`, any operation with any
argument, for which preservation of `RanksInv` is proved once for both. The
refinement of `SignalTable` follows from `RanksInv`: a step that creates is `Create(n)`,
every other is a stutter. `TicksInRange` is what `late_shrink` violates when sizes change
at any time; `TicksAlwaysInRange` proves it under the protocol.

**The windows.** `DataStack_proofs` and the last part of `ServerCommand_proofs` show
what each operation does to the window of a *sound* buffer (no cell and nothing
counted, or a write position inside): a harmless resize leaves it as it is
(`ResizeWindow`), a tick appends a sample and drops the oldest of a full buffer
(`StoreWindow`, by cases on whether it has turned around, turns around now, or not yet),
a new signal has an empty one. A tick of the circular buffers is then
`Tick(m, taken)` of `SampleWindow`, where *m* is the last signal that the sweep samples
(it exists because the signals are finitely many: `LastPosition`); those after it
keep their windows. A read copies cells 1 to *n*, which are the window rotated by the
write position (`CellsRotated`), and a cell of the right dimension is copied as it is.

**`ServerThreads`.** The lengths of the vectors differ while a creation is under way, so the
invariant says by how much at each place: `VectorsInv` and `ThreadInv` tie the place of the
one upcall thread (`OneCall`) to what is in the vectors, the entity and the map.
The control thread may be anywhere; what it found stays, because vectors and buffers
only grow (`SweepInv`, `Grows`): that is where the assumption on the clients enters.

**`BufferRead`.** Cells only get better (`Better`): a written cell stays written, its value
is never older than its stamp and is only replaced by a younger one. `WrittenInv`
says that counted cells are written wherever the writer is in a tick, also between
`index` coming back to 0 and the flag being set; `ReaderInv` that the cells a
read has decided to copy are written.

**`ClientCallbacks`.** `SweepInv`: as long as the entry of a sweep is not erased, it has
notified names up to its iterator only, and every due name it has passed. That an
insertion or removal by another client does not disturb this is the reason for which
the map's order matters.

**`CoShell`.** The executions of a coshell are sorted, and the invariant says which line is
the last (`Progress`): at the prompt it is the last line typed, in a call that line or the
one before. Nothing is skipped then, and a line is repeated only next to itself;
that it is executed at most twice needs that, until the retry, the line in the call
has been executed at most once (`SentOnce`). `AtMostTwice` is stated with
three positions of a line in the executions instead of a cardinality. `CallbackOfLiving` needs that a
server that was reached is reached until it is closed or dies (`SameProcess`), and what
becomes of the callback when its coshell is the second one with its name.

**`TestCoShell`.** The server part keeps `ProtocolInv` although the session does not keep
to `ProtocolNext` after a restart: the buffers have no cell or the one size ever asked
for, so that even a resize of another signal's buffer is harmless (`FirstOrSame`).
`ProgressInv` and `DoneInv` say what the calls so far have done in the process that
created `comstate`, each command but for those it has refused. `ReadsLastSamples` takes a second invariant, `ShownInv`: the window of
`comstate` is what `SizeAsked` samples keep of `shown`; the theorems on windows and reads
of `ServerCommand_proofs` do the rest.

**`DistantShell`.** While the shell is used as intended there is one loop, the last one
started (`OneLoop`), and what is executed, in hand and queued are together the
beginning of the file (`FileOrder`).

**Only model-checked.** The liveness properties `SweepEnds`, `CallsEnd`, `LoopEnds`,
`LinesExecuted` and `SessionEnds`: fairness is about ENABLED, which the prover does not
handle. The four violated properties are refuted by TLC, not proved.

## 6. Not modelled

`readVector`, `run` (they change nothing here; interpreter and pool are elsewhere), the
latency of the shell, option parsing, debug output, `ExceptionDgm` (a message),
`CORBAReference.h` (nothing includes it), build and packaging. Output signals and
reads are not taken apart in `ServerThreads`: a read that holds references while
another thread pushes or resizes is exposed as `synchroValue` is there, and
`BufferRead` has one buffer of fixed size. `CorbaServer` has one servant, one entity
and no `run(onlyOnce=true)`, which nothing calls.

## 7. Plan

Order of work, the most important behaviour first: signals and buffers
(`ServerCommand`, with its abstract specifications) - threads (`ServerThreads`,
`BufferRead`) - `DistantShell` - callbacks, server life and sessions
(`ClientCallbacks`, `CorbaServer`, `CoShell`) - references and reallocations in
`ServerThreads` - the session of `TestCoShell` - proofs of the safety properties of all
of these. All of this exists. Next:

1. Proofs: that `BufferRead` implements the read and the tick of `ServerCommand` when
   they do not overlap.
2. Models: output signals and reads taken apart in `ServerThreads`, several entities
   behind one `CorbaServer`, two coshells with losses in one run.
