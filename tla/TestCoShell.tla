---------------------------- MODULE TestCoShell ----------------------------
(***************************************************************************)
(* The program test_corba_shell (class TestCoShell) against the entity     *)
(* ServerCommand, which it drives from end to end: it registers a callback,*)
(* creates the signal comstate, sends four commands that plug the signal,  *)
(* buffer it and have it sampled periodically, and reads the samples by the*)
(* rank it was given.  A command that fails is sent once more, after a new *)
(* resolution of the server's name; nothing else is tried again.           *)
(*                                                                         *)
(* The server process may be killed and restarted at any time, a new one   *)
(* has none of the signals; connections are lost before or after a call is *)
(* executed; other clients create signals.  Starting the server and the    *)
(* naming service are in CorbaServer: here a resolution succeeds or not.   *)
(***************************************************************************)
EXTENDS ServerCommand

CONSTANTS
  Comstate,     \* the name of the signal
  SizeAsked,    \* the size given to the command "buffer" (30 in the program)
  MaxEpochs,    \* bound on the processes of the server
  MaxLosses     \* bound on the connections lost

ASSUME ComstateAssumption == Comstate \in Names \ BuiltIn
ASSUME SizeAskedAssumption == SizeAsked \in Sizes \ {0}
ASSUME SessionBounds == MaxEpochs \in Nat \ {0} /\ MaxLosses \in Nat

VARIABLES
  epoch,        \* the process of the server that runs, or ran last
  fallen,       \* it has aborted, it was not killed
  periodic,     \* OpenHRP.periodicCall recomputes coshell.synchro
  shown,        \* history: what ticks have found in comstate, once buffered
  losses,       \* the number of connections lost
  pc,           \* where the program is
  command,      \* the command it sends, 1 to 4
  serverPtr,    \* the process that it has a reference to, 0 if none
  lIVS,         \* the rank of comstate
  createdIn,    \* history: the process that has returned this rank
  refused,      \* history: the commands answered by what the interpreter raised
  bufferOfValues

serverState  == <<vars, periodic, shown>>
processVars  == <<serverState, epoch, fallen>>
programVars  == <<command, serverPtr, lIVS, createdIn, refused, bufferOfValues>>
sessionVars  == <<processVars, losses, pc, programVars>>

SessionInit ==
  /\ Init
  /\ epoch = 1 /\ fallen = FALSE
  /\ periodic \in BOOLEAN /\ shown = << >>
  /\ losses = 0
  /\ pc = "connect" /\ command = 1
  /\ serverPtr = 0 /\ lIVS = 0 /\ createdIn = 0 /\ refused = {}
  /\ bufferOfValues = << >>

-----------------------------------------------------------------------------
(***************************************************************************)
(* What the server does in a call.                                         *)
(***************************************************************************)
CreateComstate ==
  CreateInputVectorSignal(Comstate) /\ UNCHANGED <<periodic, shown>>

ReadComstate ==
  ReadInputVectorSignal(lIVS) /\ UNCHANGED <<periodic, shown>>

(* The signal that comstate is plugged to has one dimension.               *)
PlugComstate ==
  /\ Comstate \in Range(vectorSIN)
  /\ LET i == RankOf(vectorSIN, Comstate) + 1
     IN  \E v \in Vectors : KeepsDimension(i, v) /\ SourceChange(i, v)
  /\ UNCHANGED <<periodic, shown>>

(* coshell.buffer; the interpreter raises when there is no memory.         *)
BufferComstate(ok) ==
  /\ BufferSignal(Comstate, SizeAsked)
  /\ IF ok
     THEN LookUp(Comstate) < Len(vectorSINStored) =>
            Len(vectorSINStored'[LookUp(Comstate) + 1].slots) = SizeAsked
     ELSE vectorSINStored' = vectorSINStored
  /\ UNCHANGED <<periodic, shown>>

(* The four commands, in their order; ok: the interpreter has not raised.  *)
(* What it raises (comstate, pg.comref or OpenHRP is missing, there is no  *)
(* memory) is caught, written to the output and answered like a result.    *)
(* The last command concerns coshell.position: nothing here depends on it, *)
(* refused or not.                                                         *)
RunAndRead(ok) ==
  \/ command = 1 /\ ok /\ PlugComstate
  \/ command = 2 /\ BufferComstate(ok)
  \/ command = 3 /\ ok /\ periodic' = TRUE /\ UNCHANGED <<vars, shown>>
  \/ command = 4 /\ ok /\ UNCHANGED serverState
  \/ command \in {1, 3} /\ ~ok /\ UNCHANGED serverState

-----------------------------------------------------------------------------
(***************************************************************************)
(* Calls.                                                                  *)
(***************************************************************************)
Goto(here, there) ==
  /\ pc \in here
  /\ pc' \in there
  /\ UNCHANGED epoch

Reached == alive /\ serverPtr = epoch

Falls == fallen' = (fallen \/ (alive /\ ~alive'))

Answered(Effect) ==
  /\ Reached
  /\ Effect
  /\ alive'
  /\ UNCHANGED <<fallen, losses>>

(* There is no process to call, or it dies of the call, or the connection  *)
(* is lost, before the call is executed or after.                          *)
Raises(Effect) ==
  /\ \/ ~Reached /\ UNCHANGED <<serverState, losses>>
     \/ Reached /\ Effect /\ ~alive' /\ UNCHANGED losses
     \/ /\ Reached /\ losses < MaxLosses
        /\ losses' = losses + 1
        /\ Effect \/ UNCHANGED serverState
  /\ Falls

(* The constructor; when it raises the program is over. *)
Connect ==
  /\ \/ alive /\ Goto({"connect"}, {"register"}) /\ serverPtr' = epoch
     \/ Goto({"connect"}, {"ended"}) /\ UNCHANGED serverPtr
  /\ UNCHANGED <<processVars, losses, command, lIVS, createdIn, refused, bufferOfValues>>

(* registerClient; the list that it changes is in ClientCallbacks.         *)
Register ==
  /\ \/ Goto({"register"}, {"create"}) /\ Answered(UNCHANGED serverState)
     \/ Goto({"register"}, {"unwind"}) /\ Raises(UNCHANGED serverState)
  /\ UNCHANGED programVars

(* Mutant: the program goes on without the signal. *)
CreateOrGoOn ==
  /\ \/ /\ Goto({"create"}, {"send"})
        /\ Answered(CreateComstate)
        /\ lIVS' = RankOf(vectorSIN', Comstate)
        /\ createdIn' = serverPtr
     \/ /\ Goto({"create"}, {"send"})
        /\ Raises(CreateComstate)
        /\ UNCHANGED <<lIVS, createdIn>>
  /\ UNCHANGED <<command, serverPtr, refused, bufferOfValues>>

(* exit() runs no destructor. *)
Create ==
  /\ \/ /\ Goto({"create"}, {"send"})
        /\ Answered(CreateComstate)
        /\ lIVS' = RankOf(vectorSIN', Comstate)
        /\ createdIn' = serverPtr
     \/ /\ Goto({"create"}, {"exited"})
        /\ Raises(CreateComstate)
        /\ UNCHANGED <<lIVS, createdIn>>
  /\ UNCHANGED <<command, serverPtr, refused, bufferOfValues>>

(* sendBuffer has sent the command and prints the answer, whatever it is.  *)
(* It ends without the return statement that its type asks for, which may  *)
(* be the end of the program.                                              *)
Sent(here, ok) ==
  /\ Goto(here, {IF command = 4 THEN "read" ELSE "send", "terminated"})
  /\ command' = IF command = 4 THEN command ELSE command + 1
  /\ refused' = IF ok THEN refused ELSE refused \cup {command}
  /\ UNCHANGED <<serverPtr, lIVS, createdIn, bufferOfValues>>

(* The call of runAndRead, from one place or the other: it returns, or the *)
(* program goes on at another place.                                       *)
CallRunAndRead(here, ifRaised) ==
  \E ok \in BOOLEAN :
    \/ Sent({here}, ok) /\ Answered(RunAndRead(ok))
    \/ Goto({here}, {ifRaised}) /\ Raises(RunAndRead(ok)) /\ UNCHANGED programVars

Send == CallRunAndRead("send", "rebind")

(* Mutant: the command is not sent again. *)
RebindOnly ==
  /\ Sent({"rebind"}, TRUE)
  /\ UNCHANGED <<processVars, losses>>

(* A resolution that fails gives a nil reference, on which the second call *)
(* raises; one that leads to a process that is no more raises in _narrow.  *)
Rebind ==
  /\ \/ /\ Goto({"rebind"}, {"resend"})
        /\ serverPtr' \in {0} \cup IF alive THEN {epoch} ELSE {}
     \/ /\ Goto({"rebind"}, {"unwind"})
        /\ ~alive
        /\ UNCHANGED serverPtr
  /\ UNCHANGED <<processVars, losses, command, lIVS, createdIn, refused, bufferOfValues>>

(* Mutant: rebind until the call succeeds. *)
ResendOrRebind == CallRunAndRead("resend", "rebind")

Resend == CallRunAndRead("resend", "unwind")

(* After a second, so that there are ticks between the commands and this.  *)
Read ==
  /\ \/ /\ Goto({"read"}, {"destroy"})
        /\ Answered(ReadComstate)
        /\ bufferOfValues' = ReadReply(lIVS)
     \/ /\ Goto({"read"}, {"exited"})
        /\ Raises(ReadComstate)
        /\ UNCHANGED bufferOfValues
  /\ UNCHANGED <<command, serverPtr, lIVS, createdIn, refused>>

(* The destructor, after the return of run() or while an exception leaves  *)
(* it.  An exception of its own is then std::terminate, in the first case  *)
(* too where destructors are noexcept.                                     *)
Unregister ==
  /\ \/ Goto({"destroy", "unwind"}, {"ended"}) /\ Answered(UNCHANGED serverState)
     \/ Goto({"destroy"}, {"ended", "terminated"}) /\ Raises(UNCHANGED serverState)
     \/ Goto({"unwind"}, {"terminated"}) /\ Raises(UNCHANGED serverState)
  /\ UNCHANGED programVars

Program ==
  \/ Connect \/ Register \/ Create \/ Send \/ Rebind \/ Resend \/ Read \/ Unregister

-----------------------------------------------------------------------------
(***************************************************************************)
(* The server process, and who else uses it.                               *)
(***************************************************************************)
Sampled(i) == vectorSIN[i] = Comstate /\ Buffered(i) /\ Swept(i)

Tick ==
  /\ periodic
  /\ SynchroValue
  /\ shown' = shown \o (IF \E i \in 1 .. Len(vectorSIN) : Sampled(i)
                        THEN <<[ts |-> now', data |-> source[RankOf(vectorSIN, Comstate) + 1]]>>
                        ELSE << >>)
  /\ UNCHANGED periodic

(* Other clients create signals and plug theirs; what a signal is plugged  *)
(* to changes, its dimension does not.                                     *)
Others ==
  /\ \/ \E n \in Names \ BuiltIn : CreateInputVectorSignal(n)
     \/ \E i \in 1 .. Len(source), v \in Vectors :
           /\ vectorSIN[i] # Comstate \/ source[i] # NoValue
           /\ KeepsDimension(i, v)
           /\ SourceChange(i, v)
  /\ UNCHANGED <<periodic, shown>>

Kill ==
  /\ alive
  /\ alive' = FALSE
  /\ UNCHANGED <<now, outVars, inVars, vectorSINStored, vectorName2Rank, periodic,
                 shown, epoch, fallen, losses, pc, programVars>>

Restart ==
  /\ ~alive /\ epoch < MaxEpochs
  /\ epoch' = epoch + 1 /\ alive' = TRUE /\ fallen' = FALSE
  /\ now' = 0
  /\ vectorSOUT' = << >> /\ outValue' = << >> /\ outRanks' = {}
  /\ vectorSIN' = << >> /\ source' = << >> /\ inRanks' = {}
  /\ vectorSINStored' = << >> /\ vectorName2Rank' = [x \in {} |-> 0]
  /\ periodic' \in BOOLEAN /\ shown' = << >>
  /\ UNCHANGED <<losses, pc, programVars>>

Process ==
  \/ (Tick \/ Others) /\ Falls /\ UNCHANGED <<epoch, losses, pc, programVars>>
  \/ Kill
  \/ Restart

SessionNext == Program \/ Process

SessionSpec == SessionInit /\ [][SessionNext]_sessionVars /\ WF_sessionVars(Program)

-----------------------------------------------------------------------------
(***************************************************************************)
(* Properties.                                                             *)
(***************************************************************************)

Labels == {"connect", "register", "create", "send", "rebind", "resend", "read",
           "destroy", "unwind", "ended", "exited", "terminated"}

(* The type invariant. *)
SessionTypeOK ==
  /\ TypeOK
  /\ epoch \in 1 .. MaxEpochs
  /\ {fallen, periodic} \subseteq BOOLEAN
  /\ fallen => ~alive
  /\ shown \in Seq(Slot)
  /\ losses \in 0 .. MaxLosses
  /\ pc \in Labels /\ command \in 1 .. 4
  /\ {serverPtr, createdIn} \subseteq 0 .. MaxEpochs
  /\ lIVS \in Nat
  /\ refused \subseteq 1 .. 4

(* The process that has created comstate is still there. *)
SameProcess == alive /\ createdIn = epoch

(* When the program comes to read, the server is set up as the commands    *)
(* ask, but for those that the interpreter has refused, whichever of the   *)
(* calls were lost or repeated: comstate is at the rank that the program   *)
(* has, it is plugged, its buffer has the size asked for, or no cell if    *)
(* that was refused, and it is sampled periodically.  All this unless the  *)
(* process has changed in the meantime (test_corba_shell.cpp:113-127).     *)
SetUpHolds ==
  pc = "read" /\ SameProcess =>
     LET i == lIVS + 1  size == Len(vectorSINStored[i].slots) IN
     /\ vectorSIN[i] = Comstate
     /\ 1 \notin refused => source[i] # NoValue
     /\ size = SizeAsked \/ (2 \in refused /\ size = 0)
     /\ 3 \notin refused => periodic

(* The program reads the last samples of comstate, as many as it asked for *)
(* or all there are, and the current value when there are none, if it is   *)
(* the process that created comstate that answers.                         *)
LastShown ==
  LET n == IF Len(shown) < SizeAsked THEN Len(shown) ELSE SizeAsked
  IN  SubSeq(shown, Len(shown) - n + 1, Len(shown))

ReadsLastSamples ==
  [][pc = "read" /\ pc' = "destroy" /\ SameProcess =>
       IF shown = << >>
       THEN bufferOfValues' = << [data |-> source[lIVS + 1]] >>
       ELSE /\ Len(bufferOfValues') = Len(LastShown)
            /\ Range(bufferOfValues') = Range(LastShown)]_sessionVars

(* The program has been told that its calls may end in an abort: the       *)
(* process is not the one that created comstate, which the call that made  *)
(* it rebind has told, or the answer to the first command says that        *)
(* comstate was not plugged.                                               *)
Warned == createdIn # 0 /\ (createdIn = epoch => 1 \in refused)

(* The program makes the server abort in two ways only: it goes on, after  *)
(* a rebind, with a process that does not know comstate, or it goes on to  *)
(* read comstate after an answer that says that it was not plugged         *)
(* (server-command.cpp:130-142, 312, test_corba_shell.cpp:63-82, 135).     *)
AbortsOnlyWarned == fallen => Warned

(* The program comes to an end, whatever becomes of the server.            *)
SessionEnds == pc = "create" ~> pc \in {"ended", "exited", "terminated"}
=============================================================================
