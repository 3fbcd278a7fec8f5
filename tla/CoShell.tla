------------------------------ MODULE CoShell ------------------------------
(***************************************************************************)
(* The program coshell (coshell.cpp, connecttoshell.cpp, CorbaConnection)  *)
(* against the server of CorbaServer, which it finds in the naming service:*)
(* connection, registration of the callback, one call of runAndRead per    *)
(* line typed, one retry of a call that fails, after a new resolution of   *)
(* the name, and the destructor that unregisters the callback.             *)
(*                                                                         *)
(* A call fails when the server cannot be reached, or when the connection  *)
(* is lost, before or after the server has executed the line.              *)
(***************************************************************************)
EXTENDS CorbaServer, Sequences

CONSTANTS
  Clients,     \* the coshells
  MaxLines,    \* bound on the lines typed in each
  MaxLosses    \* bound on the connections lost

ASSUME ShellBounds == {MaxLines, MaxLosses} \subseteq Nat

VARIABLES
  pc,          \* pc[c]: where coshell c is
  serverPtr,   \* serverPtr[c]: its reference
  line,        \* line[c]: the number of lines typed
  callback,    \* the clients whose callback the server holds; every coshell
               \* registers under the same name, so there is at most one
  home,        \* home[c]: history, the process in which c has registered
  losses,      \* the number of connections lost
  executed     \* executed[c]: history, the lines of c the server executed

clientVars == <<pc, serverPtr, line, callback, home, losses, executed>>
allVars    == <<serverVars, clientVars>>

SystemInit ==
  /\ Init
  /\ pc = [c \in Clients |-> "connect"]
  /\ serverPtr = [c \in Clients |-> 0]
  /\ line = [c \in Clients |-> 0]
  /\ callback = {} /\ home = [c \in Clients |-> 0]
  /\ losses = 0
  /\ executed = [c \in Clients |-> << >>]

Goto(c, here, there) ==
  /\ pc[c] = here
  /\ pc' = [pc EXCEPT ![c] = there]
  /\ UNCHANGED serverVars

(* The context is "sot" whatever the name of the service is. *)
Resolved == IF nsUp THEN bound[DEFAULT_CONTEXT_NAME] ELSE 0

(* The reference that resolve returns designates a live servant, which     *)
(* _narrow may ask for its type; a nil one stays nil.                      *)
Narrows(e) == e = 0 \/ Serving(e)

(* The call of c does not get through: no servant, or the connection is    *)
(* lost.                                                                   *)
CallFails(c) ==
  IF Serving(serverPtr[c]) THEN losses < MaxLosses /\ losses' = losses + 1
                           ELSE UNCHANGED losses

-----------------------------------------------------------------------------
(* What connectToServant gives: a nil reference without an ORB or a naming *)
(* service, else the servant bound.  A RootPOA that raises has the effect  *)
(* of a nil reference.                                                     *)
ConnectToServant == {0, Resolved}

(* The constructor raises, and the program ends, when it gets no reference.*)
Connect(c) ==
  /\ \E ref \in ConnectToServant :
        IF ref # 0 /\ Serving(ref)
        THEN Goto(c, "connect", "register") /\ serverPtr' = [serverPtr EXCEPT ![c] = ref]
        ELSE Goto(c, "connect", "ended") /\ UNCHANGED serverPtr
  /\ UNCHANGED <<line, callback, home, losses, executed>>

(* A call that raises may have been executed: only its answer was lost.    *)
Register(c) ==
  /\ \/ /\ Serving(serverPtr[c])
        /\ Goto(c, "register", "prompt")
        /\ callback' = {c}
        /\ home' = [home EXCEPT ![c] = epoch]
        /\ UNCHANGED losses
     \/ /\ CallFails(c)
        /\ Goto(c, "register", "unwind")
        /\ callback' \in {callback} \cup IF Serving(serverPtr[c]) THEN {{c}} ELSE {}
        /\ UNCHANGED home
  /\ UNCHANGED <<serverPtr, line, executed>>

(* Empty lines are not sent. *)
TypeLine(c) ==
  /\ line[c] < MaxLines
  /\ Goto(c, "prompt", "call")
  /\ line' = [line EXCEPT ![c] = @ + 1]
  /\ UNCHANGED <<serverPtr, callback, home, losses, executed>>

(* "exit", or the end of the input. *)
Exit(c) ==
  /\ Goto(c, "prompt", "destroy")
  /\ UNCHANGED <<serverPtr, line, callback, home, losses, executed>>

(* Mutant: the line typed before is sent. *)
RunPrevious(c) ==
  /\ Serving(serverPtr[c])
  /\ \/ Goto(c, "call", "reply")
     \/ Goto(c, "recall", "rereply")
  /\ executed' = [executed EXCEPT ![c] = Append(@, line[c] - 1)]
  /\ UNCHANGED <<serverPtr, line, callback, home, losses>>

(* The server executes the line, in the first call or in the retry. *)
RunAndRead(c) ==
  /\ Serving(serverPtr[c])
  /\ \/ Goto(c, "call", "reply")
     \/ Goto(c, "recall", "rereply")
  /\ executed' = [executed EXCEPT ![c] = Append(@, line[c])]
  /\ UNCHANGED <<serverPtr, line, callback, home, losses>>

(* The output arrives and is printed. *)
Output(c) ==
  /\ \/ Goto(c, "reply", "prompt")
     \/ Goto(c, "rereply", "prompt")
  /\ UNCHANGED <<serverPtr, line, callback, home, losses, executed>>

(* The first call raises: rebind. *)
CallRaises(c) ==
  /\ CallFails(c)
  /\ \/ Goto(c, "call", "rebind")
     \/ Goto(c, "reply", "rebind")
  /\ UNCHANGED <<serverPtr, line, callback, home, executed>>

(* Mutant: the line is not sent again. *)
RebindOnly(c) ==
  /\ IF Narrows(Resolved)
     THEN Goto(c, "rebind", "prompt") /\ serverPtr' = [serverPtr EXCEPT ![c] = Resolved]
     ELSE Goto(c, "rebind", "unwind") /\ UNCHANGED serverPtr
  /\ UNCHANGED <<line, callback, home, losses, executed>>

(* reconnectToServant, and _narrow of its result, which may raise in turn. *)
Rebind(c) ==
  /\ IF Narrows(Resolved)
     THEN Goto(c, "rebind", "recall") /\ serverPtr' = [serverPtr EXCEPT ![c] = Resolved]
     ELSE Goto(c, "rebind", "unwind") /\ UNCHANGED serverPtr
  /\ UNCHANGED <<line, callback, home, losses, executed>>

(* Mutant: retry until it succeeds. *)
RetryRebinds(c) ==
  /\ CallFails(c)
  /\ \/ Goto(c, "recall", "rebind")
     \/ Goto(c, "rereply", "rebind")
  /\ UNCHANGED <<serverPtr, line, callback, home, executed>>

(* The second call raises: the exception leaves run(). *)
RetryRaises(c) ==
  /\ CallFails(c)
  /\ \/ Goto(c, "recall", "unwind")
     \/ Goto(c, "rereply", "unwind")
  /\ UNCHANGED <<serverPtr, line, callback, home, executed>>

(* Mutant: the callback is left in the list. *)
UnregisterNothing(c) ==
  /\ \/ Goto(c, "destroy", "ended")
     \/ Goto(c, "unwind", "ended")
  /\ UNCHANGED <<serverPtr, line, callback, home, losses, executed>>

(* ~CoShell: unregisterClient erases the name, whose callback it may be.   *)
(* When it raises, main() catches the exception on the way out of a normal *)
(* end (unless destructors are noexcept); while another exception unwinds  *)
(* the stack it is std::terminate.                                         *)
Unregister(c) ==
  /\ \/ /\ Serving(serverPtr[c])
        /\ Goto(c, "destroy", "ended") \/ Goto(c, "unwind", "ended")
        /\ callback' = {}
        /\ UNCHANGED losses
     \/ /\ CallFails(c)
        /\ \/ Goto(c, "destroy", "ended")
           \/ Goto(c, "destroy", "terminated")
           \/ Goto(c, "unwind", "terminated")
        /\ callback' \in {callback} \cup IF Serving(serverPtr[c]) THEN {{}} ELSE {}
  /\ UNCHANGED <<serverPtr, line, home, executed>>

(* A ping after run(): the servant listener, a local variable of run(), is *)
(* destroyed and still registered.                                         *)
PingDestroyed(c) ==
  /\ Serving(epoch) /\ c \in callback
  /\ Goto(c, "destroy", "terminated") \/ Goto(c, "unwind", "terminated")
  /\ UNCHANGED <<serverPtr, line, callback, home, losses, executed>>

-----------------------------------------------------------------------------
(* A new process of the server holds no callback. *)
Server ==
  /\ Next
  /\ callback' = IF epoch' # epoch THEN {} ELSE callback
  /\ UNCHANGED <<pc, serverPtr, line, home, losses, executed>>

(* What the coshell does by itself, once a line is typed. *)
Works(c) ==
  \/ Connect(c) \/ Register(c) \/ RunAndRead(c) \/ Output(c)
  \/ CallRaises(c) \/ Rebind(c) \/ RetryRaises(c) \/ Unregister(c)

SystemNext ==
  \/ Server
  \/ \E c \in Clients : TypeLine(c) \/ Exit(c) \/ PingDestroyed(c) \/ Works(c)

SystemSpec ==
  /\ SystemInit
  /\ [][SystemNext]_allVars
  /\ \A c \in Clients : WF_allVars(Works(c))

-----------------------------------------------------------------------------
(***************************************************************************)
(* Properties.                                                             *)
(***************************************************************************)

Labels == {"connect", "register", "prompt", "call", "reply", "rebind", "recall",
           "rereply", "unwind", "destroy", "ended", "terminated"}

(* The type invariant. *)
ShellTypeOK ==
  /\ TypeOK
  /\ pc \in [Clients -> Labels]
  /\ serverPtr \in [Clients -> 0 .. MaxEpochs]
  /\ line \in [Clients -> 0 .. MaxLines]
  /\ callback \subseteq Clients /\ home \in [Clients -> 0 .. MaxEpochs]
  /\ losses \in 0 .. MaxLosses
  /\ executed \in [Clients -> Seq(1 .. MaxLines)]

(* The server executes the lines of a coshell in the order they are typed  *)
(* and skips none, through lost connections and restarts                   *)
(* (coshell.cpp:93-114).                                                   *)
NoneSkipped ==
  \A c \in Clients : \A i \in 1 .. Len(executed[c]) :
     executed[c][i] \in IF i = 1 THEN {1} ELSE {executed[c][i - 1], executed[c][i - 1] + 1}

Executed(c, k) == \E i \in 1 .. Len(executed[c]) : executed[c][i] = k

(* A line whose call is repeated is executed at most twice: there is one   *)
(* retry, also when the answer of the first call is what was lost          *)
(* (coshell.cpp:102-113).                                                  *)
AtMostTwice ==
  \A c \in Clients : \A i, j, m \in 1 .. Len(executed[c]) :
     i < j /\ j < m => executed[c][i] # executed[c][j] \/ executed[c][j] # executed[c][m]

(* Back at the prompt, every line typed has been executed.                 *)
PromptAfterExecution ==
  \A c \in Clients : pc[c] = "prompt" => \A k \in 1 .. line[c] : Executed(c, k)

(* A coshell gets back to its prompt, or ends, whatever becomes of the     *)
(* server and of the naming service.                                       *)
CallsEnd ==
  \A c \in Clients : pc[c] = "call" ~> pc[c] \in {"prompt", "ended", "terminated"}

(* A coshell that has come as far as its prompt is pinged by the process   *)
(* with which it registered, until it leaves or another coshell, with its  *)
(* common name, comes to that process, and only by that one: the server to *)
(* which it is rebound does not know it (coshell.cpp:73, 107).  The server *)
(* keeps no callback of a coshell that has ended (coshell.cpp:122-125).    *)
(* Lost connections and a server that was closed are left aside.           *)
InSession(c) == pc[c] \in {"prompt", "call", "reply", "rebind", "recall", "rereply"}

CallbackOfLiving ==
  up /\ losses = 0 /\ ~orbShut =>
     /\ \A c \in callback : pc[c] # "ended"
     /\ \A c \in Clients : InSession(c) =>
          \/ c \in callback /\ home[c] = epoch
          \/ home[c] # epoch /\ c \notin callback
          \/ \E d \in Clients \ {c} : serverPtr[d] = epoch
=============================================================================
