---------------------------- MODULE CorbaServer ----------------------------
(***************************************************************************)
(* The life of the CORBA server of one process (server-abstract.h,         *)
(* server-abstract.cpp, corba-server-generic.cpp and .t.cpp): the commands *)
(* initCorba, start and initAndStart, closeCorbaServer, and the naming     *)
(* service in which clients find the servant.  The process may be killed   *)
(* and restarted, the naming service may be out of reach for a while.      *)
(*                                                                         *)
(* A process is known by its epoch, the number of starts so far; a         *)
(* reference to its servant is its epoch, and 0 is no reference.           *)
(***************************************************************************)
EXTENDS Integers

CONSTANTS
  Contexts,               \* names of naming contexts
  DEFAULT_CONTEXT_NAME,
  MaxEpochs               \* bound on the number of starts of the process

ASSUME DefaultAssumption   == DEFAULT_CONTEXT_NAME \in Contexts
ASSUME MaxEpochsAssumption == MaxEpochs \in Nat \ {0}

VARIABLES
  epoch,          \* the last process started
  up,             \* it runs
  genericServer,  \* how far init() came: "null" before, then see Stages
  serverName,     \* the name of the context
  idlActive,      \* the servant is active in the POA
  orbShut,        \* the ORB of the process has been shut down
  todo,           \* "start": initAndStart has still to register the servant
  nsUp,           \* the naming service answers
  bound,          \* bound[c]: the servant bound in context c
  lastInit,       \* history: how the last initCorbaServer ended
  lastStart       \* history: how the last registerCorbaServant ended

orbVars == <<genericServer, serverName, idlActive, orbShut>>
nsVars  == <<nsUp, bound>>
ended   == <<lastInit, lastStart>>
serverVars == <<epoch, up, orbVars, todo, nsVars, ended>>

(* "new": no ORB; "orb": no POA; "poa": no context; "running": the POA is  *)
(* active and the thread serverThread runs the ORB.                        *)
Stages == {"null", "new", "orb", "poa", "running"}

Init ==
  /\ epoch = 1 /\ up = TRUE
  /\ genericServer = "null" /\ serverName = DEFAULT_CONTEXT_NAME
  /\ idlActive = FALSE /\ orbShut = FALSE
  /\ todo = "none"
  /\ nsUp = TRUE /\ bound = [c \in Contexts |-> 0]
  /\ lastInit = "none" /\ lastStart = "none"

(* A client that has reference e reaches the servant. *)
Serving(e) == up /\ e = epoch /\ genericServer = "running" /\ idlActive

-----------------------------------------------------------------------------
(* The argument of initCorba is dropped when nothing follows it: reading   *)
(* the blanks that follow the last word leaves the stream not good().      *)
ContextName(arg, followed) == IF followed THEN arg ELSE DEFAULT_CONTEXT_NAME

(* How far init() can come: ORB_init may fail, an ORB that has been shut   *)
(* down answers nothing more, the context needs the naming service.        *)
Reached ==
  {"new"} \cup IF orbShut THEN {"orb"} ELSE IF nsUp THEN {"running"} ELSE {"poa"}

(* initCorbaServer, then registerCorbaServant when next is "start".        *)
(* genericServer is set before init(), which may raise, is called.         *)
InitCorbaServer(name, next) ==
  /\ up /\ todo = "none"
  /\ \/ /\ genericServer # "null"
        /\ lastInit' = "returned" /\ todo' = next
        /\ UNCHANGED <<genericServer, serverName>>
     \/ /\ genericServer = "null"
        /\ serverName' = name
        /\ genericServer' \in Reached
        /\ IF genericServer' = "running"
           THEN lastInit' = "returned" /\ todo' = next
           ELSE lastInit' = "raised" /\ UNCHANGED todo
  /\ UNCHANGED <<epoch, up, idlActive, orbShut, nsVars, lastStart>>

(* Mutant: AlreadyBound is reported and left at that. *)
BindOnly == [bound EXCEPT ![serverName] = IF @ = 0 THEN epoch ELSE @]

(* bindIdl: bind, or rebind what is bound already. *)
BindIdl == [bound EXCEPT ![serverName] = epoch]

(* registerCorbaServant: activateIdl, then bindIdl.  Without genericServer *)
(* or without a POA the call goes through a null pointer or a nil          *)
(* reference.  The POA activates a servant once: a second activation       *)
(* raises, also after a bindIdl that raised.                               *)
RegisterCorbaServant ==
  /\ up /\ todo' = "none"
  /\ \/ /\ genericServer \in {"null", "new", "orb"}
        /\ up' \in BOOLEAN
        /\ lastStart' = "raised"
        /\ UNCHANGED <<idlActive, bound>>
     \/ /\ genericServer \in {"poa", "running"} /\ idlActive
        /\ lastStart' = "raised"
        /\ UNCHANGED <<up, idlActive, bound>>
     \/ /\ genericServer \in {"poa", "running"} /\ ~idlActive
        /\ idlActive' = TRUE
        /\ IF genericServer = "running" /\ nsUp
           THEN bound' = BindIdl /\ lastStart' = "returned"
           ELSE UNCHANGED bound /\ lastStart' = "raised"
        /\ up' \in IF genericServer = "poa" THEN BOOLEAN ELSE {TRUE}
  /\ UNCHANGED <<epoch, genericServer, serverName, orbShut, nsUp, lastInit>>

(* stop(): the servant is deactivated, not unbound, and the ORB, if there  *)
(* is one, is shut down for good.                                          *)
Stop ==
  /\ idlActive' = FALSE
  /\ orbShut' = (orbShut \/ genericServer # "new")

(* closeCorbaServer: stop, then join, then NULL again.  Without a          *)
(* serverThread to join it goes through null pointers.                     *)
CloseCorbaServer ==
  /\ up /\ todo = "none"
  /\ genericServer # "null"
  /\ Stop
  /\ IF genericServer = "running"
     THEN genericServer' = "null" /\ UNCHANGED up
     ELSE up' \in BOOLEAN /\ UNCHANGED genericServer
  /\ UNCHANGED <<epoch, serverName, todo, nsVars, ended>>

-----------------------------------------------------------------------------
Crash ==
  /\ up
  /\ up' = FALSE
  /\ UNCHANGED <<epoch, orbVars, todo, nsVars, ended>>

(* A new process, whose statics are NULL; the bindings outlive the old one.*)
Restart ==
  /\ ~up /\ epoch < MaxEpochs
  /\ epoch' = epoch + 1 /\ up' = TRUE
  /\ genericServer' = "null" /\ serverName' = DEFAULT_CONTEXT_NAME
  /\ idlActive' = FALSE /\ orbShut' = FALSE
  /\ todo' = "none"
  /\ lastInit' = "none" /\ lastStart' = "none"
  /\ UNCHANGED nsVars

NamingService ==
  /\ nsUp' = ~nsUp
  /\ UNCHANGED <<epoch, up, orbVars, todo, bound, ended>>

Commands ==
  \/ \E arg \in Contexts, followed \in BOOLEAN, next \in {"none", "start"} :
        InitCorbaServer(ContextName(arg, followed), next)
  \/ RegisterCorbaServant
  \/ CloseCorbaServer

Next == Commands \/ Crash \/ Restart \/ NamingService

Spec == Init /\ [][Next]_serverVars

-----------------------------------------------------------------------------
(***************************************************************************)
(* Properties.                                                             *)
(***************************************************************************)

(* The type invariant. *)
TypeOK ==
  /\ epoch \in 1 .. MaxEpochs /\ up \in BOOLEAN
  /\ genericServer \in Stages /\ serverName \in Contexts
  /\ idlActive \in BOOLEAN /\ orbShut \in BOOLEAN
  /\ todo \in {"none", "start"}
  /\ nsUp \in BOOLEAN /\ bound \in [Contexts -> 0 .. MaxEpochs]
  /\ {lastInit, lastStart} \subseteq {"none", "returned", "raised"}

(* Once "start" has returned, the naming service leads to the present      *)
(* process, whatever an earlier one has left there, and clients reach the  *)
(* servant until it is closed (corba-server-generic.t.cpp:29-30, 55-61).   *)
StartServes ==
  lastStart = "returned" /\ up /\ ~orbShut =>
     bound[serverName] = epoch /\ Serving(epoch)

(* "initCorba: register the context in the nameservice"                    *)
(* (server-abstract.cpp:98): when it has returned without an exception,    *)
(* the context is there and the server runs, until it is closed.           *)
InitCorbaRegisters ==
  lastInit = "returned" /\ ~orbShut => genericServer = "running"
=============================================================================
