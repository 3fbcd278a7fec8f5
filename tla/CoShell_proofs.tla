--------------------------- MODULE CoShell_proofs ---------------------------
(***************************************************************************)
(* Theorems about CorbaServer and CoShell, for any number of coshells, of  *)
(* lines typed in each, of connections lost and of restarts of the server. *)
(*                                                                         *)
(* What a coshell has had executed is described by its last line executed: *)
(* at the prompt it is the last line typed, in a call the one before it or *)
(* that line, and then once.  The callback that the server holds, and the  *)
(* coshells that know the present process, follow from one fact about the  *)
(* server: once reached, it is reached until it is closed or dies.         *)
(***************************************************************************)
EXTENDS CoShell, SequenceTheorems, TLAPS

-----------------------------------------------------------------------------
(* The server.                                                             *)

ServerInv ==
  /\ TypeOK /\ StartServes
  /\ \A k \in Contexts : bound[k] <= epoch

(* What a step of the server does to one process. *)
SameProcess ==
  /\ epoch' = epoch
  /\ up' => up
  /\ ~orbShut' => ~orbShut
  /\ Serving(epoch) /\ up' /\ ~orbShut' => Serving(epoch)'
NewProcess == epoch' = epoch + 1 /\ ~up

LEMMA ServerTypes ==
  ASSUME TypeOK
  PROVE  /\ MaxEpochs \in Nat /\ epoch \in 1 .. MaxEpochs /\ epoch \in Nat \ {0}
         /\ \A k \in Contexts : bound[k] \in Nat
         /\ bound[DEFAULT_CONTEXT_NAME] \in 0 .. MaxEpochs
BY MaxEpochsAssumption, DefaultAssumption DEF TypeOK

LEMMA ServerInit == Init => ServerInv
<1> SUFFICES ASSUME Init PROVE ServerInv
  OBVIOUS
<1>1. 1 \in 1 .. MaxEpochs /\ 0 \in 0 .. MaxEpochs
  BY MaxEpochsAssumption
<1>2. TypeOK
  BY <1>1, DefaultAssumption DEF Init, TypeOK, Stages
<1> QED
  BY <1>2 DEF Init, ServerInv, StartServes

LEMMA InitCorbaStep ==
  ASSUME ServerInv, NEW name \in Contexts, NEW next \in {"none", "start"},
         InitCorbaServer(name, next)
  PROVE  ServerInv' /\ SameProcess
<1>1. /\ up /\ UNCHANGED <<epoch, up, idlActive, orbShut, nsUp, bound, lastStart>>
      /\ genericServer = "null" \/ UNCHANGED <<genericServer, serverName>>
  BY DEF InitCorbaServer, nsVars
<1>2. /\ genericServer' \in Stages /\ serverName' \in Contexts /\ todo' \in {"none", "start"}
      /\ lastInit' \in {"none", "returned", "raised"}
  <2>1. Reached \subseteq Stages
    BY DEF Reached, Stages
  <2> QED
    BY <2>1 DEF InitCorbaServer, ServerInv, TypeOK
<1>3. TypeOK'
  BY <1>1, <1>2 DEF ServerInv, TypeOK
<1>4. StartServes'
  BY <1>1 DEF ServerInv, StartServes, Serving
<1>5. SameProcess
  BY <1>1 DEF SameProcess, Serving
<1> QED
  BY <1>1, <1>3, <1>4, <1>5 DEF ServerInv

LEMMA RegisterServantStep ==
  ASSUME ServerInv, RegisterCorbaServant
  PROVE  ServerInv' /\ SameProcess
<1>1. /\ up /\ todo' = "none"
      /\ UNCHANGED <<epoch, genericServer, serverName, orbShut, nsUp, lastInit>>
  BY DEF RegisterCorbaServant
<1>2. /\ up' \in BOOLEAN /\ lastStart' \in {"returned", "raised"}
      /\ bound' = bound \/ bound' = [bound EXCEPT ![serverName] = epoch]
      /\ idlActive' \in BOOLEAN /\ (idlActive => idlActive')
  <2>1. up \in BOOLEAN /\ idlActive \in BOOLEAN
    BY DEF ServerInv, TypeOK
  <2>2. BindIdl = [bound EXCEPT ![serverName] = epoch]
    BY DEF BindIdl
  <2>3. CASE genericServer \in {"null", "new", "orb"} \/ idlActive
    <3>1. /\ up' \in BOOLEAN /\ lastStart' = "raised"
          /\ bound' = bound /\ idlActive' = idlActive
      BY <1>1, <2>1, <2>3 DEF RegisterCorbaServant
    <3> QED
      BY <2>1, <3>1
  <2>4. CASE genericServer \in {"poa", "running"} /\ ~idlActive
    <3>1. /\ up' \in BOOLEAN /\ lastStart' \in {"returned", "raised"}
          /\ bound' = bound \/ bound' = BindIdl
          /\ idlActive' = TRUE
      BY <1>1, <2>4 DEF RegisterCorbaServant
    <3> QED
      BY <2>2, <3>1
  <2> QED
    BY <2>3, <2>4 DEF ServerInv, TypeOK, Stages
<1>3. lastStart' = "returned" =>
        /\ genericServer = "running" /\ idlActive' /\ bound' = [bound EXCEPT ![serverName] = epoch]
  BY DEF RegisterCorbaServant, BindIdl
<1>4. bound' \in [Contexts -> 0 .. MaxEpochs] /\ \A k \in Contexts : bound'[k] <= epoch
  <2>1. epoch \in 0 .. MaxEpochs /\ epoch <= epoch
    BY ServerTypes DEF ServerInv
  <2> QED
    BY <1>2, <2>1 DEF ServerInv, TypeOK
<1>5. TypeOK'
  BY <1>1, <1>2, <1>4 DEF ServerInv, TypeOK
<1>6. StartServes'
  BY <1>1, <1>3 DEF ServerInv, TypeOK, StartServes, Serving
<1>7. SameProcess
  BY <1>1, <1>2 DEF SameProcess, Serving
<1> QED
  BY <1>1, <1>4, <1>5, <1>6, <1>7 DEF ServerInv

LEMMA CloseStep ==
  ASSUME ServerInv, CloseCorbaServer
  PROVE  ServerInv' /\ SameProcess
<1>1. /\ up /\ up' \in BOOLEAN /\ idlActive' = FALSE
      /\ orbShut' = (orbShut \/ genericServer # "new")
      /\ genericServer' \in {genericServer, "null"}
      /\ UNCHANGED <<epoch, serverName, todo, nsUp, bound, lastInit, lastStart>>
  BY DEF CloseCorbaServer, Stop, nsVars, ended, ServerInv, TypeOK
<1>2. orbShut' \in BOOLEAN /\ (~orbShut' => ~orbShut /\ genericServer = "new")
  BY <1>1
<1>3. TypeOK'
  BY <1>1, <1>2 DEF ServerInv, TypeOK, Stages
<1>4. StartServes'
  BY <1>1, <1>2 DEF ServerInv, StartServes, Serving
<1>5. SameProcess
  BY <1>1, <1>2 DEF SameProcess, Serving
<1> QED
  BY <1>1, <1>3, <1>4, <1>5 DEF ServerInv

LEMMA ServerStep ==
  ASSUME ServerInv, Next
  PROVE  ServerInv' /\ (SameProcess \/ NewProcess)
<1>1. CASE Commands
  <2>1. \A arg \in Contexts, followed \in BOOLEAN : ContextName(arg, followed) \in Contexts
    BY DefaultAssumption DEF ContextName
  <2> QED
    BY <1>1, <2>1, InitCorbaStep, RegisterServantStep, CloseStep DEF Commands
<1>2. CASE Crash
  <2>1. UNCHANGED <<epoch, genericServer, serverName, idlActive, orbShut, todo, nsUp, bound,
                    lastInit, lastStart>> /\ up' = FALSE /\ up
    BY <1>2 DEF Crash, orbVars, nsVars, ended
  <2> QED
    BY <2>1 DEF ServerInv, TypeOK, StartServes, SameProcess
<1>3. CASE Restart
  <2>1. /\ ~up /\ epoch < MaxEpochs /\ epoch' = epoch + 1 /\ up' = TRUE
        /\ genericServer' = "null" /\ serverName' = DEFAULT_CONTEXT_NAME
        /\ idlActive' = FALSE /\ orbShut' = FALSE /\ todo' = "none"
        /\ lastInit' = "none" /\ lastStart' = "none" /\ UNCHANGED <<nsUp, bound>>
    BY <1>3 DEF Restart, nsVars
  <2>2. epoch' \in 1 .. MaxEpochs /\ \A k \in Contexts : bound[k] <= epoch'
    BY <2>1, ServerTypes DEF ServerInv
  <2>3. TypeOK'
    BY <2>1, <2>2, DefaultAssumption DEF ServerInv, TypeOK, Stages
  <2> QED
    BY <2>1, <2>2, <2>3 DEF ServerInv, StartServes, NewProcess
<1>4. CASE NamingService
  <2>1. UNCHANGED <<epoch, up, genericServer, serverName, idlActive, orbShut, todo, bound,
                    lastInit, lastStart>> /\ nsUp' \in BOOLEAN
    BY <1>4 DEF NamingService, orbVars, ended
  <2> QED
    BY <2>1 DEF ServerInv, TypeOK, StartServes, Serving, SameProcess
<1> QED
  BY <1>1, <1>2, <1>3, <1>4 DEF Next

LEMMA ServerStutter == ASSUME ServerInv, UNCHANGED serverVars PROVE ServerInv' /\ SameProcess
<1>1. UNCHANGED <<epoch, up, genericServer, serverName, idlActive, orbShut, todo, nsUp, bound,
                  lastInit, lastStart>>
  BY DEF serverVars, orbVars, nsVars, ended
<1> QED
  BY <1>1 DEF ServerInv, TypeOK, StartServes, Serving, SameProcess

(* The invariant of the server, whoever calls it. *)
THEOREM ServerInvariant == Spec => []ServerInv
<1>1. ServerInv /\ [Next]_serverVars => ServerInv'
  BY ServerStep, ServerStutter
<1> QED
  BY <1>1, ServerInit, PTL DEF Spec

(* The variables of the server keep their types (server-abstract.h:40-44). *)
THEOREM ServerTypeCorrect == Spec => []TypeOK
<1>1. ServerInv => TypeOK
  BY DEF ServerInv
<1> QED
  BY <1>1, ServerInvariant, PTL

(* Once "start" has returned, the naming service leads to the present      *)
(* process, and clients reach its servant until it is closed, whatever an  *)
(* earlier process has left there and whatever commands and failures of    *)
(* the naming service come between (corba-server-generic.t.cpp:29-30,      *)
(* 55-61).                                                                 *)
THEOREM StartAlwaysServes == Spec => []StartServes
<1>1. ServerInv => StartServes
  BY DEF ServerInv
<1> QED
  BY <1>1, ServerInvariant, PTL

-----------------------------------------------------------------------------
(* The coshells.                                                           *)

Last(c) == IF executed[c] = << >> THEN 0 ELSE executed[c][Len(executed[c])]

Sorted(c) ==
  \A i, j \in 1 .. Len(executed[c]) : i <= j => executed[c][i] <= executed[c][j]

SentOnce(c) ==
  \A i, j \in 1 .. Len(executed[c]) :
     executed[c][i] = line[c] /\ executed[c][j] = line[c] => i = j

(* How far the lines of c are executed, depending on where c is. *)
Progress(c) ==
  /\ pc[c] \in {"connect", "register"} => line[c] = 0 /\ executed[c] = << >>
  /\ pc[c] \in {"prompt", "reply", "rereply"} => Last(c) = line[c]
  /\ pc[c] = "call" => Last(c) = line[c] - 1
  /\ pc[c] \in {"call", "reply", "rebind", "recall"} =>
        /\ line[c] >= 1
        /\ Last(c) = line[c] - 1 \/ Last(c) = line[c]
        /\ SentOnce(c)

LinesInv ==
  /\ \A c \in Clients :
       Sorted(c) /\ Progress(c) /\ \A k \in 1 .. Last(c) : Executed(c, k)
  /\ NoneSkipped /\ AtMostTwice

(* References are to processes that have been started. *)
ReferencesInv ==
  \A c \in Clients :
     /\ serverPtr[c] <= epoch /\ home[c] <= epoch
     /\ pc[c] = "connect" => serverPtr[c] = 0

(* A process that a coshell knows serves, so that a coshell that knows it  *)
(* does not rebind, and one that the process knows has come to its prompt  *)
(* and has not ended.                                                      *)
SessionInv ==
  up /\ losses = 0 /\ ~orbShut =>
    /\ \A c \in Clients : serverPtr[c] = epoch => Serving(epoch) /\ pc[c] # "rebind"
    /\ \A c \in callback :
         serverPtr[c] = epoch /\ pc[c] \notin {"connect", "register", "ended"}
    /\ \A c \in Clients : InSession(c) =>
         \/ c \in callback /\ home[c] = epoch
         \/ home[c] # epoch /\ c \notin callback
         \/ \E d \in Clients \ {c} : serverPtr[d] = epoch

ShellInv == ServerInv /\ ShellTypeOK /\ LinesInv /\ ReferencesInv /\ SessionInv

(* Where a step that neither types nor executes a line leads. *)
Quiet ==
  {<<"connect", "register">>, <<"connect", "ended">>, <<"register", "prompt">>,
   <<"register", "unwind">>, <<"prompt", "destroy">>, <<"reply", "prompt">>,
   <<"rereply", "prompt">>, <<"call", "rebind">>, <<"reply", "rebind">>,
   <<"rebind", "recall">>, <<"rebind", "unwind">>, <<"recall", "unwind">>,
   <<"rereply", "unwind">>, <<"destroy", "ended">>, <<"destroy", "terminated">>,
   <<"unwind", "ended">>, <<"unwind", "terminated">>}

(* The step of coshell c leaves the other coshells alone. *)
Alone(c) ==
  /\ pc' \in [Clients -> Labels]
  /\ \A d \in Clients : d # c =>
       /\ pc'[d] = pc[d] /\ serverPtr'[d] = serverPtr[d] /\ line'[d] = line[d]
       /\ home'[d] = home[d] /\ executed'[d] = executed[d]
  /\ UNCHANGED serverVars

-----------------------------------------------------------------------------
LEMMA ClientTypes ==
  ASSUME ShellTypeOK
  PROVE  /\ MaxEpochs \in Nat /\ MaxLines \in Nat /\ MaxLosses \in Nat /\ losses \in Nat
         /\ epoch \in 1 .. MaxEpochs /\ epoch \in Nat \ {0}
         /\ Resolved \in 0 .. MaxEpochs
         /\ \A c \in Clients :
              /\ line[c] \in Nat /\ serverPtr[c] \in Nat /\ home[c] \in Nat
              /\ executed[c] \in Seq(1 .. MaxLines) /\ Len(executed[c]) \in Nat
              /\ executed[c] = << >> <=> Len(executed[c]) = 0
              /\ \A i \in 1 .. Len(executed[c]) : executed[c][i] \in 1 .. MaxLines
              /\ Last(c) \in 0 .. MaxLines
<1>1. MaxEpochs \in Nat /\ epoch \in 1 .. MaxEpochs /\ epoch \in Nat \ {0}
      /\ bound[DEFAULT_CONTEXT_NAME] \in 0 .. MaxEpochs
  BY ServerTypes DEF ShellTypeOK
<1>2. Resolved \in 0 .. MaxEpochs
  BY <1>1 DEF Resolved
<1>3. MaxLines \in Nat /\ MaxLosses \in Nat /\ losses \in Nat
  BY ShellBounds DEF ShellTypeOK
<1>4. ASSUME NEW c \in Clients
      PROVE  /\ line[c] \in Nat /\ serverPtr[c] \in Nat /\ home[c] \in Nat
             /\ executed[c] \in Seq(1 .. MaxLines)
  BY <1>1, <1>3 DEF ShellTypeOK
<1>5. ASSUME NEW c \in Clients
      PROVE  /\ Len(executed[c]) \in Nat /\ (executed[c] = << >> <=> Len(executed[c]) = 0)
             /\ \A i \in 1 .. Len(executed[c]) : executed[c][i] \in 1 .. MaxLines
  BY <1>4, LenProperties, EmptySeq, ElementOfSeq
<1>6. ASSUME NEW c \in Clients PROVE Last(c) \in 0 .. MaxLines
  <2>1. executed[c] # << >> => Len(executed[c]) \in 1 .. Len(executed[c])
    BY <1>5
  <2> QED
    BY <1>3, <1>5, <2>1 DEF Last
<1> QED
  BY <1>1, <1>2, <1>3, <1>4, <1>5, <1>6

LEMMA ShellInitInv == SystemInit => ShellInv
<1> SUFFICES ASSUME SystemInit PROVE ShellInv
  OBVIOUS
<1>1. ServerInv
  BY ServerInit DEF SystemInit
<1>2. epoch = 1
  BY DEF SystemInit, Init
<1>3. ShellTypeOK
  <2>1. 0 \in 0 .. MaxEpochs /\ 0 \in 0 .. MaxLines /\ 0 \in 0 .. MaxLosses
    BY MaxEpochsAssumption, ShellBounds
  <2>2. << >> \in Seq(1 .. MaxLines)
    BY EmptySeq
  <2> QED
    BY <1>1, <2>1, <2>2 DEF SystemInit, ShellTypeOK, Labels, ServerInv
<1>4. ReferencesInv /\ SessionInv
  BY <1>2 DEF SystemInit, ReferencesInv, SessionInv, InSession
<1>5. LinesInv
  <2>1. \A c \in Clients : Last(c) = 0 /\ Len(executed[c]) = 0 /\ line[c] = 0 /\ pc[c] = "connect"
    BY EmptySeq DEF SystemInit, Last
  <2> QED
    BY <2>1 DEF SystemInit, LinesInv, Sorted, Progress, NoneSkipped, AtMostTwice
<1> QED
  BY <1>1, <1>3, <1>4, <1>5 DEF ShellInv

(* A move of the program counter. *)
LEMMA GotoMoves ==
  ASSUME ShellTypeOK, NEW c \in Clients, NEW here, NEW there \in Labels, Goto(c, here, there)
  PROVE  /\ pc[c] = here /\ pc'[c] = there /\ pc' \in [Clients -> Labels]
         /\ \A d \in Clients : d # c => pc'[d] = pc[d]
         /\ UNCHANGED serverVars
BY DEF Goto, ShellTypeOK

(* A call fails for want of a servant or with the loss of a connection. *)
LEMMA CallFailsProperties ==
  ASSUME ShellTypeOK, NEW c \in Clients, CallFails(c)
  PROVE  /\ losses' \in 0 .. MaxLosses /\ losses <= losses'
         /\ losses' = 0 => losses = 0 /\ ~Serving(serverPtr[c])
<1>1. losses \in 0 .. MaxLosses /\ losses \in Nat /\ MaxLosses \in Nat
  BY ClientTypes DEF ShellTypeOK
<1>2. CASE Serving(serverPtr[c])
  <2>1. losses < MaxLosses /\ losses' = losses + 1
    BY <1>2 DEF CallFails
  <2> QED
    BY <1>1, <2>1
<1>3. CASE ~Serving(serverPtr[c])
  BY <1>1, <1>3 DEF CallFails
<1> QED
  BY <1>2, <1>3

-----------------------------------------------------------------------------
(* The lines executed.                                                     *)

(* The last line executed is the greatest. *)
LEMMA LastIsGreatest ==
  ASSUME ShellTypeOK, NEW c \in Clients, Sorted(c), NEW i \in 1 .. Len(executed[c])
  PROVE  executed[c][i] <= Last(c)
<1>1. /\ Len(executed[c]) \in Nat /\ (executed[c] = << >> <=> Len(executed[c]) = 0)
  BY ClientTypes
<1>2. Len(executed[c]) \in 1 .. Len(executed[c]) /\ executed[c] # << >>
      /\ i <= Len(executed[c])
  BY <1>1
<1> QED
  BY <1>2 DEF Last, Sorted

LEMMA SameExecuted ==
  ASSUME NoneSkipped, AtMostTwice, executed' = executed
  PROVE  NoneSkipped' /\ AtMostTwice'
<1>1. NoneSkipped'
  BY DEF NoneSkipped
<1>2. AtMostTwice'
  <2> SUFFICES ASSUME NEW c \in Clients, NEW i \in 1 .. Len(executed'[c]),
                      NEW j \in 1 .. Len(executed'[c]), NEW m \in 1 .. Len(executed'[c]),
                      i < j, j < m
               PROVE  executed'[c][i] # executed'[c][j] \/ executed'[c][j] # executed'[c][m]
    BY DEF AtMostTwice
  <2> QED
    BY DEF AtMostTwice
<1> QED
  BY <1>1, <1>2

(* A step that neither types nor executes a line. *)
LEMMA QuietLines ==
  ASSUME LinesInv, NEW c \in Clients, Alone(c), <<pc[c], pc'[c]>> \in Quiet,
         UNCHANGED <<line, executed>>
  PROVE  LinesInv'
<1>1. ASSUME NEW d \in Clients PROVE Progress(d)'
  <2>1. Progress(d)
    BY DEF LinesInv
  <2>2. CASE d # c
    BY <2>1, <2>2 DEF Alone, Progress, Last, SentOnce
  <2>3. CASE d = c
    BY <2>1, <2>3 DEF Quiet, Progress, Last, SentOnce
  <2> QED
    BY <2>2, <2>3
<1>2. \A d \in Clients : Sorted(d)' /\ \A k \in 1 .. Last(d)' : Executed(d, k)'
  BY DEF LinesInv, Sorted, Last, Executed
<1>3. NoneSkipped' /\ AtMostTwice'
  <2>1. NoneSkipped /\ AtMostTwice /\ executed' = executed
    BY DEF LinesInv
  <2> QED
    BY <2>1, SameExecuted
<1> QED
  BY <1>1, <1>2, <1>3 DEF LinesInv

LEMMA TypeLineLines ==
  ASSUME LinesInv, ShellTypeOK, NEW c \in Clients, Alone(c), TypeLine(c)
  PROVE  LinesInv'
<1>1. pc[c] = "prompt" /\ pc'[c] = "call" /\ line'[c] = line[c] + 1 /\ executed' = executed
  BY GotoMoves DEF TypeLine, Labels, ShellTypeOK
<1>2. line[c] \in Nat /\ Last(c) \in Nat /\ Last(c) = line[c] /\ Last(c)' = Last(c)
  BY <1>1, ClientTypes DEF LinesInv, Progress, Last
<1>3. SentOnce(c)'
  <2>1. \A i \in 1 .. Len(executed[c]) : executed[c][i] <= line[c] /\ executed[c][i] \in Nat
    BY <1>2, LastIsGreatest, ClientTypes DEF LinesInv
  <2>2. \A i \in 1 .. Len(executed[c]) : executed[c][i] # line[c] + 1
    BY <1>2, <2>1
  <2> QED
    BY <1>1, <2>2 DEF SentOnce
<1>4. Progress(c)'
  BY <1>1, <1>2, <1>3 DEF Progress
<1>5. ASSUME NEW d \in Clients, d # c PROVE Progress(d)'
  BY <1>1, <1>5 DEF LinesInv, Alone, Progress, Last, SentOnce
<1>6. \A d \in Clients : Sorted(d)' /\ \A k \in 1 .. Last(d)' : Executed(d, k)'
  BY <1>1 DEF LinesInv, Sorted, Last, Executed
<1>7. NoneSkipped' /\ AtMostTwice'
  <2>1. NoneSkipped /\ AtMostTwice /\ executed' = executed
    BY <1>1 DEF LinesInv
  <2> QED
    BY <2>1, SameExecuted
<1> QED
  BY <1>4, <1>5, <1>6, <1>7 DEF LinesInv

(* The line is executed, in the call or in the retry: it is the one after  *)
(* the last line executed, or that line once more.                         *)
LEMMA RunAndReadLines ==
  ASSUME LinesInv, ShellTypeOK, NEW c \in Clients, Alone(c), RunAndRead(c)
  PROVE  LinesInv' /\ executed' \in [Clients -> Seq(1 .. MaxLines)]
<1> DEFINE e == executed[c]
           n == Len(executed[c])
           l == line[c]
<1>1. /\ \/ pc[c] = "call" /\ pc'[c] = "reply"
         \/ pc[c] = "recall" /\ pc'[c] = "rereply"
      /\ line' = line
      /\ executed' = [executed EXCEPT ![c] = Append(executed[c], line[c])]
  BY GotoMoves DEF RunAndRead, Labels
<1>2. /\ executed \in [Clients -> Seq(1 .. MaxLines)] /\ l \in 1 .. MaxLines
      /\ e \in Seq(1 .. MaxLines) /\ n \in Nat /\ (e = << >> <=> n = 0)
      /\ \A i \in 1 .. n : e[i] \in Nat
      /\ Last(c) \in Nat
  <2>1. executed \in [Clients -> Seq(1 .. MaxLines)] /\ l \in 0 .. MaxLines
    BY DEF ShellTypeOK
  <2>2. MaxLines \in Nat /\ e \in Seq(1 .. MaxLines) /\ n \in Nat /\ (e = << >> <=> n = 0)
    BY ClientTypes
  <2>3. Last(c) \in 0 .. MaxLines /\ \A i \in 1 .. n : e[i] \in 1 .. MaxLines
    BY ClientTypes
  <2>4. l >= 1
    BY <1>1 DEF LinesInv, Progress
  <2> QED
    BY <2>1, <2>2, <2>3, <2>4
<1>3. Last(c) = l - 1 \/ Last(c) = l
  BY <1>1 DEF LinesInv, Progress
<1>4. SentOnce(c) /\ Sorted(c)
  BY <1>1 DEF LinesInv, Progress
<1>5. \A i \in 1 .. n : e[i] <= Last(c) /\ e[i] <= l
  <2>1. \A i \in 1 .. n : e[i] <= Last(c)
    BY <1>4, LastIsGreatest
  <2> QED
    BY <1>2, <1>3, <2>1
<1>6. /\ executed' \in [Clients -> Seq(1 .. MaxLines)]
      /\ executed'[c] \in Seq(1 .. MaxLines) /\ Len(executed'[c]) = n + 1
      /\ executed'[c] # << >>
      /\ \A i \in 1 .. n : executed'[c][i] = e[i]
      /\ executed'[c][n + 1] = l
      /\ \A d \in Clients : d # c => executed'[d] = executed[d]
  <2>1. executed'[c] = Append(e, l)
    BY <1>1, <1>2
  <2>2. /\ Append(e, l) \in Seq(1 .. MaxLines) /\ Len(Append(e, l)) = n + 1
        /\ \A i \in 1 .. n : Append(e, l)[i] = e[i]
        /\ Append(e, l)[n + 1] = l
    BY <1>2, AppendProperties
  <2>3. Append(e, l) # << >>
    BY <1>2, <2>2, EmptySeq
  <2> QED
    BY <1>1, <1>2, <2>1, <2>2, <2>3
<1>7. Last(c)' = l
  BY <1>6 DEF Last
<1>8. Sorted(c)'
  <2> SUFFICES ASSUME NEW i \in 1 .. n + 1, NEW j \in 1 .. n + 1, i <= j
               PROVE  executed'[c][i] <= executed'[c][j]
    BY <1>6 DEF Sorted
  <2>1. CASE j \in 1 .. n
    <3>1. i \in 1 .. n
      BY <1>2, <2>1
    <3> QED
      BY <1>4, <1>6, <2>1, <3>1 DEF Sorted
  <2>2. CASE j = n + 1
    <3>1. i \in 1 .. n \/ i = n + 1
      BY <1>2
    <3> QED
      BY <1>2, <1>5, <1>6, <2>2, <3>1
  <2> QED
    BY <1>2, <2>1, <2>2
<1>9. Progress(c)'
  <2>1. pc[c] = "call" => SentOnce(c)'
    <3> SUFFICES ASSUME pc[c] = "call" PROVE SentOnce(c)'
      OBVIOUS
    <3>1. Last(c) = l - 1
      BY DEF LinesInv, Progress
    <3>2. \A i \in 1 .. n : e[i] # l
      BY <1>2, <1>5, <3>1
    <3>3. \A i \in 1 .. n + 1 : executed'[c][i] = l => i = n + 1
      BY <1>2, <1>6, <3>2
    <3> QED
      BY <1>1, <1>6, <3>3 DEF SentOnce
  <2> QED
    BY <1>1, <1>2, <1>7, <2>1 DEF Progress
<1>10. \A k \in 1 .. Last(c)' : Executed(c, k)'
  <2> SUFFICES ASSUME NEW k \in 1 .. l PROVE \E i \in 1 .. n + 1 : executed'[c][i] = k
    BY <1>6, <1>7 DEF Executed
  <2>1. CASE k = l
    BY <1>2, <1>6, <2>1
  <2>2. CASE k # l
    <3>1. k \in 1 .. Last(c)
      BY <1>2, <1>3, <2>2
    <3>2. PICK i \in 1 .. n : e[i] = k
      BY <3>1 DEF LinesInv, Executed
    <3>3. i \in 1 .. n + 1
      BY <1>2
    <3> QED
      BY <1>6, <3>2, <3>3
  <2> QED
    BY <2>1, <2>2
<1>11. ASSUME NEW d \in Clients, d # c
       PROVE  Sorted(d)' /\ Progress(d)' /\ \A k \in 1 .. Last(d)' : Executed(d, k)'
  <2>1. executed'[d] = executed[d] /\ pc'[d] = pc[d] /\ line'[d] = line[d]
    BY <1>1, <1>6, <1>11 DEF Alone
  <2>2. Last(d)' = Last(d) /\ (SentOnce(d) => SentOnce(d)')
    BY <2>1 DEF Last, SentOnce
  <2>3. Sorted(d) /\ Progress(d) /\ \A k \in 1 .. Last(d) : Executed(d, k)
    BY DEF LinesInv
  <2>4. Sorted(d)'
    BY <2>1, <2>3 DEF Sorted
  <2>5. Progress(d)'
    BY <2>1, <2>2, <2>3 DEF Progress
  <2>6. \A k \in 1 .. Last(d)' : Executed(d, k)'
    BY <2>1, <2>2, <2>3 DEF Executed
  <2> QED
    BY <2>4, <2>5, <2>6
<1>12. NoneSkipped'
  <2>1. ASSUME NEW i \in 1 .. n + 1
        PROVE  executed'[c][i] \in IF i = 1 THEN {1}
                                   ELSE {executed'[c][i - 1], executed'[c][i - 1] + 1}
    <3>1. CASE i \in 1 .. n
      <4>1. i # 1 => i - 1 \in 1 .. n
        BY <1>2, <3>1
      <4> QED
        BY <1>6, <3>1, <4>1 DEF LinesInv, NoneSkipped
    <3>2. CASE i = n + 1 /\ n = 0
      <4>1. Last(c) = 0
        BY <1>2, <3>2 DEF Last
      <4>2. l = 1
        BY <1>2, <1>3, <4>1
      <4> QED
        BY <1>6, <3>2, <4>2
    <3>3. CASE i = n + 1 /\ n # 0
      <4>1. Last(c) = e[n] /\ n \in 1 .. n /\ i - 1 = n /\ i # 1
        BY <1>2, <3>3 DEF Last
      <4>2. l = e[n] \/ l = e[n] + 1
        BY <1>2, <1>3, <4>1
      <4> QED
        BY <1>6, <3>3, <4>1, <4>2
    <3> QED
      BY <1>2, <3>1, <3>2, <3>3
  <2> QED
    BY <1>6, <2>1 DEF LinesInv, NoneSkipped
<1>13. AtMostTwice'
  <2>1. ASSUME NEW i \in 1 .. n + 1, NEW j \in 1 .. n + 1, NEW m \in 1 .. n + 1,
               i < j, j < m, executed'[c][i] = executed'[c][j],
               executed'[c][j] = executed'[c][m]
        PROVE  FALSE
    <3>1. i \in 1 .. n /\ j \in 1 .. n /\ i # j
      BY <1>2, <2>1
    <3>2. CASE m \in 1 .. n
      <4>1. e[i] # e[j] \/ e[j] # e[m]
        BY <2>1, <3>1, <3>2 DEF LinesInv, AtMostTwice
      <4>2. executed'[c][i] = e[i] /\ executed'[c][j] = e[j] /\ executed'[c][m] = e[m]
        BY <1>6, <3>1, <3>2
      <4> QED
        BY <2>1, <4>1, <4>2
    <3>3. CASE m = n + 1
      BY <1>4, <1>6, <2>1, <3>1, <3>3 DEF SentOnce
    <3> QED
      BY <1>2, <3>2, <3>3
  <2>2. ASSUME NEW d \in Clients, NEW i \in 1 .. Len(executed'[d]),
               NEW j \in 1 .. Len(executed'[d]), NEW m \in 1 .. Len(executed'[d]),
               i < j, j < m, executed'[d][i] = executed'[d][j],
               executed'[d][j] = executed'[d][m]
        PROVE  FALSE
    <3>1. CASE d = c
      BY <1>6, <2>1, <2>2, <3>1
    <3>2. CASE d # c
      <4>1. executed'[d] = executed[d]
        BY <1>6, <3>2
      <4>2. AtMostTwice
        BY DEF LinesInv
      <4> QED
        BY <2>2, <4>1, <4>2 DEF AtMostTwice
    <3> QED
      BY <3>1, <3>2
  <2> QED
    BY <2>2 DEF AtMostTwice
<1> QED
  BY <1>6, <1>8, <1>9, <1>10, <1>11, <1>12, <1>13 DEF LinesInv

-----------------------------------------------------------------------------
(* References and callbacks.                                               *)

(* What a step of coshell c may do to the session of others, in a process  *)
(* that runs and to which no connection was lost.                          *)
Harmless(c) ==
  /\ serverPtr'[c] = epoch => Serving(epoch) /\ pc'[c] # "rebind"
  /\ serverPtr[c] = epoch => serverPtr'[c] = epoch
  /\ \/ callback' = callback
     \/ callback' = {c} /\ serverPtr'[c] = epoch /\ home'[c] = epoch
     \/ callback' = {} /\ serverPtr'[c] = epoch /\ ~InSession(c)'
  /\ c \in callback' => serverPtr'[c] = epoch /\ pc'[c] \notin {"connect", "register", "ended"}
  /\ InSession(c)' => \/ InSession(c) /\ home'[c] = home[c]
                      \/ callback' = {c} /\ home'[c] = epoch

Open == up /\ losses = 0 /\ ~orbShut

LEMMA HarmlessSession ==
  ASSUME SessionInv, ShellTypeOK, NEW c \in Clients, Alone(c),
         Open' => Open /\ Harmless(c)
  PROVE  SessionInv'
<1> SUFFICES ASSUME Open' PROVE
       /\ \A d \in Clients : serverPtr'[d] = epoch' => Serving(epoch)' /\ pc'[d] # "rebind"
       /\ \A d \in callback' :
            serverPtr'[d] = epoch' /\ pc'[d] \notin {"connect", "register", "ended"}
       /\ \A d \in Clients : InSession(d)' =>
            \/ d \in callback' /\ home'[d] = epoch'
            \/ home'[d] # epoch' /\ d \notin callback'
            \/ \E a \in Clients \ {d} : serverPtr'[a] = epoch'
  BY DEF SessionInv, Open
<1>1. /\ \A d \in Clients : serverPtr[d] = epoch => Serving(epoch) /\ pc[d] # "rebind"
      /\ \A d \in callback :
           serverPtr[d] = epoch /\ pc[d] \notin {"connect", "register", "ended"}
      /\ \A d \in Clients : InSession(d) =>
           \/ d \in callback /\ home[d] = epoch
           \/ home[d] # epoch /\ d \notin callback
           \/ \E a \in Clients \ {d} : serverPtr[a] = epoch
  BY DEF SessionInv, Open
<1>2. epoch' = epoch /\ Serving(epoch)' = Serving(epoch)
  BY DEF Alone, serverVars, orbVars, Serving
<1>3. Harmless(c) /\ callback \subseteq Clients
  BY DEF ShellTypeOK
<1>4. \A d \in Clients : serverPtr[d] = epoch => serverPtr'[d] = epoch
  BY <1>3 DEF Alone, Harmless
<1>5. ASSUME NEW d \in Clients, serverPtr'[d] = epoch
      PROVE  Serving(epoch) /\ pc'[d] # "rebind"
  BY <1>1, <1>3, <1>5 DEF Alone, Harmless
<1>6. ASSUME NEW d \in callback'
      PROVE  serverPtr'[d] = epoch /\ pc'[d] \notin {"connect", "register", "ended"}
  <2>1. CASE d = c
    BY <1>3, <1>6, <2>1 DEF Harmless
  <2>2. CASE d # c
    <3>1. d \in callback
      BY <1>3, <1>6, <2>2 DEF Harmless
    <3> QED
      BY <1>1, <1>3, <2>2, <3>1 DEF Alone
  <2> QED
    BY <2>1, <2>2
<1>7. ASSUME NEW d \in Clients, InSession(d)'
      PROVE  \/ d \in callback' /\ home'[d] = epoch
             \/ home'[d] # epoch /\ d \notin callback'
             \/ \E a \in Clients \ {d} : serverPtr'[a] = epoch
  <2>1. CASE d = c
    BY <1>1, <1>3, <1>4, <1>7, <2>1 DEF Harmless
  <2>2. CASE d # c
    <3>1. InSession(d) /\ home'[d] = home[d]
      BY <1>7, <2>2 DEF InSession, Alone
    <3> QED
      BY <1>1, <1>3, <1>4, <2>2, <3>1 DEF Harmless
  <2> QED
    BY <2>1, <2>2
<1> QED
  BY <1>2, <1>5, <1>6, <1>7

(* A step after which nothing but the place of c has changed. *)
LEMMA PlaceChanged ==
  ASSUME ShellInv, NEW c \in Clients, Alone(c), <<pc[c], pc'[c]>> \in Quiet \cup
           {<<"prompt", "call">>, <<"call", "reply">>, <<"recall", "rereply">>},
         pc[c] \notin {"connect", "register"}, pc'[c] \notin {"rebind", "ended"},
         UNCHANGED <<serverPtr, callback, home, losses>>
  PROVE  ReferencesInv' /\ SessionInv'
<1>1. epoch' = epoch /\ Open' = Open
  BY DEF Alone, serverVars, orbVars, Open
<1>2. ASSUME NEW d \in Clients PROVE pc'[d] = "connect" => pc[d] = "connect"
  BY DEF Alone, Quiet
<1>3. ReferencesInv'
  BY <1>1, <1>2 DEF ShellInv, ReferencesInv
<1>4. Open => Harmless(c)
  BY DEF ShellInv, SessionInv, Open, Harmless, InSession, Quiet
<1> QED
  BY <1>1, <1>3, <1>4, HarmlessSession DEF ShellInv

-----------------------------------------------------------------------------
(* The steps of a coshell.                                                 *)

(* What remains to be shown of a step of coshell c. *)
LEMMA ClientInv ==
  ASSUME ShellInv, NEW c \in Clients, Alone(c),
         serverPtr' \in [Clients -> 0 .. MaxEpochs], line' \in [Clients -> 0 .. MaxLines],
         callback' \subseteq Clients, home' \in [Clients -> 0 .. MaxEpochs],
         losses' \in 0 .. MaxLosses, executed' \in [Clients -> Seq(1 .. MaxLines)],
         LinesInv', ReferencesInv', SessionInv'
  PROVE  ShellInv'
<1>1. ServerInv'
  BY ServerStutter DEF ShellInv, Alone
<1>2. ShellTypeOK'
  BY <1>1 DEF ServerInv, ShellTypeOK, Alone
<1> QED
  BY <1>1, <1>2 DEF ShellInv

LEMMA ConnectStep == ASSUME ShellInv, NEW c \in Clients, Connect(c) PROVE ShellInv'
<1>1. PICK ref \in ConnectToServant :
        \/ /\ ref # 0 /\ Serving(ref)
           /\ Goto(c, "connect", "register") /\ serverPtr' = [serverPtr EXCEPT ![c] = ref]
        \/ Goto(c, "connect", "ended") /\ UNCHANGED serverPtr
  BY DEF Connect
<1>2. UNCHANGED <<line, callback, home, losses, executed>>
  BY DEF Connect
<1>3. ref \in 0 .. MaxEpochs /\ epoch \in Nat /\ epoch # 0
  BY ClientTypes DEF ShellInv, ConnectToServant
<1>4. /\ pc[c] = "connect" /\ pc'[c] \in {"register", "ended"} /\ pc' \in [Clients -> Labels]
      /\ \A d \in Clients : d # c => pc'[d] = pc[d]
      /\ UNCHANGED serverVars
  BY <1>1, GotoMoves DEF ShellInv, Labels
<1>5. /\ serverPtr' \in [Clients -> 0 .. MaxEpochs]
      /\ \A d \in Clients : d # c => serverPtr'[d] = serverPtr[d]
      /\ serverPtr[c] = 0
      /\ serverPtr'[c] = 0 \/ (serverPtr'[c] = epoch /\ Serving(epoch))
  BY <1>1, <1>3, <1>4 DEF ShellInv, ShellTypeOK, ReferencesInv, Serving
<1>6. Alone(c)
  BY <1>2, <1>4, <1>5 DEF Alone
<1>7. LinesInv'
  BY <1>2, <1>4, <1>6, QuietLines DEF ShellInv, Quiet
<1>8. epoch' = epoch /\ Open' = Open
  BY <1>2, <1>4 DEF serverVars, orbVars, Open
<1>9. ReferencesInv'
  <2>1. \A d \in Clients : serverPtr'[d] <= epoch
    BY <1>3, <1>5 DEF ShellInv, ReferencesInv
  <2>2. \A d \in Clients : pc'[d] = "connect" => d # c
    BY <1>4
  <2> QED
    BY <1>2, <1>4, <1>5, <1>8, <2>1, <2>2 DEF ShellInv, ReferencesInv
<1>10. Open => Harmless(c)
  <2>1. Open => c \notin callback
    BY <1>4 DEF ShellInv, SessionInv, Open
  <2>2. ~InSession(c)'
    BY <1>4 DEF InSession
  <2> QED
    BY <1>2, <1>3, <1>4, <1>5, <2>1, <2>2 DEF Harmless
<1>11. SessionInv'
  BY <1>6, <1>8, <1>10, HarmlessSession DEF ShellInv
<1> QED
  BY <1>2, <1>5, <1>6, <1>7, <1>9, <1>11, ClientInv DEF ShellInv, ShellTypeOK

LEMMA RegisterStep == ASSUME ShellInv, NEW c \in Clients, Register(c) PROVE ShellInv'
<1>1. UNCHANGED <<serverPtr, line, executed>>
  BY DEF Register
<1>2. /\ pc[c] = "register" /\ pc'[c] \in {"prompt", "unwind"} /\ pc' \in [Clients -> Labels]
      /\ \A d \in Clients : d # c => pc'[d] = pc[d]
      /\ UNCHANGED serverVars
  <2>1. PICK there \in {"prompt", "unwind"} : Goto(c, "register", there)
    BY DEF Register
  <2> QED
    BY <2>1, GotoMoves DEF ShellInv, Labels
<1>3. \/ /\ Serving(serverPtr[c]) /\ pc'[c] = "prompt" /\ callback' = {c}
         /\ home' = [home EXCEPT ![c] = epoch] /\ losses' = losses
      \/ /\ pc'[c] = "unwind" /\ callback' \in {callback, {c}} /\ home' = home
         /\ losses' \in 0 .. MaxLosses /\ losses <= losses'
         /\ losses' = 0 => losses = 0 /\ callback' = callback
  <2>1. CASE Goto(c, "register", "prompt") /\ Serving(serverPtr[c]) /\ callback' = {c}
             /\ home' = [home EXCEPT ![c] = epoch] /\ losses' = losses
    BY <2>1, GotoMoves DEF ShellInv, Labels
  <2>2. CASE /\ Goto(c, "register", "unwind") /\ CallFails(c) /\ UNCHANGED home
             /\ callback' \in {callback} \cup IF Serving(serverPtr[c]) THEN {{c}} ELSE {}
    BY <2>2, GotoMoves, CallFailsProperties DEF ShellInv, Labels
  <2> QED
    BY <2>1, <2>2 DEF Register
<1>4. /\ home' \in [Clients -> 0 .. MaxEpochs] /\ \A d \in Clients : d # c => home'[d] = home[d]
      /\ home'[c] = epoch \/ home'[c] = home[c]
      /\ home' # home => home'[c] = epoch
      /\ epoch \in Nat
  <2>1. epoch \in 0 .. MaxEpochs /\ home \in [Clients -> 0 .. MaxEpochs] /\ epoch \in Nat
    BY ClientTypes DEF ShellInv, ShellTypeOK
  <2> QED
    BY <1>3, <2>1
<1>5. Alone(c)
  BY <1>1, <1>2, <1>4 DEF Alone
<1>6. LinesInv'
  BY <1>1, <1>2, <1>5, QuietLines DEF ShellInv, Quiet
<1>7. epoch' = epoch /\ UNCHANGED <<up, orbShut>>
  BY <1>2 DEF serverVars, orbVars
<1>8. ReferencesInv'
  BY <1>1, <1>2, <1>4, <1>7 DEF ShellInv, ReferencesInv
<1>9. Open' => Open /\ Harmless(c)
  <2> SUFFICES ASSUME Open' PROVE Open /\ Harmless(c)
    OBVIOUS
  <2>1. Open /\ losses' = 0
    BY <1>3, <1>7 DEF Open
  <2>2. /\ c \notin callback /\ ~InSession(c)
        /\ serverPtr[c] = epoch => Serving(epoch)
    BY <1>2, <2>1 DEF ShellInv, SessionInv, Open, InSession
  <2>3. CASE pc'[c] = "prompt"
    <3>1. serverPtr[c] = epoch /\ callback' = {c} /\ home'[c] = epoch
      <4>1. Serving(serverPtr[c]) /\ callback' = {c} /\ home' = [home EXCEPT ![c] = epoch]
        BY <1>3, <2>3
      <4> QED
        BY <4>1 DEF Serving, ShellInv, ShellTypeOK
    <3> QED
      <4>1. serverPtr'[c] = epoch /\ Serving(epoch) /\ pc'[c] = "prompt"
        BY <1>1, <2>2, <2>3, <3>1
      <4> QED
        BY <2>1, <3>1, <4>1 DEF Harmless
  <2>4. CASE pc'[c] = "unwind"
    <3>1. callback' = callback
      BY <1>3, <2>1, <2>4
    <3> QED
      BY <1>1, <2>1, <2>2, <2>4, <3>1 DEF Harmless, InSession
  <2> QED
    BY <1>2, <2>1, <2>3, <2>4
<1>10. SessionInv'
  BY <1>5, <1>9, HarmlessSession DEF ShellInv
<1>11. callback' \subseteq Clients /\ losses' \in 0 .. MaxLosses
  BY <1>3 DEF ShellInv, ShellTypeOK
<1> QED
  BY <1>1, <1>4, <1>5, <1>6, <1>8, <1>10, <1>11, ClientInv DEF ShellInv, ShellTypeOK

LEMMA TypeLineStep == ASSUME ShellInv, NEW c \in Clients, TypeLine(c) PROVE ShellInv'
<1>1. /\ Goto(c, "prompt", "call") /\ line[c] < MaxLines
      /\ line' = [line EXCEPT ![c] = line[c] + 1]
      /\ UNCHANGED <<serverPtr, callback, home, losses, executed>>
  BY DEF TypeLine
<1>2. /\ pc[c] = "prompt" /\ pc'[c] = "call" /\ pc' \in [Clients -> Labels]
      /\ \A d \in Clients : d # c => pc'[d] = pc[d]
      /\ UNCHANGED serverVars
  BY <1>1, GotoMoves DEF ShellInv, Labels
<1>3. line' \in [Clients -> 0 .. MaxLines] /\ \A d \in Clients : d # c => line'[d] = line[d]
  <2>1. line \in [Clients -> 0 .. MaxLines] /\ line[c] + 1 \in 0 .. MaxLines
    BY <1>1, ClientTypes DEF ShellInv, ShellTypeOK
  <2> QED
    BY <1>1, <2>1
<1>4. Alone(c)
  BY <1>1, <1>2, <1>3 DEF Alone
<1>5. LinesInv'
  BY <1>4, TypeLineLines DEF ShellInv
<1>6. ReferencesInv' /\ SessionInv'
  BY <1>1, <1>2, <1>4, PlaceChanged
<1> QED
  BY <1>1, <1>3, <1>4, <1>5, <1>6, ClientInv DEF ShellInv, ShellTypeOK

LEMMA RunAndReadStep == ASSUME ShellInv, NEW c \in Clients, RunAndRead(c) PROVE ShellInv'
<1>1. /\ Goto(c, "call", "reply") \/ Goto(c, "recall", "rereply")
      /\ executed' = [executed EXCEPT ![c] = Append(executed[c], line[c])]
      /\ UNCHANGED <<serverPtr, line, callback, home, losses>>
  BY DEF RunAndRead
<1>2. /\ <<pc[c], pc'[c]>> \in {<<"call", "reply">>, <<"recall", "rereply">>}
      /\ pc' \in [Clients -> Labels]
      /\ \A d \in Clients : d # c => pc'[d] = pc[d]
      /\ UNCHANGED serverVars
  BY <1>1, GotoMoves DEF ShellInv, Labels
<1>3. \A d \in Clients : d # c => executed'[d] = executed[d]
  BY <1>1 DEF ShellInv, ShellTypeOK
<1>4. Alone(c)
  BY <1>1, <1>2, <1>3 DEF Alone
<1>5. LinesInv' /\ executed' \in [Clients -> Seq(1 .. MaxLines)]
  BY <1>4, RunAndReadLines DEF ShellInv
<1>6. ReferencesInv' /\ SessionInv'
  BY <1>1, <1>2, <1>4, PlaceChanged
<1> QED
  BY <1>1, <1>4, <1>5, <1>6, ClientInv DEF ShellInv, ShellTypeOK

(* A quiet step that only changes the place of c. *)
LEMMA PlaceStep ==
  ASSUME ShellInv, NEW c \in Clients, Alone(c), <<pc[c], pc'[c]>> \in Quiet,
         pc[c] \notin {"connect", "register"}, pc'[c] \notin {"rebind", "ended"},
         UNCHANGED <<serverPtr, line, callback, home, losses, executed>>
  PROVE  ShellInv'
<1>1. LinesInv'
  BY QuietLines DEF ShellInv
<1>2. ReferencesInv' /\ SessionInv'
  BY PlaceChanged
<1> QED
  BY <1>1, <1>2, ClientInv DEF ShellInv, ShellTypeOK

LEMMA ExitStep == ASSUME ShellInv, NEW c \in Clients, Exit(c) PROVE ShellInv'
<1>1. /\ pc[c] = "prompt" /\ pc'[c] = "destroy"
      /\ UNCHANGED <<serverPtr, line, callback, home, losses, executed>> /\ Alone(c)
  BY GotoMoves DEF Exit, ShellInv, Labels, Alone
<1> QED
  BY <1>1, PlaceStep DEF Quiet

LEMMA OutputStep == ASSUME ShellInv, NEW c \in Clients, Output(c) PROVE ShellInv'
<1>1. /\ <<pc[c], pc'[c]>> \in {<<"reply", "prompt">>, <<"rereply", "prompt">>}
      /\ UNCHANGED <<serverPtr, line, callback, home, losses, executed>> /\ Alone(c)
  BY GotoMoves DEF Output, ShellInv, Labels, Alone
<1> QED
  BY <1>1, PlaceStep DEF Quiet

LEMMA PingDestroyedStep == ASSUME ShellInv, NEW c \in Clients, PingDestroyed(c) PROVE ShellInv'
<1>1. /\ <<pc[c], pc'[c]>> \in {<<"destroy", "terminated">>, <<"unwind", "terminated">>}
      /\ UNCHANGED <<serverPtr, line, callback, home, losses, executed>> /\ Alone(c)
  BY GotoMoves DEF PingDestroyed, ShellInv, Labels, Alone
<1> QED
  BY <1>1, PlaceStep DEF Quiet

(* The call fails, once or twice.  A coshell that knows a process that     *)
(* serves does not rebind unless a connection was lost.                    *)
LEMMA FailureStep ==
  ASSUME ShellInv, NEW c \in Clients, CallRaises(c) \/ RetryRaises(c)
  PROVE  ShellInv'
<1>1. /\ CallFails(c) /\ UNCHANGED <<serverPtr, line, callback, home, executed>>
      /\ <<pc[c], pc'[c]>> \in {<<"call", "rebind">>, <<"reply", "rebind">>,
                                <<"recall", "unwind">>, <<"rereply", "unwind">>}
      /\ Alone(c)
  BY GotoMoves DEF CallRaises, RetryRaises, ShellInv, Labels, Alone
<1>2. /\ losses' \in 0 .. MaxLosses /\ losses <= losses'
      /\ losses' = 0 => losses = 0 /\ ~Serving(serverPtr[c])
  BY <1>1, CallFailsProperties DEF ShellInv
<1>3. epoch' = epoch /\ UNCHANGED <<up, orbShut>>
  BY <1>1 DEF Alone, serverVars, orbVars
<1>4. LinesInv'
  BY <1>1, QuietLines DEF ShellInv, Quiet
<1>5. ReferencesInv'
  BY <1>1, <1>3 DEF ShellInv, ReferencesInv, Alone
<1>6. Open' => Open /\ Harmless(c)
  <2> SUFFICES ASSUME Open' PROVE Open /\ Harmless(c)
    OBVIOUS
  <2>1. Open /\ ~Serving(serverPtr[c])
    BY <1>2, <1>3 DEF Open
  <2>2. serverPtr[c] # epoch /\ c \notin callback
    BY <2>1 DEF ShellInv, SessionInv, Open
  <2>3. InSession(c)
    BY <1>1 DEF InSession
  <2> QED
    BY <1>1, <2>1, <2>2, <2>3 DEF Harmless
<1>7. SessionInv'
  BY <1>1, <1>6, HarmlessSession DEF ShellInv
<1> QED
  BY <1>1, <1>2, <1>4, <1>5, <1>7, ClientInv DEF ShellInv, ShellTypeOK

LEMMA RebindStep == ASSUME ShellInv, NEW c \in Clients, Rebind(c) PROVE ShellInv'
<1>1. /\ UNCHANGED <<line, callback, home, losses, executed>>
      /\ \/ /\ Narrows(Resolved) /\ Goto(c, "rebind", "recall")
            /\ serverPtr' = [serverPtr EXCEPT ![c] = Resolved]
         \/ Goto(c, "rebind", "unwind") /\ UNCHANGED serverPtr
  BY DEF Rebind
<1>2. /\ pc[c] = "rebind" /\ pc'[c] \in {"recall", "unwind"} /\ pc' \in [Clients -> Labels]
      /\ \A d \in Clients : d # c => pc'[d] = pc[d]
      /\ UNCHANGED serverVars
  BY <1>1, GotoMoves DEF ShellInv, Labels
<1>3. Resolved \in 0 .. MaxEpochs /\ epoch \in Nat /\ epoch # 0
  BY ClientTypes DEF ShellInv
<1>4. /\ serverPtr' \in [Clients -> 0 .. MaxEpochs]
      /\ \A d \in Clients : d # c => serverPtr'[d] = serverPtr[d]
      /\ \/ serverPtr'[c] = serverPtr[c]
         \/ serverPtr'[c] = 0
         \/ serverPtr'[c] = epoch /\ Serving(epoch)
  BY <1>1, <1>3 DEF ShellInv, ShellTypeOK, Narrows, Serving
<1>5. Alone(c)
  BY <1>1, <1>2, <1>4 DEF Alone
<1>6. LinesInv'
  BY <1>1, <1>2, <1>5, QuietLines DEF ShellInv, Quiet
<1>7. epoch' = epoch /\ Open' = Open
  BY <1>1, <1>2 DEF serverVars, orbVars, Open
<1>8. ReferencesInv'
  <2>1. \A d \in Clients : serverPtr'[d] <= epoch
    BY <1>3, <1>4 DEF ShellInv, ReferencesInv
  <2>2. \A d \in Clients : pc'[d] = "connect" => d # c
    BY <1>2
  <2> QED
    BY <1>1, <1>2, <1>4, <1>7, <2>1, <2>2 DEF ShellInv, ReferencesInv
<1>9. Open => Harmless(c)
  <2>1. Open => serverPtr[c] # epoch /\ c \notin callback
    BY <1>2 DEF ShellInv, SessionInv, Open
  <2>2. InSession(c)
    BY <1>2 DEF InSession
  <2> QED
    BY <1>1, <1>2, <1>3, <1>4, <2>1, <2>2 DEF Harmless
<1>10. SessionInv'
  BY <1>5, <1>7, <1>9, HarmlessSession DEF ShellInv
<1> QED
  BY <1>1, <1>4, <1>5, <1>6, <1>8, <1>10, ClientInv DEF ShellInv, ShellTypeOK

LEMMA UnregisterStep == ASSUME ShellInv, NEW c \in Clients, Unregister(c) PROVE ShellInv'
<1>1. UNCHANGED <<serverPtr, line, home, executed>>
  BY DEF Unregister
<1>2. \/ /\ Serving(serverPtr[c]) /\ losses' = losses /\ callback' = {}
         /\ Goto(c, "destroy", "ended") \/ Goto(c, "unwind", "ended")
      \/ /\ CallFails(c)
         /\ \/ Goto(c, "destroy", "ended")
            \/ Goto(c, "destroy", "terminated")
            \/ Goto(c, "unwind", "terminated")
         /\ callback' \in {callback} \cup IF Serving(serverPtr[c]) THEN {{}} ELSE {}
  BY DEF Unregister
<1>3. /\ <<pc[c], pc'[c]>> \in {"destroy", "unwind"} \X {"ended", "terminated"}
      /\ Alone(c)
  <2>1. PICK here \in {"destroy", "unwind"}, there \in {"ended", "terminated"} :
           Goto(c, here, there)
    BY <1>2
  <2>2. /\ pc[c] = here /\ pc'[c] = there /\ pc' \in [Clients -> Labels]
        /\ \A d \in Clients : d # c => pc'[d] = pc[d]
        /\ UNCHANGED serverVars
    BY <2>1, GotoMoves DEF ShellInv, Labels
  <2> QED
    BY <1>1, <2>2 DEF Alone
<1>4. /\ losses' \in 0 .. MaxLosses /\ losses <= losses' /\ callback' \in {callback, {}}
      /\ losses' = 0 => /\ losses = 0
                        /\ \/ Serving(serverPtr[c]) /\ callback' = {}
                           \/ ~Serving(serverPtr[c]) /\ callback' = callback
  <2>1. losses \in 0 .. MaxLosses /\ losses <= losses
    BY ClientTypes DEF ShellInv, ShellTypeOK
  <2> QED
    BY <1>2, <2>1, CallFailsProperties DEF ShellInv
<1>5. epoch' = epoch /\ UNCHANGED <<up, orbShut>>
  BY <1>3 DEF Alone, serverVars, orbVars
<1>6. LinesInv'
  BY <1>1, <1>3, QuietLines DEF ShellInv, Quiet
<1>7. ReferencesInv'
  BY <1>1, <1>3, <1>5 DEF ShellInv, ReferencesInv, Alone
<1>8. Open' => Open /\ Harmless(c)
  <2> SUFFICES ASSUME Open' PROVE Open /\ Harmless(c)
    OBVIOUS
  <2>1. Open /\ losses' = 0
    BY <1>4, <1>5 DEF Open
  <2>2. ~InSession(c)' /\ pc'[c] # "rebind"
    BY <1>3 DEF InSession
  <2>3. /\ serverPtr[c] = epoch => Serving(epoch)
        /\ c \in callback => serverPtr[c] = epoch
    BY <2>1 DEF ShellInv, SessionInv, Open
  <2>4. CASE Serving(serverPtr[c]) /\ callback' = {}
    <3>1. serverPtr[c] = epoch
      BY <2>4 DEF Serving
    <3> QED
      BY <1>1, <2>1, <2>2, <2>3, <2>4, <3>1 DEF Harmless
  <2>5. CASE ~Serving(serverPtr[c]) /\ callback' = callback
    BY <1>1, <2>1, <2>2, <2>3, <2>5 DEF Harmless
  <2> QED
    BY <1>4, <2>1, <2>4, <2>5
<1>9. SessionInv'
  BY <1>3, <1>8, HarmlessSession DEF ShellInv
<1>10. callback' \subseteq Clients
  BY <1>4 DEF ShellInv, ShellTypeOK
<1> QED
  BY <1>1, <1>3, <1>4, <1>6, <1>7, <1>9, <1>10, ClientInv DEF ShellInv, ShellTypeOK

(* The server runs, closes, dies or comes back. *)
LEMMA ServerSystemStep == ASSUME ShellInv, Server PROVE ShellInv'
<1>1. /\ Next /\ callback' = IF epoch' # epoch THEN {} ELSE callback
      /\ UNCHANGED <<pc, serverPtr, line, home, losses, executed>>
  BY DEF Server
<1>2. ServerInv' /\ (SameProcess \/ NewProcess)
  BY <1>1, ServerStep DEF ShellInv
<1>3. ShellTypeOK'
  BY <1>1, <1>2 DEF ShellInv, ServerInv, ShellTypeOK
<1>4. LinesInv'
  <2>1. \A c \in Clients :
          Sorted(c)' /\ Progress(c)' /\ \A k \in 1 .. Last(c)' : Executed(c, k)'
    BY <1>1 DEF ShellInv, LinesInv, Sorted, Progress, Last, SentOnce, Executed
  <2> QED
    BY <1>1, <2>1, SameExecuted DEF ShellInv, LinesInv
<1>5. epoch \in Nat /\ \A c \in Clients : serverPtr[c] \in Nat /\ home[c] \in Nat
  BY ClientTypes DEF ShellInv
<1>6. ReferencesInv'
  <2>1. epoch <= epoch' /\ epoch' \in Nat
    BY <1>2, <1>5 DEF SameProcess, NewProcess
  <2> QED
    BY <1>1, <1>5, <2>1 DEF ShellInv, ReferencesInv
<1>7. SessionInv'
  <2>1. CASE SameProcess
    <3>1. Open' => Open /\ (Serving(epoch) => Serving(epoch)')
      BY <1>1, <2>1 DEF SameProcess, Open
    <3> QED
      BY <1>1, <2>1, <3>1 DEF SameProcess, ShellInv, SessionInv, Open, InSession
  <2>2. CASE NewProcess
    <3>1. epoch' # epoch /\ \A c \in Clients : serverPtr[c] # epoch' /\ home[c] # epoch'
      BY <1>5, <2>2 DEF NewProcess, ShellInv, ReferencesInv
    <3> QED
      BY <1>1, <3>1 DEF SessionInv
  <2> QED
    BY <1>2, <2>1, <2>2
<1> QED
  BY <1>2, <1>3, <1>4, <1>6, <1>7 DEF ShellInv

-----------------------------------------------------------------------------
LEMMA ShellStutter == ASSUME ShellInv, UNCHANGED allVars PROVE ShellInv'
<1>1. UNCHANGED serverVars /\ UNCHANGED <<pc, serverPtr, line, callback, home, losses, executed>>
  BY DEF allVars, clientVars
<1>2. ServerInv' /\ epoch' = epoch /\ Open' = Open /\ (Serving(epoch)' <=> Serving(epoch))
  BY <1>1, ServerStutter DEF ShellInv, serverVars, orbVars, Open, Serving
<1>3. ShellTypeOK'
  BY <1>1, <1>2 DEF ShellInv, ServerInv, ShellTypeOK
<1>4. LinesInv'
  <2>1. \A c \in Clients :
          Sorted(c)' /\ Progress(c)' /\ \A k \in 1 .. Last(c)' : Executed(c, k)'
    BY <1>1 DEF ShellInv, LinesInv, Sorted, Progress, Last, SentOnce, Executed
  <2> QED
    BY <1>1, <2>1, SameExecuted DEF ShellInv, LinesInv
<1>5. ReferencesInv' /\ SessionInv'
  BY <1>1, <1>2 DEF ShellInv, ReferencesInv, SessionInv, Open, InSession
<1> QED
  BY <1>2, <1>3, <1>4, <1>5 DEF ShellInv

LEMMA ShellStep == ShellInv /\ [SystemNext]_allVars => ShellInv'
<1> SUFFICES ASSUME ShellInv, [SystemNext]_allVars PROVE ShellInv'
  OBVIOUS
<1>1. CASE Server
  BY <1>1, ServerSystemStep
<1>2. ASSUME NEW c \in Clients, TypeLine(c) \/ Exit(c) \/ PingDestroyed(c) PROVE ShellInv'
  BY <1>2, TypeLineStep, ExitStep, PingDestroyedStep
<1>3. ASSUME NEW c \in Clients, Works(c) PROVE ShellInv'
  BY <1>3, ConnectStep, RegisterStep, RunAndReadStep, OutputStep, FailureStep, RebindStep,
     UnregisterStep DEF Works
<1>4. CASE UNCHANGED allVars
  BY <1>4, ShellStutter
<1> QED
  BY <1>1, <1>2, <1>3, <1>4 DEF SystemNext

(* The invariant on which the theorems below rest. *)
THEOREM ShellInvariant == SystemSpec => []ShellInv
BY ShellInitInv, ShellStep, PTL DEF SystemSpec

(* The variables keep their types (coshell.cpp:55-60,                      *)
(* connecttoshell.h:107-108).                                              *)
THEOREM ShellTypesCorrect == SystemSpec => []ShellTypeOK
<1>1. ShellInv => ShellTypeOK
  BY DEF ShellInv
<1> QED
  BY <1>1, ShellInvariant, PTL

(* With any number of coshells, the server still serves once "start" has   *)
(* returned, whatever the coshells do (corba-server-generic.t.cpp:55-61).  *)
THEOREM StartServesCoShells == SystemSpec => []StartServes
<1>1. ShellInv => StartServes
  BY DEF ShellInv, ServerInv
<1> QED
  BY <1>1, ShellInvariant, PTL

(* The lines of a coshell are executed in the order typed, none skipped,   *)
(* whatever connections are lost and however often the server restarts     *)
(* (coshell.cpp:93-114).                                                   *)
THEOREM NoLineSkipped == SystemSpec => []NoneSkipped
<1>1. ShellInv => NoneSkipped
  BY DEF ShellInv, LinesInv
<1> QED
  BY <1>1, ShellInvariant, PTL

(* A line whose call is repeated is executed at most twice                 *)
(* (coshell.cpp:102-113).                                                  *)
THEOREM LinesAtMostTwice == SystemSpec => []AtMostTwice
<1>1. ShellInv => AtMostTwice
  BY DEF ShellInv, LinesInv
<1> QED
  BY <1>1, ShellInvariant, PTL

(* A coshell back at its prompt has had every line typed executed          *)
(* (coshell.cpp:98-113).                                                   *)
THEOREM PromptOnlyAfterExecution == SystemSpec => []PromptAfterExecution
<1>1. ShellInv => PromptAfterExecution
  BY DEF ShellInv, LinesInv, Progress, PromptAfterExecution
<1> QED
  BY <1>1, ShellInvariant, PTL

(* The callback that the server holds is of a coshell that has not ended,  *)
(* and a coshell in session is known to the process it registered with     *)
(* alone, unless another coshell came to it: for any number of coshells    *)
(* (coshell.cpp:73, 107, 122-125).                                         *)
THEOREM CallbackAlwaysOfLiving == SystemSpec => []CallbackOfLiving
<1>1. ShellInv => CallbackOfLiving
  BY DEF ShellInv, SessionInv, CallbackOfLiving
<1> QED
  BY <1>1, ShellInvariant, PTL
=============================================================================
