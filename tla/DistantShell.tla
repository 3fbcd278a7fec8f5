---------------------------- MODULE DistantShell ----------------------------
(***************************************************************************)
(* The entity DShell (distant-shell.h, distant-shell.cpp): a thread that   *)
(* executes the lines appended to a file, started and stopped by commands  *)
(* of the interpreter.                                                     *)
(*                                                                         *)
(* dynamicgraph::Contiifstream is external: loop() queues the lines that   *)
(* the file has got since the last call and says whether there are any,    *)
(* ready() whether a line is queued, next() takes the first.  Line k of    *)
(* file f is <<f, k>>.                                                     *)
(***************************************************************************)
EXTENDS Integers, Sequences

CONSTANTS
  Files,      \* names of files
  NoFile,     \* filein as it is constructed: nothing to read
  Raises,     \* the lines whose command raises an exception
  MaxLines,   \* bound on the length of a file
  MaxLoops,   \* bound on the number of commands "start"
  MaxExecuted \* bound on the lines executed before the last command "open"

ASSUME NoFileAssumption == NoFile \notin Files
ASSUME BoundsAssumption == {MaxLines, MaxLoops, MaxExecuted} \subseteq Nat

Lines == Files \X (1 .. MaxLines)
Loops == 1 .. MaxLoops

VARIABLES
  alive,       \* the process has not aborted
  written,     \* written[f]: the number of lines of file f
  input,       \* filein: the file,
  cursor,      \* the number of lines taken from it
  pending,     \* and the lines queued
  endLoop,
  at,          \* at[t]: where the thread of the t-th "start" is
  line,        \* line[t]: its local variable iss
  threadLoop,  \* the last thread started, 0 when there is none
  destructor,  \* "no", "joining" or "done"
  executed,    \* history: the lines given to the interpreter
  wanted,      \* history: the last of "start" and "stop" was "start"
  usage        \* history: "once", one "open" and one "start" so far, in this
               \* order and before any "stop"; "again", a "start" after a
               \* "stop", when no loop runs; "mixed", anything else

filein == <<input, cursor, pending>>
vars == <<alive, written, filein, endLoop, at, line, threadLoop, destructor,
          executed, wanted, usage>>

Init ==
  /\ alive = TRUE
  /\ written = [f \in Files |-> 0]
  /\ input = NoFile /\ cursor = 0 /\ pending = << >>
  /\ endLoop = FALSE
  /\ at = [t \in Loops |-> "none"]
  /\ line = [t \in Loops |-> << >>]
  /\ threadLoop = 0
  /\ destructor = "no"
  /\ executed = << >>
  /\ wanted = FALSE /\ usage = "once"

Length(f) == IF f = NoFile THEN 0 ELSE written[f]

Labels == {"none", "test", "loop", "ready", "next", "run", "sleep", "ended"}

Running(t) == at[t] \notin {"none", "ended"}

(* The lines of the file that have not been queued yet. *)
News == [k \in 1 .. Length(input) - cursor |-> <<input, cursor + k>>]

-----------------------------------------------------------------------------
(***************************************************************************)
(* DistantShell::loop, in thread t.                                        *)
(***************************************************************************)
Goto(t, here, there) ==
  /\ alive
  /\ destructor = "done" => here = "sleep"
  /\ at[t] = here
  /\ at' = [at EXCEPT ![t] = there]
  /\ UNCHANGED <<written, endLoop, threadLoop, destructor, wanted, usage>>

(* Mutant: while(true). *)
TestNothing(t) ==
  /\ Goto(t, "test", "loop")
  /\ UNCHANGED <<alive, filein, line, executed>>

TestEnd(t) ==
  /\ Goto(t, "test", IF endLoop THEN "ended" ELSE "loop")
  /\ UNCHANGED <<alive, filein, line, executed>>

(* Mutants: the lines stay in the file; one line too many is taken.        *)
ReadAgain(t) ==
  /\ Goto(t, "loop", IF News = << >> THEN "sleep" ELSE "ready")
  /\ pending' = pending \o News
  /\ UNCHANGED <<alive, input, cursor, line, executed>>

ReadTooMany(t) ==
  /\ Goto(t, "loop", IF News = << >> THEN "sleep" ELSE "ready")
  /\ pending' = pending \o News
  /\ cursor' = cursor + Len(News) + 1
  /\ UNCHANGED <<alive, input, line, executed>>

ReadFile(t) ==
  /\ Goto(t, "loop", IF News = << >> THEN "sleep" ELSE "ready")
  /\ pending' = pending \o News
  /\ cursor' = cursor + Len(News)
  /\ UNCHANGED <<alive, input, line, executed>>

(* Mutant: do-while. *)
ReadyUntested(t) ==
  /\ Goto(t, "ready", "next")
  /\ UNCHANGED <<alive, filein, line, executed>>

TestReady(t) ==
  /\ Goto(t, "ready", IF pending = << >> THEN "sleep" ELSE "next")
  /\ UNCHANGED <<alive, filein, line, executed>>

(* The queue may be empty when another thread has taken the line.          *)
NextLine(t) ==
  /\ \/ /\ pending # << >>
        /\ Goto(t, "next", "run")
        /\ line' = [line EXCEPT ![t] = Head(pending)]
        /\ pending' = Tail(pending)
        /\ UNCHANGED alive
     \/ /\ pending = << >>
        /\ Goto(t, "next", "ready")
        /\ alive' \in BOOLEAN
        /\ UNCHANGED <<line, pending>>
  /\ UNCHANGED <<input, cursor, executed>>

(* Mutant: if for while, one line per reading. *)
ExecuteOne(t) ==
  /\ Goto(t, "run", "sleep")
  /\ executed' = Append(executed, line[t])
  /\ alive' = (line[t] \notin Raises)
  /\ UNCHANGED <<filein, line>>

(* An exception that the command raises leaves the thread: abort().        *)
Execute(t) ==
  /\ Goto(t, "run", "ready")
  /\ executed' = Append(executed, line[t])
  /\ alive' = (line[t] \notin Raises)
  /\ UNCHANGED <<filein, line>>

Sleep(t) ==
  /\ Goto(t, "sleep", "test")
  /\ UNCHANGED <<alive, filein, line, executed>>

(* Everything but the sleep uses the object.  A loop that the destructor   *)
(* has not joined then runs on freed memory: it goes anywhere, or the      *)
(* process dies.  What it would execute is not followed.                   *)
UseFreed(t) ==
  /\ alive /\ destructor = "done"
  /\ at[t] \in {"test", "loop", "ready", "next", "run"}
  /\ \E there \in Labels \ {"none"} : at' = [at EXCEPT ![t] = there]
  /\ alive' \in BOOLEAN
  /\ UNCHANGED <<written, filein, endLoop, line, threadLoop, destructor, executed,
                 wanted, usage>>

Loop(t) ==
  \/ TestEnd(t) \/ ReadFile(t) \/ TestReady(t) \/ NextLine(t) \/ Execute(t) \/ Sleep(t)
  \/ UseFreed(t)

-----------------------------------------------------------------------------
(***************************************************************************)
(* Commands and destruction.                                               *)
(***************************************************************************)

(* inputFile: a new stream, at the beginning of the file. *)
Open(f) ==
  /\ alive /\ destructor = "no"
  /\ Len(executed) <= MaxExecuted
  /\ input' = f /\ cursor' = 0 /\ pending' = << >>
  /\ usage' = IF input = NoFile /\ threadLoop = 0 THEN usage ELSE "mixed"
  /\ UNCHANGED <<alive, written, endLoop, at, line, threadLoop, destructor, executed,
                 wanted>>

(* loopInThread.  endLoop keeps the value it has. *)
Start ==
  /\ alive /\ destructor = "no"
  /\ \E t \in Loops :
       /\ at[t] = "none" /\ \A u \in Loops : u < t => at[u] # "none"
       /\ at' = [at EXCEPT ![t] = "test"]
       /\ threadLoop' = t
  /\ wanted' = TRUE
  /\ usage' = IF input = NoFile \/ \E t \in Loops : Running(t) THEN "mixed"
              ELSE IF usage = "once" /\ (endLoop \/ threadLoop # 0) THEN "again"
              ELSE usage
  /\ UNCHANGED <<alive, written, filein, endLoop, line, destructor, executed>>

(* terminate *)
Stop ==
  /\ alive /\ destructor = "no"
  /\ endLoop' = TRUE /\ wanted' = FALSE
  /\ UNCHANGED <<alive, written, filein, at, line, threadLoop, destructor, executed, usage>>

(* ~DistantShell: threadLoop is not initialized before the first start.    *)
Destroy ==
  /\ alive /\ destructor = "no"
  /\ endLoop' = TRUE /\ wanted' = FALSE
  /\ destructor' = "joining"
  /\ alive' \in IF threadLoop = 0 THEN BOOLEAN ELSE {TRUE}
  /\ UNCHANGED <<written, filein, at, line, threadLoop, executed, usage>>

(* Mutant: the thread is not waited for. *)
JoinAtOnce ==
  /\ alive /\ destructor = "joining"
  /\ destructor' = "done"
  /\ UNCHANGED <<alive, written, filein, endLoop, at, line, threadLoop, executed,
                 wanted, usage>>

Join ==
  /\ alive /\ destructor = "joining"
  /\ threadLoop # 0 => at[threadLoop] = "ended"
  /\ destructor' = "done"
  /\ UNCHANGED <<alive, written, filein, endLoop, at, line, threadLoop, executed,
                 wanted, usage>>

(* The user of the shell adds a line to a file. *)
AddLine(f) ==
  /\ written[f] < MaxLines
  /\ written' = [written EXCEPT ![f] = @ + 1]
  /\ UNCHANGED <<alive, filein, endLoop, at, line, threadLoop, destructor, executed,
                 wanted, usage>>

-----------------------------------------------------------------------------
Environment == Join \/ \E f \in Files : AddLine(f)

(* Any sequence of commands. *)
Next ==
  \/ \E t \in Loops : Loop(t)
  \/ Start \/ Stop \/ Destroy \/ \E f \in Files : Open(f)
  \/ Environment

Fairness ==
  /\ \A t \in Loops : WF_vars(Loop(t))
  /\ WF_vars(Join)

Spec == Init /\ [][Next]_vars /\ Fairness

-----------------------------------------------------------------------------
(***************************************************************************)
(* Properties.                                                             *)
(***************************************************************************)

(* The type invariant. *)
TypeOK ==
  /\ alive \in BOOLEAN
  /\ written \in [Files -> 0 .. MaxLines]
  /\ input \in Files \cup {NoFile} /\ cursor \in 0 .. MaxLines
  /\ pending \in Seq(Lines)
  /\ endLoop \in BOOLEAN
  /\ at \in [Loops -> Labels]
  /\ line \in [Loops -> Lines \cup {<< >>}]
  /\ threadLoop \in Loops \cup {0}
  /\ destructor \in {"no", "joining", "done"}
  /\ executed \in Seq(Lines)
  /\ wanted \in BOOLEAN /\ usage \in {"once", "again", "mixed"}

(* The lines are executed in the order of the file, each once, none        *)
(* skipped (distant-shell.cpp:52-61), when the shell is opened and started *)
(* once.                                                                   *)
InOrderOnce ==
  usage = "once" => executed = [k \in 1 .. Len(executed) |-> <<input, k>>]

(* The destructor waits until no thread uses the object any more           *)
(* (distant-shell.cpp:34-37), also after a restart, as long as no loop was *)
(* started while another ran: only the last one is joined.                 *)
NoUseAfterDestroy ==
  usage # "mixed" /\ destructor = "done" => \A t \in Loops : ~Running(t)

(* "stop" ends every loop, whatever the commands before and after it: the  *)
(* lines of one reading of the file are all that a loop still executes.    *)
(* The destructor ends the last loop started; of an earlier one, which it  *)
(* does not join (distant-shell.cpp:34-42), nothing is known once the      *)
(* object is freed.                                                        *)
LoopEnds ==
  \A t \in Loops :
     endLoop ~> (~alive \/ ~Running(t) \/ (destructor = "done" /\ t # threadLoop))

Executed(l) == \E k \in 1 .. Len(executed) : executed[k] = l

(* After the "start", every line of the file is executed, those added      *)
(* later too, unless a "stop" comes, the shell is opened or started again  *)
(* (a loop started after a "stop" executes nothing: endLoop is not reset,  *)
(* distant-shell.h:82), or a line that raises has ended the process.       *)
LinesExecuted ==
  \A l \in Lines :
     wanted /\ input = l[1] /\ l[2] <= written[l[1]] /\ usage = "once"
        ~> (Executed(l) \/ ~wanted \/ ~alive \/ usage # "once")

(* The process dies of a line that raises, of the destruction of a shell   *)
(* that was never started, or of nothing: a thread that has the stream to  *)
(* itself never takes a line from an empty queue (distant-shell.cpp:37,    *)
(* 54-56).                                                                 *)
DiesOnlyOfRaise ==
  ~alive /\ usage # "mixed" =>
     \/ executed # << >> /\ executed[Len(executed)] \in Raises
     \/ destructor # "no" /\ threadLoop = 0
=============================================================================
