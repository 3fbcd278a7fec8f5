-------------------------- MODULE ClientCallbacks --------------------------
(***************************************************************************)
(* The callbacks of ServerCommand (server-command.h, server-command.cpp):  *)
(* clients register an object under a name, and the command "ping" calls   *)
(* notifyClient on one of them or on all.  A ping runs in the thread that  *)
(* executes the command, without a lock; notifyClient is a synchronous     *)
(* remote call, so that clients register, unregister and die meanwhile.    *)
(*                                                                         *)
(* Names are numbers, in the order of the std::map.                        *)
(***************************************************************************)
EXTENDS Integers, Functions

CONSTANTS
  Clients,     \* the processes that register; one registers once
  Names,       \* the names of clients
  NameOf,      \* NameOf[c]: the name under which c registers
  Pings,       \* the threads that execute "ping"
  Nobody       \* no client

ASSUME NamesAssumption  == Names \subseteq Nat \ {0}
ASSUME NameOfAssumption == NameOf \in [Clients -> Names]
ASSUME NobodyAssumption == Nobody \notin Clients

VARIABLES
  alive,         \* the server has not crashed
  state,         \* state[c]: "new", "registered", "left" or "killed"
  callbackList,  \* from names to clients
  pc,            \* pc[p]: "idle", or "call", "next" in notifyClients, or
                 \* "one" in the call of notifyClient
  iter,          \* iter[p]: the name of the entry that iter points to
  listen,        \* listen[p]: the client that is being called
  freed,         \* freed[p]: what p uses and has been freed, among "entry",
                 \* the map entry at iter, and "reference", listen
  due,           \* history: the names bound since the sweep of p began
  notified       \* history: the names that the sweep of p has notified

sweepVars == <<pc, iter, listen, due, notified>>
vars      == <<alive, state, callbackList, freed, sweepVars>>

Init ==
  /\ alive = TRUE
  /\ state = [c \in Clients |-> "new"]
  /\ callbackList = [n \in {} |-> Nobody]
  /\ pc = [p \in Pings |-> "idle"]
  /\ iter = [p \in Pings |-> 0]
  /\ listen = [p \in Pings |-> Nobody]
  /\ freed = [p \in Pings |-> {}]
  /\ due = [p \in Pings |-> {}]
  /\ notified = [p \in Pings |-> {}]

Bound == DOMAIN callbackList

(* What becomes of the pings when the entry of name n is erased, or its    *)
(* reference replaced: a reference is in use during the call, an entry     *)
(* while notifyClients is at it.                                           *)
InUse(p, n) ==
  (IF n \in Bound /\ iter[p] = n /\ pc[p] \in {"call", "next"} THEN {"entry"} ELSE {})
  \cup
  (IF n \in Bound /\ iter[p] = n /\ pc[p] \in {"call", "one"} THEN {"reference"} ELSE {})

Release(n, what) ==
  /\ freed' = [p \in Pings |-> freed[p] \cup (InUse(p, n) \cap what)]
  /\ due' = [p \in Pings |-> due[p] \ {n}]

-----------------------------------------------------------------------------
(* registerClient: the entry of a homonym is overwritten. *)
RegisterClient(c) ==
  /\ alive /\ state[c] = "new"
  /\ state' = [state EXCEPT ![c] = "registered"]
  /\ callbackList' = [n \in Bound \cup {NameOf[c]} |->
                        IF n = NameOf[c] THEN c ELSE callbackList[n]]
  /\ Release(NameOf[c], {"reference"})
  /\ UNCHANGED <<alive, pc, iter, listen, notified>>

(* Mutant: the entry is kept, without a reference. *)
UnregisterToNil(c) ==
  /\ alive /\ state[c] = "registered"
  /\ state' = [state EXCEPT ![c] = "left"]
  /\ callbackList' = [n \in Bound |-> IF n = NameOf[c] THEN Nobody ELSE callbackList[n]]
  /\ Release(NameOf[c], {"reference"})
  /\ UNCHANGED <<alive, pc, iter, listen, notified>>

(* unregisterClient erases the name, whoever it is bound to now.           *)
UnregisterClient(c) ==
  /\ alive /\ state[c] = "registered"
  /\ state' = [state EXCEPT ![c] = "left"]
  /\ callbackList' = Restrict(callbackList, Bound \ {NameOf[c]})
  /\ Release(NameOf[c], {"entry", "reference"})
  /\ UNCHANGED <<alive, pc, iter, listen, notified>>

(* The client ends without unregistering. *)
Kill(c) ==
  /\ state[c] = "registered"
  /\ state' = [state EXCEPT ![c] = "killed"]
  /\ UNCHANGED <<alive, callbackList, freed, sweepVars>>

-----------------------------------------------------------------------------
(* The entries from n on, and the first of them (0 is end()).              *)
After(n) == {m \in Bound : m > n}

First(S) == IF S = {} THEN 0 ELSE CHOOSE m \in S : \A k \in S : m <= k

(* The entry at n becomes iter and its client listen, or the sweep ends.   *)
Visit(p, n) ==
  /\ pc' = [pc EXCEPT ![p] = IF n = 0 THEN "idle" ELSE "call"]
  /\ iter' = [iter EXCEPT ![p] = n]
  /\ listen' = [listen EXCEPT ![p] = IF n = 0 THEN Nobody ELSE callbackList[n]]

(* "ping": notifyClients. *)
NotifyClients(p) ==
  /\ alive /\ pc[p] = "idle"
  /\ Visit(p, First(Bound))
  /\ due' = [due EXCEPT ![p] = Bound]
  /\ notified' = [notified EXCEPT ![p] = {}]
  /\ freed' = [freed EXCEPT ![p] = {}]
  /\ UNCHANGED <<alive, state, callbackList>>

(* "ping <name>": notifyClient. *)
NotifyClient(p, n) ==
  /\ alive /\ pc[p] = "idle" /\ n \in Bound
  /\ pc' = [pc EXCEPT ![p] = "one"]
  /\ iter' = [iter EXCEPT ![p] = n]
  /\ listen' = [listen EXCEPT ![p] = callbackList[n]]
  /\ due' = [due EXCEPT ![p] = {}]
  /\ notified' = [notified EXCEPT ![p] = {}]
  /\ freed' = [freed EXCEPT ![p] = {}]
  /\ UNCHANGED <<alive, state, callbackList>>

(* The client has executed notifyClient and the call returns.  With a      *)
(* reference that was released during the call anything may happen.        *)
Answer(p) ==
  /\ alive /\ pc[p] \in {"call", "one"}
  /\ state[listen[p]] # "killed"
  /\ pc' = [pc EXCEPT ![p] = IF @ = "one" THEN "idle" ELSE "next"]
  /\ notified' = [notified EXCEPT ![p] = @ \cup {iter[p]}]
  /\ alive' \in IF "reference" \in freed[p] THEN BOOLEAN ELSE {TRUE}
  /\ UNCHANGED <<state, callbackList, freed, iter, listen, due>>

(* Mutant: the exception is caught in the loop, and forgotten. *)
NoAnswerIgnored(p) ==
  /\ alive /\ pc[p] \in {"call", "one"}
  /\ pc' = [pc EXCEPT ![p] = IF @ = "one" THEN "idle" ELSE "next"]
  /\ UNCHANGED <<alive, state, callbackList, freed, iter, listen, due, notified>>

(* The client is no more, or the connection to it breaks: the call raises, *)
(* and the exception ends the ping.                                        *)
NoAnswer(p) ==
  /\ alive /\ pc[p] \in {"call", "one"}
  /\ pc' = [pc EXCEPT ![p] = "idle"]
  /\ alive' \in IF "reference" \in freed[p] THEN BOOLEAN ELSE {TRUE}
  /\ UNCHANGED <<state, callbackList, freed, iter, listen, due, notified>>

(* Mutant: the sweep begins again. *)
AdvanceFromBegin(p) ==
  /\ alive /\ pc[p] = "next"
  /\ Visit(p, First(Bound))
  /\ UNCHANGED <<alive, state, callbackList, freed, due, notified>>

(* ++iter.  An iterator whose entry was erased leads to any entry, to the  *)
(* end, or to a crash.                                                     *)
Advance(p) ==
  /\ alive /\ pc[p] = "next"
  /\ \/ /\ "entry" \notin freed[p]
        /\ Visit(p, First(After(iter[p])))
        /\ UNCHANGED alive
     \/ /\ "entry" \in freed[p]
        /\ \E n \in Bound \cup {0} : Visit(p, n)
        /\ alive' \in BOOLEAN
  /\ UNCHANGED <<state, callbackList, freed, due, notified>>

-----------------------------------------------------------------------------
Sweep(p) == Answer(p) \/ NoAnswer(p) \/ Advance(p)

Next ==
  \/ \E c \in Clients : RegisterClient(c) \/ UnregisterClient(c) \/ Kill(c)
  \/ \E p \in Pings : NotifyClients(p) \/ \E n \in Names : NotifyClient(p, n)
  \/ \E p \in Pings : Sweep(p)

(* A client answers or its connection breaks, and the sweep goes on.       *)
Spec == Init /\ [][Next]_vars /\ \A p \in Pings : WF_vars(Sweep(p))

-----------------------------------------------------------------------------
(***************************************************************************)
(* Properties.                                                             *)
(***************************************************************************)

(* The type invariant. *)
TypeOK ==
  /\ alive \in BOOLEAN
  /\ state \in [Clients -> {"new", "registered", "left", "killed"}]
  /\ Bound \subseteq Names /\ callbackList \in [Bound -> Clients]
  /\ pc \in [Pings -> {"idle", "call", "next", "one"}]
  /\ iter \in [Pings -> Names \cup {0}]
  /\ listen \in [Pings -> Clients \cup {Nobody}]
  /\ freed \in [Pings -> SUBSET {"entry", "reference"}]
  /\ due \in [Pings -> SUBSET Names]
  /\ notified \in [Pings -> SUBSET Names]

(* A sweep that comes to the end has notified every name that was bound    *)
(* all the time, whoever has registered or left meanwhile.  One that ends  *)
(* with an exception has notified those before the client that did not     *)
(* answer: only the clients after that one miss the ping                   *)
(* (server-command.cpp:495-502).                                           *)
SweepComplete ==
  [][\A p \in Pings :
       pc[p] \in {"call", "next"} /\ pc'[p] = "idle" /\ "entry" \notin freed[p] =>
          \A n \in due[p] : pc[p] = "next" \/ n < iter[p] => n \in notified[p]]_vars

(* A sweep notifies a name at most once, as long as its own entry is not   *)
(* erased under it.                                                        *)
NotifiedOnce ==
  \A p \in Pings :
     pc[p] = "call" /\ "entry" \notin freed[p] => iter[p] \notin notified[p]

(* A sweep ends, whatever clients register and leave, as long as clients   *)
(* answer or their connections break, and its entry is not erased.         *)
SweepEnds ==
  \A p \in Pings :
     pc[p] = "call" ~> (pc[p] = "idle" \/ ~alive \/ "entry" \in freed[p])
=============================================================================
