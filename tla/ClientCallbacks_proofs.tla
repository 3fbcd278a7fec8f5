----------------------- MODULE ClientCallbacks_proofs -----------------------
(***************************************************************************)
(* Theorems about ClientCallbacks, for every set of clients, of names and  *)
(* of concurrent pings.                                                    *)
(*                                                                         *)
(* As long as its entry is not erased, a sweep has notified exactly names  *)
(* up to its iterator, and every name that was bound all the time and that *)
(* it has passed: entries are only added, removed or replaced elsewhere,   *)
(* or replaced at the iterator.                                            *)
(***************************************************************************)
EXTENDS ClientCallbacks, WellFoundedInduction, TLAPS

Sweeping(p) == pc[p] \in {"call", "next"} /\ "entry" \notin freed[p]

(* Where a sweep is. *)
SweepInv(p) ==
  /\ iter[p] \in Bound
  /\ due[p] \subseteq Bound
  /\ \A n \in due[p] : n < iter[p] => n \in notified[p]
  /\ \A n \in notified[p] : n <= iter[p]
  /\ pc[p] = "next" => iter[p] \in notified[p]
  /\ pc[p] = "call" => iter[p] \notin notified[p]

IInv ==
  /\ TypeOK
  /\ \A p \in Pings : pc[p] # "idle" => iter[p] \in Names
  /\ \A p \in Pings : Sweeping(p) => SweepInv(p)

-----------------------------------------------------------------------------
(* The first of a set of entries; 0, end(), is not an entry. *)
LEMMA FirstProperties ==
  ASSUME NEW S \in SUBSET Names
  PROVE  /\ First(S) \in S \cup {0}
         /\ First(S) = 0 <=> S = {}
         /\ \A k \in S : First(S) <= k
<1>1. CASE S = {}
  BY <1>1 DEF First
<1>2. CASE S # {}
  <2>1. S \subseteq Nat /\ 0 \notin S
    BY NamesAssumption
  <2>2. \E m \in S : \A k \in S : ~ (<<k, m>> \in OpToRel(<, Nat))
    BY <1>2, <2>1, WFMin, NatLessThanWellFounded, Zenon
  <2>3. PICK m \in S : \A k \in S : ~ (<<k, m>> \in OpToRel(<, Nat))
    BY <2>2
  <2>4. \A k \in S : m <= k
    <3> SUFFICES ASSUME NEW k \in S, ~(m <= k) PROVE FALSE
      OBVIOUS
    <3>1. k \in Nat /\ m \in Nat /\ k < m
      BY <2>1
    <3>2. <<k, m>> \in OpToRel(<, Nat)
      BY <3>1 DEF OpToRel
    <3> QED
      BY <2>3, <3>2
  <2>5. First(S) \in S /\ \A k \in S : First(S) <= k
    BY <1>2, <2>4 DEF First
  <2> QED
    BY <1>2, <2>1, <2>5
<1> QED
  BY <1>1, <1>2

LEMMA InitInv == Init => IInv
<1> SUFFICES ASSUME Init PROVE IInv
  OBVIOUS
<1>1. Bound = {}
  BY DEF Init, Bound
<1>2. TypeOK
  BY <1>1 DEF Init, TypeOK
<1>3. \A p \in Pings : pc[p] = "idle" /\ ~Sweeping(p)
  BY DEF Init, Sweeping
<1> QED
  BY <1>2, <1>3 DEF IInv

-----------------------------------------------------------------------------
(* Clients that register, leave and die.                                   *)

LEMMA RegisterClientInv == ASSUME IInv, NEW c \in Clients, RegisterClient(c) PROVE IInv'
<1> DEFINE n == NameOf[c]
<1>1. n \in Names
  BY NameOfAssumption
<1> HIDE DEF n
<1>2. /\ state' = [state EXCEPT ![c] = "registered"]
      /\ callbackList' = [m \in Bound \cup {n} |-> IF m = n THEN c ELSE callbackList[m]]
      /\ freed' = [p \in Pings |-> freed[p] \cup (InUse(p, n) \cap {"reference"})]
      /\ due' = [p \in Pings |-> due[p] \ {n}]
      /\ UNCHANGED <<alive, pc, iter, listen, notified>>
  BY DEF RegisterClient, Release, n
<1>3. Bound' = Bound \cup {n}
  BY <1>2 DEF Bound
<1>4. TypeOK'
  <2>1. Bound' \subseteq Names /\ callbackList' \in [Bound' -> Clients]
    BY <1>1, <1>2, <1>3 DEF IInv, TypeOK
  <2>2. freed' \in [Pings -> SUBSET {"entry", "reference"}] /\ due' \in [Pings -> SUBSET Names]
    BY <1>2 DEF IInv, TypeOK
  <2> QED
    BY <1>2, <2>1, <2>2 DEF IInv, TypeOK
<1>5. ASSUME NEW p \in Pings, Sweeping(p)' PROVE SweepInv(p)'
  <2>1. Sweeping(p) /\ due'[p] \subseteq due[p]
    BY <1>2, <1>5 DEF Sweeping
  <2> QED
    BY <1>2, <1>3, <2>1 DEF IInv, SweepInv
<1> QED
  BY <1>2, <1>4, <1>5 DEF IInv

LEMMA UnregisterClientInv ==
  ASSUME IInv, NEW c \in Clients, UnregisterClient(c) PROVE IInv'
<1> DEFINE n == NameOf[c]
<1>1. n \in Names
  BY NameOfAssumption
<1> HIDE DEF n
<1>2. /\ state' = [state EXCEPT ![c] = "left"]
      /\ callbackList' = [m \in Bound \ {n} |-> callbackList[m]]
      /\ freed' = [p \in Pings |-> freed[p] \cup (InUse(p, n) \cap {"entry", "reference"})]
      /\ due' = [p \in Pings |-> due[p] \ {n}]
      /\ UNCHANGED <<alive, pc, iter, listen, notified>>
  BY DEF UnregisterClient, Release, Restrict, n
<1>3. Bound' = Bound \ {n}
  BY <1>2 DEF Bound
<1>4. TypeOK'
  <2>1. Bound' \subseteq Names /\ callbackList' \in [Bound' -> Clients]
    BY <1>1, <1>2, <1>3 DEF IInv, TypeOK
  <2>2. freed' \in [Pings -> SUBSET {"entry", "reference"}] /\ due' \in [Pings -> SUBSET Names]
    BY <1>2 DEF IInv, TypeOK
  <2> QED
    BY <1>2, <2>1, <2>2 DEF IInv, TypeOK
<1>5. ASSUME NEW p \in Pings, Sweeping(p)' PROVE SweepInv(p)'
  <2>1. Sweeping(p) /\ due'[p] = due[p] \ {n} /\ "entry" \notin InUse(p, n)
    BY <1>2, <1>5 DEF Sweeping
  <2>2. SweepInv(p)
    BY <2>1 DEF IInv
  <2>3. iter[p] # n
    BY <2>1, <2>2 DEF InUse, SweepInv, Sweeping
  <2> QED
    BY <1>2, <1>3, <2>1, <2>2, <2>3 DEF SweepInv
<1> QED
  BY <1>2, <1>4, <1>5 DEF IInv

LEMMA KillInv == ASSUME IInv, NEW c \in Clients, Kill(c) PROVE IInv'
<1>1. /\ state' = [state EXCEPT ![c] = "killed"]
      /\ UNCHANGED <<alive, callbackList, freed, pc, iter, listen, due, notified>>
  BY DEF Kill, sweepVars
<1> QED
  BY <1>1 DEF IInv, TypeOK, Sweeping, SweepInv, Bound

-----------------------------------------------------------------------------
(* A step of one ping leaves the other pings and the map alone. *)
LEMMA OtherPings ==
  ASSUME IInv, NEW p \in Pings, TypeOK', UNCHANGED callbackList,
         \A q \in Pings : q # p =>
           /\ pc'[q] = pc[q] /\ iter'[q] = iter[q] /\ freed'[q] = freed[q]
           /\ due'[q] = due[q] /\ notified'[q] = notified[q],
         pc'[p] # "idle" => iter'[p] \in Names,
         Sweeping(p)' => SweepInv(p)'
  PROVE  IInv'
BY DEF IInv, Sweeping, SweepInv, Bound

(* What Visit does to the ping and leaves of the others. *)
LEMMA VisitProperties ==
  ASSUME TypeOK, NEW p \in Pings, NEW n \in Bound \cup {0}, Visit(p, n)
  PROVE  /\ pc' \in [Pings -> {"idle", "call", "next", "one"}]
         /\ iter' \in [Pings -> Names \cup {0}]
         /\ listen' \in [Pings -> Clients \cup {Nobody}]
         /\ pc'[p] = (IF n = 0 THEN "idle" ELSE "call") /\ iter'[p] = n
         /\ \A q \in Pings : q # p => pc'[q] = pc[q] /\ iter'[q] = iter[q]
<1>1. n # 0 => callbackList[n] \in Clients
  BY DEF TypeOK
<1>2. listen' \in [Pings -> Clients \cup {Nobody}]
  BY <1>1 DEF TypeOK, Visit
<1> QED
  BY <1>2 DEF TypeOK, Visit

LEMMA NotifyClientsInv == ASSUME IInv, NEW p \in Pings, NotifyClients(p) PROVE IInv'
<1> DEFINE n == First(Bound)
<1>1. Bound \in SUBSET Names
  BY DEF IInv, TypeOK
<1>2. n \in Bound \cup {0} /\ \A k \in Bound : n <= k
  BY <1>1, FirstProperties
<1>3. Visit(p, n)
  BY DEF NotifyClients
<1> HIDE DEF n
<1>4. /\ due' = [due EXCEPT ![p] = Bound] /\ notified' = [notified EXCEPT ![p] = {}]
      /\ freed' = [freed EXCEPT ![p] = {}] /\ UNCHANGED <<alive, state, callbackList>>
  BY DEF NotifyClients
<1>5. /\ pc' \in [Pings -> {"idle", "call", "next", "one"}]
      /\ iter' \in [Pings -> Names \cup {0}]
      /\ listen' \in [Pings -> Clients \cup {Nobody}]
      /\ pc'[p] = (IF n = 0 THEN "idle" ELSE "call") /\ iter'[p] = n
      /\ \A q \in Pings : q # p => pc'[q] = pc[q] /\ iter'[q] = iter[q]
  BY <1>2, <1>3, VisitProperties DEF IInv
<1>6. Bound' = Bound
  BY <1>4 DEF Bound
<1>7. TypeOK'
  BY <1>1, <1>4, <1>5, <1>6 DEF IInv, TypeOK
<1>8. due'[p] = Bound /\ notified'[p] = {}
  BY <1>4 DEF IInv, TypeOK
<1>9. Sweeping(p)' => SweepInv(p)'
  <2> SUFFICES ASSUME Sweeping(p)' PROVE SweepInv(p)'
    OBVIOUS
  <2>1. n \in Bound
    BY <1>2, <1>5 DEF Sweeping
  <2>2. \A m \in Bound : ~(m < n)
    BY <1>1, <1>2, <2>1, NamesAssumption
  <2> QED
    BY <1>5, <1>6, <1>8, <2>1, <2>2 DEF SweepInv
<1> QED
  BY <1>1, <1>2, <1>4, <1>5, <1>7, <1>9, OtherPings DEF IInv, TypeOK

LEMMA NotifyClientInv ==
  ASSUME IInv, NEW p \in Pings, NEW n \in Names, NotifyClient(p, n) PROVE IInv'
<1>1. /\ n \in Bound /\ pc' = [pc EXCEPT ![p] = "one"] /\ iter' = [iter EXCEPT ![p] = n]
      /\ listen' = [listen EXCEPT ![p] = callbackList[n]]
      /\ due' = [due EXCEPT ![p] = {}] /\ notified' = [notified EXCEPT ![p] = {}]
      /\ freed' = [freed EXCEPT ![p] = {}] /\ UNCHANGED <<alive, state, callbackList>>
  BY DEF NotifyClient
<1>2. TypeOK'
  <2>1. listen' \in [Pings -> Clients \cup {Nobody}]
    BY <1>1 DEF IInv, TypeOK
  <2> QED
    BY <1>1, <2>1 DEF IInv, TypeOK, Bound
<1>3. ~Sweeping(p)'
  BY <1>1 DEF IInv, TypeOK, Sweeping
<1> QED
  BY <1>1, <1>2, <1>3, OtherPings DEF IInv, TypeOK

LEMMA AnswerInv == ASSUME IInv, NEW p \in Pings, Answer(p) PROVE IInv'
<1>1. /\ pc[p] \in {"call", "one"}
      /\ pc' = [pc EXCEPT ![p] = IF pc[p] = "one" THEN "idle" ELSE "next"]
      /\ notified' = [notified EXCEPT ![p] = notified[p] \cup {iter[p]}]
      /\ alive' \in BOOLEAN /\ UNCHANGED <<state, callbackList, freed, iter, listen, due>>
  BY DEF Answer
<1>2. iter[p] \in Names
  BY <1>1 DEF IInv
<1>3. TypeOK'
  BY <1>1, <1>2 DEF IInv, TypeOK, Bound
<1>4. Sweeping(p)' => SweepInv(p)'
  <2> SUFFICES ASSUME Sweeping(p)' PROVE SweepInv(p)'
    OBVIOUS
  <2>1. pc[p] = "call" /\ pc'[p] = "next" /\ notified'[p] = notified[p] \cup {iter[p]}
    BY <1>1 DEF IInv, TypeOK, Sweeping
  <2>2. Sweeping(p) /\ SweepInv(p)
    BY <1>1, <2>1 DEF IInv, Sweeping
  <2>3. iter[p] \in Nat
    BY <1>2, NamesAssumption
  <2>4. iter[p] <= iter[p]
    BY <2>3
  <2> QED
    BY <1>1, <2>1, <2>2, <2>4 DEF SweepInv, Bound
<1> QED
  BY <1>1, <1>2, <1>3, <1>4, OtherPings DEF IInv, TypeOK

LEMMA NoAnswerInv == ASSUME IInv, NEW p \in Pings, NoAnswer(p) PROVE IInv'
<1>1. /\ pc' = [pc EXCEPT ![p] = "idle"] /\ alive' \in BOOLEAN
      /\ UNCHANGED <<state, callbackList, freed, iter, listen, due, notified>>
  BY DEF NoAnswer
<1>2. TypeOK'
  BY <1>1 DEF IInv, TypeOK, Bound
<1>3. pc'[p] = "idle" /\ ~Sweeping(p)'
  BY <1>1 DEF IInv, TypeOK, Sweeping
<1> QED
  BY <1>1, <1>2, <1>3, OtherPings DEF IInv, TypeOK

(* ++iter leads from an entry to the next one, or to end() after the last. *)
LEMMA AdvanceProperties ==
  ASSUME IInv, NEW p \in Pings, Advance(p), "entry" \notin freed[p]
  PROVE  LET n == First(After(iter[p]))
         IN  /\ Visit(p, n) /\ n \in Bound \cup {0} /\ SweepInv(p)
             /\ n = 0 => due[p] \subseteq notified[p]
             /\ n # 0 => /\ iter[p] < n
                         /\ \A k \in due[p] : k < n => k \in notified[p]
<1> DEFINE S == After(iter[p])
           n == First(S)
<1>1. Bound \subseteq Nat /\ S \in SUBSET Names /\ S \subseteq Bound
  BY NamesAssumption DEF IInv, TypeOK, After
<1>2. n \in S \cup {0} /\ (n = 0 <=> S = {}) /\ \A k \in S : n <= k
  BY <1>1, FirstProperties
<1>3. Sweeping(p) /\ pc[p] = "next"
  BY DEF Advance, Sweeping
<1>4. SweepInv(p)
  BY <1>3 DEF IInv
<1>5. Visit(p, n)
  BY DEF Advance
<1>6. iter[p] \in Nat /\ iter[p] \in notified[p] /\ due[p] \subseteq Nat
  BY <1>1, <1>3, <1>4 DEF SweepInv
<1>7. ASSUME NEW k \in due[p], k \notin S PROVE k \in notified[p]
  <2>1. k \in Bound /\ ~(k > iter[p])
    BY <1>4, <1>7 DEF SweepInv, After
  <2>2. k = iter[p] \/ k < iter[p]
    BY <1>6, <2>1
  <2> QED
    BY <1>4, <1>6, <2>2 DEF SweepInv
<1>8. \A k \in due[p] : n # 0 /\ k < n => k \in notified[p]
  <2> SUFFICES ASSUME NEW k \in due[p], n # 0, k < n PROVE k \notin S
    BY <1>7
  <2>1. n \in Nat /\ k \in Nat
    BY <1>1, <1>2, <1>6
  <2> QED
    BY <1>2, <2>1
<1>9. n # 0 => iter[p] < n
  BY <1>1, <1>2, <1>6 DEF After
<1> QED
  BY <1>1, <1>2, <1>4, <1>5, <1>7, <1>8, <1>9

LEMMA AdvanceInv == ASSUME IInv, NEW p \in Pings, Advance(p) PROVE IInv'
<1>1. UNCHANGED <<state, callbackList, freed, due, notified>> /\ alive' \in BOOLEAN
  BY DEF Advance, IInv, TypeOK
<1>2. PICK n \in Bound \cup {0} :
        /\ Visit(p, n)
        /\ "entry" \notin freed[p] /\ n # 0 =>
              SweepInv(p) /\ iter[p] < n /\ \A k \in due[p] : k < n => k \in notified[p]
  BY AdvanceProperties DEF Advance
<1>3. /\ pc' \in [Pings -> {"idle", "call", "next", "one"}]
      /\ iter' \in [Pings -> Names \cup {0}]
      /\ listen' \in [Pings -> Clients \cup {Nobody}]
      /\ pc'[p] = (IF n = 0 THEN "idle" ELSE "call") /\ iter'[p] = n
      /\ \A q \in Pings : q # p => pc'[q] = pc[q] /\ iter'[q] = iter[q]
  BY <1>2, VisitProperties DEF IInv
<1>4. TypeOK'
  BY <1>1, <1>3 DEF IInv, TypeOK, Bound
<1>5. Sweeping(p)' => SweepInv(p)'
  <2> SUFFICES ASSUME Sweeping(p)' PROVE SweepInv(p)'
    OBVIOUS
  <2>1. "entry" \notin freed[p] /\ n # 0 /\ pc'[p] = "call"
    BY <1>1, <1>3 DEF Sweeping
  <2>2. SweepInv(p) /\ iter[p] < n /\ \A k \in due[p] : k < n => k \in notified[p]
    BY <1>2, <2>1
  <2>3. n \in Nat /\ n \in Bound /\ iter[p] \in Nat /\ notified[p] \subseteq Nat
    BY <2>1, <2>2, NamesAssumption DEF IInv, TypeOK, SweepInv
  <2>4. \A k \in notified[p] : k < n
    BY <2>2, <2>3 DEF SweepInv
  <2>5. n \notin notified[p] /\ \A k \in notified[p] : k <= n
    BY <2>3, <2>4
  <2> QED
    BY <1>1, <1>3, <2>1, <2>2, <2>3, <2>5 DEF SweepInv, Bound
<1>6. pc'[p] # "idle" => iter'[p] \in Names
  BY <1>3 DEF IInv, TypeOK
<1> QED
  BY <1>1, <1>3, <1>4, <1>5, <1>6, OtherPings DEF IInv, TypeOK

-----------------------------------------------------------------------------
LEMMA StepInv == IInv /\ [Next]_vars => IInv'
<1> SUFFICES ASSUME IInv, [Next]_vars PROVE IInv'
  OBVIOUS
<1>1. ASSUME NEW c \in Clients, RegisterClient(c) \/ UnregisterClient(c) \/ Kill(c)
      PROVE  IInv'
  BY <1>1, RegisterClientInv, UnregisterClientInv, KillInv
<1>2. ASSUME NEW p \in Pings, NotifyClients(p) \/ \E n \in Names : NotifyClient(p, n)
      PROVE  IInv'
  BY <1>2, NotifyClientsInv, NotifyClientInv
<1>3. ASSUME NEW p \in Pings, Sweep(p) PROVE IInv'
  BY <1>3, AnswerInv, NoAnswerInv, AdvanceInv DEF Sweep
<1>4. CASE UNCHANGED vars
  BY <1>4 DEF vars, sweepVars, IInv, TypeOK, Sweeping, SweepInv, Bound
<1> QED
  BY <1>1, <1>2, <1>3, <1>4 DEF Next

(* The invariant on which the theorems below rest. *)
THEOREM SweepsInvariant == Spec => []IInv
BY InitInv, StepInv, PTL DEF Spec

(* The variables keep their types (server-command.h:153-154). *)
THEOREM CallbacksTypeCorrect == Spec => []TypeOK
<1>1. IInv => TypeOK
  BY DEF IInv
<1> QED
  BY <1>1, SweepsInvariant, PTL

(* A sweep calls a name at most once, as long as its entry is not erased   *)
(* under it, however many clients register and leave, and under the same   *)
(* name (server-command.cpp:495-502).                                      *)
THEOREM CalledAtMostOnce == Spec => []NotifiedOnce
<1>1. IInv => NotifiedOnce
  BY DEF IInv, NotifiedOnce, Sweeping, SweepInv
<1> QED
  BY <1>1, SweepsInvariant, PTL

(* A sweep has called every name that was bound from its beginning to its  *)
(* end, or, when an exception ends it, those of them before the client that*)
(* did not answer (server-command.cpp:495-502).                            *)
THEOREM SweepsComplete == Spec => SweepComplete
<1>1. ASSUME IInv, [Next]_vars, NEW p \in Pings,
             pc[p] = "next", pc'[p] = "idle", "entry" \notin freed[p]
      PROVE  due[p] \subseteq notified[p]
  <2>1. Advance(p)
    <3>1. ASSUME NEW c \in Clients, RegisterClient(c) \/ UnregisterClient(c) \/ Kill(c)
          PROVE  pc' = pc
      BY <3>1 DEF RegisterClient, UnregisterClient, Kill, sweepVars
    <3>2. ASSUME NEW q \in Pings, NEW n \in Bound \cup {0}, q # p, Visit(q, n)
          PROVE  pc'[p] = pc[p]
      BY <1>1, <3>2, VisitProperties DEF IInv
    <3>3. ASSUME NEW q \in Pings, NotifyClients(q) PROVE FALSE
      <4>1. First(Bound) \in Bound \cup {0}
        BY <1>1, FirstProperties DEF IInv, TypeOK
      <4> QED
        BY <1>1, <3>2, <3>3, <4>1 DEF NotifyClients
    <3>4. ASSUME NEW q \in Pings, NEW n \in Names, NotifyClient(q, n) PROVE FALSE
      BY <1>1, <3>4 DEF NotifyClient, IInv, TypeOK
    <3>5. ASSUME NEW q \in Pings, Answer(q) \/ NoAnswer(q) PROVE FALSE
      BY <1>1, <3>5 DEF Answer, NoAnswer, IInv, TypeOK
    <3>6. ASSUME NEW q \in Pings, Advance(q) PROVE q = p
      <4>1. PICK n \in Bound \cup {0} : Visit(q, n)
        BY <1>1, <3>6, AdvanceProperties DEF Advance
      <4> QED
        BY <1>1, <3>2, <4>1
    <3>7. pc' # pc
      BY <1>1
    <3> QED
      BY <1>1, <3>1, <3>3, <3>4, <3>5, <3>6, <3>7 DEF Next, Sweep, vars, sweepVars
  <2>2. First(After(iter[p])) = 0
    <3>1. /\ Visit(p, First(After(iter[p])))
          /\ First(After(iter[p])) \in Bound \cup {0}
      BY <1>1, <2>1, AdvanceProperties
    <3> QED
      BY <1>1, <3>1, VisitProperties DEF IInv
  <2> QED
    BY <1>1, <2>1, <2>2, AdvanceProperties
<1>2. ASSUME IInv, NEW p \in Pings, pc[p] = "call", "entry" \notin freed[p]
      PROVE  \A n \in due[p] : n < iter[p] => n \in notified[p]
  BY <1>2 DEF IInv, Sweeping, SweepInv
<1>3. IInv /\ [Next]_vars =>
        [\A p \in Pings :
           pc[p] \in {"call", "next"} /\ pc'[p] = "idle" /\ "entry" \notin freed[p] =>
              \A n \in due[p] : pc[p] = "next" \/ n < iter[p] => n \in notified[p]]_vars
  BY <1>1, <1>2
<1> QED
  BY <1>3, SweepsInvariant, PTL DEF Spec, SweepComplete
=============================================================================
