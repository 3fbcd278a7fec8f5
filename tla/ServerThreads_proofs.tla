------------------------ MODULE ServerThreads_proofs ------------------------
(***************************************************************************)
(* Theorems about ServerThreads with upcalls that run one after the other, *)
(* for every number of upcall threads, set of names and sizes of buffers.  *)
(*                                                                         *)
(* At most one upcall thread is in a call, and where it is says how far    *)
(* the vectors and the map have come apart; the control thread may be      *)
(* anywhere in its sweep meanwhile, and finds what it reaches because the  *)
(* vectors and the buffers only grow.                                      *)
(***************************************************************************)
EXTENDS ServerThreads, FiniteSetTheorems, SequenceTheorems, TLAPS

Creating == \E t \in Upcalls : pc[t] \in {"register", "store"}
Unmapped == \E t \in Upcalls : pc[t] \in {"register", "store", "map"}

Mapped(i) == vectorSIN[i] \in DOMAIN vectorName2Rank
          /\ vectorName2Rank[vectorSIN[i]] = i - 1

(* One call at a time. *)
OneCall == \A t, u \in Upcalls : pc[t] # "idle" /\ pc[u] # "idle" => t = u

NoDuplicate == \A i, j \in 1 .. Len(vectorSIN) : vectorSIN[i] = vectorSIN[j] => i = j

(* The vectors, the entity's signals and the map. *)
VectorsInv ==
  /\ NoDuplicate
  /\ signalMap \subseteq BuiltIn \cup Range(vectorSIN)
  /\ Len(vectorSIN) = Len(vectorSINStored) + (IF Creating THEN 1 ELSE 0)
  /\ \A i \in 1 .. Len(vectorSIN) : Mapped(i) \/ (i = Len(vectorSIN) /\ Unmapped)

HandedInv ==
  \A p \in handed :
     Valid(vectorSIN, p[2]) /\ vectorSIN[p[2] + 1] = p[1] /\ Mapped(p[2] + 1)

(* What a thread knows at each place of its call. *)
ThreadInv(t) ==
  /\ pc[t] \in {"find", "push", "register", "store", "map", "return"} =>
        name[t] \notin BuiltIn
  /\ pc[t] = "push" => name[t] \notin Range(vectorSIN)
  /\ pc[t] \in {"register", "store", "map", "return"} =>
        Len(vectorSIN) >= 1 /\ vectorSIN[Len(vectorSIN)] = name[t]
  /\ pc[t] = "register" => name[t] \notin signalMap
  /\ pc[t] = "lookup" =>
        \E p \in handed : p[1] = name[t] /\ Grows(p[2], sizeOfTheBuffer[t])
  /\ pc[t] = "resize" => <<name[t], rank[t]>> \in handed /\ Grows(rank[t], sizeOfTheBuffer[t])

(* The write position of a buffer that has cells is one of them. *)
BuffersInv ==
  \A i \in 1 .. Len(vectorSINStored) :
     \/ vectorSINStored[i].size = 0 /\ vectorSINStored[i].index = 0
     \/ vectorSINStored[i].index < vectorSINStored[i].size

SweepInv ==
  /\ sweep # "test" => at < Len(vectorSINStored)
  /\ sweep \in {"signal", "cell", "store"} => vectorSINStored[at + 1].size # 0

IInv ==
  /\ TypeOK /\ OneCall /\ VectorsInv /\ HandedInv
  /\ \A t \in Upcalls : ThreadInv(t)
  /\ BuffersInv /\ SweepInv /\ AbortsOnlyDangling

-----------------------------------------------------------------------------
Buffer == [size : Nat, index : Nat]

LEMMA Types ==
  ASSUME TypeOK
  PROVE  /\ vectorSIN \in Seq(Names) /\ Len(vectorSIN) \in Nat
         /\ Range(vectorSIN) \subseteq Names
         /\ \A i \in 1 .. Len(vectorSIN) : vectorSIN[i] \in Range(vectorSIN)
         /\ vectorSINStored \in Seq(Buffer) /\ Len(vectorSINStored) \in Nat
         /\ \A i \in 1 .. Len(vectorSINStored) :
              /\ vectorSINStored[i] \in Buffer
              /\ vectorSINStored[i].size \in Nat /\ vectorSINStored[i].index \in Nat
         /\ at \in Nat
         /\ \A p \in handed : p[1] \in Names /\ p[2] \in Nat /\ p = <<p[1], p[2]>>
<1>1. vectorSIN \in Seq(Names) /\ vectorSINStored \in Seq(Buffer)
  BY DEF TypeOK, Buffer
<1>2. Len(vectorSIN) \in Nat /\ DOMAIN vectorSIN = 1 .. Len(vectorSIN)
      /\ \A i \in 1 .. Len(vectorSIN) : vectorSIN[i] \in Names
  BY <1>1, LenProperties, ElementOfSeq
<1>3. Len(vectorSINStored) \in Nat
      /\ \A i \in 1 .. Len(vectorSINStored) : vectorSINStored[i] \in Buffer
  BY <1>1, LenProperties, ElementOfSeq
<1>4. /\ Range(vectorSIN) \subseteq Names
      /\ \A i \in 1 .. Len(vectorSIN) : vectorSIN[i] \in Range(vectorSIN)
  BY <1>2 DEF Range
<1>5. \A b \in Buffer : b.size \in Nat /\ b.index \in Nat
  BY DEF Buffer
<1>6. \A p \in handed : p[1] \in Names /\ p[2] \in Nat /\ p = <<p[1], p[2]>>
  BY DEF TypeOK
<1> QED
  BY <1>1, <1>2, <1>3, <1>4, <1>5, <1>6 DEF TypeOK

LEMMA InitInv == Init => IInv
<1> SUFFICES ASSUME Init PROVE IInv
  OBVIOUS
<1>1. /\ << >> \in Seq(Names) /\ << >> \in Seq(Buffer) /\ Len(vectorSIN) = 0
      /\ Len(vectorSINStored) = 0
  BY EmptySeq DEF Init
<1>2. TypeOK
  <2>1. (CHOOSE n \in Names : TRUE) \in Names
    BY NamesAssumption
  <2>2. DOMAIN vectorName2Rank = {}
    BY DEF Init
  <2> QED
    BY <1>1, <2>1, <2>2 DEF Init, TypeOK, Labels, Buffer
<1>3. OneCall /\ ~Creating /\ \A t \in Upcalls : ThreadInv(t)
  BY DEF Init, OneCall, Creating, ThreadInv
<1>4. VectorsInv /\ BuffersInv
  BY <1>1, <1>3 DEF Init, VectorsInv, NoDuplicate, BuffersInv
<1>5. HandedInv /\ SweepInv
  BY DEF Init, HandedInv, SweepInv
<1>6. AbortsOnlyDangling
  BY DEF Init, AbortsOnlyDangling
<1> QED
  BY <1>2, <1>3, <1>4, <1>5, <1>6 DEF IInv

-----------------------------------------------------------------------------
(* The steps of the upcall threads.                                        *)

(* Thread t moves, and no other thread is in a call. *)
Moves(t, here, there) ==
  /\ alive /\ pc[t] = here /\ pc'[t] = there /\ pc' \in [Upcalls -> Labels]
  /\ \A u \in Upcalls : u # t => pc[u] = "idle" /\ pc'[u] = "idle"
  /\ OneCall' /\ UNCHANGED <<at, sweep>>
  /\ Creating <=> here \in {"register", "store"}
  /\ Creating' <=> there \in {"register", "store"}
  /\ Unmapped <=> here \in {"register", "store", "map"}
  /\ Unmapped' <=> there \in {"register", "store", "map"}

LEMMA GotoMoves ==
  ASSUME TypeOK, OneCall, NEW t \in Upcalls, NEW here \in Labels, NEW there \in Labels,
         Goto(t, here, there), here # "idle" \/ \A u \in Upcalls : pc[u] = "idle"
  PROVE  Moves(t, here, there)
<1>1. /\ alive /\ pc[t] = here /\ pc' = [pc EXCEPT ![t] = there] /\ UNCHANGED <<at, sweep>>
  BY DEF Goto, controlVars
<1>2. pc'[t] = there /\ pc' \in [Upcalls -> Labels]
      /\ \A u \in Upcalls : u # t => pc'[u] = pc[u]
  BY <1>1 DEF TypeOK
<1>3. \A u \in Upcalls : u # t => pc[u] = "idle"
  BY <1>1 DEF OneCall
<1>4. OneCall'
  BY <1>2, <1>3 DEF OneCall
<1>5. /\ Creating <=> here \in {"register", "store"}
      /\ Unmapped <=> here \in {"register", "store", "map"}
  BY <1>1, <1>3 DEF Creating, Unmapped
<1>6. /\ Creating' <=> there \in {"register", "store"}
      /\ Unmapped' <=> there \in {"register", "store", "map"}
  BY <1>2, <1>3 DEF Creating, Unmapped
<1> QED
  BY <1>1, <1>2, <1>3, <1>4, <1>5, <1>6 DEF Moves

(* A thread that is not in a call knows nothing. *)
LEMMA IdleThread == ASSUME NEW u \in Upcalls, pc'[u] = "idle" PROVE ThreadInv(u)'
BY DEF ThreadInv

(* The sweep finds what it reached before. *)
LEMMA BuffersKept ==
  ASSUME BuffersInv, SweepInv, UNCHANGED <<vectorSINStored, at, sweep>>
  PROVE  BuffersInv' /\ SweepInv'
BY DEF BuffersInv, SweepInv

(* A step of t while the vectors and the map agree, and that leaves the    *)
(* vectors alone.                                                          *)
LEMMA AgreementKept ==
  ASSUME IInv, NEW t \in Upcalls, NEW here, NEW there, Moves(t, here, there),
         here \notin {"register", "store", "map"}, there \notin {"register", "store", "map"},
         UNCHANGED <<alive, vectorSIN, signalMap, vectorSINStored>>,
         \A i \in 1 .. Len(vectorSIN) : Mapped(i) => Mapped(i)',
         \A p \in handed' : p \in handed \/ (Valid(vectorSIN, p[2]) /\ vectorSIN[p[2] + 1] = p[1]),
         TypeOK', ThreadInv(t)'
  PROVE  IInv'
<1>1. ~Creating /\ ~Creating' /\ ~Unmapped /\ ~Unmapped'
  BY DEF Moves
<1>2. \A i \in 1 .. Len(vectorSIN) : Mapped(i)'
  BY <1>1 DEF IInv, VectorsInv
<1>3. VectorsInv'
  BY <1>1, <1>2 DEF IInv, VectorsInv, NoDuplicate
<1>4. HandedInv'
  <2> SUFFICES ASSUME NEW p \in handed'
               PROVE  Valid(vectorSIN, p[2]) /\ vectorSIN[p[2] + 1] = p[1] /\ Mapped(p[2] + 1)'
    BY DEF HandedInv
  <2>1. Valid(vectorSIN, p[2]) /\ vectorSIN[p[2] + 1] = p[1]
    BY DEF IInv, HandedInv
  <2>2. p[2] \in Nat
    BY DEF TypeOK
  <2>3. p[2] + 1 \in 1 .. Len(vectorSIN)
    BY <2>1, <2>2, Types DEF IInv, Valid
  <2> QED
    BY <1>2, <2>1, <2>3
<1>5. \A u \in Upcalls : ThreadInv(u)'
  BY IdleThread DEF Moves
<1>6. BuffersInv' /\ SweepInv'
  BY BuffersKept DEF IInv, Moves
<1>7. AbortsOnlyDangling'
  BY DEF Moves, AbortsOnlyDangling
<1> QED
  BY <1>3, <1>4, <1>5, <1>6, <1>7 DEF IInv, Moves

LEMMA CallCreateInv ==
  ASSUME IInv, NEW t \in Upcalls, NEW n \in Names \ BuiltIn, CallCreate(t, n),
         \A u \in Upcalls : pc[u] = "idle"
  PROVE  IInv'
<1>1. Moves(t, "idle", "find")
  BY GotoMoves DEF CallCreate, IInv, Labels
<1>2. /\ name' = [name EXCEPT ![t] = n]
      /\ UNCHANGED <<alive, rank, sizeOfTheBuffer, handed, vectorSIN, signalMap,
                     vectorSINStored, vectorName2Rank, reference>>
  BY DEF CallCreate, vectors
<1>3. TypeOK'
  BY <1>1, <1>2 DEF IInv, TypeOK, Moves
<1>4. name'[t] = n
  BY <1>2 DEF IInv, TypeOK
<1>5. ThreadInv(t)'
  BY <1>1, <1>4 DEF Moves, ThreadInv
<1>6. \A i \in 1 .. Len(vectorSIN) : Mapped(i) => Mapped(i)'
  BY <1>2 DEF Mapped
<1> QED
  BY <1>1, <1>2, <1>3, <1>5, <1>6, AgreementKept

LEMMA CallBufferInv ==
  ASSUME IInv, NEW t \in Upcalls, NEW p \in handed, NEW k \in Sizes, Grows(p[2], k),
         CallBuffer(t, p[1], k), \A u \in Upcalls : pc[u] = "idle"
  PROVE  IInv'
<1>1. Moves(t, "idle", "lookup")
  BY GotoMoves DEF CallBuffer, IInv, Labels
<1>2. /\ name' = [name EXCEPT ![t] = p[1]]
      /\ sizeOfTheBuffer' = [sizeOfTheBuffer EXCEPT ![t] = k]
      /\ UNCHANGED <<alive, rank, handed, vectorSIN, signalMap,
                     vectorSINStored, vectorName2Rank, reference>>
  BY DEF CallBuffer, vectors
<1>3. TypeOK'
  <2>1. p[1] \in Names /\ k \in Nat
    BY Types, SizesAssumption DEF IInv
  <2> QED
    BY <1>1, <1>2, <2>1 DEF IInv, TypeOK, Moves
<1>4. name'[t] = p[1] /\ sizeOfTheBuffer'[t] = k
  BY <1>2 DEF IInv, TypeOK
<1>5. ThreadInv(t)'
  BY <1>1, <1>2, <1>4 DEF Moves, ThreadInv, Grows
<1>6. \A i \in 1 .. Len(vectorSIN) : Mapped(i) => Mapped(i)'
  BY <1>2 DEF Mapped
<1> QED
  BY <1>1, <1>2, <1>3, <1>5, <1>6, AgreementKept

(* RankOf finds the position of a name. *)
LEMMA RankOfProperties ==
  ASSUME TypeOK, NEW n \in Range(vectorSIN)
  PROVE  LET r == RankOf(vectorSIN, n)
         IN  r \in Nat /\ Valid(vectorSIN, r) /\ vectorSIN[r + 1] = n
<1>1. PICK i \in 1 .. Len(vectorSIN) : vectorSIN[i] = n
  BY Types, LenProperties DEF Range
<1> DEFINE p == CHOOSE j \in 1 .. Len(vectorSIN) : vectorSIN[j] = n
<1>2. p \in 1 .. Len(vectorSIN) /\ vectorSIN[p] = n
  BY <1>1
<1>3. RankOf(vectorSIN, n) = p - 1
  BY DEF RankOf
<1> HIDE DEF p
<1>4. p - 1 \in Nat /\ p - 1 < Len(vectorSIN) /\ (p - 1) + 1 = p
  BY <1>2, Types
<1> QED
  BY <1>2, <1>3, <1>4 DEF Valid

LEMMA FindInv == ASSUME IInv, NEW t \in Upcalls, Find(t) PROVE IInv'
<1>1. UNCHANGED <<alive, name, rank, sizeOfTheBuffer, vectorSIN, signalMap,
                  vectorSINStored, vectorName2Rank, reference>>
  BY DEF Find, vectors
<1>2. \A i \in 1 .. Len(vectorSIN) : Mapped(i) => Mapped(i)'
  BY <1>1 DEF Mapped
<1>3. CASE name[t] \in Range(vectorSIN)
  <2>1. /\ Goto(t, "find", "idle")
        /\ handed' = handed \cup {<<name[t], RankOf(vectorSIN, name[t])>>}
    BY <1>3 DEF Find
  <2>2. Moves(t, "find", "idle")
    BY <2>1, GotoMoves DEF IInv, Labels
  <2>3. LET r == RankOf(vectorSIN, name[t])
        IN  r \in Nat /\ Valid(vectorSIN, r) /\ vectorSIN[r + 1] = name[t]
    BY <1>3, RankOfProperties DEF IInv
  <2>4. TypeOK'
    BY <1>1, <2>1, <2>2, <2>3 DEF IInv, TypeOK, Moves
  <2>5. \A p \in handed' :
           p \in handed \/ (Valid(vectorSIN, p[2]) /\ vectorSIN[p[2] + 1] = p[1])
    BY <2>1, <2>3
  <2> QED
    BY <1>1, <1>2, <2>2, <2>4, <2>5, AgreementKept, IdleThread DEF Moves
<1>4. CASE name[t] \notin Range(vectorSIN)
  <2>1. Goto(t, "find", "push") /\ handed' = handed
    BY <1>4 DEF Find
  <2>2. Moves(t, "find", "push")
    BY <2>1, GotoMoves DEF IInv, Labels
  <2>3. TypeOK'
    BY <1>1, <2>1, <2>2 DEF IInv, TypeOK, Moves
  <2>4. ThreadInv(t)'
    BY <1>1, <1>4, <2>2 DEF IInv, Moves, ThreadInv
  <2> QED
    BY <1>1, <1>2, <2>1, <2>2, <2>3, <2>4, AgreementKept
<1> QED
  BY <1>3, <1>4

LEMMA ReturnInv == ASSUME IInv, NEW t \in Upcalls, Return(t) PROVE IInv'
<1>1. Moves(t, "return", "idle")
  BY GotoMoves DEF Return, IInv, Labels
<1>2. /\ handed' = handed \cup {<<name[t], LastRank(vectorSIN)>>}
      /\ UNCHANGED <<alive, name, rank, sizeOfTheBuffer, vectorSIN, signalMap,
                     vectorSINStored, vectorName2Rank, reference>>
  BY DEF Return, vectors
<1>3. Len(vectorSIN) >= 1 /\ vectorSIN[Len(vectorSIN)] = name[t]
  BY <1>1 DEF IInv, ThreadInv, Moves
<1>4. LET r == LastRank(vectorSIN)
      IN  r \in Nat /\ r < Len(vectorSIN) /\ r + 1 = Len(vectorSIN)
  BY <1>3, Types DEF IInv, LastRank
<1>5. TypeOK'
  BY <1>1, <1>2, <1>4 DEF IInv, TypeOK, Moves
<1>6. \A p \in handed' :
         p \in handed \/ (Valid(vectorSIN, p[2]) /\ vectorSIN[p[2] + 1] = p[1])
  BY <1>2, <1>3, <1>4 DEF Valid
<1>7. \A i \in 1 .. Len(vectorSIN) : Mapped(i) => Mapped(i)'
  BY <1>2 DEF Mapped
<1> QED
  BY <1>1, <1>2, <1>5, <1>6, <1>7, AgreementKept, IdleThread DEF Moves

(* A client that was handed a rank finds the same one in the map. *)
LEMMA LookUpInv == ASSUME IInv, NEW t \in Upcalls, LookUp(t) PROVE IInv'
<1>1. Moves(t, "lookup", "resize")
  BY GotoMoves DEF LookUp, IInv, Labels
<1>2. /\ rank' = [rank EXCEPT ![t] = Get(vectorName2Rank, name[t])]
      /\ vectorName2Rank' = Put(vectorName2Rank, name[t], rank'[t])
      /\ UNCHANGED <<alive, name, sizeOfTheBuffer, handed, vectorSIN, signalMap,
                     vectorSINStored, reference>>
  BY DEF LookUp
<1>3. PICK p \in handed : p[1] = name[t] /\ Grows(p[2], sizeOfTheBuffer[t])
  BY <1>1 DEF IInv, ThreadInv, Moves
<1>4. p[1] \in DOMAIN vectorName2Rank /\ vectorName2Rank[p[1]] = p[2]
  <2>1. vectorSIN[p[2] + 1] = p[1] /\ Mapped(p[2] + 1)
    BY DEF IInv, HandedInv
  <2>2. (p[2] + 1) - 1 = p[2]
    BY Types DEF IInv
  <2> QED
    BY <2>1, <2>2 DEF Mapped
<1>5. p[2] \in Nat /\ p = <<p[1], p[2]>>
  BY Types DEF IInv
<1>6. rank'[t] = p[2]
  BY <1>2, <1>3, <1>4, <1>5 DEF Get, IInv, TypeOK
<1>7. /\ DOMAIN vectorName2Rank' = DOMAIN vectorName2Rank
      /\ \A n \in DOMAIN vectorName2Rank : vectorName2Rank'[n] = vectorName2Rank[n]
  BY <1>2, <1>3, <1>4, <1>5, <1>6 DEF Put
<1>8. TypeOK'
  <2>1. rank' \in [Upcalls -> Nat]
    BY <1>2, <1>5, <1>6 DEF IInv, TypeOK
  <2> QED
    BY <1>1, <1>2, <1>7, <2>1 DEF IInv, TypeOK, Moves
<1>9. ThreadInv(t)'
  BY <1>1, <1>2, <1>3, <1>5, <1>6 DEF Moves, ThreadInv, Grows
<1>10. \A i \in 1 .. Len(vectorSIN) : Mapped(i) => Mapped(i)'
  BY <1>2, <1>7 DEF Mapped
<1> QED
  BY <1>1, <1>2, <1>8, <1>9, <1>10, AgreementKept

LEMMA PushSignalInv == ASSUME IInv, NEW t \in Upcalls, PushSignal(t) PROVE IInv'
<1>1. Moves(t, "push", "register")
  BY GotoMoves DEF PushSignal, IInv, Labels
<1>2. /\ vectorSIN' = Append(vectorSIN, name[t])
      /\ UNCHANGED <<alive, name, rank, sizeOfTheBuffer, handed, signalMap,
                     vectorSINStored, vectorName2Rank, reference>>
  BY DEF PushSignal, clientVars
<1>3. name[t] \in Names /\ name[t] \notin Range(vectorSIN) /\ name[t] \notin BuiltIn
  BY <1>1 DEF IInv, TypeOK, ThreadInv, Moves
<1>4. /\ vectorSIN' \in Seq(Names) /\ Len(vectorSIN') = Len(vectorSIN) + 1
      /\ \A i \in 1 .. Len(vectorSIN) : vectorSIN'[i] = vectorSIN[i]
      /\ vectorSIN'[Len(vectorSIN) + 1] = name[t]
  BY <1>2, <1>3, Types, AppendProperties DEF IInv
<1>5. TypeOK'
  BY <1>1, <1>2, <1>4 DEF IInv, TypeOK, Moves
<1>6. \A i \in 1 .. Len(vectorSIN) : vectorSIN[i] # name[t]
  BY <1>3, Types DEF IInv
<1>7. VectorsInv'
  <2>1. NoDuplicate'
    <3> SUFFICES ASSUME NEW i \in 1 .. Len(vectorSIN'), NEW j \in 1 .. Len(vectorSIN'),
                        vectorSIN'[i] = vectorSIN'[j]
                 PROVE  i = j
      BY DEF NoDuplicate
    <3>1. /\ i \in 1 .. Len(vectorSIN) \/ i = Len(vectorSIN) + 1
          /\ j \in 1 .. Len(vectorSIN) \/ j = Len(vectorSIN) + 1
      BY <1>4, Types DEF IInv
    <3>2. NoDuplicate
      BY DEF IInv, VectorsInv
    <3> QED
      BY <1>4, <1>6, <3>1, <3>2 DEF NoDuplicate
  <2>2. Range(vectorSIN) \subseteq Range(vectorSIN')
    <3>1. DOMAIN vectorSIN' = 1 .. Len(vectorSIN) + 1
      BY <1>4, LenProperties
    <3>2. DOMAIN vectorSIN = 1 .. Len(vectorSIN)
      BY Types, LenProperties DEF IInv
    <3> QED
      BY <1>4, <3>1, <3>2, Types DEF IInv, Range
  <2>3. signalMap' \subseteq BuiltIn \cup Range(vectorSIN')
    BY <1>2, <2>2 DEF IInv, VectorsInv
  <2>4. ~Creating /\ Creating' /\ ~Unmapped /\ Unmapped'
    BY <1>1 DEF Moves
  <2>5. Len(vectorSIN') = Len(vectorSINStored') + 1
    BY <1>2, <1>4, <2>4, Types DEF IInv, VectorsInv
  <2>6. ASSUME NEW i \in 1 .. Len(vectorSIN')
        PROVE  Mapped(i)' \/ (i = Len(vectorSIN') /\ Unmapped')
    <3>1. CASE i \in 1 .. Len(vectorSIN)
      BY <1>2, <1>4, <2>4, <3>1 DEF IInv, VectorsInv, Mapped
    <3>2. CASE i = Len(vectorSIN) + 1
      BY <1>4, <2>4, <3>2
    <3> QED
      BY <1>4, <3>1, <3>2, Types DEF IInv
  <2> QED
    BY <2>1, <2>3, <2>4, <2>5, <2>6 DEF VectorsInv
<1>8. \A r \in Nat : Valid(vectorSIN, r) =>
         r + 1 \in 1 .. Len(vectorSIN) /\ Valid(vectorSIN', r)
  BY <1>4, Types DEF IInv, Valid
<1>9. HandedInv'
  BY <1>2, <1>4, <1>8, Types DEF IInv, HandedInv, Mapped
<1>10. ThreadInv(t)'
  <2>1. Len(vectorSIN') >= 1 /\ vectorSIN'[Len(vectorSIN')] = name'[t]
    BY <1>2, <1>4, Types DEF IInv
  <2>2. name'[t] \notin signalMap' /\ name'[t] \notin BuiltIn
    BY <1>2, <1>3 DEF IInv, VectorsInv
  <2> QED
    BY <1>1, <2>1, <2>2 DEF Moves, ThreadInv
<1>11. BuffersInv' /\ SweepInv'
  BY <1>1, <1>2, BuffersKept DEF IInv, Moves
<1>12. AbortsOnlyDangling'
  BY <1>1, <1>2 DEF Moves, AbortsOnlyDangling
<1> QED
  BY <1>1, <1>5, <1>7, <1>9, <1>10, <1>11, <1>12, IdleThread DEF IInv, Moves

(* The entity holds only its own names and those of signals: the new one   *)
(* is not taken.                                                           *)
LEMMA RegisterInv == ASSUME IInv, NEW t \in Upcalls, Register(t) PROVE IInv'
<1>1. Moves(t, "register", "store")
  BY GotoMoves DEF Register, IInv, Labels
<1>2. name[t] \in Names /\ name[t] \notin signalMap /\ name[t] \notin BuiltIn
      /\ Len(vectorSIN) >= 1 /\ vectorSIN[Len(vectorSIN)] = name[t]
  BY <1>1 DEF IInv, TypeOK, ThreadInv, Moves
<1>3. /\ alive' = TRUE
      /\ signalMap' = signalMap \cup {name[t]}
      /\ UNCHANGED <<name, rank, sizeOfTheBuffer, handed, vectorSIN,
                     vectorSINStored, vectorName2Rank, reference>>
  BY <1>2 DEF Register, clientVars
<1>4. TypeOK'
  BY <1>1, <1>2, <1>3 DEF IInv, TypeOK, Moves
<1>5. VectorsInv'
  <2>1. name[t] \in Range(vectorSIN)
    BY <1>2, Types DEF IInv
  <2>2. signalMap' \subseteq BuiltIn \cup Range(vectorSIN')
    BY <1>3, <2>1 DEF IInv, VectorsInv
  <2>3. Creating /\ Creating' /\ Unmapped /\ Unmapped'
    BY <1>1 DEF Moves
  <2>4. Len(vectorSIN') = Len(vectorSINStored') + 1
    BY <1>3, <2>3 DEF IInv, VectorsInv
  <2>5. \A i \in 1 .. Len(vectorSIN) : Mapped(i)' \/ (i = Len(vectorSIN) /\ Unmapped')
    BY <1>3, <2>3 DEF IInv, VectorsInv, Mapped
  <2> QED
    BY <1>3, <2>2, <2>3, <2>4, <2>5 DEF IInv, VectorsInv, NoDuplicate
<1>6. HandedInv'
  BY <1>3 DEF IInv, HandedInv, Mapped
<1>7. ThreadInv(t)'
  BY <1>1, <1>2, <1>3 DEF Moves, ThreadInv
<1>8. BuffersInv' /\ SweepInv'
  BY <1>1, <1>3, BuffersKept DEF IInv, Moves
<1>9. AbortsOnlyDangling'
  BY <1>3 DEF AbortsOnlyDangling
<1> QED
  BY <1>1, <1>4, <1>5, <1>6, <1>7, <1>8, <1>9, IdleThread DEF IInv, Moves

(* The new buffer has no cell: the sweep takes no reference to one.        *)
LEMMA PushBufferInv == ASSUME IInv, NEW t \in Upcalls, PushBuffer(t) PROVE IInv'
<1>1. Moves(t, "store", "map")
  BY GotoMoves DEF PushBuffer, IInv, Labels
<1> DEFINE none == [size |-> 0, index |-> 0]
<1>2. none \in Buffer /\ none.size = 0 /\ none.index = 0
  BY DEF Buffer
<1>3. /\ vectorSINStored' = Append(vectorSINStored, none)
      /\ reference' \in {reference, "dangling"}
      /\ UNCHANGED <<alive, name, rank, sizeOfTheBuffer, handed, vectorSIN, signalMap,
                     vectorName2Rank>>
  BY DEF PushBuffer, clientVars, MayMove
<1> HIDE DEF none
<1>4. /\ vectorSINStored' \in Seq(Buffer)
      /\ Len(vectorSINStored') = Len(vectorSINStored) + 1
      /\ \A i \in 1 .. Len(vectorSINStored) : vectorSINStored'[i] = vectorSINStored[i]
      /\ vectorSINStored'[Len(vectorSINStored) + 1] = none
  BY <1>2, <1>3, Types, AppendProperties DEF IInv
<1>5. TypeOK'
  BY <1>1, <1>3, <1>4 DEF IInv, TypeOK, Moves, Buffer
<1>6. Len(vectorSINStored) + 1 = Len(vectorSIN) /\ Unmapped' /\ ~Creating'
  BY <1>1 DEF Moves, IInv, VectorsInv
<1>7. VectorsInv'
  <2>1. \A i \in 1 .. Len(vectorSIN) : Mapped(i)' \/ (i = Len(vectorSIN) /\ Unmapped')
    BY <1>3, <1>6 DEF IInv, VectorsInv, Mapped
  <2> QED
    BY <1>3, <1>4, <1>6, <2>1 DEF IInv, VectorsInv, NoDuplicate
<1>8. HandedInv'
  BY <1>3 DEF IInv, HandedInv, Mapped
<1>9. ThreadInv(t)'
  BY <1>1, <1>3 DEF IInv, Moves, ThreadInv
<1>10. BuffersInv'
  <2> SUFFICES ASSUME NEW i \in 1 .. Len(vectorSINStored')
               PROVE  \/ vectorSINStored'[i].size = 0 /\ vectorSINStored'[i].index = 0
                      \/ vectorSINStored'[i].index < vectorSINStored'[i].size
    BY DEF BuffersInv
  <2>1. i \in 1 .. Len(vectorSINStored) \/ i = Len(vectorSINStored) + 1
    BY <1>4, Types DEF IInv
  <2> QED
    BY <1>2, <1>4, <2>1 DEF IInv, BuffersInv
<1>11. SweepInv'
  <2>1. at \in Nat /\ Len(vectorSINStored) \in Nat /\ UNCHANGED <<at, sweep>>
    BY <1>1, Types DEF IInv, Moves
  <2>2. ASSUME sweep # "test"
        PROVE  at < Len(vectorSINStored') /\ vectorSINStored'[at + 1] = vectorSINStored[at + 1]
    <3>1. at < Len(vectorSINStored)
      BY <2>2 DEF IInv, SweepInv
    <3> QED
      BY <1>4, <2>1, <3>1
  <2> QED
    BY <2>1, <2>2 DEF IInv, SweepInv
<1>12. AbortsOnlyDangling'
  BY <1>1, <1>3 DEF Moves, AbortsOnlyDangling
<1> QED
  BY <1>1, <1>5, <1>7, <1>8, <1>9, <1>10, <1>11, <1>12, IdleThread DEF IInv, Moves

LEMMA MapNameInv == ASSUME IInv, NEW t \in Upcalls, MapName(t) PROVE IInv'
<1>1. Moves(t, "map", "return")
  BY GotoMoves DEF MapName, IInv, Labels
<1>2. name[t] \in Names /\ name[t] \notin BuiltIn
      /\ Len(vectorSIN) >= 1 /\ vectorSIN[Len(vectorSIN)] = name[t]
  BY <1>1 DEF IInv, TypeOK, ThreadInv, Moves
<1>3. /\ vectorName2Rank' = Put(vectorName2Rank, name[t], Len(vectorSIN) - 1)
      /\ UNCHANGED <<alive, name, rank, sizeOfTheBuffer, handed, vectorSIN, signalMap,
                     vectorSINStored, reference>>
  BY DEF MapName, clientVars, LastRank
<1>4. /\ DOMAIN vectorName2Rank' = DOMAIN vectorName2Rank \cup {name[t]}
      /\ vectorName2Rank'[name[t]] = Len(vectorSIN) - 1
      /\ \A n \in DOMAIN vectorName2Rank :
           n # name[t] => vectorName2Rank'[n] = vectorName2Rank[n]
  BY <1>3 DEF Put
<1>5. Len(vectorSIN) \in Nat /\ Len(vectorSIN) - 1 \in Nat
  BY <1>2, Types DEF IInv
<1>6. TypeOK'
  <2>1. DOMAIN vectorName2Rank' \subseteq Names
    BY <1>2, <1>4 DEF IInv, TypeOK
  <2>2. \A n \in DOMAIN vectorName2Rank' : vectorName2Rank'[n] \in Nat
    BY <1>4, <1>5 DEF IInv, TypeOK
  <2> QED
    BY <1>1, <1>3, <2>1, <2>2 DEF IInv, TypeOK, Moves
<1>7. \A i \in 1 .. Len(vectorSIN) : Mapped(i)'
  <2> SUFFICES ASSUME NEW i \in 1 .. Len(vectorSIN) PROVE Mapped(i)'
    OBVIOUS
  <2>1. CASE i = Len(vectorSIN)
    BY <1>2, <1>3, <1>4, <2>1 DEF Mapped
  <2>2. CASE i # Len(vectorSIN)
    <3>1. vectorSIN[i] # name[t]
      BY <1>2, <1>5, <2>2 DEF IInv, VectorsInv, NoDuplicate
    <3>2. Mapped(i)
      BY <2>2 DEF IInv, VectorsInv
    <3> QED
      BY <1>3, <1>4, <3>1, <3>2 DEF Mapped
  <2> QED
    BY <2>1, <2>2
<1>8. ~Creating /\ ~Creating'
  BY <1>1 DEF Moves
<1>9. VectorsInv'
  BY <1>3, <1>7, <1>8 DEF IInv, VectorsInv, NoDuplicate
<1>10. HandedInv'
  <2>1. \A p \in handed : p[2] \in Nat /\ Valid(vectorSIN, p[2])
    BY Types DEF IInv, HandedInv
  <2>2. \A p \in handed : p[2] + 1 \in 1 .. Len(vectorSIN)
    BY <1>5, <2>1 DEF Valid
  <2> QED
    BY <1>3, <1>7, <2>2 DEF IInv, HandedInv
<1>11. ThreadInv(t)'
  BY <1>1, <1>2, <1>3 DEF Moves, ThreadInv
<1>12. BuffersInv' /\ SweepInv'
  BY <1>1, <1>3, BuffersKept DEF IInv, Moves
<1>13. AbortsOnlyDangling'
  BY <1>1, <1>3 DEF Moves, AbortsOnlyDangling
<1> QED
  BY <1>1, <1>6, <1>9, <1>10, <1>11, <1>12, <1>13, IdleThread DEF IInv, Moves

(* The buffer exists, and keeps its place and its cells, if it has any.    *)
LEMMA ResizeBufferInv == ASSUME IInv, NEW t \in Upcalls, ResizeBuffer(t) PROVE IInv'
<1>1. Moves(t, "resize", "idle")
  BY GotoMoves DEF ResizeBuffer, IInv, Labels
<1> DEFINE r == rank[t]
           k == sizeOfTheBuffer[t]
<1>2. r \in Nat /\ k \in Nat /\ name[t] \in Names
  BY DEF IInv, TypeOK
<1>3. <<name[t], r>> \in handed /\ Grows(r, k)
  BY <1>1 DEF IInv, ThreadInv, Moves
<1>4. Valid(vectorSIN, r) /\ vectorSIN[r + 1] = name[t]
  BY <1>3 DEF IInv, HandedInv
<1>5. Len(vectorSIN) = Len(vectorSINStored) /\ r < Len(vectorSINStored)
  BY <1>1, <1>4, Types DEF Moves, IInv, VectorsInv, Valid
<1>6. /\ UNCHANGED <<alive, name, rank, sizeOfTheBuffer, handed, vectorSIN, signalMap,
                     vectorName2Rank>>
      /\ \/ /\ vectorSINStored' = [vectorSINStored EXCEPT ![r + 1].size = k]
            /\ MayMove(HoldsCell(r))
         \/ UNCHANGED <<vectorSINStored, reference>>
  BY <1>2, <1>5, Types DEF ResizeBuffer, IInv
<1>7. reference' \in {reference, "dangling"}
  BY <1>6 DEF MayMove
<1> HIDE DEF r, k
<1>8. r + 1 \in 1 .. Len(vectorSINStored)
  BY <1>2, <1>5, Types DEF IInv
<1> DEFINE b == [vectorSINStored[r + 1] EXCEPT !.size = k]
<1>9. b \in Buffer /\ b.size = k /\ b.index = vectorSINStored[r + 1].index
  BY <1>2, <1>8, Types DEF IInv, Buffer
<1>10. \/ vectorSINStored' = [vectorSINStored EXCEPT ![r + 1] = b]
       \/ vectorSINStored' = vectorSINStored
  BY <1>6
<1> HIDE DEF b
<1>11. /\ vectorSINStored' \in Seq(Buffer)
       /\ Len(vectorSINStored') = Len(vectorSINStored)
       /\ \A i \in 1 .. Len(vectorSINStored) :
            vectorSINStored'[i] = vectorSINStored[i] \/ (i = r + 1 /\ vectorSINStored'[i] = b)
  <2>1. CASE vectorSINStored' = [vectorSINStored EXCEPT ![r + 1] = b]
    BY <1>8, <1>9, <2>1, Types, ExceptSeq DEF IInv
  <2>2. CASE vectorSINStored' = vectorSINStored
    BY <2>2, Types DEF IInv
  <2> QED
    BY <1>10, <2>1, <2>2
<1>12. TypeOK'
  <2>1. vectorSINStored' \in Seq([size : Nat, index : Nat])
    BY <1>11 DEF Buffer
  <2>2. reference' \in {"good", "dangling", "used"}
    BY <1>7 DEF IInv, TypeOK
  <2> QED
    BY <1>1, <1>6, <2>1, <2>2 DEF IInv, TypeOK, Moves
<1>13. ~Creating' /\ ~Unmapped /\ ~Creating
  BY <1>1 DEF Moves
<1>14. VectorsInv'
  BY <1>6, <1>11, <1>13 DEF IInv, VectorsInv, NoDuplicate, Mapped
<1>15. HandedInv'
  BY <1>6 DEF IInv, HandedInv, Mapped
<1>16. k >= vectorSINStored[r + 1].size
  BY <1>3, <1>5 DEF Grows
<1>17. \A i \in 1 .. Len(vectorSINStored) :
         /\ vectorSINStored'[i].index = vectorSINStored[i].index
         /\ vectorSINStored'[i].size >= vectorSINStored[i].size
         /\ vectorSINStored'[i].size \in Nat /\ vectorSINStored[i].size \in Nat
         /\ vectorSINStored[i].index \in Nat
  <2> SUFFICES ASSUME NEW i \in 1 .. Len(vectorSINStored)
               PROVE  /\ vectorSINStored'[i].index = vectorSINStored[i].index
                      /\ vectorSINStored'[i].size >= vectorSINStored[i].size
                      /\ vectorSINStored'[i].size \in Nat
                      /\ vectorSINStored[i].size \in Nat
                      /\ vectorSINStored[i].index \in Nat
    OBVIOUS
  <2>1. vectorSINStored[i].size \in Nat /\ vectorSINStored[i].index \in Nat
    BY Types DEF IInv
  <2>2. CASE vectorSINStored'[i] = vectorSINStored[i]
    BY <2>1, <2>2
  <2>3. CASE i = r + 1 /\ vectorSINStored'[i] = b
    BY <1>2, <1>9, <1>16, <2>1, <2>3
  <2> QED
    BY <1>11, <2>2, <2>3
<1>18. BuffersInv'
  <2> SUFFICES ASSUME NEW i \in 1 .. Len(vectorSINStored)
               PROVE  \/ vectorSINStored'[i].size = 0 /\ vectorSINStored'[i].index = 0
                      \/ vectorSINStored'[i].index < vectorSINStored'[i].size
    BY <1>11 DEF BuffersInv
  <2>1. \/ vectorSINStored[i].size = 0 /\ vectorSINStored[i].index = 0
        \/ vectorSINStored[i].index < vectorSINStored[i].size
    BY DEF IInv, BuffersInv
  <2> QED
    BY <1>17, <2>1
<1>19. SweepInv'
  <2>1. at \in Nat /\ Len(vectorSINStored) \in Nat /\ UNCHANGED <<at, sweep>>
    BY <1>1, Types DEF IInv, Moves
  <2>2. at < Len(vectorSINStored) => at + 1 \in 1 .. Len(vectorSINStored)
    BY <2>1
  <2>3. at < Len(vectorSINStored) /\ vectorSINStored[at + 1].size # 0 =>
           vectorSINStored'[at + 1].size # 0
    BY <1>17, <2>2
  <2>4. SweepInv
    BY DEF IInv
  <2> QED
    BY <1>11, <2>1, <2>3, <2>4 DEF SweepInv
<1>20. AbortsOnlyDangling'
  BY <1>1, <1>6 DEF Moves, AbortsOnlyDangling
<1> QED
  BY <1>1, <1>12, <1>14, <1>15, <1>18, <1>19, <1>20, IdleThread DEF IInv, Moves

-----------------------------------------------------------------------------
(* The steps of synchroValue.                                              *)

LEMMA SweepsFrame ==
  ASSUME NEW here, NEW there, Sweeps(here, there)
  PROVE  /\ alive /\ sweep = here /\ sweep' = there
         /\ UNCHANGED <<pc, name, rank, sizeOfTheBuffer, handed,
                        vectorSIN, signalMap, vectorName2Rank>>
BY DEF Sweeps, clientVars

(* A step of the sweep disturbs the buffers and its own place only.        *)
LEMMA ControlKept ==
  ASSUME IInv, NEW here, NEW there, Sweeps(here, there),
         Len(vectorSINStored') = Len(vectorSINStored),
         \A i \in 1 .. Len(vectorSINStored) : vectorSINStored'[i].size = vectorSINStored[i].size
  PROVE  /\ OneCall' /\ VectorsInv' /\ HandedInv'
         /\ \A t \in Upcalls : ThreadInv(t)'
<1>1. UNCHANGED <<pc, name, rank, sizeOfTheBuffer, handed,
                  vectorSIN, signalMap, vectorName2Rank>>
  BY SweepsFrame
<1>2. OneCall' /\ HandedInv'
  BY <1>1 DEF IInv, OneCall, HandedInv, Mapped
<1>3. VectorsInv'
  <2>1. Creating' = Creating /\ Unmapped' = Unmapped
    BY <1>1 DEF Creating, Unmapped
  <2> QED
    BY <1>1, <2>1 DEF IInv, VectorsInv, NoDuplicate, Mapped
<1>4. \A t \in Upcalls : ThreadInv(t)'
  <2>1. ASSUME NEW r \in Nat, NEW k, Grows(r, k) PROVE Grows(r, k)'
    BY <2>1, Types DEF Grows, IInv
  <2>2. \A p \in handed : p[2] \in Nat
    BY DEF IInv, TypeOK
  <2> SUFFICES ASSUME NEW t \in Upcalls PROVE ThreadInv(t)'
    OBVIOUS
  <2>3. ThreadInv(t) /\ rank[t] \in Nat
    BY DEF IInv, TypeOK
  <2> QED
    BY <1>1, <2>1, <2>2, <2>3 DEF ThreadInv, Grows
<1> QED
  BY <1>2, <1>3, <1>4

(* An access to what exists is fatal only through a reference that dangles.*)
LEMMA AccessSafe ==
  ASSUME TypeOK, NEW exists, exists = TRUE, Access(exists)
  PROVE  /\ alive' \in BOOLEAN /\ reference' \in {"good", "dangling", "used"}
         /\ AbortsOnlyDangling'
<1>1. reference \in {"good", "dangling", "used"}
  BY DEF TypeOK
<1>2. reference' = IF reference = "dangling" THEN "used" ELSE reference
  BY DEF Access
<1>3. alive' \in IF reference = "good" THEN {TRUE} ELSE BOOLEAN
  BY DEF Access
<1>4. CASE reference = "good"
  BY <1>2, <1>3, <1>4 DEF AbortsOnlyDangling
<1>5. CASE reference # "good"
  <2>1. alive' \in BOOLEAN /\ reference' = "used"
    BY <1>1, <1>2, <1>3, <1>5
  <2> QED
    BY <2>1 DEF AbortsOnlyDangling
<1> QED
  BY <1>4, <1>5

(* The types after a step of the sweep. *)
LEMMA ControlTypes ==
  ASSUME TypeOK, NEW here, NEW there, Sweeps(here, there),
         there \in {"test", "buffer", "signal", "cell", "store"},
         at' \in {at, at + 1, 0}, vectorSINStored' \in Seq(Buffer),
         alive' \in BOOLEAN, reference' \in {"good", "dangling", "used"}
  PROVE  TypeOK'
<1>1. /\ sweep' = there
      /\ UNCHANGED <<pc, name, rank, sizeOfTheBuffer, handed,
                     vectorSIN, signalMap, vectorName2Rank>>
  BY SweepsFrame
<1>2. at' \in Nat
  BY Types
<1> QED
  BY <1>1, <1>2 DEF TypeOK, Buffer

LEMMA TestBoundInv == ASSUME IInv, TestBound PROVE IInv'
<1>1. UNCHANGED <<alive, vectorSINStored, reference>>
  BY DEF TestBound
<1>2. ASSUME NEW there \in {"test", "buffer"}, Sweeps("test", there), at' \in {at, 0},
             there = "buffer" => at' < Len(vectorSINStored)
      PROVE  IInv'
  <2>1. alive /\ sweep' = there
    BY <1>2, SweepsFrame
  <2>2. TypeOK'
    <3>1. alive' \in BOOLEAN /\ reference' \in {"good", "dangling", "used"}
          /\ vectorSINStored' \in Seq(Buffer)
      BY <1>1, Types DEF IInv, TypeOK
    <3> QED
      BY <1>2, <3>1, ControlTypes DEF IInv
  <2>3. BuffersInv' /\ SweepInv' /\ AbortsOnlyDangling'
    BY <1>1, <1>2, <2>1 DEF IInv, BuffersInv, SweepInv, AbortsOnlyDangling
  <2> QED
    BY <1>1, <1>2, <2>2, <2>3, ControlKept DEF IInv
<1> QED
  BY <1>2 DEF TestBound

LEMMA TakeBufferInv == ASSUME IInv, TakeBuffer PROVE IInv'
<1>1. vectorSINStored' = vectorSINStored /\ Access(at < Len(vectorSINStored))
  BY DEF TakeBuffer
<1>2. sweep = "buffer"
  BY DEF TakeBuffer, Sweeps
<1>3. at < Len(vectorSINStored)
  BY <1>2 DEF IInv, SweepInv
<1>4. /\ alive' \in BOOLEAN /\ reference' \in {"good", "dangling", "used"}
      /\ AbortsOnlyDangling'
  BY <1>1, <1>3, AccessSafe DEF IInv
<1>5. ASSUME NEW there \in {"test", "signal"}, Sweeps("buffer", there), at' \in {at, at + 1},
             there = "signal" => at' = at /\ vectorSINStored[at + 1].size # 0
      PROVE  IInv'
  <2>1. sweep' = there
    BY <1>5, SweepsFrame
  <2>2. TypeOK'
    BY <1>1, <1>4, <1>5, ControlTypes, Types DEF IInv
  <2>3. BuffersInv' /\ SweepInv'
    BY <1>1, <1>3, <1>5, <2>1 DEF IInv, BuffersInv, SweepInv
  <2> QED
    BY <1>1, <1>4, <1>5, <2>2, <2>3, ControlKept DEF IInv
<1> QED
  BY <1>5 DEF TakeBuffer

LEMMA UseSignalInv == ASSUME IInv, UseSignal PROVE IInv'
<1>1. vectorSINStored' = vectorSINStored
  BY DEF UseSignal
<1>2. alive /\ sweep = "signal"
  BY DEF UseSignal, Sweeps
<1>3. at < Len(vectorSINStored) /\ vectorSINStored[at + 1].size # 0
  BY <1>2 DEF IInv, SweepInv
<1>4. at < Len(vectorSIN)
  BY <1>3, Types DEF IInv, VectorsInv
<1>5. alive' = TRUE /\ reference' \in {"good", "dangling", "used"}
  BY <1>2, <1>4 DEF UseSignal, Forget, IInv, TypeOK
<1>6. ASSUME NEW there \in {"test", "cell"}, Sweeps("signal", there), at' \in {at, 0},
             there = "cell" => at' = at
      PROVE  IInv'
  <2>1. sweep' = there
    BY <1>6, SweepsFrame
  <2>2. TypeOK'
    BY <1>1, <1>5, <1>6, ControlTypes, Types DEF IInv
  <2>3. BuffersInv' /\ SweepInv' /\ AbortsOnlyDangling'
    BY <1>1, <1>3, <1>5, <1>6, <2>1 DEF IInv, BuffersInv, SweepInv, AbortsOnlyDangling
  <2> QED
    BY <1>1, <1>6, <2>2, <2>3, ControlKept DEF IInv
<1> QED
  BY <1>6 DEF UseSignal

LEMMA TakeCellInv == ASSUME IInv, TakeCell PROVE IInv'
<1>1. /\ Sweeps("cell", "store") /\ UNCHANGED <<at, vectorSINStored>>
      /\ Access(vectorSINStored[at + 1].index < vectorSINStored[at + 1].size)
  BY DEF TakeCell
<1>2. sweep = "cell" /\ sweep' = "store"
  BY <1>1, SweepsFrame
<1>3. at < Len(vectorSINStored) /\ vectorSINStored[at + 1].size # 0
  BY <1>2 DEF IInv, SweepInv
<1>4. at + 1 \in 1 .. Len(vectorSINStored)
  BY <1>3, Types DEF IInv
<1>5. vectorSINStored[at + 1].index < vectorSINStored[at + 1].size
  BY <1>3, <1>4 DEF IInv, BuffersInv
<1>6. /\ alive' \in BOOLEAN /\ reference' \in {"good", "dangling", "used"}
      /\ AbortsOnlyDangling'
  BY <1>1, <1>5, AccessSafe DEF IInv
<1>7. TypeOK'
  BY <1>1, <1>6, ControlTypes, Types DEF IInv
<1>8. BuffersInv' /\ SweepInv'
  BY <1>1, <1>2, <1>3 DEF IInv, BuffersInv, SweepInv
<1> QED
  BY <1>1, <1>6, <1>7, <1>8, ControlKept DEF IInv

(* The write position stays among the cells. *)
LEMMA AdvanceStays ==
  ASSUME NEW ds \in Buffer, ds.index < ds.size
  PROVE  /\ Advance(ds) \in Buffer /\ Advance(ds).size = ds.size
         /\ Advance(ds).index < ds.size
<1>1. ds.size \in Nat /\ ds.index \in Nat
  BY DEF Buffer
<1> DEFINE next == IF ds.index + 1 = ds.size THEN 0 ELSE ds.index + 1
<1>2. next \in Nat /\ next < ds.size
  BY <1>1
<1>3. Advance(ds) = [ds EXCEPT !.index = next]
  BY DEF Advance
<1> HIDE DEF next
<1> QED
  BY <1>2, <1>3 DEF Buffer

LEMMA StoreSampleInv == ASSUME IInv, StoreSample PROVE IInv'
<1>1. Sweeps("store", "test") /\ at' = at + 1 /\ Access(TRUE)
  BY DEF StoreSample
<1>2. sweep = "store" /\ sweep' = "test"
  BY <1>1, SweepsFrame
<1>3. at < Len(vectorSINStored) /\ vectorSINStored[at + 1].size # 0
  BY <1>2 DEF IInv, SweepInv
<1>4. at + 1 \in 1 .. Len(vectorSINStored)
  BY <1>3, Types DEF IInv
<1>5. vectorSINStored[at + 1].index < vectorSINStored[at + 1].size
  BY <1>3, <1>4 DEF IInv, BuffersInv
<1> DEFINE b == Advance(vectorSINStored[at + 1])
<1>6. b \in Buffer /\ b.size = vectorSINStored[at + 1].size /\ b.index < b.size
  BY <1>4, <1>5, Types, AdvanceStays DEF IInv
<1>7. vectorSINStored' \in {[vectorSINStored EXCEPT ![at + 1] = b], vectorSINStored}
  BY DEF StoreSample
<1> HIDE DEF b
<1>8. /\ vectorSINStored' \in Seq(Buffer) /\ Len(vectorSINStored') = Len(vectorSINStored)
      /\ \A i \in 1 .. Len(vectorSINStored) :
           vectorSINStored'[i] \in {vectorSINStored[i], IF i = at + 1 THEN b ELSE vectorSINStored[i]}
  <2>1. CASE vectorSINStored' = vectorSINStored
    BY <2>1, Types DEF IInv
  <2>2. CASE vectorSINStored' = [vectorSINStored EXCEPT ![at + 1] = b]
    BY <1>4, <1>6, <2>2, Types, ExceptSeq DEF IInv
  <2> QED
    BY <1>7, <2>1, <2>2
<1>9. \A i \in 1 .. Len(vectorSINStored) : vectorSINStored'[i].size = vectorSINStored[i].size
  BY <1>6, <1>8
<1>10. /\ alive' \in BOOLEAN /\ reference' \in {"good", "dangling", "used"}
       /\ AbortsOnlyDangling'
  BY <1>1, AccessSafe DEF IInv
<1>11. TypeOK'
  BY <1>1, <1>8, <1>10, ControlTypes DEF IInv
<1>12. BuffersInv'
  BY <1>6, <1>8 DEF IInv, BuffersInv
<1>13. SweepInv'
  BY <1>2 DEF SweepInv
<1> QED
  BY <1>1, <1>8, <1>9, <1>10, <1>11, <1>12, <1>13, ControlKept DEF IInv

-----------------------------------------------------------------------------
LEMMA StepInv == IInv /\ [SerialNext]_vars => IInv'
<1> SUFFICES ASSUME IInv, [SerialNext]_vars PROVE IInv'
  OBVIOUS
<1>1. ASSUME Control PROVE IInv'
  BY <1>1, TestBoundInv, TakeBufferInv, UseSignalInv, TakeCellInv, StoreSampleInv DEF Control
<1>2. ASSUME NEW t \in Upcalls, Running(t) PROVE IInv'
  BY <1>2, FindInv, PushSignalInv, RegisterInv, PushBufferInv, MapNameInv, ReturnInv,
     LookUpInv, ResizeBufferInv DEF Running
<1>3. ASSUME NEW t \in Upcalls, Call(t), \A u \in Upcalls : pc[u] = "idle" PROVE IInv'
  BY <1>3, CallCreateInv, CallBufferInv DEF Call
<1>4. ASSUME UNCHANGED vars PROVE IInv'
  <2>1. UNCHANGED <<alive, pc, name, rank, sizeOfTheBuffer, vectorSIN, signalMap,
                    vectorSINStored, vectorName2Rank, handed, at, sweep, reference>>
    BY <1>4 DEF vars, clientVars, vectors, controlVars
  <2>2. TypeOK' /\ OneCall' /\ HandedInv' /\ AbortsOnlyDangling'
    BY <2>1 DEF IInv, TypeOK, OneCall, HandedInv, Mapped, AbortsOnlyDangling
  <2>3. VectorsInv'
    BY <2>1 DEF IInv, VectorsInv, NoDuplicate, Mapped, Creating, Unmapped
  <2>4. BuffersInv' /\ SweepInv'
    BY <2>1, BuffersKept DEF IInv
  <2>5. ASSUME NEW t \in Upcalls PROVE ThreadInv(t)'
    BY <2>1 DEF IInv, ThreadInv, Grows
  <2> QED
    BY <2>2, <2>3, <2>4, <2>5 DEF IInv
<1> QED
  BY <1>1, <1>2, <1>3, <1>4 DEF SerialNext

(* Upcalls that run one after the other keep the inductive invariant: the  *)
(* vectors, the map and what clients were told agree but for what the one  *)
(* call in progress has still to do (server-command.cpp:245-290).          *)
THEOREM ThreadsInvariant == SerialSpec => []IInv
BY InitInv, StepInv, PTL DEF SerialSpec

(* The shared vectors and the locals of the handlers have the types of     *)
(* server-command.h (server-command.h:82-85).                              *)
THEOREM ThreadsTypeCorrect == SerialSpec => []TypeOK
<1>1. IInv => TypeOK
  BY DEF IInv
<1> QED
  BY <1>1, ThreadsInvariant, PTL

LEMMA CreatingThreads ==
  ASSUME OneCall
  PROVE  Cardinality({t \in Upcalls : pc[t] \in {"register", "store"}})
            = IF Creating THEN 1 ELSE 0
<1> DEFINE C == {t \in Upcalls : pc[t] \in {"register", "store"}}
<1>1. CASE Creating
  <2>1. PICK t \in Upcalls : pc[t] \in {"register", "store"}
    BY <1>1 DEF Creating
  <2>2. C = {t}
    BY <2>1 DEF OneCall
  <2> QED
    BY <1>1, <2>2, FS_Singleton
<1>2. CASE ~Creating
  <2>1. C = {}
    BY <1>2 DEF Creating
  <2> QED
    BY <1>2, <2>1, FS_EmptySet
<1> QED
  BY <1>1, <1>2

(* Every signal has its buffer, but the one whose creation is between the  *)
(* two push_backs (server-command.cpp:265-269).                            *)
THEOREM BuffersAlwaysFollow == SerialSpec => []BuffersFollowSignals
<1>1. IInv => BuffersFollowSignals
  <2> SUFFICES ASSUME IInv PROVE BuffersFollowSignals
    OBVIOUS
  <2>1. Len(vectorSIN) = Len(vectorSINStored) + (IF Creating THEN 1 ELSE 0)
    BY DEF IInv, VectorsInv
  <2> QED
    BY <2>1, CreatingThreads DEF IInv, BuffersFollowSignals
<1> QED
  BY <1>1, ThreadsInvariant, PTL

(* However the sweep of the control thread interleaves with one upcall at a*)
(* time, whose clients buffer only signals they were handed and never make *)
(* a buffer smaller, nothing but a reference to memory that was moved can  *)
(* kill the process (server-command.cpp:265-290, 424-456).                 *)
THEOREM OnlyDanglingAborts == SerialSpec => []AbortsOnlyDangling
<1>1. IInv => AbortsOnlyDangling
  BY DEF IInv
<1> QED
  BY <1>1, ThreadsInvariant, PTL

-----------------------------------------------------------------------------
LEMMA RankOfLast ==
  ASSUME IInv, Len(vectorSIN) >= 1
  PROVE  RankOf(vectorSIN, vectorSIN[Len(vectorSIN)]) = Len(vectorSIN) - 1
<1> DEFINE n == vectorSIN[Len(vectorSIN)]
           p == CHOOSE i \in 1 .. Len(vectorSIN) : vectorSIN[i] = n
<1>1. Len(vectorSIN) \in 1 .. Len(vectorSIN)
  BY Types DEF IInv
<1>2. p \in 1 .. Len(vectorSIN) /\ vectorSIN[p] = n
  BY <1>1
<1>3. p = Len(vectorSIN)
  BY <1>1, <1>2 DEF IInv, VectorsInv, NoDuplicate
<1>4. RankOf(vectorSIN, n) = p - 1
  BY DEF RankOf
<1> QED
  BY <1>3, <1>4

LEMMA TableStep == IInv /\ [SerialNext]_vars => [Table!Next]_Table!vars
<1> SUFFICES ASSUME IInv, [SerialNext]_vars PROVE [Table!Next]_Table!vars
  OBVIOUS
<1>1. ASSUME UNCHANGED <<vectorSIN, handed>> PROVE [Table!Next]_Table!vars
  BY <1>1 DEF Table!vars
<1>2. ASSUME NEW n \in Names,
             vectorSIN' = IF n \in Range(vectorSIN) THEN vectorSIN ELSE Append(vectorSIN, n),
             handed' \in {handed, handed \cup {<<n, RankOf(vectorSIN', n)>>}}
      PROVE  [Table!Next]_Table!vars
  <2>1. Table!Create(n)
    BY <1>2 DEF Table!Create, Table!Range, Range, Table!RankOf, RankOf
  <2> QED
    BY <2>1 DEF Table!Next
<1>3. ASSUME NEW t \in Upcalls, Find(t) PROVE [Table!Next]_Table!vars
  <2>1. name[t] \in Names /\ UNCHANGED vectorSIN
    BY <1>3 DEF Find, vectors, IInv, TypeOK
  <2>2. CASE name[t] \in Range(vectorSIN)
    <3>1. handed' = handed \cup {<<name[t], RankOf(vectorSIN, name[t])>>}
      BY <1>3, <2>2 DEF Find
    <3> QED
      BY <1>2, <2>1, <2>2, <3>1
  <2>3. CASE name[t] \notin Range(vectorSIN)
    BY <1>1, <1>3, <2>1, <2>3 DEF Find
  <2> QED
    BY <2>2, <2>3
<1>4. ASSUME NEW t \in Upcalls, PushSignal(t) PROVE [Table!Next]_Table!vars
  <2>1. vectorSIN' = Append(vectorSIN, name[t]) /\ handed' = handed
    BY <1>4 DEF PushSignal, clientVars
  <2>2. pc[t] = "push"
    BY <1>4 DEF PushSignal, Goto
  <2>3. name[t] \in Names /\ name[t] \notin Range(vectorSIN)
    BY <2>2 DEF IInv, TypeOK, ThreadInv
  <2> QED
    BY <1>2, <2>1, <2>3
<1>5. ASSUME NEW t \in Upcalls, Return(t) PROVE [Table!Next]_Table!vars
  <2>1. UNCHANGED vectorSIN /\ handed' = handed \cup {<<name[t], LastRank(vectorSIN)>>}
    BY <1>5 DEF Return, vectors
  <2>2. pc[t] = "return"
    BY <1>5 DEF Return, Goto
  <2>3. name[t] \in Names /\ Len(vectorSIN) >= 1 /\ vectorSIN[Len(vectorSIN)] = name[t]
    BY <2>2 DEF IInv, TypeOK, ThreadInv
  <2>4. name[t] \in Range(vectorSIN)
    BY <2>3, Types DEF IInv
  <2>5. RankOf(vectorSIN, name[t]) = LastRank(vectorSIN)
    BY <2>3, RankOfLast DEF LastRank
  <2> QED
    BY <1>2, <2>1, <2>3, <2>4, <2>5
<1>6. ASSUME NEW t \in Upcalls,
             \/ Register(t) \/ PushBuffer(t) \/ MapName(t) \/ LookUp(t) \/ ResizeBuffer(t)
             \/ Call(t)
      PROVE  UNCHANGED <<vectorSIN, handed>>
  BY <1>6 DEF Register, PushBuffer, MapName, LookUp, ResizeBuffer, Call, CallCreate, CallBuffer,
     clientVars, vectors
<1>7. ASSUME Control PROVE UNCHANGED <<vectorSIN, handed>>
  BY <1>7 DEF Control, TestBound, TakeBuffer, UseSignal, TakeCell, StoreSample, Sweeps, clientVars
<1>8. ASSUME UNCHANGED vars PROVE UNCHANGED <<vectorSIN, handed>>
  BY <1>8 DEF vars, vectors, clientVars
<1> QED
  BY <1>1, <1>3, <1>4, <1>5, <1>6, <1>7, <1>8 DEF SerialNext, Running

(* Taken apart into its accesses, creation is still the growing table that *)
(* atomic handlers implement: a name has one rank, and no other is returned*)
(* for it (server-command.cpp:245-276).                                    *)
THEOREM SerialImplementsTable == SerialSpec => TableSpec
<1>1. Init => Table!Init
  BY DEF Init, Table!Init
<1> QED
  BY <1>1, TableStep, ThreadsInvariant, PTL DEF SerialSpec, TableSpec, Table!Spec
=============================================================================
