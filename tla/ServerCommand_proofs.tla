------------------------ MODULE ServerCommand_proofs ------------------------
(***************************************************************************)
(* Theorems about ServerCommand, for every set of names, values and sizes. *)
(*                                                                         *)
(* The invariants are proved to be preserved by AnyStep, which any use of  *)
(* the entity (Next) and the protocol (ProtocolNext) both refine: one      *)
(* proof serves both specifications.                                       *)
(***************************************************************************)
EXTENDS ServerCommand, DataStack_proofs

USE DEF LastRank

AnyStep ==
  \/ \E n \in Names : CreateOutputVectorSignal(n)
  \/ \E n \in Names : CreateInputVectorSignal(n)
  \/ \E r \in Int, v \in Vectors : WriteOutputVectorSignal(r, v)
  \/ \E r : ReadInputVectorSignal(r)
  \/ \E ranks : ReadSeqInputVectorSignal(ranks)
  \/ \E n \in Names, k \in Nat : BufferSignal(n, k)
  \/ SynchroValue
  \/ \E i \in 1 .. Len(source), v \in Vectors \cup {NoValue} : SourceChange(i, v)

-----------------------------------------------------------------------------
(* Types. *)

LEMMA BlankType == Blank \in Slot
BY EmptySeq DEF Blank, Slot

LEMMA InitType == Init => TypeOK
<1> SUFFICES ASSUME Init PROVE TypeOK
  OBVIOUS
<1>1. << >> \in Seq(Names) /\ << >> \in Seq(Vectors \cup {NoValue})
      /\ << >> \in Seq(StackOf(Slot))
  BY EmptySeq
<1>2. DOMAIN vectorName2Rank = {}
  BY DEF Init
<1> QED
  BY <1>1, <1>2 DEF Init, TypeOK

LEMMA CreateOutputType ==
  ASSUME TypeOK, NEW n \in Names, CreateOutputVectorSignal(n)
  PROVE  TypeOK'
<1>1. UNCHANGED <<now, vectorSIN, source, inRanks, vectorSINStored, vectorName2Rank>>
  BY DEF CreateOutputVectorSignal, inVars
<1>2. alive' \in BOOLEAN
  BY DEF CreateOutputVectorSignal, Abort, TypeOK
<1>3. /\ vectorSOUT' \in Seq(Names)
      /\ outValue' \in Seq(Vectors \cup {NoValue})
      /\ outRanks' \subseteq Names \X Nat
  <2>1. CASE n \in Range(vectorSOUT) /\ UNCHANGED <<vectorSOUT, outValue>>
             /\ outRanks' = outRanks \cup {<<n, RankOf(vectorSOUT, n)>>}
    <3>1. PICK i \in 1 .. Len(vectorSOUT) : vectorSOUT[i] = n
      BY <2>1, LenProperties DEF Range, TypeOK
    <3>2. RankOf(vectorSOUT, n) \in Nat
      BY <3>1 DEF RankOf
    <3> QED
      BY <2>1, <3>2 DEF TypeOK
  <2>2. CASE /\ vectorSOUT' = Append(vectorSOUT, n)
             /\ outValue' = Append(outValue, NoValue)
             /\ outRanks' = outRanks \cup {<<n, LastRank(vectorSOUT')>>}
    <3>1. /\ vectorSOUT' \in Seq(Names) /\ Len(vectorSOUT') = Len(vectorSOUT) + 1
          /\ outValue' \in Seq(Vectors \cup {NoValue})
      BY <2>2, AppendProperties DEF TypeOK
    <3>2. Len(vectorSOUT') - 1 \in Nat
      BY <3>1, LenProperties DEF TypeOK
    <3> QED
      BY <2>2, <3>1, <3>2 DEF TypeOK
  <2>3. CASE UNCHANGED outVars
    BY <2>3 DEF TypeOK, outVars
  <2> QED
    BY <2>1, <2>2, <2>3 DEF CreateOutputVectorSignal
<1> QED
  BY <1>1, <1>2, <1>3 DEF TypeOK

LEMMA CreateInputType ==
  ASSUME TypeOK, NEW n \in Names, CreateInputVectorSignal(n)
  PROVE  TypeOK'
<1>1. UNCHANGED <<now, vectorSOUT, outValue, outRanks>>
  BY DEF CreateInputVectorSignal, outVars
<1>2. alive' \in BOOLEAN
  BY DEF CreateInputVectorSignal, Abort, TypeOK
<1>3. /\ vectorSIN' \in Seq(Names)
      /\ source' \in Seq(Vectors \cup {NoValue})
      /\ vectorSINStored' \in Seq(StackOf(Slot))
      /\ DOMAIN vectorName2Rank' \subseteq Names
      /\ vectorName2Rank' \in [DOMAIN vectorName2Rank' -> Nat]
      /\ inRanks' \subseteq Names \X Nat
  <2>1. CASE n \in Range(vectorSIN)
             /\ UNCHANGED <<vectorSIN, source, vectorSINStored, vectorName2Rank>>
             /\ inRanks' = inRanks \cup {<<n, RankOf(vectorSIN, n)>>}
    <3>1. PICK i \in 1 .. Len(vectorSIN) : vectorSIN[i] = n
      BY <2>1, LenProperties DEF Range, TypeOK
    <3>2. RankOf(vectorSIN, n) \in Nat
      BY <3>1 DEF RankOf
    <3> QED
      BY <2>1, <3>2 DEF TypeOK
  <2>2. CASE /\ vectorSIN' = Append(vectorSIN, n)
             /\ source' = Append(source, NoValue)
             /\ vectorSINStored' = Append(vectorSINStored, EmptyStack)
             /\ vectorName2Rank' = Put(vectorName2Rank, n, LastRank(vectorSIN'))
             /\ inRanks' = inRanks \cup {<<n, LastRank(vectorSIN')>>}
    <3>1. /\ vectorSIN' \in Seq(Names) /\ Len(vectorSIN') = Len(vectorSIN) + 1
          /\ source' \in Seq(Vectors \cup {NoValue})
          /\ vectorSINStored' \in Seq(StackOf(Slot))
      BY <2>2, AppendProperties, EmptyStackType DEF TypeOK
    <3>2. Len(vectorSIN') - 1 \in Nat
      BY <3>1, LenProperties DEF TypeOK
    <3>3. /\ DOMAIN vectorName2Rank' = DOMAIN vectorName2Rank \cup {n}
          /\ \A x \in DOMAIN vectorName2Rank' :
               vectorName2Rank'[x] = IF x = n THEN Len(vectorSIN') - 1
                                              ELSE vectorName2Rank[x]
          /\ vectorName2Rank' \in [DOMAIN vectorName2Rank \cup {n} -> Nat]
      BY <2>2, <3>2 DEF Put, TypeOK
    <3> QED
      BY <2>2, <3>1, <3>2, <3>3 DEF TypeOK
  <2>3. CASE UNCHANGED <<inVars, vectorSINStored, vectorName2Rank>>
    BY <2>3 DEF TypeOK, inVars
  <2> QED
    BY <2>1, <2>2, <2>3 DEF CreateInputVectorSignal
<1> QED
  BY <1>1, <1>2, <1>3 DEF TypeOK

LEMMA BufferType ==
  ASSUME TypeOK, NEW n \in Names, NEW k \in Nat, BufferSignal(n, k)
  PROVE  TypeOK'
<1>1. UNCHANGED <<now, vectorSOUT, outValue, outRanks, vectorSIN, source, inRanks>>
  BY DEF BufferSignal, outVars, inVars
<1>2. alive' \in BOOLEAN
  BY DEF BufferSignal, Abort, TypeOK
<1>3. LookUp(n) \in Nat
  BY DEF LookUp, Get, TypeOK
<1>4. /\ DOMAIN vectorName2Rank' \subseteq Names
      /\ vectorName2Rank' \in [DOMAIN vectorName2Rank' -> Nat]
  BY <1>3 DEF BufferSignal, Put, TypeOK
<1>5. vectorSINStored' \in Seq(StackOf(Slot))
  <2>1. CASE /\ LookUp(n) < Len(vectorSINStored)
             /\ vectorSINStored' =
                  [vectorSINStored EXCEPT ![LookUp(n) + 1] = Resize(@, k)]
    <3>1. LookUp(n) + 1 \in 1 .. Len(vectorSINStored)
      BY <1>3, <2>1, LenProperties DEF TypeOK
    <3>2. Resize(vectorSINStored[LookUp(n) + 1], k) \in StackOf(Slot)
      BY <3>1, BlankType, ResizeType, ElementOfSeq DEF TypeOK
    <3> QED
      BY <2>1, <3>1, <3>2, ExceptSeq DEF TypeOK
  <2>2. CASE UNCHANGED vectorSINStored
    BY <2>2 DEF TypeOK
  <2> QED
    BY <2>1, <2>2 DEF BufferSignal
<1> QED
  BY <1>1, <1>2, <1>4, <1>5 DEF TypeOK

(* What a tick does to each buffer. *)
LEMMA TickStores ==
  ASSUME TypeOK, RanksAgree, SynchroValue,
         NEW i \in 1 .. Len(vectorSINStored), Buffered(i), Swept(i)
  PROVE  LET sample == [ts |-> now', data |-> source[i]] IN
         /\ source[i] \in Vectors
         /\ sample \in Slot
         /\ vectorSINStored[i] \in StackOf(Slot)
         /\ vectorSINStored'[i] = Store(vectorSINStored[i], sample)
         /\ Store(vectorSINStored[i], sample) \in StackOf(Slot)
<1>1. source[i] \in Vectors
  <2>1. source[i] # NoValue
    BY DEF Swept
  <2> QED
    BY <2>1, ElementOfSeq DEF RanksAgree, TypeOK
<1>2. [ts |-> now', data |-> source[i]] \in Slot
  BY <1>1, VectorsAssumption DEF SynchroValue, Slot, TypeOK
<1>3. vectorSINStored[i] \in StackOf(Slot)
  BY ElementOfSeq DEF TypeOK
<1>4. vectorSINStored'[i] = Store(vectorSINStored[i], [ts |-> now', data |-> source[i]])
  BY DEF SynchroValue
<1> QED
  BY <1>1, <1>2, <1>3, <1>4, StoreType

LEMMA SynchroType ==
  ASSUME TypeOK, RanksAgree, SynchroValue
  PROVE  /\ TypeOK'
         /\ Len(vectorSINStored') = Len(vectorSINStored)
<1> DEFINE f == [i \in 1 .. Len(vectorSINStored) |->
                   IF Buffered(i) /\ Swept(i)
                   THEN Store(vectorSINStored[i], [ts |-> now', data |-> source[i]])
                   ELSE vectorSINStored[i]]
<1>1. vectorSINStored' = f
  BY DEF SynchroValue
<1>2. ASSUME NEW i \in 1 .. Len(vectorSINStored)
      PROVE  f[i] \in StackOf(Slot)
  <2>1. CASE Buffered(i) /\ Swept(i)
    BY <2>1, TickStores
  <2>2. CASE ~(Buffered(i) /\ Swept(i))
    BY <2>2, ElementOfSeq DEF TypeOK
  <2> QED
    BY <2>1, <2>2
<1>3. f \in [1 .. Len(vectorSINStored) -> StackOf(Slot)]
  BY <1>2
<1>4. Len(vectorSINStored) \in Nat
  BY LenProperties DEF TypeOK
<1> HIDE DEF f
<1>5. vectorSINStored' \in Seq(StackOf(Slot)) /\ Len(vectorSINStored') = Len(vectorSINStored)
  BY <1>1, <1>3, <1>4, FcnIsSeq
<1>6. UNCHANGED <<vectorSOUT, outValue, outRanks, vectorSIN, source, inRanks,
                 vectorName2Rank>>
  BY DEF SynchroValue, outVars, inVars
<1>7. now' \in Nat
  BY DEF SynchroValue, TypeOK
<1>8. alive' \in BOOLEAN
  BY Zenon DEF SynchroValue, TypeOK
<1> QED
  BY <1>5, <1>6, <1>7, <1>8 DEF TypeOK

(* Calls that change neither the input signals nor their buffers. *)
LEMMA WriteType ==
  ASSUME TypeOK, NEW r \in Int, NEW v \in Vectors, WriteOutputVectorSignal(r, v)
  PROVE  TypeOK' /\ Len(outValue') = Len(outValue)
<1>1. UNCHANGED <<now, vectorSOUT, outRanks, vectorSIN, source, inRanks,
                 vectorSINStored, vectorName2Rank>>
      /\ alive' \in BOOLEAN
  BY DEF WriteOutputVectorSignal, inVars, TypeOK
<1>2. outValue' \in Seq(Vectors \cup {NoValue}) /\ Len(outValue') = Len(outValue)
  <2>1. CASE outValue' = [outValue EXCEPT ![r + 1] = v]
    <3>1. CASE r + 1 \in 1 .. Len(outValue)
      BY <2>1, <3>1, ExceptSeq DEF TypeOK
    <3>2. CASE r + 1 \notin 1 .. Len(outValue)
      <4>1. outValue' = outValue
        BY <2>1, <3>2, LenProperties DEF TypeOK
      <4> QED
        BY <4>1 DEF TypeOK
    <3> QED
      BY <3>1, <3>2
  <2>2. CASE UNCHANGED outValue
    BY <2>2 DEF TypeOK
  <2> QED
    BY <2>1, <2>2 DEF WriteOutputVectorSignal
<1> QED
  BY <1>1, <1>2 DEF TypeOK

LEMMA SourceType ==
  ASSUME TypeOK, NEW i \in 1 .. Len(source), NEW v \in Vectors \cup {NoValue},
         SourceChange(i, v)
  PROVE  TypeOK' /\ Len(source') = Len(source)
<1>1. UNCHANGED <<alive, now, vectorSOUT, outValue, outRanks, vectorSIN, inRanks,
                 vectorSINStored, vectorName2Rank>>
  BY DEF SourceChange, outVars
<1>2. source' \in Seq(Vectors \cup {NoValue}) /\ Len(source') = Len(source)
  BY ExceptSeq DEF SourceChange, TypeOK
<1> QED
  BY <1>1, <1>2 DEF TypeOK

(* A read changes nothing but alive. *)
LEMMA ReadFrame ==
  ASSUME TypeOK,
         (\E r : ReadInputVectorSignal(r)) \/ (\E ranks : ReadSeqInputVectorSignal(ranks))
  PROVE  /\ UNCHANGED <<now, outVars, inVars, vectorSINStored, vectorName2Rank>>
         /\ alive' \in BOOLEAN
<1>1. ASSUME NEW r, ReadInputVectorSignal(r)
      PROVE  /\ UNCHANGED <<now, outVars, inVars, vectorSINStored, vectorName2Rank>>
             /\ alive' \in BOOLEAN
  BY <1>1 DEF ReadInputVectorSignal, Abort, TypeOK
<1>2. ASSUME NEW ranks, ReadSeqInputVectorSignal(ranks)
      PROVE  /\ UNCHANGED <<now, outVars, inVars, vectorSINStored, vectorName2Rank>>
             /\ alive' \in BOOLEAN
  <2>1. UNCHANGED <<now, outVars, inVars, vectorSINStored, vectorName2Rank>>
    BY <1>2 DEF ReadSeqInputVectorSignal
  <2>2. alive' \in BOOLEAN
    BY <1>2, Zenon DEF ReadSeqInputVectorSignal
  <2> QED
    BY <2>1, <2>2
<1> QED
  BY <1>1, <1>2

-----------------------------------------------------------------------------
(* Ranks. *)

(* RankOf finds a position of the name. *)
LEMMA RankFound ==
  ASSUME NEW S, NEW v \in Seq(S), NEW n \in Range(v)
  PROVE  RankOf(v, n) \in Nat /\ Valid(v, RankOf(v, n)) /\ v[RankOf(v, n) + 1] = n
<1>1. Len(v) \in Nat /\ DOMAIN v = 1 .. Len(v)
  BY LenProperties
<1>2. \E i \in 1 .. Len(v) : v[i] = n
  BY <1>1 DEF Range
<1> DEFINE p == CHOOSE i \in 1 .. Len(v) : v[i] = n
<1>3. p \in 1 .. Len(v) /\ v[p] = n
  BY <1>2
<1>4. RankOf(v, n) = p - 1
  BY DEF RankOf
<1> HIDE DEF p
<1> QED
  BY <1>1, <1>3, <1>4 DEF Valid

LEMMA CreateOutputRanks ==
  ASSUME TypeOK, RanksAgree, HandedRanksHold,
         NEW n \in Names, CreateOutputVectorSignal(n)
  PROVE  RanksAgree' /\ HandedRanksHold'
<1>1. UNCHANGED <<vectorSIN, source, inRanks, vectorSINStored, vectorName2Rank>>
  BY DEF CreateOutputVectorSignal, inVars
<1>2. CASE n \in Range(vectorSOUT) /\ UNCHANGED <<vectorSOUT, outValue>>
           /\ outRanks' = outRanks \cup {<<n, RankOf(vectorSOUT, n)>>}
  <2>1. /\ Valid(vectorSOUT, RankOf(vectorSOUT, n))
        /\ vectorSOUT[RankOf(vectorSOUT, n) + 1] = n
    BY <1>2, RankFound DEF TypeOK
  <2>2. HandedRanksHold'
    BY <1>1, <1>2, <2>1 DEF HandedRanksHold, Valid
  <2> QED
    BY <1>1, <1>2, <2>2 DEF RanksAgree
<1>3. CASE /\ n \notin SignalMap
           /\ vectorSOUT' = Append(vectorSOUT, n)
           /\ outValue' = Append(outValue, NoValue)
           /\ outRanks' = outRanks \cup {<<n, LastRank(vectorSOUT')>>}
  <2>1. /\ Len(vectorSOUT) \in Nat /\ Len(vectorSOUT') = Len(vectorSOUT) + 1
        /\ vectorSOUT'[Len(vectorSOUT) + 1] = n
        /\ \A i \in 1 .. Len(vectorSOUT) : vectorSOUT'[i] = vectorSOUT[i]
        /\ Len(outValue') = Len(outValue) + 1
    BY <1>3, AppendProperties, LenProperties DEF TypeOK
  <2>2. \A i \in 1 .. Len(vectorSOUT) : vectorSOUT[i] # n
    BY <1>3, LenProperties DEF SignalMap, Range, TypeOK
  <2>3. RanksAgree'
    BY <1>1, <2>1, <2>2 DEF RanksAgree
  <2>4. HandedRanksHold'
    <3>1. ASSUME NEW p \in outRanks
          PROVE  Valid(vectorSOUT', p[2]) /\ vectorSOUT'[p[2] + 1] = p[1]
      <4>1. p[2] \in Nat /\ p[2] + 1 \in 1 .. Len(vectorSOUT) /\ vectorSOUT[p[2] + 1] = p[1]
        BY <2>1 DEF HandedRanksHold, Valid, TypeOK
      <4> QED
        BY <2>1, <4>1 DEF Valid
    <3>2. ASSUME NEW p, p = <<n, LastRank(vectorSOUT')>>
          PROVE  Valid(vectorSOUT', p[2]) /\ vectorSOUT'[p[2] + 1] = p[1]
      <4>1. p[1] = n /\ p[2] = Len(vectorSOUT)
        BY <2>1, <3>2
      <4> QED
        BY <2>1, <4>1 DEF Valid
    <3> QED
      BY <1>1, <1>3, <3>1, <3>2 DEF HandedRanksHold, Valid
  <2> QED
    BY <2>3, <2>4
<1>4. CASE UNCHANGED outVars
  BY <1>1, <1>4 DEF outVars, RanksAgree, HandedRanksHold, Valid
<1> QED
  BY <1>2, <1>3, <1>4 DEF CreateOutputVectorSignal

LEMMA CreateInputRanks ==
  ASSUME TypeOK, RanksAgree, HandedRanksHold,
         NEW n \in Names, CreateInputVectorSignal(n)
  PROVE  RanksAgree' /\ HandedRanksHold'
<1>1. UNCHANGED <<vectorSOUT, outValue, outRanks>>
  BY DEF CreateInputVectorSignal, outVars
<1>2. CASE n \in Range(vectorSIN)
           /\ UNCHANGED <<vectorSIN, source, vectorSINStored, vectorName2Rank>>
           /\ inRanks' = inRanks \cup {<<n, RankOf(vectorSIN, n)>>}
  <2>1. /\ Valid(vectorSIN, RankOf(vectorSIN, n))
        /\ vectorSIN[RankOf(vectorSIN, n) + 1] = n
    BY <1>2, RankFound DEF TypeOK
  <2>2. HandedRanksHold'
    BY <1>1, <1>2, <2>1 DEF HandedRanksHold, Valid
  <2> QED
    BY <1>1, <1>2, <2>2 DEF RanksAgree
<1>3. CASE /\ n \notin SignalMap
           /\ vectorSIN' = Append(vectorSIN, n)
           /\ source' = Append(source, NoValue)
           /\ vectorSINStored' = Append(vectorSINStored, EmptyStack)
           /\ vectorName2Rank' = Put(vectorName2Rank, n, LastRank(vectorSIN'))
           /\ inRanks' = inRanks \cup {<<n, LastRank(vectorSIN')>>}
  <2>1. /\ Len(vectorSIN) \in Nat /\ Len(vectorSIN') = Len(vectorSIN) + 1
        /\ vectorSIN'[Len(vectorSIN) + 1] = n
        /\ \A i \in 1 .. Len(vectorSIN) : vectorSIN'[i] = vectorSIN[i]
        /\ Len(source') = Len(source) + 1
        /\ Len(vectorSINStored') = Len(vectorSINStored) + 1
    BY <1>3, AppendProperties, LenProperties, EmptyStackType DEF TypeOK
  <2>2. \A i \in 1 .. Len(vectorSIN) : vectorSIN[i] # n
    BY <1>3, LenProperties DEF SignalMap, Range, TypeOK
  <2>3. /\ DOMAIN vectorName2Rank' = DOMAIN vectorName2Rank \cup {n}
        /\ \A x \in DOMAIN vectorName2Rank' :
             vectorName2Rank'[x] = IF x = n THEN Len(vectorSIN') - 1
                                            ELSE vectorName2Rank[x]
    BY <1>3 DEF Put
  <2>4. RanksAgree'
    <3>1. ASSUME NEW i \in 1 .. Len(vectorSIN')
          PROVE  /\ vectorSIN'[i] \in DOMAIN vectorName2Rank'
                 /\ vectorName2Rank'[vectorSIN'[i]] = i - 1
      <4>1. CASE i = Len(vectorSIN) + 1
        BY <2>1, <2>3, <4>1
      <4>2. CASE i \in 1 .. Len(vectorSIN)
        BY <2>1, <2>2, <2>3, <4>2 DEF RanksAgree
      <4> QED
        BY <2>1, <4>1, <4>2
    <3> QED
      BY <1>1, <2>1, <3>1 DEF RanksAgree
  <2>5. HandedRanksHold'
    <3>1. ASSUME NEW p \in inRanks
          PROVE  Valid(vectorSIN', p[2]) /\ vectorSIN'[p[2] + 1] = p[1]
      <4>1. p[2] \in Nat /\ p[2] + 1 \in 1 .. Len(vectorSIN) /\ vectorSIN[p[2] + 1] = p[1]
        BY <2>1 DEF HandedRanksHold, Valid, TypeOK
      <4> QED
        BY <2>1, <4>1 DEF Valid
    <3>2. ASSUME NEW p, p = <<n, LastRank(vectorSIN')>>
          PROVE  Valid(vectorSIN', p[2]) /\ vectorSIN'[p[2] + 1] = p[1]
      <4>1. p[1] = n /\ p[2] = Len(vectorSIN)
        BY <2>1, <3>2
      <4> QED
        BY <2>1, <4>1 DEF Valid
    <3> QED
      BY <1>1, <1>3, <3>1, <3>2 DEF HandedRanksHold, Valid
  <2> QED
    BY <2>4, <2>5
<1>4. CASE UNCHANGED <<inVars, vectorSINStored, vectorName2Rank>>
  BY <1>1, <1>4 DEF inVars, RanksAgree, HandedRanksHold, Valid
<1> QED
  BY <1>2, <1>3, <1>4 DEF CreateInputVectorSignal

(* An unknown name enters the map; no name of a signal changes rank. *)
LEMMA BufferRanks ==
  ASSUME TypeOK, RanksAgree, HandedRanksHold,
         NEW n \in Names, NEW k \in Nat, BufferSignal(n, k)
  PROVE  RanksAgree' /\ HandedRanksHold'
<1>1. UNCHANGED <<vectorSOUT, outValue, outRanks, vectorSIN, source, inRanks>>
  BY DEF BufferSignal, outVars, inVars
<1>2. Len(vectorSINStored') = Len(vectorSINStored)
  <2>1. LookUp(n) \in Nat
    BY DEF LookUp, Get, TypeOK
  <2>2. CASE /\ LookUp(n) < Len(vectorSINStored)
             /\ vectorSINStored' =
                  [vectorSINStored EXCEPT ![LookUp(n) + 1] = Resize(@, k)]
    <3>1. LookUp(n) + 1 \in 1 .. Len(vectorSINStored)
      BY <2>1, <2>2, LenProperties DEF TypeOK
    <3>2. Resize(vectorSINStored[LookUp(n) + 1], k) \in StackOf(Slot)
      BY <3>1, BlankType, ResizeType, ElementOfSeq DEF TypeOK
    <3> QED
      BY <2>2, <3>1, <3>2, ExceptSeq DEF TypeOK
  <2> QED
    BY <2>2 DEF BufferSignal
<1>3. /\ DOMAIN vectorName2Rank \subseteq DOMAIN vectorName2Rank'
      /\ \A x \in DOMAIN vectorName2Rank : vectorName2Rank'[x] = vectorName2Rank[x]
  BY DEF BufferSignal, Put, LookUp, Get
<1>4. RanksAgree'
  BY <1>1, <1>2, <1>3 DEF RanksAgree
<1>5. HandedRanksHold'
  BY <1>1 DEF HandedRanksHold, Valid
<1> QED
  BY <1>4, <1>5

-----------------------------------------------------------------------------
(* The invariant of every use of the entity. *)

RanksInv == TypeOK /\ RanksAgree /\ HandedRanksHold

LEMMA InitRanks == Init => RanksInv
<1> SUFFICES ASSUME Init PROVE RanksInv
  OBVIOUS
<1>1. Len(vectorSIN) = 0 /\ Len(vectorSOUT) = 0 /\ Len(source) = 0
      /\ Len(vectorSINStored) = 0 /\ Len(outValue) = 0
  BY EmptySeq DEF Init
<1>2. RanksAgree /\ HandedRanksHold
  BY <1>1 DEF Init, RanksAgree, HandedRanksHold
<1> QED
  BY <1>2, InitType DEF RanksInv

LEMMA FrameRanks ==
  ASSUME RanksInv, TypeOK', Len(source') = Len(source),
         Len(vectorSINStored') = Len(vectorSINStored), Len(outValue') = Len(outValue),
         UNCHANGED <<vectorSOUT, outRanks, vectorSIN, inRanks, vectorName2Rank>>
  PROVE  RanksInv'
BY DEF RanksInv, RanksAgree, HandedRanksHold, Valid

LEMMA AnyStepRanks == RanksInv /\ [AnyStep]_vars => RanksInv'
<1> SUFFICES ASSUME RanksInv, [AnyStep]_vars PROVE RanksInv'
  OBVIOUS
<1> USE DEF RanksInv
<1>1. ASSUME NEW n \in Names, CreateOutputVectorSignal(n) PROVE RanksInv'
  BY <1>1, CreateOutputType, CreateOutputRanks
<1>2. ASSUME NEW n \in Names, CreateInputVectorSignal(n) PROVE RanksInv'
  BY <1>2, CreateInputType, CreateInputRanks
<1>3. ASSUME NEW r \in Int, NEW v \in Vectors, WriteOutputVectorSignal(r, v)
      PROVE  RanksInv'
  <2>1. UNCHANGED <<vectorSOUT, outRanks, inVars, vectorSINStored, vectorName2Rank>>
    BY <1>3 DEF WriteOutputVectorSignal
  <2> QED
    BY <1>3, <2>1, WriteType, FrameRanks DEF inVars
<1>4. ASSUME (\E r : ReadInputVectorSignal(r)) \/ (\E ranks : ReadSeqInputVectorSignal(ranks))
      PROVE  RanksInv'
  <2>1. /\ UNCHANGED <<now, outVars, inVars, vectorSINStored, vectorName2Rank>>
        /\ alive' \in BOOLEAN
    BY <1>4, ReadFrame
  <2>2. TypeOK'
    BY <2>1 DEF TypeOK, outVars, inVars
  <2> QED
    BY <2>1, <2>2, FrameRanks DEF outVars, inVars
<1>5. ASSUME NEW n \in Names, NEW k \in Nat, BufferSignal(n, k) PROVE RanksInv'
  BY <1>5, BufferType, BufferRanks
<1>6. ASSUME SynchroValue PROVE RanksInv'
  <2>1. UNCHANGED <<outVars, inVars, vectorName2Rank>>
    BY <1>6 DEF SynchroValue
  <2> QED
    BY <1>6, <2>1, SynchroType, FrameRanks DEF outVars, inVars
<1>7. ASSUME NEW i \in 1 .. Len(source), NEW v \in Vectors \cup {NoValue}, SourceChange(i, v)
      PROVE  RanksInv'
  <2>1. UNCHANGED <<outVars, vectorSIN, inRanks, vectorSINStored, vectorName2Rank>>
    BY <1>7 DEF SourceChange
  <2> QED
    BY <1>7, <2>1, SourceType, FrameRanks DEF outVars
<1>8. ASSUME UNCHANGED vars PROVE RanksInv'
  <2>1. TypeOK'
    BY <1>8 DEF TypeOK, vars, outVars, inVars
  <2> QED
    BY <1>8, <2>1, FrameRanks DEF vars, outVars, inVars
<1> QED
  BY <1>1, <1>2, <1>3, <1>4, <1>5, <1>6, <1>7, <1>8 DEF AnyStep

LEMMA NextIsAnyStep == RanksInv /\ Next => AnyStep
<1> SUFFICES ASSUME RanksInv, Next PROVE AnyStep
  OBVIOUS
<1>1. Ranks \subseteq Int
  BY DEF Ranks
<1> QED
  BY <1>1, SizesAssumption DEF Next, AnyStep

LEMMA ProtocolNextIsAnyStep == RanksInv /\ ProtocolNext => AnyStep
<1> SUFFICES ASSUME RanksInv, ProtocolNext PROVE AnyStep
  OBVIOUS
<1>1. \A p \in outRanks : p[2] \in Int
  BY DEF RanksInv, TypeOK
<1>2. Range(vectorSIN) \subseteq Names
  BY LenProperties, ElementOfSeq DEF RanksInv, TypeOK, Range
<1> QED
  BY <1>1, <1>2, SizesAssumption DEF ProtocolNext, AnyStep

THEOREM RanksInvariant == Spec => []RanksInv
<1>1. RanksInv /\ [Next]_vars => RanksInv'
  BY AnyStepRanks, NextIsAnyStep
<1> QED
  BY <1>1, InitRanks, PTL DEF Spec

(* Every variable keeps its type, whatever calls are made. *)
THEOREM TypeCorrect == Spec => []TypeOK
BY RanksInvariant, PTL DEF RanksInv

(* The vectors, the buffers and the map stay in step (server-command.cpp   *)
(* 265-273), whatever names commands have put in the map before.           *)
THEOREM RanksAlwaysAgree == Spec => []RanksAgree
BY RanksInvariant, PTL DEF RanksInv

(* A rank returned to a client stays the rank of the signal it created.    *)
THEOREM HandedRanksAlwaysHold == Spec => []HandedRanksHold
BY RanksInvariant, PTL DEF RanksInv

-----------------------------------------------------------------------------
(* The protocol: nothing a tick or a read touches is missing. *)

ProtocolInv == RanksInv /\ BuffersFit /\ alive

LEMMA CountType ==
  ASSUME NEW S, NEW ds \in StackOf(S)
  PROVE  Count(ds) \in Nat /\ Len(ds.slots) \in Nat /\ ds.index \in Nat
<1>1. ds.slots \in Seq(S) /\ ds.index \in Nat
  BY DEF StackOf
<1> QED
  BY <1>1, LenProperties DEF Count

LEMMA EmptyFits == ASSUME NEW value PROVE Fits(EmptyStack, value)
<1>1. EmptyStack.index = 0 /\ EmptyStack.turnaround = FALSE
      /\ EmptyStack.slots = << >>
  BY DEF EmptyStack
<1> QED
  BY <1>1, EmptySeq DEF Fits, Count

(* The cells that a read copies are cells of the buffer. *)
LEMMA FitsCount ==
  ASSUME NEW ds \in StackOf(Slot), NEW value, Fits(ds, value)
  PROVE  Count(ds) <= Len(ds.slots)
BY CountType DEF Fits, Count, InRange

LEMMA ResizeFits ==
  ASSUME NEW ds \in StackOf(Slot), NEW value, Fits(ds, value),
         NEW k \in Nat, HarmlessResize(ds, k)
  PROVE  Fits(Resize(ds, k), value)
<1>1. /\ Len(Resize(ds, k).slots) = k
      /\ Resize(ds, k).index = ds.index
      /\ Resize(ds, k).turnaround = ds.turnaround
      /\ \A j \in 1 .. k :
           Resize(ds, k).slots[j] = IF j <= Len(ds.slots) THEN ds.slots[j] ELSE Blank
  BY BlankType, ResizeType
<1>2. Count(ds) \in Nat /\ Len(ds.slots) \in Nat /\ ds.index \in Nat
      /\ Count(ds) <= Len(ds.slots)
  BY CountType, FitsCount
<1>3. Count(Resize(ds, k)) = Count(ds) /\ Count(ds) <= k
  <2>1. CASE k = Len(ds.slots)
    BY <1>1, <1>2, <2>1 DEF Count
  <2>2. CASE ~ds.turnaround /\ (ds.index = 0 \/ k > ds.index)
    BY <1>1, <1>2, <2>2 DEF Count
  <2> QED
    BY <2>1, <2>2 DEF HarmlessResize
<1>4. IF k = 0 THEN ds.index = 0 ELSE ds.index < k
  BY <1>2 DEF HarmlessResize, Fits, InRange
<1>5. ASSUME NEW j \in 1 .. Count(ds)
      PROVE  value # NoValue /\ Len(Resize(ds, k).slots[j].data) = Len(value)
  <2>1. Resize(ds, k).slots[j] = ds.slots[j]
    BY <1>1, <1>2, <1>3
  <2> QED
    BY <2>1 DEF Fits
<1> QED
  BY <1>1, <1>3, <1>4, <1>5 DEF Fits, InRange

LEMMA StoreFits ==
  ASSUME NEW ds \in StackOf(Slot), NEW value, Fits(ds, value), Len(ds.slots) # 0,
         value # NoValue, NEW e \in Slot, e.data = value
  PROVE  Fits(Store(ds, e), value)
<1>1. /\ Len(Store(ds, e).slots) = Len(ds.slots)
      /\ Store(ds, e).index = IF ds.index + 1 = Len(ds.slots) THEN 0 ELSE ds.index + 1
      /\ Store(ds, e).turnaround = (ds.turnaround \/ ds.index + 1 = Len(ds.slots))
      /\ \A j \in 1 .. Len(ds.slots) :
           Store(ds, e).slots[j] = IF j = ds.index + 1 THEN e ELSE ds.slots[j]
  BY StoreType
<1>2. Len(ds.slots) \in Nat /\ ds.index \in Nat /\ ds.index < Len(ds.slots)
  BY CountType DEF Fits, InRange
<1>3. Store(ds, e).index < Len(ds.slots)
  BY <1>1, <1>2
<1>4. Count(Store(ds, e)) = IF ds.turnaround \/ ds.index + 1 = Len(ds.slots)
                            THEN Len(ds.slots) ELSE ds.index + 1
  BY <1>1 DEF Count
<1>5. ASSUME NEW j \in 1 .. Count(Store(ds, e))
      PROVE  Len(Store(ds, e).slots[j].data) = Len(value)
  <2>1. j \in 1 .. Len(ds.slots)
    BY <1>2, <1>4
  <2>2. CASE j = ds.index + 1
    BY <1>1, <2>1, <2>2
  <2>3. CASE j # ds.index + 1
    <3>1. j \in 1 .. Count(ds)
      BY <1>2, <1>4, <2>1, <2>3 DEF Count
    <3> QED
      BY <1>1, <2>1, <2>3, <3>1 DEF Fits
  <2> QED
    BY <2>2, <2>3
<1> QED
  BY <1>1, <1>2, <1>3, <1>5 DEF Fits, InRange

(* A call that leaves the buffers and the inputs alone and cannot abort. *)
LEMMA FrameFit ==
  ASSUME BuffersFit, UNCHANGED <<source, vectorSINStored>>
  PROVE  BuffersFit'
BY DEF BuffersFit

LEMMA CreateInputFits ==
  ASSUME ProtocolInv, NEW n \in Names \ (BuiltIn \cup Range(vectorSOUT)),
         CreateInputVectorSignal(n)
  PROVE  BuffersFit' /\ alive'
<1>1. CASE /\ source' = Append(source, NoValue)
           /\ vectorSINStored' = Append(vectorSINStored, EmptyStack)
           /\ UNCHANGED alive
  <2>1. /\ Len(source) = Len(vectorSINStored) /\ Len(source) \in Nat
        /\ Len(vectorSINStored') = Len(vectorSINStored) + 1
        /\ vectorSINStored'[Len(vectorSINStored) + 1] = EmptyStack
        /\ \A i \in 1 .. Len(vectorSINStored) :
             vectorSINStored'[i] = vectorSINStored[i] /\ source'[i] = source[i]
    BY <1>1, AppendProperties, LenProperties, EmptyStackType
       DEF ProtocolInv, RanksInv, TypeOK, RanksAgree
  <2>2. ASSUME NEW i \in 1 .. Len(vectorSINStored')
        PROVE  Fits(vectorSINStored'[i], source'[i])
    <3>1. CASE i = Len(vectorSINStored) + 1
      BY <2>1, <3>1, EmptyFits
    <3>2. CASE i \in 1 .. Len(vectorSINStored)
      BY <2>1, <3>2 DEF ProtocolInv, BuffersFit
    <3> QED
      BY <2>1, <3>1, <3>2
  <2> QED
    BY <1>1, <2>2 DEF BuffersFit, ProtocolInv
<1>2. CASE UNCHANGED <<alive, source, vectorSINStored>>
  BY <1>2, FrameFit DEF ProtocolInv
<1> QED
  BY <1>1, <1>2 DEF CreateInputVectorSignal, SignalMap

LEMMA ReadSafe ==
  ASSUME ProtocolInv, NEW p \in inRanks, source[p[2] + 1] # NoValue,
         ReadInputVectorSignal(p[2])
  PROVE  BuffersFit' /\ alive'
<1> DEFINE i == p[2] + 1
           ds == vectorSINStored[p[2] + 1]
<1>1. Valid(vectorSIN, p[2]) /\ i \in 1 .. Len(vectorSINStored)
  BY LenProperties DEF ProtocolInv, RanksInv, HandedRanksHold, Valid, RanksAgree, TypeOK
<1>2. Fits(ds, source[i]) /\ ds \in StackOf(Slot)
  BY <1>1, ElementOfSeq DEF ProtocolInv, BuffersFit, RanksInv, TypeOK
<1>3. ASSUME NEW j \in 1 .. Count(ds)
      PROVE  ~(j > Len(ds.slots) \/ Len(ds.slots[j].data) < Len(source[i]))
  <2>1. source[i] \in Vectors
    BY <1>1, ElementOfSeq DEF ProtocolInv, RanksInv, RanksAgree, TypeOK
  <2>2. Len(source[i]) \in Nat
    BY <2>1, VectorsAssumption, LenProperties
  <2>3. Len(ds.slots[j].data) = Len(source[i])
    BY <1>2 DEF Fits
  <2>4. Count(ds) <= Len(ds.slots) /\ Count(ds) \in Nat /\ Len(ds.slots) \in Nat
    BY <1>2, FitsCount, CountType
  <2> HIDE DEF ds, i
  <2> QED
    BY <2>2, <2>3, <2>4
<1>4. ~ReadsOutside(p[2])
  BY <1>3 DEF ReadsOutside
<1>5. alive' /\ UNCHANGED <<source, vectorSINStored>>
  BY <1>1, <1>4 DEF ReadInputVectorSignal, inVars
<1> QED
  BY <1>5, FrameFit DEF ProtocolInv

LEMMA ReadSeqSafe ==
  ASSUME ProtocolInv, NEW p \in inRanks, NEW q \in inRanks,
         source[p[2] + 1] # NoValue, source[q[2] + 1] # NoValue,
         ReadSeqInputVectorSignal(<<p[2], q[2]>>)
  PROVE  BuffersFit' /\ alive'
<1>1. \A j \in 1 .. 2 : source[<<p[2], q[2]>>[j] + 1] # NoValue
  OBVIOUS
<1>2. alive' /\ UNCHANGED <<source, vectorSINStored>>
  BY <1>1 DEF ReadSeqInputVectorSignal, inVars
<1> QED
  BY <1>2, FrameFit DEF ProtocolInv

(* The command "buffer" resizes the buffer that it finds, or none.          *)
LEMMA BufferResizes ==
  ASSUME TypeOK, NEW n \in Names, NEW k \in Nat, BufferSignal(n, k)
  PROVE  /\ Len(vectorSINStored') = Len(vectorSINStored)
         /\ \A i \in 1 .. Len(vectorSINStored) :
              /\ vectorSINStored[i] \in StackOf(Slot)
              /\ \/ vectorSINStored'[i] = vectorSINStored[i]
                 \/ /\ i = LookUp(n) + 1 /\ LookUp(n) < Len(vectorSINStored)
                    /\ vectorSINStored'[i] = Resize(vectorSINStored[i], k)
<1>1. LookUp(n) \in Nat /\ Len(vectorSINStored) \in Nat
  BY LenProperties DEF LookUp, Get, TypeOK
<1>2. \A i \in 1 .. Len(vectorSINStored) : vectorSINStored[i] \in StackOf(Slot)
  BY ElementOfSeq DEF TypeOK
<1>3. CASE /\ LookUp(n) < Len(vectorSINStored)
           /\ vectorSINStored' = [vectorSINStored EXCEPT ![LookUp(n) + 1] = Resize(@, k)]
  <2>1. LookUp(n) + 1 \in 1 .. Len(vectorSINStored)
    BY <1>1, <1>3
  <2>2. Resize(vectorSINStored[LookUp(n) + 1], k) \in StackOf(Slot)
    BY <1>2, <2>1, BlankType, ResizeType
  <2> QED
    BY <1>2, <1>3, <2>1, <2>2, ExceptSeq DEF TypeOK
<1> QED
  BY <1>2, <1>3 DEF BufferSignal

LEMMA BufferFits ==
  ASSUME RanksInv, BuffersFit, NEW n \in Names, NEW k \in Nat, BufferSignal(n, k),
         LookUp(n) < Len(vectorSINStored) =>
            HarmlessResize(vectorSINStored[LookUp(n) + 1], k)
  PROVE  BuffersFit'
<1> SUFFICES ASSUME NEW i \in 1 .. Len(vectorSINStored)
             PROVE  Fits(vectorSINStored'[i], source[i])
  BY BufferResizes DEF BufferSignal, inVars, BuffersFit, RanksInv
<1>1. vectorSINStored[i] \in StackOf(Slot) /\ Fits(vectorSINStored[i], source[i])
  BY BufferResizes DEF BuffersFit, RanksInv
<1>2. CASE vectorSINStored'[i] = vectorSINStored[i]
  BY <1>1, <1>2
<1>3. CASE /\ i = LookUp(n) + 1 /\ LookUp(n) < Len(vectorSINStored)
           /\ vectorSINStored'[i] = Resize(vectorSINStored[i], k)
  BY <1>1, <1>3, ResizeFits
<1> QED
  BY <1>2, <1>3, BufferResizes DEF RanksInv

(* It finds the buffer of a signal. *)
LEMMA BufferFound ==
  ASSUME RanksInv, NEW n \in Range(vectorSIN)
  PROVE  LookUp(n) = RankOf(vectorSIN, n) /\ LookUp(n) < Len(vectorSINStored) /\ n \in Names
<1> DEFINE i == RankOf(vectorSIN, n) + 1
<1>1. i \in 1 .. Len(vectorSIN) /\ vectorSIN[i] = n /\ Len(vectorSIN) \in Nat
  BY RankFound, LenProperties DEF RanksInv, TypeOK, Valid
<1>2. RankOf(vectorSIN, n) \in Nat
  BY RankFound DEF RanksInv, TypeOK
<1>3. n \in DOMAIN vectorName2Rank /\ vectorName2Rank[n] = i - 1
  BY <1>1 DEF RanksInv, RanksAgree
<1> QED
  BY <1>1, <1>2, <1>3 DEF RanksInv, TypeOK, RanksAgree, LookUp, Get

LEMMA BufferSafe ==
  ASSUME ProtocolInv, NEW n \in Range(vectorSIN), NEW k \in Sizes,
         HarmlessResize(vectorSINStored[RankOf(vectorSIN, n) + 1], k),
         BufferSignal(n, k)
  PROVE  BuffersFit' /\ alive'
<1>1. LookUp(n) = RankOf(vectorSIN, n) /\ LookUp(n) < Len(vectorSINStored) /\ n \in Names
  BY BufferFound DEF ProtocolInv
<1>2. BuffersFit'
  BY <1>1, BufferFits, SizesAssumption DEF ProtocolInv
<1>3. LookUp(n) \in Nat /\ Len(vectorSINStored) \in Nat
  BY LenProperties DEF ProtocolInv, RanksInv, TypeOK, LookUp, Get
<1>4. ~(LookUp(n) >= Len(vectorSINStored))
  BY <1>1, <1>3
<1>5. alive' = alive
  BY <1>4 DEF BufferSignal
<1>6. alive'
  BY <1>5, Zenon DEF ProtocolInv
<1> QED
  BY <1>2, <1>6

LEMMA SynchroSafe ==
  ASSUME ProtocolInv, SynchroValue
  PROVE  BuffersFit' /\ alive'
<1>1. /\ Len(vectorSINStored') = Len(vectorSINStored)
      /\ Len(source) = Len(vectorSINStored)
      /\ UNCHANGED source
  BY SynchroType DEF ProtocolInv, RanksInv, RanksAgree, SynchroValue, inVars
<1>2. \A i \in 1 .. Len(vectorSINStored) : Buffered(i) => InRange(vectorSINStored[i])
  BY DEF ProtocolInv, BuffersFit, Fits, Buffered
<1>3. alive' = alive
  BY <1>2 DEF SynchroValue
<1>4. alive'
  BY <1>3, Zenon DEF ProtocolInv
<1>5. ASSUME NEW i \in 1 .. Len(vectorSINStored)
      PROVE  Fits(vectorSINStored'[i], source[i])
  <2>1. CASE Buffered(i) /\ Swept(i)
    <3> DEFINE sample == [ts |-> now', data |-> source[i]]
    <3>1. /\ source[i] \in Vectors /\ sample \in Slot
          /\ vectorSINStored[i] \in StackOf(Slot)
          /\ vectorSINStored'[i] = Store(vectorSINStored[i], sample)
      BY <2>1, TickStores DEF ProtocolInv, RanksInv
    <3>2. sample.data = source[i] /\ source[i] # NoValue
      BY <3>1, NoValueAssumption
    <3>3. Fits(vectorSINStored[i], source[i]) /\ Len(vectorSINStored[i].slots) # 0
      BY <2>1 DEF ProtocolInv, BuffersFit, Buffered
    <3> HIDE DEF sample
    <3> QED
      BY <3>1, <3>2, <3>3, StoreFits
  <2>2. CASE ~(Buffered(i) /\ Swept(i))
    <3>1. vectorSINStored'[i] = vectorSINStored[i]
      BY <2>2 DEF SynchroValue
    <3> QED
      BY <3>1 DEF ProtocolInv, BuffersFit
  <2> QED
    BY <2>1, <2>2
<1> QED
  BY <1>1, <1>4, <1>5 DEF BuffersFit

LEMMA SourceFits ==
  ASSUME ProtocolInv, NEW i \in 1 .. Len(source), NEW v \in Vectors,
         KeepsDimension(i, v), SourceChange(i, v)
  PROVE  BuffersFit' /\ alive'
<1>1. /\ UNCHANGED <<alive, vectorSINStored>>
      /\ Len(source) = Len(vectorSINStored)
      /\ \A j \in 1 .. Len(source) : source'[j] = IF j = i THEN v ELSE source[j]
  BY ExceptSeq DEF SourceChange, ProtocolInv, RanksInv, RanksAgree, TypeOK
<1>2. ASSUME NEW j \in 1 .. Len(vectorSINStored)
      PROVE  Fits(vectorSINStored[j], source'[j])
  <2>1. CASE j = i
    <3>1. Fits(vectorSINStored[i], source[i]) /\ source'[i] = v /\ v # NoValue
      BY <1>1, NoValueAssumption DEF ProtocolInv, BuffersFit
    <3> QED
      BY <2>1, <3>1 DEF Fits, KeepsDimension
  <2>2. CASE j # i
    BY <1>1, <2>2 DEF ProtocolInv, BuffersFit
  <2> QED
    BY <2>1, <2>2
<1>3. alive'
  BY <1>1, Zenon DEF ProtocolInv
<1> QED
  BY <1>1, <1>2, <1>3 DEF BuffersFit

LEMMA ProtocolStep == ProtocolInv /\ [ProtocolNext]_vars => ProtocolInv'
<1> SUFFICES ASSUME ProtocolInv, [ProtocolNext]_vars
             PROVE  BuffersFit' /\ alive'
  BY AnyStepRanks, ProtocolNextIsAnyStep DEF ProtocolInv
<1>1. ASSUME NEW n \in Names \ (BuiltIn \cup Range(vectorSIN)), CreateOutputVectorSignal(n)
      PROVE  BuffersFit' /\ alive'
  <2>1. UNCHANGED <<alive, source, vectorSINStored>>
    BY <1>1 DEF CreateOutputVectorSignal, SignalMap, inVars
  <2> QED
    BY <2>1, FrameFit, Zenon DEF ProtocolInv
<1>2. ASSUME NEW n \in Names \ (BuiltIn \cup Range(vectorSOUT)), CreateInputVectorSignal(n)
      PROVE  BuffersFit' /\ alive'
  BY <1>2, CreateInputFits
<1>3. ASSUME NEW p \in outRanks, NEW v \in Vectors, WriteOutputVectorSignal(p[2], v)
      PROVE  BuffersFit' /\ alive'
  <2>1. Valid(vectorSOUT, p[2])
    BY DEF ProtocolInv, RanksInv, HandedRanksHold
  <2>2. UNCHANGED <<alive, source, vectorSINStored>>
    BY <1>3, <2>1, Zenon DEF WriteOutputVectorSignal, inVars
  <2> QED
    BY <2>2, FrameFit, Zenon DEF ProtocolInv
<1>4. ASSUME NEW p \in inRanks, source[p[2] + 1] # NoValue, ReadInputVectorSignal(p[2])
      PROVE  BuffersFit' /\ alive'
  BY <1>4, ReadSafe
<1>5. ASSUME NEW p \in inRanks, NEW q \in inRanks, source[p[2] + 1] # NoValue,
             source[q[2] + 1] # NoValue, ReadSeqInputVectorSignal(<<p[2], q[2]>>)
      PROVE  BuffersFit' /\ alive'
  BY <1>5, ReadSeqSafe
<1>6. ASSUME NEW n \in Range(vectorSIN), NEW k \in Sizes,
             HarmlessResize(vectorSINStored[RankOf(vectorSIN, n) + 1], k), BufferSignal(n, k)
      PROVE  BuffersFit' /\ alive'
  BY <1>6, BufferSafe
<1>7. ASSUME SynchroValue PROVE BuffersFit' /\ alive'
  BY <1>7, SynchroSafe
<1>8. ASSUME NEW i \in 1 .. Len(source), NEW v \in Vectors,
             KeepsDimension(i, v), SourceChange(i, v)
      PROVE  BuffersFit' /\ alive'
  BY <1>8, SourceFits
<1>9. ASSUME UNCHANGED vars PROVE BuffersFit' /\ alive'
  <2>1. UNCHANGED <<alive, source, vectorSINStored>>
    BY <1>9 DEF vars, inVars
  <2> QED
    BY <2>1, FrameFit, Zenon DEF ProtocolInv
<1> QED
  BY <1>1, <1>2, <1>3, <1>4, <1>5, <1>6, <1>7, <1>8, <1>9 DEF ProtocolNext

THEOREM ProtocolInvariant == ProtocolSpec => []ProtocolInv
<1>1. Init => ProtocolInv
  <2>1. Init => BuffersFit
    BY EmptySeq DEF Init, BuffersFit
  <2>2. Init => alive
    BY Zenon DEF Init
  <2> QED
    BY <2>1, <2>2, InitRanks DEF ProtocolInv
<1> QED
  BY <1>1, ProtocolStep, PTL DEF ProtocolSpec

(* Under the protocol, whatever a tick or a read touches exists and has    *)
(* the dimension of the current value.                                     *)
THEOREM BuffersAlwaysFit == ProtocolSpec => []BuffersFit
BY ProtocolInvariant, PTL DEF ProtocolInv

(* Under the protocol no tick ever writes outside a buffer.                *)
THEOREM TicksAlwaysInRange == ProtocolSpec => []TicksInRange
<1>1. ProtocolInv => TicksInRange
  BY DEF ProtocolInv, BuffersFit, Fits, TicksInRange, Buffered
<1> QED
  BY <1>1, ProtocolInvariant, PTL

(* Under the protocol the process neither aborts nor meets undefined       *)
(* behaviour.                                                              *)
THEOREM ProtocolNeverAborts == ProtocolSpec => []NeverAborts
<1>1. ProtocolInv => NeverAborts
  BY Zenon DEF ProtocolInv, NeverAborts
<1> QED
  BY <1>1, ProtocolInvariant, PTL

-----------------------------------------------------------------------------
(* Creation of signals implements SignalTable. *)

LEMMA RankOfNew ==
  ASSUME NEW S, NEW v \in Seq(S), NEW n \in S, n \notin Range(v)
  PROVE  RankOf(Append(v, n), n) = Len(Append(v, n)) - 1
<1> DEFINE w == Append(v, n)
<1>1. /\ Len(v) \in Nat /\ DOMAIN v = 1 .. Len(v)
      /\ Len(w) = Len(v) + 1 /\ w[Len(v) + 1] = n
      /\ \A i \in 1 .. Len(v) : w[i] = v[i]
  BY LenProperties, AppendProperties
<1>2. \A i \in 1 .. Len(v) : v[i] # n
  BY <1>1 DEF Range
<1> HIDE DEF w
<1>3. \A i \in 1 .. Len(w) : w[i] = n <=> i = Len(w)
  BY <1>1, <1>2
<1> DEFINE p == CHOOSE i \in 1 .. Len(w) : w[i] = n
<1>4. p \in 1 .. Len(w) /\ w[p] = n
  <2>1. Len(w) \in 1 .. Len(w) /\ w[Len(w)] = n
    BY <1>1
  <2> QED
    BY <2>1
<1>5. RankOf(w, n) = p - 1
  BY DEF RankOf
<1> HIDE DEF p
<1> QED
  BY <1>3, <1>4, <1>5 DEF w

LEMMA InputStep == RanksInv /\ AnyStep => [Inputs!Next]_Inputs!vars
<1> SUFFICES ASSUME RanksInv, AnyStep PROVE [Inputs!Next]_Inputs!vars
  OBVIOUS
<1>1. ASSUME NEW n \in Names, CreateInputVectorSignal(n)
      PROVE  [Inputs!Next]_Inputs!vars
  <2>1. CASE n \in Range(vectorSIN) /\ UNCHANGED vectorSIN
             /\ inRanks' = inRanks \cup {<<n, RankOf(vectorSIN, n)>>}
    <3>1. Inputs!Create(n)
      BY <2>1 DEF Inputs!Create, Inputs!Range, Range, Inputs!RankOf, RankOf
    <3> QED
      BY <3>1 DEF Inputs!Next
  <2>2. CASE n \notin SignalMap /\ vectorSIN' = Append(vectorSIN, n)
             /\ inRanks' = inRanks \cup {<<n, LastRank(vectorSIN')>>}
    <3>1. n \notin Range(vectorSIN)
      BY <2>2 DEF SignalMap
    <3>2. RankOf(vectorSIN', n) = Len(vectorSIN') - 1
      BY <2>2, <3>1, RankOfNew DEF RanksInv, TypeOK
    <3>3. Inputs!Create(n)
      BY <2>2, <3>1, <3>2 DEF Inputs!Create, Inputs!Range, Range, Inputs!RankOf, RankOf
    <3> QED
      BY <3>3 DEF Inputs!Next
  <2>3. CASE UNCHANGED inVars
    BY <2>3 DEF inVars, Inputs!vars
  <2> QED
    BY <1>1, <2>1, <2>2, <2>3 DEF CreateInputVectorSignal
<1>2. ASSUME UNCHANGED <<vectorSIN, inRanks>> PROVE [Inputs!Next]_Inputs!vars
  BY <1>2 DEF Inputs!vars
<1>3. UNCHANGED <<vectorSIN, inRanks>> \/ \E n \in Names : CreateInputVectorSignal(n)
  BY ReadFrame DEF AnyStep, RanksInv, CreateOutputVectorSignal, WriteOutputVectorSignal,
     BufferSignal, SynchroValue, SourceChange, inVars
<1> QED
  BY <1>1, <1>2, <1>3

(* For the input signals, creation is the growing table of SignalTable: a  *)
(* name has one rank for ever and no other is ever returned for it.        *)
THEOREM InputTableImplemented == Spec => InputTable
<1>1. Init => Inputs!Init
  BY DEF Init, Inputs!Init
<1>2. RanksInv /\ [Next]_vars => [Inputs!Next]_Inputs!vars
  BY InputStep, NextIsAnyStep DEF vars, inVars, Inputs!vars
<1> QED
  BY <1>1, <1>2, RanksInvariant, PTL DEF Spec, InputTable, Inputs!Spec

LEMMA OutputStep == RanksInv /\ AnyStep => [Outputs!Next]_Outputs!vars
<1> SUFFICES ASSUME RanksInv, AnyStep PROVE [Outputs!Next]_Outputs!vars
  OBVIOUS
<1>1. ASSUME NEW n \in Names, CreateOutputVectorSignal(n)
      PROVE  [Outputs!Next]_Outputs!vars
  <2>1. CASE n \in Range(vectorSOUT) /\ UNCHANGED vectorSOUT
             /\ outRanks' = outRanks \cup {<<n, RankOf(vectorSOUT, n)>>}
    <3>1. Outputs!Create(n)
      BY <2>1 DEF Outputs!Create, Outputs!Range, Range, Outputs!RankOf, RankOf
    <3> QED
      BY <3>1 DEF Outputs!Next
  <2>2. CASE n \notin SignalMap /\ vectorSOUT' = Append(vectorSOUT, n)
             /\ outRanks' = outRanks \cup {<<n, LastRank(vectorSOUT')>>}
    <3>1. n \notin Range(vectorSOUT)
      BY <2>2 DEF SignalMap
    <3>2. RankOf(vectorSOUT', n) = Len(vectorSOUT') - 1
      BY <2>2, <3>1, RankOfNew DEF RanksInv, TypeOK
    <3>3. Outputs!Create(n)
      BY <2>2, <3>1, <3>2 DEF Outputs!Create, Outputs!Range, Range, Outputs!RankOf, RankOf
    <3> QED
      BY <3>3 DEF Outputs!Next
  <2>3. CASE UNCHANGED outVars
    BY <2>3 DEF outVars, Outputs!vars
  <2> QED
    BY <1>1, <2>1, <2>2, <2>3 DEF CreateOutputVectorSignal
<1>2. ASSUME UNCHANGED <<vectorSOUT, outRanks>> PROVE [Outputs!Next]_Outputs!vars
  BY <1>2 DEF Outputs!vars
<1>3. UNCHANGED <<vectorSOUT, outRanks>> \/ \E n \in Names : CreateOutputVectorSignal(n)
  BY ReadFrame DEF AnyStep, RanksInv, CreateInputVectorSignal, WriteOutputVectorSignal,
     BufferSignal, SynchroValue, SourceChange, outVars
<1> QED
  BY <1>1, <1>2, <1>3

(* The same for the output signals. *)
THEOREM OutputTableImplemented == Spec => OutputTable
<1>1. Init => Outputs!Init
  BY DEF Init, Outputs!Init
<1>2. RanksInv /\ [Next]_vars => [Outputs!Next]_Outputs!vars
  BY OutputStep, NextIsAnyStep DEF vars, outVars, Outputs!vars
<1> QED
  BY <1>1, <1>2, RanksInvariant, PTL DEF Spec, OutputTable, Outputs!Spec

-----------------------------------------------------------------------------
(* The circular buffers implement SampleWindow. *)

(* A non-empty set of positions has a last one. *)
LEMMA LastPosition ==
  ASSUME NEW n \in Nat, NEW T \in SUBSET (1 .. n), T # {}
  PROVE  \E m \in T : \A t \in T : t <= m
<1> DEFINE R == OpToRel(<, Nat)
           D == {n - t : t \in T}
<1>1. IsWellFoundedOn(R, Nat)
  BY NatLessThanWellFounded
<1>2. \A x, y \in Nat : x < y => <<x, y>> \in R
  BY DEF OpToRel
<1>3. D \subseteq Nat /\ D # {}
  <2>1. ASSUME NEW t \in T PROVE n - t \in Nat
    <3>1. t \in 1 .. n
      OBVIOUS
    <3> QED
      BY <3>1
  <2> QED
    BY <2>1
<1> HIDE DEF R, D
<1>4. PICK x \in D : \A y \in D : ~(<<y, x>> \in R)
  BY <1>1, <1>3, WFMin
<1>5. ASSUME NEW y \in D PROVE x <= y
  <2>1. x \in Nat /\ y \in Nat
    BY <1>3
  <2>2. ~(y < x)
    BY <1>2, <1>4, <2>1
  <2> QED
    BY <2>1, <2>2
<1>6. PICK m \in T : x = n - m
  BY DEF D
<1>7. ASSUME NEW t \in T PROVE t <= m
  <2>1. n - t \in D
    BY DEF D
  <2> QED
    BY <1>5, <1>6, <2>1
<1> QED
  BY <1>7

(* A tick puts its sample at the end of the window; the oldest leaves it   *)
(* when the buffer is full.                                                *)
LEMMA StoreWindow ==
  ASSUME NEW S, NEW ds \in StackOf(S), Sound(ds), Len(ds.slots) # 0, NEW e \in S
  PROVE  /\ Sound(Store(ds, e))
         /\ Window(Store(ds, e)) = Windows!Keep(Len(ds.slots), Append(Window(ds), e))
<1> DEFINE es == Store(ds, e)
           n == Len(ds.slots)
           w == Window(ds)
           a == Append(Window(ds), e)
<1>1. /\ es \in StackOf(S) /\ Len(es.slots) = n
      /\ es.index = IF ds.index + 1 = n THEN 0 ELSE ds.index + 1
      /\ es.turnaround = (ds.turnaround \/ ds.index + 1 = n)
      /\ \A j \in 1 .. n : es.slots[j] = IF j = ds.index + 1 THEN e ELSE ds.slots[j]
  BY StoreType
<1>2. /\ n \in Nat \ {0} /\ ds.index \in 0 .. n - 1
      /\ Count(ds) = IF ds.turnaround THEN n ELSE ds.index
      /\ w \in Seq(S) /\ Len(w) = Count(ds)
  BY WindowType DEF Sound, InRange, Count
<1>3. \A j \in 1 .. Count(ds) :
        w[j] = IF ~ds.turnaround THEN ds.slots[j]
               ELSE IF ds.index + j <= n THEN ds.slots[ds.index + j]
               ELSE ds.slots[ds.index + j - n]
  BY WindowType
<1>4. /\ a \in Seq(S) /\ Len(a) = Count(ds) + 1 /\ a[Count(ds) + 1] = e
      /\ \A j \in 1 .. Count(ds) : a[j] = w[j]
  BY <1>2, AppendProperties
<1> HIDE DEF es, n, w, a
<1>5. Sound(es)
  BY <1>1, <1>2 DEF Sound, InRange
<1>6. /\ Window(es) \in Seq(S) /\ Len(Window(es)) = Count(es)
      /\ \A j \in 1 .. Count(es) :
           Window(es)[j] = IF ~es.turnaround THEN es.slots[j]
                           ELSE IF es.index + j <= n THEN es.slots[es.index + j]
                           ELSE es.slots[es.index + j - n]
  BY <1>1, <1>5, WindowType
<1>7. Count(es) = IF es.turnaround THEN n ELSE es.index
  BY <1>1 DEF Count
<1>8. CASE ~ds.turnaround
  <2>1. Count(es) = ds.index + 1
    BY <1>1, <1>2, <1>7, <1>8
  <2>2. Windows!Keep(n, a) = a
    BY <1>2, <1>4, <1>8 DEF Windows!Keep
  <2>3. ASSUME NEW j \in 1 .. Count(es) PROVE Window(es)[j] = a[j]
    <3>1. Window(es)[j] = es.slots[j]
      <4>1. CASE ~es.turnaround
        BY <1>6, <4>1
      <4>2. CASE es.turnaround
        <5>2. ds.index + 1 = n
          BY <1>1, <1>8, <4>2, Zenon
        <5>1. es.index + j = j /\ j <= n
          BY <1>1, <1>2, <2>1, <5>2
        <5> QED
          BY <1>6, <4>2, <5>1
      <4> QED
        BY <4>1, <4>2
    <3>2. j \in 1 .. n
      BY <1>2, <2>1
    <3>3. CASE j = ds.index + 1
      <4>1. es.slots[j] = e
        BY <1>1, <3>2, <3>3
      <4>2. Count(ds) + 1 = j
        BY <1>2, <1>8, <3>3
      <4> QED
        BY <1>4, <3>1, <4>1, <4>2
    <3>4. CASE j # ds.index + 1
      <4>1. j \in 1 .. Count(ds)
        BY <1>2, <1>8, <2>1, <3>4
      <4> QED
        BY <1>1, <1>3, <1>4, <1>8, <3>1, <3>2, <3>4, <4>1
    <3> QED
      BY <3>3, <3>4
  <2>4. Len(a) = Count(es)
    BY <1>2, <1>4, <1>8, <2>1
  <2>5. Window(es) = a
    <3> HIDE DEF Window
    <3> QED
      BY <1>4, <1>6, <2>3, <2>4, SeqEqual
  <2> QED
    BY <1>5, <2>2, <2>5 DEF es, n, a
<1>9. CASE ds.turnaround
  <2>1. Count(es) = n /\ es.turnaround
    BY <1>1, <1>7, <1>9
  <2>2. Len(a) = n + 1
    BY <1>2, <1>4, <1>9
  <2>3. Windows!Keep(n, a) = SubSeq(a, 2, n + 1)
    <3>1. ~(n + 1 <= n) /\ (n + 1) - n + 1 = 2
      BY <1>2
    <3> QED
      BY <2>2, <3>1 DEF Windows!Keep
  <2>4. \A i \in 2 .. n + 1 : a[i] \in S
    BY <1>2, <1>4, <2>2, ElementOfSeq
  <2>5. /\ SubSeq(a, 2, n + 1) \in Seq(S) /\ Len(SubSeq(a, 2, n + 1)) = n
        /\ \A j \in 1 .. n : SubSeq(a, 2, n + 1)[j] = a[j + 1]
    <3>1. 2 \in Int /\ n + 1 \in Int
      BY <1>2
    <3>2. /\ SubSeq(a, 2, n + 1) \in Seq(S)
          /\ Len(SubSeq(a, 2, n + 1)) = IF 2 <= n + 1 THEN (n + 1) - 2 + 1 ELSE 0
          /\ \A j \in 1 .. ((n + 1) - 2) + 1 : SubSeq(a, 2, n + 1)[j] = a[2 + j - 1]
      BY <2>4, <3>1, SubSeqProperties
    <3>3. \A j \in 1 .. n : 2 + j - 1 = j + 1
      BY <1>2
    <3> QED
      BY <1>2, <3>2, <3>3
  <2>6. ASSUME NEW j \in 1 .. n PROVE Window(es)[j] = a[j + 1]
    <3>1. CASE j = n
      <4>1. a[j + 1] = e
        BY <1>2, <1>4, <1>9, <3>1
      <4>2. CASE ds.index + 1 = n
        BY <1>1, <1>2, <1>6, <2>1, <3>1, <4>1, <4>2
      <4>3. CASE ds.index + 1 # n
        <5>1. ~(es.index + j <= n) /\ es.index + j - n = ds.index + 1
          BY <1>1, <1>2, <3>1, <4>3
        <5>2. Window(es)[j] = es.slots[ds.index + 1]
          BY <1>6, <2>1, <5>1
        <5>3. es.slots[ds.index + 1] = e
          BY <1>1, <1>2
        <5> QED
          BY <4>1, <5>2, <5>3
      <4> QED
        BY <4>2, <4>3
    <3>2. CASE j # n
      <4>1. j + 1 \in 1 .. n /\ a[j + 1] = w[j + 1]
        BY <1>2, <1>4, <1>9, <3>2
      <4>2. w[j + 1] = IF ds.index + (j + 1) <= n THEN ds.slots[ds.index + (j + 1)]
                       ELSE ds.slots[ds.index + (j + 1) - n]
        BY <1>2, <1>3, <1>9, <4>1
      <4>3. Window(es)[j] = IF es.index + j <= n THEN es.slots[es.index + j]
                            ELSE es.slots[es.index + j - n]
        BY <1>6, <2>1
      <4>4. CASE ds.index + 1 = n
        <5>1. es.index + j = j /\ ~(ds.index + (j + 1) <= n) /\ ds.index + (j + 1) - n = j
              /\ j # ds.index + 1 /\ j <= n
          BY <1>1, <1>2, <3>2, <4>4
        <5>2. Window(es)[j] = es.slots[j] /\ w[j + 1] = ds.slots[j]
          BY <4>2, <4>3, <5>1
        <5> QED
          BY <1>1, <4>1, <5>1, <5>2
      <4>5. CASE ds.index + 1 # n
        <5>1. /\ es.index + j = ds.index + (j + 1)
              /\ es.index + j - n = ds.index + (j + 1) - n
          <6>1. es.index = ds.index + 1
            BY <1>1, <4>5
          <6>2. n \in Nat /\ ds.index \in Nat /\ j \in Nat
            BY <1>2
          <6> QED
            BY <6>1, <6>2
        <5>2. CASE ds.index + (j + 1) <= n
          <6>1. ds.index + (j + 1) \in 1 .. n /\ ds.index + (j + 1) # ds.index + 1
            BY <1>2, <5>2
          <6> QED
            BY <1>1, <4>1, <4>2, <4>3, <5>1, <5>2, <6>1
        <5>3. CASE ~(ds.index + (j + 1) <= n)
          <6>1. /\ ds.index + (j + 1) - n \in 1 .. n
                /\ ds.index + (j + 1) - n # ds.index + 1
            BY <1>2, <4>1, <5>3
          <6>2. Window(es)[j] = es.slots[ds.index + (j + 1) - n]
            BY <4>3, <5>1, <5>3
          <6>3. es.slots[ds.index + (j + 1) - n] = ds.slots[ds.index + (j + 1) - n]
            BY <1>1, <6>1
          <6>4. a[j + 1] = ds.slots[ds.index + (j + 1) - n]
            BY <4>1, <4>2, <5>3
          <6> QED
            BY <6>2, <6>3, <6>4
        <5> QED
          BY <5>2, <5>3
      <4> QED
        BY <4>4, <4>5
    <3> QED
      BY <3>1, <3>2
  <2>7. Window(es) = SubSeq(a, 2, n + 1)
    <3> DEFINE t == SubSeq(a, 2, n + 1)
    <3>1. t \in Seq(S) /\ Len(t) = n /\ \A j \in 1 .. n : t[j] = a[j + 1]
      BY <2>5
    <3>2. Window(es) \in Seq(S) /\ Len(Window(es)) = n
      BY <1>6, <2>1
    <3> HIDE DEF t
    <3>3. Window(es) = t
      BY <2>6, <3>1, <3>2, SeqEqual
    <3> QED
      BY <3>3 DEF t
  <2> QED
    BY <1>5, <2>3, <2>7 DEF es, n, a
<1> QED
  BY <1>5, <1>8, <1>9 DEF es, n, a

Caps == [i \in 1 .. Len(vectorSINStored) |-> Len(vectorSINStored[i].slots)]
Wins == [i \in 1 .. Len(vectorSINStored) |-> Window(vectorSINStored[i])]

WindowsShape ==
  /\ Len(vectorSINStored) \in Nat
  /\ Caps \in Seq(Nat) /\ Len(Caps) = Len(vectorSINStored)
  /\ Wins \in Seq(Seq(Slot)) /\ Len(Wins) = Len(vectorSINStored)
  /\ \A i \in 1 .. Len(vectorSINStored) :
       /\ vectorSINStored[i] \in StackOf(Slot) /\ Sound(vectorSINStored[i])
       /\ Caps[i] = Len(vectorSINStored[i].slots)
       /\ Wins[i] = Window(vectorSINStored[i])

LEMMA Shape == ProtocolInv => WindowsShape
<1> SUFFICES ASSUME ProtocolInv PROVE WindowsShape
  OBVIOUS
<1>1. Len(vectorSINStored) \in Nat
  BY LenProperties DEF ProtocolInv, RanksInv, TypeOK
<1>2. ASSUME NEW i \in 1 .. Len(vectorSINStored)
      PROVE  /\ vectorSINStored[i] \in StackOf(Slot) /\ Sound(vectorSINStored[i])
             /\ Len(vectorSINStored[i].slots) \in Nat
             /\ Window(vectorSINStored[i]) \in Seq(Slot)
  <2>1. vectorSINStored[i] \in StackOf(Slot)
    BY ElementOfSeq DEF ProtocolInv, RanksInv, TypeOK
  <2>2. Sound(vectorSINStored[i])
    BY DEF ProtocolInv, BuffersFit, Fits, Sound
  <2> QED
    BY <2>1, <2>2, WindowType
<1>3. Caps \in [1 .. Len(vectorSINStored) -> Nat]
  BY <1>2 DEF Caps
<1>4. Wins \in [1 .. Len(vectorSINStored) -> Seq(Slot)]
  BY <1>2 DEF Wins
<1>5. /\ Caps \in Seq(Nat) /\ Len(Caps) = Len(vectorSINStored)
      /\ Wins \in Seq(Seq(Slot)) /\ Len(Wins) = Len(vectorSINStored)
  BY <1>1, <1>3, <1>4, FcnIsSeq
<1>6. \A i \in 1 .. Len(vectorSINStored) :
        Caps[i] = Len(vectorSINStored[i].slots) /\ Wins[i] = Window(vectorSINStored[i])
  BY DEF Caps, Wins
<1> QED
  BY <1>1, <1>2, <1>5, <1>6 DEF WindowsShape

LEMMA ShapeNext == ProtocolInv' => WindowsShape'
BY Shape, PTL

LEMMA EmptyWindow == Window(EmptyStack) = << >> /\ Len(EmptyStack.slots) = 0
<1>1. EmptyStack \in StackOf(Slot) /\ Len(EmptyStack.slots) = 0
  BY EmptyStackType
<1>2. Sound(EmptyStack) /\ Count(EmptyStack) = 0
  BY <1>1 DEF Sound, Count, EmptyStack
<1>3. Window(EmptyStack) \in Seq(Slot) /\ Len(Window(EmptyStack)) = 0
  BY <1>1, <1>2, WindowType
<1> QED
  BY <1>1, <1>3, EmptySeq

(* A new signal opens an empty window... *)
LEMMA OpenStep ==
  ASSUME ProtocolInv, ProtocolInv', now' = now,
         vectorSINStored' = Append(vectorSINStored, EmptyStack)
  PROVE  Windows!Open
<1> DEFINE n == Len(vectorSINStored)
<1>1. WindowsShape /\ WindowsShape'
  BY Shape, ShapeNext
<1>2. /\ Len(vectorSINStored') = n + 1
      /\ vectorSINStored'[n + 1] = EmptyStack
      /\ \A i \in 1 .. n : vectorSINStored'[i] = vectorSINStored[i]
      /\ n \in Nat
  BY EmptyStackType, AppendProperties, LenProperties DEF ProtocolInv, RanksInv, TypeOK
<1> HIDE DEF n
<1>3. Caps' = Append(Caps, 0)
  <2> DEFINE c == Append(Caps, 0)
  <2>1. /\ c \in Seq(Nat) /\ Len(c) = n + 1 /\ c[n + 1] = 0
        /\ \A i \in 1 .. n : c[i] = Caps[i]
    BY <1>1, AppendProperties DEF WindowsShape, n
  <2> HIDE DEF c
  <2>2. Caps' \in Seq(Nat) /\ Len(Caps') = n + 1
    BY <1>1, <1>2 DEF WindowsShape
  <2>3. ASSUME NEW i \in 1 .. n + 1 PROVE Caps'[i] = c[i]
    <3>1. Caps'[i] = Len(vectorSINStored'[i].slots)
      BY <1>1, <1>2 DEF WindowsShape
    <3>2. CASE i = n + 1
      BY <1>2, <2>1, <3>1, <3>2, EmptyWindow
    <3>3. CASE i # n + 1
      <4>1. i \in 1 .. n
        BY <1>2, <3>3
      <4>2. Caps[i] = Len(vectorSINStored[i].slots)
        BY <1>1, <4>1 DEF WindowsShape, n
      <4> QED
        BY <1>2, <2>1, <3>1, <4>1, <4>2
    <3> QED
      BY <3>2, <3>3
  <2>4. Caps' = c
    BY <2>1, <2>2, <2>3, SeqEqual
  <2> QED
    BY <2>4 DEF c
<1>4. Wins' = Append(Wins, << >>)
  <2> DEFINE w == Append(Wins, << >>)
  <2>1. /\ w \in Seq(Seq(Slot)) /\ Len(w) = n + 1 /\ w[n + 1] = << >>
        /\ \A i \in 1 .. n : w[i] = Wins[i]
    <3>1. << >> \in Seq(Slot)
      BY EmptySeq
    <3> QED
      BY <1>1, <3>1, AppendProperties DEF WindowsShape, n
  <2> HIDE DEF w
  <2>2. Wins' \in Seq(Seq(Slot)) /\ Len(Wins') = n + 1
    BY <1>1, <1>2 DEF WindowsShape
  <2>3. ASSUME NEW i \in 1 .. n + 1 PROVE Wins'[i] = w[i]
    <3>1. Wins'[i] = Window(vectorSINStored'[i])
      BY <1>1, <1>2 DEF WindowsShape
    <3>2. CASE i = n + 1
      BY <1>2, <2>1, <3>1, <3>2, EmptyWindow
    <3>3. CASE i # n + 1
      <4>1. i \in 1 .. n
        BY <1>2, <3>3
      <4>2. Wins[i] = Window(vectorSINStored[i])
        BY <1>1, <4>1 DEF WindowsShape, n
      <4> QED
        BY <1>2, <2>1, <3>1, <4>1, <4>2
    <3> QED
      BY <3>2, <3>3
  <2>4. Wins' = w
    BY <2>1, <2>2, <2>3, SeqEqual
  <2> QED
    BY <2>4 DEF w
<1> QED
  BY <1>3, <1>4 DEF Windows!Open, Caps, Wins

(* ... the command "buffer" changes a capacity... *)
LEMMA CapacityStep ==
  ASSUME ProtocolInv, ProtocolInv', now' = now,
         NEW p \in 1 .. Len(vectorSINStored), NEW k \in Nat,
         HarmlessResize(vectorSINStored[p], k),
         vectorSINStored' = [vectorSINStored EXCEPT ![p] = Resize(@, k)]
  PROVE  p \in 1 .. Len(Caps) /\ Windows!SetCapacity(p, k)
<1> DEFINE n == Len(vectorSINStored)
           ds == vectorSINStored[p]
<1>1. WindowsShape /\ WindowsShape'
  BY Shape, ShapeNext
<1>2. ds \in StackOf(Slot) /\ Sound(ds) /\ HarmlessResize(ds, k)
  BY <1>1 DEF WindowsShape
<1>3. /\ Window(Resize(ds, k)) = Window(ds) /\ Len(Window(ds)) <= k
      /\ Resize(ds, k) \in StackOf(Slot) /\ Len(Resize(ds, k).slots) = k
  <2> HIDE DEF ds
  <2>1. Window(Resize(ds, k)) = Window(ds) /\ Len(Window(ds)) <= k
    BY <1>2, BlankType, ResizeWindow
  <2>2. Resize(ds, k) \in StackOf(Slot) /\ Len(Resize(ds, k).slots) = k
    BY <1>2, BlankType, ResizeType
  <2> QED
    BY <2>1, <2>2
<1>4. /\ Len(vectorSINStored') = n
      /\ \A i \in 1 .. n :
           vectorSINStored'[i] = IF i = p THEN Resize(ds, k) ELSE vectorSINStored[i]
  BY <1>3, ExceptSeq DEF ProtocolInv, RanksInv, TypeOK
<1> HIDE DEF ds
<1>5. Caps' = [Caps EXCEPT ![p] = k]
  <2> DEFINE c == [Caps EXCEPT ![p] = k]
  <2>1. /\ c \in Seq(Nat) /\ Len(c) = n
        /\ \A i \in 1 .. n : c[i] = IF i = p THEN k ELSE Caps[i]
    <3>1. Caps \in Seq(Nat) /\ Len(Caps) = n
      BY <1>1 DEF WindowsShape
    <3> QED
      BY <3>1, ExceptSeq
  <2> HIDE DEF c
  <2>2. Caps' \in Seq(Nat) /\ Len(Caps') = n
    BY <1>1, <1>4 DEF WindowsShape
  <2>3. ASSUME NEW i \in 1 .. n PROVE Caps'[i] = c[i]
    <3>1. Caps'[i] = Len(vectorSINStored'[i].slots) /\ Caps[i] = Len(vectorSINStored[i].slots)
      BY <1>1, <1>4 DEF WindowsShape
    <3> QED
      BY <1>3, <1>4, <2>1, <3>1
  <2>4. Caps' = c
    BY <2>1, <2>2, <2>3, SeqEqual
  <2> QED
    BY <2>4 DEF c
<1>6. Wins' = Wins
  <2>1. /\ Wins \in Seq(Seq(Slot)) /\ Len(Wins) = n
        /\ Wins' \in Seq(Seq(Slot)) /\ Len(Wins') = n
    BY <1>1, <1>4 DEF WindowsShape
  <2>2. ASSUME NEW i \in 1 .. n PROVE Wins'[i] = Wins[i]
    <3>1. Wins'[i] = Window(vectorSINStored'[i]) /\ Wins[i] = Window(vectorSINStored[i])
      BY <1>1, <1>4 DEF WindowsShape
    <3> QED
      BY <1>3, <1>4, <3>1 DEF ds
  <2> QED
    BY <2>1, <2>2, SeqEqual
<1>7. Windows!Keep(k, Wins[p]) = Wins[p]
  BY <1>1, <1>3 DEF WindowsShape, ds, Windows!Keep
<1>8. [Wins EXCEPT ![p] = Windows!Keep(k, Wins[p])] = Wins
  <2>1. Wins \in [1 .. n -> Seq(Slot)]
    BY <1>1, LenProperties DEF WindowsShape
  <2> QED
    BY <1>7, <2>1
<1>9. Wins' = [Wins EXCEPT ![p] = Windows!Keep(k, @)]
  BY <1>6, <1>8
<1>10. p \in 1 .. Len(Caps)
  BY <1>1 DEF WindowsShape
<1> QED
  BY <1>5, <1>9, <1>10 DEF Windows!SetCapacity, Caps, Wins

(* A buffer of no cell keeps nothing. *)
LEMMA NothingKept ==
  ASSUME NEW S, NEW ds \in StackOf(S), Sound(ds), Len(ds.slots) = 0, NEW e \in S
  PROVE  Window(ds) = Windows!Keep(0, Append(Window(ds), e))
<1> DEFINE w == Window(ds)
           a == Append(Window(ds), e)
<1>1. w \in Seq(S) /\ Len(w) = 0
  BY WindowType
<1>2. w = << >>
  BY <1>1, EmptySeq
<1>3. Len(a) = 1
  BY <1>1, AppendProperties
<1> HIDE DEF w, a
<1>4. Windows!Keep(0, a) = SubSeq(a, 2, 1)
  BY <1>3 DEF Windows!Keep
<1>5. SubSeq(a, 2, 1) = << >>
  BY SubSeqEmpty
<1>6. w = Windows!Keep(0, a)
  BY <1>2, <1>4, <1>5
<1> QED
  BY <1>6 DEF w, a

(* The sweep of a tick samples the signals up to one: all those after it   *)
(* are not buffered, or come after one that is buffered and not plugged.   *)
LEMMA SweptPrefix ==
  ASSUME ProtocolInv, SynchroValue
  PROVE  \E m \in 0 .. Len(vectorSINStored) : \E taken \in [1 .. m -> Vectors] :
           /\ \A i \in 1 .. m : Swept(i)
           /\ \A i \in 1 .. Len(vectorSINStored) :
                Buffered(i) /\ Swept(i) => i <= m /\ taken[i] = source[i]
<1> DEFINE n == Len(vectorSINStored)
           T == {i \in 1 .. n : Buffered(i) /\ Swept(i)}
<1>1. n \in Nat
  BY Shape DEF WindowsShape
<1>2. \A i \in T : source[i] \in Vectors
  BY TickStores DEF ProtocolInv, RanksInv
<1>3. CASE T = {}
  <2> DEFINE taken == [i \in 1 .. 0 |-> 0]
  <2>1. taken \in [1 .. 0 -> Vectors]
    OBVIOUS
  <2>2. 0 \in 0 .. n
    BY <1>1
  <2>3. \A i \in 1 .. n : ~(Buffered(i) /\ Swept(i))
    BY <1>3
  <2>4. \A i \in 1 .. 0 : Swept(i)
    OBVIOUS
  <2> HIDE DEF taken
  <2> QED
    BY <2>1, <2>2, <2>3, <2>4
<1>4. CASE T # {}
  <2>1. T \in SUBSET (1 .. n)
    OBVIOUS
  <2> HIDE DEF T
  <2>2. PICK m \in T : \A t \in T : t <= m
    BY <1>1, <1>4, <2>1, LastPosition
  <2> DEFINE taken == [i \in 1 .. m |-> IF i \in T THEN source[i] ELSE source[m]]
  <2>3. m \in 0 .. n /\ m \in 1 .. n
    BY <1>1, <2>1, <2>2
  <2>4. taken \in [1 .. m -> Vectors]
    BY <1>2, <2>2
  <2>5. ASSUME NEW i \in 1 .. m PROVE Swept(i)
    <3>1. Swept(m)
      BY <2>2 DEF T
    <3>2. \A j \in 1 .. i : j \in 1 .. m
      BY <2>3
    <3> QED
      BY <3>1, <3>2 DEF Swept
  <2>6. ASSUME NEW i \in 1 .. n, Buffered(i) /\ Swept(i)
        PROVE  i <= m /\ taken[i] = source[i]
    <3>1. i \in T
      BY <2>6 DEF T
    <3>2. i <= m
      BY <2>2, <3>1
    <3>3. i \in 1 .. m
      BY <1>1, <2>3, <3>2
    <3> QED
      BY <3>1, <3>2, <3>3
  <2> HIDE DEF taken
  <2> QED
    BY <2>3, <2>4, <2>5, <2>6
<1> QED
  BY <1>3, <1>4

(* ... and a tick takes one sample of each signal it reaches. *)
LEMMA TickStep ==
  ASSUME ProtocolInv, ProtocolInv', SynchroValue
  PROVE  \E m \in 0 .. Len(Caps) : \E taken \in [1 .. m -> Vectors] : Windows!Tick(m, taken)
<1> DEFINE n == Len(vectorSINStored)
<1>1. WindowsShape /\ WindowsShape'
  BY Shape, ShapeNext
<1>2. PICK m \in 0 .. n : \E taken \in [1 .. m -> Vectors] :
           /\ \A i \in 1 .. m : Swept(i)
           /\ \A i \in 1 .. n :
                Buffered(i) /\ Swept(i) => i <= m /\ taken[i] = source[i]
  BY SweptPrefix
<1>3. PICK taken \in [1 .. m -> Vectors] :
           /\ \A i \in 1 .. m : Swept(i)
           /\ \A i \in 1 .. n :
                Buffered(i) /\ Swept(i) => i <= m /\ taken[i] = source[i]
  BY <1>2
<1>4. Len(vectorSINStored') = n /\ n \in Nat
  BY <1>1, SynchroType DEF ProtocolInv, RanksInv, WindowsShape
<1>5. now' = now + 1 /\ now' \in Nat
  BY DEF SynchroValue, ProtocolInv, RanksInv, TypeOK
<1> DEFINE sample(i) == [ts |-> now', data |-> taken[i]]
<1>6. ASSUME NEW i \in 1 .. n
      PROVE  /\ Caps'[i] = Caps[i]
             /\ Wins'[i] = IF i <= m THEN Windows!Keep(Caps[i], Append(Wins[i], sample(i)))
                                     ELSE Wins[i]
  <2> DEFINE ds == vectorSINStored[i]
             es == vectorSINStored'[i]
  <2>1. /\ ds \in StackOf(Slot) /\ Sound(ds) /\ Caps[i] = Len(ds.slots) /\ Wins[i] = Window(ds)
        /\ Caps'[i] = Len(es.slots) /\ Wins'[i] = Window(es)
    BY <1>1, <1>4 DEF WindowsShape
  <2>2. CASE Buffered(i) /\ Swept(i)
    <3>1. i <= m /\ taken[i] = source[i]
      BY <1>3, <2>2
    <3>2. sample(i) \in Slot /\ es = Store(ds, sample(i))
      BY <2>2, <3>1, TickStores DEF ProtocolInv, RanksInv
    <3>3. Len(ds.slots) # 0
      BY <2>2 DEF Buffered
    <3> HIDE DEF ds, es, sample
    <3>4. Len(es.slots) = Len(ds.slots)
      BY <2>1, <3>2, StoreType
    <3>5. Window(es) = Windows!Keep(Len(ds.slots), Append(Window(ds), sample(i)))
      BY <2>1, <3>2, <3>3, StoreWindow
    <3> QED
      BY <2>1, <3>1, <3>4, <3>5
  <2>3. CASE ~(Buffered(i) /\ Swept(i))
    <3>1. es = ds
      BY <2>3 DEF SynchroValue
    <3>2. CASE i <= m
      <4>1. i \in 1 .. m
        BY <1>4, <3>2
      <4>2. Len(ds.slots) = 0
        BY <1>3, <2>3, <4>1 DEF Buffered
      <4>3. sample(i) \in Slot
        BY <1>3, <1>5, <4>1, VectorsAssumption DEF Slot
      <4> HIDE DEF ds, es, sample
      <4>4. Window(ds) = Windows!Keep(0, Append(Window(ds), sample(i)))
        BY <2>1, <4>2, <4>3, NothingKept
      <4> QED
        BY <2>1, <3>1, <3>2, <4>2, <4>4
    <3>3. CASE ~(i <= m)
      BY <2>1, <3>1, <3>3
    <3> QED
      BY <3>2, <3>3
  <2> QED
    BY <2>2, <2>3
<1>7. Caps' = Caps
  <2>1. Caps \in Seq(Nat) /\ Len(Caps) = n /\ Caps' \in Seq(Nat) /\ Len(Caps') = n
    BY <1>1, <1>4 DEF WindowsShape
  <2> QED
    BY <1>6, <2>1, SeqEqual
<1>8. Wins' = [i \in 1 .. Len(Wins) |->
                 IF i <= m THEN Windows!Keep(Caps[i], Append(Wins[i], sample(i)))
                           ELSE Wins[i]]
  <2>1. Len(Wins) = n /\ Wins' \in [1 .. n -> Seq(Slot)]
    BY <1>1, <1>4, LenProperties DEF WindowsShape
  <2>2. Wins' = [i \in 1 .. n |-> Wins'[i]]
    BY <2>1
  <2> HIDE DEF sample
  <2> QED
    BY <1>6, <2>1, <2>2
<1>9. m \in 0 .. Len(Caps)
  BY <1>1 DEF WindowsShape
<1>10. Windows!Tick(m, taken)
  BY <1>5, <1>7, <1>8 DEF Windows!Tick, Caps, Wins
<1> QED
  BY <1>9, <1>10

LEMMA WindowsStep == ProtocolInv /\ ProtocolInv' /\ [ProtocolNext]_vars => [Windows!Next]_Windows!vars
<1> SUFFICES ASSUME ProtocolInv, ProtocolInv', [ProtocolNext]_vars
             PROVE  [Windows!Next]_Windows!vars
  OBVIOUS
<1>1. ASSUME UNCHANGED <<now, vectorSINStored>>
      PROVE  [Windows!Next]_Windows!vars
  BY <1>1 DEF Windows!vars
<1>2. ASSUME NEW n \in Names, CreateInputVectorSignal(n)
      PROVE  [Windows!Next]_Windows!vars
  <2>1. CASE vectorSINStored' = Append(vectorSINStored, EmptyStack)
    <3>1. now' = now
      BY <1>2 DEF CreateInputVectorSignal
    <3> QED
      BY <2>1, <3>1, OpenStep DEF Windows!Next
  <2>2. CASE UNCHANGED vectorSINStored
    BY <1>1, <1>2, <2>2 DEF CreateInputVectorSignal
  <2> QED
    BY <1>2, <2>1, <2>2 DEF CreateInputVectorSignal
<1>3. ASSUME NEW n \in Range(vectorSIN), NEW k \in Sizes,
             HarmlessResize(vectorSINStored[RankOf(vectorSIN, n) + 1], k),
             BufferSignal(n, k)
      PROVE  [Windows!Next]_Windows!vars
  <2> DEFINE p == LookUp(n) + 1
  <2>1. /\ LookUp(n) = RankOf(vectorSIN, n) /\ LookUp(n) < Len(vectorSINStored)
        /\ LookUp(n) \in Nat /\ Len(vectorSINStored) \in Nat
    BY BufferFound, LenProperties DEF ProtocolInv, RanksInv, TypeOK, LookUp, Get
  <2>2. p \in 1 .. Len(vectorSINStored) /\ HarmlessResize(vectorSINStored[p], k) /\ k \in Nat
    BY <1>3, <2>1, SizesAssumption
  <2>3. now' = now
    BY <1>3 DEF BufferSignal
  <2>4. CASE vectorSINStored' = [vectorSINStored EXCEPT ![p] = Resize(@, k)]
    <3> HIDE DEF p
    <3>1. p \in 1 .. Len(Caps) /\ Windows!SetCapacity(p, k)
      BY <2>2, <2>3, <2>4, CapacityStep
    <3> QED
      BY <3>1 DEF Windows!Next, Caps
  <2>5. CASE UNCHANGED vectorSINStored
    BY <1>1, <2>3, <2>5
  <2> QED
    BY <1>3, <2>4, <2>5 DEF BufferSignal
<1>4. ASSUME SynchroValue
      PROVE  [Windows!Next]_Windows!vars
  <2>1. \E m \in 0 .. Len(Caps) : \E taken \in [1 .. m -> Vectors] : Windows!Tick(m, taken)
    BY <1>4, TickStep
  <2> QED
    BY <2>1 DEF Windows!Next, Caps
<1>5. ASSUME ProtocolNext
      PROVE  \/ UNCHANGED <<now, vectorSINStored>>
             \/ \E n \in Names : CreateInputVectorSignal(n)
             \/ \E n \in Range(vectorSIN), k \in Sizes :
                  /\ HarmlessResize(vectorSINStored[RankOf(vectorSIN, n) + 1], k)
                  /\ BufferSignal(n, k)
             \/ SynchroValue
  BY <1>5 DEF ProtocolNext, CreateOutputVectorSignal, WriteOutputVectorSignal,
     ReadInputVectorSignal, ReadSeqInputVectorSignal, SourceChange
<1>6. UNCHANGED vars => UNCHANGED <<now, vectorSINStored>>
  BY DEF vars
<1> QED
  BY <1>1, <1>2, <1>3, <1>4, <1>5, <1>6

(* The circular buffers, with index and turnaround, are the windows of the *)
(* last samples, through every creation, resize and tick of the protocol   *)
(* (server-command.h:57-73, server-command.cpp:427-456).                   *)
THEOREM WindowsImplemented == ProtocolSpec => WindowSpec
<1>1. Init => Windows!Init
  <2> SUFFICES ASSUME Init PROVE Windows!Init
    OBVIOUS
  <2>1. vectorSINStored = << >> /\ now = 0 /\ Len(vectorSINStored) = 0
    BY EmptySeq DEF Init
  <2>2. Caps = << >> /\ Wins = << >>
    BY <2>1 DEF Caps, Wins
  <2> QED
    BY <2>1, <2>2 DEF Windows!Init, Caps, Wins
<1> QED
  BY <1>1, WindowsStep, ProtocolInvariant, PTL DEF ProtocolSpec, WindowSpec, Windows!Spec

-----------------------------------------------------------------------------
(* Reads. *)

(* A cell that has the dimension of the current value is copied as it is. *)
LEMMA RowIsCell ==
  ASSUME NEW ds \in StackOf(Slot), NEW j \in 1 .. Len(ds.slots), NEW dim \in Nat,
         Len(ds.slots[j].data) = dim
  PROVE  Row(ds, j, dim) = ds.slots[j]
<1> DEFINE cell == ds.slots[j]
<1>1. Len(ds.slots) \in Nat /\ cell \in Slot
  BY CountType, ElementOfSeq DEF StackOf
<1>2. j <= Len(ds.slots)
  BY <1>1
<1>3. /\ cell = [ts |-> cell.ts, data |-> cell.data]
      /\ cell.data \in [1 .. dim -> Scalars]
  BY <1>1, LenProperties DEF Slot
<1>4. Len(cell.data) = dim
  OBVIOUS
<1>5. Row(ds, j, dim) = [ts |-> cell.ts,
                         data |-> [i \in 1 .. dim |-> IF i <= Len(cell.data) THEN cell.data[i]
                                                                            ELSE Garbage]]
  BY <1>2 DEF Row
<1> HIDE DEF cell
<1>6. [i \in 1 .. dim |-> IF i <= Len(cell.data) THEN cell.data[i] ELSE Garbage] = cell.data
  BY <1>3, <1>4
<1>7. Row(ds, j, dim) = cell
  BY <1>3, <1>5, <1>6
<1> QED
  BY <1>7 DEF cell

LEMMA ProtocolReads == ProtocolInv => ReadsReturnWindow
<1> SUFFICES ASSUME ProtocolInv, NEW i \in 1 .. Len(vectorSIN),
                    source[i] # NoValue, Window(vectorSINStored[i]) # << >>
             PROVE  /\ Len(ReadReply(i - 1)) = Len(Window(vectorSINStored[i]))
                    /\ \E k \in 0 .. Len(Window(vectorSINStored[i])) - 1 :
                         \A j \in 1 .. Len(Window(vectorSINStored[i])) :
                           ReadReply(i - 1)[j] =
                             Window(vectorSINStored[i])
                               [((j - 1 + k) % Len(Window(vectorSINStored[i]))) + 1]
  BY DEF ReadsReturnWindow
<1> DEFINE ds == vectorSINStored[i]
           win == Window(vectorSINStored[i])
           rows == ReadReply(i - 1)
           dim == Len(source[i])
<1>1. /\ Len(vectorSIN) \in Nat /\ i \in 1 .. Len(vectorSINStored)
      /\ i - 1 + 1 = i /\ Valid(vectorSIN, i - 1)
  BY LenProperties DEF ProtocolInv, RanksInv, RanksAgree, TypeOK, Valid
<1>2. ds \in StackOf(Slot) /\ Sound(ds) /\ Fits(ds, source[i])
  BY <1>1, Shape DEF WindowsShape, ProtocolInv, BuffersFit
<1>3. dim \in Nat
  <2>1. source[i] \in Vectors
    BY <1>1, ElementOfSeq DEF ProtocolInv, RanksInv, RanksAgree, TypeOK
  <2> QED
    BY <2>1, VectorsAssumption, LenProperties
<1> HIDE DEF ds, win, rows, dim
<1>4. /\ win \in Seq(Slot) /\ Len(win) = Count(ds)
      /\ Count(ds) \in 0 .. Len(ds.slots) /\ Len(ds.slots) \in Nat
  BY <1>2, WindowType DEF win, ds
<1>5. Count(ds) # 0
  <2>1. win # << >>
    BY DEF win
  <2> QED
    BY <1>4, <2>1, EmptySeq
<1>6. rows = Rows(ds, dim)
  BY <1>1, <1>5 DEF rows, ReadReply, ds, dim
<1>7. ASSUME NEW j \in 1 .. Count(ds) PROVE rows[j] = ds.slots[j]
  <2>1. rows[j] = Row(ds, j, dim)
    BY <1>6 DEF Rows
  <2>2. j \in 1 .. Len(ds.slots)
    BY <1>4
  <2>3. Len(ds.slots[j].data) = dim
    BY <1>2 DEF Fits, dim
  <2> QED
    BY <1>2, <1>3, <2>1, <2>2, <2>3, RowIsCell
<1>8. Len(rows) = Count(ds)
  <2>1. \A j \in 1 .. Count(ds) : ds.slots[j] \in Slot
    BY <1>2, <1>4, ElementOfSeq DEF StackOf
  <2>2. rows \in [1 .. Count(ds) -> Slot]
    <3>1. rows = [j \in 1 .. Count(ds) |-> Row(ds, j, dim)]
      BY <1>6 DEF Rows
    <3>2. \A j \in 1 .. Count(ds) : rows[j] \in Slot
      BY <1>7, <2>1
    <3> QED
      BY <3>1, <3>2
  <2>3. Count(ds) \in Nat
    BY <1>4
  <2> QED
    BY <2>2, <2>3, FcnIsSeq
<1>9. PICK k \in 0 .. Count(ds) - 1 : \A j \in 1 .. Count(ds) :
        ds.slots[j] = win[((j - 1 + k) % Count(ds)) + 1]
  BY <1>2, <1>5, CellsRotated DEF win, ds
<1>10. /\ Len(rows) = Len(win)
       /\ \E kk \in 0 .. Len(win) - 1 : \A j \in 1 .. Len(win) :
            rows[j] = win[((j - 1 + kk) % Len(win)) + 1]
  BY <1>4, <1>7, <1>8, <1>9
<1> QED
  BY <1>10 DEF rows, win

(* Under the protocol a read of a plugged and buffered signal returns the  *)
(* window: every sample in it once, none torn and nothing else, up to a    *)
(* rotation (server-command.cpp:315-338).                                  *)
THEOREM ReadsAlwaysReturnWindow == ProtocolSpec => []ReadsReturnWindow
BY ProtocolReads, ProtocolInvariant, PTL
=============================================================================
