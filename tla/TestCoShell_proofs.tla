------------------------- MODULE TestCoShell_proofs -------------------------
(***************************************************************************)
(* Theorems about the session of test_corba_shell, for every set of names  *)
(* and values, every size asked for, and any number of restarts of the     *)
(* server and of connections lost.                                         *)
(*                                                                         *)
(* The session keeps the entity within what ServerCommand_proofs shows of  *)
(* its protocol, but for the command "buffer" sent to a process that does  *)
(* not know comstate; the places of the program say what its calls have    *)
(* achieved in the process that created comstate; the window of comstate   *)
(* is the end of what the ticks have found in it.                          *)
(***************************************************************************)
EXTENDS TestCoShell, ServerCommand_proofs

(* The program sends commands or reads: comstate has been created. *)
Busy == {"send", "rebind", "resend", "read"}

(* Nobody else buffers: every buffer has no cell, and nothing was written  *)
(* to it, or the size that the program asks for.                           *)
BuffersInv ==
  \A i \in 1 .. Len(vectorSINStored) :
     LET ds == vectorSINStored[i] IN
     Len(ds.slots) \in {0, SizeAsked} /\ (Len(ds.slots) = 0 => ~ds.turnaround)

ServerInv == RanksInv /\ BuffersFit /\ BuffersInv /\ vectorSOUT = << >>

Placed == createdIn = epoch => <<Comstate, lIVS>> \in inRanks

ProgressInv ==
  /\ createdIn <= epoch
  /\ pc \in {"connect", "register", "create"} => createdIn = 0 /\ command = 1
  /\ pc \in Busy => createdIn # 0
  /\ pc = "read" => command = 4

DoneInv ==
  createdIn = epoch /\ pc \in Busy =>
    /\ command > 1 /\ 1 \notin refused => source[lIVS + 1] # NoValue
    /\ command > 2 /\ 2 \notin refused => Len(vectorSINStored[lIVS + 1].slots) = SizeAsked
    /\ command > 3 /\ 3 \notin refused => periodic

IInv ==
  /\ SessionTypeOK /\ ServerInv /\ Placed /\ ProgressInv /\ DoneInv
  /\ AbortsOnlyWarned

-----------------------------------------------------------------------------
(* The entity, in the hands of the program and of the others.              *)

LEMMA ComstateName == Comstate \in Names /\ Comstate \notin BuiltIn
BY ComstateAssumption

LEMMA SizeAskedType == SizeAsked \in Sizes /\ SizeAsked \in Nat /\ SizeAsked # 0
BY SizeAskedAssumption, SizesAssumption

LEMMA ServerProtocol == ASSUME ServerInv, alive PROVE ProtocolInv
BY Zenon DEF ServerInv, ProtocolInv

LEMMA StoredType ==
  ASSUME ServerInv
  PROVE  /\ Len(vectorSINStored) \in Nat /\ Len(source) \in Nat
         /\ Len(source) = Len(vectorSIN) /\ Len(vectorSINStored) = Len(vectorSIN)
         /\ \A i \in 1 .. Len(vectorSINStored) : vectorSINStored[i] \in StackOf(Slot)
BY LenProperties, ElementOfSeq DEF ServerInv, RanksInv, RanksAgree, TypeOK

(* A name is at one position, the one that the map leads to. *)
LEMMA PositionOf ==
  ASSUME ServerInv, NEW i \in 1 .. Len(vectorSIN), vectorSIN[i] = Comstate
  PROVE  RankOf(vectorSIN, Comstate) + 1 = i
<1> DEFINE r == RankOf(vectorSIN, Comstate)
<1>1. Comstate \in Range(vectorSIN)
  BY LenProperties DEF Range, ServerInv, RanksInv, TypeOK
<1>2. r \in Nat /\ r + 1 \in 1 .. Len(vectorSIN) /\ vectorSIN[r + 1] = Comstate
  BY <1>1, RankFound, StoredType DEF Valid, ServerInv, RanksInv, TypeOK
<1> HIDE DEF r
<1>3. (r + 1) - 1 = i - 1 /\ i \in Int
  BY <1>2, StoredType DEF ServerInv, RanksInv, RanksAgree
<1>4. r + 1 = i
  BY <1>2, <1>3
<1> QED
  BY <1>4 DEF r

(* What a step never takes back: the ranks returned, the sources plugged,  *)
(* the buffers that have the size asked for.                               *)
Monotone ==
  /\ inRanks \subseteq inRanks'
  /\ \A i \in 1 .. Len(source) : source[i] # NoValue => source'[i] # NoValue
  /\ \A i \in 1 .. Len(vectorSINStored) :
       Len(vectorSINStored[i].slots) = SizeAsked => Len(vectorSINStored'[i].slots) = SizeAsked

LEMMA CreateKept ==
  ASSUME ServerInv, alive, NEW n \in Names \ BuiltIn, CreateInputVectorSignal(n)
  PROVE  ServerInv' /\ Monotone /\ alive'
<1>1. RanksInv'
  BY AnyStepRanks DEF ServerInv, AnyStep
<1>2. n \in Names \ (BuiltIn \cup Range(vectorSOUT))
  BY DEF ServerInv, Range
<1>3. BuffersFit' /\ alive'
  BY <1>2, ServerProtocol, CreateInputFits
<1>4. vectorSOUT' = << >>
  BY DEF ServerInv, CreateInputVectorSignal, outVars
<1>5. CASE UNCHANGED <<source, vectorSINStored>> /\ inRanks \subseteq inRanks'
  BY <1>1, <1>3, <1>4, <1>5 DEF ServerInv, BuffersInv, Monotone
<1>6. CASE /\ source' = Append(source, NoValue)
           /\ vectorSINStored' = Append(vectorSINStored, EmptyStack)
           /\ inRanks \subseteq inRanks'
  <2>1. /\ Len(vectorSINStored') = Len(vectorSINStored) + 1
        /\ vectorSINStored'[Len(vectorSINStored) + 1] = EmptyStack
        /\ \A i \in 1 .. Len(vectorSINStored) : vectorSINStored'[i] = vectorSINStored[i]
        /\ \A i \in 1 .. Len(source) : source'[i] = source[i]
    BY <1>6, AppendProperties, EmptyStackType DEF ServerInv, RanksInv, TypeOK
  <2>2. Len(EmptyStack.slots) = 0 /\ ~EmptyStack.turnaround
    BY EmptySeq DEF EmptyStack
  <2>3. ASSUME NEW i \in 1 .. Len(vectorSINStored')
        PROVE  LET ds == vectorSINStored'[i] IN
               Len(ds.slots) \in {0, SizeAsked} /\ (Len(ds.slots) = 0 => ~ds.turnaround)
    <3>1. CASE i = Len(vectorSINStored) + 1
      BY <2>1, <2>2, <3>1
    <3>2. CASE i \in 1 .. Len(vectorSINStored)
      BY <2>1, <3>2 DEF ServerInv, BuffersInv
    <3> QED
      BY <2>1, <3>1, <3>2, StoredType
  <2>4. BuffersInv'
    BY <2>3 DEF BuffersInv
  <2> QED
    BY <1>1, <1>3, <1>4, <1>6, <2>1, <2>4 DEF ServerInv, Monotone
<1> QED
  BY <1>5, <1>6 DEF CreateInputVectorSignal, inVars, SignalMap

(* Whichever buffer the command "buffer" finds, the resize is harmless: it *)
(* is the first, or asks for the size there is.                            *)
LEMMA FirstOrSame ==
  ASSUME ServerInv, NEW i \in 1 .. Len(vectorSINStored)
  PROVE  HarmlessResize(vectorSINStored[i], SizeAsked)
<1> DEFINE ds == vectorSINStored[i]
<1>1. Fits(ds, source[i]) /\ Len(ds.slots) \in {0, SizeAsked}
      /\ (Len(ds.slots) = 0 => ~ds.turnaround)
  BY DEF ServerInv, BuffersFit, BuffersInv
<1>2. CASE Len(ds.slots) = 0
  <2>1. ds.index = 0
    BY <1>1, <1>2 DEF Fits
  <2> QED
    BY <1>1, <1>2, <2>1 DEF HarmlessResize
<1>3. CASE Len(ds.slots) = SizeAsked
  BY <1>3 DEF HarmlessResize
<1> QED
  BY <1>1, <1>2, <1>3

LEMMA BufferKept ==
  ASSUME ServerInv, alive, BufferSignal(Comstate, SizeAsked)
  PROVE  ServerInv' /\ Monotone /\ (Comstate \in Range(vectorSIN) => alive')
<1> USE ComstateName, SizeAskedType
<1>1. RanksInv' /\ RanksInv /\ TypeOK /\ BuffersFit
  BY AnyStepRanks DEF ServerInv, AnyStep, RanksInv
<1>2. \A i \in 1 .. Len(vectorSINStored) : HarmlessResize(vectorSINStored[i], SizeAsked)
  BY FirstOrSame
<1>3. LookUp(Comstate) \in Nat
  BY <1>1 DEF LookUp, Get, TypeOK
<1>4. BuffersFit'
  BY <1>1, <1>2, <1>3, BufferFits, StoredType
<1>5. BuffersInv'
  <2> SUFFICES ASSUME NEW i \in 1 .. Len(vectorSINStored)
               PROVE  LET ds == vectorSINStored'[i] IN
                      Len(ds.slots) \in {0, SizeAsked} /\ (Len(ds.slots) = 0 => ~ds.turnaround)
    BY <1>1, BufferResizes DEF BuffersInv
  <2>1. CASE vectorSINStored'[i] = vectorSINStored[i]
    BY <2>1 DEF ServerInv, BuffersInv
  <2>2. CASE vectorSINStored'[i] = Resize(vectorSINStored[i], SizeAsked)
    <3>1. vectorSINStored[i] \in StackOf(Slot)
      BY StoredType
    <3>2. Len(Resize(vectorSINStored[i], SizeAsked).slots) = SizeAsked
      BY <3>1, BlankType, ResizeType
    <3> QED
      BY <2>2, <3>2
  <2> QED
    BY <1>1, <2>1, <2>2, BufferResizes
<1>6. UNCHANGED <<vectorSOUT, source, inRanks>>
  BY DEF BufferSignal, outVars, inVars
<1>7. ASSUME Comstate \in Range(vectorSIN) PROVE alive'
  <2>1. LookUp(Comstate) < Len(vectorSINStored)
    BY <1>1, <1>7, BufferFound
  <2>2. ~(LookUp(Comstate) >= Len(vectorSINStored))
    BY <1>3, <2>1, StoredType
  <2>3. alive' = alive
    BY <2>2 DEF BufferSignal
  <2> QED
    BY <2>3, Zenon
<1>8. ASSUME NEW i \in 1 .. Len(vectorSINStored), Len(vectorSINStored[i].slots) = SizeAsked
      PROVE  Len(vectorSINStored'[i].slots) = SizeAsked
  <2>1. CASE vectorSINStored'[i] = vectorSINStored[i]
    BY <1>8, <2>1
  <2>2. CASE vectorSINStored'[i] = Resize(vectorSINStored[i], SizeAsked)
    <3>1. vectorSINStored[i] \in StackOf(Slot)
      BY StoredType
    <3>2. Len(Resize(vectorSINStored[i], SizeAsked).slots) = SizeAsked
      BY <3>1, BlankType, ResizeType
    <3> QED
      BY <2>2, <3>2
  <2> QED
    BY <1>1, <2>1, <2>2, BufferResizes
<1> QED
  BY <1>1, <1>4, <1>5, <1>6, <1>7, <1>8 DEF ServerInv, Monotone

LEMMA SourceKept ==
  ASSUME ServerInv, alive, NEW i \in 1 .. Len(source), NEW v \in Vectors,
         KeepsDimension(i, v), SourceChange(i, v)
  PROVE  ServerInv' /\ Monotone /\ alive' /\ source'[i] # NoValue
<1>1. RanksInv'
  BY AnyStepRanks DEF ServerInv, AnyStep
<1>2. BuffersFit' /\ alive'
  BY ServerProtocol, SourceFits
<1>3. UNCHANGED <<vectorSOUT, vectorSINStored, inRanks>>
  BY DEF SourceChange, outVars
<1>4. \A j \in 1 .. Len(source) : source'[j] = IF j = i THEN v ELSE source[j]
  BY ExceptSeq DEF SourceChange, ServerInv, RanksInv, TypeOK
<1> QED
  BY <1>1, <1>2, <1>3, <1>4, NoValueAssumption DEF ServerInv, BuffersInv, Monotone

LEMMA SynchroKept ==
  ASSUME ServerInv, alive, SynchroValue
  PROVE  ServerInv' /\ Monotone /\ alive'
<1>1. RanksInv'
  BY AnyStepRanks DEF ServerInv, AnyStep
<1>2. BuffersFit' /\ alive'
  BY ServerProtocol, SynchroSafe
<1>3. UNCHANGED <<vectorSOUT, source, inRanks>>
  BY DEF SynchroValue, outVars, inVars
<1>4. Len(vectorSINStored') = Len(vectorSINStored)
  BY SynchroType DEF ServerInv, RanksInv, RanksAgree
<1>5. /\ BuffersInv'
      /\ \A i \in 1 .. Len(vectorSINStored) :
           Len(vectorSINStored[i].slots) = SizeAsked => Len(vectorSINStored'[i].slots) = SizeAsked
  <2> SUFFICES ASSUME NEW i \in 1 .. Len(vectorSINStored)
               PROVE  LET ds == vectorSINStored'[i] IN
                      /\ Len(ds.slots) \in {0, SizeAsked}
                      /\ Len(ds.slots) = 0 => ~ds.turnaround
                      /\ Len(vectorSINStored[i].slots) = SizeAsked => Len(ds.slots) = SizeAsked
    BY <1>4 DEF BuffersInv
  <2>1. CASE Buffered(i) /\ Swept(i)
    <3> DEFINE sample == [ts |-> now', data |-> source[i]]
    <3>1. /\ sample \in Slot /\ vectorSINStored[i] \in StackOf(Slot)
          /\ vectorSINStored'[i] = Store(vectorSINStored[i], sample)
      BY <2>1, TickStores DEF ServerInv, RanksInv
    <3> HIDE DEF sample
    <3>2. Len(vectorSINStored[i].slots) # 0
      BY <2>1 DEF Buffered
    <3>3. Len(Store(vectorSINStored[i], sample).slots) = Len(vectorSINStored[i].slots)
      BY <3>1, StoreType
    <3> QED
      BY <3>1, <3>2, <3>3 DEF ServerInv, BuffersInv
  <2>2. CASE ~(Buffered(i) /\ Swept(i))
    <3>1. vectorSINStored'[i] = vectorSINStored[i]
      BY <2>2 DEF SynchroValue
    <3> QED
      BY <3>1 DEF ServerInv, BuffersInv
  <2> QED
    BY <2>1, <2>2
<1> QED
  BY <1>1, <1>2, <1>3, <1>5 DEF ServerInv, Monotone

(* A step that leaves the entity as it is, if the process lives. *)
LEMMA ServerFrame ==
  ASSUME ServerInv, alive' \in BOOLEAN,
         UNCHANGED <<now, outVars, inVars, vectorSINStored, vectorName2Rank>>
  PROVE  ServerInv' /\ Monotone
<1>1. TypeOK'
  BY DEF ServerInv, RanksInv, TypeOK, outVars, inVars
<1>2. RanksInv'
  BY <1>1, FrameRanks DEF ServerInv, outVars, inVars
<1>3. BuffersFit' /\ BuffersInv' /\ vectorSOUT' = << >>
  BY FrameFit DEF ServerInv, BuffersInv, outVars, inVars
<1> QED
  BY <1>2, <1>3 DEF ServerInv, Monotone, inVars

-----------------------------------------------------------------------------
(* Calls. *)

(* comstate is at the rank that the program was given. *)
LEMMA ComstatePlaced ==
  ASSUME IInv, createdIn = epoch
  PROVE  /\ lIVS + 1 \in 1 .. Len(source) /\ vectorSIN[lIVS + 1] = Comstate
         /\ Comstate \in Range(vectorSIN) /\ RankOf(vectorSIN, Comstate) = lIVS
<1> DEFINE p == <<Comstate, lIVS>>
<1>1. p \in inRanks /\ p[1] = Comstate /\ p[2] = lIVS
  BY DEF IInv, Placed
<1> HIDE DEF p
<1>2. Valid(vectorSIN, lIVS) /\ vectorSIN[lIVS + 1] = Comstate
  BY <1>1 DEF IInv, ServerInv, RanksInv, HandedRanksHold
<1>3. lIVS \in Nat
  BY DEF IInv, SessionTypeOK
<1>4. lIVS + 1 \in 1 .. Len(source) /\ lIVS + 1 \in 1 .. Len(vectorSIN)
  BY <1>2, <1>3, StoredType DEF Valid, IInv
<1>5. Comstate \in Range(vectorSIN)
  BY <1>2, <1>4, LenProperties DEF Range, IInv, ServerInv, RanksInv, TypeOK
<1> DEFINE r == RankOf(vectorSIN, Comstate)
<1>6. r \in Nat /\ Valid(vectorSIN, r) /\ vectorSIN[r + 1] = Comstate
  BY <1>5, RankFound DEF IInv, ServerInv, RanksInv, TypeOK
<1> HIDE DEF r
<1>7. r + 1 \in 1 .. Len(vectorSIN)
  BY <1>6, StoredType DEF Valid, IInv
<1>8. vectorName2Rank[Comstate] = (r + 1) - 1 /\ vectorName2Rank[Comstate] = (lIVS + 1) - 1
  BY <1>2, <1>4, <1>6, <1>7 DEF IInv, ServerInv, RanksInv, RanksAgree
<1>9. r = lIVS
  BY <1>3, <1>6, <1>8
<1> QED
  BY <1>2, <1>4, <1>5, <1>9 DEF r

(* What the server does in a call that the program makes at its place.     *)
Effects ==
  \/ UNCHANGED serverState
  \/ CreateComstate
  \/ pc \in {"send", "resend"} /\ \E ok \in BOOLEAN : RunAndRead(ok)
  \/ pc = "read" /\ ReadComstate

(* A call changes the server in a way that the invariant allows, and kills *)
(* it only when it is not the process that created comstate.               *)
EffectKept ==
  /\ ServerInv' /\ Monotone
  /\ periodic' \in BOOLEAN /\ (periodic => periodic') /\ shown' \in Seq(Slot)
  /\ alive' \/ Warned

LEMMA UnchangedKept ==
  ASSUME IInv, UNCHANGED serverState
  PROVE  ServerInv' /\ Monotone /\ UNCHANGED <<alive, periodic, shown>>
<1>1. UNCHANGED <<alive, now, outVars, inVars, vectorSINStored, vectorName2Rank, periodic, shown>>
  BY DEF serverState, vars
<1> QED
  BY <1>1, ServerFrame DEF IInv, SessionTypeOK, TypeOK

LEMMA EffectsKept == ASSUME IInv, alive, Effects PROVE EffectKept
<1>1. ServerInv /\ periodic \in BOOLEAN /\ shown \in Seq(Slot)
  BY DEF IInv, SessionTypeOK
<1>2. ASSUME UNCHANGED serverState PROVE EffectKept
  <2>1. ServerInv' /\ Monotone /\ UNCHANGED <<alive, periodic, shown>>
    BY <1>2, UnchangedKept
  <2>2. alive'
    BY <2>1, Zenon
  <2> QED
    BY <1>1, <2>1, <2>2 DEF EffectKept
<1>3. ASSUME UNCHANGED <<periodic, shown>>, ServerInv', Monotone,
             alive' \/ Warned
      PROVE  EffectKept
  BY <1>1, <1>3 DEF EffectKept
<1>4. ASSUME CreateComstate PROVE EffectKept
  BY <1>1, <1>3, <1>4, ComstateAssumption, CreateKept DEF CreateComstate
<1>5. ASSUME pc \in {"send", "resend"}, NEW ok \in BOOLEAN, RunAndRead(ok) PROVE EffectKept
  <2>1. createdIn # 0
    BY <1>5 DEF IInv, ProgressInv, Busy
  <2>2. ASSUME PlugComstate PROVE EffectKept
    <3>1. RankOf(vectorSIN, Comstate) + 1 \in 1 .. Len(source)
      <4>1. Comstate \in Range(vectorSIN)
        BY <2>2 DEF PlugComstate
      <4>2. /\ RankOf(vectorSIN, Comstate) \in Nat
            /\ Valid(vectorSIN, RankOf(vectorSIN, Comstate))
        BY <1>1, <4>1, RankFound DEF ServerInv, RanksInv, TypeOK
      <4> QED
        BY <1>1, <4>2, StoredType DEF Valid
    <3> QED
      BY <1>1, <1>3, <2>2, <3>1, SourceKept DEF PlugComstate
  <2>3. ASSUME BufferComstate(ok) PROVE EffectKept
    <3>1. BufferSignal(Comstate, SizeAsked) /\ UNCHANGED <<periodic, shown>>
      BY <2>3 DEF BufferComstate
    <3>2. createdIn = epoch => Comstate \in Range(vectorSIN)
      BY ComstatePlaced
    <3> QED
      BY <1>1, <1>3, <2>1, <3>1, <3>2, BufferKept DEF Warned
  <2>4. ASSUME periodic' = TRUE, UNCHANGED <<vars, shown>> PROVE EffectKept
    <3>1. UNCHANGED <<alive, now, outVars, inVars, vectorSINStored, vectorName2Rank, shown>>
      BY <2>4 DEF vars
    <3>2. alive'
      BY <3>1, Zenon
    <3>3. ServerInv' /\ Monotone
      BY <1>1, <3>1, <3>2, ServerFrame DEF ServerInv, RanksInv, TypeOK
    <3> QED
      BY <1>1, <2>4, <3>1, <3>2, <3>3 DEF EffectKept
  <2> QED
    BY <1>2, <1>5, <2>2, <2>3, <2>4 DEF RunAndRead
<1>6. ASSUME pc = "read", ReadComstate PROVE EffectKept
  <2>1. ReadInputVectorSignal(lIVS) /\ UNCHANGED <<periodic, shown>>
    BY <1>6 DEF ReadComstate
  <2>2. ServerInv' /\ Monotone
    BY <1>1, <2>1, ReadFrame, ServerFrame DEF ServerInv, RanksInv
  <2>3. createdIn # 0
    BY <1>6 DEF IInv, ProgressInv, Busy
  <2>4. ASSUME createdIn = epoch, 1 \notin refused PROVE alive'
    <3> DEFINE p == <<Comstate, lIVS>>
    <3>1. p \in inRanks /\ p[2] = lIVS
      BY <2>4 DEF IInv, Placed
    <3>2. source[lIVS + 1] # NoValue
      BY <1>6, <2>4 DEF IInv, DoneInv, ProgressInv, Busy
    <3> HIDE DEF p
    <3> QED
      BY <1>1, <2>1, <3>1, <3>2, ServerProtocol, ReadSafe
  <2> QED
    BY <1>3, <2>1, <2>2, <2>3, <2>4 DEF Warned
<1> QED
  BY <1>2, <1>4, <1>5, <1>6 DEF Effects

(* What a step does to the server, to fallen and to losses. *)
StepKept ==
  /\ ServerInv' /\ Monotone
  /\ periodic' \in BOOLEAN /\ (periodic => periodic') /\ shown' \in Seq(Slot)
  /\ epoch' = epoch /\ losses' \in 0 .. MaxLosses
  /\ fallen' \in BOOLEAN /\ (fallen' => ~alive')
  /\ fallen' => Warned

LEMMA FallsKept ==
  ASSUME IInv, alive, Falls, alive' \in BOOLEAN, alive' \/ Warned
  PROVE  fallen' \in BOOLEAN /\ (fallen' => ~alive') /\ (fallen' => Warned)
<1>1. ~fallen
  BY DEF IInv, SessionTypeOK
<1>2. fallen' = ~alive'
  BY <1>1, Zenon DEF Falls
<1> QED
  BY <1>2

LEMMA QuietKept ==
  ASSUME IInv, UNCHANGED <<serverState, epoch, fallen, losses>>
  PROVE  StepKept
<1>1. ServerInv' /\ Monotone /\ UNCHANGED <<alive, periodic, shown>>
  BY UnchangedKept
<1>2. fallen' => ~alive'
  <2>1. fallen => ~alive
    BY DEF IInv, SessionTypeOK
  <2> QED
    BY <1>1, <2>1, Zenon
<1> QED
  BY <1>1, <1>2 DEF StepKept, IInv, SessionTypeOK, AbortsOnlyWarned, Warned

LEMMA AnsweredKept ==
  ASSUME IInv, Answered(Effects), epoch' = epoch PROVE StepKept
<1>1. alive /\ Effects /\ alive' /\ UNCHANGED <<fallen, losses>>
  BY DEF Answered, Reached
<1>2. EffectKept
  BY <1>1, EffectsKept
<1>3. ~fallen /\ ~fallen'
  BY <1>1, Zenon DEF IInv, SessionTypeOK
<1> QED
  BY <1>1, <1>2, <1>3 DEF StepKept, EffectKept, IInv, SessionTypeOK

LEMMA RaisesKept ==
  ASSUME IInv, Raises(Effects), epoch' = epoch PROVE StepKept
<1>1. CASE ~Reached /\ UNCHANGED <<serverState, losses>>
  <2>1. alive' = alive
    BY <1>1, UnchangedKept
  <2>2. fallen' = (fallen \/ (alive /\ ~alive'))
    BY DEF Raises, Falls
  <2>3. fallen \in BOOLEAN
    BY DEF IInv, SessionTypeOK
  <2>4. fallen' = fallen
    BY <2>1, <2>2, <2>3, Zenon
  <2> QED
    BY <1>1, <2>4, QuietKept
<1>2. CASE Reached /\ Effects /\ losses' \in 0 .. MaxLosses
  <2>1. EffectKept /\ alive
    BY <1>2, EffectsKept DEF Reached
  <2>2. alive' \in BOOLEAN
    BY <2>1 DEF EffectKept, ServerInv, RanksInv, TypeOK
  <2>3. Falls
    BY DEF Raises
  <2> QED
    BY <1>2, <2>1, <2>2, <2>3, FallsKept DEF StepKept, EffectKept
<1>3. UNCHANGED serverState => Effects
  BY DEF Effects
<1>4. losses \in 0 .. MaxLosses /\ (losses < MaxLosses => losses + 1 \in 0 .. MaxLosses)
  BY SessionBounds DEF IInv, SessionTypeOK
<1> QED
  BY <1>1, <1>2, <1>3, <1>4 DEF Raises

-----------------------------------------------------------------------------
(* The program. *)

(* What remains to be shown of a step. *)
LEMMA StepInv ==
  ASSUME IInv, StepKept, pc' \in Labels, command' \in 1 .. 4, serverPtr' \in 0 .. MaxEpochs,
         UNCHANGED <<lIVS, createdIn>>, ProgressInv', DoneInv',
         refused \subseteq refused', refused' \subseteq 1 .. 4
  PROVE  IInv'
<1>1. SessionTypeOK'
  BY DEF IInv, StepKept, ServerInv, RanksInv, SessionTypeOK
<1>2. Placed'
  BY DEF IInv, StepKept, Monotone, Placed
<1>3. AbortsOnlyWarned'
  BY DEF IInv, StepKept, AbortsOnlyWarned, Warned
<1> QED
  BY <1>1, <1>2, <1>3 DEF IInv, StepKept

(* What the commands have done stays done. *)
LEMMA EffectsStay ==
  ASSUME IInv, StepKept, createdIn = epoch, pc \in Busy
  PROVE  /\ command > 1 /\ 1 \notin refused => source'[lIVS + 1] # NoValue
         /\ command > 2 /\ 2 \notin refused =>
              Len(vectorSINStored'[lIVS + 1].slots) = SizeAsked
         /\ command > 3 /\ 3 \notin refused => periodic'
<1>1. lIVS + 1 \in 1 .. Len(source) /\ lIVS + 1 \in 1 .. Len(vectorSINStored)
  BY ComstatePlaced, StoredType DEF IInv
<1> QED
  BY <1>1 DEF IInv, DoneInv, StepKept, Monotone

LEMMA DoneKept ==
  ASSUME IInv, StepKept, UNCHANGED <<command, lIVS, createdIn, refused>>,
         pc \in Busy \/ pc' \notin Busy
  PROVE  DoneInv'
<1> SUFFICES ASSUME createdIn = epoch, pc \in Busy
             PROVE  /\ command > 1 /\ 1 \notin refused => source'[lIVS + 1] # NoValue
                    /\ command > 2 /\ 2 \notin refused =>
                         Len(vectorSINStored'[lIVS + 1].slots) = SizeAsked
                    /\ command > 3 /\ 3 \notin refused => periodic'
  BY DEF DoneInv, StepKept
<1> QED
  BY EffectsStay

(* A step that sends no command. *)
LEMMA PlainStep ==
  ASSUME IInv, StepKept, pc' \in Labels, serverPtr' \in 0 .. MaxEpochs,
         UNCHANGED <<command, lIVS, createdIn, refused>>,
         pc' \in {"register", "create"} => createdIn = 0 /\ command = 1,
         pc' # "connect", pc' # "read", pc \in Busy \/ pc' \notin Busy
  PROVE  IInv'
<1>1. ProgressInv'
  BY DEF IInv, ProgressInv, StepKept
<1>2. command \in 1 .. 4 /\ refused \subseteq 1 .. 4
  BY DEF IInv, SessionTypeOK
<1> QED
  BY <1>1, <1>2, DoneKept, StepInv

LEMMA ConnectInv == ASSUME IInv, Connect PROVE IInv'
<1>1. StepKept
  BY QuietKept DEF Connect, processVars
<1>2. /\ UNCHANGED <<command, lIVS, createdIn, refused>> /\ pc = "connect"
      /\ pc' \in {"register", "ended"} /\ serverPtr' \in {epoch, serverPtr}
  BY DEF Connect, Goto
<1>3. epoch \in 0 .. MaxEpochs /\ serverPtr \in 0 .. MaxEpochs
  BY SessionBounds DEF IInv, SessionTypeOK
<1>4. createdIn = 0 /\ command = 1
  BY <1>2 DEF IInv, ProgressInv
<1> QED
  BY <1>1, <1>2, <1>3, <1>4, PlainStep DEF Labels, Busy

LEMMA RegisterInv == ASSUME IInv, Register PROVE IInv'
<1>1. epoch' = epoch /\ pc = "register" /\ pc' \in {"create", "unwind"}
      /\ UNCHANGED <<command, serverPtr, lIVS, createdIn, refused>>
  BY DEF Register, Goto, programVars
<1>2. Answered(Effects) \/ Raises(Effects)
  BY DEF Register, Answered, Raises, Effects
<1>3. StepKept
  BY <1>1, <1>2, AnsweredKept, RaisesKept
<1>4. createdIn = 0 /\ command = 1 /\ serverPtr \in 0 .. MaxEpochs
  BY <1>1 DEF IInv, ProgressInv, SessionTypeOK
<1> QED
  BY <1>1, <1>3, <1>4, PlainStep DEF Labels, Busy

LEMMA CreateInv == ASSUME IInv, Create PROVE IInv'
<1>1. epoch' = epoch /\ pc = "create" /\ UNCHANGED <<command, serverPtr, refused>>
  BY DEF Create, Goto
<1>2. Answered(Effects) \/ Raises(Effects)
  BY DEF Create, Answered, Raises, Effects
<1>3. StepKept
  BY <1>1, <1>2, AnsweredKept, RaisesKept
<1>4. /\ createdIn = 0 /\ command = 1 /\ serverPtr \in 0 .. MaxEpochs
      /\ refused \subseteq 1 .. 4
  BY <1>1 DEF IInv, ProgressInv, SessionTypeOK
<1>5. CASE pc' = "exited" /\ UNCHANGED <<lIVS, createdIn>>
  BY <1>1, <1>3, <1>4, <1>5, PlainStep DEF Labels, Busy
<1>6. CASE /\ pc' = "send" /\ Answered(CreateComstate)
           /\ lIVS' = RankOf(vectorSIN', Comstate) /\ createdIn' = serverPtr
  <2>1. alive /\ serverPtr = epoch /\ alive' /\ fallen' = fallen
        /\ CreateInputVectorSignal(Comstate)
    BY <1>6 DEF Answered, Reached, CreateComstate
  <2>2. <<Comstate, lIVS'>> \in inRanks' /\ lIVS' \in Nat
    <3>1. vectorSIN \in Seq(Names) /\ ~(alive' = FALSE)
      BY <2>1 DEF IInv, SessionTypeOK, TypeOK
    <3>2. CASE Comstate \in Range(vectorSIN) /\ UNCHANGED vectorSIN
               /\ inRanks' = inRanks \cup {<<Comstate, RankOf(vectorSIN, Comstate)>>}
      BY <1>6, <3>1, <3>2, RankFound
    <3>3. CASE Comstate \notin SignalMap /\ vectorSIN' = Append(vectorSIN, Comstate)
               /\ inRanks' = inRanks \cup {<<Comstate, LastRank(vectorSIN')>>}
      <4>1. Comstate \notin Range(vectorSIN)
        BY <3>3 DEF SignalMap
      <4>2. RankOf(vectorSIN', Comstate) = Len(vectorSIN') - 1
        BY <3>1, <3>3, <4>1, RankOfNew, ComstateName
      <4>3. Len(vectorSIN') = Len(vectorSIN) + 1 /\ Len(vectorSIN) \in Nat
        BY <3>1, <3>3, AppendProperties, LenProperties, ComstateName
      <4> QED
        BY <1>6, <3>3, <4>2, <4>3 DEF LastRank
    <3> QED
      BY <2>1, <3>1, <3>2, <3>3 DEF CreateInputVectorSignal, Abort
  <2>3. epoch \in 1 .. MaxEpochs /\ epoch' = epoch
    BY <1>1 DEF IInv, SessionTypeOK
  <2>4. SessionTypeOK'
    BY <1>1, <1>3, <1>4, <1>6, <2>1, <2>2, <2>3
       DEF StepKept, ServerInv, RanksInv, SessionTypeOK, Labels
  <2>5. Placed' /\ ProgressInv' /\ DoneInv'
    BY <1>1, <1>4, <1>6, <2>1, <2>2, <2>3 DEF Placed, ProgressInv, DoneInv, Busy
  <2>6. AbortsOnlyWarned'
    BY <2>1 DEF IInv, SessionTypeOK, AbortsOnlyWarned
  <2> QED
    BY <1>3, <2>4, <2>5, <2>6 DEF IInv, StepKept
<1> QED
  BY <1>5, <1>6 DEF Create, Goto

(* A command that has been answered, and not refused, has done what it     *)
(* asks for.                                                               *)
LEMMA CommandDone ==
  ASSUME IInv, pc \in {"send", "resend"}, Answered(RunAndRead(TRUE)), createdIn = epoch
  PROVE  /\ command = 1 => source'[lIVS + 1] # NoValue
         /\ command = 2 => Len(vectorSINStored'[lIVS + 1].slots) = SizeAsked
         /\ command = 3 => periodic'
<1>1. alive /\ RunAndRead(TRUE)
  BY DEF Answered, Reached
<1>2. /\ Comstate \in Range(vectorSIN) /\ RankOf(vectorSIN, Comstate) = lIVS
      /\ lIVS + 1 \in 1 .. Len(source) /\ vectorSIN[lIVS + 1] = Comstate
  BY ComstatePlaced
<1>3. ASSUME command = 1 PROVE source'[lIVS + 1] # NoValue
  <2>1. PlugComstate
    BY <1>1, <1>3 DEF RunAndRead
  <2>2. PICK v \in Vectors : KeepsDimension(lIVS + 1, v) /\ SourceChange(lIVS + 1, v)
    BY <1>2, <2>1 DEF PlugComstate
  <2> QED
    BY <1>1, <1>2, <2>2, SourceKept DEF IInv
<1>4. ASSUME command = 2 PROVE Len(vectorSINStored'[lIVS + 1].slots) = SizeAsked
  <2>1. LookUp(Comstate) < Len(vectorSINStored) =>
          Len(vectorSINStored'[LookUp(Comstate) + 1].slots) = SizeAsked
    BY <1>1, <1>4 DEF RunAndRead, BufferComstate
  <2>2. lIVS \in Nat /\ lIVS < Len(vectorSINStored) /\ lIVS + 1 \in 1 .. Len(vectorSIN)
    BY <1>2, StoredType DEF IInv, SessionTypeOK
  <2>3. /\ Comstate \in DOMAIN vectorName2Rank
        /\ vectorName2Rank[Comstate] = (lIVS + 1) - 1
    BY <1>2, <2>2 DEF IInv, ServerInv, RanksInv, RanksAgree
  <2>4. LookUp(Comstate) = lIVS
    BY <2>2, <2>3 DEF LookUp, Get
  <2> QED
    BY <2>1, <2>2, <2>4
<1>5. ASSUME command = 3 PROVE periodic'
  BY <1>1, <1>5 DEF RunAndRead
<1> QED
  BY <1>3, <1>4, <1>5

LEMMA SentInv ==
  ASSUME IInv, NEW here \in {"send", "resend"}, NEW ok \in BOOLEAN,
         Sent({here}, ok), Answered(RunAndRead(ok))
  PROVE  IInv'
<1>1. /\ pc = here /\ epoch' = epoch /\ UNCHANGED <<serverPtr, lIVS, createdIn>>
      /\ pc' \in {IF command = 4 THEN "read" ELSE "send", "terminated"}
      /\ command' = IF command = 4 THEN command ELSE command + 1
      /\ refused' = IF ok THEN refused ELSE refused \cup {command}
  BY DEF Sent, Goto
<1>2. StepKept
  <2>1. Answered(Effects)
    BY <1>1 DEF Answered, Effects
  <2> QED
    BY <1>1, <2>1, AnsweredKept
<1>3. command \in 1 .. 4 /\ command' \in 2 .. 4 /\ serverPtr \in 0 .. MaxEpochs
  BY <1>1 DEF IInv, SessionTypeOK
<1>4. ProgressInv'
  BY <1>1, <1>2, <1>3 DEF IInv, ProgressInv, StepKept, Busy
<1>5. refused \subseteq refused' /\ refused' \subseteq 1 .. 4
  BY <1>1, <1>3 DEF IInv, SessionTypeOK
<1>6. DoneInv'
  <2> SUFFICES ASSUME createdIn = epoch
               PROVE  /\ 1 \notin refused' => source'[lIVS + 1] # NoValue
                      /\ command' > 2 /\ 2 \notin refused' =>
                           Len(vectorSINStored'[lIVS + 1].slots) = SizeAsked
                      /\ command' > 3 /\ 3 \notin refused' => periodic'
    BY <1>1 DEF DoneInv
  <2>1. /\ command > 1 /\ 1 \notin refused' => source'[lIVS + 1] # NoValue
        /\ command > 2 /\ 2 \notin refused' =>
             Len(vectorSINStored'[lIVS + 1].slots) = SizeAsked
        /\ command > 3 /\ 3 \notin refused' => periodic'
    BY <1>1, <1>2, <1>5, EffectsStay DEF Busy
  <2>2. ASSUME command \notin refused'
        PROVE  /\ command = 1 => source'[lIVS + 1] # NoValue
               /\ command = 2 => Len(vectorSINStored'[lIVS + 1].slots) = SizeAsked
               /\ command = 3 => periodic'
    <3>1. ok = TRUE
      BY <1>1, <2>2
    <3>2. Answered(RunAndRead(TRUE))
      BY <3>1
    <3> QED
      BY <1>1, <3>2, CommandDone
  <2>3. /\ command = 1 \/ command > 1
        /\ command' > 2 => command = 2 \/ command > 2
        /\ command' > 3 => command = 3 \/ command > 3
    BY <1>1, <1>3
  <2> QED
    BY <2>1, <2>2, <2>3
<1>7. pc' \in Labels /\ command' \in 1 .. 4
  BY <1>1, <1>3 DEF Labels
<1> QED
  BY <1>1, <1>2, <1>3, <1>4, <1>5, <1>6, <1>7, StepInv

(* A command that raises leaves the program at work, or ends it. *)
LEMMA RaisedInv ==
  ASSUME IInv, NEW here \in {"send", "resend"}, NEW there \in {"rebind", "unwind"},
         NEW ok \in BOOLEAN, Goto({here}, {there}), Raises(RunAndRead(ok)), UNCHANGED programVars
  PROVE  IInv'
<1>1. pc = here /\ epoch' = epoch /\ pc' = there
      /\ UNCHANGED <<command, serverPtr, lIVS, createdIn, refused>>
  BY DEF Goto, programVars
<1>2. Raises(Effects)
  BY <1>1 DEF Raises, Effects
<1>3. StepKept
  BY <1>1, <1>2, RaisesKept
<1>4. serverPtr \in 0 .. MaxEpochs /\ refused \subseteq 1 .. 4
  BY DEF IInv, SessionTypeOK
<1>5. ProgressInv' /\ DoneInv'
  BY <1>1, <1>3, DoneKept DEF IInv, ProgressInv, StepKept, Busy
<1>6. pc' \in Labels /\ command \in 1 .. 4
  BY <1>1 DEF IInv, SessionTypeOK, Labels
<1> QED
  BY <1>1, <1>3, <1>4, <1>5, <1>6, StepInv

LEMMA CallInv ==
  ASSUME IInv, NEW here \in {"send", "resend"}, NEW there \in {"rebind", "unwind"},
         CallRunAndRead(here, there)
  PROVE  IInv'
<1>1. PICK ok \in BOOLEAN :
        \/ Sent({here}, ok) /\ Answered(RunAndRead(ok))
        \/ Goto({here}, {there}) /\ Raises(RunAndRead(ok)) /\ UNCHANGED programVars
  BY DEF CallRunAndRead
<1> QED
  BY <1>1, SentInv, RaisedInv

LEMMA SendInv == ASSUME IInv, Send PROVE IInv'
BY CallInv DEF Send

LEMMA ResendInv == ASSUME IInv, Resend PROVE IInv'
BY CallInv DEF Resend

LEMMA RebindInv == ASSUME IInv, Rebind PROVE IInv'
<1>1. StepKept
  BY QuietKept DEF Rebind, processVars
<1>2. /\ UNCHANGED <<command, lIVS, createdIn, refused>> /\ pc = "rebind"
      /\ pc' \in {"resend", "unwind"} /\ serverPtr' \in {0, epoch, serverPtr}
  BY DEF Rebind, Goto
<1>3. epoch \in 0 .. MaxEpochs /\ serverPtr \in 0 .. MaxEpochs /\ 0 \in 0 .. MaxEpochs
  BY SessionBounds DEF IInv, SessionTypeOK
<1> QED
  BY <1>1, <1>2, <1>3, PlainStep DEF Labels, Busy

LEMMA ReadInv == ASSUME IInv, Read PROVE IInv'
<1>1. epoch' = epoch /\ pc = "read" /\ pc' \in {"destroy", "exited"}
      /\ UNCHANGED <<command, serverPtr, lIVS, createdIn, refused>>
  BY DEF Read, Goto
<1>2. Answered(Effects) \/ Raises(Effects)
  BY <1>1 DEF Read, Answered, Raises, Effects
<1>3. StepKept
  BY <1>1, <1>2, AnsweredKept, RaisesKept
<1>4. serverPtr \in 0 .. MaxEpochs
  BY DEF IInv, SessionTypeOK
<1> QED
  BY <1>1, <1>3, <1>4, PlainStep DEF Labels, Busy

LEMMA UnregisterInv == ASSUME IInv, Unregister PROVE IInv'
<1>1. epoch' = epoch /\ pc' \in {"ended", "terminated"}
      /\ UNCHANGED <<command, serverPtr, lIVS, createdIn, refused>>
  BY DEF Unregister, Goto, programVars
<1>2. Answered(Effects) \/ Raises(Effects)
  BY DEF Unregister, Answered, Raises, Effects
<1>3. StepKept
  BY <1>1, <1>2, AnsweredKept, RaisesKept
<1>4. serverPtr \in 0 .. MaxEpochs
  BY DEF IInv, SessionTypeOK
<1> QED
  BY <1>1, <1>3, <1>4, PlainStep DEF Labels, Busy

-----------------------------------------------------------------------------
(* The server process. *)

(* A step that leaves the program where it is. *)
LEMMA ProcessStep ==
  ASSUME IInv, StepKept, UNCHANGED <<pc, programVars>>
  PROVE  IInv'
<1>1. UNCHANGED <<pc, command, serverPtr, lIVS, createdIn, refused>>
  BY DEF programVars
<1>2. /\ pc \in Labels /\ command \in 1 .. 4 /\ serverPtr \in 0 .. MaxEpochs
      /\ refused \subseteq 1 .. 4
  BY DEF IInv, SessionTypeOK
<1>3. DoneInv'
  BY <1>1, DoneKept
<1>4. ProgressInv'
  BY <1>1 DEF IInv, ProgressInv, StepKept
<1> QED
  BY <1>1, <1>2, <1>3, <1>4, StepInv

(* Neither ticks nor the others make the server abort. *)
LEMMA AliveKept ==
  ASSUME IInv, alive, ServerInv', Monotone, alive', Falls, UNCHANGED <<epoch, losses, periodic>>,
         shown' \in Seq(Slot)
  PROVE  StepKept
<1>1. ~fallen
  BY DEF IInv, SessionTypeOK
<1>2. fallen' = FALSE
  BY <1>1, Zenon DEF Falls
<1> QED
  BY <1>2 DEF StepKept, IInv, SessionTypeOK

LEMMA TickInv ==
  ASSUME IInv, Tick, Falls, UNCHANGED <<epoch, losses, pc, programVars>>
  PROVE  IInv'
<1>1. SynchroValue /\ alive /\ UNCHANGED periodic
  BY DEF Tick, SynchroValue
<1>2. ServerInv' /\ Monotone /\ alive'
  BY <1>1, SynchroKept DEF IInv
<1>3. shown' \in Seq(Slot)
  <2>1. shown \in Seq(Slot)
    BY DEF IInv, SessionTypeOK
  <2>2. CASE \E i \in 1 .. Len(vectorSIN) : Sampled(i)
    <3> DEFINE r == RankOf(vectorSIN, Comstate)
               sample == [ts |-> now', data |-> source[r + 1]]
    <3>1. PICK i \in 1 .. Len(vectorSIN) : Sampled(i)
      BY <2>2
    <3>2. vectorSIN[i] = Comstate /\ i \in 1 .. Len(source)
      BY <3>1, StoredType DEF Sampled, IInv
    <3>3. r + 1 = i
      BY <3>2, PositionOf DEF IInv
    <3> HIDE DEF r
    <3>4. sample \in Slot
      BY <1>1, <3>1, <3>2, <3>3, TickStores, StoredType
         DEF Sampled, IInv, ServerInv, RanksInv
    <3>5. shown' = shown \o <<sample>>
      BY <2>2 DEF Tick, r
    <3> HIDE DEF sample
    <3> QED
      BY <2>1, <3>4, <3>5, ConcatProperties
  <2>3. CASE ~(\E i \in 1 .. Len(vectorSIN) : Sampled(i))
    <3>1. shown' = shown \o << >>
      BY <2>3 DEF Tick
    <3> QED
      BY <2>1, <3>1, ConcatEmptySeq
  <2> QED
    BY <2>2, <2>3
<1> QED
  BY <1>1, <1>2, <1>3, AliveKept, ProcessStep

LEMMA OthersInv ==
  ASSUME IInv, Others, Falls, UNCHANGED <<epoch, losses, pc, programVars>>
  PROVE  IInv'
<1>1. UNCHANGED <<periodic, shown>> /\ shown \in Seq(Slot)
  BY DEF Others, IInv, SessionTypeOK
<1>2. alive /\ ServerInv' /\ Monotone /\ alive'
  <2>1. ASSUME NEW n \in Names \ BuiltIn, CreateInputVectorSignal(n)
        PROVE  alive /\ ServerInv' /\ Monotone /\ alive'
    BY <2>1, CreateKept DEF CreateInputVectorSignal, IInv
  <2>2. ASSUME NEW i \in 1 .. Len(source), NEW v \in Vectors, KeepsDimension(i, v),
               SourceChange(i, v)
        PROVE  alive /\ ServerInv' /\ Monotone /\ alive'
    BY <2>2, SourceKept DEF SourceChange, IInv
  <2> QED
    BY <2>1, <2>2 DEF Others
<1> QED
  BY <1>1, <1>2, AliveKept, ProcessStep

LEMMA KillInv == ASSUME IInv, Kill PROVE IInv'
<1>1. /\ alive' = FALSE
      /\ UNCHANGED <<now, outVars, inVars, vectorSINStored, vectorName2Rank, periodic,
                     shown, epoch, fallen, losses, pc, programVars>>
  BY DEF Kill
<1>2. ServerInv' /\ Monotone
  BY <1>1, ServerFrame DEF IInv
<1>3. StepKept
  BY <1>1, <1>2 DEF StepKept, IInv, SessionTypeOK, AbortsOnlyWarned, Warned
<1> QED
  BY <1>1, <1>3, ProcessStep

LEMMA InitServer == Init => ServerInv
<1> SUFFICES ASSUME Init PROVE ServerInv
  OBVIOUS
<1>1. Len(vectorSINStored) = 0 /\ vectorSOUT = << >>
  BY EmptySeq DEF Init
<1> QED
  BY <1>1, InitRanks DEF ServerInv, BuffersFit, BuffersInv

LEMMA InitServerPrime == (Init => ServerInv)'
BY InitServer, PTL

(* What the program knows is about a process that is no more. *)
LEMMA RestartInv == ASSUME IInv, Restart PROVE IInv'
<1>1. /\ epoch < MaxEpochs /\ epoch' = epoch + 1
      /\ alive' = TRUE /\ fallen' = FALSE /\ periodic' \in BOOLEAN /\ shown' = << >>
      /\ UNCHANGED <<losses, pc, command, serverPtr, lIVS, createdIn, refused>>
  BY DEF Restart, programVars
<1>2. Init'
  BY DEF Restart, Init
<1>3. ServerInv'
  BY <1>2, InitServerPrime
<1>4. epoch \in 1 .. MaxEpochs /\ epoch' \in 1 .. MaxEpochs
  BY <1>1, SessionBounds DEF IInv, SessionTypeOK
<1>5. createdIn # epoch' /\ createdIn <= epoch'
  BY <1>1, <1>4 DEF IInv, ProgressInv, SessionTypeOK
<1>6. SessionTypeOK'
  BY <1>1, <1>3, <1>4, EmptySeq DEF IInv, SessionTypeOK, ServerInv, RanksInv
<1>7. Placed' /\ ProgressInv' /\ DoneInv' /\ AbortsOnlyWarned'
  BY <1>1, <1>5 DEF IInv, Placed, ProgressInv, DoneInv, AbortsOnlyWarned
<1> QED
  BY <1>3, <1>6, <1>7 DEF IInv

-----------------------------------------------------------------------------
LEMMA InitInv == SessionInit => IInv
<1> SUFFICES ASSUME SessionInit PROVE IInv
  OBVIOUS
<1>1. ServerInv /\ alive
  BY InitServer, Zenon DEF SessionInit, Init
<1>2. 1 \in 1 .. MaxEpochs /\ 0 \in 0 .. MaxEpochs /\ 0 \in 0 .. MaxLosses
  BY SessionBounds
<1>3. SessionTypeOK
  <2>1. TypeOK
    BY <1>1 DEF ServerInv, RanksInv
  <2>2. shown \in Seq(Slot)
    BY EmptySeq DEF SessionInit
  <2>3. fallen = FALSE /\ periodic \in BOOLEAN
    BY DEF SessionInit
  <2>4. epoch \in 1 .. MaxEpochs /\ losses \in 0 .. MaxLosses
        /\ {serverPtr, createdIn} \subseteq 0 .. MaxEpochs
    BY <1>2 DEF SessionInit
  <2>5. pc \in Labels /\ command \in 1 .. 4 /\ lIVS \in Nat /\ refused \subseteq 1 .. 4
    BY DEF SessionInit, Labels
  <2> QED
    BY <2>1, <2>2, <2>3, <2>4, <2>5 DEF SessionTypeOK
<1>4. Placed /\ ProgressInv /\ DoneInv /\ AbortsOnlyWarned
  BY DEF SessionInit, Placed, ProgressInv, DoneInv, AbortsOnlyWarned, Busy
<1> QED
  BY <1>1, <1>3, <1>4 DEF IInv

LEMMA NextInv == IInv /\ [SessionNext]_sessionVars => IInv'
<1> SUFFICES ASSUME IInv, [SessionNext]_sessionVars PROVE IInv'
  OBVIOUS
<1>1. ASSUME Program PROVE IInv'
  BY <1>1, ConnectInv, RegisterInv, CreateInv, SendInv, RebindInv, ResendInv, ReadInv,
     UnregisterInv DEF Program
<1>2. ASSUME Process PROVE IInv'
  BY <1>2, TickInv, OthersInv, KillInv, RestartInv DEF Process
<1>3. ASSUME UNCHANGED sessionVars PROVE IInv'
  <2>1. UNCHANGED <<serverState, epoch, fallen, losses, pc, programVars>>
    BY <1>3 DEF sessionVars, processVars
  <2> QED
    BY <2>1, QuietKept, ProcessStep
<1> QED
  BY <1>1, <1>2, <1>3 DEF SessionNext

(* Calls, lost connections and restarts keep the inductive invariant: the  *)
(* place of the program says what its calls have achieved in the process   *)
(* that created comstate (test_corba_shell.cpp:89-140).                    *)
THEOREM SessionInvariant == SessionSpec => []IInv
BY InitInv, NextInv, PTL DEF SessionSpec

(* The variables of the program and of the server keep their types         *)
(* (test_corba_shell.cpp:102, 129, server-command.h:82-85).                *)
THEOREM SessionTypeCorrect == SessionSpec => []SessionTypeOK
<1>1. IInv => SessionTypeOK
  BY DEF IInv
<1> QED
  BY <1>1, SessionInvariant, PTL

(* When the program comes to read, the process that created comstate has   *)
(* done what each command asks, or has answered that it was refused,       *)
(* whichever calls were lost or executed twice (server-command.cpp:130-142,*)
(* test_corba_shell.cpp:113-127).                                          *)
THEOREM SetUpAlwaysHolds == SessionSpec => []SetUpHolds
<1>1. IInv => SetUpHolds
  <2> SUFFICES ASSUME IInv, pc = "read", createdIn = epoch
               PROVE  LET i == lIVS + 1  size == Len(vectorSINStored[i].slots) IN
                      /\ vectorSIN[i] = Comstate
                      /\ 1 \notin refused => source[i] # NoValue
                      /\ size = SizeAsked \/ (2 \in refused /\ size = 0)
                      /\ 3 \notin refused => periodic
    BY DEF SetUpHolds, SameProcess
  <2>1. vectorSIN[lIVS + 1] = Comstate /\ lIVS + 1 \in 1 .. Len(source)
    BY ComstatePlaced
  <2>2. /\ 1 \notin refused => source[lIVS + 1] # NoValue
        /\ 2 \notin refused => Len(vectorSINStored[lIVS + 1].slots) = SizeAsked
        /\ 3 \notin refused => periodic
    BY DEF IInv, ProgressInv, DoneInv, Busy
  <2>3. Len(vectorSINStored[lIVS + 1].slots) \in {0, SizeAsked}
    BY <2>1, StoredType DEF IInv, ServerInv, BuffersInv
  <2> QED
    BY <2>1, <2>2, <2>3
<1> QED
  BY <1>1, SessionInvariant, PTL

(* The program kills a process only if that is not the one that created    *)
(* comstate, or has answered that comstate could not be plugged            *)
(* (server-command.cpp:130-142, 312, test_corba_shell.cpp:63-82, 135).     *)
THEOREM KillsOnlyWarned == SessionSpec => []AbortsOnlyWarned
<1>1. IInv => AbortsOnlyWarned
  BY DEF IInv
<1> QED
  BY <1>1, SessionInvariant, PTL

-----------------------------------------------------------------------------
(* What the program reads.                                                 *)

(* The window of comstate is what the ticks have found in it. *)
ShownInv ==
  /\ Comstate \notin Range(vectorSIN) => shown = << >>
  /\ \A i \in 1 .. Len(vectorSIN) : vectorSIN[i] = Comstate =>
       /\ Window(vectorSINStored[i]) = Windows!Keep(SizeAsked, shown)
       /\ Len(vectorSINStored[i].slots) = 0 => shown = << >>

(* What is kept of a sequence longer than n: its last n elements. *)
LEMMA KeepLonger ==
  ASSUME NEW S, NEW s \in Seq(S), NEW n \in Nat \ {0}, Len(s) > n
  PROVE  /\ Windows!Keep(n, s) \in Seq(S) /\ Len(Windows!Keep(n, s)) = n
         /\ \A j \in 1 .. n : Windows!Keep(n, s)[j] = s[(Len(s) - n) + j]
<1> DEFINE l == Len(s)
           t == SubSeq(s, l - n + 1, l)
<1>1. l \in Nat /\ l > n /\ \A i \in 1 .. l : s[i] \in S
  BY LenProperties, ElementOfSeq
<1>2. Windows!Keep(n, s) = t
  BY <1>1 DEF Windows!Keep
<1>3. \A i \in l - n + 1 .. l : i \in 1 .. l
  BY <1>1
<1>4. l - n + 1 \in Int /\ l \in Int /\ l - n + 1 <= l /\ l - (l - n + 1) + 1 = n
  BY <1>1
<1> HIDE DEF l
<1>5. /\ t \in Seq(S) /\ Len(t) = l - (l - n + 1) + 1
      /\ \A j \in 1 .. (l - (l - n + 1)) + 1 : t[j] = s[((l - n + 1) + j) - 1]
  BY <1>1, <1>3, <1>4, SubSeqProperties
<1>6. (l - (l - n + 1)) + 1 = n /\ \A j \in 1 .. n : ((l - n + 1) + j) - 1 = (l - n) + j
  BY <1>1
<1> HIDE DEF t
<1> QED
  BY <1>2, <1>4, <1>5, <1>6 DEF l

(* Of what is kept and one more, the same is kept as of all and one more.  *)
LEMMA KeepAppend ==
  ASSUME NEW S, NEW s \in Seq(S), NEW e \in S, NEW n \in Nat \ {0}
  PROVE  Windows!Keep(n, Append(Windows!Keep(n, s), e)) = Windows!Keep(n, Append(s, e))
<1>1. Len(s) \in Nat
  BY LenProperties
<1>2. CASE Len(s) <= n
  BY <1>2 DEF Windows!Keep
<1>3. CASE Len(s) > n
  <2> DEFINE k == Windows!Keep(n, s)
             a == Append(k, e)
             b == Append(s, e)
             x == Windows!Keep(n, a)
             y == Windows!Keep(n, b)
  <2>1. k \in Seq(S) /\ Len(k) = n /\ \A j \in 1 .. n : k[j] = s[(Len(s) - n) + j]
    BY <1>3, KeepLonger
  <2> HIDE DEF k
  <2>2. a \in Seq(S) /\ Len(a) = n + 1 /\ a[n + 1] = e /\ \A j \in 1 .. n : a[j] = k[j]
    BY <2>1, AppendProperties
  <2>3. /\ b \in Seq(S) /\ Len(b) = Len(s) + 1 /\ b[Len(s) + 1] = e
        /\ \A j \in 1 .. Len(s) : b[j] = s[j]
    BY AppendProperties
  <2> HIDE DEF a, b
  <2>4. x \in Seq(S) /\ Len(x) = n /\ \A j \in 1 .. n : x[j] = a[(Len(a) - n) + j]
    BY <2>2, KeepLonger
  <2>5. y \in Seq(S) /\ Len(y) = n /\ \A j \in 1 .. n : y[j] = b[(Len(b) - n) + j]
    <3>1. b \in Seq(S) /\ Len(b) > n
      BY <1>1, <1>3, <2>3
    <3> QED
      BY <3>1, KeepLonger
  <2> HIDE DEF x, y
  <2>6. ASSUME NEW j \in 1 .. n PROVE x[j] = y[j]
    <3>1. x[j] = a[j + 1] /\ y[j] = b[((Len(s) + 1) - n) + j]
      <4>1. (Len(a) - n) + j = j + 1
        BY <2>2
      <4> QED
        BY <2>3, <2>4, <2>5, <4>1
    <3>2. CASE j = n
      <4>1. ((Len(s) + 1) - n) + j = Len(s) + 1
        BY <1>1, <3>2
      <4> QED
        BY <2>2, <2>3, <3>1, <3>2, <4>1
    <3>3. CASE j # n
      <4>1. /\ j + 1 \in 1 .. n
            /\ (Len(s) - n) + (j + 1) = ((Len(s) + 1) - n) + j
            /\ ((Len(s) + 1) - n) + j \in 1 .. Len(s)
        BY <1>1, <1>3, <3>3
      <4>2. a[j + 1] = s[(Len(s) - n) + (j + 1)]
        BY <2>1, <2>2, <4>1
      <4> QED
        BY <2>3, <3>1, <4>1, <4>2
    <3> QED
      BY <3>2, <3>3
  <2>7. x = y
    BY <2>4, <2>5, <2>6, SeqEqual
  <2> QED
    BY <2>7 DEF x, y, a, b, k
<1> QED
  BY <1>1, <1>2, <1>3

(* A rotation of the positions reaches each of them. *)
LEMMA RotationWithin ==
  ASSUME NEW n \in Nat \ {0}, NEW k \in 0 .. n - 1, NEW j \in 1 .. n
  PROVE  ((j - 1 + k) % n) + 1 \in 1 .. n
<1> DEFINE q == j - 1 + k
<1>1. q \in 0 .. 2 * n - 1
  OBVIOUS
<1> HIDE DEF q
<1>2. (q % n) + 1 \in 1 .. n
  BY <1>1, ModuloBelowTwice
<1> QED
  BY <1>2 DEF q

LEMMA RotationOnto ==
  ASSUME NEW n \in Nat \ {0}, NEW k \in 0 .. n - 1, NEW i \in 1 .. n
  PROVE  \E j \in 1 .. n : ((j - 1 + k) % n) + 1 = i
<1> DEFINE j == IF k < i THEN i - k ELSE (i - k) + n
           q == j - 1 + k
<1>1. j \in 1 .. n /\ q \in 0 .. 2 * n - 1 /\ q = IF k < i THEN i - 1 ELSE (i - 1) + n
  OBVIOUS
<1> HIDE DEF q
<1>2. q % n = IF q < n THEN q ELSE q - n
  BY <1>1, ModuloBelowTwice
<1>3. q % n = i - 1
  BY <1>1, <1>2
<1>4. (q % n) + 1 = i
  BY <1>3
<1> QED
  BY <1>1, <1>4 DEF q

(* A rotation of a sequence has the elements that it has. *)
LEMMA SameRange ==
  ASSUME NEW rows, NEW win, NEW n \in Nat \ {0}, DOMAIN rows = 1 .. n, DOMAIN win = 1 .. n,
         \E k \in 0 .. n - 1 : \A j \in 1 .. n : rows[j] = win[((j - 1 + k) % n) + 1]
  PROVE  Range(rows) = Range(win)
<1>1. PICK k \in 0 .. n - 1 : \A j \in 1 .. n : rows[j] = win[((j - 1 + k) % n) + 1]
  OBVIOUS
<1>2. ASSUME NEW j \in 1 .. n PROVE \E i \in 1 .. n : rows[j] = win[i]
  BY <1>1, RotationWithin
<1>3. ASSUME NEW i \in 1 .. n PROVE \E j \in 1 .. n : rows[j] = win[i]
  <2>1. PICK j \in 1 .. n : ((j - 1 + k) % n) + 1 = i
    BY RotationOnto
  <2> QED
    BY <1>1, <2>1
<1>4. Range(rows) = {rows[j] : j \in 1 .. n} /\ Range(win) = {win[i] : i \in 1 .. n}
  BY DEF Range
<1>5. {rows[j] : j \in 1 .. n} \subseteq {win[i] : i \in 1 .. n}
  <2>1. ASSUME NEW j \in 1 .. n PROVE rows[j] \in {win[i] : i \in 1 .. n}
    BY <1>2
  <2> QED
    BY <2>1
<1>6. {win[i] : i \in 1 .. n} \subseteq {rows[j] : j \in 1 .. n}
  <2>1. ASSUME NEW i \in 1 .. n PROVE win[i] \in {rows[j] : j \in 1 .. n}
    BY <1>3
  <2> QED
    BY <2>1
<1> QED
  BY <1>4, <1>5, <1>6

LEMMA KeepNothing == Windows!Keep(SizeAsked, << >>) = << >>
<1>1. Len(<< >>) = 0
  BY EmptySeq
<1> QED
  BY <1>1, SizeAskedType DEF Windows!Keep

(* Every buffer holds the samples that it held before. *)
WindowsKept ==
  \A i \in 1 .. Len(vectorSINStored) :
    /\ Window(vectorSINStored'[i]) = Window(vectorSINStored[i])
    /\ Len(vectorSINStored'[i].slots) = 0 => Len(vectorSINStored[i].slots) = 0

LEMMA KeptShown ==
  ASSUME ServerInv, ShownInv, UNCHANGED <<shown, vectorSIN>>, WindowsKept
  PROVE  ShownInv'
BY StoredType DEF ShownInv, WindowsKept

LEMMA CreateShown ==
  ASSUME ServerInv, ShownInv, UNCHANGED shown, NEW n \in Names, CreateInputVectorSignal(n)
  PROVE  ShownInv'
<1>1. /\ vectorSIN \in Seq(Names) /\ Len(vectorSIN) \in Nat
      /\ Len(vectorSINStored) = Len(vectorSIN)
      /\ vectorSINStored \in Seq(StackOf(Slot))
  BY StoredType DEF ServerInv, RanksInv, TypeOK
<1>2. CASE UNCHANGED <<vectorSIN, vectorSINStored>>
  BY <1>2, KeptShown DEF WindowsKept
<1>3. CASE /\ n \notin Range(vectorSIN)
           /\ vectorSIN' = Append(vectorSIN, n)
           /\ vectorSINStored' = Append(vectorSINStored, EmptyStack)
  <2> DEFINE l == Len(vectorSIN)
  <2>1. /\ Len(vectorSIN') = l + 1 /\ vectorSIN'[l + 1] = n
        /\ \A i \in 1 .. l : vectorSIN'[i] = vectorSIN[i]
        /\ vectorSIN' \in Seq(Names)
    BY <1>1, <1>3, AppendProperties
  <2>2. /\ vectorSINStored'[l + 1] = EmptyStack
        /\ \A i \in 1 .. l : vectorSINStored'[i] = vectorSINStored[i]
    BY <1>1, <1>3, AppendProperties, EmptyStackType
  <2>3. Comstate \in Range(vectorSIN) => Comstate \in Range(vectorSIN')
    <3>1. DOMAIN vectorSIN = 1 .. l /\ DOMAIN vectorSIN' = 1 .. l + 1
      BY <1>1, <2>1, LenProperties
    <3>2. \A i \in 1 .. l : i \in 1 .. l + 1
      BY <1>1
    <3> QED
      BY <2>1, <3>1, <3>2 DEF Range
  <2>4. ASSUME NEW i \in 1 .. Len(vectorSIN'), vectorSIN'[i] = Comstate
        PROVE  /\ Window(vectorSINStored'[i]) = Windows!Keep(SizeAsked, shown)
               /\ Len(vectorSINStored'[i].slots) = 0 => shown = << >>
    <3>1. CASE i = l + 1
      <4>1. Comstate \notin Range(vectorSIN)
        BY <1>3, <2>1, <2>4, <3>1
      <4>2. shown = << >>
        BY <4>1 DEF ShownInv
      <4> QED
        BY <2>2, <3>1, <4>2, EmptyWindow, KeepNothing
    <3>2. CASE i # l + 1
      <4>1. i \in 1 .. l
        BY <1>1, <2>1, <3>2
      <4> QED
        BY <2>1, <2>2, <2>4, <4>1 DEF ShownInv
    <3> QED
      BY <3>1, <3>2
  <2> QED
    BY <2>3, <2>4 DEF ShownInv
<1> QED
  BY <1>2, <1>3 DEF CreateInputVectorSignal, inVars, SignalMap

LEMMA SameWindows ==
  ASSUME ServerInv, ShownInv, UNCHANGED <<shown, vectorSIN, vectorSINStored>>
  PROVE  ShownInv'
BY KeptShown DEF WindowsKept

(* The buffer that the command resizes, of comstate or not, keeps what it  *)
(* has: it had no cell, or has the size that is asked for.                 *)
LEMMA BufferShown ==
  ASSUME ServerInv, ShownInv, alive, UNCHANGED shown, BufferSignal(Comstate, SizeAsked)
  PROVE  ShownInv'
<1>1. vectorSIN' = vectorSIN
  BY DEF BufferSignal, inVars
<1>2. ASSUME NEW i \in 1 .. Len(vectorSINStored)
      PROVE  /\ Window(vectorSINStored'[i]) = Window(vectorSINStored[i])
             /\ Len(vectorSINStored'[i].slots) = 0 => Len(vectorSINStored[i].slots) = 0
  <2>1. CASE vectorSINStored'[i] = vectorSINStored[i]
    BY <2>1
  <2>2. CASE vectorSINStored'[i] = Resize(vectorSINStored[i], SizeAsked)
    <3>1. vectorSINStored[i] \in StackOf(Slot)
      BY StoredType
    <3>2. HarmlessResize(vectorSINStored[i], SizeAsked)
      BY FirstOrSame
    <3>3. Sound(vectorSINStored[i])
      BY DEF ServerInv, BuffersFit, Fits, Sound
    <3>4. Window(Resize(vectorSINStored[i], SizeAsked)) = Window(vectorSINStored[i])
      BY <3>1, <3>2, <3>3, BlankType, SizeAskedType, ResizeWindow
    <3>5. Len(Resize(vectorSINStored[i], SizeAsked).slots) # 0
      BY <3>1, BlankType, SizeAskedType, ResizeType
    <3> QED
      BY <2>2, <3>4, <3>5
  <2> QED
    BY <2>1, <2>2, BufferResizes, ComstateName, SizeAskedType DEF ServerInv, RanksInv
<1> QED
  BY <1>1, <1>2, KeptShown DEF WindowsKept

(* A tick puts the value of comstate at the end of its window, and in      *)
(* shown, or in neither.                                                   *)
LEMMA TickShown == ASSUME IInv, ShownInv, Tick PROVE ShownInv'
<1>1. SynchroValue /\ alive
  BY DEF Tick, SynchroValue
<1>2. /\ TypeOK /\ RanksAgree /\ shown \in Seq(Slot)
      /\ Len(vectorSINStored) = Len(vectorSIN)
  BY StoredType DEF IInv, SessionTypeOK, ServerInv, RanksInv
<1>3. vectorSIN' = vectorSIN
  BY <1>1 DEF SynchroValue, inVars
<1>4. CASE \E i \in 1 .. Len(vectorSIN) : Sampled(i)
  <2>1. PICK i \in 1 .. Len(vectorSIN) : Sampled(i)
    BY <1>4
  <2> DEFINE sample == [ts |-> now', data |-> source[i]]
             ds == vectorSINStored[i]
  <2>2. vectorSIN[i] = Comstate /\ Buffered(i) /\ Swept(i)
    BY <2>1 DEF Sampled
  <2>3. RankOf(vectorSIN, Comstate) + 1 = i
    BY <2>1, <2>2, PositionOf DEF IInv
  <2>4. shown' = Append(shown, sample)
    <3>1. shown' = shown \o <<sample>>
      BY <1>4, <2>3 DEF Tick
    <3> QED
      BY <1>2, <3>1, AppendIsConcat
  <2>5. /\ sample \in Slot /\ ds \in StackOf(Slot) /\ vectorSINStored'[i] = Store(ds, sample)
    BY <1>1, <1>2, <2>1, <2>2, TickStores
  <2>6. Sound(ds) /\ Len(ds.slots) = SizeAsked /\ Len(ds.slots) # 0
    BY <1>2, <2>1, <2>2 DEF IInv, ServerInv, BuffersFit, BuffersInv, Fits, Sound, Buffered
  <2>7. Window(ds) = Windows!Keep(SizeAsked, shown)
    BY <2>1, <2>2 DEF ShownInv
  <2> HIDE DEF sample, ds
  <2>8. Window(Store(ds, sample)) =
          Windows!Keep(SizeAsked, Append(Windows!Keep(SizeAsked, shown), sample))
    BY <2>5, <2>6, <2>7, StoreWindow
  <2>9. Window(Store(ds, sample)) = Windows!Keep(SizeAsked, shown')
    BY <1>2, <2>4, <2>5, <2>8, KeepAppend, SizeAskedType
  <2>10. Len(Store(ds, sample).slots) # 0
    BY <2>5, <2>6, StoreType
  <2>11. \A j \in 1 .. Len(vectorSIN) : vectorSIN[j] = Comstate => j = i
    <3>1. ASSUME NEW j \in 1 .. Len(vectorSIN), vectorSIN[j] = Comstate PROVE j = i
      BY <2>3, <3>1, PositionOf DEF IInv
    <3> QED
      BY <3>1
  <2>12. Comstate \in Range(vectorSIN)
    BY <1>2, <2>1, <2>2, LenProperties DEF Range, TypeOK
  <2> QED
    BY <1>3, <2>5, <2>9, <2>10, <2>11, <2>12 DEF ShownInv
<1>5. CASE ~(\E i \in 1 .. Len(vectorSIN) : Sampled(i))
  <2>1. shown' = shown
    <3>1. shown' = shown \o << >>
      BY <1>5 DEF Tick
    <3> QED
      BY <1>2, <3>1, ConcatEmptySeq
  <2>2. ASSUME NEW i \in 1 .. Len(vectorSIN), vectorSIN[i] = Comstate
        PROVE  vectorSINStored'[i] = vectorSINStored[i]
    <3>1. ~(Buffered(i) /\ Swept(i))
      BY <1>5, <2>2 DEF Sampled
    <3> QED
      BY <1>1, <1>2, <3>1 DEF SynchroValue
  <2> QED
    BY <1>3, <2>1, <2>2 DEF ShownInv
<1> QED
  BY <1>4, <1>5

LEMMA EffectsShown == ASSUME IInv, ShownInv, alive, Effects PROVE ShownInv'
<1>1. ServerInv
  BY DEF IInv
<1>2. CASE UNCHANGED serverState
  BY <1>1, <1>2, SameWindows DEF serverState, vars, inVars
<1>3. CASE CreateComstate
  BY <1>1, <1>3, CreateShown, ComstateName DEF CreateComstate
<1>4. ASSUME NEW ok \in BOOLEAN, RunAndRead(ok) PROVE ShownInv'
  <2>1. CASE PlugComstate
    BY <1>1, <2>1, SameWindows DEF PlugComstate, SourceChange
  <2>2. CASE BufferComstate(ok)
    BY <1>1, <2>2, BufferShown DEF BufferComstate
  <2>3. CASE UNCHANGED <<vars, shown>>
    BY <1>1, <2>3, SameWindows DEF vars, inVars
  <2> QED
    BY <1>4, <2>1, <2>2, <2>3 DEF RunAndRead, serverState
<1>5. CASE ReadComstate
  BY <1>1, <1>5, SameWindows DEF ReadComstate, ReadInputVectorSignal, inVars
<1> QED
  BY <1>2, <1>3, <1>4, <1>5 DEF Effects

LEMMA CallShown ==
  ASSUME IInv, ShownInv, Answered(Effects) \/ Raises(Effects)
  PROVE  ShownInv'
<1>1. CASE Reached /\ Effects
  BY <1>1, EffectsShown DEF Reached
<1>2. CASE UNCHANGED serverState
  BY <1>2, SameWindows DEF IInv, serverState, vars, inVars
<1> QED
  BY <1>1, <1>2 DEF Answered, Raises

LEMMA InitShown == Init /\ shown = << >> => ShownInv
<1> SUFFICES ASSUME Init, shown = << >> PROVE ShownInv
  OBVIOUS
<1>1. Len(vectorSIN) = 0
  BY EmptySeq DEF Init
<1> QED
  BY <1>1 DEF ShownInv

LEMMA InitShownPrime == (Init /\ shown = << >> => ShownInv)'
BY InitShown, PTL

LEMMA ShownStep == IInv /\ ShownInv /\ [SessionNext]_sessionVars => ShownInv'
<1> SUFFICES ASSUME IInv, ShownInv, [SessionNext]_sessionVars PROVE ShownInv'
  OBVIOUS
<1>1. ASSUME Program PROVE ShownInv'
  <2>1. ASSUME UNCHANGED serverState PROVE ShownInv'
    BY <2>1, SameWindows DEF IInv, serverState, vars, inVars
  <2>2. ASSUME Connect \/ Rebind PROVE ShownInv'
    BY <2>1, <2>2 DEF Connect, Rebind, processVars
  <2>3. ASSUME Register \/ Create \/ Unregister PROVE Answered(Effects) \/ Raises(Effects)
    BY <2>3 DEF Register, Create, Unregister, Answered, Raises, Effects
  <2>4. ASSUME Send \/ Resend PROVE Answered(Effects) \/ Raises(Effects)
    BY <2>4 DEF Send, Resend, CallRunAndRead, Sent, Goto, Answered, Raises, Effects
  <2>5. ASSUME Read PROVE Answered(Effects) \/ Raises(Effects)
    BY <2>5 DEF Read, Goto, Answered, Raises, Effects
  <2> QED
    BY <1>1, <2>2, <2>3, <2>4, <2>5, CallShown DEF Program
<1>2. ASSUME Process PROVE ShownInv'
  <2>1. ASSUME Others PROVE ShownInv'
    BY <2>1, CreateShown, SameWindows DEF Others, IInv, SourceChange
  <2>2. ASSUME Kill PROVE ShownInv'
    BY <2>2, SameWindows DEF Kill, IInv, inVars
  <2>3. ASSUME Restart PROVE ShownInv'
    BY <2>3, InitShownPrime DEF Restart, Init
  <2> QED
    BY <1>2, <2>1, <2>2, <2>3, TickShown DEF Process
<1>3. ASSUME UNCHANGED sessionVars PROVE ShownInv'
  BY <1>3, SameWindows DEF IInv, sessionVars, processVars, serverState, vars, inVars
<1> QED
  BY <1>1, <1>2, <1>3 DEF SessionNext

-----------------------------------------------------------------------------
(* The reply to the read is the window, rotated. *)
LEMMA ReadsShown ==
  ASSUME IInv, ShownInv, Read, pc' = "destroy", SameProcess
  PROVE  IF shown = << >>
         THEN bufferOfValues' = << [data |-> source[lIVS + 1]] >>
         ELSE /\ Len(bufferOfValues') = Len(LastShown)
              /\ Range(bufferOfValues') = Range(LastShown)
<1> DEFINE i == lIVS + 1
           ds == vectorSINStored[i]
           win == Window(ds)
           rows == ReadReply(lIVS)
<1>1. bufferOfValues' = rows /\ pc = "read"
  BY DEF Read, Goto
<1>2. createdIn = epoch /\ alive /\ ServerInv
  BY DEF SameProcess, IInv
<1>3. /\ lIVS \in Nat /\ i - 1 = lIVS
      /\ i \in 1 .. Len(vectorSIN) /\ i \in 1 .. Len(vectorSINStored)
      /\ vectorSIN[i] = Comstate /\ Valid(vectorSIN, lIVS)
  BY <1>2, ComstatePlaced, StoredType DEF Valid, IInv, SessionTypeOK
<1>4. source[i] # NoValue
  <2>1. ReadInputVectorSignal(lIVS) /\ alive'
    BY <1>1 DEF Read, Goto, Answered, ReadComstate
  <2> QED
    BY <1>3, <2>1 DEF ReadInputVectorSignal, Abort
<1>5. /\ shown \in Seq(Slot) /\ Len(shown) \in Nat
      /\ shown = << >> <=> Len(shown) = 0
  BY EmptySeq, LenProperties DEF IInv, SessionTypeOK
<1>6. ds \in StackOf(Slot) /\ Sound(ds)
  BY <1>2, <1>3, StoredType DEF ServerInv, BuffersFit, Fits, Sound
<1>7. win = Windows!Keep(SizeAsked, shown)
  BY <1>3 DEF ShownInv
<1>8. LastShown = Windows!Keep(SizeAsked, shown)
  <2>1. CASE Len(shown) <= SizeAsked
    <3>1. LastShown = SubSeq(shown, 1, Len(shown))
      <4>1. (Len(shown) - Len(shown)) + 1 = 1
        BY <1>5
      <4>2. (IF Len(shown) < SizeAsked THEN Len(shown) ELSE SizeAsked) = Len(shown)
        BY <1>5, <2>1, SizeAskedType
      <4> QED
        BY <4>1, <4>2 DEF LastShown
    <3>2. SubSeq(shown, 1, Len(shown)) = shown
      BY <1>5, SubSeqFull
    <3> QED
      BY <2>1, <3>1, <3>2 DEF Windows!Keep
  <2>2. CASE ~(Len(shown) <= SizeAsked)
    <3>1. ~(Len(shown) < SizeAsked)
      BY <1>5, <2>2, SizeAskedType
    <3> QED
      BY <2>2, <3>1 DEF LastShown, Windows!Keep
  <2> QED
    BY <2>1, <2>2
<1>9. /\ win \in Seq(Slot) /\ Len(win) = Count(ds) /\ Count(ds) \in Nat
  BY <1>6, WindowType
<1>10. CASE shown = << >>
  <2>1. Count(ds) = 0
    BY <1>7, <1>9, <1>10, KeepNothing, EmptySeq
  <2>2. rows = << [data |-> source[lIVS + 1]] >>
    BY <1>3, <2>1 DEF ReadReply
  <2> QED
    BY <1>1, <1>10, <2>2
<1>11. CASE shown # << >>
  <2>1. Len(win) # 0
    <3>1. CASE Len(shown) <= SizeAsked
      BY <1>5, <1>7, <1>11, <3>1 DEF Windows!Keep
    <3>2. CASE Len(shown) > SizeAsked
      <4>1. Len(Windows!Keep(SizeAsked, shown)) = SizeAsked
        BY <1>5, <3>2, SizeAskedType, KeepLonger
      <4> QED
        BY <1>7, <4>1, SizeAskedType
    <3> QED
      BY <1>5, <3>1, <3>2, SizeAskedType
  <2>2. win # << >>
    BY <2>1, EmptySeq
  <2>3. ReadsReturnWindow
    BY <1>2, ServerProtocol, ProtocolReads
  <2>4. /\ Len(rows) = Len(win)
        /\ \E k \in 0 .. Len(win) - 1 : \A j \in 1 .. Len(win) :
             rows[j] = win[((j - 1 + k) % Len(win)) + 1]
    BY <1>3, <1>4, <2>2, <2>3 DEF ReadsReturnWindow
  <2>5. DOMAIN rows = 1 .. Len(win)
    BY <1>3, <1>9, <2>1 DEF ReadReply, Rows
  <2>6. DOMAIN win = 1 .. Len(win) /\ Len(win) \in Nat \ {0}
    BY <1>9, <2>1, LenProperties
  <2> HIDE DEF win, rows
  <2>7. Range(rows) = Range(win)
    BY <2>4, <2>5, <2>6, SameRange
  <2> QED
    BY <1>1, <1>7, <1>8, <1>11, <2>4, <2>7
<1> QED
  BY <1>10, <1>11

(* The program reads the last samples of comstate, as many as it asked for *)
(* or all there are, as long as it is the process that created comstate    *)
(* that answers (test_corba_shell.cpp:122-136).                            *)
THEOREM LastSamplesRead == SessionSpec => ReadsLastSamples
<1>1. SessionInit => ShownInv
  BY InitShown DEF SessionInit
<1>2. IInv /\ ShownInv /\ [SessionNext]_sessionVars =>
        [pc = "read" /\ pc' = "destroy" /\ SameProcess =>
           IF shown = << >>
           THEN bufferOfValues' = << [data |-> source[lIVS + 1]] >>
           ELSE /\ Len(bufferOfValues') = Len(LastShown)
                /\ Range(bufferOfValues') = Range(LastShown)]_sessionVars
  <2> SUFFICES ASSUME IInv, ShownInv, SessionNext, pc = "read", pc' = "destroy", SameProcess
               PROVE  IF shown = << >>
                      THEN bufferOfValues' = << [data |-> source[lIVS + 1]] >>
                      ELSE /\ Len(bufferOfValues') = Len(LastShown)
                           /\ Range(bufferOfValues') = Range(LastShown)
    OBVIOUS
  <2>1. ~Process
    BY DEF Process, Kill, Restart
  <2>2. Read
    BY <2>1 DEF SessionNext, Program, Connect, Register, Create, Send, CallRunAndRead, Sent,
       Rebind, Resend, Unregister, Goto
  <2> QED
    BY <2>2, ReadsShown
<1> QED
  BY <1>1, <1>2, ShownStep, SessionInvariant, PTL DEF SessionSpec, ReadsLastSamples
=============================================================================
