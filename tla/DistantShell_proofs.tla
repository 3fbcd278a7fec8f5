------------------------ MODULE DistantShell_proofs ------------------------
(***************************************************************************)
(* Theorems about DistantShell, for every set of files and of lines that   *)
(* raise, and every number of loops and of lines.                          *)
(*                                                                         *)
(* A shell that is used as intended (usage is not "mixed") has at most one *)
(* loop running, the last one started, and that loop alone takes lines     *)
(* from the stream.  What was executed, the line in hand and the lines     *)
(* queued are then the beginning of the file, in order.                    *)
(***************************************************************************)
EXTENDS DistantShell, SequenceTheorems, TLAPS

Intended == usage # "mixed"

(* The line taken from the queue and not executed yet, if any. *)
InHand == IF threadLoop # 0 /\ at[threadLoop] = "run" THEN 1 ELSE 0

(* Where a thread may be. *)
ThreadsInv ==
  /\ \A t \in Loops : at[t] = "run" /\ destructor # "done" => line[t] \in Lines
  /\ threadLoop = 0 => executed = << >> /\ \A t \in Loops : at[t] = "none"

CursorInv == cursor <= Length(input)

(* One loop at a time, and it comes to next() for a line that is there. *)
OneLoop ==
  Intended =>
    /\ \A t \in Loops : Running(t) => t = threadLoop
    /\ \A t \in Loops : at[t] = "next" => pending # << >>

(* The lines executed, in hand and queued are the first lines of the file. *)
FileOrder ==
  usage = "once" =>
    /\ Len(executed) + InHand + Len(pending) = cursor
    /\ \A k \in 1 .. Len(executed) : executed[k] = <<input, k>>
    /\ \A t \in Loops : at[t] = "run" => line[t] = <<input, Len(executed) + 1>>
    /\ \A k \in 1 .. Len(pending) : pending[k] = <<input, Len(executed) + InHand + k>>

IInv ==
  /\ TypeOK /\ ThreadsInv /\ CursorInv /\ OneLoop /\ FileOrder
  /\ NoUseAfterDestroy /\ DiesOnlyOfRaise

-----------------------------------------------------------------------------
(* The lines that a reading of the file queues. *)
LEMMA NewsProperties ==
  ASSUME TypeOK, CursorInv
  PROVE  /\ Length(input) \in 0 .. MaxLines /\ cursor \in 0 .. MaxLines
         /\ News \in Seq(Lines) /\ Len(News) = Length(input) - cursor
         /\ \A k \in 1 .. Len(News) : News[k] = <<input, cursor + k>>
<1>1. MaxLines \in Nat
  BY BoundsAssumption
<1>2. Length(input) \in 0 .. MaxLines /\ cursor \in 0 .. MaxLines
  BY <1>1 DEF Length, TypeOK
<1> DEFINE n == Length(input) - cursor
<1>3. n \in Nat
  BY <1>1, <1>2 DEF CursorInv
<1>4. ASSUME NEW k \in 1 .. n PROVE <<input, cursor + k>> \in Lines
  <2>1. input # NoFile
    BY <1>1, <1>2 DEF Length, TypeOK
  <2>2. cursor + k \in 1 .. MaxLines
    BY <1>1, <1>2
  <2> QED
    BY <2>1, <2>2 DEF Lines, TypeOK
<1>5. News \in [1 .. n -> Lines]
  BY <1>4 DEF News
<1>6. News \in Seq(Lines)
  BY <1>3, <1>5, SeqDef
<1>7. Len(News) = n
  <2>1. DOMAIN News = 1 .. Len(News) /\ Len(News) \in Nat
    BY <1>6, LenProperties
  <2>2. DOMAIN News = 1 .. n
    BY <1>5
  <2> QED
    BY <1>3, <2>1, <2>2
<1> QED
  BY <1>2, <1>6, <1>7 DEF News

LEMMA Types ==
  ASSUME TypeOK
  PROVE  /\ MaxLines \in Nat /\ Loops \subseteq Nat \ {0}
         /\ pending \in Seq(Lines) /\ Len(pending) \in Nat
         /\ executed \in Seq(Lines) /\ Len(executed) \in Nat
         /\ cursor \in 0 .. MaxLines /\ threadLoop \in Nat
         /\ at \in [Loops -> Labels] /\ InHand \in {0, 1}
BY BoundsAssumption, LenProperties DEF TypeOK, Loops, InHand

LEMMA InitInv == Init => IInv
<1> SUFFICES ASSUME Init PROVE IInv
  OBVIOUS
<1>1. TypeOK
  <2>1. pending \in Seq(Lines) /\ executed \in Seq(Lines)
    BY EmptySeq DEF Init
  <2>2. 0 \in 0 .. MaxLines
    BY BoundsAssumption
  <2> QED
    BY <2>1, <2>2 DEF Init, TypeOK, Labels
<1>2. ThreadsInv /\ CursorInv
  BY DEF Init, ThreadsInv, CursorInv, Length
<1>3. OneLoop /\ NoUseAfterDestroy /\ DiesOnlyOfRaise
  BY DEF Init, OneLoop, Running, NoUseAfterDestroy, DiesOnlyOfRaise
<1>4. FileOrder
  BY EmptySeq DEF Init, FileOrder, InHand
<1> QED
  BY <1>1, <1>2, <1>3, <1>4 DEF IInv

-----------------------------------------------------------------------------
(* The steps of a loop.                                                    *)

(* What every step of a loop does to the threads. *)
LEMMA GotoThreads ==
  ASSUME IInv, NEW t \in Loops, NEW here \in Labels \ {"none", "ended"},
         NEW there \in Labels \ {"none"}, Goto(t, here, there)
  PROVE  /\ alive /\ threadLoop # 0 /\ UNCHANGED <<threadLoop, usage>>
         /\ UNCHANGED <<written, endLoop, destructor, wanted>>
         /\ destructor # "done" \/ here = "sleep"
         /\ at[t] = here /\ at' \in [Loops -> Labels] /\ at'[t] = there
         /\ \A u \in Loops : u # t => at'[u] = at[u]
         /\ Intended => /\ t = threadLoop
                        /\ \A u \in Loops : Running(u)' => u = threadLoop
                        /\ destructor # "done"
<1>1. /\ alive /\ UNCHANGED <<threadLoop, usage>> /\ at[t] = here
      /\ destructor # "done" \/ here = "sleep"
      /\ UNCHANGED <<written, endLoop, destructor, wanted>>
      /\ at' = [at EXCEPT ![t] = there]
  BY DEF Goto
<1>2. at' \in [Loops -> Labels] /\ at'[t] = there /\ \A u \in Loops : u # t => at'[u] = at[u]
  BY <1>1 DEF IInv, TypeOK
<1>3. Running(t)
  BY <1>1 DEF Running
<1>4. threadLoop # 0
  BY <1>1 DEF IInv, ThreadsInv
<1>5. ASSUME Intended PROVE t = threadLoop /\ destructor # "done"
  BY <1>3, <1>5 DEF IInv, OneLoop, NoUseAfterDestroy, Intended
<1>6. ASSUME Intended, NEW u \in Loops, Running(u)' PROVE u = threadLoop
  <2>1. CASE u = t
    BY <1>5, <1>6, <2>1
  <2>2. CASE u # t
    <3>1. Running(u)
      BY <1>2, <1>6, <2>2 DEF Running
    <3> QED
      BY <1>6, <3>1 DEF IInv, OneLoop
  <2> QED
    BY <2>1, <2>2
<1> QED
  BY <1>1, <1>2, <1>4, <1>5, <1>6

(* A step that moves a thread and leaves the stream and the lines alone. *)
LEMMA MoveInv ==
  ASSUME IInv, NEW t \in Loops, NEW here \in Labels \ {"none", "ended", "run"},
         NEW there \in Labels \ {"none", "run"}, Goto(t, here, there),
         there = "next" => pending # << >>,
         UNCHANGED <<alive, filein, line, executed>>
  PROVE  IInv'
<1>1. UNCHANGED <<alive, input, cursor, pending, line, executed>>
  BY DEF filein
<1>2. /\ alive /\ threadLoop # 0 /\ UNCHANGED <<threadLoop, usage>>
      /\ UNCHANGED <<written, endLoop, destructor, wanted>>
      /\ at[t] = here /\ at' \in [Loops -> Labels] /\ at'[t] = there
      /\ \A u \in Loops : u # t => at'[u] = at[u]
      /\ Intended => /\ t = threadLoop
                     /\ \A u \in Loops : Running(u)' => u = threadLoop
                     /\ destructor # "done"
  BY GotoThreads
<1>3. TypeOK'
  BY <1>1, <1>2 DEF IInv, TypeOK
<1>4. \A u \in Loops : at'[u] = "run" <=> at[u] = "run"
  BY <1>2
<1>5. ThreadsInv' /\ CursorInv'
  BY <1>1, <1>2, <1>4 DEF IInv, ThreadsInv, CursorInv, Length
<1>6. OneLoop'
  BY <1>1, <1>2 DEF IInv, OneLoop, Intended
<1>7. FileOrder'
  <2>1. threadLoop \in Loops
    BY <1>2 DEF IInv, TypeOK
  <2>2. InHand' = InHand
    BY <1>2, <1>4, <2>1 DEF InHand
  <2> QED
    BY <1>1, <1>2, <1>4, <2>2 DEF IInv, FileOrder
<1>8. NoUseAfterDestroy' /\ DiesOnlyOfRaise'
  BY <1>1, <1>2 DEF NoUseAfterDestroy, DiesOnlyOfRaise, Intended
<1> QED
  BY <1>3, <1>5, <1>6, <1>7, <1>8 DEF IInv

LEMMA TestEndInv == ASSUME IInv, NEW t \in Loops, TestEnd(t) PROVE IInv'
<1>1. PICK there \in {"ended", "loop"} : Goto(t, "test", there)
  BY DEF TestEnd
<1> QED
  BY <1>1, MoveInv DEF TestEnd, Labels

LEMMA TestReadyInv == ASSUME IInv, NEW t \in Loops, TestReady(t) PROVE IInv'
<1>1. PICK there \in {"sleep", "next"} :
         Goto(t, "ready", there) /\ (there = "next" => pending # << >>)
  BY DEF TestReady
<1> QED
  BY <1>1, MoveInv DEF TestReady, Labels

LEMMA SleepInv == ASSUME IInv, NEW t \in Loops, Sleep(t) PROVE IInv'
BY MoveInv DEF Sleep, Labels

LEMMA ReadFileInv == ASSUME IInv, NEW t \in Loops, ReadFile(t) PROVE IInv'
<1>1. PICK there \in {"sleep", "ready"} : Goto(t, "loop", there)
  BY DEF ReadFile
<1>2. /\ pending' = pending \o News /\ cursor' = cursor + Len(News)
      /\ UNCHANGED <<alive, input, line, executed>>
  BY DEF ReadFile
<1>3. /\ alive /\ threadLoop # 0 /\ UNCHANGED <<threadLoop, usage>>
      /\ UNCHANGED <<written, endLoop, destructor, wanted>>
      /\ at[t] = "loop" /\ at' \in [Loops -> Labels] /\ at'[t] = there
      /\ \A u \in Loops : u # t => at'[u] = at[u]
      /\ Intended => /\ t = threadLoop
                     /\ \A u \in Loops : Running(u)' => u = threadLoop
                     /\ destructor # "done"
  BY <1>1, GotoThreads DEF Labels
<1>4. /\ Length(input) \in 0 .. MaxLines /\ cursor \in 0 .. MaxLines
      /\ News \in Seq(Lines) /\ Len(News) = Length(input) - cursor
      /\ \A k \in 1 .. Len(News) : News[k] = <<input, cursor + k>>
  BY NewsProperties DEF IInv
<1>5. pending \in Seq(Lines) /\ Len(pending) \in Nat /\ Len(executed) \in Nat
      /\ InHand \in {0, 1}
  BY Types DEF IInv
<1> HIDE DEF News
<1>6. /\ pending' \in Seq(Lines) /\ Len(pending') = Len(pending) + Len(News)
      /\ \A k \in 1 .. Len(pending') :
           pending'[k] = IF k <= Len(pending) THEN pending[k] ELSE News[k - Len(pending)]
  <2>1. Len(News) \in Nat
    BY <1>4, LenProperties
  <2>2. /\ pending \o News \in Seq(Lines)
        /\ Len(pending \o News) = Len(pending) + Len(News)
        /\ \A k \in 1 .. Len(pending) + Len(News) : (pending \o News)[k] =
             IF k <= Len(pending) THEN pending[k] ELSE News[k - Len(pending)]
    BY <1>4, <1>5, ConcatProperties
  <2> QED
    BY <1>2, <2>2
<1>7. cursor' = Length(input)
  BY <1>2, <1>4, <1>5, Types DEF IInv
<1>8. TypeOK'
  BY <1>2, <1>3, <1>4, <1>6, <1>7 DEF IInv, TypeOK
<1>9. \A u \in Loops : at'[u] = "run" <=> at[u] = "run"
  BY <1>3
<1>10. ThreadsInv' /\ CursorInv'
  <2>1. Length(input)' = Length(input)
    BY <1>2, <1>3 DEF Length
  <2> QED
    BY <1>2, <1>3, <1>4, <1>7, <1>9, <2>1 DEF IInv, ThreadsInv, CursorInv
<1>11. OneLoop'
  <2>1. ASSUME Intended, NEW u \in Loops, at'[u] = "next" PROVE pending' # << >>
    <3>1. Running(u)'
      BY <2>1 DEF Running
    <3> QED
      BY <1>3, <2>1, <3>1
  <2> QED
    BY <1>3, <2>1 DEF OneLoop, Intended
<1>12. FileOrder'
  <2> SUFFICES ASSUME usage = "once" PROVE FileOrder'
    BY <1>3 DEF FileOrder
  <2>1. /\ Len(executed) + InHand + Len(pending) = cursor
        /\ \A k \in 1 .. Len(executed) : executed[k] = <<input, k>>
        /\ \A u \in Loops : at[u] = "run" => line[u] = <<input, Len(executed) + 1>>
        /\ \A k \in 1 .. Len(pending) : pending[k] = <<input, Len(executed) + InHand + k>>
    BY DEF IInv, FileOrder
  <2>2. InHand' = InHand
    <3>1. threadLoop \in Loops
      BY <1>3 DEF IInv, TypeOK
    <3> QED
      BY <1>3, <1>9, <3>1 DEF InHand
  <2>3. ASSUME NEW k \in 1 .. Len(pending')
        PROVE  pending'[k] = <<input, Len(executed) + InHand + k>>
    <3>1. CASE k <= Len(pending)
      BY <1>5, <1>6, <2>1, <3>1
    <3>2. CASE ~(k <= Len(pending))
      <4>1. k - Len(pending) \in 1 .. Len(News)
        BY <1>4, <1>5, <1>6, <3>2, Types DEF IInv
      <4>2. pending'[k] = <<input, cursor + (k - Len(pending))>>
        BY <1>4, <1>6, <3>2, <4>1
      <4>3. cursor + (k - Len(pending)) = Len(executed) + InHand + k
        <5>1. k \in Int /\ cursor \in Int /\ Len(executed) \in Int /\ InHand \in Int
          BY <1>4, <1>5
        <5>2. Len(executed) + InHand + Len(pending) = cursor /\ Len(pending) \in Int
          BY <1>5, <2>1
        <5> HIDE DEF InHand
        <5> QED
          BY <5>1, <5>2
      <4> QED
        BY <4>2, <4>3
    <3> QED
      BY <3>1, <3>2
  <2>4. Len(executed) + InHand + Len(pending') = cursor'
    BY <1>2, <1>4, <1>5, <1>6, <2>1
  <2> QED
    BY <1>2, <1>9, <2>1, <2>2, <2>3, <2>4 DEF FileOrder
<1>13. NoUseAfterDestroy' /\ DiesOnlyOfRaise'
  BY <1>2, <1>3 DEF NoUseAfterDestroy, DiesOnlyOfRaise, Intended
<1> QED
  BY <1>8, <1>10, <1>11, <1>12, <1>13 DEF IInv

(* The queue had the line that was seen: a thread takes the line that is   *)
(* next in the file.                                                       *)
LEMMA NextLineInv == ASSUME IInv, NEW t \in Loops, NextLine(t) PROVE IInv'
<1>1. UNCHANGED <<input, cursor, executed>>
  BY DEF NextLine
<1>2. pending \in Seq(Lines) /\ Len(pending) \in Nat /\ Len(executed) \in Nat
      /\ InHand \in {0, 1} /\ cursor \in Int
  BY Types DEF IInv
<1>3. CASE pending # << >>
  <2>1. Goto(t, "next", "run")
    BY <1>3 DEF NextLine
  <2>2. /\ line' = [line EXCEPT ![t] = Head(pending)] /\ pending' = Tail(pending)
        /\ alive' = alive
    BY <1>3 DEF NextLine
  <2>3. /\ alive /\ threadLoop # 0 /\ UNCHANGED <<threadLoop, usage>>
        /\ UNCHANGED <<written, endLoop, destructor, wanted>>
        /\ at[t] = "next" /\ at' \in [Loops -> Labels] /\ at'[t] = "run"
        /\ \A u \in Loops : u # t => at'[u] = at[u]
        /\ Intended => /\ t = threadLoop
                       /\ \A u \in Loops : Running(u)' => u = threadLoop
                       /\ destructor # "done"
    BY <2>1, GotoThreads DEF Labels
  <2>4. /\ Head(pending) \in Lines /\ Head(pending) = pending[1]
        /\ Tail(pending) \in Seq(Lines) /\ Len(Tail(pending)) = Len(pending) - 1
        /\ \A k \in 1 .. Len(Tail(pending)) : Tail(pending)[k] = pending[k + 1]
    BY <1>2, <1>3, HeadTailProperties
  <2>5. /\ line' \in [Loops -> Lines \cup {<< >>}] /\ line'[t] = Head(pending)
        /\ \A u \in Loops : u # t => line'[u] = line[u]
    BY <2>2, <2>4 DEF IInv, TypeOK
  <2>6. TypeOK'
    BY <1>1, <2>2, <2>3, <2>4, <2>5 DEF IInv, TypeOK
  <2>7. ThreadsInv' /\ CursorInv'
    <3>1. \A u \in Loops : at'[u] = "run" /\ destructor # "done" => line'[u] \in Lines
      BY <2>3, <2>4, <2>5 DEF IInv, ThreadsInv
    <3> QED
      BY <1>1, <2>3, <3>1 DEF IInv, ThreadsInv, CursorInv, Length
  <2>8. OneLoop'
    <3>1. ASSUME Intended, NEW u \in Loops PROVE at'[u] # "next"
      <4>1. at'[u] = "next" => Running(u)'
        BY DEF Running
      <4> QED
        BY <2>3, <3>1, <4>1
    <3> QED
      BY <2>3, <3>1 DEF OneLoop, Intended
  <2>9. FileOrder'
    <3> SUFFICES ASSUME usage = "once" PROVE FileOrder'
      BY <2>3 DEF FileOrder
    <3>1. /\ Len(executed) + InHand + Len(pending) = cursor
          /\ \A k \in 1 .. Len(executed) : executed[k] = <<input, k>>
          /\ \A k \in 1 .. Len(pending) : pending[k] = <<input, Len(executed) + InHand + k>>
      BY DEF IInv, FileOrder
    <3>2. t = threadLoop /\ InHand = 0 /\ InHand' = 1
      BY <2>3 DEF InHand, Intended
    <3>3. \A u \in Loops : at'[u] = "run" => u = t
      BY <2>3, <3>2 DEF Running, Intended
    <3>4. Len(pending) >= 1
      BY <1>2, <1>3, EmptySeq
    <3>5. line'[t] = <<input, Len(executed) + 1>>
      BY <1>2, <2>4, <2>5, <3>1, <3>2, <3>4
    <3>6. ASSUME NEW k \in 1 .. Len(pending')
          PROVE  pending'[k] = <<input, Len(executed) + 1 + k>>
      <4>1. k + 1 \in 1 .. Len(pending) /\ pending'[k] = pending[k + 1]
        BY <1>2, <2>2, <2>4
      <4>2. pending[k + 1] = <<input, Len(executed) + 0 + (k + 1)>>
        BY <3>1, <3>2, <4>1
      <4>3. Len(executed) + 0 + (k + 1) = Len(executed) + 1 + k
        BY <1>2, <4>1
      <4> QED
        BY <4>1, <4>2, <4>3
    <3>7. Len(executed) + 1 + Len(pending') = cursor
      <4>1. Len(pending') = Len(pending) - 1
        BY <2>2, <2>4
      <4>2. Len(executed) + 0 + Len(pending) = cursor
        BY <3>1, <3>2
      <4> QED
        BY <1>2, <4>1, <4>2
    <3> QED
      BY <1>1, <3>1, <3>2, <3>3, <3>5, <3>6, <3>7 DEF FileOrder
  <2>10. NoUseAfterDestroy' /\ DiesOnlyOfRaise'
    BY <1>1, <2>2, <2>3 DEF NoUseAfterDestroy, DiesOnlyOfRaise, Intended
  <2> QED
    BY <2>6, <2>7, <2>8, <2>9, <2>10 DEF IInv
<1>4. CASE pending = << >>
  <2>1. Goto(t, "next", "ready") /\ alive' \in BOOLEAN /\ UNCHANGED <<line, pending>>
    BY <1>4 DEF NextLine
  <2>2. /\ alive /\ threadLoop # 0 /\ UNCHANGED <<threadLoop, usage>>
        /\ UNCHANGED <<written, endLoop, destructor, wanted>>
        /\ at[t] = "next" /\ at' \in [Loops -> Labels] /\ at'[t] = "ready"
        /\ \A u \in Loops : u # t => at'[u] = at[u]
    BY <2>1, GotoThreads DEF Labels
  <2>3. ~Intended /\ ~Intended' /\ usage # "once" /\ usage' # "once"
    BY <1>4, <2>2 DEF IInv, OneLoop, Intended
  <2>4. TypeOK'
    BY <1>1, <2>1, <2>2 DEF IInv, TypeOK
  <2>5. ThreadsInv' /\ CursorInv'
    BY <1>1, <2>1, <2>2 DEF IInv, ThreadsInv, CursorInv, Length
  <2> QED
    BY <2>3, <2>4, <2>5
       DEF IInv, OneLoop, FileOrder, NoUseAfterDestroy, DiesOnlyOfRaise, Intended
<1> QED
  BY <1>3, <1>4

(* A loop that the destructor has not joined: the shell was not used as    *)
(* intended.                                                               *)
LEMMA UseFreedInv == ASSUME IInv, NEW t \in Loops, UseFreed(t) PROVE IInv'
<1>1. /\ destructor = "done" /\ at[t] \in {"test", "loop", "ready", "next", "run"}
      /\ alive' \in BOOLEAN
      /\ UNCHANGED <<written, input, cursor, pending, endLoop, line, threadLoop, destructor,
                     executed, wanted, usage>>
  BY DEF UseFreed, filein
<1>2. PICK there \in Labels \ {"none"} : at' = [at EXCEPT ![t] = there]
  BY DEF UseFreed
<1>3. Running(t)
  BY <1>1 DEF Running
<1>4. usage = "mixed"
  BY <1>1, <1>3 DEF IInv, NoUseAfterDestroy
<1>5. threadLoop # 0
  BY <1>1 DEF IInv, ThreadsInv
<1>6. at' \in [Loops -> Labels]
  BY <1>2 DEF IInv, TypeOK
<1>7. TypeOK'
  BY <1>1, <1>6 DEF IInv, TypeOK
<1>8. ThreadsInv' /\ CursorInv'
  BY <1>1, <1>5 DEF IInv, ThreadsInv, CursorInv, Length
<1> QED
  BY <1>1, <1>4, <1>7, <1>8
     DEF IInv, OneLoop, FileOrder, NoUseAfterDestroy, DiesOnlyOfRaise, Intended

LEMMA ExecuteInv == ASSUME IInv, NEW t \in Loops, Execute(t) PROVE IInv'
<1>1. Goto(t, "run", "ready")
  BY DEF Execute
<1>2. /\ executed' = Append(executed, line[t]) /\ alive' = (line[t] \notin Raises)
      /\ UNCHANGED <<input, cursor, pending, line>>
  BY DEF Execute, filein
<1>3. /\ alive /\ threadLoop # 0 /\ UNCHANGED <<threadLoop, usage>>
      /\ UNCHANGED <<written, endLoop, destructor, wanted>>
      /\ at[t] = "run" /\ at' \in [Loops -> Labels] /\ at'[t] = "ready"
      /\ destructor # "done"
      /\ \A u \in Loops : u # t => at'[u] = at[u]
      /\ Intended => /\ t = threadLoop
                     /\ \A u \in Loops : Running(u)' => u = threadLoop
                     /\ destructor # "done"
  BY <1>1, GotoThreads DEF Labels
<1>4. line[t] \in Lines /\ executed \in Seq(Lines) /\ Len(executed) \in Nat
      /\ Len(pending) \in Nat /\ cursor \in Int
  BY <1>3, Types DEF IInv, ThreadsInv
<1>5. /\ executed' \in Seq(Lines) /\ Len(executed') = Len(executed) + 1
      /\ \A k \in 1 .. Len(executed) : executed'[k] = executed[k]
      /\ executed'[Len(executed) + 1] = line[t]
  BY <1>2, <1>4, AppendProperties
<1>6. TypeOK'
  BY <1>2, <1>3, <1>5 DEF IInv, TypeOK
<1>7. ThreadsInv' /\ CursorInv'
  BY <1>2, <1>3 DEF IInv, ThreadsInv, CursorInv, Length
<1>8. OneLoop'
  <2>1. ASSUME Intended, NEW u \in Loops PROVE at'[u] # "next"
    <3>1. at'[u] = "next" => Running(u)'
      BY DEF Running
    <3> QED
      BY <1>3, <2>1, <3>1
  <2> QED
    BY <1>3, <2>1 DEF OneLoop, Intended
<1>9. FileOrder'
  <2> SUFFICES ASSUME usage = "once" PROVE FileOrder'
    BY <1>3 DEF FileOrder
  <2>1. /\ Len(executed) + InHand + Len(pending) = cursor
        /\ \A k \in 1 .. Len(executed) : executed[k] = <<input, k>>
        /\ line[t] = <<input, Len(executed) + 1>>
        /\ \A k \in 1 .. Len(pending) : pending[k] = <<input, Len(executed) + InHand + k>>
    BY <1>3 DEF IInv, FileOrder
  <2>2. t = threadLoop /\ InHand = 1 /\ InHand' = 0
    BY <1>3 DEF InHand, Intended
  <2>3. \A u \in Loops : at'[u] # "run"
    BY <1>3, <2>2 DEF Running, Intended
  <2>4. \A k \in 1 .. Len(executed') : executed'[k] = <<input, k>>
    BY <1>4, <1>5, <2>1
  <2>5. ASSUME NEW k \in 1 .. Len(pending)
        PROVE  pending[k] = <<input, Len(executed') + 0 + k>>
    <3>1. Len(executed') + 0 + k = Len(executed) + 1 + k
      BY <1>4, <1>5
    <3> QED
      BY <2>1, <2>2, <3>1
  <2>6. Len(executed') + 0 + Len(pending) = cursor
    BY <1>4, <1>5, <2>1, <2>2
  <2> QED
    BY <1>2, <2>2, <2>3, <2>4, <2>5, <2>6 DEF FileOrder
<1>10. NoUseAfterDestroy'
  BY <1>3 DEF NoUseAfterDestroy, Intended
<1>11. DiesOnlyOfRaise'
  <2>1. executed' # << >>
    BY <1>4, <1>5, EmptySeq
  <2> QED
    BY <1>2, <1>4, <1>5, <2>1 DEF DiesOnlyOfRaise
<1> QED
  BY <1>6, <1>7, <1>8, <1>9, <1>10, <1>11 DEF IInv

-----------------------------------------------------------------------------
(* Commands, destruction and the user of the shell.                        *)

LEMMA OpenInv == ASSUME IInv, NEW f \in Files, Open(f) PROVE IInv'
<1>1. /\ alive /\ destructor = "no" /\ input' = f /\ cursor' = 0 /\ pending' = << >>
      /\ UNCHANGED <<alive, written, endLoop, at, line, threadLoop, destructor, executed,
                     wanted>>
      /\ usage' = IF input = NoFile /\ threadLoop = 0 THEN usage ELSE "mixed"
  BY DEF Open
<1>2. TypeOK'
  <2>1. pending' \in Seq(Lines) /\ 0 \in 0 .. MaxLines
    BY <1>1, EmptySeq, BoundsAssumption
  <2> QED
    BY <1>1, <2>1 DEF IInv, TypeOK
<1>3. CursorInv'
  BY <1>1, <1>2, BoundsAssumption DEF CursorInv, Length, TypeOK
<1>4. ThreadsInv' /\ NoUseAfterDestroy' /\ DiesOnlyOfRaise'
  BY <1>1 DEF IInv, ThreadsInv, NoUseAfterDestroy, DiesOnlyOfRaise
<1>5. ASSUME usage' # "mixed"
      PROVE  threadLoop = 0 /\ executed = << >> /\ \A u \in Loops : at'[u] = "none"
  BY <1>1, <1>5 DEF IInv, ThreadsInv
<1>6. OneLoop'
  BY <1>5 DEF OneLoop, Running, Intended
<1>7. FileOrder'
  <2>1. ASSUME usage' = "once" PROVE threadLoop' = 0 /\ executed' = << >> /\ InHand' = 0
    BY <1>1, <1>5, <2>1 DEF InHand
  <2> QED
    BY <1>1, <1>5, <2>1, EmptySeq DEF FileOrder
<1> QED
  BY <1>2, <1>3, <1>4, <1>6, <1>7 DEF IInv

LEMMA StartInv == ASSUME IInv, Start PROVE IInv'
<1>1. PICK t \in Loops : at[t] = "none" /\ at' = [at EXCEPT ![t] = "test"] /\ threadLoop' = t
  BY DEF Start
<1>2. /\ alive /\ destructor = "no" /\ wanted' = TRUE
      /\ UNCHANGED <<alive, written, input, cursor, pending, endLoop, line, destructor,
                     executed>>
  BY DEF Start, filein
<1>3. usage' = IF input = NoFile \/ \E u \in Loops : Running(u) THEN "mixed"
               ELSE IF usage = "once" /\ (endLoop \/ threadLoop # 0) THEN "again"
               ELSE usage
  BY DEF Start
<1>4. /\ at' \in [Loops -> Labels] /\ at'[t] = "test"
      /\ \A u \in Loops : u # t => at'[u] = at[u]
  BY <1>1 DEF IInv, TypeOK, Labels
<1>5. t # 0
  BY <1>1, Types DEF IInv
<1>6. TypeOK'
  BY <1>1, <1>2, <1>3, <1>4 DEF IInv, TypeOK
<1>7. ThreadsInv' /\ CursorInv'
  BY <1>1, <1>2, <1>4, <1>5 DEF IInv, ThreadsInv, CursorInv, Length
<1>8. ASSUME usage' # "mixed" PROVE \A u \in Loops : ~Running(u)
  BY <1>3, <1>8
<1>9. OneLoop'
  BY <1>1, <1>4, <1>8 DEF OneLoop, Running, Intended
<1>10. FileOrder'
  <2> SUFFICES ASSUME usage' = "once" PROVE FileOrder'
    BY DEF FileOrder
  <2>1. usage = "once" /\ threadLoop = 0 /\ InHand = 0
    BY <1>3 DEF InHand
  <2>2. \A u \in Loops : at'[u] # "run"
    BY <1>4, <1>8 DEF Running
  <2>3. InHand' = 0
    BY <1>1, <2>2 DEF InHand
  <2> QED
    BY <1>2, <2>1, <2>2, <2>3 DEF IInv, FileOrder
<1>11. NoUseAfterDestroy' /\ DiesOnlyOfRaise'
  BY <1>2 DEF NoUseAfterDestroy, DiesOnlyOfRaise
<1> QED
  BY <1>6, <1>7, <1>9, <1>10, <1>11 DEF IInv

(* The commands that touch neither the threads nor the stream. *)
LEMMA FlagsInv ==
  ASSUME IInv, UNCHANGED <<written, filein, at, line, threadLoop, executed, usage>>,
         endLoop' \in BOOLEAN, wanted' \in BOOLEAN, alive' \in BOOLEAN,
         destructor' \in {"no", "joining", "done"}, destructor = "done" => destructor' = "done",
         NoUseAfterDestroy', DiesOnlyOfRaise'
  PROVE  IInv'
<1>1. UNCHANGED <<input, cursor, pending, written, at, line, threadLoop, executed, usage>>
  BY DEF filein
<1>2. InHand' = InHand
  BY <1>1 DEF InHand
<1> QED
  BY <1>1, <1>2 DEF IInv, TypeOK, ThreadsInv, CursorInv, Length, OneLoop, Running, FileOrder,
                    Intended

LEMMA StopInv == ASSUME IInv, Stop PROVE IInv'
<1>1. NoUseAfterDestroy' /\ DiesOnlyOfRaise'
  BY DEF Stop, NoUseAfterDestroy, DiesOnlyOfRaise
<1> QED
  BY <1>1, FlagsInv DEF Stop, IInv, TypeOK

LEMMA DestroyInv == ASSUME IInv, Destroy PROVE IInv'
<1>1. NoUseAfterDestroy' /\ DiesOnlyOfRaise'
  BY DEF Destroy, NoUseAfterDestroy, DiesOnlyOfRaise
<1> QED
  BY <1>1, FlagsInv DEF Destroy

LEMMA JoinInv == ASSUME IInv, Join PROVE IInv'
<1>1. DiesOnlyOfRaise'
  BY DEF Join, DiesOnlyOfRaise
<1>2. NoUseAfterDestroy'
  <2>1. UNCHANGED <<at, usage>> /\ (threadLoop # 0 => at[threadLoop] = "ended")
    BY DEF Join
  <2>2. Intended => \A u \in Loops : ~Running(u)
    BY <2>1 DEF IInv, ThreadsInv, OneLoop, Running
  <2> QED
    BY <2>1, <2>2 DEF NoUseAfterDestroy, Running, Intended
<1> QED
  BY <1>1, <1>2, FlagsInv DEF Join, IInv, TypeOK

LEMMA AddLineInv == ASSUME IInv, NEW f \in Files, AddLine(f) PROVE IInv'
<1>1. /\ written[f] < MaxLines /\ written' = [written EXCEPT ![f] = @ + 1]
      /\ UNCHANGED <<alive, input, cursor, pending, endLoop, at, line, threadLoop,
                     destructor, executed, wanted, usage>>
  BY DEF AddLine, filein
<1>2. written \in [Files -> 0 .. MaxLines] /\ MaxLines \in Nat
  BY BoundsAssumption DEF IInv, TypeOK
<1>3. /\ written' \in [Files -> 0 .. MaxLines]
      /\ \A g \in Files : written[g] <= written'[g]
  BY <1>1, <1>2
<1>4. TypeOK'
  BY <1>1, <1>3 DEF IInv, TypeOK
<1>5. CursorInv'
  <2>1. cursor \in Int /\ input \in Files \cup {NoFile}
    BY <1>2 DEF IInv, TypeOK
  <2> QED
    BY <1>1, <1>2, <1>3, <2>1 DEF IInv, CursorInv, Length
<1>6. InHand' = InHand
  BY <1>1 DEF InHand
<1> QED
  BY <1>1, <1>4, <1>5, <1>6
     DEF IInv, ThreadsInv, OneLoop, Running, FileOrder, NoUseAfterDestroy, DiesOnlyOfRaise,
         Intended

-----------------------------------------------------------------------------
LEMMA StepInv == IInv /\ [Next]_vars => IInv'
<1> SUFFICES ASSUME IInv, [Next]_vars PROVE IInv'
  OBVIOUS
<1>1. ASSUME NEW t \in Loops, Loop(t) PROVE IInv'
  BY <1>1, TestEndInv, ReadFileInv, TestReadyInv, NextLineInv, ExecuteInv, SleepInv,
     UseFreedInv DEF Loop
<1>2. CASE Start
  BY <1>2, StartInv
<1>3. CASE Stop
  BY <1>3, StopInv
<1>4. CASE Destroy
  BY <1>4, DestroyInv
<1>5. ASSUME NEW f \in Files, Open(f) PROVE IInv'
  BY <1>5, OpenInv
<1>6. CASE Environment
  BY <1>6, JoinInv, AddLineInv DEF Environment
<1>7. CASE UNCHANGED vars
  <2>1. UNCHANGED <<alive, written, filein, endLoop, at, line, threadLoop, destructor,
                    executed, wanted, usage>>
    BY <1>7 DEF vars
  <2>2. NoUseAfterDestroy' /\ DiesOnlyOfRaise'
    BY <2>1 DEF IInv, NoUseAfterDestroy, Running, DiesOnlyOfRaise
  <2> QED
    BY <2>1, <2>2, FlagsInv DEF IInv, TypeOK
<1> QED
  BY <1>1, <1>2, <1>3, <1>4, <1>5, <1>6, <1>7 DEF Next

(* The invariant on which the theorems below rest. *)
THEOREM ShellInvariant == Spec => []IInv
BY InitInv, StepInv, PTL DEF Spec

(* The variables keep their types (distant-shell.h:37-51). *)
THEOREM ShellTypeCorrect == Spec => []TypeOK
<1>1. IInv => TypeOK
  BY DEF IInv
<1> QED
  BY <1>1, ShellInvariant, PTL

(* Opened and started once, the shell executes the lines of the file in    *)
(* their order, each once and none skipped, whatever stops, destroys or    *)
(* lengthens the file meanwhile (distant-shell.cpp:49-63).                 *)
THEOREM LinesInOrderOnce == Spec => []InOrderOnce
<1>1. IInv => InOrderOnce
  <2> SUFFICES ASSUME IInv, usage = "once"
               PROVE  executed = [k \in 1 .. Len(executed) |-> <<input, k>>]
    BY DEF InOrderOnce
  <2>1. executed \in [1 .. Len(executed) -> Lines]
    BY LenProperties DEF IInv, TypeOK
  <2>2. \A k \in 1 .. Len(executed) : executed[k] = <<input, k>>
    BY DEF IInv, FileOrder
  <2> QED
    BY <2>1, <2>2
<1> QED
  BY <1>1, ShellInvariant, PTL

(* No loop uses the object after its destructor, also when the shell was   *)
(* stopped and started again, however often (distant-shell.cpp:34-37).     *)
THEOREM JoinedBeforeFreed == Spec => []NoUseAfterDestroy
<1>1. IInv => NoUseAfterDestroy
  BY DEF IInv
<1> QED
  BY <1>1, ShellInvariant, PTL

(* A loop that has the stream to itself never takes a line from an empty   *)
(* queue, so the process dies of nothing but a line that raises or a shell *)
(* destroyed before any start (distant-shell.cpp:37, 54-56).               *)
THEOREM ShellDiesOnlyOfRaise == Spec => []DiesOnlyOfRaise
<1>1. IInv => DiesOnlyOfRaise
  BY DEF IInv
<1> QED
  BY <1>1, ShellInvariant, PTL
=============================================================================
