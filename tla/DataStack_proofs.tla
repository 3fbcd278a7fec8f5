-------------------------- MODULE DataStack_proofs --------------------------
(***************************************************************************)
(* What the operations of the circular buffer return, for every size and   *)
(* content.                                                                *)
(***************************************************************************)
EXTENDS DataStack, SequenceTheorems, WellFoundedInduction, TLAPS

(* A function on 1 .. n with values in S is a sequence of length n. *)
LEMMA FcnIsSeq ==
  ASSUME NEW S, NEW n \in Nat, NEW f \in [1 .. n -> S]
  PROVE  f \in Seq(S) /\ Len(f) = n
BY SeqDef, LenProperties

LEMMA EmptyStackType ==
  ASSUME NEW S
  PROVE  EmptyStack \in StackOf(S) /\ Len(EmptyStack.slots) = 0
BY EmptySeq DEF EmptyStack, StackOf

LEMMA ResizeType ==
  ASSUME NEW S, Blank \in S, NEW ds \in StackOf(S), NEW k \in Nat
  PROVE  /\ Resize(ds, k) \in StackOf(S)
         /\ Len(Resize(ds, k).slots) = k
         /\ Resize(ds, k).index = ds.index
         /\ Resize(ds, k).turnaround = ds.turnaround
         /\ \A j \in 1 .. k :
              Resize(ds, k).slots[j] = IF j <= Len(ds.slots) THEN ds.slots[j] ELSE Blank
<1> DEFINE cells == [j \in 1 .. k |-> IF j <= Len(ds.slots) THEN ds.slots[j] ELSE Blank]
<1>1. cells \in [1 .. k -> S]
  BY ElementOfSeq DEF StackOf
<1>2. cells \in Seq(S) /\ Len(cells) = k
  BY <1>1, FcnIsSeq
<1>3. Resize(ds, k) = [ds EXCEPT !.slots = cells]
  BY DEF Resize
<1> HIDE DEF cells
<1>4. Resize(ds, k) \in StackOf(S) /\ Resize(ds, k).slots = cells
      /\ Resize(ds, k).index = ds.index /\ Resize(ds, k).turnaround = ds.turnaround
  BY <1>2, <1>3 DEF StackOf
<1> QED
  BY <1>2, <1>4 DEF cells

LEMMA IncType ==
  ASSUME NEW S, NEW ds \in StackOf(S)
  PROVE  /\ Inc(ds) \in StackOf(S)
         /\ Inc(ds).slots = ds.slots
         /\ Inc(ds).index = IF ds.index + 1 = Len(ds.slots) THEN 0 ELSE ds.index + 1
         /\ Inc(ds).turnaround = (ds.turnaround \/ ds.index + 1 = Len(ds.slots))
<1>1. ds.slots \in Seq(S) /\ ds.index \in Nat /\ ds.turnaround \in BOOLEAN
  BY DEF StackOf
<1>2. CASE ds.index + 1 = Len(ds.slots)
  <2>1. Inc(ds) = [ds EXCEPT !.index = 0, !.turnaround = TRUE]
    BY <1>2 DEF Inc
  <2>2. Inc(ds) = [slots |-> ds.slots, index |-> 0, turnaround |-> TRUE]
    BY <2>1 DEF StackOf
  <2>3. Inc(ds).turnaround = (ds.turnaround \/ ds.index + 1 = Len(ds.slots))
    <3>1. Inc(ds).turnaround = TRUE
      BY <2>2
    <3> QED
      BY <1>2, <3>1, Zenon
  <2>4. Inc(ds) \in StackOf(S) /\ Inc(ds).slots = ds.slots /\ Inc(ds).index = 0
    BY <1>1, <2>2 DEF StackOf
  <2> QED
    BY <1>2, <2>3, <2>4
<1>3. CASE ds.index + 1 # Len(ds.slots)
  <2>1. Inc(ds) = [ds EXCEPT !.index = ds.index + 1]
    BY <1>3 DEF Inc
  <2>2. Inc(ds) = [slots |-> ds.slots, index |-> ds.index + 1, turnaround |-> ds.turnaround]
    BY <2>1 DEF StackOf
  <2>3. ds.index + 1 \in Nat
    BY <1>1
  <2> QED
    BY <1>1, <1>3, <2>2, <2>3 DEF StackOf
<1> QED
  BY <1>2, <1>3

LEMMA StoreType ==
  ASSUME NEW S, NEW ds \in StackOf(S), NEW e \in S
  PROVE  /\ Store(ds, e) \in StackOf(S)
         /\ Len(Store(ds, e).slots) = Len(ds.slots)
         /\ Store(ds, e).index = IF ds.index + 1 = Len(ds.slots) THEN 0 ELSE ds.index + 1
         /\ Store(ds, e).turnaround = (ds.turnaround \/ ds.index + 1 = Len(ds.slots))
         /\ \A j \in 1 .. Len(ds.slots) :
              Store(ds, e).slots[j] = IF j = ds.index + 1 THEN e ELSE ds.slots[j]
<1> DEFINE put == IF InRange(ds) THEN [ds EXCEPT !.slots[ds.index + 1] = e] ELSE ds
<1>1. /\ put \in StackOf(S) /\ Len(put.slots) = Len(ds.slots)
      /\ put.index = ds.index /\ put.turnaround = ds.turnaround
      /\ \A j \in 1 .. Len(ds.slots) :
           put.slots[j] = IF j = ds.index + 1 THEN e ELSE ds.slots[j]
  <2>1. CASE InRange(ds)
    <3>1. ds.index + 1 \in 1 .. Len(ds.slots)
      BY <2>1, LenProperties DEF InRange, StackOf
    <3>2. put = [ds EXCEPT !.slots = [ds.slots EXCEPT ![ds.index + 1] = e]]
      BY <2>1 DEF StackOf
    <3>3. ds.slots \in Seq(S)
      BY DEF StackOf
    <3> DEFINE cells == [ds.slots EXCEPT ![ds.index + 1] = e]
    <3>4. cells \in Seq(S) /\ Len(cells) = Len(ds.slots)
          /\ \A j \in 1 .. Len(ds.slots) :
               cells[j] = IF j = ds.index + 1 THEN e ELSE ds.slots[j]
      BY <3>1, <3>3, ExceptSeq
    <3>5. put = [ds EXCEPT !.slots = cells]
      BY <3>2
    <3> HIDE DEF put, cells
    <3>6. put = [slots |-> cells, index |-> ds.index, turnaround |-> ds.turnaround]
      BY <3>5 DEF StackOf
    <3>7. ds.index \in Nat /\ ds.turnaround \in BOOLEAN
      BY DEF StackOf
    <3> QED
      BY <3>4, <3>6, <3>7 DEF StackOf
  <2>2. CASE ~InRange(ds)
    BY <2>2, LenProperties DEF InRange, StackOf
  <2> QED
    BY <2>1, <2>2
<1>2. Store(ds, e) = Inc(put)
  BY DEF Store
<1> HIDE DEF put
<1> QED
  BY <1>1, <1>2, IncType

-----------------------------------------------------------------------------
(* The window of the last samples.                                        *)

(* The window of a buffer whose write position is one of its cells. *)
Sound(ds) == IF Len(ds.slots) = 0 THEN ds.index = 0 ELSE InRange(ds)

LEMMA WindowType ==
  ASSUME NEW S, NEW ds \in StackOf(S), Sound(ds)
  PROVE  /\ Window(ds) \in Seq(S) /\ Len(Window(ds)) = Count(ds)
         /\ Count(ds) \in 0 .. Len(ds.slots) /\ Len(ds.slots) \in Nat /\ ds.index \in Nat
         /\ \A j \in 1 .. Count(ds) :
              Window(ds)[j] = IF ~ds.turnaround THEN ds.slots[j]
                              ELSE IF ds.index + j <= Len(ds.slots) THEN ds.slots[ds.index + j]
                              ELSE ds.slots[ds.index + j - Len(ds.slots)]
<1>1. /\ ds.slots \in Seq(S) /\ ds.index \in Nat /\ ds.turnaround \in BOOLEAN
      /\ Len(ds.slots) \in Nat
  BY LenProperties DEF StackOf
<1>2. Count(ds) \in 0 .. Len(ds.slots)
  BY <1>1 DEF Count, Sound, InRange
<1>3. \A j \in 1 .. Len(ds.slots) : ds.slots[j] \in S
  BY <1>1, ElementOfSeq
<1>4. ASSUME NEW j \in 1 .. Count(ds)
      PROVE  (IF ~ds.turnaround THEN ds.slots[j]
              ELSE IF ds.index + j <= Len(ds.slots) THEN ds.slots[ds.index + j]
              ELSE ds.slots[ds.index + j - Len(ds.slots)]) \in S
  <2>1. j \in Nat /\ 1 <= j /\ j <= Len(ds.slots)
    BY <1>1, <1>2
  <2>2. CASE ~ds.turnaround
    BY <1>3, <2>1, <2>2
  <2>3. CASE ds.turnaround /\ ds.index + j <= Len(ds.slots)
    <3>1. ds.index + j \in 1 .. Len(ds.slots)
      BY <1>1, <2>1, <2>3
    <3> QED
      BY <1>3, <2>3, <3>1
  <2>4. CASE ds.turnaround /\ ~(ds.index + j <= Len(ds.slots))
    <3>1. ds.index + j - Len(ds.slots) \in 1 .. Len(ds.slots)
      BY <1>1, <2>1, <2>4 DEF Sound, InRange
    <3> QED
      BY <1>3, <2>4, <3>1
  <2> QED
    BY <2>2, <2>3, <2>4
<1>5. Window(ds) \in [1 .. Count(ds) -> S]
  BY <1>4 DEF Window
<1>6. Window(ds) \in Seq(S) /\ Len(Window(ds)) = Count(ds)
  BY <1>2, <1>5, FcnIsSeq
<1> QED
  BY <1>1, <1>2, <1>6 DEF Window

(* A resize that the protocol allows leaves the window as it is. *)
LEMMA ResizeWindow ==
  ASSUME NEW S, Blank \in S, NEW ds \in StackOf(S), Sound(ds),
         NEW k \in Nat, HarmlessResize(ds, k)
  PROVE  /\ Sound(Resize(ds, k))
         /\ Window(Resize(ds, k)) = Window(ds)
         /\ Len(Window(ds)) <= k
<1> DEFINE es == Resize(ds, k)
<1>1. /\ es \in StackOf(S) /\ Len(es.slots) = k /\ es.index = ds.index
      /\ es.turnaround = ds.turnaround
      /\ \A j \in 1 .. k : es.slots[j] = IF j <= Len(ds.slots) THEN ds.slots[j] ELSE Blank
  BY ResizeType
<1>2. /\ Count(ds) \in 0 .. Len(ds.slots) /\ Len(ds.slots) \in Nat /\ ds.index \in Nat
      /\ Window(ds) \in Seq(S) /\ Len(Window(ds)) = Count(ds)
  BY WindowType
<1> HIDE DEF es
<1>3. Count(es) = Count(ds) /\ Count(ds) <= k /\ Sound(es)
  <2>1. CASE k = Len(ds.slots)
    BY <1>1, <1>2, <2>1 DEF Count, Sound, InRange
  <2>2. CASE ~ds.turnaround /\ (ds.index = 0 \/ k > ds.index)
    BY <1>1, <1>2, <2>2 DEF Count, Sound, InRange
  <2> QED
    BY <2>1, <2>2 DEF HarmlessResize
<1>4. Window(es) \in Seq(S) /\ Len(Window(es)) = Count(es)
  BY <1>1, <1>3, WindowType
<1>5. ASSUME NEW j \in 1 .. Count(ds)
      PROVE  Window(es)[j] = Window(ds)[j]
  <2>1. j \in 1 .. k /\ j \in 1 .. Len(ds.slots)
    BY <1>2, <1>3
  <2>2. CASE ~ds.turnaround
    BY <1>1, <1>3, <2>1, <2>2, WindowType
  <2>3. CASE ds.turnaround
    <3>1. k = Len(ds.slots)
      BY <2>3 DEF HarmlessResize
    <3>2. InRange(ds)
      BY <2>1, <1>2 DEF Sound
    <3>3. CASE ds.index + j <= Len(ds.slots)
      <4>1. ds.index + j \in 1 .. k
        BY <1>2, <2>1, <3>1, <3>3
      <4>2. es.slots[ds.index + j] = ds.slots[ds.index + j]
        BY <1>1, <3>3, <4>1
      <4> QED
        BY <1>1, <1>3, <2>3, <3>1, <3>3, <4>2, WindowType
    <3>4. CASE ~(ds.index + j <= Len(ds.slots))
      <4>1. ds.index + j - Len(ds.slots) \in 1 .. k
        BY <1>2, <2>1, <3>1, <3>2, <3>4 DEF InRange
      <4>2. es.slots[ds.index + j - Len(ds.slots)] = ds.slots[ds.index + j - Len(ds.slots)]
        BY <1>1, <3>1, <4>1
      <4> QED
        BY <1>1, <1>3, <2>3, <3>1, <3>4, <4>2, WindowType
    <3> QED
      BY <3>3, <3>4
  <2> QED
    BY <2>2, <2>3
<1>6. Window(es) = Window(ds)
  BY <1>2, <1>3, <1>4, <1>5, SeqEqual
<1> QED
  BY <1>2, <1>3, <1>6 DEF es

(* The remainder of a rotation. *)
LEMMA ModuloBelowTwice ==
  ASSUME NEW n \in Nat \ {0}, NEW a \in 0 .. 2 * n - 1
  PROVE  a % n = IF a < n THEN a ELSE a - n
OBVIOUS

(* The cells, in their order, are the window rotated. *)
LEMMA CellsRotated ==
  ASSUME NEW S, NEW ds \in StackOf(S), Sound(ds), Count(ds) # 0
  PROVE  \E k \in 0 .. Count(ds) - 1 : \A j \in 1 .. Count(ds) :
           ds.slots[j] = Window(ds)[((j - 1 + k) % Count(ds)) + 1]
<1> DEFINE n == Count(ds)
<1>1. /\ n \in 0 .. Len(ds.slots) /\ Len(ds.slots) \in Nat /\ ds.index \in Nat
      /\ \A j \in 1 .. n :
           Window(ds)[j] = IF ~ds.turnaround THEN ds.slots[j]
                           ELSE IF ds.index + j <= Len(ds.slots) THEN ds.slots[ds.index + j]
                           ELSE ds.slots[ds.index + j - Len(ds.slots)]
  BY WindowType
<1>2. n \in Nat \ {0}
  BY <1>1
<1>3. n = IF ds.turnaround THEN Len(ds.slots) ELSE ds.index
  BY DEF Count
<1> HIDE DEF n
<1>4. CASE ~ds.turnaround \/ ds.index = 0
  <2>1. ASSUME NEW j \in 1 .. n
        PROVE  ds.slots[j] = Window(ds)[((j - 1 + 0) % n) + 1]
    <3>1. j - 1 + 0 \in 0 .. 2 * n - 1 /\ j - 1 + 0 < n
      BY <1>2
    <3>2. (j - 1 + 0) % n = j - 1 + 0
      BY <1>2, <3>1, ModuloBelowTwice
    <3>3. ((j - 1 + 0) % n) + 1 = j
      BY <3>2
    <3>4. Window(ds)[j] = ds.slots[j]
      <4>1. CASE ~ds.turnaround
        BY <1>1, <4>1
      <4>2. CASE ds.turnaround
        <5>1. ds.index + j = j /\ j <= Len(ds.slots)
          BY <1>1, <1>4, <4>2
        <5> QED
          BY <1>1, <4>2, <5>1
      <4> QED
        BY <4>1, <4>2
    <3> QED
      BY <3>3, <3>4
  <2>2. 0 \in 0 .. n - 1
    BY <1>2
  <2> QED
    BY <2>1, <2>2 DEF n
<1>5. CASE ds.turnaround /\ ds.index # 0
  <2> DEFINE k == n - ds.index
  <2>1. n = Len(ds.slots) /\ ds.index \in 1 .. n - 1
    BY <1>1, <1>2, <1>3, <1>5 DEF Sound, InRange
  <2>2. k \in 0 .. n - 1
    BY <1>2, <2>1
  <2>3. ASSUME NEW j \in 1 .. n
        PROVE  ds.slots[j] = Window(ds)[((j - 1 + k) % n) + 1]
    <3>1. j - 1 + k \in 0 .. 2 * n - 1
      BY <1>2, <2>1
    <3>2. (j - 1 + k) % n = IF j - 1 + k < n THEN j - 1 + k ELSE (j - 1 + k) - n
      BY <1>2, <3>1, ModuloBelowTwice
    <3>3. CASE j <= ds.index
      <4>1. ((j - 1 + k) % n) + 1 = (j + n) - ds.index
        BY <1>2, <2>1, <3>2, <3>3
      <4>2. (j + n) - ds.index \in 1 .. n
        BY <1>2, <2>1, <3>3
      <4>3. /\ ds.index + ((j + n) - ds.index) = j + n
            /\ ds.index + ((j + n) - ds.index) - Len(ds.slots) = j
            /\ ~(j + n <= Len(ds.slots))
        BY <1>2, <2>1, <3>3
      <4>4. Window(ds)[(j + n) - ds.index] = ds.slots[j]
        BY <1>1, <1>5, <4>2, <4>3
      <4> QED
        BY <4>1, <4>4
    <3>4. CASE ~(j <= ds.index)
      <4>1. ((j - 1 + k) % n) + 1 = j - ds.index
        <5>1. ~(j - 1 + k < n) /\ ((j - 1 + k) - n) + 1 = j - ds.index
          BY <1>2, <2>1, <3>4
        <5> HIDE DEF k
        <5> QED
          BY <3>2, <5>1
      <4>2. j - ds.index \in 1 .. n
        BY <1>2, <2>1, <3>4
      <4>3. ds.index + (j - ds.index) = j /\ j <= Len(ds.slots)
        BY <1>2, <2>1
      <4>4. Window(ds)[j - ds.index] = ds.slots[j]
        BY <1>1, <1>5, <4>2, <4>3
      <4> QED
        BY <4>1, <4>4
    <3> QED
      BY <3>3, <3>4
  <2> HIDE DEF k
  <2> QED
    BY <2>2, <2>3 DEF n
<1> QED
  BY <1>4, <1>5
=============================================================================
