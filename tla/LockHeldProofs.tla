---------------------------- MODULE LockHeldProofs ----------------------------
(***************************************************************************)
(* Proofs that the ranges mean what they are for: the locks that cover an  *)
(* access are those held there.  For footprints of every size, any number  *)
(* of locks and any moves of the array, the ranges are exact up to the     *)
(* first else block; and a lock held on every path to an access covers it, *)
(* whatever the branches before did with the lock, for functions without   *)
(* nested or stray ifs, where the array is never moved.  Both conditions   *)
(* are needed: the runs ElseLostInNested and ElseLostByMove show what      *)
(* happens without.                                                        *)
(***************************************************************************)
EXTENDS LockHeld, LockRangesProofs, WellFoundedInduction

(* A set of naturals has a least element: what is proved below about the   *)
(* recursive functions is proved by looking at the first counterexample.   *)
LEMMA LeastNat ==
  ASSUME NEW T, T \subseteq Nat, T # {}
  PROVE  \E m \in T : \A n \in T : m <= n
<1> DEFINE R == OpToRel(<, Nat)
<1>1. PICK m \in T : \A n \in T : <<n, m>> \notin R
  BY NatLessThanWellFounded, WFMin
<1>2. ASSUME NEW n \in T PROVE m <= n
  <2>1. m \in Nat /\ n \in Nat
    OBVIOUS
  <2>2. ~(n < m)
    BY <1>1, <2>1 DEF OpToRel
  <2> QED
    BY <2>1, <2>2
<1> QED
  BY <1>2
-----------------------------------------------------------------------------
(* The walk along the lists                                                *)

Before(fs, i) == {j \in 1..(i - 1) : fs[j].next.idx = i}

OneOf(S) == CHOOSE j \in S : TRUE

(* What the recursion of ListOf says of list at index i.                   *)
ListStep(fs, list, i) ==
  IF fs[i].head THEN i
  ELSE IF Before(fs, i) = {} THEN 0 ELSE list[OneOf(Before(fs, i))]

LEMMA BeforeChoice ==
  ASSUME NEW fs, NEW i \in Nat, Before(fs, i) # {}
  PROVE  OneOf(Before(fs, i)) \in 1..(i - 1)
BY DEF Before, OneOf

(* The recursion has a solution, which gives naturals.                     *)
LEMMA ListExists ==
  ASSUME NEW fs, NEW n \in Nat
  PROVE  \E list \in [1..n -> Nat] : \A i \in 1..n : list[i] = ListStep(fs, list, i)
<1> DEFINE Solved(m) ==
             \E list \in [1..m -> Nat] : \A i \in 1..m : list[i] = ListStep(fs, list, i)
           Unsolved == {m \in Nat : ~Solved(m)}
<1> SUFFICES ASSUME Unsolved # {} PROVE FALSE
  OBVIOUS
<1>1. PICK m \in Unsolved : \A q \in Unsolved : m <= q
  BY LeastNat
<1>2. m # 0
  <2>1. [i \in 1..0 |-> 0] \in [1..0 -> Nat] /\ 1..0 = {}
    OBVIOUS
  <2>2. \E list \in [1..0 -> Nat] : \A i \in 1..0 : list[i] = ListStep(fs, list, i)
    BY <2>1
  <2> QED
    BY <2>2, <1>1
<1>3. m \in Nat /\ ~Solved(m) /\ m - 1 \in Nat /\ Solved(m - 1)
  <2> HIDE DEF Solved
  <2> QED
    BY <1>1, <1>2
<1>4. PICK list \in [1..(m - 1) -> Nat] :
        \A i \in 1..(m - 1) : list[i] = ListStep(fs, list, i)
  BY <1>3
<1> DEFINE longer == [i \in 1..m |-> IF i = m THEN ListStep(fs, list, m) ELSE list[i]]
<1>5. \A i \in 1..m : ListStep(fs, longer, i) = ListStep(fs, list, i)
  <2> TAKE i \in 1..m
  <2>1. \A j \in 1..(i - 1) : longer[j] = list[j]
    BY <1>1, <1>2
  <2> HIDE DEF longer
  <2> QED
    BY <2>1, BeforeChoice DEF ListStep
<1>6. ListStep(fs, list, m) \in Nat
  BY <1>4, BeforeChoice DEF ListStep
<1>7. longer \in [1..m -> Nat]
  <2>1. \A i \in 1..m : i # m => i \in 1..(m - 1)
    BY <1>3
  <2>2. \A i \in 1..(m - 1) : list[i] \in Nat
    BY <1>4
  <2> QED
    BY <2>1, <2>2, <1>6
<1>8. \A i \in 1..m : longer[i] = ListStep(fs, longer, i)
  <2>1. \A i \in 1..m : longer[i] = ListStep(fs, list, i)
    BY <1>1, <1>2, <1>4
  <2> HIDE DEF longer
  <2> QED
    BY <2>1, <1>5
<1> QED
  <2> HIDE DEF longer
  <2> QED
    BY <1>1, <1>7, <1>8

LEMMA ListOfIs ==
  ASSUME NEW n \in Nat, NEW fs, DOMAIN fs = 1..n
  PROVE  /\ ListOf(fs) \in [1..n -> Nat]
         /\ \A i \in 1..n : ListOf(fs)[i] = ListStep(fs, ListOf(fs), i)
<1> DEFINE Is(list) == list = [i \in DOMAIN fs |-> ListStep(fs, list, i)]
<1>1. PICK g \in [1..n -> Nat] : \A i \in 1..n : g[i] = ListStep(fs, g, i)
  BY ListExists
<1>2. Is(g)
  BY <1>1
<1>3. ListOf(fs) = CHOOSE list : Is(list)
  BY DEF ListOf, ListStep, Before, OneOf
<1>4. Is(ListOf(fs))
  <2> HIDE DEF Is
  <2> QED
    BY <1>2, <1>3
<1>5. \A i \in 1..n : ListOf(fs)[i] = ListStep(fs, ListOf(fs), i)
  BY <1>4
<1>6. \A i \in 1..n : ListOf(fs)[i] = g[i]
  <2> DEFINE Differ == {i \in 1..n : ListOf(fs)[i] # g[i]}
  <2> SUFFICES ASSUME Differ # {} PROVE FALSE
    OBVIOUS
  <2>1. PICK i \in Differ : \A j \in Differ : i <= j
    <3>1. Differ \subseteq Nat
      OBVIOUS
    <3> HIDE DEF Differ
    <3> QED
      BY <3>1, LeastNat
  <2>2. \A j \in 1..(i - 1) : ListOf(fs)[j] = g[j]
    BY <2>1
  <2>3. ListStep(fs, ListOf(fs), i) = ListStep(fs, g, i)
    BY <2>1, <2>2, BeforeChoice DEF ListStep
  <2> QED
    BY <2>1, <2>3, <1>1, <1>5
<1>7. ListOf(fs) \in [1..n -> Nat]
  BY <1>1, <1>4, <1>6
<1> QED
  BY <1>5, <1>7

(* Where two arrays have the same heads and successors, the lists are the  *)
(* same.                                                                   *)
LEMMA ListOfSame ==
  ASSUME NEW n \in Nat, NEW m \in Nat, n <= m,
         NEW fs, DOMAIN fs = 1..n, NEW gs, DOMAIN gs = 1..m,
         \A i \in 1..n : /\ gs[i].head = fs[i].head
                         /\ Before(gs, i) = Before(fs, i)
  PROVE  \A i \in 1..n : ListOf(gs)[i] = ListOf(fs)[i]
<1> DEFINE Differ == {i \in 1..n : ListOf(gs)[i] # ListOf(fs)[i]}
<1> SUFFICES ASSUME Differ # {} PROVE FALSE
  OBVIOUS
<1>1. PICK i \in Differ : \A j \in Differ : i <= j
  <2>1. Differ \subseteq Nat
    OBVIOUS
  <2> HIDE DEF Differ
  <2> QED
    BY <2>1, LeastNat
<1>2. \A j \in 1..(i - 1) : ListOf(gs)[j] = ListOf(fs)[j]
  BY <1>1
<1>3. ListStep(gs, ListOf(gs), i) = ListStep(fs, ListOf(fs), i)
  <2>1. i \in Nat /\ Before(gs, i) = Before(fs, i) /\ gs[i].head = fs[i].head
    BY <1>1
  <2>2. Before(fs, i) # {} => OneOf(Before(fs, i)) \in 1..(i - 1)
    BY <2>1, BeforeChoice
  <2> QED
    BY <2>1, <2>2, <1>2 DEF ListStep
<1> QED
  BY <1>1, <1>3, ListOfIs
-----------------------------------------------------------------------------
(* What a scan step does to the array                                      *)

SameField(f, g) ==
  SameRange(f, g) /\ g.hash = f.hash /\ g.head = f.head /\ g.depth = f.depth

(* An element of an array of n stays where it is; it may be ended, not     *)
(* before the position scanned, and linked to the element appended.        *)
KeptField(f, g, n) ==
  /\ g.hash = f.hash /\ g.head = f.head /\ g.start = f.start
  /\ g.end = f.end \/ (f.end = SizeMax /\ pos <= g.end)
  /\ g.next.idx = f.next.idx \/ (f.next = NoPtr /\ g.next.idx = n + 1)

OldKept ==
  /\ Size' \in {Size, Size + 1}
  /\ \A i \in 1..Size : KeptField(fields[i], fields'[i], Size)

NewBehind == Size' = Size + 1 => pos <= fields'[Size + 1].start

LEMMA RebaseSame ==
  ASSUME NEW f \in Field
  PROVE  /\ Rebase(f).hash = f.hash /\ Rebase(f).head = f.head
         /\ Rebase(f).depth = f.depth
<1>1. CASE f.next = NoPtr
  BY <1>1 DEF Rebase
<1>2. CASE f.next # NoPtr
  <2>1. Rebase(f) = [f EXCEPT !.next = [f.next EXCEPT !.buf = @ + 1]]
    BY <1>2 DEF Rebase
  <2> QED
    BY <2>1 DEF Field
<1> QED
  BY <1>1, <1>2

LEMMA RebasedSameField ==
  ASSUME IInv, NEW moved \in BOOLEAN, NEW i \in 1..Size
  PROVE  SameField(fields[i], Rebased(moved)[i])
<1>1. fields[i] \in Field /\ i \in DOMAIN fields
  BY FieldFacts
<1> QED
  BY <1>1, RebasedSame, RebaseSame DEF Rebased, SameField

(* add_lock_protection_field                                               *)
LEMMA AcquireFacts ==
  ASSUME IInv, AcquireLock
  PROVE  /\ Size' = Size + 1
         /\ \A i \in 1..Size : SameField(fields[i], fields'[i])
         /\ fields'[Size + 1] = NewField(footprint[pos].usr)
<1>1. PICK moved \in Outcomes(FieldArrayFull) :
        fields' = Append(Rebased(moved), NewField(footprint[pos].usr))
  BY DEF AcquireLock, add_lock_protection_field
<1>2. moved \in BOOLEAN
  BY <1>1, LockRangesAssumption DEF Outcomes
<1>3. /\ Len(fields') = Size + 1
      /\ fields'[Size + 1] = NewField(footprint[pos].usr)
      /\ \A i \in 1..Size : fields'[i] = Rebased(moved)[i]
  BY <1>1, <1>2, RebasedFacts, FieldFacts
<1> QED
  BY <1>2, <1>3, RebasedSameField DEF Size

(* add_lock_protection_copy: where the array was moved, the source is left *)
(* as it was; where it was not, the copy is of the lock of its source.     *)
LEMMA CopyFacts ==
  ASSUME IInv, k \in 1..Size, start \in 1..MaxLen, fields[k].next = NoPtr,
         NEW source \in Field, add_lock_protection_copy(source)
  PROVE  /\ Size' = Size + 1
         /\ \A i \in 1..Size : i # k => SameField(fields[i], fields'[i])
         /\ \/ SameField(fields[k], fields'[k])
            \/ fields'[k] = source /\ fields'[Size + 1].hash = fields[k].hash
         /\ TRUE \notin Moves =>
              fields'[k] = source /\ fields'[Size + 1].hash = fields[k].hash
         /\ fields'[Size + 1].start = start /\ fields'[Size + 1].end = SizeMax
         /\ fields'[Size + 1].next = NoPtr /\ fields'[Size + 1].head = FALSE
<1> DEFINE full == Len(fields) >= capacity - 1
           kept(moved) == IF moved THEN Rebased(TRUE)
                          ELSE [fields EXCEPT ![k] = source]
<1>0. PICK moved \in Outcomes(full) : \E read \in Readings(moved) :
        fields' = Append(kept(moved), RangeCopy(read, source))
  BY DEF add_lock_protection_copy
<1>1. PICK read \in Readings(moved) :
        fields' = Append(kept(moved), RangeCopy(read, source))
  BY <1>0
<1>2. /\ Size \in Nat /\ DOMAIN fields = 1..Size /\ moved \in BOOLEAN
      /\ \A i \in 1..Size : fields[i] \in Field
  BY <1>0, FieldFacts, LockRangesAssumption DEF Outcomes
<1>3. /\ RangeCopy(read, source) \in Field /\ RangeCopy(read, source).start = start
      /\ RangeCopy(read, source).next = NoPtr /\ RangeCopy(read, source).end = SizeMax
      /\ RangeCopy(read, source).head = FALSE
      /\ ~moved => RangeCopy(read, source).hash = fields[k].hash
  <2>1. /\ read \in Field
        /\ ~moved => read.hash = fields[k].hash
    <3>1. fields[k] \in Field
      BY <1>2
    <3>2. CASE ~moved
      <4>1. read = fields[k]
        BY <3>2, <1>1 DEF Readings
      <4> QED
        BY <4>1, <3>1
    <3>3. CASE moved
      <4>1. PICK f \in Leftovers \cup {fields[k]} :
              read = [fields[k] EXCEPT !.hash = f.hash, !.depth = f.depth]
        <5>1. fields[k] = [fields[k] EXCEPT !.hash = fields[k].hash, !.depth = fields[k].depth]
          BY <3>1 DEF Field
        <5> QED
          BY <5>1, <1>1 DEF Readings
      <4>2. f.hash \in Nat /\ f.depth \in 0..SizeMax
        BY <3>1, LockRangesAssumption DEF Field
      <4> QED
        BY <4>1, <4>2, <3>1, <3>3 DEF Field
    <3> QED
      BY <3>2, <3>3, <1>2
  <2> QED
    BY <2>1, NoPtrType, LockRangesAssumption DEF RangeCopy, Field
<1>4. kept(moved) \in Seq(Field) /\ Len(kept(moved)) = Size
  <2>1. CASE moved
    BY <2>1, RebasedFacts
  <2>2. CASE ~moved
    <3>1. kept(moved) \in [1..Size -> Field]
      BY <1>2, <2>2
    <3> HIDE DEF kept
    <3> QED
      BY <1>2, <3>1, SeqFrom
  <2> QED
    BY <1>2, <2>1, <2>2
<1>5. /\ \A i \in 1..Size : i # k => SameField(fields[i], kept(moved)[i])
      /\ SameField(fields[k], kept(moved)[k]) \/ (~moved /\ kept(moved)[k] = source)
      /\ TRUE \notin Moves => ~moved /\ kept(moved)[k] = source
  <2>1. CASE moved
    <3>1. TRUE \in Moves
      BY <1>0, <2>1 DEF Outcomes
    <3> QED
      BY <2>1, <3>1, RebasedSameField
  <2>2. CASE ~moved
    BY <2>2, <1>2 DEF SameField, SameRange
  <2> QED
    BY <2>1, <2>2, <1>2
<1>6. /\ Len(fields') = Size + 1 /\ fields'[Size + 1] = RangeCopy(read, source)
      /\ \A i \in 1..Size : fields'[i] = kept(moved)[i]
  <2> HIDE DEF kept
  <2> QED
    BY <1>1, <1>2, <1>3, <1>4, AppendFacts
<1> QED
  <2> HIDE DEF kept
  <2> QED
    BY <1>3, <1>5, <1>6 DEF Size

(* add_protection_range_fields_active on one open element.                 *)
LEMMA SplitFacts ==
  ASSUME IInv, SplitOpenRange
  PROVE  /\ Size' = Size + 1
         /\ k \in 1..Size /\ IsOpen(k) /\ fields[k].next = NoPtr
         /\ \A i \in 1..Size : i # k => SameField(fields[i], fields'[i])
         /\ \/ SameField(fields[k], fields'[k])
            \/ /\ fields'[k].hash = fields[k].hash
               /\ fields'[k].head = fields[k].head
               /\ fields'[k].start = fields[k].start
               /\ fields'[k].end = start
               /\ fields'[k].next.idx = Size + 1
               /\ fields'[Size + 1].hash = fields[k].hash
         /\ TRUE \notin Moves => /\ fields'[k].next.idx = Size + 1
                                /\ fields'[Size + 1].hash = fields[k].hash
         /\ fields'[Size + 1].start = start /\ fields'[Size + 1].end = SizeMax
         /\ fields'[Size + 1].next = NoPtr /\ fields'[Size + 1].head = FALSE
<1> DEFINE source == [fields[k] EXCEPT !.next = NextPtr, !.end = start, !.depth = depth]
<1>1. /\ pc = "active" /\ k <= LoopBound /\ fields[k].end = SizeMax
      /\ add_lock_protection_copy(source)
  BY DEF SplitOpenRange, InLoop, IsOpen
<1>2. /\ k \in 1..Size /\ start \in 1..MaxLen
      /\ fields[k] \in Field /\ GoodField(fields[k], k, Size, buffer)
      /\ NextPtr \in [buf : Nat, idx : Nat]
  BY <1>1, InLoopFacts
<1>3. fields[k].next = NoPtr
  BY <1>1, <1>2 DEF GoodField
<1>4. /\ source \in Field /\ source.next.idx = Size + 1 /\ source.end = start
      /\ source.hash = fields[k].hash /\ source.head = fields[k].head
      /\ source.start = fields[k].start
  BY <1>2 DEF IInv, Field, NextPtr, Size
<1> HIDE DEF source
<1> QED
  BY <1>1, <1>2, <1>3, <1>4, CopyFacts DEF IsOpen

(* add_protection_range_fields_inactive on one element it selects.         *)
LEMMA ReopenFacts ==
  ASSUME IInv, ReopenEndedRange
  PROVE  /\ Size' = Size + 1
         /\ k \in 1..Size /\ ~IsOpen(k) /\ fields[k].next = NoPtr
         /\ \A i \in 1..Size : i # k => SameField(fields[i], fields'[i])
         /\ \/ SameField(fields[k], fields'[k])
            \/ /\ fields'[k].hash = fields[k].hash
               /\ fields'[k].head = fields[k].head
               /\ fields'[k].start = fields[k].start
               /\ fields'[k].end = fields[k].end
               /\ fields'[k].next.idx = Size + 1
               /\ fields'[Size + 1].hash = fields[k].hash
         /\ TRUE \notin Moves => /\ fields'[k].next.idx = Size + 1
                                /\ fields'[Size + 1].hash = fields[k].hash
         /\ fields'[Size + 1].start = start /\ fields'[Size + 1].end = SizeMax
         /\ fields'[Size + 1].next = NoPtr /\ fields'[Size + 1].head = FALSE
<1> DEFINE source == [fields[k] EXCEPT !.next = NextPtr]
<1>1. /\ pc = "inactive" /\ k <= LoopBound /\ ~IsOpen(k) /\ fields[k].next = NoPtr
      /\ add_lock_protection_copy(source)
  BY DEF ReopenEndedRange, InLoop, SelectedInactive
<1>2. /\ k \in 1..Size /\ start \in 1..MaxLen
      /\ fields[k] \in Field
      /\ NextPtr \in [buf : Nat, idx : Nat]
  BY <1>1, InLoopFacts
<1>3. /\ source \in Field /\ source.next.idx = Size + 1 /\ source.end = fields[k].end
      /\ source.hash = fields[k].hash /\ source.head = fields[k].head
      /\ source.start = fields[k].start
  BY <1>2 DEF Field, NextPtr, Size
<1> HIDE DEF source
<1> QED
  BY <1>1, <1>2, <1>3, CopyFacts

(* set_protection_range_end: the open elements of the lock, which are the  *)
(* last of their lists, end here.                                          *)
LEMMA ReleaseFacts ==
  ASSUME IInv, ReleaseLock
  PROVE  /\ Size' = Size
         /\ \A i \in 1..Size :
              IF IsOpen(i) /\ fields[i].hash = LockHash[footprint[pos].usr]
              THEN /\ fields'[i].hash = fields[i].hash
                   /\ fields'[i].head = fields[i].head
                   /\ fields'[i].start = fields[i].start
                   /\ fields'[i].end = pos
                   /\ fields'[i].next = fields[i].next
              ELSE fields'[i] = fields[i]
<1> DEFINE l == footprint[pos].usr
           open == {j \in DOMAIN fields : IsOpen(j) /\ fields[j].hash = LockHash[l]}
<1>1. /\ Size \in Nat /\ DOMAIN fields = 1..Size
      /\ \A i \in 1..Size : fields[i] \in Field /\ GoodField(fields[i], i, Size, buffer)
  BY FieldFacts DEF IInv, FieldsGood
<1>2. \A i \in open : i \in 1..Size /\ fields[i].next = NoPtr
  BY <1>1 DEF GoodField, IsOpen
<1>3. {ListEnd(i) : i \in open} = open
  BY <1>2 DEF ListEnd
<1>4. fields' = [i \in 1..Size |-> IF i \in open THEN [fields[i] EXCEPT !.end = pos]
                                   ELSE fields[i]]
  BY <1>1, <1>3 DEF ReleaseLock, set_protection_range_end
<1>5. ASSUME NEW i \in 1..Size
      PROVE  IF i \in open
             THEN /\ fields'[i].hash = fields[i].hash
                  /\ fields'[i].head = fields[i].head
                  /\ fields'[i].start = fields[i].start
                  /\ fields'[i].end = pos
                  /\ fields'[i].next = fields[i].next
             ELSE fields'[i] = fields[i]
  <2> HIDE DEF open
  <2>1. fields[i] \in Field
    BY <1>1
  <2> QED
    BY <2>1, <1>4 DEF Field
<1>6. Size' = Size
  <2> HIDE DEF open
  <2>1. fields' \in Seq(Field) /\ \A i \in 1..Size : i \in 1..Len(fields')
    BY ReleaseKept DEF ArrayKept, Size
  <2>2. \A i \in 1..Size : fields'[i] \in Field
    BY <2>1, ElementOfSeq
  <2>3. fields' \in [1..Size -> Field]
    BY <1>4, <2>2
  <2> QED
    BY <1>1, <2>3, SeqFrom DEF Size
<1> QED
  BY <1>1, <1>5, <1>6
(* A scan step keeps the elements there are where they are, and what it    *)
(* ends or starts lies at the position scanned or ahead.                   *)
LEMMA ScanKept ==
  ASSUME IInv, OrderInv, Scan, pc = "active" => pos <= start
  PROVE  OldKept /\ NewBehind
<1>1. /\ Size \in Nat /\ pos \in Nat
      /\ \A i \in 1..Size : fields[i] \in Field /\ GoodField(fields[i], i, Size, buffer)
  BY FieldFacts DEF IInv, FieldsGood
<1> USE DEF KeptField, SameField, SameRange, OldKept, NewBehind
<1>2. CASE AcquireLock
  BY <1>1, <1>2, AcquireFacts DEF NewField
<1>3. CASE ReleaseLock
  BY <1>1, <1>3, ReleaseFacts DEF IsOpen
<1>4. CASE SplitOpenRange
  <2>1. pos <= start
    BY <1>4 DEF SplitOpenRange, InLoop
  <2> QED
    BY <1>1, <1>4, <2>1, SplitFacts DEF IsOpen
<1>5. CASE ReopenEndedRange
  <2>1. pos <= start
    BY <1>1, <1>5 DEF ReopenEndedRange, InLoop, OrderInv
  <2> QED
    BY <1>1, <1>5, <2>1, ReopenFacts
<1>6. CASE UNCHANGED fields
  BY <1>1, <1>6 DEF Size
<1> QED
  BY <1>2, <1>3, <1>4, <1>5, <1>6
  DEF Scan, BeginIf, BeginElse, StartLoop, EndIf, SkipEntry, NextField, EndLoop,
      FinishScan, array

(* Links are made to the element appended only, so the list an element     *)
(* belongs to never changes.                                               *)
LEMMA ListsKept ==
  ASSUME IInv, IInv', OldKept
  PROVE  \A i \in 1..Size : ListOf(fields')[i] = ListOf(fields)[i]
<1>1. /\ Size \in Nat /\ DOMAIN fields = 1..Size
      /\ Size' \in Nat /\ DOMAIN fields' = 1..Size' /\ Size <= Size'
  BY FieldFacts DEF OldKept, IInv, Size
<1>2. \A i \in 1..Size : /\ fields'[i].head = fields[i].head
                         /\ Before(fields', i) = Before(fields, i)
  <2> TAKE i \in 1..Size
  <2>1. \A j \in 1..(i - 1) : fields'[j].next.idx = i <=> fields[j].next.idx = i
    <3> TAKE j \in 1..(i - 1)
    <3>1. KeptField(fields[j], fields'[j], Size)
      BY <1>1 DEF OldKept
    <3> QED
      BY <3>1, <1>1 DEF KeptField, NoPtr
  <2> QED
    BY <2>1 DEF Before, OldKept, KeptField
<1> QED
  BY <1>1, <1>2, ListOfSame

(* lp_cond_prot never holds where an open range has no successor.          *)
LEMMA CoverOf ==
  ASSUME NEW n \in Nat, NEW fs, DOMAIN fs = 1..n, NEW p \in Nat,
         \A i \in 1..n : fs[i].end = SizeMax => fs[i].next = NoPtr
  PROVE  \A l \in Locks :
           l \in CoveringLocks(fs, p) <=>
             \E i \in 1..n : /\ ListOf(fs)[i] # 0
                            /\ fs[i].start < p /\ p < fs[i].end
                            /\ fs[i].hash = LockHash[l]
<1>1. get_lp_fields_in_range(fs, p) =
        {i \in 1..n : ListOf(fs)[i] # 0 /\ fs[i].start < p /\ p < fs[i].end}
  BY DEF get_lp_fields_in_range
<1> QED
  BY <1>1 DEF CoveringLocks

LEMMA CoverIs ==
  ASSUME IInv, NEW p \in Nat
  PROVE  \A l \in Locks :
           l \in CoveringLocks(fields, p) <=>
             \E i \in 1..Size : /\ ListOf(fields)[i] # 0
                            /\ fields[i].start < p /\ p < fields[i].end
                            /\ fields[i].hash = LockHash[l]
<1>1. /\ Size \in Nat /\ DOMAIN fields = 1..Size
      /\ \A i \in 1..Size : fields[i].end = SizeMax => fields[i].next = NoPtr
  BY FieldFacts DEF IInv, FieldsGood, GoodField
<1> DEFINE covers(l, fs, n) ==
      \E i \in 1..n : /\ ListOf(fs)[i] # 0
                     /\ fs[i].start < p /\ p < fs[i].end
                     /\ fs[i].hash = LockHash[l]
<1>2. \A n \in Nat : \A fs :
        /\ DOMAIN fs = 1..n
        /\ \A i \in 1..n : fs[i].end = SizeMax => fs[i].next = NoPtr
        => \A l \in Locks : l \in CoveringLocks(fs, p) <=> covers(l, fs, n)
  BY CoverOf
<1>3. \A l \in Locks : l \in CoveringLocks(fields, p) <=> covers(l, fields, Size)
  <2> HIDE DEF covers
  <2> QED
    BY <1>1, <1>2
<1> QED
  BY <1>3

(* What covers a position behind the scan is final.                        *)
LEMMA CoverKept ==
  ASSUME IInv, IInv', OldKept, NewBehind, UNCHANGED footprint,
         NEW p \in DOMAIN footprint, p < pos
  PROVE  CoveringLocks(fields, p)' = CoveringLocks(fields, p)
<1>1. /\ Size \in Nat /\ Size' \in Nat /\ pos \in Nat
      /\ \A i \in 1..Size : fields[i].start \in Nat /\ fields[i].end \in Nat
      /\ \A i \in 1..Size' : fields'[i].start \in Nat /\ fields'[i].end \in Nat
  <2>1. \A f \in Field : f.start \in Nat
    BY FootprintAssumption DEF Field
  <2>2. /\ Size \in Nat /\ pos \in Nat /\ \A i \in 1..Size : fields[i] \in Field
    BY FieldFacts DEF IInv
  <2>3. fields' \in Seq(Field)
    BY DEF IInv
  <2>4. Size' \in Nat /\ \A i \in 1..Size' : fields'[i] \in Field
    BY <2>3, LenProperties, ElementOfSeq DEF Size
  <2> QED
    BY <2>1, <2>2, <2>4, FieldEnd
<1>2. p \in Nat /\ p < SizeMax
  BY LockRangesAssumption, FootprintAssumption, LenProperties
  DEF IInv, FootprintInv, FootprintTypeOK
<1> DEFINE Covers(i, l) == /\ ListOf(fields)[i] # 0
                           /\ fields[i].start < p /\ p < fields[i].end
                           /\ fields[i].hash = LockHash[l]
<1>3. ASSUME NEW l \in Locks, NEW i \in 1..Size
      PROVE  /\ i \in 1..Size'
             /\ Covers(i, l)' <=> Covers(i, l)
  <2>1. ListOf(fields')[i] = ListOf(fields)[i] /\ KeptField(fields[i], fields'[i], Size)
        /\ i \in 1..Size'
    BY <1>1, ListsKept DEF OldKept
  <2>2. p < fields'[i].end <=> p < fields[i].end
    BY <2>1, <1>1, <1>2 DEF KeptField
  <2> QED
    BY <2>1, <2>2 DEF KeptField
<1>4. ASSUME NEW l \in Locks, NEW i \in 1..Size', i \notin 1..Size
      PROVE  ~Covers(i, l)'
  <2>1. i = Size + 1 /\ Size' = Size + 1
    BY <1>1, <1>4 DEF OldKept
  <2>2. pos <= fields'[i].start
    BY <2>1 DEF NewBehind
  <2> QED
    BY <2>2, <1>1, <1>2
<1>5. \A l \in Locks : l \in CoveringLocks(fields, p) <=> \E i \in 1..Size : Covers(i, l)
  BY <1>2, CoverIs
<1>6. \A l \in Locks :
        l \in CoveringLocks(fields', p) <=> \E i \in 1..Size' : Covers(i, l)'
  <2>1. fields' \in Seq(Field) /\ FieldsGood'
    BY DEF IInv
  <2>2. /\ p \in Nat /\ Size' \in Nat /\ DOMAIN fields' = 1..Size'
        /\ \A i \in 1..Size' : fields'[i].end = SizeMax => fields'[i].next = NoPtr
    BY <2>1, <1>1, <1>2, LenProperties DEF FieldsGood, GoodField, Size
  <2>3. \A l \in Locks :
          l \in CoveringLocks(fields', p) <=>
            \E i \in 1..Size' : /\ ListOf(fields')[i] # 0
                               /\ fields'[i].start < p /\ p < fields'[i].end
                               /\ fields'[i].hash = LockHash[l]
    <3> HIDE DEF Covers
    <3> QED
      BY <2>2, CoverOf
  <2> QED
    BY <2>3
<1> HIDE DEF Covers
<1>7. \A l \in Locks : l \in CoveringLocks(fields', p) <=> l \in CoveringLocks(fields, p)
  BY <1>3, <1>4, <1>5, <1>6
<1> QED
  BY <1>7 DEF CoveringLocks
-----------------------------------------------------------------------------
(* Up to the first else block                                              *)

(* The first then block after an if the scan has reached, where its ranges *)
(* start again.                                                            *)
CondAhead(fp, n, x) ==
  /\ x \in DOMAIN fp /\ n <= x /\ fp[x].type = "ThenBlock"
  /\ \E q \in 1..n : /\ q < x /\ fp[q].type = "IfStmt"
                     /\ \A r \in q..(x - 1) : fp[r].type # "ThenBlock"

Near(fp, n, x) == x < n \/ CondAhead(fp, n, x)

OpenFor(l) ==
  \E i \in 1..Size : /\ ListOf(fields)[i] # 0 /\ fields[i].end = SizeMax
                     /\ fields[i].hash = LockHash[l]

Boundaries ==
  \A i \in 1..Size : /\ Near(footprint, pos, fields[i].start)
                     /\ fields[i].end # SizeMax => Near(footprint, pos, fields[i].end)

HeldAreOpen ==
  \A l \in Locks : l \in HeldStraight(footprint, pos) <=> OpenFor(l)

(* Where the control is.                                                   *)
LoopAt ==
  /\ pc = "active" => footprint[pos].type = "IfStmt" /\ CondAhead(footprint, pos, start)
  /\ pc = "inactive" => footprint[pos].type = "ElseStmt"
  /\ pc = "done" => pos > Len(footprint)
  /\ pc = "visit" => pos = 1 /\ fields = <<>>

(* Before every else block a range starts and ends behind the scan or where*)
(* a condition the scan is in ends, and the open ranges that a walk reaches*)
(* are those of the locks held.                                            *)
FrontInv ==
  pc \notin {"visit", "inactive"} /\ ~AfterElse(footprint, pos) =>
    Boundaries /\ HeldAreOpen

ExactAt(p) ==
  ~AfterElse(footprint, p) /\ ~InCondition(footprint, p) =>
    CoveringLocks(fields, p) = HeldStraight(footprint, p)

ExactBehind == \A p \in Accesses(footprint) : p < pos => ExactAt(p)

ScanInv == LoopAt /\ FrontInv /\ ExactBehind

(* The locks held after one more entry.                                    *)
LEMMA HeldStep ==
  ASSUME NEW fp, NEW p \in Nat \ {0}, NEW l \in Locks
  PROVE  l \in HeldStraight(fp, p + 1) <=>
           \/ Calls(fp, p, "LockAcquire", l)
           \/ l \in HeldStraight(fp, p) /\ ~Calls(fp, p, "LockRelease", l)
<1>1. ASSUME l \in HeldStraight(fp, p + 1)
      PROVE  \/ Calls(fp, p, "LockAcquire", l)
             \/ l \in HeldStraight(fp, p) /\ ~Calls(fp, p, "LockRelease", l)
  <2>1. PICK q \in 1..p : /\ Calls(fp, q, "LockAcquire", l)
                          /\ \A r \in (q + 1)..p : ~Calls(fp, r, "LockRelease", l)
    BY <1>1 DEF HeldStraight
  <2>2. CASE q = p
    BY <2>1, <2>2
  <2>3. CASE q # p
    <3>1. q \in 1..(p - 1) /\ \A r \in (q + 1)..(p - 1) : r \in (q + 1)..p
      BY <2>3
    <3>2. p \in (q + 1)..p
      BY <2>3
    <3> QED
      BY <2>1, <3>1, <3>2 DEF HeldStraight
  <2> QED
    BY <2>2, <2>3
<1>2. ASSUME Calls(fp, p, "LockAcquire", l) PROVE l \in HeldStraight(fp, p + 1)
  BY <1>2 DEF HeldStraight
<1>3. ASSUME l \in HeldStraight(fp, p), ~Calls(fp, p, "LockRelease", l)
      PROVE  l \in HeldStraight(fp, p + 1)
  <2>1. PICK q \in 1..(p - 1) :
          /\ Calls(fp, q, "LockAcquire", l)
          /\ \A r \in (q + 1)..(p - 1) : ~Calls(fp, r, "LockRelease", l)
    BY <1>3 DEF HeldStraight
  <2>2. \A r \in (q + 1)..p : ~Calls(fp, r, "LockRelease", l)
    BY <1>3, <2>1
  <2> QED
    BY <2>1, <2>2 DEF HeldStraight
<1> QED
  BY <1>1, <1>2, <1>3

(* The positions and types the scan works on.                              *)
LEMMA ScanTypes ==
  ASSUME IInv
  PROVE  /\ Len(footprint) \in Nat /\ DOMAIN footprint = 1..Len(footprint)
         /\ \A p \in 1..Len(footprint) : footprint[p] \in VarAccess
         /\ Len(footprint) < SizeMax /\ SizeMax \in Nat /\ pos \in Nat \ {0}
         /\ Size \in Nat /\ DOMAIN fields = 1..Size
         /\ \A i \in 1..Size : fields[i].start \in Nat /\ fields[i].end \in Nat
         /\ \A i \in 1..Size : GoodField(fields[i], i, Size, buffer)
<1>1. \A f \in Field : f.start \in Nat
  BY FootprintAssumption DEF Field
<1>2. Size \in Nat /\ DOMAIN fields = 1..Size /\ \A i \in 1..Size : fields[i] \in Field
  BY FieldFacts
<1>3. footprint \in Seq(VarAccess) /\ Len(footprint) <= MaxLen
  BY DEF IInv, FootprintInv, FootprintTypeOK
<1>4. SizeMax \in Nat /\ MaxLen \in Nat /\ MaxLen < SizeMax
  BY LockRangesAssumption, FootprintAssumption
<1> QED
  BY <1>1, <1>2, <1>3, <1>4, FieldEnd, LenProperties, ElementOfSeq DEF IInv, FieldsGood

(* Exactness at the position scanned.                                      *)
LEMMA ExactHere ==
  ASSUME IInv, Boundaries, HeldAreOpen, pos \in Accesses(footprint),
         ~InCondition(footprint, pos)
  PROVE  CoveringLocks(fields, pos) = HeldStraight(footprint, pos)
<1>1. /\ pos \in 1..Len(footprint) /\ footprint[pos].type = "Access" /\ pos < SizeMax
      /\ Size \in Nat /\ SizeMax \in Nat /\ pos \in Nat
      /\ \A i \in 1..Size : fields[i].start \in Nat /\ fields[i].end \in Nat
  BY ScanTypes DEF Accesses
<1>2. ASSUME NEW x \in Nat, Near(footprint, pos, x) PROVE x < pos
  <2> SUFFICES ASSUME CondAhead(footprint, pos, x) PROVE FALSE
    BY <1>2 DEF Near
  <2>1. PICK q \in 1..pos : /\ q < x /\ footprint[q].type = "IfStmt"
                            /\ \A r \in q..(x - 1) : footprint[r].type # "ThenBlock"
    BY DEF CondAhead
  <2>2. x # pos /\ pos <= x /\ footprint[pos].type # "ThenBlock"
    BY <1>1 DEF CondAhead
  <2>3. q \in 1..(pos - 1) /\ \A r \in q..pos : r \in q..(x - 1)
    BY <2>1, <2>2, <1>1
  <2> QED
    BY <2>1, <2>3 DEF InCondition
<1>3. \A i \in 1..Size :
        (fields[i].start < pos /\ pos < fields[i].end) <=> fields[i].end = SizeMax
  BY <1>1, <1>2 DEF Boundaries
<1>4. \A l \in Locks : l \in CoveringLocks(fields, pos) <=> OpenFor(l)
  BY <1>1, <1>3, CoverIs DEF OpenFor
<1> QED
  BY <1>4 DEF HeldAreOpen, CoveringLocks, HeldStraight

LEMMA NearStays ==
  ASSUME IInv, pos' \in {pos, pos + 1}, UNCHANGED footprint, NEW x \in Nat, Near(footprint, pos, x)
  PROVE  Near(footprint', pos', x)
<1>1. pos \in Nat
  BY DEF IInv
<1>2. CASE CondAhead(footprint, pos, x) /\ pos' <= x
  BY <1>1, <1>2 DEF CondAhead, Near
<1> QED
  BY <1>1, <1>2 DEF Near, CondAhead
(* The list of the element appended: its own for a lock call, that of the  *)
(* source for a copy, none for a copy whose source was not written.        *)
LEMMA NewInList ==
  ASSUME IInv, IInv', OldKept, Size' = Size + 1
  PROVE  /\ fields'[Size + 1].head => ListOf(fields')[Size + 1] = Size + 1
         /\ \A i \in 1..Size :
              /\ fields'[Size + 1].head = FALSE
              /\ \A j \in 1..Size : j # i => SameField(fields[j], fields'[j])
              => /\ fields'[i].next.idx = Size + 1 =>
                      ListOf(fields')[Size + 1] = ListOf(fields)[i]
                 /\ SameField(fields[i], fields'[i]) => ListOf(fields')[Size + 1] = 0
<1>1. /\ Size \in Nat /\ Size' \in Nat /\ DOMAIN fields' = 1..Size'
      /\ \A i \in 1..Size : GoodField(fields[i], i, Size, buffer)
  BY FieldFacts, LenProperties DEF IInv, FieldsGood, Size
<1>2. ListOf(fields')[Size + 1] = ListStep(fields', ListOf(fields'), Size + 1)
  BY <1>1, ListOfIs
<1>3. \A j \in 1..Size : fields[j].next.idx # Size + 1
  BY <1>1 DEF GoodField, NoPtr
<1>4. Before(fields', Size + 1) = {j \in 1..Size : fields'[j].next.idx = Size + 1}
  BY <1>1 DEF Before
<1>5. ASSUME NEW i \in 1..Size, fields'[Size + 1].head = FALSE,
             \A j \in 1..Size : j # i => SameField(fields[j], fields'[j])
      PROVE  /\ fields'[i].next.idx = Size + 1 =>
                  ListOf(fields')[Size + 1] = ListOf(fields)[i]
             /\ SameField(fields[i], fields'[i]) => ListOf(fields')[Size + 1] = 0
  <2>1. \A j \in 1..Size : j # i => fields'[j].next.idx # Size + 1
    BY <1>3, <1>5 DEF SameField, SameRange
  <2>2. CASE fields'[i].next.idx = Size + 1
    <3>1. Before(fields', Size + 1) = {i}
      BY <2>1, <2>2, <1>4
    <3>2. OneOf({i}) = i
      BY DEF OneOf
    <3> QED
      BY <3>1, <3>2, <1>2, <1>3, <1>5, <2>2, ListsKept DEF ListStep, SameField, SameRange
  <2>3. CASE fields'[i].next.idx # Size + 1
    <3>1. Before(fields', Size + 1) = {}
      BY <2>1, <2>3, <1>4
    <3> QED
      BY <3>1, <1>2, <1>5, <2>3 DEF ListStep
  <2> QED
    BY <2>2, <2>3
<1> QED
  BY <1>2, <1>5 DEF ListStep

(* gen_hash tells the lock objects apart.                                  *)
HashInjective == \A l, m \in Locks : LockHash[l] = LockHash[m] => l = m

LEMMA AcquireFront ==
  ASSUME IInv, IInv', OldKept, HashInjective, AcquireLock, Boundaries, HeldAreOpen
  PROVE  Boundaries' /\ HeldAreOpen'
<1> DEFINE u == footprint[pos].usr
<1>1. /\ footprint[pos].type = "LockAcquire" /\ pos \in 1..Len(footprint)
      /\ pos' = pos + 1 /\ UNCHANGED footprint
  BY ScanTypes DEF AcquireLock, At, Scanning
<1>2. u \in Locks
  BY <1>1, ScanTypes DEF VarAccess, LockCalls, Markers
<1>3. /\ Size' = Size + 1
      /\ \A i \in 1..Size : SameField(fields[i], fields'[i])
      /\ fields'[Size + 1] = NewField(u)
  BY AcquireFacts
<1>4. /\ Size \in Nat /\ pos \in Nat
      /\ \A i \in 1..(Size + 1) : i = Size + 1 \/ i \in 1..Size
      /\ \A i \in 1..Size : fields[i].start \in Nat /\ fields[i].end \in Nat
  BY ScanTypes
<1> HIDE DEF u
<1>5. /\ NewField(u).start = pos /\ NewField(u).end = SizeMax
      /\ NewField(u).head = TRUE /\ NewField(u).hash = LockHash[u]
  BY DEF NewField
<1>6. Boundaries'
  <2> SUFFICES ASSUME NEW i \in 1..(Size + 1)
               PROVE  /\ Near(footprint', pos', fields'[i].start)
                      /\ fields'[i].end # SizeMax => Near(footprint', pos', fields'[i].end)
    BY <1>3 DEF Boundaries
  <2>1. CASE i = Size + 1
    BY <2>1, <1>1, <1>3, <1>4, <1>5 DEF Near
  <2>2. CASE i \in 1..Size
    BY <2>2, <1>1, <1>3, <1>4, NearStays DEF Boundaries, SameField, SameRange
  <2> QED
    BY <2>1, <2>2, <1>4
<1>7. ListOf(fields')[Size + 1] # 0
  BY <1>3, <1>4, <1>5, NewInList
<1>8. ASSUME NEW l \in Locks PROVE OpenFor(l)' <=> OpenFor(l) \/ l = u
  <2>1. \A i \in 1..Size : ListOf(fields')[i] = ListOf(fields)[i]
                           /\ (fields'[i].end = SizeMax <=> fields[i].end = SizeMax) /\ fields'[i].hash = fields[i].hash
    BY <1>3, ListsKept DEF SameField, SameRange
  <2>2. fields'[Size + 1].hash = LockHash[l] <=> l = u
    BY <1>2, <1>3, <1>5 DEF HashInjective
  <2>3. fields'[Size + 1].end = SizeMax
    BY <1>3, <1>5
  <2> QED
    BY <2>1, <2>2, <2>3, <1>3, <1>4, <1>7 DEF OpenFor
<1>9. HeldAreOpen'
  <2> SUFFICES ASSUME NEW l \in Locks
               PROVE  l \in HeldStraight(footprint, pos + 1) <=> OpenFor(l)'
    BY <1>1 DEF HeldAreOpen
  <2>1. (Calls(footprint, pos, "LockAcquire", l) <=> l = u)
        /\ ~Calls(footprint, pos, "LockRelease", l)
    BY <1>1 DEF Calls, u
  <2> QED
    BY <2>1, <1>1, <1>8, HeldStep, ScanTypes DEF HeldAreOpen
<1> QED
  BY <1>6, <1>9

LEMMA ReleaseFront ==
  ASSUME IInv, IInv', OldKept, HashInjective, ReleaseLock, Boundaries, HeldAreOpen
  PROVE  Boundaries' /\ HeldAreOpen'
<1> DEFINE u == footprint[pos].usr
<1>1. /\ footprint[pos].type = "LockRelease" /\ pos \in 1..Len(footprint)
      /\ pos' = pos + 1 /\ UNCHANGED footprint
  BY ScanTypes DEF ReleaseLock, At, Scanning
<1>2. u \in Locks
  BY <1>1, ScanTypes DEF VarAccess, LockCalls, Markers
<1>3. /\ Size' = Size
      /\ \A i \in 1..Size :
           IF fields[i].end = SizeMax /\ fields[i].hash = LockHash[u]
           THEN /\ fields'[i].hash = fields[i].hash
                /\ fields'[i].start = fields[i].start
                /\ fields'[i].end = pos
           ELSE fields'[i] = fields[i]
  BY ReleaseFacts DEF IsOpen
<1>4. /\ Size \in Nat /\ pos \in Nat /\ pos # SizeMax
      /\ \A i \in 1..Size : fields[i].start \in Nat /\ fields[i].end \in Nat
  BY <1>1, ScanTypes
<1> HIDE DEF u
<1>5. Boundaries'
  <2> SUFFICES ASSUME NEW i \in 1..Size
               PROVE  /\ Near(footprint', pos', fields'[i].start)
                      /\ fields'[i].end # SizeMax => Near(footprint', pos', fields'[i].end)
    BY <1>3 DEF Boundaries
  <2>1. Near(footprint', pos', fields[i].start) /\ (fields[i].end # SizeMax => Near(footprint', pos', fields[i].end))
    BY <1>1, <1>4, NearStays DEF Boundaries
  <2>2. Near(footprint', pos', pos)
    BY <1>1, <1>4 DEF Near
  <2> QED
    BY <2>1, <2>2, <1>3
<1>6. ASSUME NEW l \in Locks PROVE OpenFor(l)' <=> OpenFor(l) /\ l # u
  <2>1. ASSUME NEW i \in 1..Size
        PROVE  /\ ListOf(fields')[i] = ListOf(fields)[i]
               /\ fields'[i].hash = fields[i].hash
               /\ fields'[i].end = SizeMax <=> fields[i].end = SizeMax /\ fields[i].hash # LockHash[u]
    BY <1>3, <1>4, ListsKept
  <2>2. LockHash[l] = LockHash[u] <=> l = u
    BY <1>2 DEF HashInjective
  <2> QED
    BY <2>1, <2>2, <1>3 DEF OpenFor
<1>7. HeldAreOpen'
  <2> SUFFICES ASSUME NEW l \in Locks
               PROVE  l \in HeldStraight(footprint, pos + 1) <=> OpenFor(l)'
    BY <1>1 DEF HeldAreOpen
  <2>1. ~Calls(footprint, pos, "LockAcquire", l)
        /\ (Calls(footprint, pos, "LockRelease", l) <=> l = u)
    BY <1>1 DEF Calls, u
  <2> QED
    BY <2>1, <1>1, <1>6, HeldStep, ScanTypes DEF HeldAreOpen
<1> QED
  BY <1>5, <1>7
(* A split ends a range where its condition ends and starts the copy       *)
(* there; or it starts a copy no walk reaches and ends nothing.            *)
LEMMA SplitFront ==
  ASSUME IInv, IInv', OldKept, SplitOpenRange, CondAhead(footprint, pos, start),
         Boundaries, HeldAreOpen
  PROVE  Boundaries' /\ HeldAreOpen'
<1>1. UNCHANGED <<footprint, pos>>
  BY DEF SplitOpenRange
<1>2. /\ Size' = Size + 1
      /\ k \in 1..Size /\ fields[k].end = SizeMax
      /\ \A i \in 1..Size : i # k => SameField(fields[i], fields'[i])
      /\ \/ SameField(fields[k], fields'[k])
         \/ /\ fields'[k].hash = fields[k].hash
            /\ fields'[k].start = fields[k].start
            /\ fields'[k].end = start
            /\ fields'[k].next.idx = Size + 1
            /\ fields'[Size + 1].hash = fields[k].hash
      /\ fields'[Size + 1].start = start /\ fields'[Size + 1].end = SizeMax
      /\ fields'[Size + 1].head = FALSE
  BY SplitFacts DEF IsOpen
<1>3. /\ Size \in Nat /\ \A i \in 1..(Size + 1) : i = Size + 1 \/ i \in 1..Size
      /\ start # SizeMax
  BY ScanTypes DEF CondAhead
<1>4. Near(footprint, pos, start)
  BY DEF Near
<1>5. Boundaries'
  <2> SUFFICES ASSUME NEW i \in 1..(Size + 1)
               PROVE  /\ Near(footprint, pos, fields'[i].start)
                      /\ fields'[i].end # SizeMax => Near(footprint, pos, fields'[i].end)
    BY <1>1, <1>2 DEF Boundaries
  <2>1. CASE i = Size + 1
    BY <2>1, <1>2, <1>4
  <2>2. CASE i \in 1..Size
    BY <2>2, <1>2, <1>4 DEF Boundaries, SameField, SameRange
  <2> QED
    BY <2>1, <2>2, <1>3
<1>6. ASSUME NEW l \in Locks PROVE OpenFor(l)' <=> OpenFor(l)
  <2>1. \A i \in 1..Size : ListOf(fields')[i] = ListOf(fields)[i]
    BY ListsKept
  <2>2. \A i \in 1..Size : i # k =>
          /\ fields'[i].end = fields[i].end /\ fields'[i].hash = fields[i].hash
    BY <1>2 DEF SameField, SameRange
  <2>3. CASE SameField(fields[k], fields'[k])
    <3>1. ListOf(fields')[Size + 1] = 0
      BY <2>3, <1>2, NewInList
    <3>2. fields'[k].end = fields[k].end /\ fields'[k].hash = fields[k].hash
      BY <2>3 DEF SameField, SameRange
    <3> QED
      BY <3>1, <3>2, <2>1, <2>2, <1>2, <1>3 DEF OpenFor
  <2>4. CASE fields'[k].hash = fields[k].hash /\ fields'[k].end = start
             /\ fields'[k].next.idx = Size + 1 /\ fields'[Size + 1].hash = fields[k].hash
    <3>1. ListOf(fields')[Size + 1] = ListOf(fields)[k]
      BY <2>4, <1>2, NewInList
    <3> QED
      BY <3>1, <2>1, <2>2, <2>4, <1>2, <1>3 DEF OpenFor
  <2> QED
    BY <2>3, <2>4, <1>2
<1>7. HeldAreOpen'
  BY <1>1, <1>6 DEF HeldAreOpen
<1> QED
  BY <1>5, <1>7

(* A step that writes no element and passes no lock call.                  *)
LEMMA SkipFront ==
  ASSUME IInv, UNCHANGED <<footprint, fields>>,
         \/ pos' = pos
         \/ pos' = pos + 1 /\ footprint[pos].type \notin LockCalls,
         Boundaries, HeldAreOpen
  PROVE  Boundaries' /\ HeldAreOpen'
<1>1. Size' = Size /\ pos \in Nat \ {0}
      /\ \A i \in 1..Size : fields[i].start \in Nat /\ fields[i].end \in Nat
  BY ScanTypes DEF Size
<1>2. Boundaries'
  <2> SUFFICES ASSUME NEW i \in 1..Size
               PROVE  /\ Near(footprint', pos', fields[i].start)
                      /\ fields[i].end # SizeMax => Near(footprint', pos', fields[i].end)
    BY <1>1 DEF Boundaries
  <2> QED
    BY <1>1, NearStays DEF Boundaries
<1>3. ASSUME NEW l \in Locks PROVE OpenFor(l)' <=> OpenFor(l)
  BY <1>1 DEF OpenFor
<1>4. ASSUME NEW l \in Locks
      PROVE  l \in HeldStraight(footprint', pos') <=> l \in HeldStraight(footprint, pos)
  <2>1. CASE pos' = pos
    BY <2>1
  <2>2. CASE pos' = pos + 1 /\ footprint[pos].type \notin LockCalls
    BY <2>2, <1>1, HeldStep DEF Calls, LockCalls
  <2> QED
    BY <2>1, <2>2
<1> QED
  BY <1>2, <1>3, <1>4 DEF HeldAreOpen

(* What lies behind the scan is final, and exact.                          *)
LEMMA ExactKept ==
  ASSUME IInv, IInv', ScanInv, OldKept, NewBehind, UNCHANGED footprint,
         \/ pos' = pos
         \/ pos' = pos + 1 /\ (pos \in Accesses(footprint) => UNCHANGED fields /\ pc = "scan")
  PROVE  ExactBehind'
<1> SUFFICES ASSUME NEW p \in Accesses(footprint), p < pos',
                    ~AfterElse(footprint, p), ~InCondition(footprint, p)
             PROVE  CoveringLocks(fields, p)' = HeldStraight(footprint, p)
  BY DEF ExactBehind, ExactAt
<1>1. p \in DOMAIN footprint /\ p \in Nat /\ pos \in Nat
  BY ScanTypes DEF Accesses
<1>2. CASE p < pos
  BY <1>1, <1>2, CoverKept DEF ScanInv, ExactBehind, ExactAt
<1>3. CASE p = pos
  <2>1. Boundaries /\ HeldAreOpen /\ UNCHANGED fields
    BY <1>1, <1>3 DEF ScanInv, FrontInv
  <2> QED
    BY <2>1, <1>3, ExactHere
<1> QED
  BY <1>1, <1>2, <1>3
(* The if whose ranges are split is the one at the position scanned.       *)
LEMMA BeginIfAhead ==
  ASSUME IInv, BeginIf
  PROVE  /\ pc' = "active" /\ UNCHANGED <<footprint, pos, fields>>
         /\ footprint[pos].type = "IfStmt" /\ CondAhead(footprint, pos, start')
<1>1. PICK t \in (pos + 1)..Len(footprint) :
        /\ footprint[t].type = "ThenBlock"
        /\ \A p \in (pos + 1)..(t - 1) : footprint[p].type # "ThenBlock"
        /\ StartLoop("active", t)
  BY DEF BeginIf
<1>2. /\ pc' = "active" /\ start' = t /\ UNCHANGED <<footprint, pos, fields>>
      /\ footprint[pos].type = "IfStmt"
  BY <1>1 DEF BeginIf, StartLoop, array, At
<1>3. \A r \in pos..(t - 1) : r = pos \/ r \in (pos + 1)..(t - 1)
  BY ScanTypes
<1>4. pos \in 1..pos /\ pos < t /\ pos <= t /\ t \in DOMAIN footprint
  BY ScanTypes
<1> QED
  BY <1>1, <1>2, <1>3, <1>4 DEF CondAhead

LEMMA LoopAtStep ==
  ASSUME IInv, LoopAt, Scan
  PROVE  LoopAt' /\ UNCHANGED footprint
<1>1. CASE BeginIf
  BY <1>1, BeginIfAhead DEF LoopAt
<1>2. CASE BeginElse
  BY <1>2 DEF BeginElse, StartLoop, LoopAt, At
<1>3. CASE FinishScan
  BY <1>3, ScanTypes DEF FinishScan, LoopAt
<1>4. CASE SplitOpenRange \/ ReopenEndedRange \/ NextField
  BY <1>4 DEF SplitOpenRange, ReopenEndedRange, NextField, InLoop, LoopAt
<1>5. CASE EndLoop \/ AcquireLock \/ ReleaseLock \/ EndIf \/ SkipEntry
  BY <1>5 DEF EndLoop, AcquireLock, ReleaseLock, EndIf, SkipEntry, At, Scanning, LoopAt
<1> QED
  BY <1>1, <1>2, <1>3, <1>4, <1>5 DEF Scan

LEMMA FrontStep ==
  ASSUME IInv, IInv', OldKept, HashInjective, LoopAt, FrontInv, Scan
  PROVE  FrontInv'
<1> SUFFICES ASSUME pc' \notin {"visit", "inactive"}, ~AfterElse(footprint', pos')
             PROVE  Boundaries' /\ HeldAreOpen'
  BY DEF FrontInv
<1>1. pos \in Nat \ {0} /\ UNCHANGED footprint
  BY ScanTypes, LoopAtStep
<1>2. pos' \in {pos, pos + 1}
  BY DEF Scan, AcquireLock, ReleaseLock, BeginIf, BeginElse, StartLoop, EndIf, SkipEntry,
         SplitOpenRange, ReopenEndedRange, NextField, EndLoop, FinishScan
<1>3. ~AfterElse(footprint, pos) /\ (pos' = pos + 1 => footprint[pos].type # "ElseStmt")
  <2>1. \A q \in 1..(pos' - 1) : footprint[q].type # "ElseStmt"
    BY <1>1 DEF AfterElse
  <2>2. \A q \in 1..(pos - 1) : q \in 1..(pos' - 1)
    <3>1. CASE pos' = pos
      BY <3>1
    <3>2. CASE pos' = pos + 1
      <4>1. \A q \in 1..(pos - 1) : q \in 1..pos
        BY <1>1
      <4> QED
        BY <4>1, <3>2, <1>1
    <3> QED
      BY <3>1, <3>2, <1>2
  <2>3. pos' = pos + 1 => pos \in 1..(pos' - 1)
    BY <1>1
  <2> QED
    BY <2>1, <2>2, <2>3 DEF AfterElse
<1>4. pc # "visit"
  BY DEF Scan, AcquireLock, ReleaseLock, BeginIf, BeginElse, EndIf, SkipEntry,
         SplitOpenRange, ReopenEndedRange, NextField, EndLoop, FinishScan,
         At, Scanning, InLoop
<1>5. pc # "inactive"
  <2> SUFFICES ASSUME pc = "inactive" PROVE FALSE
    OBVIOUS
  <2>1. pos' = pos + 1
    BY DEF Scan, AcquireLock, ReleaseLock, BeginIf, BeginElse, EndIf, SkipEntry,
           SplitOpenRange, ReopenEndedRange, NextField, EndLoop, FinishScan,
           At, Scanning, InLoop
  <2> QED
    BY <2>1, <1>3 DEF LoopAt
<1>6. Boundaries /\ HeldAreOpen
  BY <1>3, <1>4, <1>5 DEF FrontInv
<1>7. CASE AcquireLock
  BY <1>6, <1>7, AcquireFront
<1>8. CASE ReleaseLock
  BY <1>6, <1>8, ReleaseFront
<1>9. CASE SplitOpenRange
  BY <1>6, <1>9, SplitFront DEF LoopAt, SplitOpenRange, InLoop
<1>10. CASE ReopenEndedRange
  BY <1>5, <1>10 DEF ReopenEndedRange, InLoop
<1>11. CASE BeginIf
  BY <1>6, <1>11, BeginIfAhead, SkipFront
<1>12. CASE BeginElse \/ NextField \/ FinishScan
  <2>1. UNCHANGED <<footprint, pos, fields>>
    BY <1>12 DEF BeginElse, StartLoop, NextField, FinishScan, array
  <2> QED
    BY <1>6, <2>1, SkipFront
<1>13. CASE EndIf \/ SkipEntry \/ EndLoop
  <2>1. UNCHANGED <<footprint, fields>> /\ pos' = pos + 1
    BY <1>13 DEF EndIf, SkipEntry, EndLoop, array
  <2>2. footprint[pos].type \notin LockCalls
    BY <1>5, <1>13 DEF EndIf, SkipEntry, EndLoop, At, LoopAt, LockCalls
  <2> QED
    BY <1>6, <2>1, <2>2, SkipFront
<1> QED
  BY <1>7, <1>8, <1>9, <1>10, <1>11, <1>12, <1>13 DEF Scan

LEMMA ScanInvStep ==
  ASSUME IInv, IInv', OrderInv, HashInjective, ScanInv, Scan
  PROVE  ScanInv'
<1>1. LoopAt' /\ UNCHANGED footprint
  BY LoopAtStep DEF ScanInv
<1>2. OldKept /\ NewBehind
  BY ScanKept DEF ScanInv, LoopAt, CondAhead
<1>3. FrontInv'
  BY <1>2, FrontStep DEF ScanInv
<1>4. \/ pos' = pos
      \/ pos' = pos + 1 /\ (pos \in Accesses(footprint) => UNCHANGED fields /\ pc = "scan")
  <2>1. CASE SkipEntry
    BY <2>1 DEF SkipEntry, Scanning, array
  <2>2. CASE AcquireLock \/ ReleaseLock \/ EndIf \/ EndLoop
    <3>1. pos' = pos + 1 /\ footprint[pos].type # "Access"
      BY <2>2 DEF AcquireLock, ReleaseLock, EndIf, EndLoop, At, ScanInv, LoopAt
    <3> QED
      BY <3>1 DEF Accesses
  <2> QED
    BY <2>1, <2>2 DEF Scan, BeginIf, BeginElse, StartLoop, SplitOpenRange,
                      ReopenEndedRange, NextField, FinishScan
<1>5. ExactBehind'
  BY <1>1, <1>2, <1>4, ExactKept
<1> QED
  BY <1>1, <1>3, <1>5 DEF ScanInv

(* Before the first entry nothing is held and nothing is open.             *)
AtStart ==
  /\ pos = 1 /\ fields = <<>> /\ pc \in {"visit", "scan"}
  /\ Len(footprint) \in Nat /\ DOMAIN footprint = 1..Len(footprint)

LEMMA StartExact == AtStart => ScanInv
<1> SUFFICES ASSUME AtStart PROVE ScanInv
  OBVIOUS
<1> USE DEF AtStart
<1>1. Size = 0
  BY DEF Size
<1>2. Boundaries /\ HeldAreOpen
  BY <1>1 DEF Boundaries, HeldAreOpen, HeldStraight, OpenFor
<1>3. ExactBehind
  BY DEF ExactBehind, Accesses
<1> QED
  BY <1>2, <1>3 DEF ScanInv, LoopAt, FrontInv

(* The whole invariant, on every step of the specification.                *)
LEMMA ExactStep ==
  ASSUME IInv, IInv', OrderInv, HashInjective, ScanInv, [Next]_vars
  PROVE  ScanInv'
<1>1. CASE Visit \/ StartScan
  <2>1. pos' = 1 /\ fields' = <<>> /\ pc' \in {"visit", "scan"}
    BY <1>1 DEF Visit, StartScan, ScanInv, LoopAt, array
  <2>2. Len(footprint') \in Nat /\ DOMAIN footprint' = 1..Len(footprint')
    BY LenProperties DEF IInv, FootprintInv, FootprintTypeOK
  <2>3. AtStart'
    BY <2>1, <2>2 DEF AtStart
  <2>4. AtStart' => ScanInv'
    BY StartExact, PTL
  <2> QED
    BY <2>3, <2>4
<1>2. CASE Scan
  BY <1>2, ScanInvStep
<1>3. CASE Done \/ UNCHANGED vars
  BY <1>3 DEF Done, vars, array, loop, ScanInv, LoopAt, FrontInv, ExactBehind, ExactAt,
              Boundaries, HeldAreOpen, OpenFor, Size
<1> QED
  BY <1>1, <1>2, <1>3 DEF Next

(* add_protection_range_fields_active, set_protection_range_end: up to the *)
(* first else block, wherever the array is moved to and whatever the copies*)
(* read of the blocks it left, the ranges cover an access exactly with the *)
(* locks the calls before it left held, provided no two lock objects have  *)
(* the same hash.                                                          *)
THEOREM ThenPathIsExact == ASSUME HashInjective PROVE Spec => []ThenPathExact
<1>1. Init => OrderInv
  BY DEF Init, OrderInv, EndedBehind, InOrder, Size
<1>2. Init => ScanInv
  <2>1. Init => pos = 1 /\ fields = <<>> /\ pc = "visit" /\ footprint = <<>>
    BY DEF Init, FootprintInit
  <2> QED
    BY <2>1, StartExact DEF AtStart
<1>3. IInv /\ IInv' /\ OrderInv /\ ScanInv /\ [Next]_vars => ScanInv'
  BY ExactStep
<1>4. IInv /\ ScanInv => ThenPathExact
  BY ScanTypes DEF ScanInv, LoopAt, ExactBehind, ExactAt, ThenPathExact, Accesses
<1> QED
  BY <1>1, <1>2, <1>3, <1>4, OrderStep, Invariance, PTL DEF Spec
-----------------------------------------------------------------------------
(* Flat functions                                                          *)

(* No if within an if, none left open by the function visited before, and  *)
(* an array that is extended in place.                                     *)
Flat == MaxNesting <= 1 /\ MaxStray = 0 /\ TRUE \notin Moves
-----------------------------------------------------------------------------
(* The grammar of a flat footprint                                         *)

(* t is the type of the last branch marker before position n.              *)
Mark(fp, n, t) ==
  \/ t = "none" /\ \A r \in 1..(n - 1) : fp[r].type \notin Markers
  \/ /\ t \in Markers
     /\ \E q \in 1..(n - 1) : /\ fp[q].type = t
                              /\ \A r \in (q + 1)..(n - 1) : fp[r].type \notin Markers

(* What may stand at position n after the markers before it.               *)
FollowsAt(fp, n) ==
  /\ fp[n].type = "IfStmt" => Mark(fp, n, "none") \/ Mark(fp, n, "EndIf")
  /\ fp[n].type = "ThenBlock" => Mark(fp, n, "IfStmt")
  /\ fp[n].type = "ElseStmt" => Mark(fp, n, "ThenBlock")
  /\ fp[n].type = "EndIf" => Mark(fp, n, "ThenBlock") \/ Mark(fp, n, "ElseStmt")

FlatGrammar == \A n \in 1..Len(footprint) : FollowsAt(footprint, n)

GrowInv ==
  /\ FlatGrammar
  /\ pc = "visit" =>
       LET n == Len(footprint) + 1
       IN  \/ nesting = <<>> /\ (Mark(footprint, n, "none") \/ Mark(footprint, n, "EndIf"))
           \/ nesting = <<"cond">> /\ Mark(footprint, n, "IfStmt")
           \/ nesting = <<"then">> /\ Mark(footprint, n, "ThenBlock")
           \/ nesting = <<"else">> /\ Mark(footprint, n, "ElseStmt")
-----------------------------------------------------------------------------
(* The inductive invariant                                                 *)

Branch == [must : SUBSET Locks, may : SUBSET Locks]

HeldType(h) ==
  /\ h \in [must : SUBSET Locks, may : SUBSET Locks, around : Seq(Branch)]
  /\ h.around = <<>> \/ \E e \in Branch : h.around = <<e>>

(* How deep the scan is, by the marker behind it.                          *)
DepthIs(t, around, d, name) ==
  /\ t \in {"none", "EndIf"} => around = <<>> /\ d = IF name = "active" THEN 1 ELSE 0
  /\ t = "IfStmt" => around = <<>> /\ d = 1
  /\ t \in {"ThenBlock", "ElseStmt"} => around # <<>> /\ d = 1

Here == HeldAt(footprint, pos)

(* A walk along the lists of lock l reaches element i.                     *)
InList(fs, i, l) == ListOf(fs)[i] # 0 /\ fs[i].hash = LockHash[l]

OpenAt(fs, n, l) == \E i \in 1..n : InList(fs, i, l) /\ fs[i].end = SizeMax

(* An element that ends no earlier than the scan.                          *)
CoveredAt(fs, n, fp, p, l) ==
  \E i \in 1..n : /\ InList(fs, i, l) /\ fs[i].start < p
                  /\ fs[i].end = SizeMax \/ CondAhead(fp, p, fs[i].end)

(* The last element of some list of the lock.                              *)
TailedAt(fs, n, l) == \E i \in 1..n : InList(fs, i, l) /\ fs[i].next = NoPtr

(* It is open, or the loop of the else block will come to it.              *)
PendingAt(fs, n, from, to, l) ==
  \E i \in 1..n : /\ InList(fs, i, l) /\ fs[i].next = NoPtr
                  /\ fs[i].end = SizeMax \/ (from <= i /\ i <= to)

HeldCovered(l) ==
  OpenAt(fields, Size, l) /\ CoveredAt(fields, Size, footprint, pos, l)

(* What is true of the locks held in the block being read.                 *)
MustAhead ==
  IF pc = "inactive"
  THEN \A l \in HeldAt(footprint, pos + 1).must : PendingAt(fields, Size, k, bound, l)
  ELSE \A l \in Here.must : HeldCovered(l)

(* ... and of those held on the way around it.                             *)
AroundTailed ==
  pc # "inactive" /\ Mark(footprint, pos, "ThenBlock") =>
    \A l \in Here.around[1].must : TailedAt(fields, Size, l)

StartsNear ==
  \A i \in 1..Size :
    \/ Near(footprint, pos, fields[i].start)
    \/ pc = "inactive" /\ fields[i].start = pos

CoverBehind ==
  \A p \in Accesses(footprint) :
    p < pos => HeldAt(footprint, p).must \subseteq CoveringLocks(fields, p)

Placed ==
  \E t \in Markers \cup {"none"} :
    Mark(footprint, pos, t) /\ DepthIs(t, Here.around, depth, pc)

MustInv ==
  /\ pc = "visit" => depth = 0
  /\ pc # "visit" => /\ HeldType(Here) /\ Placed
                     /\ StartsNear /\ MustAhead /\ AroundTailed /\ CoverBehind
-----------------------------------------------------------------------------
(* The locks held, entry by entry                                          *)

(* What the recursion of HeldAt says of held at n.                         *)
HeldNext(fp, held, n) ==
  IF n = 0 THEN NoneHeld ELSE HeldAfter(held[n - 1], fp[n])

HeldSolves(fp, held, m) == held = [n \in 0..m |-> HeldNext(fp, held, n)]

LEMMA HeldExists ==
  ASSUME NEW fp, NEW n \in Nat
  PROVE  \E held : HeldSolves(fp, held, n)
<1> DEFINE Unsolved == {m \in Nat : ~\E held : HeldSolves(fp, held, m)}
<1> SUFFICES ASSUME Unsolved # {} PROVE FALSE
  OBVIOUS
<1>1. PICK m \in Unsolved : \A q \in Unsolved : m <= q
  <2>1. Unsolved \subseteq Nat
    OBVIOUS
  <2> HIDE DEF Unsolved
  <2> QED
    BY <2>1, LeastNat
<1>2. m # 0
  <2> DEFINE zero == [i \in 0..0 |-> NoneHeld]
  <2>1. zero = [i \in 0..0 |-> HeldNext(fp, zero, i)]
    BY DEF HeldNext
  <2>2. HeldSolves(fp, zero, 0)
    BY <2>1 DEF HeldSolves
  <2> QED
    BY <2>2, <1>1
<1>3. m \in Nat /\ m - 1 \in Nat
  BY <1>1, <1>2
<1>4. PICK held : HeldSolves(fp, held, m - 1)
  BY <1>1, <1>3
<1> DEFINE longer == [i \in 0..m |-> IF i = m THEN HeldNext(fp, held, m) ELSE held[i]]
<1>5. ASSUME NEW i \in 0..m PROVE longer[i] = HeldNext(fp, longer, i)
  <2>1. i # 0 => i - 1 \in 0..m /\ i - 1 # m
    BY <1>3
  <2>2. HeldNext(fp, longer, i) = HeldNext(fp, held, i)
    BY <2>1 DEF HeldNext
  <2>3. i # m => held[i] = HeldNext(fp, held, i)
    <3>1. i # m => i \in 0..(m - 1)
      BY <1>3
    <3> QED
      BY <3>1, <1>4 DEF HeldSolves
  <2>4. longer[i] = IF i = m THEN HeldNext(fp, held, m) ELSE held[i]
    OBVIOUS
  <2> HIDE DEF longer
  <2> QED
    BY <2>2, <2>3, <2>4
<1>6. longer = [i \in 0..m |-> HeldNext(fp, longer, i)]
  <2>1. longer = [i \in 0..m |-> longer[i]]
    OBVIOUS
  <2> HIDE DEF longer
  <2> QED
    BY <2>1, <1>5
<1> QED
  BY <1>1, <1>6 DEF HeldSolves

(* Solutions agree where both are defined.                                 *)
LEMMA HeldAgree ==
  ASSUME NEW fp, NEW g, NEW h, NEW n \in Nat, NEW m \in Nat, n <= m,
         HeldSolves(fp, g, n), HeldSolves(fp, h, m)
  PROVE  \A i \in 0..n : g[i] = h[i]
<1> DEFINE Differ == {i \in 0..n : g[i] # h[i]}
<1> SUFFICES ASSUME Differ # {} PROVE FALSE
  OBVIOUS
<1>1. PICK i \in Differ : \A j \in Differ : i <= j
  <2>1. Differ \subseteq Nat
    OBVIOUS
  <2> HIDE DEF Differ
  <2> QED
    BY <2>1, LeastNat
<1>2. i \in 0..n /\ i \in 0..m
  BY <1>1
<1>3. g[i] = HeldNext(fp, g, i) /\ h[i] = HeldNext(fp, h, i)
  BY <1>2 DEF HeldSolves
<1>4. i # 0 => g[i - 1] = h[i - 1]
  <2>1. i # 0 => i - 1 \in 0..n /\ i - 1 < i
    BY <1>2
  <2> QED
    BY <2>1, <1>1
<1>5. HeldNext(fp, g, i) = HeldNext(fp, h, i)
  BY <1>4 DEF HeldNext
<1> QED
  BY <1>1, <1>3, <1>5

LEMMA HeldAtIs ==
  ASSUME NEW fp, NEW p \in Nat \ {0}, NEW m \in Nat, p - 1 <= m,
         NEW held, HeldSolves(fp, held, m)
  PROVE  HeldAt(fp, p) = held[p - 1]
<1> DEFINE mine == CHOOSE g : HeldSolves(fp, g, p - 1)
<1>1. HeldAt(fp, p) = mine[p - 1]
  BY DEF HeldAt, HeldSolves, HeldNext
<1>2. HeldSolves(fp, mine, p - 1)
  BY HeldExists
<1> HIDE DEF mine
<1> QED
  BY <1>1, <1>2, HeldAgree

(* HeldAt before the first entry, and after one more.                      *)
LEMMA HeldAtSteps ==
  ASSUME NEW fp
  PROVE  /\ HeldAt(fp, 1) = NoneHeld
         /\ \A p \in Nat \ {0} : HeldAt(fp, p + 1) = HeldAfter(HeldAt(fp, p), fp[p])
<1>1. HeldAt(fp, 1) = NoneHeld
  <2>1. PICK held : HeldSolves(fp, held, 0)
    BY HeldExists
  <2>2. held[0] = NoneHeld
    BY <2>1 DEF HeldSolves, HeldNext
  <2>3. HeldAt(fp, 1) = held[1 - 1]
    BY <2>1, HeldAtIs
  <2> QED
    BY <2>2, <2>3
<1>2. ASSUME NEW p \in Nat \ {0}
      PROVE  HeldAt(fp, p + 1) = HeldAfter(HeldAt(fp, p), fp[p])
  <2>1. PICK held : HeldSolves(fp, held, p)
    BY HeldExists
  <2>2. held[p] = HeldAfter(held[p - 1], fp[p])
    BY <2>1 DEF HeldSolves, HeldNext
  <2>3. HeldAt(fp, p) = held[p - 1]
    BY <2>1, HeldAtIs
  <2>4. HeldAt(fp, p + 1) = held[(p + 1) - 1]
    BY <2>1, HeldAtIs
  <2> QED
    BY <2>2, <2>3, <2>4
<1> QED
  BY <1>1, <1>2
-----------------------------------------------------------------------------
(* The grammar                                                             *)

LEMMA MarkSteps ==
  ASSUME NEW fp, NEW n \in Nat \ {0}, NEW t
  PROVE  /\ Mark(fp, 1, "none")
         /\ fp[n].type \in Markers => Mark(fp, n + 1, fp[n].type)
         /\ fp[n].type \notin Markers /\ Mark(fp, n, t) => Mark(fp, n + 1, t)
<1>1. Mark(fp, 1, "none")
  BY DEF Mark
<1>2. ASSUME fp[n].type \in Markers PROVE Mark(fp, n + 1, fp[n].type)
  BY <1>2 DEF Mark
<1>3. ASSUME fp[n].type \notin Markers, Mark(fp, n, t) PROVE Mark(fp, n + 1, t)
  <2>1. CASE t = "none" /\ \A r \in 1..(n - 1) : fp[r].type \notin Markers
    <3>1. \A r \in 1..n : r = n \/ r \in 1..(n - 1)
      OBVIOUS
    <3> QED
      BY <2>1, <3>1, <1>3 DEF Mark
  <2>2. CASE t \in Markers /\ \E q \in 1..(n - 1) :
               fp[q].type = t /\ \A r \in (q + 1)..(n - 1) : fp[r].type \notin Markers
    <3>1. PICK q \in 1..(n - 1) :
            fp[q].type = t /\ \A r \in (q + 1)..(n - 1) : fp[r].type \notin Markers
      BY <2>2
    <3>2. \A r \in (q + 1)..n : r = n \/ r \in (q + 1)..(n - 1)
      OBVIOUS
    <3>3. q \in 1..n /\ \A r \in (q + 1)..n : fp[r].type \notin Markers
      BY <3>1, <3>2, <1>3
    <3> QED
      BY <2>2, <3>1, <3>3 DEF Mark
  <2> QED
    BY <1>3, <2>1, <2>2 DEF Mark
<1> QED
  BY <1>1, <1>2, <1>3

LEMMA MarkUnique ==
  ASSUME NEW fp, NEW n \in Nat \ {0}, NEW s, NEW t, Mark(fp, n, s), Mark(fp, n, t)
  PROVE  s = t
<1>1. \A q, r \in 1..(n - 1) :
        q = r \/ r \in (q + 1)..(n - 1) \/ q \in (r + 1)..(n - 1)
  OBVIOUS
<1> QED
  BY <1>1 DEF Mark, Markers

LEMMA MarkSame ==
  ASSUME NEW fp, NEW gp, NEW n \in Nat \ {0}, NEW t,
         \A r \in 1..(n - 1) : gp[r] = fp[r]
  PROVE  Mark(gp, n, t) <=> Mark(fp, n, t)
<1>1. \A q \in 1..(n - 1) : \A r \in (q + 1)..(n - 1) : r \in 1..(n - 1)
  OBVIOUS
<1> QED
  BY <1>1 DEF Mark

(* push_var_access, where the entry may stand at the end.                  *)
LEMMA GrammarGrows ==
  ASSUME IInv, FlatGrammar, NEW va \in VarAccess, footprint' = Append(footprint, va),
         LET n == Len(footprint) + 1
         IN  /\ va.type = "IfStmt" => Mark(footprint, n, "none") \/ Mark(footprint, n, "EndIf")
             /\ va.type = "ThenBlock" => Mark(footprint, n, "IfStmt")
             /\ va.type = "ElseStmt" => Mark(footprint, n, "ThenBlock")
             /\ va.type = "EndIf" => Mark(footprint, n, "ThenBlock") \/ Mark(footprint, n, "ElseStmt")
  PROVE  /\ FlatGrammar'
         /\ Len(footprint') = Len(footprint) + 1
         /\ va.type \in Markers => Mark(footprint', Len(footprint') + 1, va.type)
         /\ va.type \notin Markers => \A t : Mark(footprint, Len(footprint) + 1, t)
                                        => Mark(footprint', Len(footprint') + 1, t)
<1> DEFINE n == Len(footprint) + 1
<1>1. /\ Len(footprint) \in Nat /\ Len(footprint') = n
      /\ \A r \in 1..(n - 1) : footprint'[r] = footprint[r]
      /\ footprint'[n] = va
  <2>1. footprint \in Seq(VarAccess)
    BY DEF IInv, FootprintInv, FootprintTypeOK
  <2> QED
    BY <2>1, AppendFacts, LenProperties
<1>2. ASSUME NEW i \in 1..n, NEW t
      PROVE  Mark(footprint', i, t) <=> Mark(footprint, i, t)
  <2>1. i \in Nat \ {0} /\ \A r \in 1..(i - 1) : r \in 1..(n - 1)
    BY <1>1
  <2> QED
    BY <2>1, <1>1, MarkSame
<1>3. FlatGrammar'
  <2> SUFFICES ASSUME NEW i \in 1..n PROVE FollowsAt(footprint', i)
    BY <1>1 DEF FlatGrammar
  <2>1. CASE i = n
    BY <2>1, <1>1, <1>2 DEF FollowsAt
  <2>2. CASE i # n
    <3>1. i \in 1..(n - 1) /\ footprint'[i] = footprint[i]
      BY <2>2, <1>1
    <3> QED
      BY <3>1, <1>1, <1>2 DEF FollowsAt, FlatGrammar
  <2> QED
    BY <2>1, <2>2
<1>4. n \in 1..n /\ n \in Nat \ {0}
  BY <1>1
<1>5. va.type \in Markers => Mark(footprint', n + 1, va.type)
  BY <1>1, <1>4, MarkSteps
<1>6. ASSUME va.type \notin Markers, NEW t, Mark(footprint, n, t)
      PROVE  Mark(footprint', n + 1, t)
  <2>1. Mark(footprint', n, t)
    BY <1>6, <1>2, <1>4
  <2> QED
    BY <2>1, <1>1, <1>4, <1>6, MarkSteps
<1> HIDE DEF n
<1> QED
  BY <1>1, <1>3, <1>5, <1>6 DEF n

LEMMA GrowStep ==
  ASSUME IInv, Flat, GrowInv, [Next]_vars
  PROVE  GrowInv'
<1> DEFINE n == Len(footprint) + 1
<1>1. CASE Visit
  <2>1. pc = "visit" /\ FootprintNext /\ FlatGrammar
    BY <1>1 DEF Visit, GrowInv
  <2>2. nesting \in {<<>>, <<"cond">>, <<"then">>, <<"else">>}
    BY <2>1 DEF GrowInv
  <2>3. \/ nesting = <<>> /\ (Mark(footprint, n, "none") \/ Mark(footprint, n, "EndIf"))
        \/ nesting = <<"cond">> /\ Mark(footprint, n, "IfStmt")
        \/ nesting = <<"then">> /\ Mark(footprint, n, "ThenBlock")
        \/ nesting = <<"else">> /\ Mark(footprint, n, "ElseStmt")
    BY <2>1 DEF GrowInv
  <2> HIDE DEF n
  <2>4. \A parts : InPart(parts) <=> nesting # <<>> /\ nesting[1] \in parts
    BY <2>2 DEF InPart, Top
  <2>5. Len(footprint) \in Nat
    BY LenProperties DEF IInv, FootprintInv, FootprintTypeOK
  <2>6. CASE (\E v \in Vars : EmitAccess(v)) \/ (\E t \in LockCalls, l \in Locks : EmitLockCall(t, l))
    <3>1. PICK va \in VarAccess : /\ va.type \notin Markers
                                  /\ footprint' = Append(footprint, va) /\ nesting' = nesting
      BY <2>6 DEF EmitAccess, EmitLockCall, push_var_access, VarAccess, LockCalls, Markers
    <3>2. /\ FlatGrammar' /\ Len(footprint') = Len(footprint) + 1
          /\ \A t : Mark(footprint, n, t) => Mark(footprint', Len(footprint') + 1, t)
      BY <2>1, <3>1, GrammarGrows DEF n, Markers
    <3> QED
      BY <2>3, <3>1, <3>2 DEF GrowInv
  <2>7. CASE EmitIfStmt
    <3>1. Len(nesting) < 1
      BY <2>7, <2>2, FootprintAssumption DEF EmitIfStmt, Flat
    <3>2. nesting = <<>>
      BY <3>1, <2>2
    <3>3. nesting' = <<"cond">> /\ Marker("IfStmt") \in VarAccess
          /\ footprint' = Append(footprint, Marker("IfStmt"))
      BY <2>7, <3>2 DEF EmitIfStmt, push_var_access, Marker, VarAccess, Markers
    <3> QED
      BY <2>1, <2>3, <3>2, <3>3, GrammarGrows DEF n, GrowInv, Markers, Marker
  <2>8. CASE EmitThenBlock
    <3>1. nesting = <<"cond">> /\ Marker("ThenBlock") \in VarAccess /\ nesting' = <<"then">>
          /\ footprint' = Append(footprint, Marker("ThenBlock"))
      BY <2>8, <2>2, <2>4 DEF EmitThenBlock, push_var_access, SetTop, Marker, VarAccess, Markers
    <3> QED
      BY <2>1, <2>3, <3>1, GrammarGrows DEF n, GrowInv, Markers, Marker
  <2>9. CASE EmitElseStmt
    <3>1. nesting = <<"then">> /\ Marker("ElseStmt") \in VarAccess /\ nesting' = <<"else">>
          /\ footprint' = Append(footprint, Marker("ElseStmt"))
      BY <2>9, <2>2, <2>4 DEF EmitElseStmt, push_var_access, SetTop, Marker, VarAccess, Markers
    <3> QED
      BY <2>1, <2>3, <3>1, GrammarGrows DEF n, GrowInv, Markers, Marker
  <2>10. CASE EmitEndIf
    <3>1. nesting \in {<<"then">>, <<"else">>} /\ Marker("EndIf") \in VarAccess /\ nesting' = <<>>
          /\ footprint' = Append(footprint, Marker("EndIf"))
      BY <2>10, <2>2, <2>4 DEF EmitEndIf, push_var_access, PopTop, Marker, VarAccess, Markers
    <3>2. Mark(footprint, n, "ThenBlock") \/ Mark(footprint, n, "ElseStmt")
      BY <2>3, <3>1
    <3>3. Marker("EndIf").type = "EndIf"
      BY DEF Marker
    <3>4. FlatGrammar' /\ Mark(footprint', Len(footprint') + 1, "EndIf")
      BY <2>1, <3>1, <3>2, <3>3, GrammarGrows DEF n, Markers
    <3> QED
      BY <3>1, <3>4 DEF GrowInv
  <2>11. CASE EmitStrayEndIf
    BY <2>11, <2>5 DEF EmitStrayEndIf, Flat
  <2> QED
    BY <2>1, <2>6, <2>7, <2>8, <2>9, <2>10, <2>11 DEF FootprintNext
<1>2. CASE UNCHANGED footprint /\ (pc' = "visit" => UNCHANGED <<pc, nesting>>)
  BY <1>2 DEF GrowInv, FlatGrammar
<1>3. ASSUME Scan PROVE UNCHANGED footprint /\ pc' # "visit"
  BY <1>3 DEF Scan, AcquireLock, ReleaseLock, BeginIf, BeginElse, StartLoop, EndIf, SkipEntry,
         SplitOpenRange, ReopenEndedRange, NextField, EndLoop, FinishScan, At, Scanning, InLoop
<1> QED
  BY <1>1, <1>2, <1>3 DEF Next, StartScan, Done, vars
-----------------------------------------------------------------------------
(* One entry                                                               *)

(* What HeldAfter does to the locks held and to the block around.          *)
LEMMA HeldAfterFacts ==
  ASSUME NEW h, HeldType(h), NEW va \in VarAccess,
         va.type = "ThenBlock" => h.around = <<>>,
         va.type \in {"ElseStmt", "EndIf"} => h.around # <<>>
  PROVE  LET g == HeldAfter(h, va)
         IN  /\ HeldType(g)
             /\ va.type = "LockAcquire" =>
                  g.must = h.must \cup {va.usr} /\ g.around = h.around
             /\ va.type = "LockRelease" =>
                  g.must = h.must \ {va.usr} /\ g.around = h.around
             /\ va.type \in {"IfStmt", "Null", "Access"} => g = h
             /\ va.type = "ThenBlock" =>
                  g.must = h.must /\ g.around # <<>> /\ g.around[1].must = h.must
             /\ va.type = "ElseStmt" => g.must = h.around[1].must /\ g.around # <<>>
             /\ va.type = "EndIf" => g.must \subseteq h.must /\ g.around = <<>>
<1> DEFINE e == [must |-> h.must, may |-> h.may]
<1>1. /\ h = [must |-> h.must, may |-> h.may, around |-> h.around]
      /\ h.must \subseteq Locks /\ h.may \subseteq Locks /\ h.around \in Seq(Branch)
      /\ e \in Branch
  BY DEF HeldType, Branch
<1>2. \A b \in Branch : /\ <<b>> \in Seq(Branch) /\ <<b>>[1] = b /\ <<b>> # <<>>
                        /\ Last(<<b>>) = b /\ Front(<<b>>) = <<>>
                        /\ Append(<<>>, b) = <<b>>
  BY DEF Last, Front
<1>3. <<>> \in Seq(Branch)
  OBVIOUS
<1> HIDE DEF e
<1>4. CASE va.type \in {"LockAcquire", "LockRelease"}
  <2>1. va.usr \in Locks
    BY <1>4 DEF VarAccess, Markers
  <2>2. HeldAfter(h, va) = Update(h, va.usr, va.type = "LockAcquire")
    BY <1>4 DEF HeldAfter, LockCalls
  <2>3. va.type = "LockAcquire" =>
          HeldAfter(h, va) = [must |-> h.must \cup {va.usr}, may |-> h.may \cup {va.usr},
                              around |-> h.around]
    BY <1>1, <2>2 DEF Update
  <2>4. va.type = "LockRelease" =>
          HeldAfter(h, va) = [must |-> h.must \ {va.usr}, may |-> h.may \ {va.usr},
                              around |-> h.around]
    BY <1>1, <2>2 DEF Update
  <2> QED
    BY <1>1, <1>4, <2>1, <2>3, <2>4 DEF HeldType
<1>5. CASE va.type \in {"IfStmt", "Null", "Access"}
  BY <1>5 DEF HeldAfter, LockCalls
<1>6. CASE va.type = "ThenBlock"
  <2>1. HeldAfter(h, va) = [must |-> h.must, may |-> h.may, around |-> <<e>>]
    BY <1>1, <1>2, <1>6 DEF HeldAfter, LockCalls, e
  <2> QED
    BY <1>1, <1>2, <1>6, <2>1 DEF HeldType, e
<1>7. CASE va.type = "ElseStmt"
  <2>1. PICK b \in Branch : h.around = <<b>>
    BY <1>7 DEF HeldType
  <2>2. HeldAfter(h, va) = [must |-> b.must, may |-> b.may, around |-> <<e>>]
    BY <1>1, <1>2, <1>7, <2>1 DEF HeldAfter, LockCalls, e
  <2>3. b.must \subseteq Locks /\ b.may \subseteq Locks
    BY DEF Branch
  <2> QED
    BY <1>1, <1>2, <1>7, <2>1, <2>2, <2>3 DEF HeldType
<1>8. CASE va.type = "EndIf"
  <2>1. PICK b \in Branch : h.around = <<b>>
    BY <1>8 DEF HeldType
  <2>2. HeldAfter(h, va) = [must |-> h.must \cap b.must, may |-> h.may \cup b.may,
                            around |-> <<>>]
    BY <1>1, <1>2, <1>8, <2>1 DEF HeldAfter, LockCalls
  <2>3. b.must \subseteq Locks /\ b.may \subseteq Locks
    BY DEF Branch
  <2> QED
    BY <1>1, <1>3, <1>8, <2>2, <2>3 DEF HeldType
<1>9. va.type \in {"Access", "Null", "LockAcquire", "LockRelease",
                   "IfStmt", "ThenBlock", "ElseStmt", "EndIf"}
  BY DEF VarAccess, LockCalls, Markers
<1> QED
  BY <1>4, <1>5, <1>6, <1>7, <1>8, <1>9

(* Where the scan is, by the entry it has come to: the grammar fixes the   *)
(* marker behind it, which fixes the depth.                                *)
LEMMA PlacedAt ==
  ASSUME IInv, FlatGrammar, Placed, pos \in 1..Len(footprint)
  PROVE  /\ footprint[pos].type = "IfStmt" =>
              Here.around = <<>> /\ depth = IF pc = "active" THEN 1 ELSE 0
         /\ footprint[pos].type = "ThenBlock" => Here.around = <<>> /\ depth = 1
         /\ footprint[pos].type = "ElseStmt" =>
              Mark(footprint, pos, "ThenBlock") /\ Here.around # <<>> /\ depth = 1
         /\ footprint[pos].type = "EndIf" => Here.around # <<>> /\ depth = 1
<1>1. PICK t \in Markers \cup {"none"} : Mark(footprint, pos, t) /\ DepthIs(t, Here.around, depth, pc)
  BY DEF Placed
<1>2. \A s : Mark(footprint, pos, s) => s = t
  BY <1>1, ScanTypes, MarkUnique
<1>3. FollowsAt(footprint, pos)
  BY DEF FlatGrammar
<1> QED
  BY <1>1, <1>2, <1>3 DEF FollowsAt, DepthIs

(* A then block where a condition the scan is in ends lies ahead only      *)
(* while that condition or its if is being read.                           *)
LEMMA NearIs ==
  ASSUME IInv, pos \in 1..Len(footprint), NEW x \in Nat, Near(footprint, pos, x)
  PROVE  /\ footprint[pos].type = "ThenBlock" => x <= pos
         /\ footprint[pos].type = "ElseStmt" /\ Mark(footprint, pos, "ThenBlock") => x < pos
<1>1. pos \in Nat
  OBVIOUS
<1> SUFFICES ASSUME CondAhead(footprint, pos, x)
             PROVE  /\ footprint[pos].type = "ThenBlock" => x <= pos
                    /\ ~(footprint[pos].type = "ElseStmt" /\ Mark(footprint, pos, "ThenBlock"))
  BY <1>1 DEF Near
<1>2. PICK q \in 1..pos : /\ q < x /\ footprint[q].type = "IfStmt"
                          /\ \A r \in q..(x - 1) : footprint[r].type # "ThenBlock"
  BY DEF CondAhead
<1>3. pos <= x
  BY DEF CondAhead
<1>4. ASSUME footprint[pos].type = "ThenBlock" PROVE x <= pos
  BY <1>1, <1>2, <1>4
<1>5. ASSUME footprint[pos].type = "ElseStmt", Mark(footprint, pos, "ThenBlock") PROVE FALSE
  <2>1. PICK r \in 1..(pos - 1) :
          /\ footprint[r].type = "ThenBlock"
          /\ \A s \in (r + 1)..(pos - 1) : footprint[s].type \notin Markers
    BY <1>5 DEF Mark
  <2>2. q # pos /\ q # r /\ q \notin (r + 1)..(pos - 1)
    BY <1>2, <1>5, <2>1 DEF Markers
  <2>3. r \in q..(x - 1)
    BY <1>1, <1>3, <2>1, <2>2
  <2> QED
    BY <1>2, <2>1, <2>3
<1> QED
  BY <1>4, <1>5

LEMMA AheadStays ==
  ASSUME NEW fp, NEW p \in Nat, NEW x \in Nat, CondAhead(fp, p, x),
         fp[p].type # "ThenBlock"
  PROVE  CondAhead(fp, p + 1, x)
BY DEF CondAhead

(* What a step keeps of the lists.                                         *)
LEMMA InListKept ==
  ASSUME IInv, IInv', OldKept
  PROVE  \A l \in Locks, i \in 1..Size :
           i \in 1..Size' /\ (InList(fields', i, l) <=> InList(fields, i, l))
<1>1. \A i \in 1..Size : fields'[i].hash = fields[i].hash
  BY DEF OldKept, KeptField
<1> QED
  BY <1>1, ListsKept, ScanTypes DEF InList, OldKept
-----------------------------------------------------------------------------
(* One step of the scan                                                    *)

LEMMA HereNext ==
  ASSUME IInv, FlatGrammar, Placed, HeldType(Here), UNCHANGED footprint,
         pos \in 1..Len(footprint)
  PROVE  LET g == HeldAt(footprint, pos + 1)
             va == footprint[pos]
         IN  /\ HeldType(g)
             /\ va.type = "LockAcquire" =>
                  g.must = Here.must \cup {va.usr} /\ g.around = Here.around
             /\ va.type = "LockRelease" =>
                  g.must = Here.must \ {va.usr} /\ g.around = Here.around
             /\ va.type \in {"IfStmt", "Null", "Access"} => g = Here
             /\ va.type = "ThenBlock" =>
                  g.must = Here.must /\ g.around # <<>> /\ g.around[1].must = Here.must
             /\ va.type = "ElseStmt" => g.must = Here.around[1].must /\ g.around # <<>>
             /\ va.type = "EndIf" => g.must \subseteq Here.must /\ g.around = <<>>
<1>1. HeldAt(footprint, pos + 1) = HeldAfter(Here, footprint[pos])
  BY HeldAtSteps DEF Here
<1>2. footprint[pos] \in VarAccess
  BY ScanTypes
<1>3. /\ footprint[pos].type = "ThenBlock" => Here.around = <<>>
      /\ footprint[pos].type \in {"ElseStmt", "EndIf"} => Here.around # <<>>
  BY PlacedAt
<1> QED
  BY <1>1, <1>2, <1>3, HeldAfterFacts

(* The depth and the blocks around follow the markers.                     *)
LEMMA PlacedStep ==
  ASSUME IInv, FlatGrammar, Placed, HeldType(Here), LoopAt, UNCHANGED footprint, Scan
  PROVE  Placed' /\ HeldType(Here)'
<1> DEFINE type == footprint[pos].type
<1>1. PICK t \in Markers \cup {"none"} : Mark(footprint, pos, t) /\ DepthIs(t, Here.around, depth, pc)
  BY DEF Placed
<1>2. /\ pos \in Nat \ {0} /\ Len(footprint) \in Nat /\ SizeMax \in Nat
      /\ pos \in 1..Len(footprint) => 0 < SizeMax
      /\ pc \in {"active", "inactive"} => pos \in 1..Len(footprint)
  BY ScanTypes DEF IInv, LoopInv
<1>3. ASSUME pos' = pos, DepthIs(t, Here.around, depth', pc') PROVE Placed' /\ HeldType(Here)'
  BY <1>1, <1>3 DEF Placed, Here, HeldType, Branch
<1>4. ASSUME pos \in 1..Len(footprint), pos' = pos + 1, NEW s \in Markers \cup {"none"},
             Mark(footprint, pos + 1, s), DepthIs(s, HeldAt(footprint, pos + 1).around, depth', pc')
      PROVE  Placed' /\ HeldType(Here)'
  <2>1. HeldType(HeldAt(footprint, pos + 1))
    BY <1>4, HereNext
  <2>2. Here' = HeldAt(footprint, pos + 1)
    BY <1>4 DEF Here
  <2>3. HeldType(Here)'
    BY <2>1, <2>2 DEF HeldType, Branch
  <2> QED
    BY <1>4, <2>2, <2>3 DEF Placed
<1>5. CASE BeginIf
  <2>1. pos' = pos /\ pc' = "active" /\ depth' = Inc(depth) /\ type = "IfStmt" /\ pc = "scan"
        /\ pos \in 1..Len(footprint)
    BY <1>2, <1>5 DEF BeginIf, StartLoop, At, Scanning
  <2>2. depth = 0 /\ Here.around = <<>>
    BY <2>1, PlacedAt
  <2>3. depth' = 1
    BY <2>1, <2>2, <1>2 DEF Inc
  <2>4. t \in {"none", "EndIf"}
    <3>1. Mark(footprint, pos, "none") \/ Mark(footprint, pos, "EndIf")
      BY <2>1 DEF FlatGrammar, FollowsAt
    <3> QED
      BY <3>1, <1>1, <1>2, MarkUnique
  <2>5. DepthIs(t, Here.around, depth', pc')
    BY <2>1, <2>2, <2>3, <2>4 DEF DepthIs, Here
  <2> QED
    BY <2>1, <2>5, <1>3
<1>6. CASE BeginElse \/ SplitOpenRange \/ ReopenEndedRange \/ NextField \/ FinishScan
  <2>1. pos' = pos /\ depth' = depth /\ (pc' = "active" <=> pc = "active")
    BY <1>6 DEF BeginElse, StartLoop, SplitOpenRange, ReopenEndedRange, NextField, FinishScan,
                InLoop, At, Scanning
  <2>2. DepthIs(t, Here.around, depth', pc')
    BY <2>1, <1>1 DEF DepthIs, Here
  <2> QED
    BY <2>1, <2>2, <1>3
<1>7. CASE AcquireLock \/ ReleaseLock \/ (SkipEntry /\ type # "ThenBlock")
  <2>1. /\ type \in {"LockAcquire", "LockRelease", "Null", "Access"}
        /\ pos' = pos + 1 /\ depth' = depth /\ pc' = pc /\ pos \in 1..Len(footprint)
    BY <1>2, <1>7 DEF AcquireLock, ReleaseLock, SkipEntry, At, Scanning
  <2>2. HeldAt(footprint, pos + 1).around = Here.around
    BY <2>1, HereNext
  <2>3. Mark(footprint, pos + 1, t)
    BY <2>1, <1>1, <1>2, MarkSteps DEF Markers
  <2>4. DepthIs(t, HeldAt(footprint, pos + 1).around, depth', pc')
    BY <2>1, <2>2, <1>1 DEF DepthIs
  <2> QED
    BY <2>1, <2>3, <2>4, <1>4
<1>8. CASE EndIf
  <2>1. type = "EndIf" /\ pos' = pos + 1 /\ depth' = Dec(depth) /\ pc' = "scan"
        /\ pos \in 1..Len(footprint)
    BY <1>2, <1>8 DEF EndIf, At, Scanning
  <2>2. depth' = 0
    BY <2>1, PlacedAt DEF Dec
  <2>3. Mark(footprint, pos + 1, "EndIf") /\ HeldAt(footprint, pos + 1).around = <<>>
    BY <2>1, <1>2, MarkSteps, HereNext DEF Markers
  <2>4. DepthIs("EndIf", HeldAt(footprint, pos + 1).around, depth', pc')
    BY <2>1, <2>2, <2>3 DEF DepthIs
  <2> QED
    BY <2>1, <2>3, <2>4, <1>4 DEF Markers
<1>9. CASE (SkipEntry /\ type = "ThenBlock") \/ EndLoop
  <2>1. /\ type \in {"ThenBlock", "IfStmt", "ElseStmt"}
        /\ type = "IfStmt" => pc = "active"
        /\ pos' = pos + 1 /\ depth' = depth /\ pc' = "scan" /\ pos \in 1..Len(footprint)
    BY <1>2, <1>9 DEF SkipEntry, EndLoop, Scanning, LoopAt
  <2>2. depth = 1
    BY <2>1, PlacedAt
  <2>3. Mark(footprint, pos + 1, type)
    BY <2>1, <1>2, MarkSteps DEF Markers
  <2>4. /\ type = "IfStmt" => HeldAt(footprint, pos + 1).around = <<>>
        /\ type # "IfStmt" => HeldAt(footprint, pos + 1).around # <<>>
    BY <2>1, HereNext, PlacedAt
  <2>5. DepthIs(type, HeldAt(footprint, pos + 1).around, depth', pc')
    BY <2>1, <2>2, <2>4 DEF DepthIs
  <2> QED
    BY <2>1, <2>3, <2>5, <1>4 DEF Markers
<1> QED
  BY <1>5, <1>6, <1>7, <1>8, <1>9 DEF Scan
(* Where the elements start: behind the scan, or where the condition ends. *)
LEMMA StartsStep ==
  ASSUME IInv, IInv', OrderInv, OldKept, LoopAt, StartsNear, UNCHANGED footprint, Scan
  PROVE  StartsNear'
<1>1. /\ pos \in Nat \ {0} /\ Size \in Nat
      /\ \A i \in 1..Size : fields[i].start \in Nat /\ fields'[i].start = fields[i].start
  BY ScanTypes DEF OldKept, KeptField
<1>2. pos' \in {pos, pos + 1}
  BY DEF Scan, AcquireLock, ReleaseLock, BeginIf, BeginElse, StartLoop, EndIf, SkipEntry,
         SplitOpenRange, ReopenEndedRange, NextField, EndLoop, FinishScan
<1>3. pc = "inactive" => pos' = pos + 1 \/ pc' = "inactive"
  BY DEF Scan, AcquireLock, ReleaseLock, BeginIf, BeginElse, StartLoop, EndIf, SkipEntry,
         SplitOpenRange, ReopenEndedRange, NextField, EndLoop, FinishScan, At, Scanning, InLoop
<1>4. ASSUME NEW i \in 1..Size
      PROVE  \/ Near(footprint', pos', fields'[i].start)
             \/ pc' = "inactive" /\ fields'[i].start = pos'
  <2>1. CASE Near(footprint, pos, fields[i].start)
    BY <2>1, <1>1, <1>2, NearStays
  <2>2. CASE pc = "inactive" /\ fields[i].start = pos
    BY <2>2, <1>1, <1>2, <1>3 DEF Near
  <2> QED
    BY <2>1, <2>2 DEF StartsNear
<1>5. ASSUME Size' = Size + 1
      PROVE  \/ Near(footprint', pos', fields'[Size + 1].start)
             \/ pc' = "inactive" /\ fields'[Size + 1].start = pos'
  <2>1. CASE AcquireLock
    <3>1. fields'[Size + 1].start = pos /\ pos' = pos + 1
      BY <2>1, AcquireFacts DEF AcquireLock, NewField
    <3> QED
      BY <3>1, <1>1 DEF Near
  <2>2. CASE SplitOpenRange
    <3>1. fields'[Size + 1].start = start /\ pos' = pos
      BY <2>2, SplitFacts DEF SplitOpenRange
    <3>2. CondAhead(footprint, pos, start)
      BY <2>2 DEF SplitOpenRange, InLoop, LoopAt
    <3> QED
      BY <3>1, <3>2 DEF Near
  <2>3. CASE ReopenEndedRange
    <3>1. fields'[Size + 1].start = start
      BY <2>3, ReopenFacts
    <3>2. pos' = pos /\ pc' = "inactive" /\ start = pos
      BY <2>3 DEF ReopenEndedRange, InLoop, OrderInv
    <3> QED
      BY <3>1, <3>2
  <2>4. CASE ReleaseLock
    BY <1>1, <1>5, <2>4, ReleaseFacts
  <2>5. CASE UNCHANGED fields
    BY <1>1, <1>5, <2>5 DEF Size
  <2> QED
    BY <2>1, <2>2, <2>3, <2>4, <2>5 DEF Scan, BeginIf, BeginElse, StartLoop, EndIf, SkipEntry,
         NextField, EndLoop, FinishScan, array
<1>6. \A i \in 1..Size' : i \in 1..Size \/ (i = Size + 1 /\ Size' = Size + 1)
  BY <1>1 DEF OldKept
<1> QED
  BY <1>4, <1>5, <1>6 DEF StartsNear

(* Both copying loops, where the array is extended in place: the copy is   *)
(* the last element of the list of its source.                             *)
LEMMA CopyListed ==
  ASSUME IInv, IInv', OldKept, Flat, SplitOpenRange \/ ReopenEndedRange
  PROVE  /\ Size' = Size + 1 /\ k \in 1..Size /\ fields[k].next = NoPtr
         /\ \A i \in 1..Size : i # k => SameField(fields[i], fields'[i])
         /\ fields'[Size + 1].end = SizeMax /\ fields'[Size + 1].next = NoPtr
         /\ \A l \in Locks : InList(fields', Size + 1, l) <=> InList(fields, k, l)
<1>1. TRUE \notin Moves
  BY DEF Flat
<1>2. /\ Size' = Size + 1 /\ k \in 1..Size /\ fields[k].next = NoPtr
      /\ \A i \in 1..Size : i # k => SameField(fields[i], fields'[i])
      /\ fields'[k].next.idx = Size + 1
      /\ fields'[Size + 1].hash = fields[k].hash /\ fields'[Size + 1].end = SizeMax
      /\ fields'[Size + 1].next = NoPtr /\ fields'[Size + 1].head = FALSE
  BY <1>1, SplitFacts, ReopenFacts
<1>3. ListOf(fields')[Size + 1] = ListOf(fields)[k]
  BY <1>2, NewInList
<1> QED
  BY <1>2, <1>3 DEF InList

(* Every list keeps a last element.                                        *)
LEMMA TailedStep ==
  ASSUME IInv, IInv', OldKept, Flat, Scan, NEW l \in Locks, TailedAt(fields, Size, l)
  PROVE  TailedAt(fields', Size', l)
<1>1. PICK i \in 1..Size : InList(fields, i, l) /\ fields[i].next = NoPtr
  BY DEF TailedAt
<1>2. i \in 1..Size' /\ InList(fields', i, l)
  BY <1>1, InListKept
<1>3. CASE AcquireLock
  BY <1>1, <1>2, <1>3, AcquireFacts DEF SameField, SameRange, TailedAt
<1>4. CASE ReleaseLock
  BY <1>1, <1>2, <1>4, ReleaseFacts DEF TailedAt
<1>5. CASE SplitOpenRange \/ ReopenEndedRange
  <2>1. CASE i = k
    <3>1. InList(fields', Size + 1, l) /\ fields'[Size + 1].next = NoPtr /\ Size + 1 \in 1..Size'
      BY <1>1, <1>5, <2>1, CopyListed, ScanTypes
    <3> QED
      BY <3>1 DEF TailedAt
  <2>2. CASE i # k
    BY <1>1, <1>2, <1>5, <2>2, CopyListed DEF SameField, SameRange, TailedAt
  <2> QED
    BY <2>1, <2>2
<1>6. CASE UNCHANGED fields
  BY <1>1, <1>2, <1>6 DEF TailedAt
<1> QED
  BY <1>3, <1>4, <1>5, <1>6 DEF Scan, BeginIf, BeginElse, StartLoop, EndIf, SkipEntry,
     NextField, EndLoop, FinishScan, array

(* A range that is open is the last of its list.                           *)
LEMMA OpenTailed ==
  ASSUME IInv, NEW l \in Locks, OpenAt(fields, Size, l)
  PROVE  TailedAt(fields, Size, l)
BY ScanTypes DEF OpenAt, TailedAt, GoodField

(* The block around: what was held there keeps a list.                     *)
LEMMA AroundStep ==
  ASSUME IInv, IInv', OldKept, Flat, FlatGrammar, LoopAt, Placed, HeldType(Here), MustAhead,
         AroundTailed, UNCHANGED footprint, Scan
  PROVE  AroundTailed'
<1> SUFFICES ASSUME pc' # "inactive", Mark(footprint, pos', "ThenBlock"),
                    NEW l \in HeldAt(footprint, pos').around[1].must
             PROVE  TailedAt(fields', Size', l)
  BY DEF AroundTailed, Here
<1>1. /\ pos \in Nat \ {0} /\ Len(footprint) \in Nat
      /\ pc \in {"active", "inactive"} => pos \in 1..Len(footprint)
  BY ScanTypes DEF IInv, LoopInv
<1>2. pos' \in Nat \ {0}
  BY DEF IInv
<1>3. l \in Locks
  <2>1. Placed' /\ HeldType(Here)'
    BY PlacedStep
  <2>2. PICK t \in Markers \cup {"none"} :
          Mark(footprint', pos', t) /\ DepthIs(t, Here'.around, depth', pc')
    BY <2>1 DEF Placed
  <2>3. t = "ThenBlock"
    BY <1>2, <2>2, MarkUnique
  <2>4. Here'.around # <<>> /\ Here' = HeldAt(footprint, pos')
    BY <2>2, <2>3 DEF DepthIs, Here
  <2>5. PICK e \in Branch : Here'.around = <<e>>
    BY <2>1, <2>4 DEF HeldType, Branch
  <2>6. l \in e.must
    BY <2>4, <2>5
  <2> QED
    BY <2>6 DEF Branch
<1>4. pos' \in {pos, pos + 1}
  BY DEF Scan, AcquireLock, ReleaseLock, BeginIf, BeginElse, StartLoop, EndIf, SkipEntry,
         SplitOpenRange, ReopenEndedRange, NextField, EndLoop, FinishScan
<1>5. pos' = pos => pc # "inactive"
  BY <1>1 DEF Scan, AcquireLock, ReleaseLock, BeginIf, BeginElse, StartLoop, EndIf, SkipEntry,
         SplitOpenRange, ReopenEndedRange, NextField, EndLoop, FinishScan, At, Scanning, InLoop
<1>6. pos' = pos + 1 =>
        /\ pos \in 1..Len(footprint)
        /\ pc = "inactive" => footprint[pos].type = "ElseStmt"
  BY <1>1 DEF Scan, AcquireLock, ReleaseLock, BeginIf, BeginElse, StartLoop, EndIf, SkipEntry,
         SplitOpenRange, ReopenEndedRange, NextField, EndLoop, FinishScan, At, Scanning, LoopAt
<1>7. CASE pos' = pos
  <2>1. TailedAt(fields, Size, l)
    BY <1>5, <1>7 DEF AroundTailed, Here
  <2> QED
    BY <1>3, <2>1, TailedStep
<1>8. CASE pos' = pos + 1 /\ footprint[pos].type \in Markers
  <2>1. footprint[pos].type = "ThenBlock"
    BY <1>1, <1>2, <1>8, MarkSteps, MarkUnique
  <2>2. pc # "inactive" /\ l \in Here.must
    BY <1>6, <1>8, <2>1, HereNext
  <2>3. OpenAt(fields, Size, l)
    BY <2>2 DEF MustAhead, HeldCovered
  <2> QED
    BY <1>3, <2>3, OpenTailed, TailedStep
<1>9. CASE pos' = pos + 1 /\ footprint[pos].type \notin Markers
  <2>1. pc # "inactive"
    BY <1>6, <1>9 DEF Markers
  <2>2. PICK t : Mark(footprint, pos, t)
    BY DEF Placed
  <2>3. Mark(footprint, pos, "ThenBlock")
    <3>1. Mark(footprint, pos + 1, t)
      BY <1>1, <1>9, <2>2, MarkSteps
    <3>2. t = "ThenBlock"
      BY <1>2, <1>9, <3>1, MarkUnique
    <3> QED
      BY <2>2, <3>2
  <2>4. footprint[pos].type \in {"LockAcquire", "LockRelease", "Null", "Access"}
    BY <1>6, <1>9, ScanTypes DEF VarAccess, LockCalls
  <2>5. HeldAt(footprint, pos').around = Here.around
    BY <1>6, <1>9, <2>4, HereNext
  <2>6. TailedAt(fields, Size, l)
    BY <2>1, <2>3, <2>5 DEF AroundTailed
  <2> QED
    BY <1>3, <2>6, TailedStep
<1> QED
  BY <1>4, <1>7, <1>8, <1>9
-----------------------------------------------------------------------------
(* The locks held in the block being read                                  *)

(* A step that writes no element, outside the loop of an else block.       *)
LEMMA HeldSkip ==
  ASSUME IInv, UNCHANGED <<footprint, fields>>, pc # "inactive", StartsNear,
         \/ pos' = pos
         \/ pos' = pos + 1 /\ pos \in 1..Len(footprint),
         NEW l \in Locks, HeldCovered(l)
  PROVE  HeldCovered(l)'
<1>1. /\ pos \in Nat /\ Size' = Size /\ Size \in Nat
      /\ \A i \in 1..Size : fields[i].start \in Nat /\ fields[i].end \in Nat
  BY ScanTypes DEF Size
<1>2. OpenAt(fields, Size, l) /\ CoveredAt(fields, Size, footprint, pos, l)
  BY DEF HeldCovered
<1>3. CASE pos' = pos
  BY <1>1, <1>2, <1>3 DEF HeldCovered
<1>4. CASE pos' = pos + 1 /\ footprint[pos].type # "ThenBlock"
  <2>1. PICK i \in 1..Size : /\ InList(fields, i, l) /\ fields[i].start < pos
                             /\ fields[i].end = SizeMax \/ CondAhead(footprint, pos, fields[i].end)
    BY <1>2 DEF CoveredAt
  <2>2. fields[i].end = SizeMax \/ CondAhead(footprint, pos + 1, fields[i].end)
    BY <2>1, <1>1, <1>4, AheadStays
  <2>3. fields[i].start < pos + 1
    BY <2>1, <1>1
  <2>4. CoveredAt(fields, Size, footprint, pos + 1, l)
    BY <2>1, <2>2, <2>3 DEF CoveredAt
  <2> QED
    BY <1>1, <1>2, <1>4, <2>4 DEF HeldCovered
<1>5. CASE pos' = pos + 1 /\ footprint[pos].type = "ThenBlock"
  <2>1. PICK i \in 1..Size : InList(fields, i, l) /\ fields[i].end = SizeMax
    BY <1>2 DEF OpenAt
  <2>2. Near(footprint, pos, fields[i].start) /\ pos \in 1..Len(footprint)
    BY <1>1, <1>5 DEF StartsNear
  <2>3. fields[i].start < pos + 1
    BY <2>2, <1>1, <1>5, NearIs
  <2>4. CoveredAt(fields, Size, footprint, pos + 1, l)
    BY <2>1, <2>3 DEF CoveredAt
  <2> QED
    BY <1>1, <1>2, <1>5, <2>4 DEF HeldCovered
<1> QED
  BY <1>3, <1>4, <1>5

LEMMA HeldAcquire ==
  ASSUME IInv, IInv', OldKept, AcquireLock, NEW l \in Locks,
         HeldCovered(l) \/ l = footprint[pos].usr
  PROVE  HeldCovered(l)'
<1> DEFINE u == footprint[pos].usr
<1>1. /\ footprint[pos].type = "LockAcquire" /\ pos' = pos + 1 /\ UNCHANGED footprint
      /\ pos \in Nat /\ Size \in Nat
      /\ \A i \in 1..Size : fields[i].start \in Nat /\ fields[i].end \in Nat
  BY ScanTypes DEF AcquireLock, At
<1>2. /\ Size' = Size + 1
      /\ \A i \in 1..Size : SameField(fields[i], fields'[i])
      /\ fields'[Size + 1] = NewField(u)
  BY AcquireFacts
<1>3. CASE HeldCovered(l)
  <2>1. PICK i \in 1..Size : InList(fields, i, l) /\ fields[i].end = SizeMax
    BY <1>3 DEF HeldCovered, OpenAt
  <2>2. i \in 1..Size' /\ InList(fields', i, l) /\ fields'[i].end = SizeMax
    BY <2>1, <1>2, InListKept DEF SameField, SameRange
  <2>3. PICK j \in 1..Size : /\ InList(fields, j, l) /\ fields[j].start < pos
                             /\ fields[j].end = SizeMax \/ CondAhead(footprint, pos, fields[j].end)
    BY <1>3 DEF HeldCovered, CoveredAt
  <2>4. /\ j \in 1..Size' /\ InList(fields', j, l)
        /\ fields'[j].start = fields[j].start /\ fields'[j].end = fields[j].end
    BY <2>3, <1>2, InListKept DEF SameField, SameRange
  <2>5. fields[j].start < pos + 1
    BY <2>3, <1>1
  <2>6. fields[j].end = SizeMax \/ CondAhead(footprint, pos + 1, fields[j].end)
    BY <2>3, <1>1, AheadStays
  <2>7. CoveredAt(fields', Size', footprint', pos', l)
    BY <2>4, <2>5, <2>6, <1>1 DEF CoveredAt
  <2> QED
    BY <2>2, <2>7 DEF HeldCovered, OpenAt
<1>4. CASE l = u
  <2>1. /\ NewField(u).start = pos /\ NewField(u).end = SizeMax
        /\ NewField(u).head = TRUE /\ NewField(u).hash = LockHash[u]
    BY DEF NewField
  <2>2. ListOf(fields')[Size + 1] # 0
    BY <1>1, <1>2, <2>1, NewInList
  <2>3. /\ Size + 1 \in 1..Size' /\ InList(fields', Size + 1, l)
        /\ fields'[Size + 1].start < pos' /\ fields'[Size + 1].end = SizeMax
    BY <1>1, <1>2, <1>4, <2>1, <2>2 DEF InList
  <2> QED
    BY <2>3 DEF HeldCovered, OpenAt, CoveredAt
<1> QED
  BY <1>3, <1>4

LEMMA HeldRelease ==
  ASSUME IInv, IInv', OldKept, HashInjective, ReleaseLock, NEW l \in Locks,
         HeldCovered(l), l # footprint[pos].usr
  PROVE  HeldCovered(l)'
<1> DEFINE u == footprint[pos].usr
<1>1. /\ footprint[pos].type = "LockRelease" /\ pos' = pos + 1 /\ UNCHANGED footprint
      /\ pos \in 1..Len(footprint) /\ pos \in Nat /\ Size \in Nat
      /\ \A i \in 1..Size : fields[i].start \in Nat /\ fields[i].end \in Nat
  BY ScanTypes DEF ReleaseLock, At, Scanning
<1>2. u \in Locks
  BY <1>1, ScanTypes DEF VarAccess, LockCalls, Markers
<1>3. \A i \in 1..Size :
        InList(fields, i, l) => fields'[i] = fields[i] /\ InList(fields', i, l) /\ i \in 1..Size'
  <2>1. LockHash[l] # LockHash[u]
    BY <1>2 DEF HashInjective
  <2> QED
    BY <2>1, ReleaseFacts, InListKept DEF InList
<1>4. OpenAt(fields', Size', l)
  BY <1>3 DEF HeldCovered, OpenAt
<1>5. CoveredAt(fields', Size', footprint', pos', l)
  <2>1. PICK j \in 1..Size : /\ InList(fields, j, l) /\ fields[j].start < pos
                             /\ fields[j].end = SizeMax \/ CondAhead(footprint, pos, fields[j].end)
    BY DEF HeldCovered, CoveredAt
  <2>2. fields[j].start < pos + 1
    BY <2>1, <1>1
  <2>3. fields[j].end = SizeMax \/ CondAhead(footprint, pos + 1, fields[j].end)
    BY <2>1, <1>1, AheadStays
  <2> QED
    BY <2>1, <2>2, <2>3, <1>1, <1>3 DEF CoveredAt
<1> QED
  BY <1>4, <1>5 DEF HeldCovered

LEMMA HeldSplit ==
  ASSUME IInv, IInv', OldKept, Flat, LoopAt, SplitOpenRange, NEW l \in Locks, HeldCovered(l)
  PROVE  HeldCovered(l)'
<1>1. UNCHANGED <<footprint, pos>> /\ CondAhead(footprint, pos, start)
  BY DEF SplitOpenRange, InLoop, LoopAt
<1>2. /\ Size' = Size + 1 /\ k \in 1..Size
      /\ \A i \in 1..Size : i # k => SameField(fields[i], fields'[i])
      /\ fields'[Size + 1].end = SizeMax
      /\ InList(fields', Size + 1, l) <=> InList(fields, k, l)
  BY CopyListed
<1>3. Size \in Nat /\ \A i \in 1..Size : i \in 1..Size' /\ (InList(fields', i, l) <=> InList(fields, i, l))
  BY InListKept, ScanTypes
<1>4. fields'[k].start = fields[k].start
      /\ (fields'[k].end = start \/ fields'[k].end = fields[k].end)
  BY SplitFacts DEF SameField, SameRange
<1>5. OpenAt(fields', Size', l)
  <2>1. PICK i \in 1..Size : InList(fields, i, l) /\ fields[i].end = SizeMax
    BY DEF HeldCovered, OpenAt
  <2>2. CASE i = k
    <3>1. Size + 1 \in 1..Size'
      BY <1>2, <1>3
    <3> QED
      BY <2>1, <2>2, <3>1, <1>2 DEF OpenAt
  <2>3. CASE i # k
    BY <2>1, <2>3, <1>2, <1>3 DEF OpenAt, SameField, SameRange
  <2> QED
    BY <2>2, <2>3
<1>6. CoveredAt(fields', Size', footprint', pos', l)
  <2>1. PICK j \in 1..Size : /\ InList(fields, j, l) /\ fields[j].start < pos
                             /\ fields[j].end = SizeMax \/ CondAhead(footprint, pos, fields[j].end)
    BY DEF HeldCovered, CoveredAt
  <2>2. /\ fields'[j].start = fields[j].start
        /\ fields'[j].end = start \/ fields'[j].end = fields[j].end
    BY <1>2, <1>4 DEF SameField, SameRange
  <2> QED
    BY <2>1, <2>2, <1>1, <1>3 DEF CoveredAt
<1> QED
  BY <1>5, <1>6 DEF HeldCovered
(* The loop of the else block passes an element only if it is open, or     *)
(* leaves an open copy of it: every tail has the depth it looks for.       *)
LEMMA PendingStep ==
  ASSUME IInv, IInv', OldKept, Flat, FlatGrammar, LoopAt, Placed, pc = "inactive",
         ReopenEndedRange \/ NextField,
         NEW l \in Locks, PendingAt(fields, Size, k, bound, l)
  PROVE  PendingAt(fields', Size', k', bound', l)
<1>1. PICK i \in 1..Size : /\ InList(fields, i, l) /\ fields[i].next = NoPtr
                           /\ fields[i].end = SizeMax \/ (k <= i /\ i <= bound)
  BY DEF PendingAt
<1>2. /\ Size \in Nat /\ k \in Nat /\ k' = k + 1 /\ bound' = bound
      /\ GoodField(fields[i], i, Size, buffer)
  BY ScanTypes DEF IInv, ReopenEndedRange, NextField
<1>3. i \in 1..Size' /\ InList(fields', i, l)
  BY <1>1, InListKept
<1>4. CASE ReopenEndedRange
  <2>1. CASE i = k
    <3>1. /\ InList(fields', Size + 1, l) /\ fields'[Size + 1].next = NoPtr
          /\ fields'[Size + 1].end = SizeMax /\ Size + 1 \in 1..Size'
      BY <1>1, <1>2, <1>4, <2>1, CopyListed
    <3> QED
      BY <3>1 DEF PendingAt
  <2>2. CASE i # k
    <3>1. fields'[i].next = NoPtr /\ fields'[i].end = fields[i].end
      BY <1>1, <1>4, <2>2, CopyListed DEF SameField, SameRange
    <3>2. fields'[i].end = SizeMax \/ (k + 1 <= i /\ i <= bound)
      BY <1>1, <1>2, <2>2, <3>1
    <3> QED
      BY <1>2, <1>3, <3>1, <3>2 DEF PendingAt
  <2> QED
    BY <2>1, <2>2
<1>5. CASE NextField
  <2>1. fields' = fields /\ ~SelectedInactive(k)
    BY <1>5 DEF NextField, InLoop, array
  <2>2. fields[i].end = SizeMax \/ (k + 1 <= i /\ i <= bound)
    <3>1. CASE i = k
      <4>1. footprint[pos].type = "ElseStmt" /\ pos \in 1..Len(footprint)
        BY ScanTypes DEF LoopAt, IInv, LoopInv
      <4>2. depth = 1
        BY <4>1, PlacedAt
      <4>3. fields[k].depth \in TailDepths /\ TailDepths = {0}
        BY <1>1, <1>2, <3>1 DEF GoodField, TailDepths, Flat
      <4>4. fields[k].depth = Dec(depth)
        BY <4>2, <4>3 DEF Dec
      <4> QED
        BY <1>1, <2>1, <3>1, <4>4 DEF SelectedInactive, IsOpen
    <3>2. CASE i # k
      BY <1>1, <1>2, <3>2
    <3> QED
      BY <3>1, <3>2
  <2> QED
    BY <1>1, <1>2, <1>3, <2>1, <2>2 DEF PendingAt
<1> QED
  BY <1>4, <1>5

(* When the loop is done, what was pending is open.                        *)
LEMMA PendingDone ==
  ASSUME IInv, LoopAt, FlatGrammar, Placed, StartsNear, EndLoop, pc = "inactive",
         NEW l \in Locks, PendingAt(fields, Size, k, bound, l)
  PROVE  HeldCovered(l)'
<1>1. PICK i \in 1..Size : /\ InList(fields, i, l) /\ fields[i].next = NoPtr
                           /\ fields[i].end = SizeMax \/ (k <= i /\ i <= bound)
  BY DEF PendingAt
<1>2. /\ pos' = pos + 1 /\ fields' = fields /\ Size' = Size /\ footprint' = footprint
      /\ k > bound /\ k \in Nat /\ bound \in Nat /\ pos \in Nat
      /\ fields[i].start \in Nat
  BY ScanTypes DEF EndLoop, LoopBound, array, Size, IInv
<1>3. fields[i].end = SizeMax
  BY <1>1, <1>2
<1>4. fields[i].start < pos + 1
  <2>1. footprint[pos].type = "ElseStmt" /\ pos \in 1..Len(footprint)
    BY ScanTypes DEF LoopAt, IInv, LoopInv
  <2>2. Mark(footprint, pos, "ThenBlock")
    BY <2>1, PlacedAt
  <2>3. Near(footprint, pos, fields[i].start) \/ fields[i].start = pos
    BY DEF StartsNear
  <2> QED
    BY <1>2, <2>1, <2>2, <2>3, NearIs
<1> QED
  BY <1>1, <1>2, <1>3, <1>4 DEF HeldCovered, OpenAt, CoveredAt

LEMMA MustAheadStep ==
  ASSUME IInv, IInv', OldKept, Flat, HashInjective, FlatGrammar, LoopAt, Placed,
         HeldType(Here), StartsNear, MustAhead, AroundTailed, UNCHANGED footprint, Scan
  PROVE  MustAhead'
<1>1. /\ pos \in Nat \ {0} /\ Len(footprint) \in Nat /\ Size \in Nat
      /\ pc \in {"active", "inactive"} => pos \in 1..Len(footprint)
      /\ Here.must \subseteq Locks
  BY ScanTypes DEF IInv, LoopInv, HeldType
<1>2. ASSUME pc # "inactive", pc' # "inactive",
             \A l \in HeldAt(footprint, pos').must : l \in Locks /\ HeldCovered(l)'
      PROVE  MustAhead'
  BY <1>2 DEF MustAhead, Here
<1>3. CASE AcquireLock
  <2>1. /\ pc = "scan" /\ pc' = "scan" /\ pos' = pos + 1 /\ pos \in 1..Len(footprint)
        /\ footprint[pos].type = "LockAcquire" /\ footprint[pos].usr \in Locks
    BY <1>1, <1>3, ScanTypes DEF AcquireLock, At, Scanning, VarAccess, LockCalls, Markers
  <2>2. HeldAt(footprint, pos').must = Here.must \cup {footprint[pos].usr}
    BY <2>1, HereNext
  <2>3. \A l \in HeldAt(footprint, pos').must : l \in Locks /\ HeldCovered(l)'
    BY <1>1, <1>3, <2>1, <2>2, HeldAcquire DEF MustAhead
  <2> QED
    BY <1>2, <2>1, <2>3
<1>4. CASE ReleaseLock
  <2>1. /\ pc = "scan" /\ pc' = "scan" /\ pos' = pos + 1 /\ pos \in 1..Len(footprint)
        /\ footprint[pos].type = "LockRelease"
    BY <1>1, <1>4 DEF ReleaseLock, At, Scanning
  <2>2. HeldAt(footprint, pos').must = Here.must \ {footprint[pos].usr}
    BY <2>1, HereNext
  <2>3. \A l \in HeldAt(footprint, pos').must : l \in Locks /\ HeldCovered(l)'
    BY <1>1, <1>4, <2>1, <2>2, HeldRelease DEF MustAhead
  <2> QED
    BY <1>2, <2>1, <2>3
<1>5. CASE SplitOpenRange
  <2>1. pc = "active" /\ pc' = "active" /\ pos' = pos
    BY <1>5 DEF SplitOpenRange, InLoop
  <2>2. \A l \in HeldAt(footprint, pos').must : l \in Locks /\ HeldCovered(l)'
    BY <1>1, <1>5, <2>1, HeldSplit DEF MustAhead, Here
  <2> QED
    BY <1>2, <2>1, <2>2
<1>6. CASE BeginElse
  <2>1. /\ pc = "scan" /\ pc' = "inactive" /\ pos' = pos /\ pos \in 1..Len(footprint)
        /\ footprint[pos].type = "ElseStmt" /\ fields' = fields /\ k' = 1 /\ bound' = Size
    BY <1>1, <1>6 DEF BeginElse, StartLoop, At, Scanning, array, Size
  <2>2. HeldAt(footprint, pos + 1).must = Here.around[1].must
    BY <2>1, HereNext
  <2>3. Mark(footprint, pos, "ThenBlock")
    BY <2>1, PlacedAt
  <2>4. ASSUME NEW l \in HeldAt(footprint, pos + 1).must
        PROVE  PendingAt(fields, Size, 1, Size, l)
    <3>1. TailedAt(fields, Size, l)
      BY <2>1, <2>2, <2>3 DEF AroundTailed
    <3> QED
      BY <3>1, <1>1 DEF TailedAt, PendingAt
  <2> QED
    BY <2>1, <2>4 DEF MustAhead, Size
<1>7. CASE pc = "inactive" /\ (ReopenEndedRange \/ NextField)
  <2>1. pos' = pos /\ pc' = "inactive"
    BY <1>7 DEF ReopenEndedRange, NextField
  <2>2. HeldType(HeldAt(footprint, pos + 1))
    BY <1>1, <1>7, HereNext
  <2>3. \A l \in HeldAt(footprint, pos + 1).must : PendingAt(fields', Size', k', bound', l)
    BY <1>7, <2>2, PendingStep DEF MustAhead, HeldType
  <2> QED
    BY <2>1, <2>3 DEF MustAhead
<1>8. CASE pc = "inactive" /\ EndLoop
  <2>1. pos' = pos + 1 /\ pc' = "scan"
    BY <1>8 DEF EndLoop
  <2>2. HeldType(HeldAt(footprint, pos + 1))
    BY <1>1, <1>8, HereNext
  <2>3. \A l \in HeldAt(footprint, pos + 1).must : HeldCovered(l)'
    BY <1>8, <2>2, PendingDone DEF MustAhead, HeldType
  <2> QED
    BY <2>1, <2>3 DEF MustAhead, Here
<1>9. CASE pc # "inactive" /\ (BeginIf \/ EndIf \/ SkipEntry \/ NextField \/ EndLoop \/ FinishScan)
  <2>1. /\ UNCHANGED <<footprint, fields>> /\ pc' # "inactive"
        /\ \/ pos' = pos
           \/ /\ pos' = pos + 1 /\ pos \in 1..Len(footprint)
              /\ footprint[pos].type \in {"EndIf", "Null", "Access", "ThenBlock", "IfStmt"}
    BY <1>1, <1>9 DEF BeginIf, StartLoop, EndIf, SkipEntry, NextField, EndLoop, FinishScan,
                      At, Scanning, array, LoopAt
  <2>2. HeldAt(footprint, pos').must \subseteq Here.must
    <3>1. CASE pos' = pos
      BY <3>1 DEF Here
    <3>2. CASE /\ pos' = pos + 1 /\ pos \in 1..Len(footprint)
               /\ footprint[pos].type \in {"EndIf", "Null", "Access", "ThenBlock", "IfStmt"}
      BY <3>2, HereNext
    <3> QED
      BY <3>1, <3>2, <2>1
  <2>3. \A l \in Here.must : l \in Locks /\ HeldCovered(l)
    BY <1>1, <1>9 DEF MustAhead
  <2>4. \A l \in HeldAt(footprint, pos').must : l \in Locks /\ HeldCovered(l)'
    BY <1>9, <2>1, <2>2, <2>3, HeldSkip
  <2> QED
    BY <1>2, <1>9, <2>1, <2>4
<1>10. CASE pc # "inactive" /\ ReopenEndedRange
  BY <1>10 DEF ReopenEndedRange, InLoop
<1>11. CASE pc = "inactive" /\ (BeginIf \/ EndIf \/ SkipEntry \/ FinishScan)
  BY <1>11 DEF BeginIf, EndIf, SkipEntry, FinishScan, At, Scanning
<1> QED
  BY <1>3, <1>4, <1>5, <1>6, <1>7, <1>8, <1>9, <1>10, <1>11 DEF Scan
(* The locks held at the access scanned cover it.                          *)
LEMMA CoverHere ==
  ASSUME IInv, HeldType(Here), MustAhead, pc # "inactive", pos \in Accesses(footprint)
  PROVE  Here.must \subseteq CoveringLocks(fields, pos)
<1> SUFFICES ASSUME NEW l \in Here.must PROVE l \in CoveringLocks(fields, pos)
  OBVIOUS
<1>1. /\ pos \in 1..Len(footprint) /\ pos \in Nat /\ footprint[pos].type = "Access"
      /\ pos < SizeMax /\ SizeMax \in Nat
      /\ \A i \in 1..Size : fields[i].end \in Nat
  BY ScanTypes DEF Accesses
<1>2. l \in Locks
  BY DEF HeldType
<1>3. PICK i \in 1..Size : /\ InList(fields, i, l) /\ fields[i].start < pos
                           /\ fields[i].end = SizeMax \/ CondAhead(footprint, pos, fields[i].end)
  BY DEF MustAhead, HeldCovered, CoveredAt
<1>4. pos < fields[i].end
  <2>1. CondAhead(footprint, pos, fields[i].end) =>
          pos <= fields[i].end /\ footprint[fields[i].end].type = "ThenBlock"
    BY DEF CondAhead
  <2> QED
    BY <2>1, <1>1, <1>3
<1> QED
  BY <1>1, <1>2, <1>3, <1>4, CoverIs DEF InList

LEMMA CoverStep ==
  ASSUME IInv, IInv', OldKept, NewBehind, LoopAt, HeldType(Here), MustAhead,
         CoverBehind, UNCHANGED footprint, Scan
  PROVE  CoverBehind'
<1> SUFFICES ASSUME NEW p \in Accesses(footprint), p < pos'
             PROVE  HeldAt(footprint, p).must \subseteq CoveringLocks(fields', p)
  BY DEF CoverBehind
<1>1. p \in DOMAIN footprint /\ p \in Nat /\ pos \in Nat /\ footprint[p].type = "Access"
  BY ScanTypes DEF Accesses
<1>2. CASE p < pos
  BY <1>1, <1>2, CoverKept DEF CoverBehind
<1>3. CASE p = pos /\ pos' = pos + 1
  <2>1. fields' = fields /\ pc # "inactive"
    BY <1>1, <1>3 DEF Scan, AcquireLock, ReleaseLock, BeginIf, BeginElse, StartLoop, EndIf,
       SkipEntry, SplitOpenRange, ReopenEndedRange, NextField, EndLoop, FinishScan,
       At, Scanning, LoopAt, array
  <2> QED
    BY <1>3, <2>1, CoverHere DEF Here
<1>4. pos' \in {pos, pos + 1}
  BY DEF Scan, AcquireLock, ReleaseLock, BeginIf, BeginElse, StartLoop, EndIf, SkipEntry,
         SplitOpenRange, ReopenEndedRange, NextField, EndLoop, FinishScan
<1> QED
  BY <1>1, <1>2, <1>3, <1>4
-----------------------------------------------------------------------------
(* The invariant                                                           *)

LEMMA ScanMustStep ==
  ASSUME IInv, IInv', OrderInv, Flat, HashInjective, ScanInv, GrowInv, MustInv, Scan
  PROVE  MustInv'
<1>1. UNCHANGED footprint /\ LoopAt
  BY LoopAtStep DEF ScanInv
<1>2. OldKept /\ NewBehind
  BY <1>1, ScanKept DEF LoopAt, CondAhead
<1>3. pc # "visit" /\ pc' # "visit"
  BY DEF Scan, AcquireLock, ReleaseLock, BeginIf, BeginElse, StartLoop, EndIf, SkipEntry,
         SplitOpenRange, ReopenEndedRange, NextField, EndLoop, FinishScan, At, Scanning, InLoop
<1>4. /\ FlatGrammar /\ HeldType(Here) /\ Placed
      /\ StartsNear /\ MustAhead /\ AroundTailed /\ CoverBehind
  BY <1>3 DEF MustInv, GrowInv
<1>5. Placed' /\ HeldType(Here)'
  BY <1>1, <1>4, PlacedStep
<1>6. StartsNear'
  BY <1>1, <1>2, <1>4, StartsStep
<1>7. MustAhead'
  BY <1>1, <1>2, <1>4, MustAheadStep
<1>8. AroundTailed'
  BY <1>1, <1>2, <1>4, AroundStep
<1>9. CoverBehind'
  BY <1>1, <1>2, <1>4, CoverStep
<1> QED
  BY <1>3, <1>5, <1>6, <1>7, <1>8, <1>9 DEF MustInv

(* The scan starts with no lock held and no range.                         *)
ScanStart == IInv /\ pos = 1 /\ fields = <<>> /\ depth = 0 /\ pc = "scan"

LEMMA StartMust == ScanStart => MustInv
<1> SUFFICES ASSUME ScanStart PROVE MustInv
  OBVIOUS
<1> USE DEF ScanStart
<1>1. Here = NoneHeld
  BY HeldAtSteps DEF Here
<1>2. HeldType(Here) /\ Here.must = {} /\ Here.around = <<>>
  <2>1. <<>> \in Seq(Branch)
    OBVIOUS
  <2> QED
    BY <1>1, <2>1 DEF NoneHeld, HeldType
<1>3. Mark(footprint, pos, "none")
  BY DEF Mark
<1>4. Placed
  BY <1>2, <1>3 DEF Placed, DepthIs
<1>5. AroundTailed
  <2>1. ~Mark(footprint, pos, "ThenBlock")
    BY <1>3, MarkUnique
  <2> QED
    BY <2>1 DEF AroundTailed
<1>6. StartsNear
  BY DEF StartsNear, Size
<1>7. CoverBehind
  BY ScanTypes DEF CoverBehind, Accesses
<1> QED
  BY <1>2, <1>4, <1>5, <1>6, <1>7 DEF MustInv, MustAhead

LEMMA MustStep ==
  ASSUME IInv, IInv', OrderInv, Flat, HashInjective, ScanInv, GrowInv, MustInv, [Next]_vars
  PROVE  MustInv'
<1>1. CASE Visit
  <2>1. pc' = "visit" /\ depth' = 0
    BY <1>1 DEF Visit, MustInv
  <2> QED
    BY <2>1 DEF MustInv
<1>2. CASE StartScan
  <2>1. pos' = 1 /\ fields' = <<>> /\ depth' = 0 /\ pc' = "scan"
    BY <1>2 DEF StartScan, MustInv, ScanInv, LoopAt, array
  <2>2. ScanStart'
    BY <2>1 DEF ScanStart
  <2>3. ScanStart' => MustInv'
    BY StartMust, PTL
  <2> QED
    BY <2>2, <2>3
<1>3. CASE Scan
  BY <1>3, ScanMustStep
<1>4. CASE Done \/ UNCHANGED vars
  BY <1>4 DEF Done, vars, array, loop, MustInv, HeldType, Here, Placed, StartsNear,
              MustAhead, HeldCovered, AroundTailed, CoverBehind, Size, Branch
<1> QED
  BY <1>1, <1>2, <1>3, <1>4 DEF Next

(* get_lp_fields_in_range, add_protection_range_fields_inactive: a lock    *)
(* held on every path to an access covers it, whatever the branches before *)
(* did with the lock, in every function without nested ifs whose array was *)
(* never moved, provided no two lock objects have the same hash.           *)
THEOREM MustHeldIsCovered ==
  ASSUME Flat, HashInjective PROVE Spec => []MustHeldCovered
<1>1. Init => OrderInv /\ ScanInv
  <2>1. Init => pos = 1 /\ fields = <<>> /\ pc = "visit" /\ footprint = <<>>
    BY DEF Init, FootprintInit
  <2> QED
    BY <2>1, StartExact DEF AtStart, Init, OrderInv, EndedBehind, InOrder, Size
<1>2. Init => GrowInv /\ MustInv
  <2>1. Init => /\ pc = "visit" /\ depth = 0 /\ footprint = <<>> /\ nesting = <<>>
    BY DEF Init, FootprintInit
  <2>2. Mark(<<>>, 1, "none")
    BY MarkSteps
  <2> QED
    BY <2>1, <2>2 DEF GrowInv, FlatGrammar, MustInv
<1>3. IInv /\ IInv' /\ OrderInv /\ ScanInv /\ [Next]_vars => ScanInv'
  BY ExactStep
<1>4. IInv /\ GrowInv /\ [Next]_vars => GrowInv'
  BY GrowStep
<1>5. IInv /\ IInv' /\ OrderInv /\ ScanInv /\ GrowInv /\ MustInv /\ [Next]_vars => MustInv'
  BY MustStep
<1>6. IInv /\ ScanInv /\ MustInv => MustHeldCovered
  BY ScanTypes DEF ScanInv, LoopAt, MustInv, CoverBehind, MustHeldCovered, Accesses
<1> QED
  BY <1>1, <1>2, <1>3, <1>4, <1>5, <1>6, OrderStep, Invariance, PTL DEF Spec
=============================================================================
