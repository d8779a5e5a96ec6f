--------------------------- MODULE LockRangesProofs ---------------------------
(***************************************************************************)
(* Proofs about the lock ranges, for footprints, arrays and nestings of    *)
(* every size and every behaviour of reallocarray.  The invariants of the  *)
(* array are properties of its elements one by one (GoodField), so that    *)
(* each action is examined on the one or two elements it writes.           *)
(***************************************************************************)
EXTENDS LockRanges, SequenceTheorems, TLAPS

(* The null pointer is typed as every list pointer is.                     *)
LEMMA NoPtrType == NoPtr \in [buf : Nat, idx : Nat]
BY DEF NoPtr

(* A function on 1..n is a sequence of length n.                           *)
LEMMA SeqFrom ==
  ASSUME NEW S, NEW n \in Nat, NEW g \in [1..n -> S]
  PROVE  g \in Seq(S) /\ Len(g) = n /\ DOMAIN g = 1..n
<1>1. g \in Seq(S)
  BY SeqDef
<1>2. Len(g) \in Nat /\ DOMAIN g = 1..Len(g)
  BY <1>1, LenProperties
<1>3. QED
  BY <1>1, <1>2

(* Appending to a sequence, element by element.                            *)
LEMMA AppendFacts ==
  ASSUME NEW S, NEW s \in Seq(S), NEW e \in S
  PROVE  /\ Append(s, e) \in Seq(S)
         /\ Len(Append(s, e)) = Len(s) + 1
         /\ DOMAIN Append(s, e) = 1..(Len(s) + 1)
         /\ \A j \in 1..Len(s) : Append(s, e)[j] = s[j]
         /\ Append(s, e)[Len(s) + 1] = e
OBVIOUS
-----------------------------------------------------------------------------
(* The footprint                                                           *)

FootprintInv == FootprintTypeOK /\ Len(footprint) <= MaxLen

(* push_var_access keeps the footprint typed and within its bound.         *)
LEMMA FootprintStep ==
  ASSUME FootprintInv, FootprintNext
  PROVE  FootprintInv'
<1> USE FootprintAssumption DEF FootprintInv, FootprintTypeOK
<1> DEFINE Part == {"cond", "then", "else"}
<1>1. ASSUME NEW va \in VarAccess, NEW nest \in Seq(Part), push_var_access(va, nest)
      PROVE  FootprintInv'
  <2>1. Reserve(nest) \in Nat
    BY DEF Reserve
  <2>2. QED
    BY <1>1, <2>1, AppendFacts DEF push_var_access
<1>2. \A t \in Markers : Marker(t) \in VarAccess
  BY DEF Marker, VarAccess
<1>3. \A part \in Part : nesting # <<>> => SetTop(part) \in Seq(Part)
  BY ExceptSeq, EmptySeq DEF SetTop
<1>4. nesting # <<>> => PopTop \in Seq(Part)
  <2>1. \A j \in 1..(Len(nesting) - 1) : nesting[j] \in Part
    BY LenProperties
  <2>2. QED
    BY <2>1, SubSeqProperties DEF PopTop
<1>5. CASE \E v \in Vars : EmitAccess(v)
  BY <1>1, <1>5 DEF EmitAccess, VarAccess
<1>6. CASE \E t \in LockCalls, l \in Locks : EmitLockCall(t, l)
  BY <1>1, <1>6 DEF EmitLockCall, LockCalls, VarAccess
<1>7. CASE EmitIfStmt
  BY <1>1, <1>2, <1>7, AppendFacts DEF EmitIfStmt, Markers
<1>8. CASE EmitThenBlock
  BY <1>1, <1>2, <1>3, <1>8 DEF EmitThenBlock, InPart, Markers
<1>9. CASE EmitElseStmt
  BY <1>1, <1>2, <1>3, <1>9 DEF EmitElseStmt, InPart, Markers
<1>10. CASE EmitEndIf
  BY <1>1, <1>2, <1>4, <1>10 DEF EmitEndIf, InPart, Markers
<1>11. CASE EmitStrayEndIf
  BY <1>1, <1>2, <1>11 DEF EmitStrayEndIf, Markers
<1>12. QED
  BY <1>5, <1>6, <1>7, <1>8, <1>9, <1>10, <1>11 DEF FootprintNext
-----------------------------------------------------------------------------
(* The elements of the array                                               *)

Size == Len(fields)

(* What an element must satisfy at index i of an array of n elements in    *)
(* the block buf.                                                          *)
GoodField(f, i, n, buf) ==
  /\ f.end = SizeMax => f.next = NoPtr
  /\ f.next # NoPtr => f.next.buf = buf /\ f.next.idx \in (i + 1)..n
  /\ f.next = NoPtr => f.depth \in TailDepths

FieldsGood == \A i \in 1..Size : GoodField(fields[i], i, Size, buffer)

(* A step changes no end and no successor that was written.                *)
Frozen(f, g) ==
  /\ f.end # SizeMax => g.end = f.end
  /\ f.next # NoPtr => g.next.idx = f.next.idx

LoopInv ==
  pc \in {"active", "inactive"} =>
    /\ pos <= Len(footprint)
    /\ start \in 1..MaxLen
    /\ k <= bound + 1 /\ bound <= Size /\ Size <= bound + k - 1

IInv ==
  /\ FootprintInv
  /\ pc \in {"visit", "scan", "active", "inactive", "done"}
  /\ pos \in Nat \ {0} /\ depth \in 0..SizeMax
  /\ fields \in Seq(Field)
  /\ capacity \in Nat \ {0} /\ buffer \in Nat \ {0}
  /\ k \in Nat \ {0} /\ bound \in Nat /\ start \in 1..MaxLen \cup {1}
  /\ Size <= capacity
  /\ FieldsGood
  /\ LoopInv

(* init_lp_field_array: the empty array is good.                           *)
LEMMA InitIInv == Init => IInv
<1> SUFFICES ASSUME Init PROVE IInv
  OBVIOUS
<1> USE DEF Init, FootprintInit
<1>1. FootprintInv
  BY FootprintAssumption DEF FootprintInv, FootprintTypeOK
<1>2. fields \in Seq(Field) /\ Size = 0
  BY DEF Size
<1>3. QED
  BY <1>1, <1>2, LockRangesAssumption DEF IInv, FieldsGood, LoopInv

(* The array is a function from 1..Size to elements.                       *)
LEMMA FieldFacts ==
  ASSUME IInv
  PROVE  /\ Size \in Nat /\ DOMAIN fields = 1..Size
         /\ \A i \in 1..Size : fields[i] \in Field
BY LenProperties, ElementOfSeq DEF IInv, Size

(* Rebasing an element of the block buffer makes it one of the next block. *)
LEMMA RebaseField ==
  ASSUME NEW f \in Field
  PROVE  /\ Rebase(f) \in Field
         /\ Rebase(f).end = f.end /\ Rebase(f).depth = f.depth
         /\ f.next = NoPtr => Rebase(f) = f
         /\ f.next # NoPtr => /\ Rebase(f).next = [buf |-> f.next.buf + 1,
                                                  idx |-> f.next.idx]
BY DEF Rebase, Field

(* An element that was good in the old block is, rebased, good in the new  *)
(* one, and update_lp_field_array_pointers changes nothing final in it.    *)
LEMMA RebaseGood ==
  ASSUME NEW f \in Field, NEW i \in Nat, NEW n \in Nat, NEW m \in Nat,
         NEW buf \in Nat \ {0}, GoodField(f, i, n, buf), n <= m
  PROVE  /\ GoodField(Rebase(f), i, m, buf + 1)
         /\ Frozen(f, Rebase(f))
<1>1. CASE f.next = NoPtr
  BY <1>1, RebaseField DEF GoodField, Frozen
<1>2. CASE f.next # NoPtr
  <2>1. f.next \in [buf : Nat, idx : Nat]
    BY DEF Field
  <2>2. f.next.buf = buf /\ f.next.idx \in (i + 1)..n /\ f.end # SizeMax
    BY <1>2 DEF GoodField
  <2>3. Rebase(f).next.buf = buf + 1 /\ Rebase(f).next.idx = f.next.idx
    <3>1. Rebase(f).next = [buf |-> f.next.buf + 1, idx |-> f.next.idx]
      BY <1>2, RebaseField
    <3>2. QED
      BY <2>2, <3>1
  <2>4. Rebase(f).next # NoPtr
    BY <2>3 DEF NoPtr
  <2>5. Rebase(f).next.idx \in (i + 1)..m
    BY <2>1, <2>2, <2>3
  <2>6. Rebase(f).end = f.end
    BY RebaseField
  <2>7. QED
    BY <2>2, <2>3, <2>4, <2>5, <2>6 DEF GoodField, Frozen
<1>3. QED BY <1>1, <1>2

(* update_lp_field_array_pointers on the whole array.                      *)
LEMMA RebasedFacts ==
  ASSUME IInv, NEW moved \in BOOLEAN
  PROVE  /\ Rebased(moved) \in Seq(Field)
         /\ Len(Rebased(moved)) = Size
         /\ \A i \in 1..Size :
              /\ Frozen(fields[i], Rebased(moved)[i])
              /\ GoodField(Rebased(moved)[i], i, Size + 1,
                           IF moved THEN buffer + 1 ELSE buffer)
<1>1. Size \in Nat /\ DOMAIN fields = 1..Size /\ \A i \in 1..Size : fields[i] \in Field
  BY FieldFacts
<1>2. Rebased(moved) \in [1..Size -> Field]
  BY <1>1, RebaseField DEF Rebased
<1>3. ASSUME NEW i \in 1..Size
      PROVE  /\ Frozen(fields[i], Rebased(moved)[i])
             /\ GoodField(Rebased(moved)[i], i, Size + 1,
                          IF moved THEN buffer + 1 ELSE buffer)
  <2>1. GoodField(fields[i], i, Size, buffer)
    BY DEF IInv, FieldsGood
  <2>2. CASE moved
    BY <2>1, <2>2, <1>1, RebaseGood DEF Rebased, IInv
  <2>3. CASE ~moved
    BY <2>1, <2>3, <1>1 DEF Rebased, GoodField, Frozen
  <2>4. QED BY <2>2, <2>3
<1>4. QED
  BY <1>1, <1>2, <1>3, SeqFrom
-----------------------------------------------------------------------------
(* The steps                                                               *)

(* What a step does to the array: it keeps the invariant of the elements,  *)
(* and it changes nothing that was final.                                  *)
ArrayKept ==
  /\ fields' \in Seq(Field)
  /\ capacity' \in Nat \ {0} /\ buffer' \in Nat \ {0}
  /\ Size' <= capacity'
  /\ FieldsGood'
  /\ \A i \in 1..Size : i \in 1..Size' /\ Frozen(fields[i], fields'[i])

(* An array whose old elements stay good and frozen, with one good element *)
(* more.                                                                   *)
LEMMA AppendKept ==
  ASSUME IInv, NEW g \in Seq(Field), Len(g) = Size, NEW e \in Field,
         fields' = Append(g, e),
         capacity' \in Nat \ {0}, buffer' \in Nat \ {0}, Size + 1 <= capacity',
         \A i \in 1..Size : /\ Frozen(fields[i], g[i])
                            /\ GoodField(g[i], i, Size + 1, buffer'),
         GoodField(e, Size + 1, Size + 1, buffer')
  PROVE  ArrayKept /\ Size' = Size + 1
<1>1. Size \in Nat
  BY FieldFacts
<1>2. /\ fields' \in Seq(Field) /\ Len(fields') = Size + 1
      /\ \A j \in 1..Size : fields'[j] = g[j]
      /\ fields'[Size + 1] = e
  BY AppendFacts
<1>3. Size' = Size + 1
  BY <1>2 DEF Size
<1>4. FieldsGood'
  <2>1. ASSUME NEW i \in 1..(Size + 1)
        PROVE  GoodField(fields'[i], i, Size + 1, buffer')
    <3>1. CASE i \in 1..Size
      BY <1>2, <3>1
    <3>2. CASE i = Size + 1
      BY <1>2, <3>2
    <3>3. QED BY <1>1, <3>1, <3>2
  <2>2. QED
    BY <2>1, <1>3 DEF FieldsGood, GoodField
<1>5. \A i \in 1..Size : i \in 1..Size' /\ Frozen(fields[i], fields'[i])
  BY <1>1, <1>2, <1>3
<1>6. QED
  BY <1>2, <1>3, <1>4, <1>5 DEF ArrayKept

(* A full array doubles, which is room enough for the element appended:    *)
(* also where fullness is noticed one element early.                       *)
LEMMA GrowthRoom ==
  ASSUME IInv, NEW full \in BOOLEAN, NEW moved \in Outcomes(full),
         GrowArray(full, moved), ~full => Size < capacity
  PROVE  /\ moved \in BOOLEAN
         /\ capacity' \in Nat \ {0} /\ buffer' \in Nat \ {0}
         /\ Size + 1 <= capacity'
         /\ buffer' = IF moved THEN buffer + 1 ELSE buffer
<1>1. Size \in Nat
  BY FieldFacts
<1>2. moved \in BOOLEAN
  BY LockRangesAssumption DEF Outcomes
<1>3. capacity \in Nat \ {0} /\ buffer \in Nat \ {0} /\ Size <= capacity
  BY DEF IInv
<1>4. QED
  BY <1>1, <1>2, <1>3 DEF GrowArray

(* add_lock_protection_field, called at a lock acquisition.                *)
LEMMA AcquireKept ==
  ASSUME IInv, AcquireLock
  PROVE  ArrayKept
<1>1. PICK moved \in Outcomes(FieldArrayFull) :
        /\ GrowArray(FieldArrayFull, moved)
        /\ fields' = Append(Rebased(moved), NewField(footprint[pos].usr))
  BY DEF AcquireLock, add_lock_protection_field
<1>2. FieldArrayFull \in BOOLEAN /\ (~FieldArrayFull => Size < capacity)
  BY FieldFacts DEF FieldArrayFull, Size, IInv
<1>3. /\ moved \in BOOLEAN
      /\ capacity' \in Nat \ {0} /\ buffer' \in Nat \ {0}
      /\ Size + 1 <= capacity'
      /\ buffer' = IF moved THEN buffer + 1 ELSE buffer
  BY <1>1, <1>2, GrowthRoom
<1>4. pos \in 1..MaxLen /\ footprint[pos].usr \in Locks
  <2>1. footprint \in Seq(VarAccess) /\ Len(footprint) <= MaxLen
    BY DEF IInv, FootprintInv, FootprintTypeOK
  <2>2. pos \in 1..Len(footprint) /\ footprint[pos].type = "LockAcquire"
    BY <2>1, LenProperties DEF AcquireLock, At, Scanning, IInv
  <2>3. footprint[pos] \in VarAccess
    BY <2>1, <2>2, ElementOfSeq
  <2>4. footprint[pos].usr \in Locks
    BY <2>2, <2>3 DEF VarAccess, LockCalls, Markers
  <2>5. QED
    BY <2>1, <2>2, <2>4, LenProperties, FootprintAssumption
<1>5. NewField(footprint[pos].usr) \in Field
  BY <1>4, LockRangesAssumption, NoPtrType DEF NewField, Field
<1>6. GoodField(NewField(footprint[pos].usr), Size + 1, Size + 1, buffer')
  BY DEF GoodField, NewField, TailDepths
<1>7. QED
  BY <1>1, <1>3, <1>5, <1>6, RebasedFacts, AppendKept

(* What is read of a source: an element with its range and its place in a  *)
(* list, whatever the freed block gave as its lock and its depth.          *)
LEMMA ReadingFacts ==
  ASSUME IInv, k \in 1..Size, fields[k].next = NoPtr, start \in 1..MaxLen,
         NEW full, NEW moved \in Outcomes(full),
         NEW read \in Readings(moved), NEW source
  PROVE  /\ RangeCopy(read, source) \in Field
         /\ RangeCopy(read, source).start = start
         /\ RangeCopy(read, source).end = SizeMax
         /\ RangeCopy(read, source).next = NoPtr
         /\ RangeCopy(read, source).head = FALSE
         /\ RangeCopy(read, source).depth \in TailDepths
         /\ ~moved => RangeCopy(read, source).hash = fields[k].hash
<1>1. fields[k] \in Field /\ fields[k].depth \in TailDepths
  BY FieldFacts DEF IInv, FieldsGood, GoodField
<1>2. CASE read = fields[k]
  BY <1>1, <1>2, NoPtrType, LockRangesAssumption DEF RangeCopy, Field
<1>3. CASE read # fields[k]
  <2>1. PICK f \in Leftovers : moved /\ read = [fields[k] EXCEPT !.hash = f.hash, !.depth = f.depth]
    BY <1>3 DEF Readings
  <2>2. f \in [hash : Nat, depth : 0..SizeMax] /\ f.depth \in TailDepths
    <3>1. TRUE \in Moves
      BY <2>1, LockRangesAssumption DEF Outcomes
    <3> QED
      BY <2>1, <3>1, LockRangesAssumption DEF TailDepths
  <2>3. read \in Field /\ read.depth = f.depth
    BY <1>1, <2>1, <2>2 DEF Field
  <2> QED
    BY <2>1, <2>2, <2>3, NoPtrType, LockRangesAssumption DEF RangeCopy, Field
<1> QED
  BY <1>2, <1>3

(* A copying step links the source to the copy.  If the copy moved the     *)
(* array the source keeps its old contents, which is good as well.         *)
LEMMA CopyKept ==
  ASSUME IInv, k \in 1..Size, start \in 1..MaxLen, fields[k].next = NoPtr,
         NEW source \in Field, source.next = NextPtr, source.end # SizeMax,
         fields[k].end # SizeMax => source.end = fields[k].end,
         add_lock_protection_copy(source)
  PROVE  ArrayKept /\ Size' = Size + 1
<1> DEFINE full == Len(fields) >= capacity - 1
           kept(moved) == IF moved THEN Rebased(TRUE)
                          ELSE [fields EXCEPT ![k] = source]
<1>0. PICK moved \in Outcomes(full) : \E read \in Readings(moved) :
        /\ GrowArray(full, moved)
        /\ fields' = Append(kept(moved), RangeCopy(read, source))
  BY DEF add_lock_protection_copy
<1>1. PICK read \in Readings(moved) :
        /\ GrowArray(full, moved)
        /\ fields' = Append(kept(moved), RangeCopy(read, source))
  BY <1>0
<1>2. /\ Size \in Nat /\ DOMAIN fields = 1..Size
      /\ \A i \in 1..Size : fields[i] \in Field
  BY FieldFacts
<1>3. full \in BOOLEAN /\ (~full => Size < capacity)
  BY <1>2 DEF Size, IInv
<1>4. /\ moved \in BOOLEAN
      /\ capacity' \in Nat \ {0} /\ buffer' \in Nat \ {0}
      /\ Size + 1 <= capacity'
      /\ buffer' = IF moved THEN buffer + 1 ELSE buffer
  <2> HIDE DEF full
  <2> QED BY <1>1, <1>3, GrowthRoom
<1>5. /\ RangeCopy(read, source) \in Field
      /\ RangeCopy(read, source).next = NoPtr /\ RangeCopy(read, source).end = SizeMax
      /\ RangeCopy(read, source).depth \in TailDepths
  <2> HIDE DEF full, kept
  <2> QED
    BY <1>0, <1>1, ReadingFacts
<1>6. GoodField(RangeCopy(read, source), Size + 1, Size + 1, buffer')
  BY <1>5 DEF GoodField
<1>7. /\ kept(moved) \in Seq(Field) /\ Len(kept(moved)) = Size
      /\ \A i \in 1..Size : /\ Frozen(fields[i], kept(moved)[i])
                           /\ GoodField(kept(moved)[i], i, Size + 1, buffer')
  <2>1. CASE moved
    BY <1>4, <2>1, RebasedFacts
  <2>2. CASE ~moved
    <3>1. kept(moved) \in [1..Size -> Field]
      BY <1>2, <2>2
    <3>2. kept(moved) \in Seq(Field) /\ Len(kept(moved)) = Size
      <4> HIDE DEF kept
      <4> QED BY <1>2, <3>1, SeqFrom
    <3>3. ASSUME NEW i \in 1..Size
          PROVE  /\ Frozen(fields[i], kept(moved)[i])
                 /\ GoodField(kept(moved)[i], i, Size + 1, buffer')
      <4>1. GoodField(fields[i], i, Size, buffer)
        BY DEF IInv, FieldsGood
      <4>2. CASE i # k
        BY <1>2, <1>4, <2>2, <4>1, <4>2 DEF GoodField, Frozen
      <4>3. CASE i = k
        <5>1. kept(moved)[i] = source
          BY <1>2, <2>2, <4>3
        <5>2. source.next = [buf |-> buffer, idx |-> Size + 1]
          BY DEF NextPtr, Size
        <5>3. source.next # NoPtr
          BY <5>2, <1>2 DEF NoPtr
        <5>4. GoodField(source, i, Size + 1, buffer')
          BY <1>2, <1>4, <2>2, <5>2, <5>3 DEF GoodField
        <5>5. Frozen(fields[i], source)
          BY <4>3 DEF Frozen
        <5>6. QED BY <5>1, <5>4, <5>5
      <4>4. QED BY <4>2, <4>3
    <3>4. QED BY <3>2, <3>3
  <2>3. QED BY <2>1, <2>2
<1>8. QED
  <2> HIDE DEF kept, full
  <2> QED BY <1>1, <1>4, <1>5, <1>6, <1>7, AppendKept

(* An open element is the last of its list, so that a release ends the     *)
(* element it found open and no other.                                     *)
LEMMA ReleaseKept ==
  ASSUME IInv, ReleaseLock
  PROVE  ArrayKept
<1> DEFINE l == footprint[pos].usr
           open == {j \in DOMAIN fields : IsOpen(j) /\ fields[j].hash = LockHash[l]}
<1>1. /\ Size \in Nat /\ DOMAIN fields = 1..Size
      /\ \A i \in 1..Size : fields[i] \in Field /\ GoodField(fields[i], i, Size, buffer)
  BY FieldFacts DEF IInv, FieldsGood
<1>2. \A i \in open : i \in 1..Size /\ fields[i].next = NoPtr
  BY <1>1 DEF GoodField, IsOpen
<1>3. {ListEnd(i) : i \in open} = open
  BY <1>2 DEF ListEnd
<1>4. pos \in 1..MaxLen
  BY LenProperties, FootprintAssumption
  DEF ReleaseLock, At, Scanning, IInv, FootprintInv, FootprintTypeOK
<1>5. /\ fields' = [i \in 1..Size |-> IF i \in open THEN [fields[i] EXCEPT !.end = pos]
                                      ELSE fields[i]]
      /\ capacity' = capacity /\ buffer' = buffer
  BY <1>1, <1>3 DEF ReleaseLock, set_protection_range_end
<1>6. ASSUME NEW i \in 1..Size
      PROVE  /\ fields'[i] \in Field
             /\ GoodField(fields'[i], i, Size, buffer)
             /\ Frozen(fields[i], fields'[i])
  <2>1. CASE i \in open
    <3>1. fields'[i] = [fields[i] EXCEPT !.end = pos]
      BY <1>5, <2>1
    <3>2. fields[i].end = SizeMax /\ fields[i].next = NoPtr
      BY <1>2, <2>1 DEF IsOpen
    <3>3. QED
      BY <1>1, <1>4, <3>1, <3>2, LockRangesAssumption, FootprintAssumption
      DEF Field, GoodField, Frozen
  <2>2. CASE i \notin open
    <3>1. fields'[i] = fields[i]
      BY <1>5, <2>2
    <3>2. QED
      BY <1>1, <3>1 DEF Frozen
  <2>3. QED BY <2>1, <2>2
<1>7. fields' \in [1..Size -> Field]
  BY <1>5, <1>6
<1>8. fields' \in Seq(Field) /\ Size' = Size
  <2> HIDE DEF open
  <2> QED BY <1>1, <1>7, SeqFrom DEF Size
<1>9. FieldsGood'
  BY <1>5, <1>6, <1>8 DEF FieldsGood, GoodField
<1>10. capacity \in Nat \ {0} /\ buffer \in Nat \ {0} /\ Size <= capacity
  BY DEF IInv
<1>11. QED
  BY <1>5, <1>6, <1>8, <1>9, <1>10 DEF ArrayKept
-----------------------------------------------------------------------------
(* What a step that leaves the array alone keeps.                          *)
LEMMA SameArray ==
  ASSUME IInv, UNCHANGED array
  PROVE  ArrayKept /\ Size' = Size
<1>1. Size' = Size /\ Size \in Nat
  BY FieldFacts DEF Size, array
<1>2. FieldsGood'
  BY <1>1 DEF IInv, FieldsGood, GoodField, array
<1>3. QED
  BY <1>1, <1>2 DEF IInv, ArrayKept, Frozen, array

(* The other variables: each is typed, and a copying loop is run for an    *)
(* entry of the footprint and stays within its bound.                      *)
ControlInv ==
  /\ FootprintInv
  /\ pc \in {"visit", "scan", "active", "inactive", "done"}
  /\ pos \in Nat \ {0} /\ depth \in 0..SizeMax
  /\ k \in Nat \ {0} /\ bound \in Nat /\ start \in 1..MaxLen \cup {1}
  /\ LoopInv

(* One copying step, whichever loop it belongs to.                         *)
LEMMA LoopStep ==
  ASSUME IInv, pc \in {"active", "inactive"}, k <= LoopBound,
         k' = k + 1, Size' = Size + 1 \/ Size' = Size,
         UNCHANGED <<footprint, nesting, pc, pos, depth, bound, start>>
  PROVE  ControlInv'
<1>1. Size \in Nat
  BY FieldFacts
<1>2. QED
  BY <1>1 DEF IInv, ControlInv, LoopInv, LoopBound, FootprintInv, FootprintTypeOK

(* What the body of a copying loop knows about the element it looks at.    *)
LEMMA InLoopFacts ==
  ASSUME IInv, pc \in {"active", "inactive"}, k <= LoopBound
  PROVE  /\ k \in 1..Size /\ start \in 1..MaxLen
         /\ fields[k] \in Field /\ GoodField(fields[k], k, Size, buffer)
         /\ start # SizeMax
         /\ NextPtr \in [buf : Nat, idx : Nat]
<1>1. Size \in Nat /\ \A i \in 1..Size : fields[i] \in Field
  BY FieldFacts
<1>2. k \in 1..Size /\ start \in 1..MaxLen
  BY <1>1 DEF IInv, LoopInv, LoopBound
<1>3. QED
  BY <1>1, <1>2, LockRangesAssumption, FootprintAssumption
  DEF IInv, FieldsGood, NextPtr, Size

(* add_protection_range_fields_active on one open element.                 *)
LEMMA SplitKept ==
  ASSUME IInv, SplitOpenRange
  PROVE  ArrayKept /\ ControlInv'
<1> DEFINE source == [fields[k] EXCEPT !.next = NextPtr, !.end = start, !.depth = depth]
<1>1. /\ pc = "active" /\ k <= LoopBound /\ fields[k].end = SizeMax
      /\ add_lock_protection_copy(source)
      /\ k' = k + 1
      /\ UNCHANGED <<footprint, nesting, pc, pos, depth, bound, start>>
  BY DEF SplitOpenRange, InLoop, IsOpen
<1>2. /\ k \in 1..Size /\ start \in 1..MaxLen /\ start # SizeMax
      /\ fields[k] \in Field /\ GoodField(fields[k], k, Size, buffer)
      /\ NextPtr \in [buf : Nat, idx : Nat]
  BY <1>1, InLoopFacts
<1>3. fields[k].next = NoPtr
  BY <1>1, <1>2 DEF GoodField
<1>4. source \in Field /\ source.next = NextPtr /\ source.end = start
  BY <1>2 DEF IInv, Field
<1>5. ArrayKept /\ Size' = Size + 1
  <2> HIDE DEF source
  <2> QED BY <1>1, <1>2, <1>3, <1>4, CopyKept
<1>6. QED
  BY <1>1, <1>5, LoopStep

(* add_protection_range_fields_inactive on one element it selects.         *)
LEMMA ReopenKept ==
  ASSUME IInv, ReopenEndedRange
  PROVE  ArrayKept /\ ControlInv'
<1> DEFINE source == [fields[k] EXCEPT !.next = NextPtr]
<1>1. /\ pc = "inactive" /\ k <= LoopBound
      /\ fields[k].end # SizeMax /\ fields[k].next = NoPtr
      /\ add_lock_protection_copy(source)
      /\ k' = k + 1
      /\ UNCHANGED <<footprint, nesting, pc, pos, depth, bound, start>>
  BY DEF ReopenEndedRange, InLoop, SelectedInactive, IsOpen
<1>2. /\ k \in 1..Size /\ start \in 1..MaxLen
      /\ fields[k] \in Field /\ NextPtr \in [buf : Nat, idx : Nat]
  BY <1>1, InLoopFacts
<1>3. source \in Field /\ source.next = NextPtr /\ source.end = fields[k].end
  BY <1>2 DEF Field
<1>4. ArrayKept /\ Size' = Size + 1
  <2> HIDE DEF source
  <2> QED BY <1>1, <1>2, <1>3, CopyKept
<1>5. QED
  BY <1>1, <1>4, LoopStep
-----------------------------------------------------------------------------
(* Every step keeps the invariant, and what is final.                      *)
LEMMA StepKept ==
  ASSUME IInv, [Next]_vars
  PROVE  ArrayKept /\ ControlInv'
<1>1. /\ Size \in Nat
      /\ footprint \in Seq(VarAccess) /\ Len(footprint) \in Nat /\ Len(footprint) <= MaxLen
      /\ MaxLen \in Nat /\ SizeMax \in Nat /\ MaxLen < SizeMax
      /\ pos \in Nat \ {0} /\ depth \in 0..SizeMax
  BY FieldFacts, LenProperties, LockRangesAssumption, FootprintAssumption
  DEF IInv, FootprintInv, FootprintTypeOK
<1> USE DEF ControlInv, LoopInv, loop
<1>2. CASE UNCHANGED vars
  BY <1>2, <1>1, SameArray DEF IInv, vars, FootprintInv, FootprintTypeOK
<1>3. CASE Visit
  <2>1. FootprintInv'
    BY <1>3, FootprintStep DEF Visit, IInv
  <2>2. QED
    BY <1>3, <1>1, <2>1, SameArray DEF Visit, IInv
<1>4. CASE StartScan
  BY <1>4, <1>1, SameArray DEF StartScan, IInv, FootprintInv, FootprintTypeOK
<1>5. CASE AcquireLock
  <2>1. ArrayKept
    BY <1>5, AcquireKept
  <2>2. QED
    BY <1>5, <1>1, <2>1
    DEF AcquireLock, At, Scanning, IInv, FootprintInv, FootprintTypeOK
<1>6. CASE ReleaseLock
  <2>1. ArrayKept
    BY <1>6, ReleaseKept
  <2>2. QED
    BY <1>6, <1>1, <2>1
    DEF ReleaseLock, At, Scanning, IInv, FootprintInv, FootprintTypeOK
<1>7. CASE BeginIf
  <2>1. PICK t \in (pos + 1)..Len(footprint) : StartLoop("active", t)
    BY <1>7 DEF BeginIf
  <2>2. ArrayKept /\ Size' = Size
    BY <2>1, SameArray DEF StartLoop
  <2>3. depth' \in 0..SizeMax /\ pos <= Len(footprint)
    BY <1>7, <1>1 DEF BeginIf, At, Scanning, Inc
  <2>4. QED
    BY <1>1, <2>1, <2>2, <2>3
    DEF StartLoop, IInv, FootprintInv, FootprintTypeOK, Size
<1>8. CASE BeginElse
  <2>1. ArrayKept /\ Size' = Size
    BY <1>8, SameArray DEF BeginElse, StartLoop
  <2>2. pos \in 1..MaxLen
    BY <1>8, <1>1 DEF BeginElse, At, Scanning
  <2>3. QED
    BY <1>8, <1>1, <2>1, <2>2
    DEF BeginElse, At, Scanning, StartLoop, IInv, FootprintInv, FootprintTypeOK, Size
<1>9. CASE EndIf
  BY <1>9, <1>1, SameArray
  DEF EndIf, At, Scanning, Dec, IInv, FootprintInv, FootprintTypeOK
<1>10. CASE SkipEntry
  BY <1>10, <1>1, SameArray DEF SkipEntry, Scanning, IInv, FootprintInv, FootprintTypeOK
<1>11. CASE SplitOpenRange
  BY <1>11, SplitKept
<1>12. CASE ReopenEndedRange
  BY <1>12, ReopenKept
<1>13. CASE NextField
  <2>1. ArrayKept /\ Size' = Size
    BY <1>13, SameArray DEF NextField
  <2>2. pc \in {"active", "inactive"} /\ k <= LoopBound
    BY <1>13 DEF NextField, InLoop
  <2>3. QED
    BY <1>13, <2>1, <2>2, LoopStep DEF NextField
<1>14. CASE EndLoop
  BY <1>14, <1>1, SameArray DEF EndLoop, IInv, FootprintInv, FootprintTypeOK
<1>15. CASE FinishScan
  BY <1>15, <1>1, SameArray DEF FinishScan, IInv, FootprintInv, FootprintTypeOK
<1>16. QED
  BY <1>2, <1>3, <1>4, <1>5, <1>6, <1>7, <1>8, <1>9, <1>10, <1>11, <1>12,
     <1>13, <1>14, <1>15 DEF Next, Scan, Done

(* The invariant is inductive.                                             *)
LEMMA IInvStep == IInv /\ [Next]_vars => IInv'
BY StepKept DEF IInv, ArrayKept, ControlInv
-----------------------------------------------------------------------------
(* The theorems                                                            *)

(* The annotation of lock ranges keeps, at every step, an array whose      *)
(* elements are each well linked, well ended and of depth 0 at list ends,  *)
(* and whose copying loops stay within the elements they started with.     *)
THEOREM Invariance == Spec => []IInv
<1>1. Init => IInv
  BY InitIInv
<1>2. IInv /\ [Next]_vars => IInv'
  BY IInvStep
<1>3. QED
  BY <1>1, <1>2, PTL DEF Spec

(* Every variable of annotate_lock_protection_ranges keeps its type: depth *)
(* and range ends within size_t, elements with the fields of               *)
(* lock_protection_field.                                                  *)
THEOREM TypeCorrect == Spec => []TypeOK
<1>1. IInv => TypeOK
  BY DEF IInv, FootprintInv, TypeOK
<1>2. QED
  BY <1>1, Invariance, PTL

(* get_lp_field_linked_list_end: an open range never has a          *)
(* successor, so set_protection_range_end ends the element it found.       *)
THEOREM OpenRangesAreTails == Spec => []OpenRangeIsTail
<1>1. IInv => OpenRangeIsTail
  BY FieldFacts DEF IInv, FieldsGood, GoodField, OpenRangeIsTail, IsOpen
<1>2. QED
  BY <1>1, Invariance, PTL

(* update_lp_field_array_pointers: after any number of moves of the array, *)
(* every list pointer is into the block in use and at a later element.     *)
THEOREM PointersStayLive == Spec => []PointersLive
<1>1. IInv => PointersLive
  BY FieldFacts DEF IInv, FieldsGood, GoodField, PointersLive, Size
<1>2. QED
  BY <1>1, Invariance, PTL

(* add_protection_range_fields_active: the branch depth is written to the  *)
(* source of a copy only, so the last element of a list has depth 0, or    *)
(* that which a freed block gave.                                          *)
THEOREM TailsHaveDepthZero == Spec => []TailDepthZero
<1>1. IInv => TailDepthZero
  BY FieldFacts DEF IInv, FieldsGood, GoodField, TailDepthZero
<1>2. QED
  BY <1>1, Invariance, PTL

(* add_lock_protection_field and add_lock_protection_copy: no element is   *)
(* written outside the block, and a copying loop copies each element it    *)
(* started with at most once.                                              *)
THEOREM ArrayStaysBounded == Spec => []ArrayBounded
<1>1. IInv => ArrayBounded
  BY DEF IInv, LoopInv, ArrayBounded, Size
<1>2. QED
  BY <1>1, Invariance, PTL

(* set_protection_range_end and the copying loops: what was written as the *)
(* end or the successor of a range is never written again.                 *)
THEOREM RangesStayFrozen == Spec => RangesFrozen
<1>1. IInv /\ [Next]_vars =>
        [\A i \in DOMAIN fields :
           /\ ~IsOpen(i) => fields'[i].end = fields[i].end
           /\ fields[i].next # NoPtr => fields'[i].next.idx = fields[i].next.idx]_vars
  BY StepKept, FieldFacts DEF ArrayKept, Frozen, IsOpen
<1>2. QED
  BY <1>1, Invariance, PTL DEF Spec, RangesFrozen
-----------------------------------------------------------------------------
(* The ranges of one list follow each other.  What is needed beside IInv:  *)
(* a range that ended without a successor ended at a release the scan has  *)
(* passed, so before the else block that may continue it.                  *)

EndedBehind ==
  \A i \in 1..Size : fields[i].next = NoPtr /\ fields[i].end # SizeMax =>
    fields[i].end < pos

InOrder ==
  \A i \in 1..Size : fields[i].next # NoPtr =>
    fields[i].end <= fields[fields[i].next.idx].start

OrderInv ==
  /\ EndedBehind /\ InOrder
  /\ pc = "inactive" => start = pos

LEMMA FieldEnd == \A f \in Field : f.end \in Nat
<1>1. 1..MaxLen \cup {SizeMax} \subseteq Nat
  BY LockRangesAssumption, FootprintAssumption
<1> QED
  BY <1>1 DEF Field

(* The same range, wherever the array is.                                  *)
SameRange(f, g) ==
  /\ g.start = f.start /\ g.end = f.end /\ g.next.idx = f.next.idx
  /\ g.next = NoPtr <=> f.next = NoPtr

(* A range that the new element e, the n-th, continues.                    *)
Continued(f, g, e, n) ==
  g.start = f.start /\ g.next.idx = n /\ g.next # NoPtr /\ g.end <= e.start

LEMMA RebasedSame ==
  ASSUME IInv, NEW moved \in BOOLEAN, NEW i \in 1..Size
  PROVE  SameRange(fields[i], Rebased(moved)[i])
<1>1. fields[i] \in Field /\ i \in DOMAIN fields
  BY FieldFacts
<1>2. CASE moved
  <2>1. Rebased(moved)[i] = Rebase(fields[i])
    BY <1>1, <1>2 DEF Rebased
  <2>2. CASE fields[i].next = NoPtr
    BY <2>1, <2>2, <1>1, RebaseField DEF SameRange
  <2>3. CASE fields[i].next # NoPtr
    <3>1. fields[i].next \in [buf : Nat, idx : Nat]
      BY <1>1 DEF Field
    <3>2. Rebase(fields[i]) = [fields[i] EXCEPT !.next.buf = @ + 1]
      BY <2>3 DEF Rebase
    <3>3. /\ Rebase(fields[i]).start = fields[i].start
          /\ Rebase(fields[i]).end = fields[i].end
      BY <3>2, <1>1 DEF Field
    <3>4. Rebase(fields[i]).next = [buf |-> fields[i].next.buf + 1,
                                    idx |-> fields[i].next.idx]
      BY <2>3, <1>1, RebaseField
    <3>5. Rebase(fields[i]).next # NoPtr
      BY <3>1, <3>4 DEF NoPtr
    <3> QED
      BY <2>1, <2>3, <3>3, <3>4, <3>5 DEF SameRange
  <2> QED
    BY <2>2, <2>3
<1>3. CASE ~moved
  BY <1>1, <1>3 DEF Rebased, SameRange
<1> QED
  BY <1>2, <1>3

(* Appending an open range keeps the order if it continues a range that    *)
(* ended before it.                                                        *)
LEMMA OrderAppend ==
  ASSUME IInv, OrderInv, NEW g \in Seq(Field), Len(g) = Size,
         NEW e \in Field, e.next = NoPtr, e.end = SizeMax,
         fields' = Append(g, e), pos' \in Nat, pos' >= pos,
         \A i \in 1..Size : SameRange(fields[i], g[i]) \/ Continued(fields[i], g[i], e, Size + 1)
  PROVE  EndedBehind' /\ InOrder'
<1>1. /\ Size \in Nat /\ pos \in Nat
      /\ \A i \in 1..Size : fields[i] \in Field /\ GoodField(fields[i], i, Size, buffer)
  BY FieldFacts DEF IInv, FieldsGood
<1>2. /\ Len(fields') = Size + 1 /\ fields'[Size + 1] = e
      /\ \A i \in 1..Size : fields'[i] = g[i] /\ fields'[i].start = fields[i].start
  BY AppendFacts DEF SameRange, Continued
<1>3. Size' = Size + 1 /\ \A i \in 1..(Size + 1) : i = Size + 1 \/ i \in 1..Size
  BY <1>1, <1>2 DEF Size
<1>4. EndedBehind'
  <2> SUFFICES ASSUME NEW i \in 1..(Size + 1),
                      fields'[i].next = NoPtr, fields'[i].end # SizeMax
               PROVE  fields'[i].end < pos'
    BY <1>3 DEF EndedBehind
  <2>1. i \in 1..Size
    BY <1>2, <1>3
  <2>2. SameRange(fields[i], fields'[i])
    BY <2>1, <1>2 DEF Continued
  <2>3. fields[i].end < pos /\ fields'[i].end = fields[i].end
    BY <2>1, <2>2 DEF SameRange, OrderInv, EndedBehind
  <2>4. fields[i].end \in Nat
    BY <2>1, <1>1, FieldEnd
  <2> QED
    BY <2>3, <2>4, <1>1
<1>5. InOrder'
  <2> SUFFICES ASSUME NEW i \in 1..(Size + 1), fields'[i].next # NoPtr
               PROVE  fields'[i].end <= fields'[fields'[i].next.idx].start
    BY <1>3 DEF InOrder
  <2>1. i \in 1..Size
    BY <1>2, <1>3
  <2>2. CASE SameRange(fields[i], g[i])
    <3>1. fields'[i].next.idx \in 1..Size /\ fields[i].next # NoPtr
          /\ fields'[i].next.idx = fields[i].next.idx /\ fields'[i].end = fields[i].end
      BY <2>1, <2>2, <1>1, <1>2 DEF SameRange, GoodField
    <3> QED
      BY <3>1, <2>1, <1>2 DEF OrderInv, InOrder
  <2>3. CASE Continued(fields[i], g[i], e, Size + 1)
    BY <2>1, <2>3, <1>2 DEF Continued
  <2> QED
    BY <2>1, <2>2, <2>3
<1> QED
  BY <1>4, <1>5

(* A step that writes no element.                                          *)
LEMMA OrderKept ==
  ASSUME IInv, OrderInv, UNCHANGED fields, pos' \in Nat, pos' >= pos
  PROVE  EndedBehind' /\ InOrder'
<1>1. /\ Size' = Size /\ pos \in Nat
      /\ \A i \in 1..Size : fields[i].end \in Nat
  BY FieldFacts, FieldEnd DEF Size, IInv
<1>2. EndedBehind'
  <2> SUFFICES ASSUME NEW i \in 1..Size, fields[i].next = NoPtr, fields[i].end # SizeMax
               PROVE  fields[i].end < pos'
    BY <1>1 DEF EndedBehind
  <2>1. fields[i].end < pos
    BY DEF OrderInv, EndedBehind
  <2> QED
    BY <2>1, <1>1
<1> QED
  BY <1>1, <1>2 DEF OrderInv, InOrder

(* A copying step: its copy starts where the source ended, or later.       *)
LEMMA OrderCopy ==
  ASSUME IInv, OrderInv, k \in 1..Size, start \in 1..MaxLen,
         fields[k].next = NoPtr, UNCHANGED pos,
         NEW source \in Field, source.next = NextPtr, source.start = fields[k].start,
         source.end <= start, add_lock_protection_copy(source)
  PROVE  EndedBehind' /\ InOrder'
<1> DEFINE full == Len(fields) >= capacity - 1
           kept(moved) == IF moved THEN Rebased(TRUE)
                          ELSE [fields EXCEPT ![k] = source]
<1>0. PICK moved \in Outcomes(full) : \E read \in Readings(moved) :
        fields' = Append(kept(moved), RangeCopy(read, source))
  BY DEF add_lock_protection_copy
<1>1. PICK read \in Readings(moved) :
        fields' = Append(kept(moved), RangeCopy(read, source))
  BY <1>0
<1>2. /\ Size \in Nat /\ DOMAIN fields = 1..Size /\ moved \in BOOLEAN
      /\ \A i \in 1..Size : fields[i] \in Field
  BY <1>1, FieldFacts, LockRangesAssumption DEF Outcomes
<1>3. /\ RangeCopy(read, source) \in Field /\ RangeCopy(read, source).start = start
      /\ RangeCopy(read, source).next = NoPtr /\ RangeCopy(read, source).end = SizeMax
  <2> HIDE DEF full, kept
  <2> QED
    BY <1>0, <1>1, ReadingFacts
<1>4. kept(moved) \in Seq(Field) /\ Len(kept(moved)) = Size
  <2>1. CASE moved
    BY <2>1, RebasedFacts
  <2>2. CASE ~moved
    <3>1. kept(moved) \in [1..Size -> Field]
      BY <1>2, <2>2
    <3> HIDE DEF kept
    <3> QED
      BY <1>2, <3>1, SeqFrom
  <2> QED
    BY <1>2, <2>1, <2>2
<1>5. ASSUME NEW i \in 1..Size
      PROVE  \/ SameRange(fields[i], kept(moved)[i])
             \/ Continued(fields[i], kept(moved)[i], RangeCopy(read, source), Size + 1)
  <2>1. CASE moved
    BY <2>1, RebasedSame
  <2>2. CASE ~moved /\ i # k
    BY <2>2, <1>2 DEF SameRange
  <2>3. CASE ~moved /\ i = k
    <3>1. kept(moved)[i] = source
      BY <2>3, <1>2
    <3>2. source.next = [buf |-> buffer, idx |-> Size + 1] /\ source.next # NoPtr
      BY <1>2 DEF NextPtr, Size, NoPtr
    <3> QED
      BY <3>1, <3>2, <2>3, <1>3 DEF Continued
  <2> QED
    BY <2>1, <2>2, <2>3, <1>2
<1>6. pos' \in Nat /\ pos' >= pos
  BY DEF IInv
<1> QED
  <2> HIDE DEF kept, full
  <2> QED
    BY <1>1, <1>3, <1>4, <1>5, <1>6, OrderAppend

(* A release ends lists at the position scanned, and no list is longer.    *)
LEMMA OrderRelease ==
  ASSUME IInv, OrderInv, ReleaseLock
  PROVE  EndedBehind' /\ InOrder'
<1> DEFINE l == footprint[pos].usr
           open == {j \in DOMAIN fields : IsOpen(j) /\ fields[j].hash = LockHash[l]}
<1>1. /\ Size \in Nat /\ DOMAIN fields = 1..Size /\ pos \in Nat
      /\ \A i \in 1..Size : fields[i] \in Field /\ GoodField(fields[i], i, Size, buffer)
  BY FieldFacts DEF IInv, FieldsGood
<1>2. \A i \in open : i \in 1..Size /\ fields[i].next = NoPtr
  BY <1>1 DEF GoodField, IsOpen
<1>3. {ListEnd(i) : i \in open} = open
  BY <1>2 DEF ListEnd
<1>4. /\ fields' = [i \in 1..Size |-> IF i \in open THEN [fields[i] EXCEPT !.end = pos]
                                      ELSE fields[i]]
      /\ pos' = pos + 1
  BY <1>1, <1>3 DEF ReleaseLock, set_protection_range_end
<1>5. \A i \in 1..Size :
        /\ fields'[i].start = fields[i].start /\ fields'[i].next = fields[i].next
        /\ fields'[i].end = pos \/ fields'[i].end = fields[i].end
        /\ fields[i].next # NoPtr => fields'[i].end = fields[i].end
  BY <1>1, <1>2, <1>4 DEF Field
<1>6. Size' = Size
  <2> HIDE DEF open
  <2>1. fields' \in Seq(Field) /\ \A i \in 1..Size : i \in 1..Len(fields')
    BY ReleaseKept DEF ArrayKept, Size
  <2>2. \A i \in 1..Size : fields'[i] \in Field
    BY <2>1, ElementOfSeq
  <2>3. fields' \in [1..Size -> Field]
    BY <1>4, <2>2
  <2> QED
    BY <1>1, <2>3, SeqFrom DEF Size
<1> HIDE DEF open
<1>7. EndedBehind'
  <2> SUFFICES ASSUME NEW i \in 1..Size, fields'[i].next = NoPtr, fields'[i].end # SizeMax
               PROVE  fields'[i].end < pos'
    BY <1>6 DEF EndedBehind
  <2>1. CASE fields'[i].end = pos
    BY <2>1, <1>1, <1>4
  <2>2. CASE fields'[i].end = fields[i].end
    <3>1. fields[i].end < pos /\ fields[i].end \in Nat
      BY <2>2, <1>1, <1>5, FieldEnd DEF OrderInv, EndedBehind
    <3> QED
      BY <3>1, <2>2, <1>1, <1>4
  <2> QED
    BY <2>1, <2>2, <1>5
<1>8. InOrder'
  <2> SUFFICES ASSUME NEW i \in 1..Size, fields'[i].next # NoPtr
               PROVE  fields'[i].end <= fields'[fields'[i].next.idx].start
    BY <1>6 DEF InOrder
  <2>1. fields[i].next # NoPtr /\ fields[i].next.idx \in 1..Size
    BY <1>1, <1>5 DEF GoodField
  <2> QED
    BY <2>1, <1>5 DEF OrderInv, InOrder
<1> QED
  BY <1>7, <1>8

LEMMA OrderStep == IInv /\ OrderInv /\ [Next]_vars => OrderInv'
<1> SUFFICES ASSUME IInv, OrderInv, [Next]_vars PROVE OrderInv'
  OBVIOUS
<1>1. pos \in Nat
  BY DEF IInv
<1>2. CASE AcquireLock
  <2>1. PICK moved \in Outcomes(FieldArrayFull) :
          fields' = Append(Rebased(moved), NewField(footprint[pos].usr))
    BY <1>2 DEF AcquireLock, add_lock_protection_field
  <2>2. moved \in BOOLEAN /\ pos' = pos + 1 /\ pc' = "scan"
    BY <1>2, <2>1, LockRangesAssumption DEF Outcomes, AcquireLock, At, Scanning
  <2>3. fields' \in Seq(Field) /\ Len(fields') = Len(Rebased(moved)) + 1
    BY <1>2, <2>1, <2>2, AcquireKept, RebasedFacts DEF ArrayKept
  <2>4. NewField(footprint[pos].usr) \in Field
    <3>1. fields'[Len(Rebased(moved)) + 1] = NewField(footprint[pos].usr)
      BY <2>1, <2>2, RebasedFacts
    <3> QED
      BY <3>1, <2>2, <2>3, RebasedFacts, ElementOfSeq, FieldFacts
  <2>5. EndedBehind' /\ InOrder'
    BY <2>1, <2>2, <2>4, <1>1, RebasedFacts, RebasedSame, OrderAppend DEF NewField
  <2> QED
    BY <2>2, <2>5 DEF OrderInv
<1>3. CASE ReleaseLock
  BY <1>3, OrderRelease DEF OrderInv, ReleaseLock, At, Scanning
<1>4. CASE SplitOpenRange
  <2> DEFINE source == [fields[k] EXCEPT !.next = NextPtr, !.end = start, !.depth = depth]
  <2>1. /\ pc = "active" /\ k <= LoopBound /\ fields[k].end = SizeMax
        /\ add_lock_protection_copy(source) /\ UNCHANGED <<pc, pos, start>>
    BY <1>4 DEF SplitOpenRange, InLoop, IsOpen
  <2>2. /\ k \in 1..Size /\ start \in 1..MaxLen
        /\ fields[k] \in Field /\ GoodField(fields[k], k, Size, buffer)
        /\ NextPtr \in [buf : Nat, idx : Nat]
    BY <2>1, InLoopFacts
  <2>3. fields[k].next = NoPtr
    BY <2>1, <2>2 DEF GoodField
  <2>4. /\ source \in Field /\ source.next = NextPtr
        /\ source.start = fields[k].start /\ source.end = start
    BY <2>2 DEF IInv, Field
  <2>5. start <= start
    BY <2>2, FootprintAssumption
  <2> HIDE DEF source
  <2>6. EndedBehind' /\ InOrder'
    BY <2>1, <2>2, <2>3, <2>4, <2>5, OrderCopy
  <2> QED
    BY <2>1, <2>6 DEF OrderInv
<1>5. CASE ReopenEndedRange
  <2> DEFINE source == [fields[k] EXCEPT !.next = NextPtr]
  <2>1. /\ pc = "inactive" /\ k <= LoopBound
        /\ fields[k].end # SizeMax /\ fields[k].next = NoPtr
        /\ add_lock_protection_copy(source) /\ UNCHANGED <<pc, pos, start>>
    BY <1>5 DEF ReopenEndedRange, InLoop, SelectedInactive, IsOpen
  <2>2. /\ k \in 1..Size /\ start \in 1..MaxLen
        /\ fields[k] \in Field /\ NextPtr \in [buf : Nat, idx : Nat]
    BY <2>1, InLoopFacts
  <2>3. fields[k].end < pos /\ start = pos /\ fields[k].end \in Nat
    BY <2>1, <2>2, FieldEnd DEF OrderInv, EndedBehind
  <2>4. /\ source \in Field /\ source.next = NextPtr
        /\ source.start = fields[k].start /\ source.end <= start
    BY <2>2, <2>3, <1>1 DEF Field
  <2> HIDE DEF source
  <2>5. EndedBehind' /\ InOrder'
    BY <2>1, <2>2, <2>4, OrderCopy
  <2> QED
    BY <2>1, <2>5 DEF OrderInv
<1>6. CASE BeginElse
  BY <1>1, <1>6, OrderKept DEF BeginElse, StartLoop, array, OrderInv
<1>7. CASE BeginIf
  <2>1. UNCHANGED <<fields, pos>> /\ pc' = "active"
    BY <1>7 DEF BeginIf, StartLoop, array
  <2> QED
    BY <1>1, <2>1, OrderKept DEF OrderInv
<1>8. CASE Visit \/ StartScan \/ EndIf \/ SkipEntry \/ FinishScan \/ EndLoop
  <2>1. UNCHANGED fields /\ pc' # "inactive" /\ pos' \in {pos, pos + 1}
    BY <1>8 DEF Visit, StartScan, EndIf, SkipEntry, FinishScan, EndLoop,
                At, Scanning, array
  <2> QED
    BY <1>1, <2>1, OrderKept DEF OrderInv
<1>9. CASE NextField \/ UNCHANGED vars
  <2>1. UNCHANGED <<fields, pc, pos, start>>
    BY <1>9 DEF NextField, vars, array, loop
  <2> QED
    BY <1>1, <2>1, OrderKept DEF OrderInv
<1> QED
  BY <1>2, <1>3, <1>4, <1>5, <1>6, <1>7, <1>8, <1>9 DEF Next, Scan, Done

(* get_lp_fields_in_range counts one acquisition at most once: the ranges  *)
(* of its list do not overlap.                                             *)
THEOREM RangesOfAListDisjoint == Spec => []ListRangesDisjoint
<1>1. Init => OrderInv
  BY DEF Init, OrderInv, EndedBehind, InOrder, Size
<1>2. IInv /\ OrderInv => ListRangesDisjoint
  BY FieldFacts DEF OrderInv, InOrder, ListRangesDisjoint
<1> QED
  BY <1>1, <1>2, OrderStep, Invariance, PTL DEF Spec
=============================================================================
