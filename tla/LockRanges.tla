------------------------------ MODULE LockRanges ------------------------------
(***************************************************************************)
(* annotate_lock_protection_ranges (core.c) and the ProtectionFieldArray it *)
(* fills (lock_tracking.c).  One pass over an access footprint turns every *)
(* LockAcquire entry into a linked list of ranges of footprint positions,  *)
(* kept scattered in one array that reallocarray may move while loops over *)
(* it hold pointers into it.                                               *)
(*                                                                         *)
(* Positions count from 1 here and from 0 in C; only their order matters.  *)
(* A pointer to a list element is the allocation it points into and the    *)
(* index of the element there.  The branch-copying loops are one action    *)
(* per iteration, because each iteration may reallocate the array.         *)
(***************************************************************************)
EXTENDS Footprint

CONSTANTS
  LockHash,     \* lock_tracking_gen_hash on the USRs of lock objects
  NumLpFields,  \* NUM_LP_FIELDS, the initial capacity of the array
  SizeMax,      \* SIZE_MAX: the end of an open range, the bound of a depth
  Moves,        \* what reallocarray may do: TRUE, move the block; FALSE,
                \* extend it in place
  Leftovers     \* what lock_obj_hash and branch_depth of an element of a
                \* freed block may read as, beside what they were: {}, if
                \* the allocator leaves the bytes of the block alone

ASSUME LockRangesAssumption ==
  /\ LockHash \in [Locks -> Nat]
  /\ NumLpFields \in Nat \ {0}
  /\ SizeMax \in Nat /\ MaxLen < SizeMax
  /\ Moves \subseteq BOOLEAN /\ Moves # {}
  /\ Leftovers \subseteq [hash : Nat, depth : 0..SizeMax]

VARIABLES
  pc,        \* "visit" while the footprint grows, "scan" in the for loop of
             \* annotate_lock_protection_ranges, "active" or "inactive" in the
             \* loop of add_protection_range_fields_active or _inactive, "done"
  pos,       \* i, the position scanned
  depth,     \* branch_depth
  fields,    \* lp_field_array->lp_fields[0 .. size-1]
  capacity,  \* lp_field_array->capacity
  buffer,    \* which allocation lp_field_array->lp_fields is
  k,         \* i of the copying loops
  bound,     \* lp_field_arr_size, read before a copying loop starts
  start      \* prot_range_start of a copying loop

array == <<fields, capacity, buffer>>
loop == <<k, bound, start>>
vars == <<footprint, nesting, pc, pos, depth, array, loop>>

NoPtr == [buf |-> 0, idx |-> 0]

Field == [hash : Nat, start : 1..MaxLen, end : 1..MaxLen \cup {SizeMax},
          depth : 0..SizeMax, next : [buf : Nat, idx : Nat], head : BOOLEAN]

Init ==
  /\ FootprintInit
  /\ pc = "visit" /\ pos = 1 /\ depth = 0
  /\ fields = <<>> /\ capacity = NumLpFields /\ buffer = 1
  /\ k = 1 /\ bound = 0 /\ start = 1

(* size_t arithmetic on branch_depth wraps. *)
Inc(d) == IF d = SizeMax THEN 0 ELSE d + 1

(* Faulty: the depth goes below zero.                                      *)
DecSigned(d) == d - 1

Dec(d) == IF d = 0 THEN SizeMax ELSE d - 1

IsOpen(i) == fields[i].end = SizeMax

-----------------------------------------------------------------------------
(* The array                                                               *)

(* Faulty: the list pointers stay as they were.                            *)
RebaseNothing(f) == f

(* One element after the block moved: its list pointer is shifted by the   *)
(* distance between the new block and the old one.                         *)
Rebase(f) == IF f.next = NoPtr THEN f ELSE [f EXCEPT !.next.buf = @ + 1]

(* update_lp_field_array_pointers                                          *)
Rebased(moved) ==
  [i \in DOMAIN fields |-> IF moved THEN Rebase(fields[i]) ELSE fields[i]]

(* What reallocarray may do when the array is, or is not, found full.      *)
Outcomes(full) == IF full THEN Moves ELSE {FALSE}

GrowArray(full, moved) ==
  /\ capacity' = IF full THEN 2 * capacity ELSE capacity
  /\ buffer' = IF moved THEN buffer + 1 ELSE buffer

NewField(l) ==
  [hash |-> LockHash[l], start |-> pos, end |-> SizeMax,
   depth |-> 0, next |-> NoPtr, head |-> TRUE]

(* Faulty: a full array is noticed one element too late.                   *)
LateFull == Len(fields) > capacity

FieldArrayFull == Len(fields) >= capacity

add_lock_protection_field(l) ==
  \E moved \in Outcomes(FieldArrayFull) :
    /\ GrowArray(FieldArrayFull, moved)
    /\ fields' = Append(Rebased(moved), NewField(l))

(* What *lp_field_in may read as once room is made for the copy: if the    *)
(* array moved, the pointer still leads into the block it left.            *)
Readings(moved) ==
  {fields[k]} \cup
  (IF moved THEN {[fields[k] EXCEPT !.hash = f.hash, !.depth = f.depth] : f \in Leftovers}
            ELSE {})

(* Faulty: the copy is made after the source was rewritten.                *)
CopyOfMarked(read, source) ==
  [source EXCEPT !.start = start, !.end = SizeMax, !.next = NoPtr, !.head = FALSE]

(* Faulty: the copy keeps the start of its source.                         *)
CopyFromStart(read, source) ==
  [read EXCEPT !.end = SizeMax, !.next = NoPtr, !.head = FALSE]

(* The copy of what was read of element k before the caller rewrote it.    *)
RangeCopy(read, source) ==
  [read EXCEPT !.start = start, !.end = SizeMax, !.next = NoPtr, !.head = FALSE]

(* Append the copy of element k and write the source's new contents.  The  *)
(* source is read and written through a pointer taken before the array     *)
(* grew: if it moved, the copy is of the freed block, and the writes go    *)
(* there and are lost.                                                     *)
add_lock_protection_copy(source) ==
  LET full == Len(fields) >= capacity - 1
  IN  \E moved \in Outcomes(full) : \E read \in Readings(moved) :
        /\ GrowArray(full, moved)
        /\ fields' = Append(IF moved THEN Rebased(TRUE)
                            ELSE [fields EXCEPT ![k] = source],
                            RangeCopy(read, source))

NextPtr == [buf |-> buffer, idx |-> Len(fields) + 1]

(* get_lp_field_linked_list_end, by the index of the element.              *)
ListEnd(i) ==
  IF fields[i].next = NoPtr THEN i
  ELSE LET end[j \in DOMAIN fields] ==
             IF fields[j].next = NoPtr THEN j ELSE end[fields[j].next.idx]
       IN  end[i]
-----------------------------------------------------------------------------
(* The scan                                                                *)

Scanning == pc = "scan" /\ pos <= Len(footprint)
At(t) == Scanning /\ footprint[pos].type = t

Visit ==
  /\ pc = "visit"
  /\ FootprintNext
  /\ UNCHANGED <<pc, pos, depth, array, loop>>

StartScan ==
  /\ pc = "visit"
  /\ FootprintComplete
  /\ pc' = "scan"
  /\ UNCHANGED <<footprint, nesting, pos, depth, array, loop>>

AcquireLock ==
  /\ At("LockAcquire")
  /\ add_lock_protection_field(footprint[pos].usr)
  /\ pos' = pos + 1
  /\ UNCHANGED <<footprint, nesting, pc, depth, loop>>

(* Faulty: a release also ends ranges that were ended before.              *)
CloseAgain(l) ==
  [i \in DOMAIN fields |->
     IF fields[i].hash = LockHash[l] THEN [fields[i] EXCEPT !.end = pos]
     ELSE fields[i]]

(* set_protection_range_end: each open element of the lock ends the list   *)
(* it is in, here.                                                         *)
set_protection_range_end(l) ==
  LET ended == {ListEnd(i) : i \in {j \in DOMAIN fields :
                  IsOpen(j) /\ fields[j].hash = LockHash[l]}}
  IN  [i \in DOMAIN fields |->
         IF i \in ended THEN [fields[i] EXCEPT !.end = pos] ELSE fields[i]]

ReleaseLock ==
  /\ At("LockRelease")
  /\ fields' = set_protection_range_end(footprint[pos].usr)
  /\ pos' = pos + 1
  /\ UNCHANGED <<footprint, nesting, pc, depth, capacity, buffer, loop>>

(* Call of a copying loop, which works on the elements there are now.      *)
StartLoop(name, from) ==
  /\ pc' = name
  /\ k' = 1 /\ bound' = Len(fields) /\ start' = from
  /\ UNCHANGED <<footprint, nesting, pos, array>>

(* The range of a branch starts at the first ThenBlock ahead.              *)
BeginIf ==
  /\ At("IfStmt")
  /\ depth' = Inc(depth)
  /\ \E t \in (pos + 1)..Len(footprint) :
       /\ footprint[t].type = "ThenBlock"
       /\ \A p \in (pos + 1)..(t - 1) : footprint[p].type # "ThenBlock"
       /\ StartLoop("active", t)

BeginElse ==
  /\ At("ElseStmt")
  /\ StartLoop("inactive", pos)
  /\ UNCHANGED depth

EndIf ==
  /\ At("EndIf")
  /\ depth' = Dec(depth)
  /\ pos' = pos + 1
  /\ UNCHANGED <<footprint, nesting, pc, array, loop>>

SkipEntry ==
  /\ Scanning /\ footprint[pos].type \in {"Null", "Access", "ThenBlock"}
  /\ pos' = pos + 1
  /\ UNCHANGED <<footprint, nesting, pc, depth, array, loop>>

FinishScan ==
  /\ pc = "scan" /\ pos > Len(footprint)
  /\ pc' = "done"
  /\ UNCHANGED <<footprint, nesting, pos, depth, array, loop>>
-----------------------------------------------------------------------------
(* The copying loops                                                       *)

(* Faulty: the loops run up to the size the array has now.                 *)
LiveBound == Len(fields)

LoopBound == bound

InLoop(name) == pc = name /\ k <= LoopBound

(* Faulty: the depth asked for is that inside this if.                     *)
SelectedInside(i) ==
  /\ fields[i].next = NoPtr
  /\ ~IsOpen(i)
  /\ fields[i].depth = depth

(* The ranges an else block continues: ended, the last of their list, and  *)
(* of the depth outside this if.                                           *)
SelectedInactive(i) ==
  /\ fields[i].next = NoPtr
  /\ ~IsOpen(i)
  /\ fields[i].depth = Dec(depth)

(* Faulty: the source of the copy is not ended where the copy starts.      *)
SplitLeftOpen ==
  /\ InLoop("active") /\ IsOpen(k)
  /\ add_lock_protection_copy([fields[k] EXCEPT !.next = NextPtr])
  /\ k' = k + 1
  /\ UNCHANGED <<footprint, nesting, pc, pos, depth, bound, start>>

SplitOpenRange ==
  /\ InLoop("active") /\ IsOpen(k)
  /\ add_lock_protection_copy([fields[k] EXCEPT !.next = NextPtr,
                                                !.end = start, !.depth = depth])
  /\ k' = k + 1
  /\ UNCHANGED <<footprint, nesting, pc, pos, depth, bound, start>>

ReopenEndedRange ==
  /\ InLoop("inactive") /\ SelectedInactive(k)
  /\ add_lock_protection_copy([fields[k] EXCEPT !.next = NextPtr])
  /\ k' = k + 1
  /\ UNCHANGED <<footprint, nesting, pc, pos, depth, bound, start>>

(* Faulty: the loop index is not advanced.                                 *)
StayOnField ==
  /\ \/ InLoop("active") /\ ~IsOpen(k)
     \/ InLoop("inactive") /\ ~SelectedInactive(k)
  /\ UNCHANGED vars

NextField ==
  /\ \/ InLoop("active") /\ ~IsOpen(k)
     \/ InLoop("inactive") /\ ~SelectedInactive(k)
  /\ k' = k + 1
  /\ UNCHANGED <<footprint, nesting, pc, pos, depth, array, bound, start>>

(* Return to the scan; the locals of the loop are out of scope.            *)
EndLoop ==
  /\ pc \in {"active", "inactive"} /\ k > LoopBound
  /\ pc' = "scan" /\ pos' = pos + 1
  /\ k' = 1 /\ bound' = 0 /\ start' = 1
  /\ UNCHANGED <<footprint, nesting, depth, array>>
-----------------------------------------------------------------------------
Scan ==
  \/ AcquireLock \/ ReleaseLock \/ BeginIf \/ BeginElse \/ EndIf \/ SkipEntry
  \/ SplitOpenRange \/ ReopenEndedRange \/ NextField \/ EndLoop \/ FinishScan

Done == pc = "done" /\ UNCHANGED vars

Next == Visit \/ StartScan \/ Scan \/ Done

Spec == Init /\ [][Next]_vars

(* The scan is one thread of straight-line code: it runs to its end.       *)
FairSpec == Spec /\ WF_vars(Scan)
-----------------------------------------------------------------------------
(* Properties                                                              *)

TypeOK ==
  /\ FootprintTypeOK
  /\ pc \in {"visit", "scan", "active", "inactive", "done"}
  /\ pos \in Nat \ {0}
  /\ depth \in 0..SizeMax
  /\ fields \in Seq(Field)
  /\ capacity \in Nat \ {0}
  /\ buffer \in Nat \ {0}
  /\ k \in Nat \ {0} /\ bound \in Nat /\ start \in 1..MaxLen \cup {1}

(* A list never continues past an open range: set_protection_range_end     *)
(* always ends the element it found open itself, and lp_cond_prot, which   *)
(* asks for an open element with a successor, never holds.                 *)
OpenRangeIsTail ==
  \A i \in DOMAIN fields : IsOpen(i) => fields[i].next = NoPtr

(* After any number of reallocations every list pointer points forward     *)
(* into the block in use and at an element that was written.               *)
PointersLive ==
  \A i \in DOMAIN fields : fields[i].next # NoPtr =>
    /\ fields[i].next.buf = buffer
    /\ fields[i].next.idx \in (i + 1)..Len(fields)

(* The last element of every list carries branch depth 0, or what a freed  *)
(* block gave as one: the copy is made before the source is marked.  So the*)
(* depth test of the else loop only ever selects something in an else of   *)
(* an outermost if.                                                        *)
TailDepths == {0} \cup (IF TRUE \in Moves THEN {f.depth : f \in Leftovers} ELSE {})

TailDepthZero ==
  \A i \in DOMAIN fields : fields[i].next = NoPtr => fields[i].depth \in TailDepths

(* Elements stay within the block, and a copying loop, which appends to    *)
(* the array it walks, copies each element it started with at most once.   *)
ArrayBounded ==
  /\ Len(fields) <= capacity
  /\ pc \in {"active", "inactive"} =>
       /\ k <= bound + 1
       /\ bound <= Len(fields)
       /\ Len(fields) <= bound + k - 1

(* The ranges of one list follow each other without overlap, so that       *)
(* get_lp_fields_in_range, which counts elements, counts one acquisition   *)
(* at most once at a position.                                             *)
ListRangesDisjoint ==
  \A i \in DOMAIN fields : fields[i].next # NoPtr =>
    fields[i].end <= fields[fields[i].next.idx].start

(* Once written, the end and the successor of a range are final: no later  *)
(* release, branch or reallocation rewrites the history of a lock.         *)
RangesFrozen ==
  [][\A i \in DOMAIN fields :
       /\ ~IsOpen(i) => fields'[i].end = fields[i].end
       /\ fields[i].next # NoPtr => fields'[i].next.idx = fields[i].next.idx]_vars

(* Every scan ends, although its loops append to the array they walk.      *)
ScanTerminates == pc = "scan" ~> pc = "done"
=============================================================================
