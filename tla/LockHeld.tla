------------------------------- MODULE LockHeld -------------------------------
(***************************************************************************)
(* What the ranges of LockRanges are worth: the locks they say cover an    *)
(* access (get_lp_fields_in_range, lock_tracking.c), compared with the     *)
(* locks the analysed function holds there on every path, on some path,    *)
(* and on the path that takes every then block.                            *)
(***************************************************************************)
EXTENDS LockRanges, SequencesExt, FiniteSets

(* Faulty: the walk stops at the first element of each list.               *)
FirstElements(fs) == [i \in DOMAIN fs |-> IF fs[i].head THEN i ELSE 0]

(* The is_ll_start element from which a walk along the list pointers       *)
(* reaches each element, or 0: list pointers go forward, so an element is  *)
(* reached through a smaller index.                                        *)
ListOf(fs) ==
  LET list[i \in DOMAIN fs] ==
        LET before == {j \in 1..(i - 1) : fs[j].next.idx = i}
        IN  IF fs[i].head THEN i
            ELSE IF before = {} THEN 0 ELSE list[CHOOSE j \in before : TRUE]
  IN  list

(* get_lp_fields_in_range; lp_cond_prot, its third disjunct in the code,   *)
(* asks for an open element with a successor.                              *)
get_lp_fields_in_range(fs, p) ==
  LET list == ListOf(fs)
  IN  {i \in DOMAIN fs :
         /\ list[i] # 0
         /\ \/ fs[i].start < p /\ p < fs[i].end
            \/ fs[i].next # NoPtr /\ fs[i].end = SizeMax /\ fs[i].depth # 0}

CoveringLocks(fs, p) ==
  {l \in Locks : \E i \in get_lp_fields_in_range(fs, p) :
                   fs[i].hash = LockHash[l]}
-----------------------------------------------------------------------------
(* The reference: locks held along the paths of the function.  "must" are  *)
(* those held on every path to a position and "may" on some path; each     *)
(* open if keeps the locks of the way around the block being read.         *)

Update(h, l, acquired) ==
  IF acquired THEN [h EXCEPT !.must = @ \cup {l}, !.may = @ \cup {l}]
              ELSE [h EXCEPT !.must = @ \ {l}, !.may = @ \ {l}]

NoneHeld == [must |-> {}, may |-> {}, around |-> <<>>]

HeldAfter(h, va) ==
  CASE va.type \in LockCalls ->
         Update(h, va.usr, va.type = "LockAcquire")
    [] va.type = "ThenBlock" ->
         [h EXCEPT !.around = Append(@, [must |-> h.must, may |-> h.may])]
    [] va.type = "ElseStmt" ->
         LET other == Last(h.around)
         IN  [must |-> other.must, may |-> other.may,
              around |-> Append(Front(h.around), [must |-> h.must, may |-> h.may])]
    [] va.type = "EndIf" /\ h.around # <<>> ->
         LET other == Last(h.around)
         IN  [must |-> h.must \cap other.must, may |-> h.may \cup other.may,
              around |-> Front(h.around)]
    [] OTHER -> h

HeldAt(fp, p) ==
  LET held[n \in 0..(p - 1)] ==
        IF n = 0 THEN NoneHeld ELSE HeldAfter(held[n - 1], fp[n])
  IN  held[p - 1]

Calls(fp, q, t, l) == fp[q].type = t /\ fp[q].usr = l

(* The locks the calls before a position leave held, branches ignored.     *)
HeldStraight(fp, p) ==
  {l \in Locks :
     \E q \in 1..(p - 1) :
       /\ Calls(fp, q, "LockAcquire", l)
       /\ \A r \in (q + 1)..(p - 1) : ~Calls(fp, r, "LockRelease", l)}

Accesses(fp) == {p \in DOMAIN fp : fp[p].type = "Access"}

AfterElse(fp, p) == \E q \in 1..(p - 1) : fp[q].type = "ElseStmt"
InCondition(fp, p) ==
  \E q \in 1..(p - 1) : /\ fp[q].type = "IfStmt"
                        /\ \A r \in q..p : fp[r].type # "ThenBlock"
-----------------------------------------------------------------------------
(* Properties                                                              *)

(* A lock held on every path to an access covers it, whatever the other    *)
(* branch did with the lock, as long as ifs are not nested and the array   *)
(* is never moved.                                                         *)
MustHeldCovered ==
  pc = "done" =>
    \A p \in Accesses(footprint) :
      HeldAt(footprint, p).must \subseteq CoveringLocks(fields, p)

(* Up to the first else block, wherever the array was moved to and whatever*)
(* a copy then read of the block it left, the ranges cover an access       *)
(* exactly with the locks the calls before it left held: splitting a range *)
(* at an if neither loses nor invents protection.  A copy made while the   *)
(* array moved is never linked, so no list reaches what was read for it.   *)
ThenPathExact ==
  pc = "done" =>
    \A p \in Accesses(footprint) :
      ~AfterElse(footprint, p) /\ ~InCondition(footprint, p) =>
        CoveringLocks(fields, p) = HeldStraight(footprint, p)

(* core.c:1081 "Add additional protected sections for lp fields terminated *)
(* in other branches": the first access of an else block is covered by the *)
(* locks held there, whatever the then block released.                     *)
ElseProtected ==
  pc = "done" =>
    \A p \in Accesses(footprint) :
      p > 1 /\ footprint[p - 1].type = "ElseStmt" =>
        HeldAt(footprint, p).must \subseteq CoveringLocks(fields, p)

(* lock_tracking.c:296 "extends their range to disconnected sections in a  *)
(* linked list arrangement": every copied range is linked into a list.     *)
CopiesLinked ==
  pc = "done" => \A i \in DOMAIN fields : ListOf(fields)[i] # 0
=============================================================================
