----------------------------- MODULE StringList -----------------------------
(***************************************************************************)
(* DynamicAOS (dyn_aos.c): strings packed into one block of memory, and a  *)
(* table of pointers to them.  A push that does not fit doubles the block  *)
(* until it does; each time the block may move, and every pointer has to   *)
(* follow it.                                                              *)
(*                                                                         *)
(* An address is a number.  The memory of the block is a function from     *)
(* offsets to bytes, and the k-th byte of a string is the pair of both.    *)
(* Entries of strings[] past count are left out.                           *)
(***************************************************************************)
EXTENDS Integers, Sequences

CONSTANTS
  Words,         \* the strings pushed
  Width,         \* strlen(w)+1
  InitialCap,    \* AOS_INITIAL_CAP
  InitialCount,  \* AOS_MAX_STR_COUNT
  Addresses,     \* where malloc may put a block
  MaxCount       \* bound: strings in the list

NULL == 0
Garbage == "garbage"
UnsetByte == <<Garbage, 0>>

ASSUME StringListAssumption ==
  /\ Width \in [Words -> Nat \ {0}]
  /\ InitialCap \in Nat \ {0}
  /\ InitialCount \in Nat \ {0}
  /\ Addresses \subseteq Nat \ {NULL}
  /\ MaxCount \in Nat
  /\ Garbage \notin Words

VARIABLES
  data,         \* array->data
  block,        \* the block allocated last: its address and its bytes
  capacity, size,
  strings,      \* the first count entries of array->strings, each NULL if
                \* the table is
  strings_cap,
  pending,      \* strings a call has still to push
  error         \* what the last push returned

lvars == <<data, block, capacity, size, strings, strings_cap, pending, error>>

Offsets(cap) == 0..(cap - 1)

(* malloc: the bytes are nobody's.                                         *)
Fresh(a, cap) == [base |-> a, bytes |-> [o \in Offsets(cap) |-> UnsetByte]]

LInit ==
  \E a \in Addresses :
    /\ data = a /\ block = Fresh(a, InitialCap)
    /\ capacity = InitialCap /\ size = 0
    /\ strings = <<>> /\ strings_cap = InitialCount
    /\ pending = <<>> /\ error = "ERR_OK"
-----------------------------------------------------------------------------
(* aos_push_string, for the head of pending                                *)

Pushing == error = "ERR_OK" /\ pending # <<>>
Room == Len(strings) + 1 <= strings_cap

(* Faulty: the terminating null is forgotten.                              *)
FitsUnterminated(w) == size + Width[w] - 1 <= capacity
Fits(w) == size + Width[w] <= capacity

NotDoubled(cap, initial) == cap  \* faulty
Doubled(cap, initial) == IF cap = 0 THEN initial ELSE 2 * cap

(* aos_update_old_strings; the faulty forms forget it, or swap its operands*)
NotMoved(a) == strings
MovedBack(a) == [i \in 1..Len(strings) |-> strings[i] + (data - a)]
Moved(a) == [i \in 1..Len(strings) |-> strings[i] + (a - data)]

(* reallocarray: the old bytes come along.                                 *)
Resized(a, cap) ==
  [base |-> a,
   bytes |-> [o \in Offsets(cap) |->
                IF o \in DOMAIN block.bytes THEN block.bytes[o] ELSE UnsetByte]]

GrowTable ==
  /\ Pushing /\ ~Room
  /\ strings_cap' = Doubled(strings_cap, InitialCount)
  /\ UNCHANGED <<data, block, capacity, size, strings, pending, error>>

(* Every entry of a table that is NULL, as many as array->count says.      *)
NullTable == [i \in 1..Len(strings) |-> NULL]

(* array->strings is NULL now, array->count what it was.                   *)
GrowTableFails ==
  /\ Pushing /\ ~Room
  /\ strings' = NullTable
  /\ error' = "ERR_OUT_OF_MEMORY" /\ pending' = Tail(pending)
  /\ UNCHANGED <<data, block, capacity, size, strings_cap>>

GrowBlock ==
  /\ Pushing /\ Room /\ ~Fits(Head(pending))
  /\ capacity' = Doubled(capacity, InitialCap)
  /\ \E a \in Addresses :
       /\ data' = a
       /\ block' = Resized(a, capacity')
       /\ strings' = Moved(a)
  /\ UNCHANGED <<size, strings_cap, pending, error>>

(* The old block stays where it is, though array->data is NULL now.        *)
GrowBlockFails ==
  /\ Pushing /\ Room /\ ~Fits(Head(pending))
  /\ data' = NULL
  /\ error' = "ERR_OUT_OF_MEMORY" /\ pending' = Tail(pending)
  /\ UNCHANGED <<block, capacity, size, strings, strings_cap>>

(* memcpy of w to offset at; what lies past the block is not modelled.     *)
Written(at, w) ==
  [block EXCEPT !.bytes =
     [o \in DOMAIN block.bytes |->
        IF o \in at..(at + Width[w] - 1) THEN <<w, o - at + 1>> ELSE block.bytes[o]]]

StoreString ==
  /\ Pushing /\ Room /\ Fits(Head(pending))
  /\ block' = Written(size, Head(pending))
  /\ strings' = Append(strings, data + size)
  /\ size' = size + Width[Head(pending)]
  /\ pending' = Tail(pending)
  /\ UNCHANGED <<data, capacity, strings_cap, error>>

(* No caller looks at the result, aos_append_strings no more than others.  *)
(* The next push copies to NULL, or adds the address of a new block to the *)
(* pointers into the old one; a lookup in a lost table reads through NULL. *)
(* What comes of that is not followed.                                     *)
UseAfterFailure ==
  /\ error = "ERR_OUT_OF_MEMORY"
  /\ error' = "undefined" /\ pending' = <<>>
  /\ UNCHANGED <<data, block, capacity, size, strings, strings_cap>>
-----------------------------------------------------------------------------
Idle == error = "ERR_OK" /\ pending = <<>>

CallPush(w) ==
  /\ Idle /\ Len(strings) < MaxCount
  /\ pending' = <<w>>
  /\ UNCHANGED <<data, block, capacity, size, strings, strings_cap, error>>

(* aos_append_strings: ERR_INVALID_ARG if either list is empty.            *)
CallAppend(ws) ==
  /\ Idle /\ Len(strings) + Len(ws) <= MaxCount
  /\ strings # <<>> /\ ws # <<>>
  /\ pending' = ws
  /\ UNCHANGED <<data, block, capacity, size, strings, strings_cap, error>>

(* Block b holds the string w at address p.                                *)
Holds(b, p, w) ==
  \A k \in 1..Width[w] :
    /\ p - b.base + k - 1 \in DOMAIN b.bytes
    /\ b.bytes[p - b.base + k - 1] = <<w, k>>

(* The string a pointer points to.                                         *)
StringAt(b, p) ==
  IF \E w \in Words : Holds(b, p, w) THEN CHOOSE w \in Words : Holds(b, p, w) ELSE Garbage

Last_str == StringAt(block, strings[Len(strings)])

(* aos_pop_string                                                          *)
Pop ==
  /\ Idle /\ strings # <<>>
  /\ size' = size - Width[Last_str]
  /\ strings' = SubSeq(strings, 1, Len(strings) - 1)
  /\ UNCHANGED <<data, block, capacity, strings_cap, pending, error>>

(* reset_aos                                                               *)
Reset ==
  /\ Idle
  /\ \E a \in Addresses : data' = a /\ block' = Fresh(a, InitialCap)
  /\ capacity' = InitialCap /\ size' = 0
  /\ strings' = <<>> /\ strings_cap' = InitialCount
  /\ UNCHANGED <<pending, error>>

Push == GrowTable \/ GrowTableFails \/ GrowBlock \/ GrowBlockFails \/ StoreString

LNext ==
  \/ \E w \in Words : CallPush(w)
  \/ \E ws \in UNION {[1..n -> Words] : n \in 0..MaxCount} : CallAppend(ws)
  \/ Push \/ UseAfterFailure \/ Pop \/ Reset

LSpec == LInit /\ [][LNext]_lvars

(* A thread in aos_push_string or aos_append_strings goes on.              *)
LFairSpec == LSpec /\ WF_lvars(Push \/ (pending # <<>> /\ UseAfterFailure))
-----------------------------------------------------------------------------
(* Types; the block has as many bytes as array->capacity says.             *)
LTypeOK ==
  /\ data \in Nat /\ capacity \in Nat /\ size \in Nat
  /\ strings_cap \in Nat
  /\ strings \in Seq(Nat) /\ pending \in Seq(Words)
  /\ block.base \in Nat
  /\ DOMAIN block.bytes = Offsets(capacity)
  /\ error \in {"ERR_OK", "ERR_OUT_OF_MEMORY", "undefined"}

(* Where the string after the i-th begins.                                 *)
EndOf(i) == strings[i] + Width[StringAt(block, strings[i])]

TableLost == error = "ERR_OUT_OF_MEMORY" /\ strings = NullTable

(* Every entry of strings[] points to a whole string in the block the list *)
(* has now, and the strings are packed: the next begins where one ends,    *)
(* and the free room where the last ends.  A push that cannot grow the     *)
(* block changes nothing in that, and one that cannot grow the table leaves*)
(* no entry to follow, of as many as before: never some of them.           *)
StringsLive ==
  error # "undefined" =>
    \/ TableLost
    \/ /\ \A i \in 1..Len(strings) : \E w \in Words : Holds(block, strings[i], w)
       /\ \A i \in 1..(Len(strings) - 1) : strings[i + 1] = EndOf(i)
       /\ strings # <<>> => /\ strings[1] = block.base
                            /\ EndOf(Len(strings)) = block.base + size

(* The strings aos_string_at reads through the table.                      *)
contents == [i \in 1..Len(strings) |-> StringAt(block, strings[i])]

A == INSTANCE AbstractList WITH contents <- contents, result <- error, Unreadable <- Garbage

(* Refinement: they are those of the abstract list, whatever aos_push_string
   moved meanwhile.                                                        *)
ImplementsList == A!ListSpec

(* Every push and append returns: the goto of aos_push_string is left.     *)
PushReturns == pending # <<>> ~> pending = <<>>
=============================================================================
