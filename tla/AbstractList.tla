---------------------------- MODULE AbstractList ----------------------------
(* What DynamicAOS promises its users: a sequence of strings that pushes   *)
(* and pops change at its end, and that a push which runs out of memory    *)
(* leaves alone or, having lost the table of pointers, makes unreadable,   *)
(* every string of it, while their number stays.                           *)
EXTENDS Naturals, Sequences

CONSTANTS Words, Unreadable

VARIABLES contents, result

ListInit == contents = <<>> /\ result = "ERR_OK"

ListPush ==
  /\ result = "ERR_OK"
  /\ \E s \in Words : contents' = Append(contents, s)
  /\ UNCHANGED result

ListPop ==
  /\ result = "ERR_OK" /\ contents # <<>>
  /\ contents' = SubSeq(contents, 1, Len(contents) - 1)
  /\ UNCHANGED result

ListReset == result = "ERR_OK" /\ contents' = <<>> /\ UNCHANGED result

ListFail ==
  /\ result = "ERR_OK" /\ result' = "ERR_OUT_OF_MEMORY"
  /\ contents' \in {contents, [i \in DOMAIN contents |-> Unreadable]}

(* Nothing is promised to who uses the list after that.                    *)
ListMisuse ==
  /\ result = "ERR_OUT_OF_MEMORY" /\ result' = "undefined"
  /\ UNCHANGED contents

ListNext == ListPush \/ ListPop \/ ListReset \/ ListFail \/ ListMisuse

ListSpec == ListInit /\ [][ListNext]_<<contents, result>>
=============================================================================
