------------------------------ MODULE Footprint ------------------------------
(***************************************************************************)
(* The access footprint of one root function, as the lock analysis of      *)
(* core.c gets it: the visitor prong_visitor_walk_func pushes one entry    *)
(* per variable access and per branch marker in source order,              *)
(* unwind_func_info turns the argument of a lock call into a LockAcquire   *)
(* or LockRelease entry, and build_var_access_footprint copies the entries *)
(* that are neither Null nor Call.  This module grows the footprint of a   *)
(* function that inlines no analysed callee, one entry at a time; the      *)
(* entries of an inlined callee are left to a module about the traversal.  *)
(*                                                                         *)
(* Two things the visitor really does shape the grammar.  It pushes EndIf  *)
(* only when it meets a later cursor outside the if statement, so a        *)
(* function may end with open ifs; and it pushes the EndIf of the previous *)
(* function's trailing ifs into the function it visits next, so a          *)
(* footprint may begin with stray EndIfs.                                  *)
(***************************************************************************)
EXTENDS Integers, Sequences

CONSTANTS
  Locks,       \* USRs of lock objects
  Vars,        \* USRs of the other shared variables
  MaxLen,      \* bound: entries of a footprint
  MaxNesting,  \* bound: if statements open at once
  MaxStray     \* bound: trailing ifs of the function visited before

ASSUME FootprintAssumption ==
  /\ MaxLen \in Nat
  /\ MaxNesting \in Nat
  /\ MaxStray \in Nat

VARIABLES
  footprint,   \* func_info->access_footprint
  nesting      \* the ifs of the ancestry stack, innermost last:
               \* the part of each that is being visited

NoUsr == "none"

(* The branch markers (VarAccess_IfStmt .. VarAccess_EndIf) carry no USR.  *)
Markers == {"IfStmt", "ThenBlock", "ElseStmt", "EndIf"}

(* What unwind_func_info makes of the first argument of a lock primitive.  *)
LockCalls == {"LockAcquire", "LockRelease"}

VarAccess == [type : {"Access", "Null"}, usr : Vars \cup Locks]
        \cup [type : LockCalls, usr : Locks]
        \cup [type : Markers, usr : {NoUsr}]

Marker(t) == [type |-> t, usr |-> NoUsr]

FootprintInit == footprint = <<>> /\ nesting = <<>>

Top == nesting[Len(nesting)]
InPart(parts) == nesting # <<>> /\ Top \in parts

SetTop(part) == [nesting EXCEPT ![Len(nesting)] = part]
PopTop == SubSeq(nesting, 1, Len(nesting) - 1)

(* A condition is always followed by its then block: it leaves room for it.*)
Reserve(nest) == IF nest # <<>> /\ nest[Len(nest)] = "cond" THEN 1 ELSE 0

push_var_access(va, nest) ==
  /\ Len(footprint) + Reserve(nest) < MaxLen
  /\ footprint' = Append(footprint, va)
  /\ nesting' = nest

-----------------------------------------------------------------------------
(* A read, write or escape of a variable.                                  *)
EmitAccess(v) == push_var_access([type |-> "Access", usr |-> v], nesting)

(* A lock object passed as the first argument of a lock or unlock call.    *)
EmitLockCall(t, l) == push_var_access([type |-> t, usr |-> l], nesting)

(* The cursor visited is an if statement; a condition holds no statement.  *)
EmitIfStmt ==
  /\ ~InPart({"cond"})
  /\ Len(nesting) < MaxNesting
  /\ push_var_access(Marker("IfStmt"), Append(nesting, "cond"))

(* The cursor visited is the then block, or the else block, of its parent. *)
EmitThenBlock ==
  /\ InPart({"cond"})
  /\ push_var_access(Marker("ThenBlock"), SetTop("then"))

EmitElseStmt ==
  /\ InPart({"then"})
  /\ push_var_access(Marker("ElseStmt"), SetTop("else"))

(* The cursor visited is outside the innermost if, which is unwound.       *)
EmitEndIf ==
  /\ InPart({"then", "else"})
  /\ push_var_access(Marker("EndIf"), PopTop)

(* The first cursor of this function unwinds an if that is still on the    *)
(* ancestry stack of the function visited before it.                       *)
EmitStrayEndIf ==
  /\ \A p \in 1..Len(footprint) : footprint[p] = Marker("EndIf")
  /\ nesting = <<>> /\ Len(footprint) < MaxStray
  /\ push_var_access(Marker("EndIf"), nesting)

FootprintNext ==
  \/ \E v \in Vars : EmitAccess(v)
  \/ \E t \in LockCalls, l \in Locks : EmitLockCall(t, l)
  \/ EmitIfStmt
  \/ EmitThenBlock
  \/ EmitElseStmt
  \/ EmitEndIf
  \/ EmitStrayEndIf

(* The visit of a function never stops inside a condition: every if has a  *)
(* then block, which is visited after the condition.                       *)
FootprintComplete == ~InPart({"cond"})

FootprintTypeOK ==
  /\ footprint \in Seq(VarAccess)
  /\ nesting \in Seq({"cond", "then", "else"})
=============================================================================
