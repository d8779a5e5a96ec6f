------------------------------ MODULE Accesses ------------------------------
(***************************************************************************)
(* How the visitor prong_visitor_walk_func (core.c) classifies a reference *)
(* to a variable: by the cursors it finds on the ancestry stack it keeps   *)
(* by hand, and by how far up each of them is.                             *)
(*                                                                         *)
(* libclang is external.  A program is an AST of cursors given by their    *)
(* kind, children and the thing they name.  Kinds the visitor does not     *)
(* look at are "Other", or "CompoundAssign" for += and the like, which     *)
(* libclang does not count as binary operators.  Implicit casts are left   *)
(* out: one around a variable has its extent, so cursors_are_equal takes   *)
(* the two for one cursor.  A USR is the sequence of the variable and the  *)
(* fields taken from it.  What is visited for a callee (body) is also the  *)
(* declaration of a function pointer called by its name: its parameters    *)
(* and what it is initialised with.                                        *)
(***************************************************************************)
EXTENDS Integers, SequencesExt

CONSTANTS
  Programs,     \* the programs analysed
  Pointers,     \* variables of a pointer or array type
  LockFuncs,    \* functions that are a lock_func of default_lock_pairs
  UnlockFuncs   \* functions that are an unlock_func there

NoCursor == <<>>

(* No then or else block of an if around a call of a function with a body  *)
(* is visited after the call, and no condition holds another if.           *)
Regular(p) ==
  \A c \in DOMAIN p.kind, i \in DOMAIN p.kind :
    i \in p.ancestors[c] /\ p.kind[i] = "If" =>
      /\ p.kind[c] = "Call" /\ p.sym[c] \in DOMAIN p.body \ p.system =>
           Last(p.kids[i]) \in p.ancestors[c] \cup {c}
      /\ p.kind[c] = "If" => p.kids[i][1] \notin p.ancestors[c] \cup {c}

(* An AST is a tree: a cursor is below its parent and what is above it, and *)
(* lies in one subtree of each of them.                                    *)
Tree(p) ==
  \A c \in DOMAIN p.kind :
    /\ c \notin p.ancestors[c]
    /\ IF p.parent[c] = NoCursor THEN p.ancestors[c] = {}
       ELSE /\ \E k \in DOMAIN p.kids[p.parent[c]] : p.kids[p.parent[c]][k] = c
            /\ p.ancestors[c] = p.ancestors[p.parent[c]] \cup {p.parent[c]}
    /\ \A k \in DOMAIN p.kids[c] : p.parent[p.kids[c][k]] = c
    /\ \A a \in p.ancestors[c] :
         /\ p.ancestors[a] \subseteq p.ancestors[c]
         /\ \E k \in DOMAIN p.kids[a] :
              \A l \in DOMAIN p.kids[a] : p.kids[a][l] \in p.ancestors[c] \cup {c} <=> l = k

(* What the syntax of C says of children: a definition has a body, an if a *)
(* condition and a then block, assignments and a subscript two operands,   *)
(* and a member expression no more than the structure it is taken from.    *)
Syntax(p) ==
  /\ \A fn \in DOMAIN p.body :
       /\ p.kind[p.body[fn]] = "Func" /\ p.parent[p.body[fn]] = NoCursor
       /\ p.kids[p.body[fn]] # <<>>
  /\ \A c \in DOMAIN p.kind :
       /\ p.kind[c] = "If" => Len(p.kids[c]) >= 2
       /\ p.kind[c] \in {"Assign", "CompoundAssign", "Index"} => Len(p.kids[c]) = 2
       /\ p.kind[c] = "Member" => Len(p.kids[c]) <= 1

(* The derived fields of a program say what they should.                   *)
ASSUME ProgramsAssumption ==
  \A p \in Programs :
    /\ NoCursor \notin DOMAIN p.kind
    /\ p.kind \in [DOMAIN p.kind -> STRING] /\ p.sym \in [DOMAIN p.kind -> STRING]
    /\ p.kids \in [DOMAIN p.kind -> Seq(DOMAIN p.kind)]
    /\ p.parent \in [DOMAIN p.kind -> DOMAIN p.kind \cup {NoCursor}]
    /\ p.ancestors \in [DOMAIN p.kind -> SUBSET DOMAIN p.kind]
    /\ p.body \in [DOMAIN p.body -> DOMAIN p.kind] /\ DOMAIN p.body \subseteq STRING
    /\ p.defs \in Seq(DOMAIN p.body)
    /\ p.command \in Seq([func : STRING, args : Seq(STRING)])
    /\ p.regular = Regular(p)
    /\ Tree(p) /\ Syntax(p)

VARIABLE program   \* the program of this behaviour

Kind(c) == program.kind[c]
Kids(c) == program.kids[c]
Sym(c) == program.sym[c]
Parent(c) == program.parent[c]
Ancestors(c) == program.ancestors[c]

NO_IDX == -1
NoUsr == <<>>
NoFunc == "none"

UnaryKinds == {"AddrOf", "Deref", "IncDec", "OtherUnary"}

(* get_cursor_of_kind, get_binop_assignment                                *)
Closest(stack, kinds) ==
  LET i == SelectLastInSeq(stack, LAMBDA c : Kind(c) \in kinds)
  IN  IF i = 0 THEN NoCursor ELSE stack[i]

(* get_cursor_offset_of_kind, get_binop_assignment_offset: 1 is the tail;  *)
(* ANCESTOR_NOT_FOUND is larger than any offset.                           *)
Offset(stack, kinds) ==
  Len(stack) + 1 - SelectLastInSeq(stack, LAMBDA c : Kind(c) \in kinds)

Found(stack, kinds) == Offset(stack, kinds) <= Len(stack)

(* cursors_are_equal or in_cursor_stack: c is d or below it, as far as the *)
(* stack tells.                                                            *)
Within(stack, c, d) == c = d \/ Contains(stack, d)

(* The first child of the closest cursor of these kinds is c or above it.  *)
OnLeft(stack, kinds, c) ==
  LET a == Closest(stack, kinds)
  IN  a # NoCursor /\ Kids(a) # <<>> /\ Within(stack, c, Head(Kids(a)))
-----------------------------------------------------------------------------
(* The access type of variable reference c; "None" pushes no entry.        *)

PassedToCall(stack, c) ==
  IF Offset(stack, UnaryKinds) < Offset(stack, {"Call"})
  THEN IF Kind(Closest(stack, UnaryKinds)) = "AddrOf" THEN "Escape" ELSE "Read"
  ELSE IF Sym(c) \in Pointers THEN "Escape" ELSE "Read"

Subscripted(stack, c) ==
  CASE ~OnLeft(stack, {"Index"}, c) -> "Read"
    [] OnLeft(stack, {"Index"}, c) /\ ~Found(stack, {"Assign"}) -> "None"
    [] OTHER -> IF OnLeft(stack, {"Assign"}, c) THEN "PtrWrite" ELSE "PtrRead"

Dereferenced(stack, c) ==
  CASE ~OnLeft(stack, {"Assign"}, c) -> "PtrRead"
    [] /\ OnLeft(stack, {"Assign"}, c)
       /\ \/ OnLeft(stack, {"Assign", "BinOp"}, c)
          \/ Kids(Closest(stack, {"Assign"}))[1] = c -> "PtrWrite"
    [] OTHER -> "Read"

UnderUnary(stack, c) ==
  CASE Kind(Closest(stack, UnaryKinds)) = "Deref" -> Dereferenced(stack, c)
    [] Kind(Closest(stack, UnaryKinds)) = "IncDec" -> "Write"
    [] OTHER -> "Read"

(* Faulty: the side of the assignment is not looked at.                    *)
AssignedEitherSide(stack, c) == "Write"

Assigned(stack, c) == IF OnLeft(stack, {"Assign"}, c) THEN "Write" ELSE "Read"

(* The closest of the ancestors that decide is a call.                     *)
InCall(stack) ==
  /\ Offset(stack, {"Call"}) < Offset(stack, {"Assign"})
  /\ Offset(stack, {"Call"}) < Offset(stack, {"Index"})

AccessType(stack, c) ==
  LET binop == Offset(stack, {"Assign"})
      unop == Offset(stack, UnaryKinds)
      arrsub == Offset(stack, {"Index"})
  IN  IF InCall(stack) THEN PassedToCall(stack, c)
      ELSE CASE arrsub < binop /\ arrsub < unop -> Subscripted(stack, c)
             [] unop < binop /\ unop < arrsub -> UnderUnary(stack, c)
             [] binop < unop /\ binop < arrsub -> Assigned(stack, c)
             [] OTHER -> "Read"

(* The fields of the member expressions on the stack, innermost first; the *)
(* loop stops before the bottom of the stack.                              *)
Fields(stack) ==
  FlattenSeq([k \in 1..(Len(stack) - 1) |->
    LET d == stack[Len(stack) + 1 - k]
    IN  IF Kind(d) = "Member" THEN <<Sym(d)>> ELSE <<>>])

Usr(stack, c) == <<Sym(c)>> \o Fields(stack)

(* get_param_idx: the argument of call that c lies in, counted from 0.     *)
get_param_idx(call, stack, c) ==
  LET k == SelectInSeq(Kids(call), LAMBDA d : Within(stack, c, d))
  IN  IF k = 0 THEN NO_IDX ELSE k - 1

VarAccess(type, usr, esc, idx, c) ==
  [type |-> type, usr |-> usr, esc |-> esc, idx |-> idx, origin |-> c,
   ptr |-> c # NoCursor /\ Kind(c) = "Ref" /\ Sym(c) \in Pointers]

Marker(type) == VarAccess(type, NoUsr, NoFunc, NO_IDX, NoCursor)

CallEntry(callee) == VarAccess("Call", <<callee>>, callee, NO_IDX, NoCursor)

(* An access a call was closest to remembers the callee and its argument.  *)
AccessEntry(stack, c) ==
  LET call == Closest(stack, {"Call"})
  IN  VarAccess(AccessType(stack, c), Usr(stack, c),
                IF InCall(stack) THEN Sym(call) ELSE NoFunc,
                IF InCall(stack) THEN get_param_idx(call, stack, c) ELSE NO_IDX, c)
=============================================================================
