------------------------------ MODULE Callees ------------------------------
(***************************************************************************)
(* What main does with the FuncInfos once every root has been visited:     *)
(* unwind_func_info gives parameters the names of the command line's       *)
(* arguments, marks lock calls and nulls accesses nobody shares, and       *)
(* build_var_access_footprint puts the accesses of the callees in the      *)
(* place of their Call entries.                                            *)
(*                                                                         *)
(* FuncInfos are numbered in the order they are created, roots first; a    *)
(* callee pointer is that number.                                          *)
(***************************************************************************)
EXTENDS Accesses, FiniteSets

CONSTANT UsrBegins  \* <<v, w>>: the USR of v begins the USR of w

ASSUME UsrBeginsAssumption ==
  \A p \in Programs : \A c \in DOMAIN p.kind :
    p.kind[c] = "Parm" => <<p.sym[c], p.sym[c]>> \in UsrBegins

FuncInfo(fn, in_system_header, has_definition) ==
  [fn |-> fn, in_system_header |-> in_system_header, has_definition |-> has_definition,
   accesses |-> <<>>, callees |-> <<>>, params |-> <<>>, locals |-> <<>>]

(* prong_is_system_header, find_callexpr_definition: asked of a callee     *)
(* only; a root is taken for analysable wherever its definition is.        *)
InSystemHeader(fn) == fn \in program.system
HasDefinition(fn) == fn \in DOMAIN program.body
Callee(fn) == FuncInfo(fn, InSystemHeader(fn), HasDefinition(fn))
Root(fn) == FuncInfo(fn, FALSE, TRUE)

External(info) == info.in_system_header \/ ~info.has_definition

(* va_is_placeholder_type                                                  *)
Placeholder(va) ==
  va.type \in {"Null", "Call", "IfStmt", "ThenBlock", "ElseStmt", "EndIf"}

(* Faulty: every parameter gets the name of the first argument.            *)
RenamedFirst(params, args, va) ==
  LET ks == {k \in DOMAIN args \cap DOMAIN params :
               <<params[k], Head(va.usr)>> \in UsrBegins}
  IN  IF Placeholder(va) \/ ks = {} THEN va
      ELSE [va EXCEPT !.usr = <<args[1]>> \o Tail(@)]

(* A parameter becomes the argument of the command line, keeping its       *)
(* fields.  strncmp takes the first parameter whose USR begins the USR.    *)
Renamed(params, args, va) ==
  LET ks == {k \in DOMAIN args \cap DOMAIN params :
               <<params[k], Head(va.usr)>> \in UsrBegins}
  IN  IF Placeholder(va) \/ ks = {} THEN va
      ELSE [va EXCEPT !.usr = <<args[Min(ks)]>> \o Tail(@)]

(* lock_primitive_type: the default pairs only.                            *)
lock_primitive_type(fn) ==
  CASE fn \in LockFuncs -> "LockAcquire"
    [] fn \in UnlockFuncs -> "LockRelease"
    [] OTHER -> "Null"

(* A local that does not escape, or the value of a parameter.              *)
Private(info, va) ==
  \/ /\ ~va.ptr /\ va.type # "Escape" /\ ~Placeholder(va)
     /\ \E l \in Range(info.locals) : va.usr = <<l>>
  \/ /\ va.type \in {"Read", "Write"}
     /\ \E p \in Range(info.params) : va.usr = <<p>>

Marked(info, va) ==
  LET lock == lock_primitive_type(va.esc)
  IN  CASE va.esc # NoFunc /\ va.idx = 0 /\ lock # "Null" -> [va EXCEPT !.type = lock]
        [] ~(va.esc # NoFunc /\ va.idx = 0 /\ lock # "Null") /\ Private(info, va) ->
             [va EXCEPT !.type = "Null"]
        [] OTHER -> va

(* clang_Cursor_getArgument: a null cursor, whose USR is empty, unless idx *)
(* is the index of a parameter.                                            *)
Argument(fn, idx) ==
  IF fn \in DOMAIN program.body /\ idx + 1 \in DOMAIN Kids(program.body[fn])
  THEN <<Sym(Kids(program.body[fn])[idx + 1])>> ELSE NoUsr

Calls(accesses) == {p \in DOMAIN accesses : accesses[p].type = "Call"}

(* The k-th of them.                                                       *)
CallAt(accesses, k) ==
  accesses[CHOOSE p \in Calls(accesses) : Cardinality({q \in Calls(accesses) : q <= p}) = k]

(* resolve_var_access_alias, for the k-th Call entry: next_callee goes no  *)
(* further than the first callee in a system header.                       *)
resolve_var_access_alias(is, i, k) ==
  LET j == is[i].callees[k]
      va == CallAt(is[i].accesses, k)
      stuck == \E m \in 1..k : is[is[i].callees[m]].in_system_header
  IN  IF stuck THEN is[j].accesses
      ELSE [p \in DOMAIN is[j].accesses |->
             LET w == is[j].accesses[p]
             IN  IF ~Placeholder(w) /\ w.usr = Argument(is[j].fn, va.idx)
                 THEN [w EXCEPT !.usr = va.usr] ELSE w]

(* What it does with the function's own accesses; args is the parsed call  *)
(* of a root and <<>> for a callee.                                        *)
UnwoundOwn(info, args) ==
  IF External(info) THEN info
  ELSE [info EXCEPT !.accesses =
          [p \in DOMAIN @ |-> Marked(info, Renamed(info.params, args, @[p]))]]

(* unwind_func_info without its recursion.                                 *)
unwind_func_info(is, i, args) ==
  [j \in DOMAIN is |->
     CASE j = i -> UnwoundOwn(is[i], args)
       [] j # i /\ Contains(is[i].callees, j) ->
            [is[j] EXCEPT !.accesses = resolve_var_access_alias(is, i,
               SelectInSeq(is[i].callees, LAMBDA m : m = j))]
       [] OTHER -> is[j]]

NotAdvanced(accesses, p) == 1  \* faulty: the counter stays where it is

(* The value of build_var_access_footprint's counter at entry p.           *)
next_callee(accesses, p) ==
  Cardinality({q \in Calls(accesses) : q <= p})

(* The next_callee-th callee takes the place of a Call entry.              *)
build_var_access_footprint(is) ==
  LET fp[i \in DOMAIN is] ==
        IF External(is[i]) THEN <<>>
        ELSE FlattenSeq([p \in DOMAIN is[i].accesses |->
               LET va == is[i].accesses[p]
               IN  CASE va.type = "Call" -> fp[is[i].callees[next_callee(is[i].accesses, p)]]
                     [] va.type = "Null" -> <<>>
                     [] OTHER -> <<va>>])
  IN  fp
=============================================================================
