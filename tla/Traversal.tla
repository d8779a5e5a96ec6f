------------------------------ MODULE Traversal ------------------------------
(***************************************************************************)
(* From the translation units to the access footprints: process_tu_array   *)
(* finds the root functions of the command line, process_func_info visits  *)
(* each of them and, recursively, the functions it calls, and main unwinds *)
(* the FuncInfos and builds a footprint for each root (prong.c, core.c).   *)
(*                                                                         *)
(* clang_visitChildren is external: it visits cursors in preorder, which   *)
(* is the todo list of a frame here; a frame is an active call of          *)
(* process_func_info.  ancestry_stack and last_visited are shared by all   *)
(* frames, which is what makes this stage hard to get right.               *)
(***************************************************************************)
EXTENDS Callees

CONSTANTS
  Tracking,   \* values of arg_track_locking
  MaxEntries  \* bound: entries of a footprint of Programs

ASSUME TrackingAssumption == Tracking \subseteq BOOLEAN
ASSUME MaxEntriesAssumption == MaxEntries \in Nat

VARIABLES
  tracking,        \* arg_track_locking
  phase,           \* where main is; "step" within the visit of a cursor
  step,
  next,            \* main's loop index
  infos,           \* the FuncInfos, roots first
  frames,          \* active calls of process_func_info
  current,         \* current_func
  ancestry_stack, last_visited, touched_func_usrs,
  work,            \* FuncInfos unwind_func_info still has to visit
  footprints,      \* access_footprint of each root built so far
  trails           \* history: the entries pushed in the visit of each root

visitor == <<step, frames, current, ancestry_stack, last_visited>>
tvars == <<program, tracking, phase, next, infos, visitor, touched_func_usrs,
           work, footprints, trails>>

TInit ==
  /\ program \in Programs /\ tracking \in Tracking
  /\ phase = "search" /\ step = "arrive" /\ next = 1
  /\ infos = <<>> /\ frames = <<>> /\ current = 0
  /\ ancestry_stack = <<>> /\ last_visited = NoCursor
  /\ touched_func_usrs = {} /\ work = <<>> /\ footprints = <<>>
  /\ trails = <<>>
-----------------------------------------------------------------------------
(* process_tu_array and prong_visitor_walk_ast: every definition, unit by  *)
(* unit, is compared with every call of the command line.                  *)

Params(fn) == {k \in DOMAIN Kids(program.body[fn]) : Kind(Kids(program.body[fn])[k]) = "Parm"}
Arity(fn) == Cardinality(Params(fn))

SameName(call, fn) == call.func = fn  \* faulty: arguments are not counted
Matches(call, fn) == call.func = fn /\ Len(call.args) = Arity(fn)

CompareDefinition ==
  /\ phase = "search" /\ next <= Len(program.defs)
  /\ infos' = infos \o
       LET fn == program.defs[next]
           calls == {r \in DOMAIN program.command : Matches(program.command[r], fn)}
       IN  [k \in 1..Cardinality(calls) |-> Root(fn)]
  /\ next' = next + 1
  /\ UNCHANGED <<program, tracking, phase, visitor, touched_func_usrs, work, footprints, trails>>

(* process_func_info: FuncInfo i is current; prev is current_func.         *)
Frame(i, call, fn) == [info |-> i, prev |-> current, call |-> call,
                       todo |-> Kids(program.body[fn])]

StartRoot(r) ==
  /\ frames' = <<Frame(r, NoCursor, infos[r].fn)>>
  /\ current' = r
  /\ trails' = Append(trails, <<>>)

(* Only the numbers of functions are compared.                             *)
RootsFound ==
  /\ phase = "search" /\ next > Len(program.defs)
  /\ Len(infos) = Len(program.command) /\ infos # <<>>
  /\ phase' = "visit" /\ next' = 1
  /\ StartRoot(1)
  /\ UNCHANGED <<program, tracking, infos, step, ancestry_stack, last_visited,
                 touched_func_usrs, work, footprints>>

RootsMissing ==
  /\ phase = "search" /\ next > Len(program.defs)
  /\ Len(infos) # Len(program.command)
  /\ phase' = "ERR_NOT_FOUND"
  /\ UNCHANGED <<program, tracking, next, infos, visitor, touched_func_usrs, work, footprints, trails>>
-----------------------------------------------------------------------------
(* prong_visitor_walk_func                                                 *)

Top == Last(frames)
AtCursor(s) == phase = "visit" /\ step = s /\ Top.todo # <<>>
Here == Head(Top.todo)

(* push_var_access of current_func.                                        *)
Push(entries) ==
  /\ infos' = [infos EXCEPT ![current].accesses = @ \o entries]
  /\ trails' = [trails EXCEPT ![next] = @ \o entries]

When(condition, entries) == IF condition THEN entries ELSE <<>>

(* What popping an ancestor pushes.                                        *)
EndedAny(c) == When(tracking, <<Marker("EndIf")>>)  \* faulty: whatever it is
Ended(c) == When(Kind(c) = "If" /\ tracking, <<Marker("EndIf")>>)

(* The parent is the cursor visited last: descend.                         *)
Descends == last_visited \in {NoCursor, Parent(Here)}

PushParent ==
  /\ AtCursor("arrive") /\ Descends
  /\ ancestry_stack' = Append(ancestry_stack, Parent(Here))
  /\ last_visited' = Here /\ step' = "branch"
  /\ UNCHANGED <<program, tracking, phase, next, infos, frames, current,
                 touched_func_usrs, work, footprints, trails>>

NotUnwound == TRUE  \* faulty: the stack stays as it is
Settled == ancestry_stack # <<>> => Last(ancestry_stack) = Parent(Here)

(* Otherwise the stack is unwound to the parent, or to nothing.            *)
PopAncestor ==
  /\ AtCursor("arrive") /\ ~Descends /\ ~Settled
  /\ Push(Ended(Last(ancestry_stack)))
  /\ ancestry_stack' = Front(ancestry_stack)
  /\ UNCHANGED <<program, tracking, phase, next, step, frames, current, last_visited,
                 touched_func_usrs, work, footprints>>

Settle ==
  /\ AtCursor("arrive") /\ ~Descends /\ Settled
  /\ last_visited' = Here /\ step' = "branch"
  /\ UNCHANGED <<program, tracking, phase, next, infos, frames, current, ancestry_stack,
                 touched_func_usrs, work, footprints, trails>>

(* Faulty: the children are numbered only if there is an else.             *)
ThenWithElse ==
  IF ~tracking \/ Kind(Parent(Here)) # "If" \/ Len(Kids(Parent(Here))) < 3 THEN <<>>
  ELSE CASE Here = Kids(Parent(Here))[2] -> <<Marker("ThenBlock")>>
         [] Here = Kids(Parent(Here))[3] -> <<Marker("ElseStmt")>>
         [] OTHER -> <<>>

(* The then or else block of an if; get_ifstmt_info numbers the children.  *)
BranchMarkers ==
  IF ~tracking \/ Kind(Parent(Here)) # "If" THEN <<>>
  ELSE CASE Here = Kids(Parent(Here))[2] -> <<Marker("ThenBlock")>>
         [] Here = Last(Kids(Parent(Here))) /\ Len(Kids(Parent(Here))) > 2 ->
              <<Marker("ElseStmt")>>
         [] OTHER -> <<>>

MarkBranch ==
  /\ AtCursor("branch")
  /\ Push(BranchMarkers)
  /\ step' = "cursor"
  /\ UNCHANGED <<program, tracking, phase, next, frames, current, ancestry_stack,
                 last_visited, touched_func_usrs, work, footprints>>

(* CXChildVisit_Recurse                                                    *)
Continue == Tail(Top.todo)  \* faulty: CXChildVisit_Continue
Recurse == Kids(Here) \o Tail(Top.todo)
GoOn == [frames EXCEPT ![Len(frames)].todo = Recurse]

(* A cursor that leads to no other function.                               *)
Visit ==
  /\ AtCursor("cursor")
  /\ frames' = GoOn /\ step' = "arrive"
  /\ UNCHANGED <<program, tracking, phase, next, current, ancestry_stack, last_visited,
                 touched_func_usrs, work, footprints>>

VisitDecl ==
  /\ Visit
  /\ \/ Kind(Here) = "Var" /\ infos' = [infos EXCEPT ![current].locals = Append(@, Sym(Here))]
     \/ Kind(Here) = "Parm" /\ infos' = [infos EXCEPT ![current].params = Append(@, Sym(Here))]
  /\ UNCHANGED trails

VisitIf ==
  Visit /\ Kind(Here) = "If" /\ Push(When(tracking, <<Marker("IfStmt")>>))

VisitVariable ==
  LET va == AccessEntry(ancestry_stack, Here)
  IN  Visit /\ Kind(Here) = "Ref" /\ Push(When(va.type # "None", <<va>>))

VisitOther ==
  Visit /\ Kind(Here) \notin {"Var", "Parm", "If", "Ref", "Call"} /\ UNCHANGED <<infos, trails>>

(* A function touched before, or a callee libclang has no declaration for: *)
(* a dereferenced pointer, tab[i](x).  It has one for fp(x) and ops->fn(x):*)
(* the variable or field, taken for a function's.                          *)
SkipCall ==
  /\ AtCursor("cursor") /\ Kind(Here) = "Call"
  /\ Sym(Here) \in touched_func_usrs \cup {NoFunc}
  /\ ancestry_stack' = Append(ancestry_stack, Here)
  /\ frames' = GoOn /\ step' = "arrive"
  /\ UNCHANGED <<program, tracking, phase, next, infos, current, last_visited,
                 touched_func_usrs, work, footprints, trails>>

(* Faulty: the pointer is taken before the push.                           *)
WithLastInfo ==
  Append([infos EXCEPT ![current].callees = Append(@, Len(infos)),
                       ![current].accesses = Append(@, CallEntry(Sym(Here)))],
         Callee(Sym(Here)))

(* Faulty: no Call entry for a function without a body.                    *)
WithSilentCallee ==
  Append([infos EXCEPT ![current].callees = Append(@, Len(infos) + 1),
                       ![current].accesses =
                          @ \o When(~External(Callee(Sym(Here))), <<CallEntry(Sym(Here))>>)],
         Callee(Sym(Here)))

(* push_func_info and the Call entry.                                      *)
WithCallee ==
  Append([infos EXCEPT ![current].callees = Append(@, Len(infos) + 1),
                       ![current].accesses = Append(@, CallEntry(Sym(Here)))],
         Callee(Sym(Here)))

FirstCall ==
  /\ AtCursor("cursor") /\ Kind(Here) = "Call"
  /\ Sym(Here) \notin touched_func_usrs \cup {NoFunc}
  /\ touched_func_usrs' = touched_func_usrs \cup {Sym(Here)}
  /\ infos' = WithCallee
  /\ step' = "arrive"

CallExternal ==
  /\ FirstCall /\ External(Callee(Sym(Here)))
  /\ ancestry_stack' = Append(ancestry_stack, Here)
  /\ frames' = GoOn
  /\ UNCHANGED <<program, tracking, phase, next, current, last_visited, work, footprints, trails>>

EnterCallee ==
  /\ FirstCall /\ ~External(Callee(Sym(Here)))
  /\ frames' = Append(GoOn, Frame(Len(infos) + 1, Here, Sym(Here)))
  /\ current' = Len(infos) + 1
  /\ UNCHANGED <<program, tracking, phase, next, ancestry_stack, last_visited, work, footprints, trails>>

(* process_func_info returns into the visitor, which pushes the call.      *)
LeaveCallee ==
  /\ phase = "visit" /\ Len(frames) > 1 /\ Top.todo = <<>>
  /\ current' = Top.prev
  /\ ancestry_stack' = Append(ancestry_stack, Top.call)
  /\ frames' = Front(frames)
  /\ UNCHANGED <<program, tracking, phase, step, next, infos, last_visited,
                 touched_func_usrs, work, footprints, trails>>

NumRoots == Len(program.command)

LeaveRoot ==
  /\ phase = "visit" /\ Len(frames) = 1 /\ Top.todo = <<>>
  /\ next < NumRoots
  /\ StartRoot(next + 1) /\ next' = next + 1
  /\ UNCHANGED <<program, tracking, phase, step, infos, ancestry_stack, last_visited,
                 touched_func_usrs, work, footprints>>

(* reset_aos(touched_func_usrs)                                            *)
LeaveLastRoot ==
  /\ phase = "visit" /\ Len(frames) = 1 /\ Top.todo = <<>>
  /\ next = NumRoots
  /\ phase' = "unwind" /\ work' = [r \in 1..NumRoots |-> r]
  /\ frames' = <<>> /\ current' = 0 /\ touched_func_usrs' = {}
  /\ UNCHANGED <<program, tracking, next, step, infos, ancestry_stack, last_visited, footprints, trails>>
-----------------------------------------------------------------------------
(* The arguments of the call the command line has in the place of root i.  *)
ArgsOf(i) == IF i <= NumRoots THEN program.command[i].args ELSE <<>>

(* aos_string_at of an empty list gives an index past its end a pointer    *)
(* nobody wrote.                                                           *)
WildParameter(i) == infos[i].params = <<>> /\ ArgsOf(i) # <<>>

(* Faulty: a function without callees is not done with.                    *)
NeverDone(i) == IF infos[i].callees = <<>> THEN work ELSE infos[i].callees \o Tail(work)

(* The callees of FuncInfo i come before the next root.                    *)
WorkAfter(i) == infos[i].callees \o Tail(work)

Unwind ==
  /\ phase = "unwind" /\ work # <<>>
  /\ LET i == Head(work)
     IN  /\ infos' = unwind_func_info(infos, i, ArgsOf(i))
         /\ work' = WorkAfter(i)
  /\ UNCHANGED <<program, tracking, phase, next, visitor, touched_func_usrs, footprints, trails>>

UnwindCrashes ==
  /\ phase = "unwind" /\ work # <<>>
  /\ WildParameter(Head(work))
  /\ phase' = "crashed"
  /\ UNCHANGED <<program, tracking, next, infos, visitor, touched_func_usrs, work, footprints, trails>>

Build ==
  /\ phase = "unwind" /\ work = <<>>
  /\ footprints' = SubSeq(build_var_access_footprint(infos), 1, NumRoots)
  /\ phase' = "built"
  /\ UNCHANGED <<program, tracking, next, infos, visitor, touched_func_usrs, work, trails>>

Stopped == phase \in {"built", "ERR_NOT_FOUND", "crashed"} /\ UNCHANGED tvars

TNext ==
  \/ CompareDefinition \/ RootsFound \/ RootsMissing
  \/ PushParent \/ PopAncestor \/ Settle \/ MarkBranch
  \/ VisitDecl \/ VisitIf \/ VisitVariable \/ VisitOther
  \/ SkipCall \/ CallExternal \/ EnterCallee \/ LeaveCallee
  \/ LeaveRoot \/ LeaveLastRoot
  \/ Unwind \/ UnwindCrashes \/ Build
  \/ Stopped

TSpec == TInit /\ [][TNext]_tvars

(* One thread runs this stage and nothing blocks it.                       *)
TFairSpec == TSpec /\ WF_tvars(TNext)
-----------------------------------------------------------------------------
(* The AST itself                                                          *)

CursorsOf(fn) == {c \in DOMAIN program.kind : program.body[fn] \in Ancestors(c)}
Refs(fn) == {c \in CursorsOf(fn) : Kind(c) = "Ref"}
CalledIn(fn) == {Sym(c) : c \in {d \in CursorsOf(fn) : Kind(d) = "Call"}} \ {NoFunc}
Analysed(fns) == {fn \in fns : ~External(Callee(fn))}
UnderFirst(a, c) == Kids(a)[1] \in Ancestors(c) \cup {c}

(* The functions a call chain from root r reaches: the smallest set with   *)
(* those the root calls and those each analysed one calls.                 *)
ClosedUnderCalls(r, fns) ==
  /\ CalledIn(infos[r].fn) \subseteq fns
  /\ \A fn \in Analysed(fns) : CalledIn(fn) \subseteq fns

ReachedFrom(r) ==
  LET names == UNION {CalledIn(fn) : fn \in DOMAIN program.body}
  IN  {fn \in names : \A fns \in SUBSET names : ClosedUnderCalls(r, fns) => fn \in fns}

Reachable == UNION {ReachedFrom(r) : r \in 1..NumRoots}
-----------------------------------------------------------------------------
(* Properties                                                              *)

(* Types; the callees of a FuncInfo are younger, so recursion ends.        *)
TTypeOK ==
  /\ tracking \in BOOLEAN
  /\ phase \in {"search", "visit", "unwind", "built", "ERR_NOT_FOUND", "crashed"}
  /\ step \in {"arrive", "branch", "cursor"} /\ next \in Nat \ {0}
  /\ current \in 0..Len(infos)
  /\ Range(ancestry_stack) \cup {last_visited} \subseteq DOMAIN program.kind \cup {NoCursor}
  /\ \A i \in DOMAIN infos :
       /\ Range(infos[i].callees) \subseteq (i + 1)..Len(infos)
       /\ \A va \in Range(infos[i].accesses) :
            va.type \in {"Null", "Read", "Write", "PtrRead", "PtrWrite", "Escape",
                         "LockAcquire", "LockRelease", "Call",
                         "IfStmt", "ThenBlock", "ElseStmt", "EndIf"}

(* The stack that prong_visitor_walk_func keeps by hand holds exactly the  *)
(* ancestors of the cursor visited, its function aside.                    *)
StackOfHere ==
  LET decl == {program.body[infos[current].fn]}
  IN  Range(ancestry_stack) \ decl = Ancestors(Here) \ decl

(* It does while a function has not yet called one with a body, whatever   *)
(* an earlier root left on it.                                             *)
StackExact ==
  phase = "visit" /\ step # "arrive"
  /\ (\A j \in Range(infos[current].callees) : External(infos[j])) => StackOfHere

(* Every IfStmt entry has a ThenBlock entry behind it, which the scan of   *)
(* annotate_lock_protection_ranges looks for without testing for the end.  *)
ThenBlockAhead ==
  phase = "built" =>
    \A fp \in Range(footprints) : \A p \in DOMAIN fp :
      fp[p].type = "IfStmt" =>
        \E q \in DOMAIN fp : q > p /\ fp[q].type = "ThenBlock"

(* The n-th Call entry of a function is a call of its n-th callee, which   *)
(* the next_callee counter of build_var_access_footprint takes for granted.*)
(* (That of unwind_func_info stops at the first callee in a system header.)*)
CallsAligned ==
  \A i \in DOMAIN infos :
    LET accesses == infos[i].accesses
        callees == infos[i].callees
    IN  /\ Cardinality(Calls(accesses)) = Len(callees)
        /\ \A p \in Calls(accesses) :
             accesses[p].esc = infos[callees[next_callee(accesses, p)]].fn

AllVisited == phase = "unwind" /\ work = [r \in 1..NumRoots |-> r]

Subscript(c) == \E a \in Ancestors(c) : Kind(a) = "Index" /\ UnderFirst(a, c)

(* Recursion or not, no function some root reaches is left out by          *)
(* touched_func_usrs, and the one FuncInfo or more it has hold every       *)
(* variable reference once, but for those to arrays subscripted.           *)
ReachedCollected ==
  AllVisited =>
    /\ \A fn \in Reachable : \E i \in DOMAIN infos : i > NumRoots /\ infos[i].fn = fn
    /\ \A i \in DOMAIN infos : ~External(infos[i]) =>
         \A c \in Refs(infos[i].fn) : ~Subscript(c) =>
           Cardinality({p \in DOMAIN infos[i].accesses : infos[i].accesses[p].origin = c}) = 1

(* prong.c:231 "Build array of variable accesses that contains ALL         *)
(* variable accesses recursively": the footprint of a root has those of    *)
(* each function the root reaches.  touched_func_usrs is kept from one     *)
(* root to the next (prong.c:207), so only the first to reach it does.     *)
FootprintsComplete ==
  AllVisited =>
    \A r \in 1..NumRoots : \A fn \in Analysed(ReachedFrom(r)) :
      \A c \in Refs(fn) : ~Subscript(c) =>
        \E va \in Range(build_var_access_footprint(infos)[r]) : va.origin = c

(* The target of a simple assignment, or a structure it is a field of.     *)
Target(c) ==
  \E a \in Ancestors(c) :
    /\ Kind(a) = "Assign" /\ UnderFirst(a, c)
    /\ \A d \in Ancestors(c) \ (Ancestors(a) \cup {a}) : Kind(d) = "Member"

Modified(c) ==
  \E a \in Ancestors(c) : \/ Kind(a) = "Assign" /\ UnderFirst(a, c)
                          \/ Kind(a) = "IncDec"

(* The visitor takes an access for a write whenever its variable is what a *)
(* simple assignment (=) assigns, and only if it stands on the left of one *)
(* or is incremented, though all it has to go by is the stack.  The target *)
(* of += and the like is typed a read: libclang gives these a cursor kind of*)
(* their own, and operator_is_assignment turns it away before the opcode   *)
(* test that was meant for them (cursor_arr.c:118-124).                    *)
WritesClassified ==
  AllVisited =>
    \A i \in DOMAIN infos : \A va \in Range(infos[i].accesses) :
      va.origin # NoCursor =>
        /\ Target(va.origin) => va.type = "Write"
        /\ va.type \in {"Write", "PtrWrite"} => Modified(va.origin)

(* The calls of the command line are in the order of the definitions, and  *)
(* each has but one.                                                       *)
InOrder == \A r \in (1..NumRoots) \cap DOMAIN infos : Matches(program.command[r], infos[r].fn)

(* core.c:776 "we "map" our inputted arguments to our "parameter" variable *)
(* accesses": an access of the k-th parameter of a root bears the name of  *)
(* the k-th argument the command line has for its function.  But main takes*)
(* the call at the index of the root, whatever function that names         *)
(* (prong.c:221), and a USR is taken for that of every parameter whose USR *)
(* it begins with (core.c:789).                                            *)
ArgumentsMapped ==
  /\ phase # "crashed"
  /\ phase = "built" =>
       \A r \in 1..NumRoots : \A va \in Range(infos[r].accesses) :
         \A k \in DOMAIN infos[r].params :
           va.origin # NoCursor /\ Sym(va.origin) = infos[r].params[k] =>
             \E call \in Range(program.command) :
               Matches(call, infos[r].fn) /\ Head(va.usr) = call.args[k]

(* Called in order, a function visited has the parameters of its own call, *)
(* and unwind_func_info never looks for one in an empty list, where        *)
(* aos_string_at does not return NULL.                                     *)
NoWildParameter == InOrder => phase # "crashed"

(* Nor does the USR of a parameter, which is its own, begin that of another*)
(* variable.                                                               *)
NamesClear ==
  /\ InOrder
  /\ \A r \in 1..NumRoots : Len(infos[r].params) = Len(program.command[r].args)
  /\ \A c \in DOMAIN program.kind, d \in DOMAIN program.kind :
       Kind(c) = "Parm" /\ <<Sym(c), Sym(d)>> \in UsrBegins =>
         Sym(c) = Sym(d) /\ (Kind(d) = "Parm" => c = d)

(* Then unwind_func_info makes parameters of two roots one variable        *)
(* exactly if the command line gives them the same argument.               *)
SameArgumentSameUsr ==
  phase = "built" /\ NamesClear =>
    \A r, s \in 1..NumRoots :
      \A k \in DOMAIN infos[r].params, l \in DOMAIN infos[s].params :
        \A v \in Range(infos[r].accesses), w \in Range(infos[s].accesses) :
          /\ v.origin # NoCursor /\ Sym(v.origin) = infos[r].params[k]
          /\ w.origin # NoCursor /\ Sym(w.origin) = infos[s].params[l]
          => (Head(v.usr) = Head(w.usr) <=> program.command[r].args[k] = program.command[s].args[l])

(* build_var_access_footprint gives back the order of the visit: what a    *)
(* root's footprint inlines, whatever the nesting of calls, is the entries *)
(* pushed while the root was visited, in that order.                       *)
InliningInOrder ==
  AllVisited =>
    \A r \in 1..NumRoots : build_var_access_footprint(infos)[r] = trails[r]

(* The stage ends, with the footprints or without, recursion or not.       *)
Termination == <>(phase \in {"built", "ERR_NOT_FOUND", "crashed"})
-----------------------------------------------------------------------------
(* Footprint, on which the models of the lock analysis rest, is what this  *)
(* stage produces: the entries of the root visited, each as unwinding will *)
(* mark it, grow by the steps of Footprint.                                *)

AbstractEntry(va) ==
  LET lock == IF va.idx = 0 THEN lock_primitive_type(va.esc) ELSE "Null"
  IN  CASE Placeholder(va) -> [type |-> va.type, usr |-> "none"]
        [] ~Placeholder(va) /\ lock # "Null" -> [type |-> lock, usr |-> "lock"]
        [] OTHER -> [type |-> "Access", usr |-> "variable"]

GrownFootprint ==
  IF trails = <<>> \/ ~program.regular THEN <<>>
  ELSE [p \in DOMAIN Last(trails) |-> AbstractEntry(Last(trails)[p])]

(* The part of each open if that the last entry is in.                     *)
PartAfter(nest, va) ==
  CASE va.type = "IfStmt" -> Append(nest, "cond")
    [] va.type = "ThenBlock" -> Append(Front(nest), "then")
    [] va.type = "ElseStmt" -> Append(Front(nest), "else")
    [] va.type = "EndIf" /\ nest # <<>> -> Front(nest)
    [] OTHER -> nest

GrownNesting ==
  LET fp == GrownFootprint
      nest[p \in 0..Len(fp)] == IF p = 0 THEN <<>> ELSE PartAfter(nest[p - 1], fp[p])
  IN  nest[Len(fp)]

F == INSTANCE Footprint
       WITH footprint <- GrownFootprint, nesting <- GrownNesting,
            Locks <- {"lock"}, Vars <- {"variable"},
            MaxLen <- MaxEntries, MaxNesting <- MaxEntries, MaxStray <- MaxEntries

NextRoot ==
  /\ F!FootprintComplete
  /\ GrownFootprint' = <<>> /\ GrownNesting' = <<>>

(* Refinement, for the programs that are Regular: the visitor's pushes are *)
(* steps of Footprint, one root after the other.                           *)
ImplementsFootprint ==
  /\ F!FootprintInit
  /\ [][F!FootprintNext \/ NextRoot]_<<GrownFootprint, GrownNesting>>
=============================================================================
