----------------------------- MODULE MCTraversal -----------------------------
(* Programs for Traversal, written as nested trees and flattened into      *)
(* cursors: the cursor of a node is the path to it from its function.      *)
EXTENDS Traversal

N(kind, sym, kids) == [kind |-> kind, sym |-> sym, kids |-> kids]
X(v) == N("Ref", v, <<>>)
Block(stmts) == N("Other", NoFunc, stmts)
Call(fn, args) == N("Call", fn, args)
If(c, then) == N("If", NoFunc, <<c, Block(then)>>)
IfElse(c, then, else) == N("If", NoFunc, <<c, Block(then), Block(else)>>)
Assign(l, r) == N("Assign", NoFunc, <<l, r>>)
Compound(l, r) == N("CompoundAssign", NoFunc, <<l, r>>)
Op(kind, e) == N(kind, NoFunc, <<e>>)
Index(a, e) == N("Index", NoFunc, <<a, e>>)
Member(e, f) == N("Member", f, <<e>>)
Local(v) == N("Other", NoFunc, <<N("Var", v, <<>>)>>)
Func(params, stmts) ==
  N("Func", NoFunc, [k \in DOMAIN params |-> N("Parm", params[k], <<>>)] \o <<Block(stmts)>>)
Lock(m) == Call("mutex_lock", <<Op("AddrOf", X(m))>>)
Unlock(m) == Call("mutex_unlock", <<Op("AddrOf", X(m))>>)

RECURSIVE Cursors(_, _), NodeAt(_, _)
Cursors(tree, path) ==
  {path} \cup UNION {Cursors(tree.kids[k], Append(path, k)) : k \in DOMAIN tree.kids}
NodeAt(tree, path) ==
  IF path = <<>> THEN tree ELSE NodeAt(tree.kids[Head(path)], Tail(path))

(* funcs: a function from names to trees.                                  *)
Program(command, defs, funcs) ==
  LET cursors == UNION {Cursors(funcs[f], <<f>>) : f \in DOMAIN funcs}
      node == [c \in cursors |-> NodeAt(funcs[Head(c)], Tail(c))]
      p == [command |-> command, defs |-> defs, system |-> {"mutex_lock", "mutex_unlock"},
       body |-> [f \in DOMAIN funcs |-> <<f>>],
       kind |-> [c \in cursors |-> node[c].kind],
       sym |-> [c \in cursors |-> node[c].sym],
       kids |-> [c \in cursors |-> [k \in DOMAIN node[c].kids |-> Append(c, k)]],
       ancestors |-> [c \in cursors |-> {SubSeq(c, 1, k) : k \in 1..(Len(c) - 1)}],
       parent |-> [c \in cursors |-> IF Len(c) = 1 THEN NoCursor ELSE Front(c)],
       regular |-> FALSE]
  IN  [p EXCEPT !.regular = Regular(p)]

(* Control: two roots, two callees, ifs and locks.                         *)
Two == <<[func |-> "a", args |-> <<>>], [func |-> "b", args |-> <<>>]>>
Simple == {<<X("x")>>, <<Call("f", <<>>)>>, <<Lock("m")>>}
Stmts ==
  Simple
  \cup {<<If(X("c"), s)>> : s \in Simple}
  \cup {<<If(Call("f", <<>>), <<X("x")>>), X("y")>>}
  \cup {<<IfElse(X("c"), s, t)>> : s \in Simple, t \in {<<X("y")>>, <<Call("g", <<>>)>>}}
Bodies == Stmts \cup {s \o t : s \in Stmts, t \in {<<Unlock("m")>>, <<If(X("d"), <<X("z")>>)>>}}
FBodies == {<<X("y")>>, <<If(X("d"), <<X("y")>>)>>, <<Call("g", <<>>), X("y")>>, <<Call("f", <<>>), X("y")>>}
BBodies == {<<X("x")>>, <<Call("f", <<>>), If(X("c"), <<Call("g", <<>>)>>)>>}
RECURSIVE Listed(_)
Listed(S) == IF S = {} THEN <<>>
             ELSE LET x == CHOOSE y \in S : TRUE IN <<x>> \o Listed(S \ {x})
(* Every combination of an index of s, t and u.                            *)
Combined(s, t, u) ==
  [k \in 1..(Len(s) * Len(t) * Len(u)) |->
     <<((k - 1) \div (Len(t) * Len(u))) + 1,
       (((k - 1) \div Len(u)) % Len(t)) + 1,
       ((k - 1) % Len(u)) + 1>>]
List == <<Listed(Bodies), Listed(BBodies), Listed(FBodies)>>
ControlPrograms ==
  LET is == Combined(List[1], List[2], List[3])
  IN  [n \in DOMAIN is |-> LET i == is[n] IN
     Program(Two, <<"a", "f", "b", "g">>,
       [f \in {"a", "b", "f", "g"} |->
          CASE f = "a" -> Func(<<>>, List[1][i[1]])
            [] f = "b" -> Func(<<>>, List[2][i[2]])
            [] f = "f" -> Func(<<>>, List[3][i[3]])
            [] f = "g" -> Func(<<>>, <<IfElse(X("e"), <<Call("a", <<>>)>>, <<X("x")>>)>>)])]

(* Expressions: reads and writes through members, pointers, subscripts and *)
(* the arguments of calls, in a callee that ends with an assignment.       *)
Deref(e) == Op("Deref", e)
Plus(l, r) == N("BinOp", NoFunc, <<l, r>>)
Inc(e) == Op("IncDec", e)
Addr(e) == Op("AddrOf", e)
Lvalues == {X("x"), Member(X("s"), "n"), Deref(X("q")), Deref(Plus(X("q"), X("y"))),
            Index(X("q"), X("y")), Index(X("q"), Index(X("q"), X("y"))),
            Deref(Inc(X("q"))), Member(Deref(X("q")), "n")}
Rvalues == Lvalues \cup {Inc(X("x")), Op("OtherUnary", X("x")), Addr(X("x")),
            Plus(X("x"), X("y")), Call("f", <<X("x"), X("q")>>),
            Call("h", <<Addr(X("x")), X("q"), Inc(X("y"))>>),
            Call("h", <<Call("f", <<X("q")>>), X("q"), Assign(X("x"), X("y"))>>),
            Call(NoFunc, <<Index(X("q"), X("y"))>>),
            Call("f", <<Index(X("q"), X("y")), Member(X("s"), "n")>>)}
Expressions == Listed({Assign(l, r) : l \in Lvalues, r \in Rvalues} \cup Rvalues
                      \cup {Compound(l, X("y")) : l \in Lvalues}
                      \cup {Assign(X("z"), Compound(X("x"), X("y")))})
Tails == <<Assign(Member(X("s"), "m"), X("y")), Assign(Index(X("q"), X("y")), Member(X("s"), "m"))>>
ExpressionPrograms ==
  LET is == Combined(Expressions, Tails, <<1>>)
  IN  [n \in DOMAIN is |-> LET i == is[n] IN
     Program(<<[func |-> "a", args |-> <<>>]>>, <<"a", "f">>,
       [f \in {"a", "f"} |->
          CASE f = "a" -> Func(<<>>, <<Local("y"), Expressions[i[1]], X("z")>>)
            [] f = "f" -> Func(<<"p", "q">>, <<Tails[i[2]]>>)])]

(* Arguments: the roots of the command line and their parameters.          *)
Args == {"buf", "len"}
Commands == Listed({<<[func |-> f, args |-> s], [func |-> g, args |-> t]>> :
              f, g \in {"a", "b"}, s, t \in {<<>>} \cup {<<"buf", w>> : w \in Args}})
ParamsOf == <<<<<<"p", "q">>, <<"r", "t">>>>, <<<<"p", "p2">>, <<"r", "t">>>>,
              <<<<"p", "q">>, <<>>>>>>
Orders == <<<<"a", "b">>, <<"a", "a">>, <<"b", "b">>>>
Uses(params) ==
  [k \in DOMAIN params |-> Assign(Member(X(params[k]), "n"), X(params[k]))]
ArgumentPrograms ==
  LET is == Combined(Commands, ParamsOf, Orders)
  IN  [n \in DOMAIN is |-> LET i == is[n] IN
     Program(Commands[i[1]], Orders[i[3]],
       [f \in {"a", "b"} |->
          IF f = "a" THEN Func(ParamsOf[i[2]][1], Uses(ParamsOf[i[2]][1]))
                     ELSE Func(ParamsOf[i[2]][2], Uses(ParamsOf[i[2]][2]))])]

(* A call by the name of a function pointer and one by an expression; a    *)
(* pointer passed on.                                                      *)
One == <<[func |-> "a", args |-> <<>>]>>
PointerPrograms ==
  {Program(One, <<"a">>,
     [f \in {"a", "fp"} |->
        IF f = "a" THEN Func(<<>>, <<Call("fp", <<X("x")>>), Call(NoFunc, <<X("q")>>), X("y")>>)
                   ELSE N("Func", NoFunc, <<N("Parm", "t", <<>>)>>)])}
AliasPrograms ==
  {Program(One, <<"a", "f">>,
     [f \in {"a", "f"} |->
        IF f = "a" THEN Func(<<>>, <<Call("f", <<X("q")>>)>>)
                   ELSE Func(<<"u">>, <<Assign(Deref(X("u")), X("x"))>>)])}

(* A root in a kernel header, which the other one calls as well.           *)
KernelPrograms ==
  LET p == Program(Two, <<"a", "b">>,
             [f \in {"a", "b"} |->
                IF f = "a" THEN Func(<<>>, <<Call("b", <<>>), X("x")>>)
                           ELSE Func(<<>>, <<Call("f", <<>>), X("y")>>)])
      q == [p EXCEPT !.system = @ \cup {"b"}]
  IN  {[q EXCEPT !.regular = Regular(q)]}

Control == Range(ControlPrograms)
Expression == Range(ExpressionPrograms)
Naming == Range(ArgumentPrograms)
(* Each function of them is defined once, a before b.                      *)
DefinedOnce == {p \in Naming : p.defs = <<"a", "b">>}
MCPrograms == KernelPrograms \cup PointerPrograms \cup AliasPrograms
              \cup Control \cup Expression \cup Naming
Names == {"a", "b", "c", "d", "e", "f", "g", "h", "m", "p", "p2", "q", "r", "s", "t", "u",
          "x", "y", "z", "buf", "len"}
MCPointers == {"q", "u"}
MCLockFuncs == {"mutex_lock"}
MCUnlockFuncs == {"mutex_unlock"}
MCUsrBegins == {<<v, v>> : v \in Names} \cup {<<"p", "p2">>}
=============================================================================
