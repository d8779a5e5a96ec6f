------------------------------ MODULE WalkProofs ------------------------------
(***************************************************************************)
(* Proofs about the walk and the tree it walks: what the stack of the      *)
(* visitor has to do with the ancestors of the cursor visited, that a then *)
(* block follows each if, that every function called is visited, once,     *)
(* that what is written is taken for it, and what names the parameters get.*)
(***************************************************************************)
EXTENDS TraversalProofs
-----------------------------------------------------------------------------
(* Positions in the tree of program p                                      *)

Under(p, a) == {c \in DOMAIN p.kind : a \in p.ancestors[c] \cup {c}}

LastChild(p, a) == p.kids[a][Len(p.kids[a])]

FirstKid(p, c) == p.parent[c] # NoCursor /\ c = p.kids[p.parent[c]][1]
LastKid(p, c) == p.parent[c] = NoCursor \/ c = LastChild(p, p.parent[c])

Linked(p, a, b) == a \in p.ancestors[b] \cup {b}

(* c is below, or is, a sibling that comes before b.                       *)
Earlier(p, c, b) ==
  \E m \in DOMAIN p.kids[p.parent[b]], n \in DOMAIN p.kids[p.parent[b]] :
    /\ m < n /\ p.kids[p.parent[b]][n] = b
    /\ p.kids[p.parent[b]][m] \in p.ancestors[c] \cup {c}

(* todo is what is left to visit of the tree below d, in preorder.         *)
TodoFits(p, todo, d) ==
  /\ todo \in Seq(DOMAIN p.kind)
  /\ \A j \in DOMAIN todo :
       /\ d \in p.ancestors[todo[j]]
       /\ j > 1 => ~FirstKid(p, todo[j])
       /\ \A c \in p.ancestors[todo[j]] \cup {todo[j]} :
            \/ LastKid(p, c)
            \/ \E k \in DOMAIN todo : k > j /\ todo[k] = LastChild(p, p.parent[c])
  /\ \A i \in DOMAIN todo, j \in DOMAIN todo : i < j =>
       /\ p.ancestors[todo[j]] \subseteq p.ancestors[todo[i]]
       /\ Under(p, todo[i]) \cap Under(p, todo[j]) = {}
       /\ Earlier(p, todo[i], todo[j])
-----------------------------------------------------------------------------
(* The stack, with what is left of the functions that returned on it       *)

LinkedFrom(p, stack, k) == \A j \in k..(Len(stack) - 1) : Linked(p, stack[j], stack[j + 1])

StackGood(p, stack) ==
  /\ stack \in Seq(DOMAIN p.kind)
  /\ \A k \in 1..Len(stack) :
       /\ p.parent[stack[k]] = NoCursor => k = 1
       /\ k > 1 => Linked(p, stack[k - 1], stack[k]) \/ p.kind[stack[k]] = "Call"
       /\ /\ p.kind[stack[k]] # "Call" /\ FirstKid(p, stack[k])
          /\ p.parent[p.parent[stack[k]]] # NoCursor
          => k > 1 /\ stack[k - 1] = p.parent[stack[k]]

(* Cursor c is being visited.                                              *)
PlacedAt(p, stack, c) ==
  /\ stack # <<>> => stack[Len(stack)] = p.parent[c]
  /\ FirstKid(p, c) /\ p.parent[p.parent[c]] # NoCursor => stack # <<>>
  /\ \A k \in 1..Len(stack) : ~LastKid(p, stack[k]) => LinkedFrom(p, stack, k)

(* No cursor of the function with body d has been visited yet.             *)
Fresh(p, stack, last, todo, d) ==
  /\ todo # <<>> /\ \A j \in DOMAIN todo : p.parent[todo[j]] = d
  /\ last = NoCursor => stack = <<>>
  /\ last # NoCursor => last \in DOMAIN p.kind /\ p.parent[last] # NoCursor

(* last is the cursor visited last, in this function or one it called.     *)
Between(p, stack, last, todo) ==
  /\ last \in DOMAIN p.kind /\ p.parent[last] # NoCursor
  /\ \A k \in DOMAIN p.kids[last] : \E j \in DOMAIN todo : todo[j] = p.kids[last][k]
  /\ \A k \in 1..Len(stack) : ~LastKid(p, stack[k]) =>
       /\ LinkedFrom(p, stack, k)
       /\ \E j \in DOMAIN todo : todo[j] = LastChild(p, p.parent[stack[k]])
  /\ todo # <<>> /\ last = p.parent[todo[1]] =>
       /\ stack # <<>> => stack[Len(stack)] \in {p.parent[last], last}
       /\ p.kind[last] # "Call" => PlacedAt(p, stack, last)
  /\ todo # <<>> /\ FirstKid(p, todo[1]) /\ p.parent[p.parent[todo[1]]] # NoCursor =>
       last = p.parent[todo[1]] \/ (stack # <<>> /\ stack[Len(stack)] = p.parent[todo[1]])

(* A function waits for the one it calls at cursor call.                   *)
Waits(p, todo, call) ==
  /\ call \in DOMAIN p.kind /\ p.kind[call] = "Call" /\ p.parent[call] # NoCursor
  /\ \/ LastKid(p, call)
     \/ \E j \in DOMAIN todo : todo[j] = LastChild(p, p.parent[call])
  /\ todo # <<>> /\ FirstKid(p, todo[1]) /\ p.parent[p.parent[todo[1]]] # NoCursor =>
       p.parent[todo[1]] = call

Body(i) == program.body[infos[i].fn]

FramesFit ==
  /\ \A m \in 1..Len(frames) :
       /\ infos[frames[m].info].fn \in DOMAIN program.body
       /\ TodoFits(program, frames[m].todo, Body(frames[m].info))
  /\ \A m \in 2..Len(frames) : Waits(program, frames[m - 1].todo, frames[m].call)

StackFits ==
  /\ StackGood(program, ancestry_stack)
  /\ step = "arrive" =>
       \/ Fresh(program, ancestry_stack, last_visited, Top.todo, Body(current))
       \/ Between(program, ancestry_stack, last_visited, Top.todo)
  /\ step # "arrive" =>
       /\ Top.todo # <<>> /\ last_visited = Here
       /\ PlacedAt(program, ancestry_stack, Here)

WalkInv ==
  /\ phase = "search" => last_visited = NoCursor /\ ancestry_stack = <<>> /\ step = "arrive"
  /\ phase = "visit" => FramesFit /\ StackFits

(* No function with a body has been called yet from the one visited.       *)
Clean == \A k \in DOMAIN infos[current].callees : External(infos[infos[current].callees[k]])

OnStack(stack, c) == \E k \in 1..Len(stack) : stack[k] = c

(* All ancestors of what comes next are on the stack, or go there now.     *)
Covers(p, stack, last, todo, d) ==
  /\ LinkedFrom(p, stack, 1)
  /\ todo # <<>> =>
       \A a \in p.ancestors[todo[1]] \ {d} :
         OnStack(stack, a) \/ (a = last /\ last = p.parent[todo[1]])

ExactInv ==
  phase = "visit" /\ Clean =>
    /\ step = "arrive" =>
         \/ Fresh(program, ancestry_stack, last_visited, Top.todo, Body(current))
         \/ Covers(program, ancestry_stack, last_visited, Top.todo, Body(current))
    /\ step # "arrive" =>
         /\ LinkedFrom(program, ancestry_stack, 1)
         /\ \A a \in Ancestors(Here) \ {Body(current)} : OnStack(ancestry_stack, a)

ThenKid(p, c) == p.kind[p.parent[c]] = "If" /\ c = p.kids[p.parent[c]][2]

(* An IfStmt entry has no ThenBlock entry behind it yet.                   *)
Open(accesses) ==
  \E n \in DOMAIN accesses :
    accesses[n].type = "IfStmt" /\ \A q \in DOMAIN accesses : q > n => accesses[q].type # "ThenBlock"

(* The visit of FuncInfo i has a then block before it.                     *)
ThenAwaited(i) ==
  \E m \in 1..Len(frames) :
    /\ frames[m].info = i
    /\ \E k \in DOMAIN frames[m].todo :
         /\ ThenKid(program, frames[m].todo[k])
         /\ ~(m = Len(frames) /\ k = 1 /\ step = "cursor")

(* Unwinding takes no marker for a lock call.                              *)
Bare(va) == va.type \in {"IfStmt", "ThenBlock"} => va.idx = NO_IDX

ThenInv ==
  /\ \A i \in DOMAIN infos : \A n \in DOMAIN infos[i].accesses : Bare(infos[i].accesses[n])
  /\ phase = "visit" =>
       \A i \in DOMAIN infos : Open(infos[i].accesses) => tracking /\ ThenAwaited(i)
  /\ phase = "unwind" => \A i \in DOMAIN infos : ~Open(infos[i].accesses)
  /\ ThenBlockAhead

(* Cursor c is to come in a todo list.                                     *)
Ahead(p, todo, c) == \E j \in DOMAIN todo : c \in Under(p, todo[j])

(* What is still to be visited of FuncInfo i.                              *)
Pending(i, c) ==
  \E m \in 1..Len(frames) : frames[m].info = i /\ Ahead(program, frames[m].todo, c)

Started(i) == i > NumRoots \/ i <= next

CalledInfos == {j \in DOMAIN infos : j > NumRoots}
CalledFns == {infos[j].fn : j \in CalledInfos}

OriginAt(i, n, c) == n \in DOMAIN infos[i].accesses /\ infos[i].accesses[n].origin = c

(* The visit of cursor c has had its effect.                               *)
Seen(i, c) ==
  /\ Kind(c) = "Call" => Sym(c) \in CalledFns \cup {NoFunc}
  /\ Kind(c) = "Ref" /\ ~Subscript(c) => \E n \in DOMAIN infos[i].accesses : OriginAt(i, n, c)

CalleesOnce ==
  /\ \A i \in CalledInfos : /\ infos[i].in_system_header = InSystemHeader(infos[i].fn)
                            /\ infos[i].has_definition = HasDefinition(infos[i].fn)
  /\ \A i \in CalledInfos, j \in CalledInfos : infos[i].fn = infos[j].fn => i = j

OriginsOnce ==
  \A i \in DOMAIN infos : \A c \in DOMAIN program.kind :
    \A n \in DOMAIN infos[i].accesses, l \in DOMAIN infos[i].accesses :
      OriginAt(i, n, c) /\ OriginAt(i, l, c) => l = n

(* An entry is not pushed before its cursor is visited.                    *)
OriginsPast ==
  \A i \in DOMAIN infos : \A c \in DOMAIN program.kind :
    \A n \in DOMAIN infos[i].accesses : OriginAt(i, n, c) => ~Pending(i, c)

PendingOrSeen ==
  \A i \in DOMAIN infos : Started(i) /\ ~External(infos[i]) =>
    \A c \in CursorsOf(infos[i].fn) : Pending(i, c) \/ Seen(i, c)

AllSeen ==
  \A i \in DOMAIN infos : ~External(infos[i]) => \A c \in CursorsOf(infos[i].fn) : Seen(i, c)

VisitedInv ==
  touched_func_usrs = CalledFns /\ CalleesOnce /\ OriginsOnce /\ OriginsPast /\ PendingOrSeen

ReachInv ==
  /\ phase = "search" => touched_func_usrs = {}
  /\ phase = "visit" => VisitedInv
  /\ AllVisited =>
       /\ \A r \in 1..NumRoots : ~External(infos[r])
       /\ CalleesOnce /\ OriginsOnce /\ AllSeen

(* What the visitor made of the references to variables: the entry bears   *)
(* the name of the variable, and the right type.                           *)
Named(va) ==
  /\ ~Placeholder(va)
  /\ IsSeq(va.usr) /\ va.usr # <<>> /\ Head(va.usr) = Sym(va.origin)

RightEntry(va) ==
  /\ va.origin \in DOMAIN program.kind /\ Named(va)
  /\ Target(va.origin) => va.type = "Write"
  /\ va.type \in {"Write", "PtrWrite"} => Modified(va.origin)

Classified ==
  \A i \in DOMAIN infos : \A n \in DOMAIN infos[i].accesses :
    infos[i].accesses[n].origin # NoCursor => RightEntry(infos[i].accesses[n])

ClassInv == phase \in {"search", "visit"} \/ AllVisited => Classified

(* If the parameters of the program have different names: those FuncInfo i *)
(* has got have been visited, and each is there once.                      *)
SymsApart ==
  \A c \in DOMAIN program.kind, d \in DOMAIN program.kind :
    Kind(c) = "Parm" /\ Kind(d) = "Parm" /\ Sym(c) = Sym(d) => c = d

ParamsOnce(i) ==
  SymsApart =>
    /\ \A k \in DOMAIN infos[i].params : \E c \in DOMAIN program.kind :
         Kind(c) = "Parm" /\ Sym(c) = infos[i].params[k] /\ ~Pending(i, c)
    /\ \A k \in DOMAIN infos[i].params, l \in DOMAIN infos[i].params :
         infos[i].params[k] = infos[i].params[l] => k = l

Waiting(r) == \E k \in DOMAIN work : work[k] = r

(* The accesses of root r before it is unwound, and after.                 *)
Raw(r) ==
  \A n \in DOMAIN infos[r].accesses :
    LET va == infos[r].accesses[n]
    IN  va.origin # NoCursor => va.origin \in DOMAIN program.kind /\ Named(va)

Unwound(r) ==
  \A n \in DOMAIN infos[r].accesses, k \in DOMAIN infos[r].params :
    LET va == infos[r].accesses[n]
    IN  va.origin # NoCursor /\ Sym(va.origin) = infos[r].params[k] =>
          Head(va.usr) = program.command[r].args[k]

ParamsSeen ==
  /\ \A r \in 1..NumRoots : r > next => infos[r].params = <<>>
  /\ \A i \in DOMAIN infos : ParamsOnce(i)

RootsUnwound ==
  /\ \A i \in DOMAIN infos : \A k \in DOMAIN infos[i].callees : infos[i].callees[k] > NumRoots
  /\ \A r \in 1..NumRoots : \A j \in DOMAIN work, k \in DOMAIN work :
       work[j] = r /\ work[k] = r => j = k
  /\ \A r \in 1..NumRoots :
       /\ ~External(infos[r]) /\ ParamsOnce(r)
       /\ Waiting(r) => Raw(r)
       /\ NamesClear /\ ~Waiting(r) => Unwound(r)

NamesInv ==
  /\ phase = "search" => \A i \in DOMAIN infos : infos[i].params = <<>>
  /\ phase = "visit" => ParamsSeen
  /\ phase = "unwind" => RootsUnwound
  /\ phase = "built" /\ NamesClear => \A r \in 1..NumRoots : Unwound(r)
-----------------------------------------------------------------------------
(* The tree                                                                *)

LEMMA TreeFacts ==
  ASSUME NEW p \in Programs
  PROVE  /\ NoCursor \notin DOMAIN p.kind
         /\ \A c \in DOMAIN p.kind :
              /\ p.kids[c] \in Seq(DOMAIN p.kind)
              /\ c \notin p.ancestors[c] /\ p.ancestors[c] \subseteq DOMAIN p.kind
              /\ p.parent[c] = NoCursor => p.ancestors[c] = {}
              /\ p.parent[c] # NoCursor =>
                   /\ p.parent[c] \in DOMAIN p.kind
                   /\ p.ancestors[c] = p.ancestors[p.parent[c]] \cup {p.parent[c]}
                   /\ \E k \in DOMAIN p.kids[p.parent[c]] : p.kids[p.parent[c]][k] = c
              /\ \A a \in p.ancestors[c] : p.ancestors[a] \subseteq p.ancestors[c]
<1>1. /\ NoCursor \notin DOMAIN p.kind /\ Tree(p)
      /\ p.kids \in [DOMAIN p.kind -> Seq(DOMAIN p.kind)]
      /\ p.parent \in [DOMAIN p.kind -> DOMAIN p.kind \cup {NoCursor}]
      /\ p.ancestors \in [DOMAIN p.kind -> SUBSET DOMAIN p.kind]
  BY ProgramsAssumption
<1>2. ASSUME NEW c \in DOMAIN p.kind
      PROVE  /\ p.kids[c] \in Seq(DOMAIN p.kind)
             /\ c \notin p.ancestors[c] /\ p.ancestors[c] \subseteq DOMAIN p.kind
             /\ p.parent[c] = NoCursor => p.ancestors[c] = {}
             /\ p.parent[c] # NoCursor =>
                  /\ p.parent[c] \in DOMAIN p.kind
                  /\ p.ancestors[c] = p.ancestors[p.parent[c]] \cup {p.parent[c]}
                  /\ \E k \in DOMAIN p.kids[p.parent[c]] : p.kids[p.parent[c]][k] = c
             /\ \A a \in p.ancestors[c] : p.ancestors[a] \subseteq p.ancestors[c]
  BY <1>1 DEF Tree
<1> QED
  BY <1>1, <1>2

LEMMA KidFacts ==
  ASSUME NEW p \in Programs, NEW c \in DOMAIN p.kind, NEW k \in DOMAIN p.kids[c]
  PROVE  /\ p.kids[c][k] \in DOMAIN p.kind /\ p.parent[p.kids[c][k]] = c
         /\ p.ancestors[p.kids[c][k]] = p.ancestors[c] \cup {c}
<1>1. p.kids[c] \in Seq(DOMAIN p.kind) /\ p.parent[p.kids[c][k]] = c /\ c # NoCursor
  BY ProgramsAssumption DEF Tree
<1>2. p.kids[c][k] \in DOMAIN p.kind
  BY <1>1
<1> QED
  BY <1>1, <1>2, TreeFacts

LEMMA UnderKidOf ==
  ASSUME NEW p \in Programs, NEW c \in DOMAIN p.kind, NEW k \in DOMAIN p.kids[c],
         NEW x \in DOMAIN p.kind, p.kids[c][k] \in p.ancestors[x] \cup {x}
  PROVE  c \in p.ancestors[x]
<1>1. c \in p.ancestors[p.kids[c][k]]
  BY KidFacts
<1>2. CASE p.kids[c][k] = x
  BY <1>1, <1>2
<1>3. CASE p.kids[c][k] \in p.ancestors[x]
  <2>1. p.ancestors[p.kids[c][k]] \subseteq p.ancestors[x]
    BY <1>3, TreeFacts
  <2> QED
    BY <1>1, <2>1
<1> QED
  BY <1>2, <1>3

(* A cursor lies under one child of each ancestor.                         *)
LEMMA KidAbove ==
  ASSUME NEW p \in Programs, NEW c \in DOMAIN p.kind, NEW a \in p.ancestors[c]
  PROVE  \E k \in DOMAIN p.kids[a] :
           \A l \in DOMAIN p.kids[a] : p.kids[a][l] \in p.ancestors[c] \cup {c} <=> l = k
BY ProgramsAssumption DEF Tree

LEMMA KidsApart ==
  ASSUME NEW p \in Programs, NEW c \in DOMAIN p.kind,
         NEW k \in DOMAIN p.kids[c], NEW l \in DOMAIN p.kids[c], k # l
  PROVE  /\ p.kids[c][k] # p.kids[c][l]
         /\ Under(p, p.kids[c][k]) \cap Under(p, p.kids[c][l]) = {}
<1>1. ASSUME NEW x \in Under(p, p.kids[c][k]), x \in Under(p, p.kids[c][l])
      PROVE  FALSE
  <2>1. x \in DOMAIN p.kind /\ p.kids[c][k] \in p.ancestors[x] \cup {x}
        /\ p.kids[c][l] \in p.ancestors[x] \cup {x}
    BY <1>1 DEF Under
  <2>2. c \in p.ancestors[x]
    BY <2>1, UnderKidOf
  <2>3. PICK m \in DOMAIN p.kids[c] :
          \A n \in DOMAIN p.kids[c] : p.kids[c][n] \in p.ancestors[x] \cup {x} <=> n = m
    BY <2>1, <2>2, ProgramsAssumption DEF Tree
  <2> QED
    BY <2>1, <2>3
<1>2. p.kids[c][k] \in Under(p, p.kids[c][k])
  BY KidFacts DEF Under
<1> QED
  BY <1>1, <1>2

LEMMA UnderKid ==
  ASSUME NEW p \in Programs, NEW c \in DOMAIN p.kind, NEW k \in DOMAIN p.kids[c]
  PROVE  Under(p, p.kids[c][k]) \subseteq Under(p, c) \ {c}
<1>1. ASSUME NEW x \in Under(p, p.kids[c][k])
      PROVE  x \in Under(p, c) /\ x # c
  <2>1. c \in p.ancestors[x]
    BY <1>1, UnderKidOf DEF Under
  <2> QED
    BY <1>1, <2>1, TreeFacts DEF Under
<1> QED
  BY <1>1

LEMMA SyntaxFacts ==
  ASSUME NEW p \in Programs
  PROVE  /\ \A fn \in DOMAIN p.body :
              /\ p.body[fn] \in DOMAIN p.kind /\ p.kind[p.body[fn]] = "Func"
              /\ p.parent[p.body[fn]] = NoCursor /\ p.kids[p.body[fn]] # <<>>
         /\ \A c \in DOMAIN p.kind :
              /\ p.kind[c] = "If" => Len(p.kids[c]) >= 2
              /\ p.kind[c] \in {"Assign", "Index"} => Len(p.kids[c]) = 2
              /\ p.kind[c] = "Member" => Len(p.kids[c]) <= 1
<1>1. /\ Syntax(p) /\ p.body \in [DOMAIN p.body -> DOMAIN p.kind]
  BY ProgramsAssumption
<1> QED
  BY <1>1 DEF Syntax
-----------------------------------------------------------------------------
(* The todo lists                                                          *)

(* From position n on, t is todo without its first cursor.                 *)
Continues(t, n, todo) ==
  /\ \A i \in 2..Len(todo) : \E j \in DOMAIN t : j = n + i - 1 /\ t[j] = todo[i]
  /\ \A j \in DOMAIN t : j > n => \E i \in 2..Len(todo) : j = n + i - 1 /\ t[j] = todo[i]

LEMMA RecurseIs ==
  ASSUME NEW S, NEW kids \in Seq(S), NEW todo \in Seq(S), todo # <<>>,
         NEW t, t = kids \o Tail(todo)
  PROVE  /\ t \in Seq(S) /\ Len(kids) \in Nat /\ Len(todo) \in Nat \ {0}
         /\ Len(t) = Len(kids) + Len(todo) - 1 /\ Len(t) \in Nat /\ DOMAIN t = 1..Len(t)
         /\ DOMAIN kids = 1..Len(kids) /\ DOMAIN todo = 1..Len(todo)
         /\ \A i \in 1..Len(kids) : t[i] = kids[i]
         /\ Continues(t, Len(kids), todo)
<1>1. /\ Tail(todo) \in Seq(S) /\ Len(Tail(todo)) = Len(todo) - 1 /\ Len(todo) \in Nat \ {0}
      /\ \A i \in 1..(Len(todo) - 1) : Tail(todo)[i] = todo[i + 1]
  BY HeadTailProperties, LenProperties
<1> DEFINE rest == Tail(todo)
<1> HIDE DEF rest
<1>2. /\ t \in Seq(S) /\ Len(t) = Len(kids) + Len(rest) /\ Len(kids) \in Nat
      /\ \A i \in 1..(Len(kids) + Len(rest)) :
           t[i] = IF i <= Len(kids) THEN kids[i] ELSE rest[i - Len(kids)]
  BY <1>1, ConcatProperties, LenProperties DEF rest
<1>3. ASSUME NEW i \in 2..Len(todo), NEW j, j = Len(kids) + i - 1
      PROVE  t[j] = todo[i]
  <2>1. /\ j \in 1..(Len(kids) + Len(rest)) /\ ~(j <= Len(kids))
        /\ j - Len(kids) = i - 1 /\ i - 1 \in 1..(Len(todo) - 1) /\ (i - 1) + 1 = i
    BY <1>1, <1>2, <1>3 DEF rest
  <2>2. t[j] = rest[j - Len(kids)]
    BY <1>2, <2>1
  <2>3. rest[i - 1] = todo[i]
    BY <1>1, <2>1 DEF rest
  <2> QED
    BY <2>1, <2>2, <2>3
<1>4. \A i \in 1..Len(kids) : t[i] = kids[i]
  BY <1>1, <1>2 DEF rest
<1>5. Len(t) = Len(kids) + Len(todo) - 1 /\ Len(t) \in Nat /\ DOMAIN t = 1..Len(t)
  BY <1>1, <1>2, LenProperties DEF rest
<1>6. DOMAIN kids = 1..Len(kids) /\ DOMAIN todo = 1..Len(todo)
  BY LenProperties
<1>7. ASSUME NEW i \in 2..Len(todo)
      PROVE  \E j \in DOMAIN t : j = Len(kids) + i - 1 /\ t[j] = todo[i]
  <2>1. Len(kids) + i - 1 \in DOMAIN t
    BY <1>1, <1>2, <1>5
  <2> QED
    BY <2>1, <1>3
<1>8. ASSUME NEW j \in DOMAIN t, j > Len(kids)
      PROVE  \E i \in 2..Len(todo) : j = Len(kids) + i - 1 /\ t[j] = todo[i]
  <2>1. j - Len(kids) + 1 \in 2..Len(todo) /\ j = Len(kids) + (j - Len(kids) + 1) - 1
    BY <1>1, <1>2, <1>5, <1>8
  <2> QED
    BY <2>1, <1>3
<1>9. Continues(t, Len(kids), todo)
  BY <1>7, <1>8 DEF Continues
<1> QED
  BY <1>1, <1>2, <1>4, <1>5, <1>6, <1>9

(* What is left of the tree below d before any of it is visited.           *)
LEMMA TodoFitsKids ==
  ASSUME NEW p \in Programs, NEW d \in DOMAIN p.kind, p.parent[d] = NoCursor
  PROVE  /\ TodoFits(p, p.kids[d], d)
         /\ \A j \in DOMAIN p.kids[d] : p.parent[p.kids[d][j]] = d
<1> DEFINE todo == p.kids[d]
           n == Len(todo)
<1>1. /\ todo \in Seq(DOMAIN p.kind) /\ n \in Nat /\ DOMAIN todo = 1..n
      /\ p.ancestors[d] = {}
  BY TreeFacts, LenProperties
<1>2. \A j \in DOMAIN todo :
        todo[j] \in DOMAIN p.kind /\ p.parent[todo[j]] = d /\ p.ancestors[todo[j]] = {d}
  <2>1. \A j \in DOMAIN todo :
          /\ todo[j] \in DOMAIN p.kind /\ p.parent[todo[j]] = d
          /\ p.ancestors[todo[j]] = p.ancestors[d] \cup {d}
    BY KidFacts
  <2>2. p.ancestors[d] \cup {d} = {d}
    BY <1>1
  <2> QED
    BY <2>1, <2>2
<1>3. ASSUME NEW j \in DOMAIN todo, j > 1
      PROVE  ~FirstKid(p, todo[j])
  <2>1. 1 \in DOMAIN todo /\ j # 1
    BY <1>1, <1>3
  <2>2. todo[j] # todo[1]
    BY <2>1, KidsApart
  <2> QED
    BY <1>2, <2>2 DEF FirstKid
<1>4. ASSUME NEW j \in DOMAIN todo, NEW c \in p.ancestors[todo[j]] \cup {todo[j]}
      PROVE  \/ LastKid(p, c)
             \/ \E k \in DOMAIN todo : k > j /\ todo[k] = LastChild(p, p.parent[c])
  <2>1. CASE c = d
    BY <2>1 DEF LastKid
  <2>2. CASE c = todo[j] /\ j = n
    BY <2>2, <1>2 DEF LastKid, LastChild
  <2>3. CASE c = todo[j] /\ j # n
    <3>1. n \in DOMAIN todo /\ n > j
      BY <1>1, <2>3
    <3>2. todo[n] = LastChild(p, p.parent[c])
      BY <1>2, <2>3 DEF LastChild
    <3> QED
      BY <3>1, <3>2
  <2> QED
    BY <2>1, <2>2, <2>3, <1>2, <1>4
<1>5. ASSUME NEW i \in DOMAIN todo, NEW j \in DOMAIN todo, i < j
      PROVE  /\ p.ancestors[todo[j]] \subseteq p.ancestors[todo[i]]
             /\ Under(p, todo[i]) \cap Under(p, todo[j]) = {}
             /\ Earlier(p, todo[i], todo[j])
  <2>1. i # j
    BY <1>1, <1>5
  <2>2. Earlier(p, todo[i], todo[j])
    BY <1>2, <1>5 DEF Earlier
  <2> QED
    BY <2>1, <2>2, <1>2, KidsApart
<1> HIDE DEF todo
<1>6. TodoFits(p, todo, d)
  BY <1>1, <1>2, <1>3, <1>4, <1>5 DEF TodoFits
<1> QED
  BY <1>2, <1>6 DEF todo

LEMMA TodoFacts ==
  ASSUME NEW p \in Programs, NEW d, NEW todo, TodoFits(p, todo, d), todo # <<>>
  PROVE  /\ Len(todo) \in Nat \ {0} /\ DOMAIN todo = 1..Len(todo)
         /\ \A j \in DOMAIN todo :
              /\ todo[j] \in DOMAIN p.kind /\ p.parent[todo[j]] # NoCursor
              /\ p.parent[todo[j]] \in DOMAIN p.kind
         /\ Head(todo) = todo[1] /\ Tail(todo) \in Seq(DOMAIN p.kind)
<1>1. todo \in Seq(DOMAIN p.kind) /\ \A j \in DOMAIN todo : d \in p.ancestors[todo[j]]
  BY DEF TodoFits
<1>2. /\ Len(todo) \in Nat \ {0} /\ DOMAIN todo = 1..Len(todo)
      /\ \A j \in DOMAIN todo : todo[j] \in DOMAIN p.kind
      /\ Head(todo) = todo[1] /\ Tail(todo) \in Seq(DOMAIN p.kind)
  BY <1>1, LenProperties, HeadTailProperties
<1>3. \A j \in DOMAIN todo : p.parent[todo[j]] # NoCursor /\ p.parent[todo[j]] \in DOMAIN p.kind
  BY <1>1, <1>2, TreeFacts
<1> QED
  BY <1>2, <1>3

(* CXChildVisit_Recurse.                                                   *)
After(p, todo) == p.kids[todo[1]] \o Tail(todo)

LEMMA TodoFitsOn ==
  ASSUME NEW p \in Programs, NEW d, NEW todo, TodoFits(p, todo, d), todo # <<>>,
         NEW t, t = After(p, todo)
  PROVE  TodoFits(p, t, d)
<1> DEFINE c == todo[1]
           kids == p.kids[c]
           n == Len(kids)
<1>1. /\ todo \in Seq(DOMAIN p.kind) /\ c \in DOMAIN p.kind /\ kids \in Seq(DOMAIN p.kind)
      /\ 1 \in DOMAIN todo /\ \A j \in DOMAIN todo : todo[j] \in DOMAIN p.kind
      /\ t = kids \o Tail(todo)
  <2>1. todo \in Seq(DOMAIN p.kind)
    BY DEF TodoFits
  <2>2. 1 \in DOMAIN todo /\ \A j \in DOMAIN todo : todo[j] \in DOMAIN p.kind
    BY <2>1, TodoFacts
  <2>3. kids \in Seq(DOMAIN p.kind)
    BY <2>2, TreeFacts
  <2> QED
    BY <2>1, <2>2, <2>3 DEF After
<1> HIDE DEF kids
<1>2. /\ t \in Seq(DOMAIN p.kind) /\ n \in Nat /\ Len(todo) \in Nat \ {0}
      /\ Len(t) = n + Len(todo) - 1 /\ Len(t) \in Nat /\ DOMAIN t = 1..Len(t)
      /\ DOMAIN kids = 1..n /\ DOMAIN todo = 1..Len(todo)
      /\ \A i \in 1..n : t[i] = kids[i]
      /\ Continues(t, n, todo)
  <2> HIDE DEF c
  <2> QED
    BY <1>1, RecurseIs
<1>20. /\ n \in Nat /\ Len(todo) \in Nat \ {0} /\ Len(t) = n + Len(todo) - 1 /\ Len(t) \in Nat
       /\ DOMAIN t = 1..Len(t) /\ DOMAIN kids = 1..n /\ DOMAIN todo = 1..Len(todo)
  BY <1>2
<1>21. \A i \in 1..n : t[i] = kids[i]
  BY <1>2
<1>3. \A i \in DOMAIN kids : /\ kids[i] \in DOMAIN p.kind /\ p.parent[kids[i]] = c
                             /\ p.ancestors[kids[i]] = p.ancestors[c] \cup {c}
                             /\ Under(p, kids[i]) \subseteq Under(p, c)
  BY <1>1, KidFacts, UnderKid DEF kids
<1> HIDE DEF n, c
<1> DEFINE R == 2..Len(todo)
<1>4. ASSUME NEW j \in DOMAIN t
      PROVE  \/ j \in 1..n /\ t[j] = kids[j]
             \/ j > n /\ \E i \in R : j = n + i - 1 /\ t[j] = todo[i]
  <2>1. CASE j <= n
    BY <2>1, <1>2
  <2>2. CASE ~(j <= n)
    <3>1. j > n
      BY <2>2, <1>2
    <3> QED
      BY <3>1, <1>2 DEF Continues
  <2> QED
    BY <2>1, <2>2
<1>5. ASSUME NEW i \in R
      PROVE  /\ i \in DOMAIN todo /\ i > 1
             /\ \E j \in DOMAIN t : j = n + i - 1 /\ t[j] = todo[i]
             /\ p.ancestors[todo[i]] \subseteq p.ancestors[c]
             /\ Under(p, c) \cap Under(p, todo[i]) = {}
  <2>1. i \in DOMAIN todo /\ 1 < i
    BY <1>2
  <2> QED
    BY <2>1, <1>1, <1>2 DEF TodoFits, Continues, c
<1>6. ASSUME NEW j \in DOMAIN t
      PROVE  /\ d \in p.ancestors[t[j]]
             /\ j > 1 => ~FirstKid(p, t[j])
  <2>1. CASE j \in 1..n /\ t[j] = kids[j]
    <3>1. d \in p.ancestors[c]
      BY <1>1 DEF TodoFits, c
    <3>2. ASSUME j > 1 PROVE ~FirstKid(p, kids[j])
      <4>1. 1 \in DOMAIN kids /\ j \in DOMAIN kids /\ j # 1
        BY <2>1, <3>2, <1>2
      <4>2. kids[j] # kids[1]
        BY <4>1, <1>1, KidsApart DEF kids
      <4> QED
        BY <4>1, <4>2, <1>3 DEF FirstKid, kids
    <3> QED
      BY <2>1, <3>1, <3>2, <1>2, <1>3
  <2>2. ASSUME NEW i \in R, t[j] = todo[i]
        PROVE  d \in p.ancestors[t[j]] /\ ~FirstKid(p, t[j])
    BY <2>2, <1>5 DEF TodoFits
  <2> QED
    BY <2>1, <2>2, <1>4
<1>7. ASSUME NEW j \in DOMAIN t, NEW x \in p.ancestors[t[j]] \cup {t[j]}, ~LastKid(p, x)
      PROVE  \E k \in DOMAIN t : k > j /\ t[k] = LastChild(p, p.parent[x])
  <2>1. CASE j \in 1..n /\ t[j] = kids[j] /\ x = kids[j]
    <3>1. p.parent[x] = c
      BY <2>1, <1>2, <1>3
    <3>2. n \in DOMAIN t /\ n \in 1..n
      BY <2>1, <1>20
    <3>4. t[n] = LastChild(p, p.parent[x])
      <4>1. t[n] = kids[n]
        BY <3>2, <1>2
      <4> QED
        BY <4>1, <3>1 DEF LastChild, kids, n
    <3>3. n # j
      BY <3>1, <3>4, <2>1, <1>7 DEF LastKid
    <3> QED
      BY <3>2, <3>3, <3>4, <2>1, <1>20
  <2>2. CASE j \in 1..n /\ t[j] = kids[j] /\ x # kids[j]
    <3>1. x \in p.ancestors[c] \cup {c}
      BY <2>2, <1>2, <1>3, <1>7
    <3>2. PICK k \in DOMAIN todo : k > 1 /\ todo[k] = LastChild(p, p.parent[x])
      BY <3>1, <1>1, <1>7 DEF TodoFits, c
    <3>3. k \in R
      BY <3>2, <1>20
    <3>4. PICK l \in DOMAIN t : l = n + k - 1 /\ t[l] = todo[k]
      BY <3>3, <1>5
    <3>5. l > j
      BY <3>2, <3>3, <3>4, <2>2, <1>20
    <3> QED
      BY <3>2, <3>4, <3>5
  <2>3. ASSUME NEW i \in R, j = n + i - 1, t[j] = todo[i]
        PROVE  \E k \in DOMAIN t : k > j /\ t[k] = LastChild(p, p.parent[x])
    <3>1. PICK k \in DOMAIN todo : k > i /\ todo[k] = LastChild(p, p.parent[x])
      BY <2>3, <1>5, <1>7 DEF TodoFits
    <3>2. k \in R
      BY <3>1, <1>20
    <3>3. PICK l \in DOMAIN t : l = n + k - 1 /\ t[l] = todo[k]
      BY <3>2, <1>5
    <3>4. l > j
      BY <3>1, <3>2, <3>3, <2>3, <1>20
    <3> QED
      BY <3>1, <3>3, <3>4
  <2> QED
    BY <2>1, <2>2, <2>3, <1>4
<1>8. ASSUME NEW i \in DOMAIN t, NEW j \in DOMAIN t, i < j
      PROVE  /\ p.ancestors[t[j]] \subseteq p.ancestors[t[i]]
             /\ Under(p, t[i]) \cap Under(p, t[j]) = {}
  <2>1. CASE j \in 1..n /\ t[j] = kids[j]
    <3>1. i \in DOMAIN kids /\ j \in DOMAIN kids /\ i # j /\ t[i] = kids[i]
      BY <2>1, <1>2, <1>8
    <3> QED
      BY <2>1, <3>1, <1>1, <1>3, KidsApart DEF kids
  <2>2. ASSUME NEW l \in R, t[j] = todo[l], i \in 1..n, t[i] = kids[i]
        PROVE  /\ p.ancestors[t[j]] \subseteq p.ancestors[t[i]]
               /\ Under(p, t[i]) \cap Under(p, t[j]) = {}
    <3>1. i \in DOMAIN kids /\ p.ancestors[t[i]] = p.ancestors[c] \cup {c}
          /\ Under(p, t[i]) \subseteq Under(p, c)
      BY <2>2, <1>20, <1>3
    <3>2. /\ p.ancestors[t[j]] \subseteq p.ancestors[c]
          /\ Under(p, c) \cap Under(p, t[j]) = {}
      BY <2>2, <1>5
    <3> QED
      BY <3>1, <3>2
  <2>3. ASSUME NEW l \in R, j = n + l - 1, t[j] = todo[l], NEW m \in R, i = n + m - 1, t[i] = todo[m]
        PROVE  /\ p.ancestors[t[j]] \subseteq p.ancestors[t[i]]
               /\ Under(p, t[i]) \cap Under(p, t[j]) = {}
    <3>1. m < l /\ m \in DOMAIN todo /\ l \in DOMAIN todo
      BY <2>3, <1>2, <1>5, <1>8
    <3> QED
      BY <2>3, <3>1 DEF TodoFits
  <2> QED
    BY <2>1, <2>2, <2>3, <1>4, <1>8
<1>9. ASSUME NEW i \in DOMAIN t, NEW j \in DOMAIN t, i < j
      PROVE  Earlier(p, t[i], t[j])
  <2>1. CASE j \in 1..n /\ t[j] = kids[j]
    <3>1. i \in DOMAIN kids /\ j \in DOMAIN kids /\ t[i] = kids[i]
      BY <2>1, <1>2, <1>9
    <3>2. p.parent[t[j]] = c /\ p.kids[c] = kids
      BY <2>1, <3>1, <1>3 DEF kids
    <3> QED
      BY <2>1, <3>1, <3>2, <1>9 DEF Earlier
  <2>2. ASSUME NEW l \in R, t[j] = todo[l], i \in 1..n, t[i] = kids[i]
        PROVE  Earlier(p, t[i], t[j])
    <3>1. i \in DOMAIN kids /\ p.ancestors[t[i]] = p.ancestors[c] \cup {c}
      BY <2>2, <1>20, <1>3
    <3>2. 1 < l /\ l \in DOMAIN todo
      BY <1>20
    <3>3. Earlier(p, c, t[j])
      BY <2>2, <3>2, <1>1 DEF TodoFits, c
    <3> QED
      BY <3>1, <3>3 DEF Earlier
  <2>3. ASSUME NEW l \in R, j = n + l - 1, t[j] = todo[l], NEW m \in R, i = n + m - 1, t[i] = todo[m]
        PROVE  Earlier(p, t[i], t[j])
    <3>1. m < l /\ m \in DOMAIN todo /\ l \in DOMAIN todo
      BY <2>3, <1>2, <1>5, <1>9
    <3> QED
      BY <2>3, <3>1 DEF TodoFits
  <2> QED
    BY <2>1, <2>2, <2>3, <1>4, <1>9
<1> QED
  BY <1>2, <1>6, <1>7, <1>8, <1>9 DEF TodoFits

(* Around the cursor visited next: its children come first.                *)
LEMMA AfterFacts ==
  ASSUME NEW p \in Programs, NEW d, NEW todo, TodoFits(p, todo, d), todo # <<>>,
         NEW c, c = todo[1], NEW t, t = After(p, todo)
  PROVE  /\ c \in DOMAIN p.kind /\ p.parent[c] # NoCursor
         /\ \A k \in DOMAIN p.kids[c] : \E j \in DOMAIN t : t[j] = p.kids[c][k]
         /\ \A x \in p.ancestors[c] \cup {c} :
              LastKid(p, x) \/ \E j \in DOMAIN t : t[j] = LastChild(p, p.parent[x])
         /\ t # <<>> /\ FirstKid(p, t[1]) => p.parent[t[1]] = c
         /\ t # <<>> => p.ancestors[t[1]] \subseteq p.ancestors[c] \cup {p.parent[t[1]]}
         /\ t # <<>> /\ p.parent[t[1]] # c => p.ancestors[t[1]] \subseteq p.ancestors[c]
<1> DEFINE kids == p.kids[c]
           n == Len(kids)
<1>1. /\ todo \in Seq(DOMAIN p.kind) /\ c \in DOMAIN p.kind /\ kids \in Seq(DOMAIN p.kind)
      /\ 1 \in DOMAIN todo /\ p.parent[c] # NoCursor /\ t = kids \o Tail(todo)
  <2>1. todo \in Seq(DOMAIN p.kind)
    BY DEF TodoFits
  <2>2. 1 \in DOMAIN todo /\ c \in DOMAIN p.kind /\ p.parent[c] # NoCursor
    BY <2>1, TodoFacts
  <2>3. kids \in Seq(DOMAIN p.kind)
    BY <2>2, TreeFacts
  <2> QED
    BY <2>1, <2>2, <2>3 DEF After
<1> HIDE DEF kids
<1>2. /\ t \in Seq(DOMAIN p.kind) /\ n \in Nat /\ Len(todo) \in Nat \ {0}
      /\ Len(t) = n + Len(todo) - 1 /\ Len(t) \in Nat /\ DOMAIN t = 1..Len(t)
      /\ DOMAIN kids = 1..n /\ DOMAIN todo = 1..Len(todo)
      /\ \A i \in 1..n : t[i] = kids[i]
      /\ Continues(t, n, todo)
  BY <1>1, RecurseIs
<1>20. /\ n \in Nat /\ Len(todo) \in Nat \ {0} /\ Len(t) = n + Len(todo) - 1 /\ Len(t) \in Nat
       /\ DOMAIN t = 1..Len(t) /\ DOMAIN kids = 1..n /\ DOMAIN todo = 1..Len(todo)
  BY <1>2
<1> DEFINE R == 2..Len(todo)
<1>21. /\ \A i \in 1..n : t[i] = kids[i]
       /\ \A i \in R : \E j \in DOMAIN t : j = n + i - 1 /\ t[j] = todo[i]
       /\ \A j \in DOMAIN t : j > n => \E i \in R : j = n + i - 1 /\ t[j] = todo[i]
  BY <1>2 DEF Continues
<1> HIDE DEF n
<1>3. ASSUME NEW k \in DOMAIN kids
      PROVE  \E j \in DOMAIN t : t[j] = kids[k]
  <2>1. k \in DOMAIN t /\ t[k] = kids[k]
    BY <1>2
  <2> QED
    BY <2>1
<1>4. ASSUME NEW x \in p.ancestors[c] \cup {c}, ~LastKid(p, x)
      PROVE  \E j \in DOMAIN t : t[j] = LastChild(p, p.parent[x])
  <2>1. PICK k \in DOMAIN todo : k > 1 /\ todo[k] = LastChild(p, p.parent[x])
    BY <1>1, <1>4 DEF TodoFits
  <2>2. k \in R
    BY <2>1, <1>20
  <2>3. PICK j \in DOMAIN t : t[j] = todo[k]
    BY <2>2, <1>21
  <2> QED
    BY <2>1, <2>3
<1>5. ASSUME t # <<>>
      PROVE  \/ 1 \in DOMAIN kids /\ t[1] = kids[1]
             \/ n = 0 /\ 2 \in DOMAIN todo /\ t[1] = todo[2]
  <2>1. 1 \in DOMAIN t
    <3>1. Len(t) # 0
      BY <1>2, <1>5
    <3> QED
      BY <3>1, <1>20
  <2>2. CASE n > 0
    <3>1. 1 \in 1..n /\ 1 \in DOMAIN kids
      BY <2>2, <1>20
    <3> QED
      BY <3>1, <1>21
  <2>3. CASE ~(n > 0)
    <3>1. n = 0 /\ 1 > n
      BY <2>3, <1>20
    <3>2. PICK i \in R : 1 = n + i - 1 /\ t[1] = todo[i]
      BY <2>1, <3>1, <1>21
    <3>3. i \in R /\ 1 = 0 + i - 1
      BY <3>1, <3>2
    <3>4. i = 2 /\ i \in DOMAIN todo
      BY <3>3, <1>20
    <3> QED
      BY <3>1, <3>2, <3>4
  <2> QED
    BY <2>2, <2>3
<1>6. ASSUME t # <<>>
      PROVE  \/ p.parent[t[1]] = c /\ p.ancestors[t[1]] = p.ancestors[c] \cup {c}
             \/ ~FirstKid(p, t[1]) /\ p.ancestors[t[1]] \subseteq p.ancestors[c]
  <2>1. CASE 1 \in DOMAIN kids /\ t[1] = kids[1]
    BY <2>1, <1>1, KidFacts DEF kids
  <2>2. CASE 2 \in DOMAIN todo /\ t[1] = todo[2]
    BY <2>2, <1>1 DEF TodoFits
  <2> QED
    BY <1>5, <1>6, <2>1, <2>2
<1> QED
  BY <1>1, <1>3, <1>4, <1>6 DEF kids
-----------------------------------------------------------------------------
(* The stack                                                               *)

LEMMA AppendIs ==
  ASSUME NEW S, NEW s \in Seq(S), NEW e \in S, NEW t, t = Append(s, e)
  PROVE  /\ t \in Seq(S) /\ Len(s) \in Nat /\ Len(t) = Len(s) + 1 /\ t # <<>>
         /\ t[Len(t)] = e /\ t[Len(s) + 1] = e /\ \A i \in 1..Len(s) : t[i] = s[i]
<1>1. /\ t \in Seq(S) /\ Len(t) = Len(s) + 1 /\ Len(s) \in Nat
      /\ t[Len(s) + 1] = e /\ \A i \in 1..Len(s) : t[i] = s[i]
  BY AppendProperties, LenProperties
<1> QED
  BY <1>1

LEMMA FrontIs ==
  ASSUME NEW S, NEW s \in Seq(S), s # <<>>, NEW t, t = Front(s)
  PROVE  /\ t \in Seq(S) /\ Len(s) \in Nat \ {0} /\ Len(t) = Len(s) - 1 /\ Len(t) \in Nat
         /\ \A i \in 1..Len(t) : t[i] = s[i]
<1> DEFINE n == Len(s) - 1
<1>1. Len(s) \in Nat \ {0} /\ \A i \in 1..Len(s) : s[i] \in S
  BY LenProperties
<1>2. t = SubSeq(s, 1, n)
  BY DEF Front
<1>3. n \in Nat /\ n = Len(s) - 1 /\ n <= Len(s)
  BY <1>1
<1>4. \A i \in 1..n : s[i] \in S
  BY <1>1, <1>3
<1> HIDE DEF n
<1>5. t \in Seq(S) /\ Len(t) = n /\ \A i \in 1..n : t[i] = s[i]
  <2>1. /\ t \in Seq(S) /\ Len(t) = IF 1 <= n THEN n - 1 + 1 ELSE 0
        /\ \A i \in 1..(n - 1 + 1) : t[i] = s[1 + i - 1]
    BY <1>2, <1>3, <1>4, SubSeqProperties
  <2>2. \A i \in 1..n : i \in 1..(n - 1 + 1) /\ 1 + i - 1 = i
    BY <1>3
  <2> QED
    BY <2>1, <2>2, <1>3
<1> QED
  BY <1>1, <1>3, <1>5

LEMMA LinkedTrans ==
  ASSUME NEW p \in Programs, NEW a, NEW b, NEW c \in DOMAIN p.kind,
         Linked(p, a, b), Linked(p, b, c)
  PROVE  Linked(p, a, c)
<1>1. CASE b = c
  BY <1>1
<1>2. CASE b # c
  <2>1. b \in p.ancestors[c] /\ p.ancestors[b] \subseteq p.ancestors[c]
    BY <1>2, TreeFacts DEF Linked
  <2> QED
    BY <2>1 DEF Linked
<1> QED
  BY <1>1, <1>2

LEMMA LinkedUp ==
  ASSUME NEW p \in Programs, NEW s \in Seq(DOMAIN p.kind),
         NEW k \in 1..Len(s), LinkedFrom(p, s, k)
  PROVE  \A j \in k..Len(s) : Linked(p, s[k], s[j])
<1> DEFINE T == {j \in k..Len(s) : ~Linked(p, s[k], s[j])}
<1>1. Len(s) \in Nat /\ \A j \in 1..Len(s) : s[j] \in DOMAIN p.kind
  BY LenProperties
<1>2. ASSUME T # {} PROVE FALSE
  <2>1. T \subseteq Nat
    BY <1>1
  <2>2. PICK m \in T : \A j \in T : m <= j
    BY <1>2, <2>1, LeastOf
  <2>3. m # k
    BY <2>2 DEF Linked
  <2>4. m - 1 \in k..Len(s) /\ m - 1 \notin T
    BY <2>1, <2>2, <2>3, <1>1
  <2>5. Linked(p, s[k], s[m - 1])
    BY <2>4
  <2>6. m - 1 \in k..(Len(s) - 1) /\ (m - 1) + 1 = m /\ m \in 1..Len(s)
    BY <2>1, <2>2, <2>3, <1>1
  <2>7. Linked(p, s[m - 1], s[m])
    BY <2>6 DEF LinkedFrom
  <2>8. Linked(p, s[k], s[m])
    BY <2>5, <2>6, <2>7, <1>1, LinkedTrans
  <2> QED
    BY <2>2, <2>8
<1> QED
  BY <1>2

(* What is linked up to the top is above the cursor visited.               *)
LEMMA PlacedAbove ==
  ASSUME NEW p \in Programs, NEW s, StackGood(p, s), NEW c \in DOMAIN p.kind, PlacedAt(p, s, c),
         NEW k \in 1..Len(s), LinkedFrom(p, s, k)
  PROVE  s[k] \in p.ancestors[c]
<1>1. /\ s \in Seq(DOMAIN p.kind) /\ Len(s) \in Nat \ {0} /\ Len(s) \in k..Len(s)
      /\ s # <<>> /\ \A j \in 1..Len(s) : s[j] \in DOMAIN p.kind
  <2>1. s \in Seq(DOMAIN p.kind)
    BY DEF StackGood
  <2>2. Len(s) \in Nat /\ \A j \in 1..Len(s) : s[j] \in DOMAIN p.kind
    BY <2>1, LenProperties
  <2>3. Len(s) # 0 /\ Len(s) \in k..Len(s)
    BY <2>2
  <2>4. s # <<>>
    BY <2>3
  <2> QED
    BY <2>1, <2>2, <2>3, <2>4
<1>2. s[Len(s)] = p.parent[c] /\ p.parent[c] # NoCursor
  BY <1>1, TreeFacts DEF PlacedAt
<1>3. Linked(p, s[k], p.parent[c])
  BY <1>1, <1>2, LinkedUp
<1> QED
  BY <1>2, <1>3, TreeFacts DEF Linked

LEMMA LinkedAppend ==
  ASSUME NEW p, NEW s \in Seq(DOMAIN p.kind), NEW e \in DOMAIN p.kind, NEW t, t = Append(s, e),
         s # <<>> => Linked(p, s[Len(s)], e)
  PROVE  \A k \in 1..Len(t) : (k <= Len(s) => LinkedFrom(p, s, k)) => LinkedFrom(p, t, k)
<1> DEFINE n == Len(s)
<1>1. n \in Nat /\ Len(t) = n + 1 /\ t[n + 1] = e /\ \A i \in 1..n : t[i] = s[i]
  BY AppendIs
<1>2. n # 0 => Linked(p, s[n], e)
  <2>1. n # 0 => s # <<>>
    OBVIOUS
  <2> QED
    BY <2>1
<1> HIDE DEF n
<1>3. ASSUME NEW k \in 1..(n + 1), k <= n => \A j \in k..(n - 1) : Linked(p, s[j], s[j + 1]),
             NEW j \in k..n
      PROVE  Linked(p, t[j], t[j + 1])
  <2>1. CASE j = n
    <3>1. n # 0 /\ j \in 1..n
      BY <2>1, <1>1, <1>3
    <3> QED
      BY <2>1, <3>1, <1>1, <1>2
  <2>2. CASE j # n
    <3>1. j \in k..(n - 1) /\ k <= n /\ j \in 1..n /\ j + 1 \in 1..n
      BY <2>2, <1>1, <1>3
    <3>2. Linked(p, s[j], s[j + 1]) /\ t[j] = s[j] /\ t[j + 1] = s[j + 1]
      BY <3>1, <1>1, <1>3
    <3> QED
      BY <3>2
  <2> QED
    BY <2>1, <2>2
<1>4. \A k \in 1..(n + 1) : k..(Len(t) - 1) = k..n
  BY <1>1
<1> QED
  BY <1>1, <1>3, <1>4 DEF LinkedFrom, n

LEMMA StackAppend ==
  ASSUME NEW p \in Programs, NEW s, StackGood(p, s), NEW e \in DOMAIN p.kind, NEW t, t = Append(s, e),
         p.parent[e] = NoCursor => s = <<>>,
         s # <<>> => Linked(p, s[Len(s)], e) \/ p.kind[e] = "Call",
         /\ p.kind[e] # "Call" /\ FirstKid(p, e) /\ p.parent[p.parent[e]] # NoCursor
         => s # <<>> /\ s[Len(s)] = p.parent[e]
  PROVE  StackGood(p, t)
<1> DEFINE n == Len(s)
           Good(u, k) ==
             /\ p.parent[u[k]] = NoCursor => k = 1
             /\ k > 1 => Linked(p, u[k - 1], u[k]) \/ p.kind[u[k]] = "Call"
             /\ /\ p.kind[u[k]] # "Call" /\ FirstKid(p, u[k])
                /\ p.parent[p.parent[u[k]]] # NoCursor
                => k > 1 /\ u[k - 1] = p.parent[u[k]]
<1>1. s \in Seq(DOMAIN p.kind) /\ \A k \in 1..n : Good(s, k)
  BY DEF StackGood
<1>2. /\ n \in Nat /\ Len(t) = n + 1 /\ t[n + 1] = e /\ \A i \in 1..n : t[i] = s[i]
      /\ t \in Seq(DOMAIN p.kind)
  BY <1>1, AppendIs
<1>3. s # <<>> <=> n # 0
  BY <1>1
<1> HIDE DEF n
<1>4. ASSUME NEW k \in 1..n PROVE Good(t, k)
  <2>1. t[k] = s[k] /\ (k > 1 => t[k - 1] = s[k - 1])
    <3>1. k > 1 => k - 1 \in 1..n
      BY <1>2
    <3> QED
      BY <3>1, <1>2
  <2> QED
    BY <2>1, <1>1
<1>5. ASSUME NEW k, k = n + 1 PROVE Good(t, k)
  <2>1. t[k] = e /\ (n # 0 => k > 1 /\ k - 1 = n /\ t[k - 1] = s[n]) /\ (n = 0 => k = 1)
    <3>1. n # 0 => n \in 1..n /\ k - 1 = n /\ k > 1
      BY <1>2, <1>5
    <3> QED
      BY <3>1, <1>2, <1>5
  <2>2. k > 1 => n # 0
    BY <1>5
  <2> QED
    BY <2>1, <2>2, <1>3 DEF n
<1>6. \A k \in 1..Len(t) : k \in 1..n \/ k = n + 1
  BY <1>2
<1>7. \A k \in 1..Len(t) : Good(t, k)
  BY <1>4, <1>5, <1>6
<1> QED
  BY <1>2, <1>7 DEF StackGood

(* The last cursor of a stack popped goes.                                 *)
LEMMA StackFront ==
  ASSUME NEW p \in Programs, NEW s, StackGood(p, s), s # <<>>, NEW t, t = Front(s)
  PROVE  /\ StackGood(p, t)
         /\ \A k \in 1..Len(t) : k \in 1..Len(s) /\ t[k] = s[k]
         /\ \A k \in 1..Len(t) : LinkedFrom(p, s, k) => LinkedFrom(p, t, k)
<1> DEFINE n == Len(t)
<1>1. s \in Seq(DOMAIN p.kind)
  BY DEF StackGood
<1>2. t \in Seq(DOMAIN p.kind) /\ n \in Nat /\ Len(s) = n + 1 /\ \A i \in 1..n : t[i] = s[i]
  BY <1>1, FrontIs
<1> HIDE DEF n
<1>3. ASSUME NEW k \in 1..n
      PROVE  k \in 1..Len(s) /\ t[k] = s[k] /\ (k > 1 => t[k - 1] = s[k - 1])
  <2>1. k \in 1..Len(s) /\ (k > 1 => k - 1 \in 1..n)
    BY <1>2
  <2> QED
    BY <2>1, <1>2
<1>4. StackGood(p, t)
  BY <1>2, <1>3 DEF StackGood, n
<1>5. ASSUME NEW k \in 1..n, LinkedFrom(p, s, k), NEW j \in k..(n - 1)
      PROVE  Linked(p, t[j], t[j + 1])
  <2>1. j \in k..(Len(s) - 1) /\ j \in 1..n /\ j + 1 \in 1..n
    BY <1>2
  <2>2. Linked(p, s[j], s[j + 1])
    BY <2>1, <1>5 DEF LinkedFrom
  <2> QED
    BY <2>1, <2>2, <1>2
<1> QED
  BY <1>3, <1>4, <1>5 DEF LinkedFrom, n
-----------------------------------------------------------------------------
(* What the steps of the walk do to the stack                              *)

LEMMA ArriveFacts ==
  ASSUME NEW p \in Programs, NEW d \in DOMAIN p.kind, p.parent[d] = NoCursor,
         NEW todo, TodoFits(p, todo, d), todo # <<>>, NEW s, StackGood(p, s)
  PROVE  /\ todo[1] \in DOMAIN p.kind /\ p.parent[todo[1]] # NoCursor
         /\ p.parent[todo[1]] \in DOMAIN p.kind /\ 1 \in DOMAIN todo
         /\ s \in Seq(DOMAIN p.kind) /\ Len(s) \in Nat /\ (s # <<>> => Len(s) \in 1..Len(s))
         /\ \A k \in 1..Len(s) : s[k] \in DOMAIN p.kind
<1>1. s \in Seq(DOMAIN p.kind)
  BY DEF StackGood
<1>2. /\ Len(s) \in Nat /\ (s # <<>> => Len(s) \in 1..Len(s))
      /\ \A k \in 1..Len(s) : s[k] \in DOMAIN p.kind
  BY <1>1, LenProperties
<1>3. Len(todo) \in Nat \ {0} /\ DOMAIN todo = 1..Len(todo)
  BY TodoFacts
<1>4. 1 \in DOMAIN todo
  BY <1>3
<1> QED
  BY <1>1, <1>2, <1>4, TodoFacts

LEMMA PushPlaces ==
  ASSUME NEW p \in Programs, NEW d \in DOMAIN p.kind, p.parent[d] = NoCursor,
         NEW todo, TodoFits(p, todo, d), todo # <<>>, NEW s, StackGood(p, s),
         NEW last, Fresh(p, s, last, todo, d) \/ Between(p, s, last, todo),
         NEW c, c = todo[1], last \in {NoCursor, p.parent[c]}, NEW t, t = Append(s, p.parent[c])
  PROVE  StackGood(p, t) /\ PlacedAt(p, t, c)
<1> DEFINE b == p.parent[c]
<1>1. /\ c \in DOMAIN p.kind /\ b # NoCursor /\ b \in DOMAIN p.kind /\ 1 \in DOMAIN todo
      /\ s \in Seq(DOMAIN p.kind) /\ Len(s) \in Nat /\ (s # <<>> => Len(s) \in 1..Len(s))
      /\ p.parent[d] = NoCursor /\ t = Append(s, b)
      /\ NoCursor \notin DOMAIN p.kind
  BY ArriveFacts, TreeFacts
<1> HIDE DEF b
<1>2. /\ Len(t) = Len(s) + 1 /\ t # <<>> /\ t[Len(t)] = b /\ t[Len(s) + 1] = b
      /\ \A i \in 1..Len(s) : t[i] = s[i]
  BY <1>1, AppendIs
<1>3. \/ s = <<>> /\ b = d
      \/ last = b /\ p.parent[b] # NoCursor /\ Between(p, s, last, todo)
  <2>1. CASE Fresh(p, s, last, todo, d)
    <3>1. b = d
      BY <2>1, <1>1 DEF Fresh, b
    <3>2. s = <<>>
      BY <2>1, <3>1, <1>1 DEF Fresh, b
    <3> QED
      BY <3>1, <3>2
  <2>2. CASE Between(p, s, last, todo)
    BY <2>2, <1>1 DEF Between, b
  <2> QED
    BY <2>1, <2>2
<1>4. /\ p.parent[b] = NoCursor => s = <<>>
      /\ s # <<>> => Linked(p, s[Len(s)], b)
      /\ /\ p.kind[b] # "Call" /\ FirstKid(p, b) /\ p.parent[p.parent[b]] # NoCursor
         => s # <<>> /\ s[Len(s)] = p.parent[b]
      /\ \A k \in 1..Len(s) : ~LastKid(p, s[k]) => LinkedFrom(p, s, k)
  <2>1. CASE s = <<>> /\ b = d
    <3>1. Len(s) = 0
      BY <2>1
    <3> QED
      BY <2>1, <3>1, <1>1 DEF FirstKid
  <2>2. CASE last = b /\ p.parent[b] # NoCursor /\ Between(p, s, last, todo)
    <3>1. /\ s # <<>> => s[Len(s)] \in {p.parent[b], b}
          /\ p.kind[b] # "Call" => PlacedAt(p, s, b)
          /\ \A k \in 1..Len(s) : ~LastKid(p, s[k]) => LinkedFrom(p, s, k)
      BY <2>2, <1>1 DEF Between, b
    <3>2. p.parent[b] \in p.ancestors[b]
      BY <2>2, <1>1, TreeFacts
    <3>3. s # <<>> => Linked(p, s[Len(s)], b)
      BY <3>1, <3>2 DEF Linked
    <3> QED
      BY <2>2, <3>1, <3>3 DEF PlacedAt
  <2> QED
    BY <1>3, <2>1, <2>2
<1>5. StackGood(p, t)
  BY <1>1, <1>4, StackAppend
<1>6. ASSUME NEW k \in 1..Len(t), ~LastKid(p, t[k])
      PROVE  LinkedFrom(p, t, k)
  <2>1. k <= Len(s) => LinkedFrom(p, s, k)
    <3>1. k <= Len(s) => k \in 1..Len(s)
      BY <1>1
    <3> QED
      BY <3>1, <1>2, <1>4, <1>6
  <2> QED
    BY <2>1, <1>1, <1>4, LinkedAppend
<1> QED
  BY <1>2, <1>5, <1>6 DEF PlacedAt, b

LEMMA PopKeeps ==
  ASSUME NEW p \in Programs, NEW s, StackGood(p, s), s # <<>>,
         NEW d, NEW todo, todo # <<>>, NEW last,
         Fresh(p, s, last, todo, d) \/ Between(p, s, last, todo),
         last \notin {NoCursor, p.parent[todo[1]]}, s[Len(s)] # p.parent[todo[1]],
         NEW t, t = Front(s)
  PROVE  /\ StackGood(p, t)
         /\ Fresh(p, t, last, todo, d) \/ Between(p, t, last, todo)
<1>1. /\ StackGood(p, t)
      /\ \A k \in 1..Len(t) : k \in 1..Len(s) /\ t[k] = s[k]
      /\ \A k \in 1..Len(t) : LinkedFrom(p, s, k) => LinkedFrom(p, t, k)
  BY StackFront
<1>2. CASE Fresh(p, s, last, todo, d)
  BY <1>1, <1>2 DEF Fresh
<1>3. CASE Between(p, s, last, todo)
  <2>1. \A k \in 1..Len(t) : ~LastKid(p, t[k]) =>
          /\ LinkedFrom(p, t, k)
          /\ \E j \in DOMAIN todo : todo[j] = LastChild(p, p.parent[t[k]])
    BY <1>1, <1>3 DEF Between
  <2> QED
    BY <2>1, <1>1, <1>3 DEF Between
<1> QED
  BY <1>1, <1>2, <1>3

LEMMA SettlePlaces ==
  ASSUME NEW p \in Programs, NEW d \in DOMAIN p.kind, p.parent[d] = NoCursor,
         NEW todo, TodoFits(p, todo, d), todo # <<>>, NEW s, StackGood(p, s),
         NEW last, Fresh(p, s, last, todo, d) \/ Between(p, s, last, todo),
         NEW c, c = todo[1], last \notin {NoCursor, p.parent[c]},
         s # <<>> => s[Len(s)] = p.parent[c]
  PROVE  PlacedAt(p, s, c)
<1>1. /\ c \in DOMAIN p.kind /\ p.parent[c] # NoCursor /\ 1 \in DOMAIN todo
      /\ Len(s) \in Nat /\ (s # <<>> => Len(s) \in 1..Len(s))
  BY ArriveFacts
<1>2. CASE Fresh(p, s, last, todo, d)
  <2>1. p.parent[c] = d
    BY <1>1, <1>2 DEF Fresh
  <2>2. ASSUME NEW k \in 1..Len(s) PROVE LastKid(p, s[k])
    <3>1. s # <<>>
      BY <2>2
    <3>2. Len(s) \in 1..Len(s) /\ p.parent[s[Len(s)]] = NoCursor
      BY <2>1, <3>1, <1>1
    <3>3. Len(s) = 1
      BY <3>2 DEF StackGood
    <3>4. k = Len(s)
      BY <3>3
    <3> QED
      BY <3>2, <3>4 DEF LastKid
  <2> QED
    BY <2>1, <2>2, <1>1 DEF PlacedAt
<1>3. CASE Between(p, s, last, todo)
  <2>1. s = <<>> => Len(s) = 0
    OBVIOUS
  <2> QED
    BY <2>1, <1>1, <1>3 DEF Between, PlacedAt
<1> QED
  BY <1>2, <1>3

LEMMA VisitLeaves ==
  ASSUME NEW p \in Programs, NEW d, NEW todo, TodoFits(p, todo, d), todo # <<>>,
         NEW s, StackGood(p, s), NEW c, c = todo[1], PlacedAt(p, s, c),
         NEW t, t = After(p, todo)
  PROVE  Between(p, s, c, t)
<1>1. /\ c \in DOMAIN p.kind /\ p.parent[c] # NoCursor
      /\ \A k \in DOMAIN p.kids[c] : \E j \in DOMAIN t : t[j] = p.kids[c][k]
      /\ \A x \in p.ancestors[c] \cup {c} :
           LastKid(p, x) \/ \E j \in DOMAIN t : t[j] = LastChild(p, p.parent[x])
      /\ t # <<>> /\ FirstKid(p, t[1]) => p.parent[t[1]] = c
  BY AfterFacts
<1>2. ASSUME NEW k \in 1..Len(s), ~LastKid(p, s[k])
      PROVE  /\ LinkedFrom(p, s, k)
             /\ \E j \in DOMAIN t : t[j] = LastChild(p, p.parent[s[k]])
  <2>1. LinkedFrom(p, s, k)
    BY <1>2 DEF PlacedAt
  <2>2. s[k] \in p.ancestors[c]
    BY <2>1, <1>1, PlacedAbove
  <2> QED
    BY <2>1, <2>2, <1>1, <1>2
<1>3. s # <<>> => s[Len(s)] = p.parent[c]
  BY DEF PlacedAt
<1> QED
  BY <1>1, <1>2, <1>3 DEF Between

LEMMA CallLeaves ==
  ASSUME NEW p \in Programs, NEW d, NEW todo, TodoFits(p, todo, d), todo # <<>>,
         NEW s, StackGood(p, s), NEW c, c = todo[1], p.kind[c] = "Call", PlacedAt(p, s, c),
         NEW t, t = After(p, todo), NEW u, u = Append(s, c)
  PROVE  StackGood(p, u) /\ Between(p, u, c, t)
<1>1. /\ c \in DOMAIN p.kind /\ p.parent[c] # NoCursor
      /\ \A k \in DOMAIN p.kids[c] : \E j \in DOMAIN t : t[j] = p.kids[c][k]
      /\ \A x \in p.ancestors[c] \cup {c} :
           LastKid(p, x) \/ \E j \in DOMAIN t : t[j] = LastChild(p, p.parent[x])
      /\ t # <<>> /\ FirstKid(p, t[1]) => p.parent[t[1]] = c
  BY AfterFacts
<1>2. s # <<>> => Linked(p, s[Len(s)], c)
  <2>1. p.parent[c] \in p.ancestors[c]
    BY <1>1, TreeFacts
  <2> QED
    BY <2>1 DEF PlacedAt, Linked
<1>3. StackGood(p, u)
  BY <1>1, <1>2, StackAppend
<1>4. /\ s \in Seq(DOMAIN p.kind) /\ Len(s) \in Nat
      /\ Len(u) = Len(s) + 1 /\ u # <<>> /\ u[Len(u)] = c /\ u[Len(s) + 1] = c
      /\ \A i \in 1..Len(s) : u[i] = s[i]
  <2>1. s \in Seq(DOMAIN p.kind)
    BY DEF StackGood
  <2> QED
    BY <1>1, <2>1, AppendIs
<1>5. ASSUME NEW k \in 1..Len(u), ~LastKid(p, u[k])
      PROVE  /\ LinkedFrom(p, u, k)
             /\ \E j \in DOMAIN t : t[j] = LastChild(p, p.parent[u[k]])
  <2>1. CASE k \in 1..Len(s)
    <3>1. LinkedFrom(p, s, k) /\ u[k] = s[k]
      BY <2>1, <1>4, <1>5 DEF PlacedAt
    <3>2. s[k] \in p.ancestors[c]
      BY <2>1, <3>1, <1>1, PlacedAbove
    <3>3. LinkedFrom(p, u, k)
      BY <3>1, <1>1, <1>2, <1>4, LinkedAppend
    <3> QED
      BY <3>1, <3>2, <3>3, <1>1, <1>5
  <2>2. CASE k \notin 1..Len(s)
    <3>1. k = Len(s) + 1 /\ ~(k <= Len(s))
      BY <2>2, <1>4
    <3>2. LinkedFrom(p, u, k)
      BY <3>1, <1>1, <1>2, <1>4, LinkedAppend
    <3> QED
      BY <3>1, <3>2, <1>1, <1>4, <1>5
  <2> QED
    BY <2>1, <2>2
<1> QED
  BY <1>1, <1>3, <1>4, <1>5 DEF Between

LEMMA EnterFresh ==
  ASSUME NEW p \in Programs, NEW d, NEW todo, TodoFits(p, todo, d), todo # <<>>,
         NEW c, c = todo[1], p.kind[c] = "Call", NEW t, t = After(p, todo),
         NEW fn \in DOMAIN p.body, NEW s
  PROVE  /\ Waits(p, t, c)
         /\ Fresh(p, s, c, p.kids[p.body[fn]], p.body[fn])
         /\ TodoFits(p, p.kids[p.body[fn]], p.body[fn])
<1>1. /\ c \in DOMAIN p.kind /\ p.parent[c] # NoCursor
      /\ \A x \in p.ancestors[c] \cup {c} :
           LastKid(p, x) \/ \E j \in DOMAIN t : t[j] = LastChild(p, p.parent[x])
      /\ t # <<>> /\ FirstKid(p, t[1]) => p.parent[t[1]] = c
  BY AfterFacts
<1>2. /\ p.body[fn] \in DOMAIN p.kind /\ p.parent[p.body[fn]] = NoCursor
      /\ p.kids[p.body[fn]] # <<>> /\ NoCursor \notin DOMAIN p.kind
  BY SyntaxFacts, TreeFacts
<1>3. /\ TodoFits(p, p.kids[p.body[fn]], p.body[fn])
      /\ \A j \in DOMAIN p.kids[p.body[fn]] : p.parent[p.kids[p.body[fn]][j]] = p.body[fn]
  BY <1>2, TodoFitsKids
<1>4. Waits(p, t, c)
  BY <1>1 DEF Waits
<1>5. Fresh(p, s, c, p.kids[p.body[fn]], p.body[fn])
  BY <1>1, <1>2, <1>3 DEF Fresh
<1> QED
  BY <1>3, <1>4, <1>5

(* The function called has been visited.                                   *)
LEMMA LeaveCalls ==
  ASSUME NEW p \in Programs, NEW s, StackGood(p, s), NEW last,
         Between(p, s, last, <<>>), NEW d, NEW todo, TodoFits(p, todo, d),
         NEW call, Waits(p, todo, call), NEW u, u = Append(s, call)
  PROVE  StackGood(p, u) /\ Between(p, u, last, todo)
<1>1. /\ last \in DOMAIN p.kind /\ p.parent[last] # NoCursor /\ DOMAIN p.kids[last] = {}
      /\ \A k \in 1..Len(s) : LastKid(p, s[k])
      /\ call \in DOMAIN p.kind /\ p.kind[call] = "Call" /\ p.parent[call] # NoCursor
  BY DEF Between, Waits
<1>2. StackGood(p, u)
  BY <1>1, StackAppend
<1>3. /\ s \in Seq(DOMAIN p.kind) /\ Len(s) \in Nat
      /\ Len(u) = Len(s) + 1 /\ u # <<>> /\ u[Len(u)] = call /\ u[Len(s) + 1] = call
      /\ \A i \in 1..Len(s) : u[i] = s[i]
  <2>1. s \in Seq(DOMAIN p.kind)
    BY DEF StackGood
  <2> QED
    BY <1>1, <2>1, AppendIs
<1>4. ASSUME NEW k \in 1..Len(u), ~LastKid(p, u[k])
      PROVE  /\ LinkedFrom(p, u, k)
             /\ \E j \in DOMAIN todo : todo[j] = LastChild(p, p.parent[u[k]])
  <2>1. k \notin 1..Len(s)
    BY <1>1, <1>3, <1>4
  <2>2. k = Len(s) + 1
    BY <2>1, <1>3
  <2>3. LinkedFrom(p, u, k)
    BY <2>2, <1>3 DEF LinkedFrom
  <2> QED
    BY <2>2, <2>3, <1>3, <1>4 DEF Waits
<1>5. ASSUME todo # <<>> PROVE last # p.parent[todo[1]]
  <2>1. todo[1] \in DOMAIN p.kind /\ p.parent[todo[1]] # NoCursor
    <3>1. Len(todo) \in Nat \ {0} /\ DOMAIN todo = 1..Len(todo)
      BY <1>5, TodoFacts
    <3>2. 1 \in DOMAIN todo
      BY <3>1
    <3> QED
      BY <3>2, <1>5, TodoFacts
  <2>2. DOMAIN p.kids[p.parent[todo[1]]] # {}
    BY <2>1, TreeFacts
  <2> QED
    BY <2>2, <1>1
<1> QED
  BY <1>1, <1>2, <1>3, <1>4, <1>5 DEF Between, Waits
-----------------------------------------------------------------------------
(* The frames                                                              *)

LEMMA GoOnCalls ==
  ASSUME ScalarsGood, FramesGood, phase = "visit", Top.todo # <<>>
  PROVE  \A n \in 1..Len(frames) : GoOn[n].call = frames[n].call
<1> DEFINE S == FrameSet(program)
           top == [Top EXCEPT !.todo = Recurse]
<1>1. /\ frames \in Seq(S) /\ Len(frames) > 0 /\ Len(frames) \in Nat
  BY LenProperties DEF FramesGood
<1>2. Top \in S /\ Top = frames[Len(frames)]
  BY <1>1 DEF Top, Last
<1>3. top \in S /\ top.call = Top.call
  BY <1>2, HereFacts DEF FrameSet, Cursors
<1>4. GoOn = [frames EXCEPT ![Len(frames)] = top]
  BY <1>2 DEF GoOn
<1> HIDE DEF S, top
<1>5. \A n \in 1..Len(frames) : GoOn[n] = IF n = Len(frames) THEN top ELSE frames[n]
  BY <1>1, <1>3, <1>4, ExceptSeq
<1> QED
  BY <1>2, <1>3, <1>5

LEMMA BodyFacts ==
  ASSUME ScalarsGood, NEW fn \in DOMAIN program.body
  PROVE  /\ program \in Programs /\ program.body[fn] \in DOMAIN program.kind
         /\ program.parent[program.body[fn]] = NoCursor
BY SyntaxFacts DEF ScalarsGood

LEMMA WalkFacts ==
  ASSUME TInv, phase = "visit", FramesFit
  PROVE  /\ program \in Programs /\ Len(frames) \in Nat \ {0}
         /\ current \in DOMAIN infos /\ infos[current].fn \in DOMAIN program.body
         /\ Top = frames[Len(frames)] /\ Top.info = current
         /\ TodoFits(program, Top.todo, Body(current))
         /\ Body(current) \in DOMAIN program.kind /\ program.parent[Body(current)] = NoCursor
         /\ Top.todo # <<>> =>
              /\ Here = Top.todo[1] /\ Recurse = After(program, Top.todo)
              /\ Here \in DOMAIN program.kind /\ 1 \in DOMAIN Top.todo
<1>1. /\ program \in Programs /\ Len(frames) \in Nat \ {0} /\ current \in DOMAIN infos
      /\ Top = frames[Len(frames)] /\ Top.info = current
  BY VisitFacts DEF TInv, ScalarsGood, Top, Last
<1>2. Len(frames) \in 1..Len(frames)
  BY <1>1
<1>3. /\ infos[current].fn \in DOMAIN program.body
      /\ TodoFits(program, Top.todo, Body(current))
  BY <1>1, <1>2 DEF FramesFit
<1>4. Body(current) \in DOMAIN program.kind /\ program.parent[Body(current)] = NoCursor
  BY <1>1, <1>3, BodyFacts DEF TInv, Body
<1>5. ASSUME Top.todo # <<>>
      PROVE  /\ Here = Top.todo[1] /\ Recurse = After(program, Top.todo)
             /\ Here \in DOMAIN program.kind /\ 1 \in DOMAIN Top.todo
  <2>1. /\ Len(Top.todo) \in Nat \ {0} /\ DOMAIN Top.todo = 1..Len(Top.todo)
        /\ Head(Top.todo) = Top.todo[1]
        /\ \A j \in DOMAIN Top.todo : Top.todo[j] \in DOMAIN program.kind
    BY <1>1, <1>3, <1>5, TodoFacts
  <2>2. 1 \in DOMAIN Top.todo
    BY <2>1
  <2> QED
    BY <2>1, <2>2 DEF Here, Recurse, After, Kids
<1> QED
  BY <1>1, <1>3, <1>4, <1>5

LEMMA FitsSame ==
  ASSUME TInv, phase = "visit", FramesFit, FnKept, UNCHANGED <<program, frames>>
  PROVE  FramesFit'
<1>1. \A m \in 1..Len(frames) : frames[m].info \in DOMAIN infos
  BY VisitFacts
<1>2. \A m \in 1..Len(frames) : infos'[frames[m].info].fn = infos[frames[m].info].fn
  BY <1>1 DEF FnKept
<1> QED
  BY <1>2 DEF FramesFit, Body

LEMMA FitsOn ==
  ASSUME TInv, phase = "visit", FramesFit, FnKept, Top.todo # <<>>, UNCHANGED program,
         frames' = GoOn
  PROVE  FramesFit' /\ Top'.todo = After(program, Top.todo) /\ Len(frames') = Len(frames)
<1>1. /\ Len(GoOn) = Len(frames) /\ Len(frames) \in Nat
      /\ \A n \in 1..Len(frames) :
           /\ GoOn[n].info = frames[n].info
           /\ GoOn[n].todo = IF n = Len(frames) THEN Recurse ELSE frames[n].todo
           /\ GoOn[n].call = frames[n].call
  BY GoOnFacts, GoOnCalls DEF TInv
<1>2. /\ program \in Programs /\ Len(frames) # 0 /\ Recurse = After(program, Top.todo)
      /\ TodoFits(program, Top.todo, Body(current))
      /\ Top = frames[Len(frames)] /\ Top.info = current
  BY WalkFacts
<1>3. \A m \in 1..Len(frames) : infos'[frames[m].info].fn = infos[frames[m].info].fn
  BY VisitFacts DEF FnKept
<1>4. Len(frames) \in 1..Len(frames)
  BY <1>1, <1>2
<1>5. TodoFits(program, Recurse, Body(current))
  BY <1>2, TodoFitsOn
<1>6. ASSUME NEW m \in 1..Len(frames')
      PROVE  /\ infos'[frames'[m].info].fn \in DOMAIN program.body
             /\ TodoFits(program, frames'[m].todo, Body(frames[m].info)')
  <2>1. /\ infos'[frames'[m].info].fn = infos[frames[m].info].fn
        /\ Body(frames[m].info)' = Body(frames[m].info)
    <3>1. m \in 1..Len(frames) /\ frames'[m].info = frames[m].info
      BY <1>1
    <3> QED
      BY <3>1, <1>3 DEF Body
  <2>2. m \in 1..Len(frames)
    BY <1>1
  <2> QED
    BY <2>1, <2>2, <1>1, <1>2, <1>5 DEF FramesFit
<1>7. ASSUME NEW m \in 2..Len(frames')
      PROVE  Waits(program, frames'[m - 1].todo, frames'[m].call)
  <2>1. m - 1 \in 1..Len(frames) /\ m - 1 # Len(frames) /\ m \in 1..Len(frames) /\ m \in 2..Len(frames)
    BY <1>1
  <2> QED
    BY <2>1, <1>1 DEF FramesFit
<1>8. Top'.todo = After(program, Top.todo)
  BY <1>1, <1>2, <1>4 DEF Top, Last
<1> QED
  BY <1>1, <1>6, <1>7, <1>8 DEF FramesFit

LEMMA FitsEnter ==
  ASSUME TInv, phase = "visit", FramesFit, FnKept, Top.todo # <<>>, UNCHANGED program,
         NEW fn \in DOMAIN program.body, Kind(Here) = "Call",
         frames' = Append(GoOn, Frame(Len(infos) + 1, Here, fn)),
         infos'[Len(infos) + 1].fn = fn
  PROVE  FramesFit' /\ Top'.todo = program.kids[program.body[fn]]
<1> DEFINE f == Frame(Len(infos) + 1, Here, fn)
           n == Len(frames)
<1>1. /\ GoOn \in Seq(FrameSet(program)) /\ Len(GoOn) = n /\ n \in Nat \ {0}
      /\ \A i \in 1..n :
           /\ GoOn[i].info = frames[i].info
           /\ GoOn[i].todo = IF i = n THEN Recurse ELSE frames[i].todo
           /\ GoOn[i].call = frames[i].call
  BY GoOnFacts, GoOnCalls, WalkFacts DEF TInv
<1>2. /\ program \in Programs /\ Recurse = After(program, Top.todo)
      /\ TodoFits(program, Top.todo, Body(current)) /\ Here = Top.todo[1]
      /\ Here \in DOMAIN program.kind
      /\ Top = frames[n] /\ Top.info = current
  BY WalkFacts
<1>3. \A m \in 1..n : infos'[frames[m].info].fn = infos[frames[m].info].fn
  BY VisitFacts DEF FnKept
<1>4. TodoFits(program, Recurse, Body(current))
  BY <1>1, <1>2, TodoFitsOn
<1>5. /\ Waits(program, Recurse, Here)
      /\ TodoFits(program, program.kids[program.body[fn]], program.body[fn])
  BY <1>2, EnterFresh DEF Kind
<1>6. /\ f \in FrameSet(program) /\ f.info = Len(infos) + 1 /\ f.call = Here
      /\ f.todo = program.kids[program.body[fn]]
  <2>1. /\ Kids(program.body[fn]) \in Seq(Cursors) /\ current \in Nat
        /\ Len(infos) + 1 \in Nat
    BY RootKids, CurrentIn, VisitFacts DEF TInv
  <2> QED
    BY <2>1, <1>2 DEF Frame, FrameSet, Cursors, Kids
<1>7. frames' = Append(GoOn, f)
  BY DEF f
<1> HIDE DEF f, n
<1>8. Len(frames') = n + 1 /\ frames'[n + 1] = f /\ \A i \in 1..n : frames'[i] = GoOn[i]
  BY <1>1, <1>6, <1>7, AppendIs
<1>9. ASSUME NEW m \in 1..Len(frames')
      PROVE  /\ infos'[frames'[m].info].fn \in DOMAIN program.body
             /\ TodoFits(program, frames'[m].todo, program.body[infos'[frames'[m].info].fn])
  <2>1. CASE m \in 1..n
    <3>1. frames'[m].info = frames[m].info
      BY <2>1, <1>1, <1>8
    <3>2. infos'[frames'[m].info].fn = infos[frames[m].info].fn
      BY <2>1, <3>1, <1>3
    <3>3. /\ infos[frames[m].info].fn \in DOMAIN program.body
          /\ TodoFits(program, frames[m].todo, program.body[infos[frames[m].info].fn])
      BY <2>1 DEF FramesFit, Body, n
    <3>4. CASE m = n
      <4>1. frames'[m].todo = Recurse /\ program.body[infos[frames[m].info].fn] = Body(current)
        BY <2>1, <3>4, <1>1, <1>2, <1>8 DEF Body
      <4> QED
        BY <3>2, <3>3, <4>1, <1>4
    <3>5. CASE m # n
      <4>1. frames'[m].todo = frames[m].todo
        BY <2>1, <3>5, <1>1, <1>8
      <4> QED
        BY <3>2, <3>3, <4>1
    <3> QED
      BY <3>4, <3>5
  <2>2. CASE m = n + 1
    <3>1. frames'[m] = f /\ infos'[f.info].fn = fn
      BY <2>2, <1>6, <1>8
    <3> QED
      BY <3>1, <1>5, <1>6
  <2> QED
    BY <2>1, <2>2, <1>1, <1>8
<1>10. ASSUME NEW m \in 2..Len(frames')
       PROVE  Waits(program, frames'[m - 1].todo, frames'[m].call)
  <2>1. CASE m \in 2..n
    <3>1. m - 1 \in 1..n /\ m - 1 # n /\ m \in 1..n
      BY <2>1, <1>1
    <3>2. Waits(program, frames[m - 1].todo, frames[m].call)
      BY <2>1 DEF FramesFit, n
    <3> QED
      BY <3>1, <3>2, <1>1, <1>8
  <2>2. CASE m = n + 1
    <3>1. m - 1 = n /\ n \in 1..n
      BY <2>2, <1>1
    <3>2. frames'[m - 1].todo = Recurse
      BY <3>1, <1>1, <1>8
    <3>3. frames'[m].call = Here
      BY <2>2, <1>6, <1>8
    <3> QED
      BY <3>2, <3>3, <1>5
  <2> QED
    BY <2>1, <2>2, <1>1, <1>8
<1>11. Top'.todo = program.kids[program.body[fn]]
  BY <1>6, <1>8 DEF Top, Last
<1> QED
  BY <1>9, <1>10, <1>11 DEF FramesFit, Body

LEMMA FitsLeave ==
  ASSUME TInv, phase = "visit", FramesFit, Len(frames) > 1, UNCHANGED <<program, infos>>,
         frames' = Front(frames), current' = Top.prev
  PROVE  /\ FramesFit' /\ Waits(program, Top'.todo, Top.call)
         /\ TodoFits(program, Top'.todo, Body(current)')
         /\ current' = frames[Len(frames) - 1].info
<1> DEFINE n == Len(frames)
<1>1. /\ frames \in Seq(FrameSet(program)) /\ n \in Nat /\ n > 1 /\ frames # <<>>
      /\ \A i \in 2..n : frames[i].prev = frames[i - 1].info
  <2>1. frames \in Seq(FrameSet(program)) /\ \A i \in 2..n : frames[i].prev = frames[i - 1].info
    BY DEF TInv, FramesGood
  <2>2. n \in Nat /\ frames # <<>>
    BY <2>1, LenProperties
  <2> QED
    BY <2>1, <2>2
<1>2. Len(frames') = n - 1 /\ \A i \in 1..(n - 1) : frames'[i] = frames[i]
  BY <1>1, FrontIs
<1>3. /\ Top = frames[n] /\ Top' = frames'[n - 1]
  BY <1>2 DEF Top, Last
<1> HIDE DEF n
<1>4. n - 1 \in 1..(n - 1) /\ n - 1 \in 1..n /\ n \in 2..n
  BY <1>1
<1>5. /\ \A m \in 1..n : /\ infos[frames[m].info].fn \in DOMAIN program.body
                         /\ TodoFits(program, frames[m].todo, program.body[infos[frames[m].info].fn])
      /\ \A m \in 2..n : Waits(program, frames[m - 1].todo, frames[m].call)
  BY DEF FramesFit, Body, n
<1>6. \A m \in 1..Len(frames') : m \in 1..n /\ frames'[m] = frames[m]
  BY <1>1, <1>2
<1>7. ASSUME NEW m \in 2..Len(frames')
      PROVE  m \in 2..n /\ frames'[m] = frames[m] /\ frames'[m - 1] = frames[m - 1]
  <2>1. m \in 2..n /\ m \in 1..(n - 1) /\ m - 1 \in 1..(n - 1)
    BY <1>1, <1>2
  <2> QED
    BY <2>1, <1>2
<1>8. FramesFit'
  BY <1>5, <1>6, <1>7 DEF FramesFit, Body
<1>9. Top' = frames[n - 1] /\ Waits(program, frames[n - 1].todo, Top.call)
  BY <1>2, <1>3, <1>4, <1>5
<1>10. current' = frames[n - 1].info
  BY <1>1, <1>3, <1>4
<1> QED
  BY <1>4, <1>5, <1>8, <1>9, <1>10 DEF Body, n

LEMMA FitsStart ==
  ASSUME ScalarsGood, NEW r, infos[r].fn \in DOMAIN program.body, StartRoot(r),
         UNCHANGED <<program, infos>>
  PROVE  FramesFit' /\ Top'.todo = program.kids[program.body[infos[r].fn]] /\ current' = r
<1> DEFINE b == program.body[infos[r].fn]
           f == Frame(r, NoCursor, infos[r].fn)
<1>1. f.info = r /\ f.todo = program.kids[b]
  BY DEF Frame, Kids
<1>2. TodoFits(program, program.kids[b], b)
  BY BodyFacts, TodoFitsKids
<1>3. frames' = <<f>> /\ current' = r
  BY DEF StartRoot
<1> HIDE DEF f, b
<1>4. Len(frames') = 1 /\ frames'[1] = f /\ Top' = f
  BY <1>3 DEF Top, Last
<1>5. FramesFit'
  BY <1>1, <1>2, <1>4 DEF FramesFit, Body, b
<1> QED
  BY <1>1, <1>3, <1>4, <1>5 DEF b
-----------------------------------------------------------------------------
(* The stack stays good                                                    *)

LEMMA StackWalk ==
  ASSUME TInv, WalkInv, PushParent \/ PopAncestor \/ Settle \/ MarkBranch, FnKept
  PROVE  WalkInv'
<1> DEFINE todo == Top.todo
           d == Body(current)
           s == ancestry_stack
           l == last_visited
<1>1. /\ phase = "visit" /\ todo # <<>> /\ UNCHANGED <<program, phase, frames, current>>
      /\ FramesFit /\ StackFits
  BY DEF WalkInv, PushParent, PopAncestor, Settle, MarkBranch, AtCursor
<1>2. /\ program \in Programs /\ TodoFits(program, todo, d)
      /\ d \in DOMAIN program.kind /\ program.parent[d] = NoCursor
      /\ Here = todo[1] /\ current \in DOMAIN infos
  BY <1>1, WalkFacts
<1>3. StackGood(program, s)
  BY <1>1 DEF StackFits
<1>4. FramesFit'
  BY <1>1, FitsSame
<1>5. Top' = Top /\ Here' = Here /\ Body(current)' = d
  BY <1>1, <1>2 DEF Top, Here, Body, FnKept
<1>6. CASE PushParent \/ PopAncestor \/ Settle
  <2>1. Fresh(program, s, l, todo, d) \/ Between(program, s, l, todo)
    BY <1>1, <1>6 DEF StackFits, PushParent, PopAncestor, Settle, AtCursor
  <2>2. CASE PushParent
    <3>1. /\ ancestry_stack' = Append(s, program.parent[Here]) /\ last_visited' = Here
          /\ step' = "branch" /\ l \in {NoCursor, program.parent[Here]}
      BY <2>2 DEF PushParent, Descends, Parent
    <3> HIDE DEF todo, d, s, l
    <3>2. StackGood(program, ancestry_stack') /\ PlacedAt(program, ancestry_stack', Here)
      BY <1>1, <1>2, <1>3, <2>1, <3>1, PushPlaces
    <3> QED
      BY <1>1, <1>4, <1>5, <3>1, <3>2 DEF WalkInv, StackFits, todo
  <2>3. CASE PopAncestor
    <3>1. /\ ancestry_stack' = Front(s) /\ last_visited' = l /\ step' = "arrive"
          /\ l \notin {NoCursor, program.parent[todo[1]]}
          /\ s # <<>> /\ s[Len(s)] # program.parent[todo[1]]
      BY <2>3, <1>2 DEF PopAncestor, Descends, Settled, Parent, Last, AtCursor
    <3> HIDE DEF todo, d, s, l
    <3>2. /\ StackGood(program, ancestry_stack')
          /\ Fresh(program, ancestry_stack', l, todo, d) \/ Between(program, ancestry_stack', l, todo)
      BY <1>1, <1>2, <1>3, <2>1, <3>1, PopKeeps
    <3> QED
      BY <1>1, <1>4, <1>5, <3>1, <3>2 DEF WalkInv, StackFits, todo
  <2>4. CASE Settle
    <3>1. /\ ancestry_stack' = s /\ last_visited' = Here /\ step' = "branch"
          /\ l \notin {NoCursor, program.parent[Here]}
          /\ s # <<>> => s[Len(s)] = program.parent[Here]
      BY <2>4 DEF Settle, Descends, Settled, Parent, Last
    <3> HIDE DEF todo, d, s, l
    <3>2. PlacedAt(program, s, Here)
      BY <1>1, <1>2, <1>3, <2>1, <3>1, SettlePlaces
    <3> QED
      BY <1>1, <1>3, <1>4, <1>5, <3>1, <3>2 DEF WalkInv, StackFits, todo
  <2> QED
    BY <1>6, <2>2, <2>3, <2>4
<1>7. CASE MarkBranch
  <2>1. step = "branch" /\ step' = "cursor" /\ UNCHANGED <<ancestry_stack, last_visited>>
    BY <1>7 DEF MarkBranch, AtCursor
  <2> QED
    BY <1>1, <1>4, <1>5, <2>1 DEF WalkInv, StackFits
<1> QED
  BY <1>1, <1>6, <1>7 DEF MarkBranch

(* A cursor has been visited, and no function with a body was called.      *)
LEMMA VisitWalk ==
  ASSUME TInv, WalkInv, AtCursor("cursor"), FnKept, UNCHANGED <<program, phase, current, last_visited>>,
         frames' = GoOn, step' = "arrive",
         \/ ancestry_stack' = ancestry_stack
         \/ Kind(Here) = "Call" /\ ancestry_stack' = Append(ancestry_stack, Here)
  PROVE  /\ WalkInv'
         /\ Between(program, ancestry_stack', Here, Top'.todo)
<1> DEFINE todo == Top.todo
           d == Body(current)
           s == ancestry_stack
<1>1. /\ phase = "visit" /\ todo # <<>> /\ FramesFit /\ StackFits /\ step = "cursor"
  BY DEF WalkInv, AtCursor
<1>2. /\ program \in Programs /\ TodoFits(program, todo, d) /\ Here = todo[1]
  BY <1>1, WalkFacts
<1>3. StackGood(program, s) /\ PlacedAt(program, s, Here) /\ last_visited = Here
  BY <1>1 DEF StackFits
<1>4. FramesFit' /\ Top'.todo = After(program, todo)
  BY <1>1, FitsOn
<1> DEFINE t == After(program, todo)
<1> HIDE DEF todo, d, s, t
<1>5. StackGood(program, ancestry_stack') /\ Between(program, ancestry_stack', Here, t)
  <2>1. CASE ancestry_stack' = s
    BY <2>1, <1>1, <1>2, <1>3, VisitLeaves DEF t
  <2>2. CASE program.kind[Here] = "Call" /\ ancestry_stack' = Append(s, Here)
    BY <2>2, <1>1, <1>2, <1>3, CallLeaves DEF t
  <2> QED
    BY <2>1, <2>2 DEF s, Kind
<1>6. StackFits'
  BY <1>3, <1>4, <1>5 DEF StackFits, t
<1> QED
  BY <1>1, <1>3, <1>4, <1>5, <1>6 DEF WalkInv, t

LEMMA EnterWalk ==
  ASSUME TInv, WalkInv, EnterCallee, FnKept, infos'[Len(infos) + 1].fn = Sym(Here)
  PROVE  WalkInv' /\ Fresh(program, ancestry_stack', last_visited', Top'.todo, Body(current)')
<1>1. /\ phase = "visit" /\ Top.todo # <<>> /\ FramesFit /\ StackFits /\ step = "cursor"
      /\ step' = "arrive" /\ UNCHANGED <<program, phase, ancestry_stack, last_visited>>
      /\ frames' = Append(GoOn, Frame(Len(infos) + 1, Here, Sym(Here)))
      /\ current' = Len(infos) + 1 /\ Kind(Here) = "Call"
  BY DEF WalkInv, AtCursor, EnterCallee, FirstCall
<1>2. Sym(Here) \in DOMAIN program.body
  BY DEF EnterCallee, External, Callee, FuncInfo, HasDefinition
<1>3. /\ program \in Programs /\ TodoFits(program, Top.todo, Body(current)) /\ Here = Top.todo[1]
  BY <1>1, WalkFacts
<1>4. StackGood(program, ancestry_stack) /\ last_visited = Here
  BY <1>1 DEF StackFits
<1>5. FramesFit' /\ Top'.todo = program.kids[program.body[Sym(Here)]]
  BY <1>1, <1>2, FitsEnter
<1>6. Body(current)' = program.body[Sym(Here)]
  BY <1>1 DEF Body
<1> DEFINE fn == Sym(Here)
           s == ancestry_stack
<1> HIDE DEF fn, s
<1>7. Fresh(program, s, Here, program.kids[program.body[fn]], program.body[fn])
  BY <1>1, <1>2, <1>3, EnterFresh DEF Kind, fn
<1> QED
  BY <1>1, <1>4, <1>5, <1>6, <1>7 DEF WalkInv, StackFits, fn, s

LEMMA LeaveWalk ==
  ASSUME TInv, WalkInv, LeaveCallee
  PROVE  WalkInv'
<1>1. /\ phase = "visit" /\ Top.todo = <<>> /\ FramesFit /\ StackFits /\ Len(frames) > 1
      /\ UNCHANGED <<program, infos, phase, step, last_visited>>
      /\ ancestry_stack' = Append(ancestry_stack, Top.call) /\ frames' = Front(frames)
      /\ current' = Top.prev
  BY DEF WalkInv, LeaveCallee
<1>2. program \in Programs
  BY <1>1, WalkFacts
<1>3. /\ StackGood(program, ancestry_stack) /\ step = "arrive"
      /\ Between(program, ancestry_stack, last_visited, <<>>)
  BY <1>1 DEF StackFits, Fresh
<1>4. /\ FramesFit' /\ Waits(program, Top'.todo, Top.call)
      /\ TodoFits(program, Top'.todo, Body(current)')
  BY <1>1, FitsLeave
<1> DEFINE todo == Top'.todo
           call == Top.call
           d == Body(current)'
<1> HIDE DEF todo, call, d
<1>5. /\ StackGood(program, ancestry_stack')
      /\ Between(program, ancestry_stack', last_visited, todo)
  BY <1>1, <1>2, <1>3, <1>4, LeaveCalls DEF todo, call, d
<1> QED
  BY <1>1, <1>3, <1>4, <1>5 DEF WalkInv, StackFits, todo
-----------------------------------------------------------------------------
(* What the steps of the visit do to the FuncInfos                         *)

Pushes(E) ==
  /\ DOMAIN infos' = DOMAIN infos /\ Len(infos') = Len(infos)
  /\ \A i \in DOMAIN infos :
       /\ infos'[i].fn = infos[i].fn /\ infos'[i].callees = infos[i].callees
       /\ infos'[i].in_system_header = infos[i].in_system_header
       /\ infos'[i].has_definition = infos[i].has_definition
       /\ i # current => infos'[i].accesses = infos[i].accesses
  /\ infos'[current].accesses = infos[current].accesses \o E

LEMMA PushPushes ==
  ASSUME TInv, phase = "visit", NEW E, Push(E)
  PROVE  Pushes(E)
<1>1. /\ InfosGood /\ current \in DOMAIN infos
      /\ Len(infos) \in Nat /\ DOMAIN infos = 1..Len(infos)
      /\ \A i \in DOMAIN infos : DOMAIN infos[i] = InfoFields
  BY VisitFacts DEF InfosGood, InfoGood
<1>2. infos' = [infos EXCEPT ![current].accesses = @ \o E]
  BY DEF Push
<1>3. DOMAIN infos' = 1..Len(infos) /\ infos' = [i \in 1..Len(infos) |-> infos'[i]]
  BY <1>1, <1>2
<1>4. Len(infos') = Len(infos)
  BY <1>1, <1>3, SeqMade
<1>5. /\ \A i \in DOMAIN infos : i # current => infos'[i] = infos[i]
      /\ infos'[current] = [infos[current] EXCEPT !.accesses = @ \o E]
  BY <1>1, <1>2
<1>6. /\ infos'[current].accesses = infos[current].accesses \o E
      /\ infos'[current].fn = infos[current].fn /\ infos'[current].callees = infos[current].callees
      /\ infos'[current].in_system_header = infos[current].in_system_header
      /\ infos'[current].has_definition = infos[current].has_definition
  BY <1>1, <1>5 DEF InfoFields
<1> QED
  BY <1>1, <1>3, <1>4, <1>5, <1>6 DEF Pushes

NoPush ==
  \/ UNCHANGED infos
  \/ \E v : \/ infos' = [infos EXCEPT ![current].locals = Append(@, v)]
            \/ infos' = [infos EXCEPT ![current].params = Append(@, v)]

LEMMA NonePushes ==
  ASSUME TInv, phase = "visit", NoPush
  PROVE  Pushes(<<>>)
<1>1. /\ InfosGood /\ current \in DOMAIN infos
      /\ Len(infos) \in Nat /\ DOMAIN infos = 1..Len(infos)
      /\ \A i \in DOMAIN infos : DOMAIN infos[i] = InfoFields
      /\ IsSeq(infos[current].accesses)
  BY VisitFacts DEF InfosGood, InfoGood
<1>2. infos[current].accesses \o <<>> = infos[current].accesses
  BY <1>1, ConcatNone
<1>3. CASE UNCHANGED infos
  BY <1>2, <1>3 DEF Pushes
<1>4. ASSUME NEW v, \/ infos' = [infos EXCEPT ![current].locals = Append(@, v)]
                    \/ infos' = [infos EXCEPT ![current].params = Append(@, v)]
      PROVE  Pushes(<<>>)
  <2>1. DOMAIN infos' = 1..Len(infos) /\ infos' = [i \in 1..Len(infos) |-> infos'[i]]
    BY <1>1, <1>4
  <2>2. Len(infos') = Len(infos)
    BY <1>1, <2>1, SeqMade
  <2>3. /\ \A i \in DOMAIN infos : i # current => infos'[i] = infos[i]
        /\ \/ infos'[current] = [infos[current] EXCEPT !.locals = Append(@, v)]
           \/ infos'[current] = [infos[current] EXCEPT !.params = Append(@, v)]
    BY <1>1, <1>4
  <2>4. /\ infos'[current].accesses = infos[current].accesses
        /\ infos'[current].fn = infos[current].fn /\ infos'[current].callees = infos[current].callees
        /\ infos'[current].in_system_header = infos[current].in_system_header
        /\ infos'[current].has_definition = infos[current].has_definition
    BY <1>1, <2>3 DEF InfoFields
  <2> QED
    BY <1>1, <1>2, <2>1, <2>2, <2>3, <2>4 DEF Pushes
<1> QED
  BY <1>3, <1>4 DEF NoPush

LEMMA StepPushes ==
  ASSUME TInv, phase = "visit"
  PROVE  /\ PushParent \/ Settle \/ VisitDecl \/ VisitOther \/ SkipCall => Pushes(<<>>)
         /\ PopAncestor => Pushes(Ended(Last(ancestry_stack)))
         /\ MarkBranch => Pushes(BranchMarkers)
         /\ VisitIf => Pushes(When(tracking, <<Marker("IfStmt")>>))
         /\ VisitVariable =>
              LET va == AccessEntry(ancestry_stack, Here)
              IN  Pushes(When(va.type # "None", <<va>>))
<1>1. ASSUME PushParent \/ Settle \/ VisitOther \/ SkipCall PROVE Pushes(<<>>)
  <2>1. NoPush
    BY <1>1 DEF PushParent, Settle, VisitOther, SkipCall, NoPush
  <2> QED
    BY <2>1, NonePushes
<1>2. ASSUME VisitDecl PROVE Pushes(<<>>)
  <2>1. NoPush
    BY <1>2 DEF VisitDecl, NoPush
  <2> QED
    BY <2>1, NonePushes
<1>3. PopAncestor => Pushes(Ended(Last(ancestry_stack)))
  BY PushPushes DEF PopAncestor
<1>4. MarkBranch => Pushes(BranchMarkers)
  BY PushPushes DEF MarkBranch
<1>5. VisitIf => Pushes(When(tracking, <<Marker("IfStmt")>>))
  BY PushPushes DEF VisitIf
<1>6. VisitVariable =>
        LET va == AccessEntry(ancestry_stack, Here)
        IN  Pushes(When(va.type # "None", <<va>>))
  BY PushPushes DEF VisitVariable
<1> QED
  BY <1>1, <1>2, <1>3, <1>4, <1>5, <1>6

LEMMA PushesFn ==
  ASSUME TInv, phase = "visit", NEW E, Pushes(E)
  PROVE  FnKept
BY VisitFacts DEF Pushes, FnKept

(* The FuncInfo of a callee is pushed.                                     *)
LEMMA CallFacts ==
  ASSUME TInv, CallExternal \/ EnterCallee
  PROVE  LET n == Len(infos)
         IN  /\ DOMAIN infos' = 1..(n + 1) /\ Len(infos') = n + 1 /\ FnKept
             /\ infos'[n + 1] = Callee(Sym(Here))
             /\ \A i \in DOMAIN infos :
                  /\ infos'[i].fn = infos[i].fn
                  /\ infos'[i].in_system_header = infos[i].in_system_header
                  /\ infos'[i].has_definition = infos[i].has_definition
                  /\ i # current => infos'[i] = infos[i]
             /\ infos'[current].accesses = Append(infos[current].accesses, CallEntry(Sym(Here)))
             /\ infos'[current].callees = Append(infos[current].callees, n + 1)
<1> DEFINE fn == Sym(Here)
           n == Len(infos)
           old == infos[current]
           new == [old EXCEPT !.callees = Append(@, n + 1), !.accesses = Append(@, CallEntry(fn))]
           mid == [infos EXCEPT ![current] = new]
<1>1. phase = "visit" /\ infos' = WithCallee
  BY DEF CallExternal, EnterCallee, FirstCall, AtCursor
<1>2. /\ InfosGood /\ CallsAligned /\ current \in DOMAIN infos
      /\ n \in Nat /\ DOMAIN infos = 1..n /\ DOMAIN old = InfoFields
  BY <1>1, VisitFacts DEF InfosGood, InfoGood
<1>3. FnKept /\ Len(infos') = n + 1
  BY <1>1, <1>2, CalleeStep DEF WithCallee
<1>4. Called(fn)
  BY <1>1 DEF Called, WithCallee
<1>5. /\ DOMAIN infos' = 1..(n + 1) /\ infos'[n + 1] = Callee(fn)
      /\ \A i \in 1..n : i # current => infos'[i] = infos[i]
      /\ infos'[current].accesses = Append(old.accesses, CallEntry(fn))
      /\ infos'[current].callees = Append(old.callees, n + 1)
  BY <1>2, <1>4, CalleeFacts
<1>6. infos'[current] = new
  <2>1. infos' = Append(mid, Callee(fn))
    BY <1>1 DEF WithCallee
  <2>2. DOMAIN mid = 1..n /\ mid = [i \in 1..n |-> mid[i]] /\ mid[current] = new
    BY <1>2
  <2> HIDE DEF mid
  <2>3. IsSeq(mid) /\ Len(mid) = n
    BY <2>2, <1>2, SeqMade
  <2>4. infos'[current] = mid[current]
    BY <2>1, <2>3, <1>2, SeqAppend
  <2> QED
    BY <2>2, <2>4
<1>7. /\ new.fn = old.fn /\ new.in_system_header = old.in_system_header
      /\ new.has_definition = old.has_definition
  BY <1>2 DEF InfoFields
<1> HIDE DEF fn, n, old, new
<1> QED
  BY <1>2, <1>3, <1>5, <1>6, <1>7 DEF fn, n, old

LEMMA VisitFn ==
  ASSUME TInv, \/ PushParent \/ PopAncestor \/ Settle \/ MarkBranch
               \/ VisitDecl \/ VisitIf \/ VisitVariable \/ VisitOther \/ SkipCall
               \/ CallExternal \/ EnterCallee
  PROVE  FnKept
<1>1. phase = "visit"
  BY DEF PushParent, PopAncestor, Settle, MarkBranch, Visit, VisitDecl, VisitIf, VisitVariable,
         VisitOther, SkipCall, CallExternal, EnterCallee, FirstCall, AtCursor
<1>2. CASE CallExternal \/ EnterCallee
  BY <1>2, CallFacts
<1>3. CASE ~(CallExternal \/ EnterCallee)
  <2>1. \E E : Pushes(E)
    BY <1>1, <1>3, StepPushes
  <2> QED
    BY <2>1, <1>1, PushesFn
<1> QED
  BY <1>2, <1>3

(* process_func_info of a root, with what an earlier one left behind.      *)
LEMMA StartWalk ==
  ASSUME TInv, WalkInv, RootsFound \/ LeaveRoot
  PROVE  WalkInv' /\ step' = "arrive"
         /\ Fresh(program, ancestry_stack', last_visited', Top'.todo, Body(current)')
<1>1. /\ ScalarsGood /\ program \in Programs /\ phase' = "visit"
      /\ UNCHANGED <<program, infos, ancestry_stack, last_visited, step>>
  BY DEF TInv, ScalarsGood, RootsFound, LeaveRoot
<1>2. PICK r : StartRoot(r) /\ infos[r].fn \in DOMAIN program.body
  <2>1. CASE RootsFound
    <3>1. 1 \in DOMAIN infos
      <4>1. DOMAIN infos = 1..Len(infos) /\ Len(infos) \in Nat /\ infos # <<>>
        BY <2>1, SeqIs DEF RootsFound, TInv, InfosGood
      <4>2. infos = [i \in 1..Len(infos) |-> infos[i]]
        BY SeqIs DEF TInv, InfosGood
      <4>3. Len(infos) # 0
        BY <4>1, <4>2
      <4> QED
        BY <4>1, <4>3
    <3> QED
      BY <2>1, <3>1 DEF RootsFound, TInv, RootsGood
  <2>2. CASE LeaveRoot
    <3>1. next + 1 \in 1..NumRoots
      BY <2>2, VisitFacts DEF LeaveRoot
    <3> QED
      BY <2>2, <3>1 DEF LeaveRoot, TInv, RootsGood
  <2> QED
    BY <2>1, <2>2
<1> DEFINE d == program.body[infos[r].fn]
           s == ancestry_stack
           l == last_visited
<1>3. /\ FramesFit' /\ Top'.todo = program.kids[d] /\ current' = r
  BY <1>1, <1>2, FitsStart
<1>4. /\ d \in DOMAIN program.kind /\ program.parent[d] = NoCursor
      /\ program.kids[d] # <<>>
  BY <1>1, <1>2, SyntaxFacts
<1>5. \A j \in DOMAIN program.kids[d] : program.parent[program.kids[d][j]] = d
  BY <1>1, <1>4, TodoFitsKids
<1>6. /\ step = "arrive" /\ StackGood(program, s)
      /\ l = NoCursor => s = <<>>
      /\ l # NoCursor => l \in DOMAIN program.kind /\ program.parent[l] # NoCursor
  <2>1. CASE RootsFound
    <3>1. s = <<>> /\ l = NoCursor /\ step = "arrive"
      BY <2>1 DEF WalkInv, RootsFound
    <3>2. Len(s) = 0 /\ s \in Seq(DOMAIN program.kind)
      BY <3>1
    <3> QED
      BY <3>1, <3>2 DEF StackGood
  <2>2. CASE LeaveRoot
    <3>1. StackFits /\ FramesFit /\ Top.todo = <<>>
      BY <2>2 DEF WalkInv, LeaveRoot
    <3>2. step = "arrive" /\ StackGood(program, s) /\ Between(program, s, l, <<>>)
      BY <3>1 DEF StackFits, Fresh
    <3>3. NoCursor \notin DOMAIN program.kind
      BY <1>1, TreeFacts
    <3> QED
      BY <3>2, <3>3 DEF Between
  <2> QED
    BY <2>1, <2>2
<1>7. Body(current)' = d
  BY <1>1, <1>3 DEF Body
<1> HIDE DEF d, s, l
<1>8. Fresh(program, s, l, program.kids[d], d)
  BY <1>4, <1>5, <1>6 DEF Fresh
<1> QED
  BY <1>1, <1>3, <1>6, <1>7, <1>8 DEF WalkInv, StackFits, s, l

LEMMA WalkInit ==
  ASSUME TInit
  PROVE  WalkInv
BY DEF TInit, WalkInv

LEMMA WalkStep ==
  ASSUME TInv, WalkInv, [TNext]_tvars
  PROVE  WalkInv'
<1>1. CASE CompareDefinition
  BY <1>1 DEF CompareDefinition, WalkInv, visitor
<1>2. CASE RootsFound \/ LeaveRoot
  BY <1>2, StartWalk
<1>3. CASE RootsMissing \/ LeaveLastRoot \/ Unwind \/ UnwindCrashes \/ Build
  BY <1>3 DEF RootsMissing, LeaveLastRoot, Unwind, UnwindCrashes, Build, WalkInv
<1>4. CASE PushParent \/ PopAncestor \/ Settle \/ MarkBranch
  BY <1>4, StackWalk, VisitFn
<1>5. CASE VisitDecl \/ VisitIf \/ VisitVariable \/ VisitOther \/ SkipCall \/ CallExternal
  <2>1. /\ AtCursor("cursor") /\ UNCHANGED <<program, phase, current, last_visited>>
        /\ frames' = GoOn /\ step' = "arrive"
        /\ \/ ancestry_stack' = ancestry_stack
           \/ Kind(Here) = "Call" /\ ancestry_stack' = Append(ancestry_stack, Here)
    BY <1>5 DEF VisitDecl, VisitIf, VisitVariable, VisitOther, Visit, SkipCall, CallExternal, FirstCall
  <2>2. FnKept
    BY <1>5, VisitFn
  <2> QED
    BY <2>1, <2>2, VisitWalk
<1>6. CASE EnterCallee
  <2>1. FnKept /\ infos'[Len(infos) + 1].fn = Sym(Here)
    BY <1>6, CallFacts DEF Callee, FuncInfo
  <2> QED
    BY <1>6, <2>1, EnterWalk
<1>7. CASE LeaveCallee
  BY <1>7, LeaveWalk
<1>8. CASE Stopped \/ UNCHANGED tvars
  <2>1. UNCHANGED <<program, phase, step, infos, frames, current, ancestry_stack, last_visited>>
    BY <1>8 DEF Stopped, tvars, visitor
  <2> QED
    BY <2>1 DEF WalkInv, FramesFit, StackFits, Body, Top, Here
<1> QED
  BY <1>1, <1>2, <1>3, <1>4, <1>5, <1>6, <1>7, <1>8 DEF TNext

LEMMA WalkAlways == TSpec => [](TInv /\ WalkInv)
BY TInvInit, TInvStep, WalkInit, WalkStep, PTL DEF TSpec
-----------------------------------------------------------------------------
(* The stack before the first call                                         *)

LEMMA LinkedAll ==
  ASSUME NEW p, NEW s, LinkedFrom(p, s, 1), NEW k \in 1..Len(s), Len(s) \in Nat
  PROVE  LinkedFrom(p, s, k)
<1>1. \A j \in k..(Len(s) - 1) : j \in 1..(Len(s) - 1)
  OBVIOUS
<1> QED
  BY <1>1 DEF LinkedFrom

(* The ancestors of cursor c, below d, are on the stack.                   *)
Holds(p, stack, c, d) ==
  LinkedFrom(p, stack, 1) /\ \A a \in p.ancestors[c] \ {d} : OnStack(stack, a)

LEMMA CoversPush ==
  ASSUME NEW p \in Programs, NEW d \in DOMAIN p.kind, p.parent[d] = NoCursor,
         NEW todo, TodoFits(p, todo, d), todo # <<>>, NEW s, StackGood(p, s),
         NEW last, Fresh(p, s, last, todo, d) \/ Between(p, s, last, todo),
         Fresh(p, s, last, todo, d) \/ Covers(p, s, last, todo, d),
         NEW c, c = todo[1], last \in {NoCursor, p.parent[c]}, NEW t, t = Append(s, p.parent[c])
  PROVE  Holds(p, t, c, d)
<1> SUFFICES LinkedFrom(p, t, 1) /\ \A a \in p.ancestors[c] \ {d} : OnStack(t, a)
  BY DEF Holds
<1> DEFINE b == p.parent[c]
<1>1. /\ c \in DOMAIN p.kind /\ b # NoCursor /\ b \in DOMAIN p.kind /\ 1 \in DOMAIN todo
      /\ s \in Seq(DOMAIN p.kind) /\ Len(s) \in Nat
      /\ t = Append(s, b) /\ NoCursor \notin DOMAIN p.kind
      /\ p.ancestors[c] = p.ancestors[b] \cup {b}
  BY ArriveFacts, TreeFacts
<1> HIDE DEF b
<1>10. s \in Seq(DOMAIN p.kind) /\ b \in DOMAIN p.kind /\ t = Append(s, b)
  BY <1>1
<1>2. /\ Len(t) = Len(s) + 1 /\ t # <<>> /\ t[Len(t)] = b /\ t[Len(s) + 1] = b
      /\ \A i \in 1..Len(s) : t[i] = s[i]
  BY <1>10, AppendIs
<1>3. OnStack(t, b)
  <2>1. Len(t) \in 1..Len(t)
    BY <1>1, <1>2
  <2> QED
    BY <2>1, <1>2 DEF OnStack
<1>4. CASE Fresh(p, s, last, todo, d)
  <2>1. b = d /\ s = <<>>
    BY <1>1, <1>4 DEF Fresh, b
  <2>2. Len(s) = 0
    BY <2>1
  <2>3. LinkedFrom(p, t, 1)
    BY <2>2, <1>2 DEF LinkedFrom
  <2>4. p.ancestors[c] \ {d} = {}
    BY <2>1, <1>1, TreeFacts
  <2> QED
    BY <2>3, <2>4
<1>5. CASE ~Fresh(p, s, last, todo, d)
  <2>1. last = b /\ Between(p, s, last, todo) /\ Covers(p, s, last, todo, d)
    BY <1>1, <1>5 DEF Between, b
  <2>2. s # <<>> => Linked(p, s[Len(s)], b)
    <3>1. p.parent[b] \in p.ancestors[b]
      BY <2>1, <1>1, TreeFacts DEF Between
    <3> QED
      BY <2>1, <3>1 DEF Between, Linked, b
  <2>3. LinkedFrom(p, t, 1)
    <3>1. 1 \in 1..Len(t)
      BY <1>1, <1>2
    <3> QED
      BY <2>1, <2>2, <3>1, <1>1, LinkedAppend DEF Covers
  <2>4. ASSUME NEW a \in p.ancestors[c] \ {d} PROVE OnStack(t, a)
    <3>1. OnStack(s, a) \/ a = b
      BY <2>1 DEF Covers
    <3>2. ASSUME OnStack(s, a) PROVE OnStack(t, a)
      <4>1. PICK k \in 1..Len(s) : s[k] = a
        BY <3>2 DEF OnStack
      <4>2. k \in 1..Len(t) /\ t[k] = a
        BY <4>1, <1>1, <1>2
      <4> QED
        BY <4>2 DEF OnStack
    <3> QED
      BY <3>1, <3>2, <1>3
  <2> QED
    BY <2>3, <2>4
<1> QED
  BY <1>4, <1>5

(* Only what is no ancestor of the next cursor is popped.                  *)
LEMMA CoversPop ==
  ASSUME NEW p \in Programs, NEW d \in DOMAIN p.kind, p.parent[d] = NoCursor,
         NEW todo, TodoFits(p, todo, d), todo # <<>>, NEW s, StackGood(p, s), s # <<>>,
         NEW last, Covers(p, s, last, todo, d),
         last \notin {NoCursor, p.parent[todo[1]]}, s[Len(s)] # p.parent[todo[1]],
         NEW t, t = Front(s)
  PROVE  Covers(p, t, last, todo, d)
<1> DEFINE c == todo[1]
           b == p.parent[c]
           n == Len(s)
           e == s[n]
<1>1. /\ c \in DOMAIN p.kind /\ b \in DOMAIN p.kind /\ 1 \in DOMAIN todo
      /\ s \in Seq(DOMAIN p.kind) /\ n \in 1..n /\ e \in DOMAIN p.kind
      /\ p.ancestors[c] = p.ancestors[b] \cup {b} /\ b \notin p.ancestors[b]
      /\ \A a \in p.ancestors[b] : p.ancestors[a] \subseteq p.ancestors[b]
  BY ArriveFacts, TreeFacts
<1>2. e # b /\ \A a \in p.ancestors[c] \ {d} : OnStack(s, a)
  BY DEF Covers
<1>3. p.ancestors[d] = {}
  BY TreeFacts
<1>4. /\ n \in Nat \ {0} /\ Len(t) = n - 1 /\ Len(t) \in Nat
      /\ \A i \in 1..Len(t) : t[i] = s[i]
  BY <1>1, FrontIs
<1>5. LinkedFrom(p, s, 1)
  BY DEF Covers
<1> HIDE DEF c, b, n, e
<1>6. e \notin p.ancestors[c] \ {d}
  <2> SUFFICES ASSUME e \in p.ancestors[c], e # d PROVE FALSE
    OBVIOUS
  <2>1. e \in p.ancestors[b]
    BY <1>1, <1>2
  <2>2. b # d
    BY <2>1, <1>3
  <2>3. PICK k \in 1..n : s[k] = b
    BY <2>2, <1>1, <1>2 DEF OnStack, n
  <2>4. Linked(p, b, e)
    <3>1. LinkedFrom(p, s, k) /\ n \in k..n
      BY <2>3, <1>4, <1>5, LinkedAll DEF n
    <3> QED
      BY <2>3, <3>1, <1>1, LinkedUp DEF n, e
  <2>5. b \in p.ancestors[e]
    BY <2>4, <1>2 DEF Linked
  <2> QED
    BY <2>1, <2>5, <1>1
<1>7. ASSUME NEW a \in p.ancestors[c] \ {d} PROVE OnStack(t, a)
  <2>1. PICK k \in 1..n : s[k] = a
    BY <1>2 DEF OnStack, n
  <2>2. k # n
    BY <2>1, <1>6, <1>7 DEF e
  <2>3. k \in 1..Len(t)
    BY <2>1, <2>2, <1>4
  <2> QED
    BY <2>1, <2>3, <1>4 DEF OnStack
<1>8. LinkedFrom(p, t, 1)
  <2>1. ASSUME NEW j \in 1..(Len(t) - 1) PROVE Linked(p, t[j], t[j + 1])
    <3>1. j \in 1..(n - 1) /\ j \in 1..Len(t) /\ j + 1 \in 1..Len(t)
      BY <1>4
    <3> QED
      BY <3>1, <1>4, <1>5 DEF LinkedFrom, n
  <2> QED
    BY <2>1 DEF LinkedFrom
<1> QED
  BY <1>7, <1>8 DEF Covers, c

LEMMA CoversSettle ==
  ASSUME NEW p \in Programs, NEW d \in DOMAIN p.kind, p.parent[d] = NoCursor,
         NEW todo, TodoFits(p, todo, d), todo # <<>>, NEW s, StackGood(p, s),
         NEW last, Fresh(p, s, last, todo, d) \/ Covers(p, s, last, todo, d),
         NEW c, c = todo[1], last \notin {NoCursor, p.parent[c]},
         s # <<>> => s[Len(s)] = p.parent[c]
  PROVE  LinkedFrom(p, s, 1) /\ \A a \in p.ancestors[c] \ {d} : OnStack(s, a)
<1>1. /\ c \in DOMAIN p.kind /\ p.parent[c] # NoCursor /\ 1 \in DOMAIN todo
      /\ p.parent[c] \in DOMAIN p.kind
      /\ Len(s) \in Nat /\ (s # <<>> => Len(s) \in 1..Len(s))
      /\ p.ancestors[c] = p.ancestors[p.parent[c]] \cup {p.parent[c]}
  BY ArriveFacts, TreeFacts
<1>2. CASE Fresh(p, s, last, todo, d)
  <2>1. p.parent[c] = d
    BY <1>1, <1>2 DEF Fresh
  <2>2. Len(s) \in {0, 1}
    <3>1. CASE s = <<>>
      BY <3>1
    <3>2. CASE s # <<>>
      BY <2>1, <3>2, <1>1 DEF StackGood
    <3> QED
      BY <3>1, <3>2
  <2>3. LinkedFrom(p, s, 1)
    BY <2>2 DEF LinkedFrom
  <2>4. p.ancestors[c] \ {d} = {}
    BY <2>1, <1>1, TreeFacts
  <2> QED
    BY <2>3, <2>4
<1>3. CASE Covers(p, s, last, todo, d)
  BY <1>3 DEF Covers
<1> QED
  BY <1>2, <1>3

LEMMA CoversOn ==
  ASSUME NEW p \in Programs, NEW d, NEW todo, TodoFits(p, todo, d), todo # <<>>,
         NEW s, StackGood(p, s), NEW c, c = todo[1], PlacedAt(p, s, c),
         LinkedFrom(p, s, 1), \A a \in p.ancestors[c] \ {d} : OnStack(s, a),
         NEW t, t = After(p, todo), NEW u, u = s \/ u = Append(s, c)
  PROVE  Covers(p, u, c, t, d)
<1>1. /\ c \in DOMAIN p.kind /\ p.parent[c] # NoCursor
      /\ t # <<>> => p.ancestors[t[1]] \subseteq p.ancestors[c] \cup {p.parent[t[1]]}
      /\ t # <<>> /\ p.parent[t[1]] # c => p.ancestors[t[1]] \subseteq p.ancestors[c]
      /\ s \in Seq(DOMAIN p.kind)
  <2>1. s \in Seq(DOMAIN p.kind)
    BY DEF StackGood
  <2> QED
    BY <2>1, AfterFacts
<1>2. /\ LinkedFrom(p, u, 1)
      /\ \A a : OnStack(s, a) => OnStack(u, a)
  <2>1. CASE u = Append(s, c)
    <3>1. /\ Len(u) = Len(s) + 1 /\ Len(s) \in Nat /\ \A i \in 1..Len(s) : u[i] = s[i]
      BY <2>1, <1>1, AppendIs
    <3>2. s # <<>> => Linked(p, s[Len(s)], c)
      <4>1. p.parent[c] \in p.ancestors[c]
        BY <1>1, TreeFacts
      <4> QED
        BY <4>1 DEF PlacedAt, Linked
    <3>3. 1 \in 1..Len(u)
      BY <3>1
    <3>4. LinkedFrom(p, u, 1)
      BY <2>1, <3>2, <3>3, <1>1, LinkedAppend
    <3>5. \A k \in 1..Len(s) : k \in 1..Len(u)
      BY <3>1
    <3> QED
      BY <3>1, <3>4, <3>5 DEF OnStack
  <2> QED
    BY <2>1
<1>3. ASSUME t # <<>>, NEW a \in p.ancestors[t[1]] \ {d}
      PROVE  OnStack(u, a) \/ (a = c /\ c = p.parent[t[1]])
  <2>1. CASE a \in p.ancestors[c]
    BY <2>1, <1>2, <1>3
  <2>2. CASE a \notin p.ancestors[c]
    BY <2>2, <1>1, <1>3
  <2> QED
    BY <2>1, <2>2
<1> QED
  BY <1>2, <1>3 DEF Covers

LEMMA CleanSame ==
  ASSUME TInv, phase = "visit", current' = current, NEW E, Pushes(E), Clean'
  PROVE  Clean
<1>1. /\ InfosGood /\ current \in DOMAIN infos
      /\ DOMAIN infos = 1..Len(infos) /\ Len(infos) \in Nat
      /\ infos[current].callees \in Seq((current + 1)..Len(infos)) /\ current \in 1..Len(infos)
  BY VisitFacts DEF InfosGood, InfoGood
<1>2. \A k \in DOMAIN infos[current].callees : infos[current].callees[k] \in DOMAIN infos
  <2>1. \A k \in DOMAIN infos[current].callees :
          infos[current].callees[k] \in (current + 1)..Len(infos)
    BY <1>1
  <2> QED
    BY <2>1, <1>1
<1>3. infos'[current].callees = infos[current].callees
  BY <1>1 DEF Pushes
<1>4. \A j \in DOMAIN infos : External(infos'[j]) = External(infos[j])
  BY DEF Pushes, External
<1> QED
  BY <1>2, <1>3, <1>4 DEF Clean

LEMMA CleanCall ==
  ASSUME TInv, CallExternal, Clean'
  PROVE  Clean
<1> DEFINE n == Len(infos)
           cs == infos[current].callees
<1>1. /\ phase = "visit" /\ current' = current
  BY DEF CallExternal, FirstCall, AtCursor
<1>2. /\ InfosGood /\ current \in DOMAIN infos /\ DOMAIN infos = 1..n /\ n \in Nat
      /\ cs \in Seq((current + 1)..n) /\ current \in 1..n
  BY <1>1, VisitFacts DEF InfosGood, InfoGood
<1>3. /\ \A i \in DOMAIN infos :
           /\ infos'[i].in_system_header = infos[i].in_system_header
           /\ infos'[i].has_definition = infos[i].has_definition
      /\ infos'[current].callees = Append(cs, n + 1)
  BY CallFacts
<1>4. \A j \in DOMAIN infos : External(infos'[j]) = External(infos[j])
  BY <1>3 DEF External
<1>5. ASSUME NEW k \in DOMAIN cs
      PROVE  cs[k] \in DOMAIN infos /\ k \in DOMAIN infos'[current].callees
             /\ infos'[current].callees[k] = cs[k]
  <2>1. cs[k] \in (current + 1)..n
    BY <1>2
  <2>2. cs[k] \in DOMAIN infos
    BY <2>1, <1>2
  <2> HIDE DEF cs
  <2>3. IsSeq(cs)
    BY <1>2, SeqTyped
  <2>4. /\ IsSeq(Append(cs, n + 1)) /\ Len(Append(cs, n + 1)) = Len(cs) + 1
        /\ \A i \in 1..Len(cs) : Append(cs, n + 1)[i] = cs[i]
    BY <2>3, SeqAppend
  <2>5. DOMAIN cs = 1..Len(cs) /\ DOMAIN Append(cs, n + 1) = 1..(Len(cs) + 1) /\ Len(cs) \in Nat
    BY <2>3, <2>4, SeqIs
  <2>6. k \in 1..Len(cs) /\ k \in 1..(Len(cs) + 1)
    BY <2>5
  <2> QED
    BY <2>2, <2>4, <2>5, <2>6, <1>3
<1> QED
  BY <1>1, <1>4, <1>5 DEF Clean

LEMMA ExactStep ==
  ASSUME TInv, WalkInv, InlineInv, ExactInv, [TNext]_tvars
  PROVE  ExactInv'
<1> DEFINE todo == Top.todo
           d == Body(current)
           s == ancestry_stack
           l == last_visited
<1>1. CASE CompareDefinition \/ RootsMissing \/ LeaveLastRoot \/ Unwind \/ UnwindCrashes \/ Build
  BY <1>1 DEF CompareDefinition, RootsMissing, LeaveLastRoot, Unwind, UnwindCrashes, Build, ExactInv
<1>2. CASE RootsFound \/ LeaveRoot
  <2>1. /\ step' = "arrive" /\ program' = program
        /\ Fresh(program, ancestry_stack', last_visited', Top'.todo, Body(current)')
    BY <1>2, StartWalk DEF RootsFound, LeaveRoot
  <2> QED
    BY <2>1 DEF ExactInv
<1>3. CASE EnterCallee
  <2>1. FnKept /\ infos'[Len(infos) + 1].fn = Sym(Here) /\ step' = "arrive" /\ program' = program
    BY <1>3, CallFacts DEF Callee, FuncInfo, EnterCallee, FirstCall
  <2>2. Fresh(program, ancestry_stack', last_visited', Top'.todo, Body(current)')
    BY <1>3, <2>1, EnterWalk
  <2> QED
    BY <2>1, <2>2 DEF ExactInv
<1>4. CASE LeaveCallee
  <2> DEFINE i == frames[Len(frames) - 1].info
             j == frames[Len(frames)].info
  <2>1. /\ phase = "visit" /\ UNCHANGED <<program, infos>> /\ frames' = Front(frames)
        /\ current' = Top.prev /\ Len(frames) > 1
    BY <1>4 DEF LeaveCallee
  <2>2. current' = i
    BY <2>1, FitsLeave DEF WalkInv
  <2>3. Len(frames) \in Nat /\ i \in DOMAIN infos
    <3>1. Len(frames) \in Nat /\ \A m \in 1..Len(frames) : frames[m].info \in DOMAIN infos
      BY <2>1, VisitFacts
    <3>2. Len(frames) - 1 \in 1..Len(frames)
      BY <2>1, <3>1
    <3> QED
      BY <3>1, <3>2
  <2>4. EndsIn(infos[i], j) /\ ~External(infos[j])
    <3>1. Len(frames) - 1 \in 1..(Len(frames) - 1) /\ Len(frames) \in 1..Len(frames)
          /\ (Len(frames) - 1) + 1 = Len(frames)
      BY <2>1, <2>3
    <3>2. Chain
      BY <2>1 DEF InlineInv
    <3> QED
      BY <3>1, <3>2 DEF Chain
  <2>5. Len(infos[i].callees) \in DOMAIN infos[i].callees
    <3>1. IsSeq(infos[i].callees)
      <4>1. infos[i].callees \in Seq((i + 1)..Len(infos))
        BY <2>3 DEF TInv, InfosGood, InfoGood
      <4> QED
        BY <4>1, SeqTyped
    <3>2. infos[i].callees # <<>>
      BY <2>4 DEF EndsIn
    <3> DEFINE cs == infos[i].callees
    <3> HIDE DEF cs
    <3>3. Len(cs) \in Nat /\ DOMAIN cs = 1..Len(cs) /\ cs = [k \in 1..Len(cs) |-> cs[k]]
      BY <3>1, SeqIs DEF cs
    <3>4. Len(cs) # 0
      BY <3>2, <3>3 DEF cs
    <3>5. Len(cs) \in DOMAIN cs
      BY <3>3, <3>4
    <3> QED
      BY <3>5 DEF cs
  <2>6. ~Clean'
    BY <2>1, <2>2, <2>4, <2>5 DEF Clean, EndsIn
  <2> QED
    BY <2>6 DEF ExactInv
<1>5. CASE \/ PushParent \/ PopAncestor \/ Settle \/ MarkBranch
           \/ VisitDecl \/ VisitIf \/ VisitVariable \/ VisitOther \/ SkipCall \/ CallExternal
  <2>1. /\ phase = "visit" /\ todo # <<>> /\ UNCHANGED <<program, phase, current>>
        /\ FramesFit /\ StackFits
    BY <1>5 DEF WalkInv, PushParent, PopAncestor, Settle, MarkBranch, Visit, VisitDecl, VisitIf,
                VisitVariable, VisitOther, SkipCall, CallExternal, FirstCall, AtCursor
  <2>2. /\ program \in Programs /\ TodoFits(program, todo, d)
        /\ d \in DOMAIN program.kind /\ program.parent[d] = NoCursor
        /\ Here = todo[1] /\ current \in DOMAIN infos
    BY <2>1, WalkFacts
  <2>3. StackGood(program, s)
    BY <2>1 DEF StackFits
  <2>4. FnKept
    BY <1>5, VisitFn
  <2>5. Body(current)' = d
    BY <2>1, <2>2, <2>4 DEF Body, FnKept
  <2>6. SUFFICES ASSUME Clean' PROVE ExactInv'
    BY DEF ExactInv
  <2>7. Clean
    <3>1. CASE CallExternal
      BY <3>1, <2>6, CleanCall
    <3>2. CASE ~CallExternal
      <4>1. \E E : Pushes(E)
        BY <2>1, <3>2, <1>5, StepPushes
      <4> QED
        BY <4>1, <2>1, <2>6, CleanSame
    <3> QED
      BY <3>1, <3>2
  <2>8. CASE PushParent \/ PopAncestor \/ Settle
    <3>1. step = "arrive" /\ frames' = frames
      BY <2>8 DEF PushParent, PopAncestor, Settle, AtCursor
    <3>2. Fresh(program, s, l, todo, d) \/ Between(program, s, l, todo)
      BY <3>1, <2>1 DEF StackFits
    <3>3. Fresh(program, s, l, todo, d) \/ Covers(program, s, l, todo, d)
      BY <3>1, <2>1, <2>7 DEF ExactInv
    <3>4. Top' = Top /\ Here' = Here
      BY <3>1 DEF Top, Here
    <3>5. CASE PushParent
      <4>1. /\ ancestry_stack' = Append(s, program.parent[Here]) /\ step' = "branch"
            /\ l \in {NoCursor, program.parent[Here]}
        BY <3>5 DEF PushParent, Descends, Parent
      <4> HIDE DEF todo, d, s, l
      <4>2. /\ LinkedFrom(program, ancestry_stack', 1)
            /\ \A a \in program.ancestors[Here] \ {d} : OnStack(ancestry_stack', a)
        <5> DEFINE t == ancestry_stack'
        <5>1. /\ program \in Programs /\ d \in DOMAIN program.kind /\ program.parent[d] = NoCursor
              /\ TodoFits(program, todo, d) /\ todo # <<>> /\ StackGood(program, s)
              /\ Fresh(program, s, l, todo, d) \/ Between(program, s, l, todo)
              /\ Fresh(program, s, l, todo, d) \/ Covers(program, s, l, todo, d)
              /\ Here = todo[1] /\ l \in {NoCursor, program.parent[Here]}
              /\ t = Append(s, program.parent[Here])
          BY <2>1, <2>2, <2>3, <3>2, <3>3, <4>1
        <5> HIDE DEF t
        <5>2. Holds(program, t, Here, d)
          BY <5>1, CoversPush
        <5> QED
          BY <5>2 DEF t, Holds
      <4> QED
        BY <2>1, <2>5, <3>4, <4>1, <4>2 DEF ExactInv, Ancestors
    <3>6. CASE PopAncestor
      <4>1. /\ ancestry_stack' = Front(s) /\ last_visited' = l /\ step' = "arrive"
            /\ l \notin {NoCursor, program.parent[todo[1]]}
            /\ s # <<>> /\ s[Len(s)] # program.parent[todo[1]]
        BY <3>6, <2>2 DEF PopAncestor, Descends, Settled, Parent, Last, AtCursor
      <4> HIDE DEF todo, d, s, l
      <4>2. \/ Fresh(program, ancestry_stack', l, todo, d)
            \/ Covers(program, ancestry_stack', l, todo, d)
        <5>1. CASE Fresh(program, s, l, todo, d)
          BY <5>1, <4>1 DEF Fresh
        <5>2. CASE Covers(program, s, l, todo, d)
          BY <5>2, <2>1, <2>2, <2>3, <4>1, CoversPop
        <5> QED
          BY <3>3, <5>1, <5>2
      <4> QED
        BY <2>1, <2>5, <3>4, <4>1, <4>2 DEF ExactInv, todo
    <3>7. CASE Settle
      <4>1. /\ ancestry_stack' = s /\ step' = "branch"
            /\ l \notin {NoCursor, program.parent[Here]}
            /\ s # <<>> => s[Len(s)] = program.parent[Here]
        BY <3>7 DEF Settle, Descends, Settled, Parent, Last
      <4> HIDE DEF todo, d, s, l
      <4>2. /\ LinkedFrom(program, s, 1)
            /\ \A a \in program.ancestors[Here] \ {d} : OnStack(s, a)
        BY <2>1, <2>2, <2>3, <3>3, <4>1, CoversSettle
      <4> QED
        BY <2>1, <2>5, <3>4, <4>1, <4>2 DEF ExactInv, Ancestors
    <3> QED
      BY <2>8, <3>5, <3>6, <3>7
  <2>9. CASE MarkBranch
    <3>1. /\ step = "branch" /\ step' = "cursor" /\ UNCHANGED <<ancestry_stack, last_visited, frames>>
      BY <2>9 DEF MarkBranch, AtCursor
    <3>2. Here' = Here
      BY <3>1 DEF Top, Here
    <3> QED
      BY <3>1, <3>2, <2>1, <2>5, <2>7 DEF ExactInv, Ancestors
  <2>10. CASE VisitDecl \/ VisitIf \/ VisitVariable \/ VisitOther \/ SkipCall \/ CallExternal
    <3>1. /\ AtCursor("cursor") /\ last_visited' = last_visited
          /\ frames' = GoOn /\ step' = "arrive"
          /\ \/ ancestry_stack' = s
             \/ ancestry_stack' = Append(s, Here)
      BY <2>10 DEF VisitDecl, VisitIf, VisitVariable, VisitOther, Visit, SkipCall, CallExternal, FirstCall
    <3>2. step = "cursor"
      BY <3>1 DEF AtCursor
    <3>3. /\ last_visited' = Here /\ PlacedAt(program, s, Here)
          /\ LinkedFrom(program, s, 1)
          /\ \A a \in program.ancestors[Here] \ {d} : OnStack(s, a)
      BY <2>1, <2>7, <3>1, <3>2 DEF StackFits, ExactInv, Ancestors
    <3>4. Top'.todo = After(program, todo)
      BY <2>1, <2>4, <3>1, FitsOn
    <3> DEFINE t == After(program, todo)
    <3> HIDE DEF todo, d, s, l, t
    <3>5. Covers(program, ancestry_stack', Here, t, d)
      BY <2>1, <2>2, <2>3, <3>1, <3>3, CoversOn DEF t
    <3> QED
      BY <2>1, <2>5, <3>1, <3>3, <3>4, <3>5 DEF ExactInv, t
  <2> QED
    BY <1>5, <2>8, <2>9, <2>10
<1>6. CASE Stopped \/ UNCHANGED tvars
  <2>1. UNCHANGED <<program, phase, step, infos, frames, current, ancestry_stack, last_visited>>
    BY <1>6 DEF Stopped, tvars, visitor
  <2> QED
    BY <2>1 DEF ExactInv, Clean, Body, Top, Here, Ancestors
<1> QED
  BY <1>1, <1>2, <1>3, <1>4, <1>5, <1>6 DEF TNext

(* Whatever the program: until the function visited has called one with a  *)
(* body, the stack that prong_visitor_walk_func pushes and pops by hand    *)
(* holds the ancestors of the cursor visited, all of them and nothing      *)
(* else, although it is not reset between functions and a cursor is pushed *)
(* only when its first child arrives.                                      *)
THEOREM StackIsAncestors == TSpec => []StackExact
<1>1. TInit => ExactInv
  BY DEF TInit, ExactInv
<1>2. TInv /\ WalkInv /\ ExactInv => StackExact
  <2> SUFFICES ASSUME TInv, WalkInv, ExactInv, phase = "visit", step # "arrive",
                      \A j \in Range(infos[current].callees) : External(infos[j])
               PROVE  Range(ancestry_stack) \ {program.body[infos[current].fn]}
                        = Ancestors(Here) \ {program.body[infos[current].fn]}
    BY DEF StackExact, StackOfHere
  <2> DEFINE s == ancestry_stack
             d == Body(current)
  <2>1. Clean
    BY DEF Clean, Range
  <2>2. LinkedFrom(program, s, 1) /\ \A a \in Ancestors(Here) \ {d} : OnStack(s, a)
    BY <2>1 DEF ExactInv
  <2>3. FramesFit /\ StackFits
    BY DEF WalkInv
  <2>4. Top.todo # <<>> /\ StackGood(program, s) /\ PlacedAt(program, s, Here)
    BY <2>3 DEF StackFits
  <2>5. program \in Programs /\ Here \in DOMAIN program.kind
    BY <2>3, <2>4, WalkFacts
  <2>6. DOMAIN s = 1..Len(s) /\ Len(s) \in Nat
    BY <2>4, LenProperties DEF StackGood
  <2>7. ASSUME NEW k \in 1..Len(s) PROVE s[k] \in Ancestors(Here)
    <3>1. LinkedFrom(program, s, k)
      BY <2>2, <2>6, LinkedAll
    <3> QED
      BY <3>1, <2>4, <2>5, PlacedAbove DEF Ancestors
  <2>8. \A a \in Ancestors(Here) \ {d} : a \in Range(s)
    BY <2>2, <2>6 DEF OnStack, Range
  <2>9. Range(s) \subseteq Ancestors(Here)
    BY <2>6, <2>7 DEF Range
  <2>10. Range(s) \ {d} = Ancestors(Here) \ {d}
    BY <2>8, <2>9
  <2> QED
    BY <2>10 DEF Body
<1>3. TInv /\ WalkInv /\ InlineInv /\ ExactInv /\ [TNext]_tvars => ExactInv'
  BY ExactStep
<1> QED
  BY <1>1, <1>2, <1>3, TInvInit, TInvStep, WalkInit, WalkStep, InlineInit, InlineStep, PTL DEF TSpec
-----------------------------------------------------------------------------
(* The footprint of each FuncInfo exists, and what it has of the entries   *)

LEMMA InlinedSame ==
  ASSUME InfosGood, CallsAligned, NEW i \in DOMAIN infos, NEW f, NEW g,
         \A j \in (i + 1)..Len(infos) : f[j] = g[j]
  PROVE  Inlined(infos, f, i) = Inlined(infos, g, i)
<1>1. \A p \in DOMAIN infos[i].accesses : Piece(infos, f, i, p) = Piece(infos, g, i, p)
  <2> TAKE p \in DOMAIN infos[i].accesses
  <2>1. CASE p \in Calls(infos[i].accesses)
    <3>1. infos[i].callees[next_callee(infos[i].accesses, p)] \in (i + 1)..Len(infos)
      BY <2>1, CalleeOf
    <3> QED
      BY <3>1 DEF Piece
  <2>2. CASE p \notin Calls(infos[i].accesses)
    BY <2>2 DEF Piece, Calls
  <2> QED
    BY <2>1, <2>2
<1>2. Pieces(infos, f, i) = Pieces(infos, g, i)
  BY <1>1 DEF Pieces
<1> QED
  BY <1>2 DEF Inlined

(* A piece is a callee's footprint, an entry, or nothing.                  *)
LEMMA PieceFacts ==
  ASSUME InfosGood, CallsAligned, NEW i \in DOMAIN infos, NEW f,
         \A j \in (i + 1)..Len(infos) : IsSeq(f[j])
  PROVE  /\ IsSeq(Pieces(infos, f, i))
         /\ DOMAIN Pieces(infos, f, i) = DOMAIN infos[i].accesses
         /\ \A p \in DOMAIN infos[i].accesses :
              /\ IsSeq(Pieces(infos, f, i)[p])
              /\ \/ \E j \in (i + 1)..Len(infos) : Pieces(infos, f, i)[p] = f[j]
                 \/ Pieces(infos, f, i)[p] = <<infos[i].accesses[p]>>
                 \/ /\ Pieces(infos, f, i)[p] = <<>>
                    /\ infos[i].accesses[p].type = "Null"
              /\ infos[i].accesses[p].type \notin {"Call", "Null"} =>
                   Pieces(infos, f, i)[p] = <<infos[i].accesses[p]>>
<1> DEFINE s == infos[i].accesses
           t == Pieces(infos, f, i)
<1>1. IsSeq(s)
  BY DEF InfosGood, InfoGood
<1>2. t = [p \in DOMAIN s |-> Piece(infos, f, i, p)]
  BY DEF Pieces
<1>3. IsSeq(t) /\ DOMAIN t = DOMAIN s
  <2> HIDE DEF s, t
  <2>1. DOMAIN s = 1..Len(s) /\ Len(s) \in Nat
    BY <1>1, SeqIs
  <2>2. t = [p \in 1..Len(s) |-> t[p]]
    BY <1>2, <2>1
  <2> QED
    BY <2>1, <2>2, SeqMade
<1>4. ASSUME NEW p \in DOMAIN s
      PROVE  /\ IsSeq(t[p])
             /\ \/ \E j \in (i + 1)..Len(infos) : t[p] = f[j]
                \/ t[p] = <<s[p]>>
                \/ t[p] = <<>> /\ s[p].type = "Null"
             /\ s[p].type \notin {"Call", "Null"} => t[p] = <<s[p]>>
  <2>1. t[p] = Piece(infos, f, i, p)
    BY <1>2
  <2>2. IsSeq(<<s[p]>>) /\ IsSeq(<<>>)
    BY OneIsSeq, NoneIsSeq
  <2>3. CASE s[p].type = "Call"
    <3>1. infos[i].callees[next_callee(s, p)] \in (i + 1)..Len(infos)
      BY <2>3, CalleeOf DEF Calls
    <3>2. t[p] = f[infos[i].callees[next_callee(s, p)]]
      BY <2>1, <2>3 DEF Piece
    <3> QED
      BY <3>1, <3>2, <2>3
  <2>4. CASE s[p].type = "Null"
    <3>1. t[p] = <<>>
      BY <2>1, <2>4 DEF Piece
    <3> QED
      BY <3>1, <2>2, <2>4
  <2>5. CASE s[p].type \notin {"Call", "Null"}
    <3>1. t[p] = <<s[p]>>
      BY <2>1, <2>5 DEF Piece
    <3> QED
      BY <3>1, <2>2
  <2> QED
    BY <2>3, <2>4, <2>5
<1> QED
  BY <1>3, <1>4

LEMMA BuildExists ==
  ASSUME InfosGood, CallsAligned
  PROVE  \E g : Builds(infos, g)
<1> DEFINE n == Len(infos)
           Part(f, m) == \A i \in 1..n : i > n - m => f[i] = Inlined(infos, f, i) /\ IsSeq(f[i])
           Unsolved == {m \in 0..n : ~\E f : Part(f, m)}
<1>1. n \in Nat /\ DOMAIN infos = 1..n
  BY SeqIs DEF InfosGood
<1>2. Unsolved = {}
  <2> SUFFICES ASSUME Unsolved # {} PROVE FALSE
    OBVIOUS
  <2>1. PICK m \in Unsolved : \A q \in Unsolved : m <= q
    <3>1. Unsolved \subseteq Nat
      BY <1>1
    <3> HIDE DEF Unsolved
    <3> QED
      BY <3>1, LeastOf
  <2>2. m \in 0..n /\ ~\E f : Part(f, m)
    BY <2>1
  <2>3. m # 0
    <3>1. \A i \in 1..n : ~(i > n - 0)
      BY <1>1
    <3>2. Part(0, 0)
      BY <3>1
    <3> QED
      BY <3>2, <2>2
  <2>4. m - 1 \in 0..n /\ ~(m <= m - 1) /\ n - m + 1 \in 1..n
    BY <1>1, <2>2, <2>3
  <2>5. m - 1 \notin Unsolved
    <3> HIDE DEF Unsolved
    <3> QED
      BY <2>1, <2>4
  <2>6. PICK f : Part(f, m - 1)
    BY <2>4, <2>5
  <2> DEFINE j == n - m + 1
             h == [i \in 1..n |-> IF i = j THEN Inlined(infos, f, j) ELSE f[i]]
  <2>7. h[j] = Inlined(infos, f, j) /\ \A i \in 1..n : i # j => h[i] = f[i]
    BY <2>4
  <2>8. \A i \in 1..n : i > n - m => i = j \/ i > n - (m - 1)
    BY <1>1, <2>2
  <2>9. j \in 1..n /\ \A i \in 1..n : i > n - (m - 1) => i # j
    BY <1>1, <2>2, <2>4
  <2>10. \A i \in 1..n : \A k \in (i + 1)..n : i = j \/ i > n - (m - 1) => k \in 1..n /\ k > n - (m - 1)
    BY <1>1, <2>2
  <2> HIDE DEF h, j, Unsolved
  <2>11. ASSUME NEW i \in 1..n, i > n - m
         PROVE  h[i] = Inlined(infos, h, i) /\ IsSeq(h[i])
    <3>1. \A k \in (i + 1)..n : f[k] = h[k]
      BY <2>7, <2>8, <2>9, <2>10, <2>11
    <3>2. Inlined(infos, f, i) = Inlined(infos, h, i)
      BY <3>1, <1>1, InlinedSame
    <3>3. CASE i = j
      <4>1. \A k \in (i + 1)..n : IsSeq(f[k])
        BY <3>3, <2>6, <2>10
      <4>2. IsSeq(Inlined(infos, f, i))
        <5>1. /\ IsSeq(Pieces(infos, f, i))
              /\ \A p \in DOMAIN Pieces(infos, f, i) : IsSeq(Pieces(infos, f, i)[p])
          BY <4>1, <1>1, PieceFacts
        <5>2. IsSeq(FlattenSeq(Pieces(infos, f, i)))
          BY <5>1, FlattenIsSeq
        <5> QED
          BY <5>2, NoneIsSeq DEF Inlined
      <4> QED
        BY <3>2, <3>3, <4>2, <2>7
    <3>4. CASE i # j
      BY <3>2, <3>4, <2>6, <2>7, <2>8, <2>11
    <3> QED
      BY <3>3, <3>4
  <2> QED
    BY <2>2, <2>11
<1>3. n \in 0..n /\ \A i \in 1..n : i > n - n
  BY <1>1
<1>4. PICK f : Part(f, n)
  BY <1>2, <1>3
<1> DEFINE g == [i \in 1..n |-> f[i]]
<1>5. \A i \in 1..n : g[i] = f[i] /\ f[i] = Inlined(infos, f, i) /\ IsSeq(f[i])
  BY <1>3, <1>4
<1>6. ASSUME NEW i \in 1..n PROVE g[i] = Inlined(infos, g, i) /\ IsSeq(g[i])
  <2>1. \A k \in (i + 1)..n : k \in 1..n
    BY <1>1
  <2> HIDE DEF g
  <2>2. \A k \in (i + 1)..n : f[k] = g[k]
    BY <2>1, <1>5
  <2>3. Inlined(infos, f, i) = Inlined(infos, g, i)
    BY <2>2, <1>1, InlinedSame
  <2> QED
    BY <2>3, <1>5
<1>7. g = [i \in 1..n |-> g[i]]
  OBVIOUS
<1>8. g = [i \in 1..n |-> Inlined(infos, g, i)]
  <2> HIDE DEF g
  <2> QED
    BY <1>6, <1>7
<1> HIDE DEF g
<1> QED
  BY <1>1, <1>6, <1>8 DEF Builds
-----------------------------------------------------------------------------
(* The then block of every if                                              *)

HasThen(s) == \E q \in DOMAIN s : s[q].type = "ThenBlock"

LEMMA OpenConcat ==
  ASSUME NEW s, NEW t, IsSeq(s), IsSeq(t), Open(s \o t)
  PROVE  Open(t) \/ (Open(s) /\ ~HasThen(t))
<1> DEFINE u == s \o t
<1>1. /\ \A k \in 1..Len(s) : u[k] = s[k]
      /\ \A k \in 1..Len(t) : u[Len(s) + k] = t[k]
      /\ \A k \in DOMAIN u : \/ k \in DOMAIN s /\ u[k] = s[k]
                             \/ k - Len(s) \in DOMAIN t /\ u[k] = t[k - Len(s)]
      /\ Len(u) = Len(s) + Len(t) /\ IsSeq(u)
  BY SeqConcat
<1>2. PICK n \in DOMAIN u :
        u[n].type = "IfStmt" /\ \A q \in DOMAIN u : q > n => u[q].type # "ThenBlock"
  BY DEF Open
<1> HIDE DEF u
<1>3. /\ DOMAIN s = 1..Len(s) /\ DOMAIN t = 1..Len(t) /\ DOMAIN u = 1..(Len(s) + Len(t))
      /\ Len(s) \in Nat /\ Len(t) \in Nat
  BY <1>1, SeqIs
<1>4. CASE n \in DOMAIN s /\ u[n] = s[n]
  <2>1. ASSUME NEW q \in DOMAIN s, q > n PROVE s[q].type # "ThenBlock"
    <3>1. q \in DOMAIN u
      BY <1>3
    <3> QED
      BY <3>1, <2>1, <1>1, <1>2, <1>3
  <2>2. ASSUME NEW q \in DOMAIN t PROVE t[q].type # "ThenBlock"
    <3>1. Len(s) + q \in DOMAIN u /\ Len(s) + q > n
      BY <1>3, <1>4
    <3> QED
      BY <3>1, <1>1, <1>2, <1>3
  <2> QED
    BY <1>4, <1>2, <2>1, <2>2 DEF Open, HasThen
<1>5. CASE n - Len(s) \in DOMAIN t /\ u[n] = t[n - Len(s)]
  <2>1. ASSUME NEW q \in DOMAIN t, q > n - Len(s) PROVE t[q].type # "ThenBlock"
    <3>1. Len(s) + q \in DOMAIN u /\ Len(s) + q > n
      BY <1>3, <2>1
    <3> QED
      BY <3>1, <1>1, <1>2, <1>3
  <2> QED
    BY <1>5, <1>2, <2>1 DEF Open
<1> QED
  BY <1>1, <1>4, <1>5

LEMMA FlattenCloses ==
  ASSUME NEW s, IsSeq(s), \A j \in DOMAIN s : IsSeq(s[j]),
         \A j \in DOMAIN s : Open(s[j]) => \E k \in DOMAIN s : k > j /\ HasThen(s[k])
  PROVE  ~Open(FlattenSeq(s))
<1>1. CASE s = <<>>
  BY <1>1, FlattenNone, NoneIsSeq DEF Open
<1>2. CASE s # <<>>
  <2>1. PICK f : Flattens(s, f, Len(s)) /\ FlattenSeq(s) = f[Len(s)] /\ Len(s) \in Nat \ {0}
    BY <1>2, FlattenIs
  <2> DEFINE n == Len(s)
             Then(j) == \E k \in 1..n : k > j /\ HasThen(s[k])
             Bad == {j \in 1..n : ~IsSeq(f[j]) \/ (Open(f[j]) /\ ~Then(j))}
  <2>2. DOMAIN s = 1..n
    BY SeqIs
  <2>3. Bad = {}
    <3> SUFFICES ASSUME Bad # {} PROVE FALSE
      OBVIOUS
    <3>1. PICK j \in Bad : \A q \in Bad : j <= q
      <4>1. Bad \subseteq Nat
        BY <2>1
      <4> HIDE DEF Bad
      <4> QED
        BY <4>1, LeastOf
    <3>2. j \in 1..n /\ (~IsSeq(f[j]) \/ (Open(f[j]) /\ ~Then(j)))
      BY <3>1
    <3>3. f[j] = FlatStep(s, f, j)
      BY <3>2, <2>1 DEF Flattens
    <3>4. IsSeq(s[j]) /\ (Open(s[j]) => Then(j))
      BY <3>2, <2>2
    <3>5. CASE j = 1
      BY <3>2, <3>3, <3>4, <3>5 DEF FlatStep
    <3>6. CASE j # 1
      <4>1. j - 1 \in 1..n /\ ~(j <= j - 1)
        BY <3>2, <3>6, <2>1
      <4>2. j - 1 \notin Bad
        <5> HIDE DEF Bad
        <5> QED
          BY <4>1, <3>1
      <4>3. IsSeq(f[j - 1]) /\ (Open(f[j - 1]) => Then(j - 1))
        BY <4>1, <4>2
      <4> HIDE DEF Bad
      <4>4. f[j] = f[j - 1] \o s[j]
        BY <3>3, <3>6 DEF FlatStep
      <4>5. IsSeq(f[j])
        BY <4>3, <4>4, <3>4, SeqConcat
      <4>6. Open(f[j]) /\ ~Then(j)
        BY <3>2, <4>5
      <4>7. Then(j - 1) /\ ~HasThen(s[j])
        <5>1. Open(f[j - 1] \o s[j]) /\ ~Open(s[j])
          BY <4>4, <4>6, <3>4
        <5> QED
          BY <5>1, <4>3, <3>4, OpenConcat
      <4>8. \A k \in 1..n : k > j - 1 => k = j \/ k > j
        BY <3>2, <2>1
      <4> QED
        BY <4>6, <4>7, <4>8
    <3> QED
      BY <3>5, <3>6
  <2>4. n \in 1..n /\ \A k \in 1..n : ~(k > n)
    BY <2>1
  <2>5. n \notin Bad
    BY <2>3
  <2>6. ~Open(f[n])
    BY <2>4, <2>5
  <2> QED
    BY <2>1, <2>6
<1> QED
  BY <1>1, <1>2

LEMMA BuildCloses ==
  ASSUME InfosGood, CallsAligned, \A i \in DOMAIN infos : ~Open(infos[i].accesses),
         NEW g, Builds(infos, g), NEW i \in DOMAIN infos
  PROVE  ~Open(g[i])
<1> DEFINE n == Len(infos)
           Bad == {m \in 0..n : n - m \in 1..n /\ Open(g[n - m])}
<1>1. n \in Nat /\ DOMAIN infos = 1..n /\ \A j \in 1..n : g[j] = Inlined(infos, g, j) /\ IsSeq(g[j])
  BY SeqIs DEF InfosGood, Builds
<1>2. Bad = {}
  <2> SUFFICES ASSUME Bad # {} PROVE FALSE
    OBVIOUS
  <2>1. PICK m \in Bad : \A q \in Bad : m <= q
    <3>1. Bad \subseteq Nat
      BY <1>1
    <3> HIDE DEF Bad
    <3> QED
      BY <3>1, LeastOf
  <2> DEFINE j == n - m
  <2>2. j \in 1..n /\ Open(g[j]) /\ m \in 0..n
    BY <2>1
  <2>3. \A k \in (j + 1)..n : ~Open(g[k])
    <3> SUFFICES ASSUME NEW k \in (j + 1)..n, Open(g[k]) PROVE FALSE
      OBVIOUS
    <3>1. n - k \in 0..n /\ n - (n - k) = k /\ k \in 1..n /\ ~(m <= n - k)
      BY <2>2, <1>1
    <3>2. n - k \in Bad
      BY <3>1
    <3> HIDE DEF Bad
    <3> QED
      BY <3>1, <3>2, <2>1
  <2> HIDE DEF Bad, j
  <2> DEFINE s == infos[j].accesses
             t == Pieces(infos, g, j)
  <2>4. \A k \in (j + 1)..n : IsSeq(g[k])
    <3>1. \A k \in (j + 1)..n : k \in 1..n
      BY <2>2, <1>1
    <3> QED
      BY <3>1, <1>1
  <2>5. /\ IsSeq(t) /\ DOMAIN t = DOMAIN s
        /\ \A p \in DOMAIN s :
             /\ IsSeq(t[p])
             /\ \/ \E k \in (j + 1)..n : t[p] = g[k]
                \/ t[p] = <<s[p]>>
                \/ t[p] = <<>> /\ s[p].type = "Null"
             /\ s[p].type \notin {"Call", "Null"} => t[p] = <<s[p]>>
    BY <2>2, <2>4, <1>1, PieceFacts
  <2> HIDE DEF s, t
  <2>6. ~Open(s)
    BY <2>2, <1>1 DEF s
  <2>7. ASSUME NEW p \in DOMAIN t, Open(t[p])
        PROVE  \E q \in DOMAIN t : q > p /\ HasThen(t[q])
    <3>1. t[p] = <<s[p]>>
      BY <2>3, <2>5, <2>7, NoneIsSeq DEF Open
    <3>2. s[p].type = "IfStmt"
      <4>1. DOMAIN <<s[p]>> = {1} /\ <<s[p]>>[1] = s[p]
        OBVIOUS
      <4> QED
        BY <3>1, <4>1, <2>7 DEF Open
    <3>3. PICK q \in DOMAIN s : q > p /\ s[q].type = "ThenBlock"
      BY <3>2, <2>5, <2>6 DEF Open
    <3>4. t[q] = <<s[q]>>
      BY <3>3, <2>5
    <3>5. HasThen(<<s[q]>>)
      <4>1. 1 \in DOMAIN <<s[q]>> /\ <<s[q]>>[1] = s[q]
        OBVIOUS
      <4> QED
        BY <4>1, <3>3 DEF HasThen
    <3> QED
      BY <3>3, <3>4, <3>5, <2>5
  <2>8. ~Open(FlattenSeq(t))
    BY <2>5, <2>7, FlattenCloses
  <2>9. ~Open(<<>>)
    BY NoneIsSeq DEF Open
  <2> QED
    BY <2>2, <2>8, <2>9, <1>1 DEF Inlined, t
<1>3. n - i \in 0..n /\ n - (n - i) = i /\ i \in 1..n
  BY <1>1
<1>4. n - i \notin Bad
  BY <1>2
<1> QED
  BY <1>3, <1>4

(* What unwinding does to an entry.                                        *)
Marks(v, w) ==
  /\ DOMAIN w = DOMAIN v /\ w.idx = v.idx /\ w.origin = v.origin
  /\ \/ w.type = v.type
     \/ v.idx = 0 /\ w.type \in {"LockAcquire", "LockRelease"}
     \/ v.type \notin {"IfStmt", "ThenBlock"} /\ w.type = "Null"

AllMarked(s, t) == DOMAIN t = DOMAIN s /\ \A p \in DOMAIN s : Marks(s[p], t[p])

LEMMA MarkedMarks ==
  ASSUME NEW va, EntryGood(va), NEW info, NEW params, NEW args
  PROVE  Marks(va, Marked(info, Renamed(params, args, va)))
<1> DEFINE r == Renamed(params, args, va)
<1>1. /\ DOMAIN r = DOMAIN va /\ r.type = va.type /\ r.idx = va.idx /\ r.origin = va.origin
      /\ DOMAIN r = {"type", "usr", "esc", "idx", "origin", "ptr"}
  <2>1. r = va \/ \E u : r = [va EXCEPT !.usr = u]
    BY DEF Renamed
  <2> QED
    BY <2>1 DEF EntryGood
<1> HIDE DEF r
<1>2. lock_primitive_type(r.esc) \in {"LockAcquire", "LockRelease", "Null"}
  BY DEF lock_primitive_type
<1>3. Private(info, r) => r.type \notin {"IfStmt", "ThenBlock"}
  BY DEF Private, Placeholder
<1> DEFINE w == Marked(info, r)
<1>4. \/ w = r
      \/ /\ r.idx = 0
         /\ w \in {[r EXCEPT !.type = "LockAcquire"], [r EXCEPT !.type = "LockRelease"]}
      \/ r.type \notin {"IfStmt", "ThenBlock"} /\ w = [r EXCEPT !.type = "Null"]
  BY <1>2, <1>3 DEF Marked
<1> HIDE DEF w
<1>5. Marks(va, w)
  BY <1>1, <1>4 DEF Marks
<1> QED
  BY <1>5 DEF w, r

LEMMA UnwindMarks ==
  ASSUME InfosGood, NEW i, NEW args, infos' = unwind_func_info(infos, i, args),
         NEW j \in DOMAIN infos, InfosGood'
  PROVE  DOMAIN infos' = DOMAIN infos /\ AllMarked(infos[j].accesses, infos'[j].accesses)
<1> DEFINE s == infos[j].accesses
<1>1. DOMAIN infos' = DOMAIN infos
  BY DEF unwind_func_info
<1>2. DOMAIN infos[j] = InfoFields /\ \A p \in DOMAIN s : EntryGood(s[p])
  BY DEF InfosGood, InfoGood
<1>3. AllMarked(s, s)
  BY DEF AllMarked, Marks
<1>4. CASE j = i
  <2> DEFINE t == [p \in DOMAIN s |-> Marked(infos[j], Renamed(infos[j].params, args, s[p]))]
  <2>1. infos'[j] = infos[j] \/ infos'[j] = [infos[j] EXCEPT !.accesses = t]
    BY <1>4 DEF unwind_func_info, UnwoundOwn
  <2>2. AllMarked(s, t)
    <3>1. \A p \in DOMAIN s : Marks(s[p], Marked(infos[j], Renamed(infos[j].params, args, s[p])))
      BY <1>2, MarkedMarks
    <3> QED
      BY <3>1 DEF AllMarked
  <2> HIDE DEF t
  <2>3. infos'[j].accesses \in {s, t}
    BY <2>1, <1>2 DEF InfoFields
  <2> QED
    BY <2>2, <2>3, <1>1, <1>3
<1>5. CASE j # i /\ Contains(infos[i].callees, j)
  <2> DEFINE k == SelectInSeq(infos[i].callees, LAMBDA m : m = j)
             u == resolve_var_access_alias(infos, i, k)
  <2>1. infos'[j] = [infos[j] EXCEPT !.accesses = u]
    BY <1>5 DEF unwind_func_info
  <2>2. infos'[j].accesses = u
    <3> HIDE DEF u
    <3> QED
      BY <2>1, <1>2 DEF InfoFields
  <2>3. infos[i].callees[k] = j
    <3> DEFINE cs == infos[i].callees
               I == {m \in 1..Len(cs) : cs[m] = j}
    <3>1. I # {} /\ I \subseteq Nat
      BY <1>5 DEF Contains
    <3>2. k = Min(I)
      BY <3>1 DEF SelectInSeq
    <3> HIDE DEF I
    <3>3. \E m \in I : \A x \in I : m <= x
      BY <3>1, LeastOf
    <3>4. Min(I) \in I
      BY <3>3 DEF Min
    <3> QED
      BY <3>2, <3>4 DEF I
  <2> HIDE DEF k
  <2> DEFINE alias == CallAt(infos[i].accesses, k)
             t == [p \in DOMAIN s |->
                     IF ~Placeholder(s[p]) /\ s[p].usr = Argument(infos[j].fn, alias.idx)
                     THEN [s[p] EXCEPT !.usr = alias.usr] ELSE s[p]]
  <2>4. u = s \/ u = t
    BY <2>3 DEF resolve_var_access_alias
  <2>5. AllMarked(s, t)
    <3>1. \A p \in DOMAIN s : t[p] = s[p] \/ \E x : t[p] = [s[p] EXCEPT !.usr = x]
      OBVIOUS
    <3>2. DOMAIN t = DOMAIN s
      OBVIOUS
    <3> HIDE DEF t
    <3> QED
      BY <3>1, <3>2, <1>2 DEF AllMarked, Marks, EntryGood
  <2> QED
    BY <2>2, <2>4, <2>5, <1>1, <1>3
<1>6. CASE j # i /\ ~Contains(infos[i].callees, j)
  BY <1>1, <1>3, <1>6 DEF unwind_func_info
<1> QED
  BY <1>4, <1>5, <1>6

BareInv == \A i \in DOMAIN infos : \A n \in DOMAIN infos[i].accesses : Bare(infos[i].accesses[n])

LEMMA ThenPush ==
  ASSUME TInv, BareInv, phase = "visit", NEW E, Pushes(E), IsSeq(E),
         \A q \in DOMAIN E : Bare(E[q])
  PROVE  /\ BareInv'
         /\ \A i \in DOMAIN infos' : Open(infos'[i].accesses) =>
              /\ i \in DOMAIN infos
              /\ \/ Open(infos[i].accesses) /\ (i = current => ~HasThen(E))
                 \/ i = current /\ Open(E)
<1>1. /\ DOMAIN infos' = DOMAIN infos /\ current \in DOMAIN infos
      /\ \A i \in DOMAIN infos : i # current => infos'[i].accesses = infos[i].accesses
      /\ infos'[current].accesses = infos[current].accesses \o E
  BY VisitFacts DEF Pushes
<1>2. IsSeq(infos[current].accesses)
  BY VisitFacts DEF InfosGood, InfoGood
<1> DEFINE s == infos[current].accesses
<1>3. \A n \in DOMAIN (s \o E) : Bare((s \o E)[n])
  <2>1. \A n \in DOMAIN s : Bare(s[n])
    BY <1>1 DEF BareInv
  <2> HIDE DEF s, Bare
  <2> QED
    BY <2>1, <1>2, SeqConcat DEF s
<1>4. Open(s \o E) => Open(E) \/ (Open(s) /\ ~HasThen(E))
  <2> HIDE DEF s
  <2> QED
    BY <1>2, OpenConcat DEF s
<1>5. BareInv'
  <2> SUFFICES ASSUME NEW i \in DOMAIN infos', NEW n \in DOMAIN infos'[i].accesses
               PROVE  Bare(infos'[i].accesses[n])
    BY DEF BareInv, Bare
  <2>1. CASE i = current
    BY <2>1, <1>1, <1>3
  <2>2. CASE i # current
    BY <2>2, <1>1 DEF BareInv
  <2> QED
    BY <2>1, <2>2
<1>6. ASSUME NEW i \in DOMAIN infos', Open(infos'[i].accesses)
      PROVE  /\ i \in DOMAIN infos
             /\ \/ Open(infos[i].accesses) /\ (i = current => ~HasThen(E))
                \/ i = current /\ Open(E)
  <2>1. CASE i = current
    BY <2>1, <1>1, <1>4, <1>6
  <2>2. CASE i # current
    BY <2>2, <1>1, <1>6
  <2> QED
    BY <2>1, <2>2
<1> QED
  BY <1>5, <1>6

LEMMA ThenCall ==
  ASSUME TInv, BareInv, CallExternal \/ EnterCallee
  PROVE  /\ BareInv'
         /\ \A i \in DOMAIN infos' : Open(infos'[i].accesses) =>
              i \in DOMAIN infos /\ Open(infos[i].accesses)
<1> DEFINE n == Len(infos)
           e == CallEntry(Sym(Here))
           s == infos[current].accesses
           t == infos'[current].accesses
<1>1. phase = "visit"
  BY DEF CallExternal, EnterCallee, FirstCall, AtCursor
<1>2. /\ DOMAIN infos = 1..n /\ n \in Nat /\ current \in DOMAIN infos /\ IsSeq(s)
      /\ DOMAIN infos' = 1..(n + 1)
      /\ \A i \in DOMAIN infos : i # current => infos'[i] = infos[i]
      /\ t = Append(s, e) /\ infos'[n + 1] = Callee(Sym(Here))
  BY <1>1, VisitFacts, CallFacts DEF InfosGood, InfoGood
<1>3. infos'[n + 1].accesses = <<>>
  BY <1>2 DEF Callee, FuncInfo
<1>4. e.type = "Call" /\ Bare(e)
  BY DEF CallEntry, VarAccess, Bare
<1> HIDE DEF e, s, t
<1>5. /\ DOMAIN s = 1..Len(s) /\ DOMAIN t = 1..(Len(s) + 1) /\ Len(s) \in Nat
      /\ t[Len(s) + 1] = e /\ \A k \in 1..Len(s) : t[k] = s[k]
  BY <1>2, SeqAppend, SeqIs
<1>6. Open(t) => Open(s)
  <2> SUFFICES ASSUME NEW k \in DOMAIN t, t[k].type = "IfStmt",
                      \A q \in DOMAIN t : q > k => t[q].type # "ThenBlock"
               PROVE  Open(s)
    BY DEF Open
  <2>1. k \in DOMAIN s /\ s[k] = t[k]
    BY <1>4, <1>5
  <2>2. \A q \in DOMAIN s : q \in DOMAIN t /\ s[q] = t[q]
    BY <1>5
  <2> QED
    BY <2>1, <2>2 DEF Open
<1>7. (\A k \in DOMAIN s : Bare(s[k])) => \A k \in DOMAIN t : Bare(t[k])
  <2>1. \A k \in DOMAIN t : k \in DOMAIN s \/ t[k] = e
    BY <1>5
  <2> HIDE DEF Bare
  <2> QED
    BY <2>1, <1>4, <1>5
<1>8. \A i \in 1..(n + 1) : i = n + 1 \/ i \in DOMAIN infos
  BY <1>2
<1>9. BareInv'
  <2> SUFFICES ASSUME NEW i \in DOMAIN infos', NEW k \in DOMAIN infos'[i].accesses
               PROVE  Bare(infos'[i].accesses[k])
    BY DEF BareInv, Bare
  <2>1. CASE i = current
    <3>1. \A q \in DOMAIN s : Bare(s[q])
      BY <1>2 DEF BareInv, s
    <3> HIDE DEF Bare
    <3> QED
      BY <2>1, <3>1, <1>7 DEF t
  <2>2. CASE i # current /\ i \in DOMAIN infos
    BY <2>2, <1>2 DEF BareInv
  <2>3. CASE i = n + 1
    BY <2>3, <1>3, NoneIsSeq
  <2> QED
    BY <2>1, <2>2, <2>3, <1>2, <1>8
<1>10. ASSUME NEW i \in DOMAIN infos', Open(infos'[i].accesses)
       PROVE  i \in DOMAIN infos /\ Open(infos[i].accesses)
  <2>1. CASE i = current
    BY <2>1, <1>2, <1>6, <1>10 DEF s, t
  <2>2. CASE i # current /\ i \in DOMAIN infos
    BY <2>2, <1>2, <1>10
  <2>3. CASE i = n + 1
    BY <2>3, <1>3, <1>10, NoneIsSeq DEF Open
  <2> QED
    BY <2>1, <2>2, <2>3, <1>2, <1>8
<1> QED
  BY <1>9, <1>10

LEMMA AfterKeeps ==
  ASSUME NEW p \in Programs, NEW d, NEW todo, TodoFits(p, todo, d), todo # <<>>,
         NEW t, t = After(p, todo)
  PROVE  /\ \A k \in DOMAIN todo : k # 1 => \E j \in DOMAIN t : t[j] = todo[k]
         /\ \A k \in DOMAIN p.kids[todo[1]] : \E j \in DOMAIN t : t[j] = p.kids[todo[1]][k]
<1> DEFINE kids == p.kids[todo[1]]
           n == Len(kids)
<1>1. /\ todo \in Seq(DOMAIN p.kind) /\ kids \in Seq(DOMAIN p.kind)
      /\ 1 \in DOMAIN todo /\ t = kids \o Tail(todo)
  BY TodoFacts, TreeFacts DEF TodoFits, After
<1> HIDE DEF kids
<1>2. /\ t \in Seq(DOMAIN p.kind) /\ n \in Nat /\ Len(todo) \in Nat \ {0}
      /\ Len(t) = n + Len(todo) - 1 /\ Len(t) \in Nat /\ DOMAIN t = 1..Len(t)
      /\ DOMAIN kids = 1..n /\ DOMAIN todo = 1..Len(todo)
      /\ \A i \in 1..n : t[i] = kids[i]
      /\ Continues(t, n, todo)
  BY <1>1, RecurseIs
<1>3. \A k \in 1..Len(todo) : k # 1 => k \in 2..Len(todo)
  BY <1>2
<1>4. \A k \in 1..n : k \in 1..Len(t)
  BY <1>2
<1>5. \A k \in DOMAIN kids : \E j \in DOMAIN t : t[j] = kids[k]
  BY <1>2, <1>4
<1> QED
  BY <1>2, <1>3, <1>5 DEF Continues, kids

(* The visit goes on, and leads to no then block that was not before it.   *)
LEMMA AwaitedOn ==
  ASSUME TInv, WalkInv, phase = "visit", Top.todo # <<>>, step = "cursor",
         UNCHANGED program, step' = "arrive", frames' = GoOn \/ \E f : frames' = Append(GoOn, f),
         NEW i, ThenAwaited(i)
  PROVE  ThenAwaited(i)'
<1> DEFINE n == Len(frames)
           todo == frames[n].todo
<1>1. /\ GoOn \in Seq(FrameSet(program)) /\ Len(GoOn) = n /\ n \in Nat
      /\ \A m \in 1..n : /\ GoOn[m].info = frames[m].info
                         /\ GoOn[m].todo = IF m = n THEN Recurse ELSE frames[m].todo
      /\ frames \in Seq(FrameSet(program)) /\ n # 0
  BY GoOnFacts DEF TInv, FramesGood
<1>2. \A m \in 1..n : m \in 1..Len(frames') /\ frames'[m] = GoOn[m]
  <2>1. IsSeq(GoOn)
    BY <1>1, SeqTyped
  <2>2. CASE frames' = GoOn
    BY <2>2, <1>1
  <2>3. CASE \E f : frames' = Append(GoOn, f)
    <3>1. Len(frames') = n + 1 /\ \A m \in 1..n : frames'[m] = GoOn[m]
      BY <2>1, <2>3, <1>1, SeqAppend
    <3>2. \A m \in 1..n : m \in 1..(n + 1)
      BY <1>1
    <3> QED
      BY <3>1, <3>2
  <2> QED
    BY <2>2, <2>3
<1>3. n \in 1..n /\ Top = frames[n] /\ program \in Programs
  BY <1>1 DEF TInv, ScalarsGood, Top, Last
<1>4. /\ TodoFits(program, todo, Body(current)) /\ todo # <<>>
      /\ Recurse = After(program, todo)
  BY <1>3, WalkFacts DEF WalkInv
<1> HIDE DEF n, todo
<1>5. \A k \in DOMAIN todo : k # 1 => \E j \in DOMAIN Recurse : Recurse[j] = todo[k]
  BY <1>3, <1>4, AfterKeeps
<1>6. PICK m \in 1..n :
        /\ frames[m].info = i
        /\ \E k \in DOMAIN frames[m].todo :
             ThenKid(program, frames[m].todo[k]) /\ ~(m = n /\ k = 1 /\ step = "cursor")
  BY DEF ThenAwaited, n
<1>7. PICK k \in DOMAIN frames[m].todo :
        ThenKid(program, frames[m].todo[k]) /\ ~(m = n /\ k = 1)
  BY <1>6
<1>8. m \in 1..Len(frames') /\ frames'[m].info = i
      /\ frames'[m].todo = IF m = n THEN Recurse ELSE frames[m].todo
  BY <1>1, <1>2, <1>6
<1>9. \E j \in DOMAIN frames'[m].todo : frames'[m].todo[j] = frames[m].todo[k]
  <2>1. CASE m # n
    BY <2>1, <1>7, <1>8
  <2>2. CASE m = n
    <3>1. k \in DOMAIN todo /\ k # 1
      BY <2>2, <1>7 DEF todo
    <3> QED
      BY <2>2, <3>1, <1>5, <1>8 DEF todo
  <2> QED
    BY <2>1, <2>2
<1> QED
  BY <1>7, <1>8, <1>9 DEF ThenAwaited

LEMMA SmallFacts ==
  ASSUME NEW e, Bare(e), NEW E, E \in {<<>>, <<e>>}
  PROVE  /\ IsSeq(E) /\ \A q \in DOMAIN E : Bare(E[q])
         /\ HasThen(E) <=> E # <<>> /\ e.type = "ThenBlock"
         /\ Open(E) => e.type = "IfStmt"
<1>1. CASE E = <<>>
  <2>1. IsSeq(E) /\ DOMAIN E = {}
    BY <1>1, NoneIsSeq
  <2> QED
    BY <1>1, <2>1 DEF HasThen, Open
<1>2. CASE E = <<e>>
  <2>1. DOMAIN <<e>> = {1} /\ <<e>>[1] = e /\ <<e>> # <<>>
    OBVIOUS
  <2>2. DOMAIN E = {1} /\ E[1] = e /\ E # <<>>
    BY <1>2, <2>1
  <2>3. IsSeq(E)
    BY <1>2, OneIsSeq
  <2> QED
    BY <2>2, <2>3 DEF HasThen, Open, Bare
<1> QED
  BY <1>1, <1>2

LEMMA MarkersBare ==
  /\ \A type \in {"IfStmt", "ThenBlock", "ElseStmt", "EndIf"} :
       Bare(Marker(type)) /\ Marker(type).type = type
  /\ \A stack, c : LET va == AccessEntry(stack, c)
                   IN  va.type # "None" =>
                         Bare(va) /\ va.type \notin {"IfStmt", "ThenBlock"}
<1>1. ASSUME NEW type \in {"IfStmt", "ThenBlock", "ElseStmt", "EndIf"}
      PROVE  Bare(Marker(type)) /\ Marker(type).type = type
  BY DEF Bare, Marker, VarAccess
<1>2. ASSUME NEW stack, NEW c, AccessEntry(stack, c).type # "None"
      PROVE  Bare(AccessEntry(stack, c)) /\ AccessEntry(stack, c).type \notin {"IfStmt", "ThenBlock"}
  <2>1. AccessEntry(stack, c).type = AccessType(stack, c)
    BY DEF AccessEntry, VarAccess
  <2>2. AccessEntry(stack, c).type \in {"Read", "Write", "PtrRead", "PtrWrite", "Escape"}
    BY <1>2, <2>1, AccessEntryGood
  <2> QED
    BY <2>2 DEF Bare
<1> QED
  BY <1>1, <1>2

(* The entries a step pushes that opens no if and meets no then block.     *)
LEMMA ThenVisit ==
  ASSUME TInv, BareInv, phase = "visit",
         NEW e, Bare(e), e.type \notin {"IfStmt", "ThenBlock"}, NEW E, E \in {<<>>, <<e>>}, Pushes(E)
  PROVE  /\ BareInv'
         /\ \A i \in DOMAIN infos' : Open(infos'[i].accesses) =>
              i \in DOMAIN infos /\ Open(infos[i].accesses)
<1>1. IsSeq(E) /\ (\A q \in DOMAIN E : Bare(E[q])) /\ ~HasThen(E) /\ ~Open(E)
  BY SmallFacts
<1> QED
  BY <1>1, ThenPush

OpenAwaited == \A i \in DOMAIN infos : Open(infos[i].accesses) => tracking /\ ThenAwaited(i)

LEMMA ThenStack ==
  ASSUME TInv, WalkInv, BareInv, OpenAwaited, PushParent \/ PopAncestor \/ Settle \/ MarkBranch
  PROVE  BareInv' /\ OpenAwaited'
<1>1. phase = "visit" /\ UNCHANGED <<program, tracking, frames>>
  BY DEF PushParent, PopAncestor, Settle, MarkBranch, AtCursor
<1>2. CASE PushParent \/ PopAncestor \/ Settle
  <2>1. step' # "cursor"
    BY <1>2 DEF PushParent, PopAncestor, Settle, AtCursor
  <2>2. \A i : ThenAwaited(i) => ThenAwaited(i)'
    BY <1>1, <2>1 DEF ThenAwaited
  <2>3. \E E : E \in {<<>>, <<Marker("EndIf")>>} /\ Pushes(E)
    <3>1. Ended(Last(ancestry_stack)) \in {<<>>, <<Marker("EndIf")>>}
      BY DEF Ended, When
    <3> QED
      BY <1>1, <1>2, <3>1, StepPushes
  <2>4. Bare(Marker("EndIf")) /\ Marker("EndIf").type = "EndIf"
    BY MarkersBare
  <2>5. /\ BareInv'
        /\ \A i \in DOMAIN infos' : Open(infos'[i].accesses) =>
             i \in DOMAIN infos /\ Open(infos[i].accesses)
    BY <1>1, <2>3, <2>4, ThenVisit
  <2> QED
    BY <1>1, <2>2, <2>5 DEF OpenAwaited
<1>3. CASE MarkBranch
  <2> DEFINE E == BranchMarkers
  <2>1. Pushes(E) /\ step' = "cursor" /\ Top.todo # <<>>
    BY <1>1, <1>3, StepPushes DEF MarkBranch, AtCursor
  <2>2. \E type \in {"ThenBlock", "ElseStmt"} : E \in {<<>>, <<Marker(type)>>}
    BY DEF BranchMarkers
  <2>3. tracking /\ ThenKid(program, Here) => E = <<Marker("ThenBlock")>>
    <3> DEFINE kids == program.kids[program.parent[Here]]
    <3>1. program \in Programs /\ Here \in DOMAIN program.kind /\ program.parent[Here] # NoCursor
      BY <1>1, <2>1, WalkFacts, TodoFacts DEF WalkInv
    <3>2. program.parent[Here] \in DOMAIN program.kind /\ kids \in Seq(DOMAIN program.kind)
      BY <3>1, TreeFacts
    <3>3. Len(kids) > 2 => kids[2] # Last(kids)
      <4> SUFFICES ASSUME Len(kids) > 2 PROVE kids[2] # kids[Len(kids)]
        BY DEF Last
      <4>1. 2 \in DOMAIN kids /\ Len(kids) \in DOMAIN kids /\ 2 # Len(kids)
        <5> HIDE DEF kids
        <5>1. Len(kids) \in Nat /\ DOMAIN kids = 1..Len(kids)
          BY <3>2, LenProperties
        <5> QED
          BY <5>1
      <4> QED
        BY <3>1, <3>2, <4>1, KidsApart
    <3> QED
      BY <3>3 DEF BranchMarkers, ThenKid, Kind, Parent, Kids
  <2> HIDE DEF E
  <2>4. PICK type \in {"ThenBlock", "ElseStmt"} : E \in {<<>>, <<Marker(type)>>}
    BY <2>2
  <2>5. Bare(Marker(type)) /\ Marker(type).type = type
    BY MarkersBare
  <2>6. IsSeq(E) /\ (\A q \in DOMAIN E : Bare(E[q])) /\ ~Open(E)
    BY <2>4, <2>5, SmallFacts
  <2>7. tracking /\ ThenKid(program, Here) => HasThen(E)
    <3> SUFFICES ASSUME E = <<Marker("ThenBlock")>> PROVE HasThen(E)
      BY <2>3
    <3>1. Bare(Marker("ThenBlock")) /\ Marker("ThenBlock").type = "ThenBlock"
      BY MarkersBare
    <3>2. <<Marker("ThenBlock")>> # <<>>
      OBVIOUS
    <3> QED
      BY <3>1, <3>2, SmallFacts
  <2>8. /\ BareInv'
        /\ \A i \in DOMAIN infos' : Open(infos'[i].accesses) =>
             i \in DOMAIN infos /\ Open(infos[i].accesses) /\ (i = current => ~HasThen(E))
    BY <1>1, <2>1, <2>6, ThenPush
  <2>9. /\ Here = Top.todo[1] /\ Top = frames[Len(frames)]
        /\ \A m \in 1..Len(frames) : frames[m].info # current => m # Len(frames)
    BY <1>1, <2>1, WalkFacts DEF WalkInv
  <2>10. ASSUME NEW i, tracking, ThenAwaited(i), i = current => ~HasThen(E) PROVE ThenAwaited(i)'
    <3>1. PICK m \in 1..Len(frames) :
            frames[m].info = i /\ \E k \in DOMAIN frames[m].todo : ThenKid(program, frames[m].todo[k])
      BY <2>10 DEF ThenAwaited
    <3>2. PICK k \in DOMAIN frames[m].todo : ThenKid(program, frames[m].todo[k])
      BY <3>1
    <3>3. ~(m = Len(frames) /\ k = 1)
      <4> SUFFICES ASSUME m = Len(frames), k = 1 PROVE FALSE
        OBVIOUS
      <4>1. ThenKid(program, Here) /\ i = current
        BY <3>1, <3>2, <2>9
      <4> QED
        BY <4>1, <2>7, <2>10
    <3> QED
      BY <3>1, <3>2, <3>3, <1>1 DEF ThenAwaited
  <2> QED
    BY <1>1, <2>8, <2>10 DEF OpenAwaited
<1> QED
  BY <1>2, <1>3

(* An if has a then block below it.                                        *)
LEMMA IfAwaits ==
  ASSUME TInv, WalkInv, phase = "visit", Top.todo # <<>>, Kind(Here) = "If",
         UNCHANGED program, step' = "arrive", frames' = GoOn, NEW i, i = current
  PROVE  ThenAwaited(i)'
<1> DEFINE n == Len(frames)
           kids == program.kids[Here]
<1>1. /\ Len(frames') = n /\ n \in Nat /\ n # 0
      /\ frames'[n].info = i /\ frames'[n].todo = Recurse
  <2>1. /\ Len(GoOn) = n /\ n \in Nat
        /\ \A m \in 1..n : /\ GoOn[m].info = frames[m].info
                           /\ GoOn[m].todo = IF m = n THEN Recurse ELSE frames[m].todo
    BY GoOnFacts DEF TInv
  <2>2. n \in Nat \ {0} /\ frames[n].info = current
    BY VisitFacts
  <2>3. n \in 1..n
    BY <2>2
  <2> QED
    BY <2>1, <2>2, <2>3
<1>2. /\ program \in Programs /\ TodoFits(program, Top.todo, Body(current))
      /\ Here = Top.todo[1] /\ Recurse = After(program, Top.todo) /\ Here \in DOMAIN program.kind
  BY WalkFacts DEF WalkInv
<1>3. \A k \in DOMAIN kids : \E j \in DOMAIN Recurse : Recurse[j] = kids[k]
  <2> DEFINE todo == Top.todo
  <2> HIDE DEF todo
  <2>1. /\ program \in Programs /\ TodoFits(program, todo, Body(current)) /\ todo # <<>>
        /\ Here = todo[1] /\ Recurse = After(program, todo)
    BY <1>2 DEF todo
  <2> QED
    BY <2>1, AfterKeeps
<1>4. 2 \in DOMAIN kids
  <2>1. Len(kids) >= 2 /\ kids \in Seq(DOMAIN program.kind)
    BY <1>2, SyntaxFacts, TreeFacts DEF Kind
  <2> HIDE DEF kids
  <2> QED
    BY <2>1, LenProperties
<1>5. ThenKid(program, kids[2])
  <2>1. program.parent[kids[2]] = Here
    BY <1>2, <1>4, KidFacts
  <2> QED
    BY <2>1 DEF ThenKid, Kind
<1>6. PICK j \in DOMAIN Recurse : Recurse[j] = kids[2]
  BY <1>3, <1>4
<1>7. n \in 1..Len(frames')
  BY <1>1
<1> HIDE DEF n, kids
<1> QED
  BY <1>1, <1>5, <1>6, <1>7 DEF ThenAwaited

LEMMA ThenVisits ==
  ASSUME TInv, WalkInv, BareInv, OpenAwaited,
         VisitDecl \/ VisitIf \/ VisitVariable \/ VisitOther \/ SkipCall
  PROVE  BareInv' /\ OpenAwaited'
<1>1. /\ phase = "visit" /\ step = "cursor" /\ Top.todo # <<>> /\ step' = "arrive"
      /\ UNCHANGED <<program, tracking>> /\ frames' = GoOn
  BY DEF Visit, VisitDecl, VisitIf, VisitVariable, VisitOther, SkipCall, AtCursor
<1>2. \A i : ThenAwaited(i) => ThenAwaited(i)'
  BY <1>1, AwaitedOn
<1>3. CASE VisitDecl \/ VisitVariable \/ VisitOther \/ SkipCall
  <2>1. PICK e : /\ Bare(e) /\ e.type \notin {"IfStmt", "ThenBlock"}
                 /\ \E E : E \in {<<>>, <<e>>} /\ Pushes(E)
    <3>1. CASE VisitVariable
      <4> DEFINE va == AccessEntry(ancestry_stack, Here)
      <4>1. Pushes(When(va.type # "None", <<va>>))
        BY <1>1, <3>1, StepPushes
      <4>2. CASE va.type = "None"
        <5>1. Pushes(<<>>)
          BY <4>1, <4>2 DEF When
        <5>2. Bare(Marker("EndIf")) /\ Marker("EndIf").type = "EndIf"
          BY MarkersBare
        <5> QED
          BY <5>1, <5>2
      <4>3. CASE va.type # "None"
        <5>1. Pushes(<<va>>)
          BY <4>1, <4>3 DEF When
        <5>2. Bare(va) /\ va.type \notin {"IfStmt", "ThenBlock"}
          BY <4>3, MarkersBare
        <5> QED
          BY <5>1, <5>2
      <4> QED
        BY <4>2, <4>3
    <3>2. CASE VisitDecl \/ VisitOther \/ SkipCall
      <4>1. Pushes(<<>>)
        BY <1>1, <3>2, StepPushes
      <4>2. Bare(Marker("EndIf")) /\ Marker("EndIf").type = "EndIf"
        BY MarkersBare
      <4> QED
        BY <4>1, <4>2
    <3> QED
      BY <1>3, <3>1, <3>2
  <2>2. PICK E : E \in {<<>>, <<e>>} /\ Pushes(E)
    BY <2>1
  <2>3. /\ BareInv'
        /\ \A i \in DOMAIN infos' : Open(infos'[i].accesses) =>
             i \in DOMAIN infos /\ Open(infos[i].accesses)
    BY <1>1, <2>1, <2>2, ThenVisit
  <2> QED
    BY <1>1, <1>2, <2>3 DEF OpenAwaited
<1>4. CASE VisitIf
  <2> DEFINE E == When(tracking, <<Marker("IfStmt")>>)
  <2>1. Pushes(E) /\ Kind(Here) = "If"
    BY <1>1, <1>4, StepPushes DEF VisitIf
  <2>2. E \in {<<>>, <<Marker("IfStmt")>>} /\ (~tracking => E = <<>>)
    BY DEF When
  <2> HIDE DEF E
  <2>3. Bare(Marker("IfStmt")) /\ Marker("IfStmt").type = "IfStmt"
    BY MarkersBare
  <2>4. /\ IsSeq(E) /\ (\A q \in DOMAIN E : Bare(E[q])) /\ ~HasThen(E)
    BY <2>2, <2>3, SmallFacts
  <2>5. Open(E) => tracking
    <3>1. ~Open(<<>>)
      BY NoneIsSeq DEF Open
    <3> QED
      BY <2>2, <3>1
  <2>6. /\ BareInv'
        /\ \A i \in DOMAIN infos' : Open(infos'[i].accesses) =>
             /\ i \in DOMAIN infos
             /\ Open(infos[i].accesses) \/ (i = current /\ Open(E))
    BY <1>1, <2>1, <2>4, ThenPush
  <2>8. ASSUME NEW i \in DOMAIN infos', Open(infos'[i].accesses)
        PROVE  tracking' /\ ThenAwaited(i)'
    <3>1. CASE i \in DOMAIN infos /\ Open(infos[i].accesses)
      BY <3>1, <1>1, <1>2 DEF OpenAwaited
    <3>2. CASE i = current /\ Open(E)
      <4>1. ThenAwaited(i)'
        BY <3>2, <1>1, <2>1, IfAwaits
      <4> QED
        BY <3>2, <4>1, <2>5, <1>1
    <3> QED
      BY <2>6, <2>8, <3>1, <3>2
  <2> QED
    BY <2>6, <2>8 DEF OpenAwaited
<1> QED
  BY <1>3, <1>4

LEMMA ThenCalls ==
  ASSUME TInv, WalkInv, BareInv, OpenAwaited, CallExternal \/ EnterCallee
  PROVE  BareInv' /\ OpenAwaited'
<1>1. /\ phase = "visit" /\ step = "cursor" /\ Top.todo # <<>> /\ step' = "arrive"
      /\ UNCHANGED <<program, tracking>> /\ (frames' = GoOn \/ \E f : frames' = Append(GoOn, f))
  BY DEF CallExternal, EnterCallee, FirstCall, AtCursor
<1>2. \A i : ThenAwaited(i) => ThenAwaited(i)'
  BY <1>1, AwaitedOn
<1>3. /\ BareInv'
      /\ \A i \in DOMAIN infos' : Open(infos'[i].accesses) =>
           i \in DOMAIN infos /\ Open(infos[i].accesses)
  BY ThenCall
<1> QED
  BY <1>1, <1>2, <1>3 DEF OpenAwaited

(* Nothing is awaited of a function whose visit ends.                      *)
LEMMA ThenLeaves ==
  ASSUME TInv, WalkInv, BareInv, OpenAwaited, LeaveCallee \/ LeaveRoot \/ LeaveLastRoot
  PROVE  /\ BareInv'
         /\ phase' = "visit" => OpenAwaited'
         /\ phase' = "unwind" => \A i \in DOMAIN infos' : ~Open(infos'[i].accesses)
<1>1. /\ phase = "visit" /\ Top.todo = <<>> /\ UNCHANGED <<program, tracking, infos, step>>
  BY DEF LeaveCallee, LeaveRoot, LeaveLastRoot
<1>2. BareInv'
  BY <1>1 DEF BareInv
<1> DEFINE n == Len(frames)
<1>3. /\ frames \in Seq(FrameSet(program)) /\ n \in Nat /\ n # 0
      /\ Top = frames[n] /\ step # "cursor"
  BY <1>1 DEF TInv, FramesGood, WalkInv, StackFits, Top, Last
<1>4. ASSUME NEW m \in 1..n, NEW k \in DOMAIN frames[m].todo PROVE m # n
  BY <1>1, <1>3, NoneIsSeq
<1>5. CASE LeaveCallee
  <2>1. n > 1 /\ frames' = Front(frames) /\ phase' = "visit"
    BY <1>1, <1>5 DEF LeaveCallee
  <2>2. Len(frames') = n - 1 /\ \A m \in 1..(n - 1) : frames'[m] = frames[m]
    <3>1. frames # <<>>
      BY <1>3
    <3> QED
      BY <1>3, <2>1, <3>1, FrontIs
  <2>3. ASSUME NEW i, ThenAwaited(i) PROVE ThenAwaited(i)'
    <3>1. PICK m \in 1..n :
            frames[m].info = i /\ \E k \in DOMAIN frames[m].todo : ThenKid(program, frames[m].todo[k])
      BY <2>3 DEF ThenAwaited
    <3>2. m # n
      BY <3>1, <1>4
    <3>3. m \in 1..Len(frames') /\ frames'[m] = frames[m]
      BY <3>2, <2>2, <1>3
    <3> QED
      BY <3>1, <3>3, <1>1, <1>3 DEF ThenAwaited
  <2> QED
    BY <1>1, <1>2, <2>1, <2>3 DEF OpenAwaited
<1>6. CASE LeaveRoot \/ LeaveLastRoot
  <2>1. n = 1
    BY <1>6 DEF LeaveRoot, LeaveLastRoot
  <2>2. \A i : ~ThenAwaited(i)
    BY <2>1, <1>4 DEF ThenAwaited
  <2>3. \A i \in DOMAIN infos : ~Open(infos[i].accesses)
    BY <2>2 DEF OpenAwaited
  <2> QED
    BY <1>1, <1>2, <2>3 DEF OpenAwaited
<1> QED
  BY <1>5, <1>6

LEMMA ThenUnwinds ==
  ASSUME TInv, TInv', BareInv, \A i \in DOMAIN infos : ~Open(infos[i].accesses), Unwind
  PROVE  BareInv' /\ \A i \in DOMAIN infos' : ~Open(infos'[i].accesses)
<1> DEFINE j == Head(work)
<1>1. infos' = unwind_func_info(infos, j, ArgsOf(j)) /\ InfosGood /\ InfosGood'
  BY DEF Unwind, TInv
<1> HIDE DEF j
<1>2. ASSUME NEW i \in DOMAIN infos'
      PROVE  /\ \A p \in DOMAIN infos'[i].accesses : Bare(infos'[i].accesses[p])
             /\ ~Open(infos'[i].accesses)
  <2>1. i \in DOMAIN infos
    BY <1>1 DEF unwind_func_info
  <2> DEFINE s == infos[i].accesses
             t == infos'[i].accesses
  <2>2. AllMarked(s, t)
    BY <1>1, <2>1, UnwindMarks
  <2>3. ~Open(s) /\ \A p \in DOMAIN s : Bare(s[p])
    BY <2>1 DEF BareInv
  <2> HIDE DEF s, t
  <2>4. /\ DOMAIN t = DOMAIN s
        /\ \A p \in DOMAIN s :
             /\ Bare(t[p])
             /\ t[p].type = "IfStmt" <=> s[p].type = "IfStmt"
             /\ t[p].type = "ThenBlock" <=> s[p].type = "ThenBlock"
    <3>1. \A p \in DOMAIN s : Marks(s[p], t[p]) /\ Bare(s[p])
      BY <2>2, <2>3 DEF AllMarked
    <3>2. ASSUME NEW p \in DOMAIN s
          PROVE  /\ Bare(t[p])
                 /\ t[p].type = "IfStmt" <=> s[p].type = "IfStmt"
                 /\ t[p].type = "ThenBlock" <=> s[p].type = "ThenBlock"
      BY <3>1 DEF Marks, Bare, NO_IDX
    <3> QED
      BY <2>2, <3>2 DEF AllMarked
  <2>5. ~Open(t)
    BY <2>3, <2>4 DEF Open
  <2> QED
    BY <2>4, <2>5 DEF t
<1> QED
  BY <1>2 DEF BareInv

LEMMA ThenBuilds ==
  ASSUME TInv, \A i \in DOMAIN infos : ~Open(infos[i].accesses), Build
  PROVE  ThenBlockAhead'
<1>1. /\ InfosGood /\ CallsAligned /\ NumRoots \in Nat /\ NumRoots <= Len(infos)
      /\ footprints' = SubSeq(build_var_access_footprint(infos), 1, NumRoots)
  BY NumRootsNat DEF TInv, RootsGood, Build
<1>2. PICK g : Builds(infos, g)
  BY <1>1, BuildExists
<1>3. build_var_access_footprint(infos) = g
  BY <1>1, <1>2, BuildIs
<1>4. DOMAIN g = 1..Len(infos) /\ Len(infos) \in Nat /\ DOMAIN infos = 1..Len(infos)
  BY <1>1, <1>2, SeqIs DEF InfosGood, Builds
<1>5. \A i \in DOMAIN infos : ~Open(g[i])
  BY <1>1, <1>2, BuildCloses
<1>6. /\ DOMAIN footprints' = 1..NumRoots
      /\ \A r \in 1..NumRoots : footprints'[r] = g[r]
  <2> DEFINE T == {g[r] : r \in DOMAIN g}
  <2>1. g = [i \in 1..Len(infos) |-> g[i]]
    BY <1>2, <1>4 DEF Builds
  <2>2. g \in Seq(T) /\ Len(g) = Len(infos)
    <3> HIDE DEF T
    <3> QED
      BY <2>1, <1>4, SeqMade DEF IsSeq, T
  <2> HIDE DEF T
  <2>3. SubSeq(g, 1, NumRoots) \in Seq(T) /\ Len(SubSeq(g, 1, NumRoots)) = NumRoots
        /\ \A r \in 1..NumRoots : SubSeq(g, 1, NumRoots)[r] = g[r]
    BY <2>2, <1>1, <1>4
  <2> QED
    BY <2>3, <1>1, <1>3, LenProperties
<1>7. \A fp \in Range(footprints') : ~Open(fp)
  BY <1>1, <1>4, <1>5, <1>6 DEF Range
<1> QED
  BY <1>7 DEF ThenBlockAhead, Open

LEMMA ThenStep ==
  ASSUME TInv, TInv', WalkInv, InlineInv, InlineInv', ThenInv, [TNext]_tvars
  PROVE  ThenInv'
<1>1. BareInv /\ (phase = "visit" => OpenAwaited)
  BY DEF ThenInv, BareInv, OpenAwaited
<1>2. SUFFICES /\ BareInv'
               /\ phase' = "visit" => OpenAwaited'
               /\ phase' = "unwind" => \A i \in DOMAIN infos' : ~Open(infos'[i].accesses)
               /\ phase' = "built" => ThenBlockAhead'
  BY DEF ThenInv, BareInv, OpenAwaited, ThenBlockAhead
<1>3. CASE CompareDefinition \/ RootsMissing \/ RootsFound
  <2>1. phase = "search" /\ phase' \in {"search", "ERR_NOT_FOUND", "visit"}
        /\ (phase' # "search" => infos' = infos)
    BY <1>3 DEF CompareDefinition, RootsMissing, RootsFound
  <2>2. \A i \in DOMAIN infos' : infos'[i].accesses = <<>>
    <3>1. CASE phase' = "search"
      BY <3>1 DEF InlineInv, Blank
    <3>2. CASE phase' # "search"
      BY <3>2, <2>1 DEF InlineInv, Blank
    <3> QED
      BY <3>1, <3>2
  <2> QED
    BY <2>1, <2>2, NoneIsSeq DEF BareInv, OpenAwaited, Open
<1>4. CASE PushParent \/ PopAncestor \/ Settle \/ MarkBranch
  <2>1. phase = "visit" /\ phase' = "visit"
    BY <1>4 DEF PushParent, PopAncestor, Settle, MarkBranch, AtCursor
  <2> QED
    BY <2>1, <1>1, <1>4, ThenStack
<1>5. CASE VisitDecl \/ VisitIf \/ VisitVariable \/ VisitOther \/ SkipCall
  <2>1. phase = "visit" /\ phase' = "visit"
    BY <1>5 DEF Visit, VisitDecl, VisitIf, VisitVariable, VisitOther, SkipCall, AtCursor
  <2> QED
    BY <2>1, <1>1, <1>5, ThenVisits
<1>6. CASE CallExternal \/ EnterCallee
  <2>1. phase = "visit" /\ phase' = "visit"
    BY <1>6 DEF CallExternal, EnterCallee, FirstCall, AtCursor
  <2> QED
    BY <2>1, <1>1, <1>6, ThenCalls
<1>7. CASE LeaveCallee \/ LeaveRoot \/ LeaveLastRoot
  <2>1. phase = "visit" /\ phase' \in {"visit", "unwind"}
    BY <1>7 DEF LeaveCallee, LeaveRoot, LeaveLastRoot
  <2> QED
    BY <2>1, <1>1, <1>7, ThenLeaves
<1>8. CASE Unwind
  <2>1. phase = "unwind" /\ phase' = "unwind"
    BY <1>8 DEF Unwind
  <2> QED
    BY <2>1, <1>1, <1>8, ThenUnwinds DEF ThenInv
<1>9. CASE UnwindCrashes \/ Build
  <2>1. phase = "unwind" /\ infos' = infos /\ phase' \in {"crashed", "built"}
    BY <1>9 DEF UnwindCrashes, Build
  <2>2. BareInv'
    BY <2>1, <1>1 DEF BareInv
  <2>3. phase' = "built" => ThenBlockAhead'
    BY <2>1, <1>9, ThenBuilds DEF ThenInv, UnwindCrashes
  <2> QED
    BY <2>1, <2>2, <2>3
<1>10. CASE Stopped \/ UNCHANGED tvars
  <2>1. UNCHANGED <<program, tracking, phase, step, infos, frames, footprints>>
    BY <1>10 DEF Stopped, tvars, visitor
  <2>2. \A i : ThenAwaited(i)' <=> ThenAwaited(i)
    BY <2>1 DEF ThenAwaited
  <2> QED
    BY <2>1, <2>2, <1>1 DEF BareInv, OpenAwaited, ThenInv, ThenBlockAhead
<1> QED
  BY <1>3, <1>4, <1>5, <1>6, <1>7, <1>8, <1>9, <1>10 DEF TNext

(* For every program, the scan of annotate_lock_protection_ranges for the  *)
(* then block of an if ends inside the footprint, although it does not test*)
(* for the end: the visitor pushes IfStmt and ThenBlock at different       *)
(* cursors, callees may come between, and unwinding rewrites entries in    *)
(* place.                                                                  *)
THEOREM ThenBlocksFound == TSpec => []ThenBlockAhead
<1>1. TInit => ThenInv
  BY NoneIsSeq DEF TInit, ThenInv, ThenBlockAhead
<1>2. ThenInv => ThenBlockAhead
  BY DEF ThenInv
<1> QED
  BY <1>1, <1>2, WalkAlways, TInvInit, TInvStep, InlineInit, InlineStep, ThenStep, PTL DEF TSpec
-----------------------------------------------------------------------------
(* What is still to be visited                                             *)

LEMMA AfterAhead ==
  ASSUME NEW p \in Programs, NEW d, NEW todo, TodoFits(p, todo, d), todo # <<>>,
         NEW t, t = After(p, todo), NEW c
  PROVE  Ahead(p, t, c) <=> Ahead(p, todo, c) /\ c # todo[1]
<1> DEFINE h == todo[1]
           kids == p.kids[h]
           n == Len(kids)
<1>1. /\ todo \in Seq(DOMAIN p.kind) /\ kids \in Seq(DOMAIN p.kind) /\ h \in DOMAIN p.kind
      /\ 1 \in DOMAIN todo /\ t = kids \o Tail(todo)
  BY TodoFacts, TreeFacts DEF TodoFits, After
<1>2. \A k \in DOMAIN todo : k # 1 => Under(p, h) \cap Under(p, todo[k]) = {}
  <2>1. \A k \in DOMAIN todo : k # 1 => 1 < k
    BY <1>1, LenProperties
  <2> QED
    BY <2>1, <1>1 DEF TodoFits
<1>3. h \in Under(p, h)
  BY <1>1 DEF Under
<1>4. \A k \in DOMAIN kids : Under(p, kids[k]) \subseteq Under(p, h) \ {h}
  BY <1>1, UnderKid
<1>5. ASSUME c \in Under(p, h), c # h
      PROVE  \E k \in DOMAIN kids : c \in Under(p, kids[k])
  <2>1. c \in DOMAIN p.kind /\ h \in p.ancestors[c]
    BY <1>5 DEF Under
  <2>2. PICK k \in DOMAIN kids : \A l \in DOMAIN kids : kids[l] \in p.ancestors[c] \cup {c} <=> l = k
    BY <2>1, KidAbove
  <2> QED
    BY <2>1, <2>2 DEF Under
<1>6. /\ \A k \in DOMAIN todo : k # 1 => \E j \in DOMAIN t : t[j] = todo[k]
      /\ \A k \in DOMAIN kids : \E j \in DOMAIN t : t[j] = kids[k]
  BY AfterKeeps
<1>7. ASSUME NEW j \in DOMAIN t
      PROVE  \/ \E k \in DOMAIN kids : t[j] = kids[k]
             \/ \E k \in DOMAIN todo : k # 1 /\ t[j] = todo[k]
  <2> HIDE DEF h, kids, n
  <2>1. /\ t \in Seq(DOMAIN p.kind) /\ n \in Nat /\ Len(todo) \in Nat \ {0}
        /\ Len(t) = n + Len(todo) - 1 /\ Len(t) \in Nat /\ DOMAIN t = 1..Len(t)
        /\ DOMAIN kids = 1..n /\ DOMAIN todo = 1..Len(todo)
        /\ \A i \in 1..n : t[i] = kids[i]
        /\ Continues(t, n, todo)
    BY <1>1, RecurseIs DEF n
  <2>2. CASE j > n
    <3>1. PICK i \in 2..Len(todo) : j = n + i - 1 /\ t[j] = todo[i]
      BY <2>1, <2>2 DEF Continues
    <3>2. i \in 1..Len(todo) /\ i # 1
      BY <2>1
    <3> QED
      BY <3>1, <3>2, <2>1
  <2>3. CASE ~(j > n)
    <3>1. j \in 1..n
      BY <2>1, <2>3, <1>1, LenProperties
    <3> QED
      BY <3>1, <2>1
  <2> QED
    BY <2>2, <2>3
<1> HIDE DEF h, kids, n
<1>8. ASSUME Ahead(p, t, c)
      PROVE  Ahead(p, todo, c) /\ c # h
  <2>1. PICK j \in DOMAIN t : c \in Under(p, t[j])
    BY <1>8 DEF Ahead
  <2>2. CASE \E k \in DOMAIN kids : t[j] = kids[k]
    BY <2>1, <2>2, <1>1, <1>4 DEF Ahead, h
  <2>3. CASE \E k \in DOMAIN todo : k # 1 /\ t[j] = todo[k]
    BY <2>1, <2>3, <1>2, <1>3 DEF Ahead
  <2> QED
    BY <1>7, <2>2, <2>3
<1>9. ASSUME Ahead(p, todo, c), c # h
      PROVE  Ahead(p, t, c)
  <2>1. PICK k \in DOMAIN todo : c \in Under(p, todo[k])
    BY <1>9 DEF Ahead
  <2>2. CASE k = 1
    BY <2>1, <2>2, <1>5, <1>6, <1>9 DEF Ahead, h
  <2>3. CASE k # 1
    BY <2>1, <2>3, <1>6 DEF Ahead
  <2> QED
    BY <2>2, <2>3
<1> QED
  BY <1>8, <1>9 DEF h

(* All of a function comes before any of it.                               *)
LEMMA BodyAhead ==
  ASSUME ScalarsGood, NEW fn \in DOMAIN program.body, NEW c \in CursorsOf(fn)
  PROVE  Ahead(program, program.kids[program.body[fn]], c)
<1> DEFINE d == program.body[fn]
<1>1. program \in Programs /\ d \in DOMAIN program.kind
  BY BodyFacts
<1>2. c \in DOMAIN program.kind /\ d \in program.ancestors[c]
  BY DEF CursorsOf, Ancestors
<1> HIDE DEF d
<1>3. PICK k \in DOMAIN program.kids[d] :
        \A l \in DOMAIN program.kids[d] :
          program.kids[d][l] \in program.ancestors[c] \cup {c} <=> l = k
  BY <1>1, <1>2, KidAbove
<1> QED
  BY <1>2, <1>3 DEF Ahead, Under, d

(* The cursor visited is not pending any more, and nothing else changes.   *)
LEMMA PendingOn ==
  ASSUME TInv, WalkInv, phase = "visit", Top.todo # <<>>, UNCHANGED program,
         \/ frames' = GoOn
         \/ \E f : frames' = Append(GoOn, f) /\ f.info \notin DOMAIN infos,
         NEW i \in DOMAIN infos, NEW c
  PROVE  /\ Pending(i, c)' <=> Pending(i, c) /\ ~(i = current /\ c = Here)
         /\ Pending(current, Here)
<1> DEFINE n == Len(frames)
<1>1. /\ GoOn \in Seq(FrameSet(program)) /\ Len(GoOn) = n /\ n \in Nat
      /\ \A m \in 1..n : /\ GoOn[m].info = frames[m].info
                         /\ GoOn[m].todo = IF m = n THEN Recurse ELSE frames[m].todo
  BY GoOnFacts DEF TInv
<1>2. /\ n \in 1..n /\ Top = frames[n] /\ frames[n].info = current
      /\ \A m \in 1..n : frames[m].info = current => m = n
      /\ \A m \in 1..n : frames[m].info \in DOMAIN infos
  <2>1. /\ n \in Nat \ {0} /\ frames[n].info = current
        /\ \A m \in 1..n : frames[m].info \in DOMAIN infos
        /\ \A m \in 1..(n - 1) : frames[m].info # current
    BY VisitFacts
  <2>2. \A m \in 1..n : m # n => m \in 1..(n - 1)
    BY <2>1
  <2> QED
    BY <2>1, <2>2 DEF Top, Last
<1>3. \A x : Ahead(program, Recurse, x) <=> Ahead(program, Top.todo, x) /\ x # Here
  <2>1. /\ program \in Programs /\ TodoFits(program, Top.todo, Body(current))
        /\ Here = Top.todo[1] /\ Recurse = After(program, Top.todo)
    BY WalkFacts DEF WalkInv
  <2> DEFINE todo == Top.todo
  <2> HIDE DEF todo
  <2> QED
    BY <2>1, AfterAhead DEF todo
<1>4. Pending(current, Here)
  <2>1. Here = Top.todo[1] /\ 1 \in DOMAIN Top.todo /\ Here \in DOMAIN program.kind
    BY WalkFacts DEF WalkInv
  <2>2. Ahead(program, Top.todo, Here)
    BY <2>1 DEF Ahead, Under
  <2> QED
    BY <2>2, <1>2 DEF Pending
<1> DEFINE Is(fs, m) == fs[m].info = i /\ Ahead(program, fs[m].todo, c)
<1>5. Pending(i, c)' <=> \E m \in 1..n : Is(GoOn, m)
  <2>1. CASE frames' = GoOn
    BY <2>1, <1>1 DEF Pending
  <2>2. CASE \E f : frames' = Append(GoOn, f) /\ f.info \notin DOMAIN infos
    <3>1. PICK f : frames' = Append(GoOn, f) /\ f.info \notin DOMAIN infos
      BY <2>2
    <3>2. IsSeq(GoOn)
      BY <1>1, SeqTyped
    <3>3. /\ Len(frames') = n + 1 /\ frames'[n + 1] = f
          /\ \A m \in 1..n : frames'[m] = GoOn[m]
      BY <3>1, <3>2, <1>1, SeqAppend
    <3>4. \A m \in 1..(n + 1) : m \in 1..n \/ m = n + 1
      BY <1>1
    <3>5. \A m \in 1..n : m \in 1..(n + 1)
      BY <1>1
    <3>6. Pending(i, c)' <=> \E m \in 1..(n + 1) : Is(frames', m)
      BY <3>3 DEF Pending
    <3>7. ~Is(frames', n + 1)
      BY <3>1, <3>3
    <3> HIDE DEF n
    <3> QED
      BY <3>3, <3>4, <3>5, <3>6, <3>7
  <2> QED
    BY <2>1, <2>2
<1>6. \A m \in 1..n : Is(GoOn, m) <=> Is(frames, m) /\ ~(i = current /\ c = Here)
  BY <1>1, <1>2, <1>3
<1>7. Pending(i, c) <=> \E m \in 1..n : Is(frames, m)
  BY DEF Pending
<1> HIDE DEF Is, n
<1> QED
  BY <1>4, <1>5, <1>6, <1>7
-----------------------------------------------------------------------------
(* Entries come one at a time                                              *)

(* The accesses t are s and at most one more, of cursor x.                 *)
Extends(s, t, x) ==
  /\ DOMAIN s \subseteq DOMAIN t /\ \A n \in DOMAIN s : t[n] = s[n]
  /\ \A n \in DOMAIN t \ DOMAIN s : t[n].origin = x
  /\ \A n \in DOMAIN t \ DOMAIN s, l \in DOMAIN t \ DOMAIN s : n = l

LEMMA ExtendsNone ==
  ASSUME NEW s, IsSeq(s), NEW x
  PROVE  Extends(s, s \o <<>>, x)
<1>1. s \o <<>> = s
  BY ConcatNone
<1> QED
  BY <1>1 DEF Extends

LEMMA ExtendsOne ==
  ASSUME NEW s, IsSeq(s), NEW e, NEW t, t = s \o <<e>> \/ t = Append(s, e)
  PROVE  Extends(s, t, e.origin) /\ \E n \in DOMAIN t \ DOMAIN s : t[n] = e
<1>1. Len(s) \in Nat /\ DOMAIN s = 1..Len(s)
  BY SeqIs
<1>2. /\ DOMAIN t = 1..(Len(s) + 1) /\ t[Len(s) + 1] = e
      /\ \A n \in 1..Len(s) : t[n] = s[n]
  <2>1. CASE t = s \o <<e>>
    <3>1. Single(<<e>>, e)
      BY DEF Single
    <3> QED
      BY <2>1, <3>1, AppendedOne
  <2>2. CASE t = Append(s, e)
    <3>1. /\ IsSeq(t) /\ Len(t) = Len(s) + 1 /\ t[Len(s) + 1] = e
          /\ \A n \in 1..Len(s) : t[n] = s[n]
      BY <2>2, SeqAppend
    <3>2. DOMAIN t = 1..Len(t)
      BY <3>1, SeqIs
    <3> QED
      BY <3>1, <3>2
  <2> QED
    BY <2>1, <2>2
<1>3. \A n \in DOMAIN t \ DOMAIN s : n = Len(s) + 1
  BY <1>1, <1>2
<1>4. DOMAIN s \subseteq DOMAIN t /\ Len(s) + 1 \in DOMAIN t \ DOMAIN s
  BY <1>1, <1>2
<1> QED
  BY <1>1, <1>2, <1>3, <1>4 DEF Extends

(* What the steps of the visit may do to the FuncInfos.                    *)
Grows(x) ==
  /\ DOMAIN infos \subseteq DOMAIN infos'
  /\ \A i \in DOMAIN infos :
       /\ infos'[i].fn = infos[i].fn
       /\ infos'[i].in_system_header = infos[i].in_system_header
       /\ infos'[i].has_definition = infos[i].has_definition
       /\ i # current => infos'[i].accesses = infos[i].accesses
  /\ Extends(infos[current].accesses, infos'[current].accesses, x)
  /\ \A i \in DOMAIN infos' \ DOMAIN infos : infos'[i].accesses = <<>>

LEMMA GrowsSeen ==
  ASSUME NEW x, Grows(x), UNCHANGED program, NEW i \in DOMAIN infos, NEW c, Seen(i, c)
  PROVE  Seen(i, c)'
<1>1. CalledFns \subseteq CalledFns'
  <2>1. NumRoots' = NumRoots
    BY DEF NumRoots
  <2>2. \A j \in CalledInfos : j \in CalledInfos' /\ infos'[j].fn = infos[j].fn
    BY <2>1 DEF CalledInfos, Grows
  <2> QED
    BY <2>2 DEF CalledFns
<1>2. DOMAIN infos[i].accesses \subseteq DOMAIN infos'[i].accesses
      /\ \A n \in DOMAIN infos[i].accesses : infos'[i].accesses[n] = infos[i].accesses[n]
  BY DEF Grows, Extends
<1>3. \A n \in DOMAIN infos[i].accesses : OriginAt(i, n, c) => OriginAt(i, n, c)'
  BY <1>2 DEF OriginAt
<1>4. Kind(c)' = Kind(c) /\ Sym(c)' = Sym(c) /\ Subscript(c)' = Subscript(c)
  BY DEF Kind, Sym, Subscript, Ancestors, UnderFirst, Kids
<1> QED
  BY <1>1, <1>2, <1>3, <1>4 DEF Seen

(* No cursor gets a second entry, and none an entry too early.             *)
LEMMA GrowsOnce ==
  ASSUME NEW x, Grows(x), UNCHANGED program, OriginsOnce, OriginsPast,
         \A i \in DOMAIN infos : \A c \in DOMAIN program.kind : Pending(i, c)' => Pending(i, c),
         NEW k, k = current, x \in DOMAIN program.kind => Pending(k, x) /\ ~Pending(k, x)'
  PROVE  OriginsOnce' /\ OriginsPast'
<1>1. ASSUME NEW i \in DOMAIN infos', NEW c \in DOMAIN program.kind,
             NEW n \in DOMAIN infos'[i].accesses, infos'[i].accesses[n].origin = c
      PROVE  /\ i \in DOMAIN infos
             /\ \/ n \in DOMAIN infos[i].accesses /\ OriginAt(i, n, c)
                \/ i = current /\ c = x /\ n \notin DOMAIN infos[i].accesses
  <2>1. i \in DOMAIN infos
    BY <1>1, NoneIsSeq DEF Grows
  <2>2. CASE i # current
    BY <2>1, <2>2, <1>1 DEF Grows, OriginAt
  <2>3. CASE i = current
    BY <2>1, <2>3, <1>1 DEF Grows, OriginAt, Extends
  <2> QED
    BY <2>1, <2>2, <2>3
<1>2. ASSUME NEW i \in DOMAIN infos', NEW c \in DOMAIN program.kind,
             NEW n \in DOMAIN infos'[i].accesses, NEW l \in DOMAIN infos'[i].accesses,
             infos'[i].accesses[n].origin = c, infos'[i].accesses[l].origin = c
      PROVE  n = l
  <2>1. i \in DOMAIN infos
    BY <1>1, <1>2
  <2>2. CASE OriginAt(i, n, c) /\ OriginAt(i, l, c)
    BY <2>1, <2>2 DEF OriginsOnce, OriginAt
  <2>3. CASE i = current /\ c = x /\ n \notin DOMAIN infos[i].accesses /\ l \notin DOMAIN infos[i].accesses
    BY <2>1, <2>3, <1>2 DEF Grows, Extends
  <2>4. \A m \in DOMAIN infos[i].accesses : ~(OriginAt(i, m, c) /\ i = current /\ c = x)
    BY <2>1 DEF OriginsPast
  <2> QED
    BY <1>1, <1>2, <2>2, <2>3, <2>4
<1>3. ASSUME NEW i \in DOMAIN infos', NEW c \in DOMAIN program.kind,
             NEW n \in DOMAIN infos'[i].accesses, infos'[i].accesses[n].origin = c
      PROVE  ~Pending(i, c)'
  <2>1. CASE n \in DOMAIN infos[i].accesses /\ OriginAt(i, n, c)
    BY <2>1, <1>1, <1>3 DEF OriginsPast
  <2>2. CASE i = current /\ c = x
    BY <2>2
  <2> QED
    BY <2>1, <2>2, <1>1, <1>3
<1> QED
  BY <1>2, <1>3 DEF OriginsOnce, OriginsPast, OriginAt

(* A step pushes at most one entry.                                        *)
LEMMA PushGrows ==
  ASSUME TInv, phase = "visit", NEW e, NEW E, E \in {<<>>, <<e>>}, Pushes(E)
  PROVE  Grows(e.origin)
<1>1. /\ DOMAIN infos' = DOMAIN infos /\ current \in DOMAIN infos
      /\ \A i \in DOMAIN infos :
           /\ infos'[i].fn = infos[i].fn
           /\ infos'[i].in_system_header = infos[i].in_system_header
           /\ infos'[i].has_definition = infos[i].has_definition
           /\ i # current => infos'[i].accesses = infos[i].accesses
      /\ infos'[current].accesses = infos[current].accesses \o E
  BY VisitFacts DEF Pushes
<1>2. IsSeq(infos[current].accesses)
  BY VisitFacts DEF InfosGood, InfoGood
<1> DEFINE s == infos[current].accesses
<1>3. Extends(s, infos'[current].accesses, e.origin)
  <2> HIDE DEF s
  <2>1. IsSeq(s) /\ infos'[current].accesses = s \o E
    BY <1>1, <1>2 DEF s
  <2>2. CASE E = <<>>
    BY <2>1, <2>2, ExtendsNone
  <2>3. CASE E = <<e>>
    BY <2>1, <2>3, ExtendsOne
  <2> QED
    BY <2>2, <2>3
<1> QED
  BY <1>1, <1>3 DEF Grows
-----------------------------------------------------------------------------
(* The steps, one by one                                                   *)

LEMMA PushCallees ==
  ASSUME TInv, phase = "visit", NEW E, Pushes(E), UNCHANGED program
  PROVE  CalledFns' = CalledFns /\ (CalleesOnce => CalleesOnce')
<1>1. /\ DOMAIN infos' = DOMAIN infos
      /\ \A i \in DOMAIN infos :
           /\ infos'[i].fn = infos[i].fn
           /\ infos'[i].in_system_header = infos[i].in_system_header
           /\ infos'[i].has_definition = infos[i].has_definition
  BY DEF Pushes
<1>2. CalledInfos' = CalledInfos /\ CalledInfos \subseteq DOMAIN infos
  BY <1>1 DEF CalledInfos, NumRoots
<1> QED
  BY <1>1, <1>2 DEF CalledFns, CalleesOnce, InSystemHeader, HasDefinition

LEMMA ReachPush ==
  ASSUME TInv, WalkInv, VisitedInv, phase = "visit", UNCHANGED <<program, next, touched_func_usrs>>,
         NEW e, NEW E, E \in {<<>>, <<e>>}, Pushes(E), NEW k, k = current, NEW h,
         \/ UNCHANGED frames /\ e.origin = NoCursor
         \/ /\ Top.todo # <<>> /\ frames' = GoOn /\ h = Here
            /\ e.origin \in {NoCursor, h} /\ Seen(k, h)'
  PROVE  VisitedInv'
<1>1. Grows(e.origin)
  BY PushGrows
<1>2. /\ \A i \in DOMAIN infos : \A c : Pending(i, c)' => Pending(i, c)
      /\ \A i \in DOMAIN infos : \A c : Pending(i, c) =>
           Pending(i, c)' \/ (i = k /\ c = h /\ Seen(k, h)')
      /\ e.origin = NoCursor \/ (Pending(k, e.origin) /\ ~Pending(k, e.origin)')
  <2>1. CASE UNCHANGED frames /\ e.origin = NoCursor
    BY <2>1 DEF Pending
  <2>2. CASE Top.todo # <<>> /\ frames' = GoOn /\ h = Here
             /\ e.origin \in {NoCursor, h} /\ Seen(k, h)'
    <3>1. \A i \in DOMAIN infos : \A c :
            /\ Pending(i, c)' <=> Pending(i, c) /\ ~(i = current /\ c = Here)
            /\ Pending(current, Here)
      BY <2>2, PendingOn
    <3>2. k \in DOMAIN infos
      BY VisitFacts
    <3> QED
      BY <2>2, <3>1, <3>2
  <2> QED
    BY <2>1, <2>2
<1>3. e.origin \in DOMAIN program.kind => e.origin # NoCursor
  BY TreeFacts DEF TInv, ScalarsGood
<1>4. OriginsOnce' /\ OriginsPast'
  BY <1>1, <1>2, <1>3, GrowsOnce DEF VisitedInv
<1>5. PendingOrSeen'
  <2> SUFFICES ASSUME NEW i \in DOMAIN infos', (Started(i) /\ ~External(infos[i]))',
                      NEW c \in CursorsOf(infos[i].fn)'
               PROVE  Pending(i, c)' \/ Seen(i, c)'
    BY DEF PendingOrSeen
  <2>1. /\ i \in DOMAIN infos /\ infos'[i].fn = infos[i].fn
        /\ infos'[i].in_system_header = infos[i].in_system_header
        /\ infos'[i].has_definition = infos[i].has_definition
    BY DEF Pushes
  <2>2. Started(i) /\ ~External(infos[i]) /\ c \in CursorsOf(infos[i].fn)
    BY <2>1 DEF Started, NumRoots, External, CursorsOf, Ancestors
  <2>3. Pending(i, c) \/ Seen(i, c)
    BY <2>1, <2>2 DEF VisitedInv, PendingOrSeen
  <2>4. Seen(i, c) => Seen(i, c)'
    BY <1>1, <2>1, GrowsSeen
  <2> QED
    BY <1>2, <2>1, <2>3, <2>4
<1> QED
  BY <1>4, <1>5, PushCallees DEF VisitedInv

(* The steps of the visit push no entry but one of the cursor visited.     *)
LEMMA StackPushesMark ==
  ASSUME TInv, phase = "visit", PushParent \/ PopAncestor \/ Settle \/ MarkBranch
  PROVE  \E e, E : e.origin = NoCursor /\ E \in {<<>>, <<e>>} /\ Pushes(E)
<1>1. \A type : Marker(type).origin = NoCursor
  BY DEF Marker, VarAccess
<1>2. CASE PushParent \/ Settle
  BY <1>1, <1>2, StepPushes
<1>3. CASE PopAncestor
  <2>1. Ended(Last(ancestry_stack)) \in {<<>>, <<Marker("EndIf")>>}
    BY DEF Ended, When
  <2> QED
    BY <1>1, <1>3, <2>1, StepPushes
<1>4. CASE MarkBranch
  <2>1. BranchMarkers \in {<<>>, <<Marker("ThenBlock")>>, <<Marker("ElseStmt")>>}
    BY DEF BranchMarkers
  <2>2. Pushes(BranchMarkers)
    BY <1>4, StepPushes
  <2> QED
    BY <1>1, <2>1, <2>2
<1> QED
  BY <1>2, <1>3, <1>4

LEMMA ReachStack ==
  ASSUME TInv, WalkInv, VisitedInv, PushParent \/ PopAncestor \/ Settle \/ MarkBranch
  PROVE  VisitedInv'
<1>1. phase = "visit" /\ UNCHANGED <<program, next, frames, touched_func_usrs>>
  BY DEF PushParent, PopAncestor, Settle, MarkBranch, AtCursor
<1>2. PICK e, E : e.origin = NoCursor /\ E \in {<<>>, <<e>>} /\ Pushes(E)
  BY <1>1, StackPushesMark
<1> QED
  BY <1>1, <1>2, ReachPush

(* A function is called for the first time: CalledFns gets it.             *)
LEMMA CallGrows ==
  ASSUME TInv, CallExternal \/ EnterCallee, NEW k, k = current
  PROVE  /\ Grows(NoCursor) /\ DOMAIN infos' = DOMAIN infos \cup {Len(infos) + 1}
         /\ Len(infos) + 1 \notin DOMAIN infos /\ Len(infos) + 1 > NumRoots
         /\ infos'[Len(infos) + 1] = Callee(Sym(Here))
<1> DEFINE n == Len(infos)
<1>1. phase = "visit"
  BY DEF CallExternal, EnterCallee, FirstCall, AtCursor
<1>2. /\ DOMAIN infos' = 1..(n + 1) /\ infos'[n + 1] = Callee(Sym(Here))
      /\ \A i \in DOMAIN infos :
           /\ infos'[i].fn = infos[i].fn
           /\ infos'[i].in_system_header = infos[i].in_system_header
           /\ infos'[i].has_definition = infos[i].has_definition
           /\ i # current => infos'[i] = infos[i]
      /\ infos'[current].accesses = Append(infos[current].accesses, CallEntry(Sym(Here)))
  BY CallFacts
<1>3. /\ n \in Nat /\ DOMAIN infos = 1..n /\ current \in DOMAIN infos
      /\ NumRoots \in Nat /\ NumRoots <= n /\ IsSeq(infos[current].accesses)
  BY <1>1, VisitFacts DEF InfosGood, InfoGood
<1>4. /\ DOMAIN infos' = DOMAIN infos \cup {n + 1} /\ n + 1 \notin DOMAIN infos
      /\ n + 1 > NumRoots
  BY <1>2, <1>3
<1>5. Extends(infos[current].accesses, infos'[current].accesses, NoCursor)
  <2> DEFINE s == infos[current].accesses
             e == CallEntry(Sym(Here))
  <2>1. e.origin = NoCursor
    BY DEF CallEntry, VarAccess
  <2> HIDE DEF s, e
  <2>2. IsSeq(s) /\ infos'[current].accesses = Append(s, e)
    BY <1>2, <1>3 DEF s, e
  <2>3. Extends(s, infos'[current].accesses, e.origin)
    BY <2>2, ExtendsOne
  <2> QED
    BY <2>1, <2>3 DEF s
<1>6. infos'[n + 1].accesses = <<>>
  BY <1>2 DEF Callee, FuncInfo
<1>7. Grows(NoCursor)
  BY <1>2, <1>4, <1>5, <1>6 DEF Grows
<1> QED
  BY <1>2, <1>4, <1>7

LEMMA ReachCall ==
  ASSUME TInv, WalkInv, VisitedInv, CallExternal \/ EnterCallee
  PROVE  VisitedInv'
<1> DEFINE n == Len(infos)
           fn == Sym(Here)
<1>1. /\ phase = "visit" /\ Top.todo # <<>> /\ UNCHANGED <<program, next>>
      /\ Kind(Here) = "Call" /\ fn \notin touched_func_usrs
      /\ touched_func_usrs' = touched_func_usrs \cup {fn}
  BY DEF CallExternal, EnterCallee, FirstCall, AtCursor
<1>2. /\ Grows(NoCursor) /\ DOMAIN infos' = DOMAIN infos \cup {n + 1}
      /\ n + 1 \notin DOMAIN infos /\ n + 1 > NumRoots
      /\ infos'[n + 1] = Callee(fn)
  BY CallGrows
<1>3. /\ infos'[n + 1].fn = fn
      /\ infos'[n + 1].in_system_header = InSystemHeader(fn)
      /\ infos'[n + 1].has_definition = HasDefinition(fn)
      /\ infos'[n + 1].accesses = <<>>
  BY <1>2 DEF Callee, FuncInfo
<1>4. /\ CalledInfos' = CalledInfos \cup {n + 1} /\ NumRoots' = NumRoots
      /\ \A i \in CalledInfos : i \in DOMAIN infos /\ infos'[i].fn = infos[i].fn
  BY <1>1, <1>2 DEF CalledInfos, NumRoots, Grows
<1>5. CalledFns' = CalledFns \cup {fn} /\ fn \notin CalledFns
  <2> HIDE DEF n, fn
  <2> QED
    BY <1>1, <1>3, <1>4 DEF CalledFns, VisitedInv
<1>6. CalleesOnce'
  <2> SUFFICES ASSUME NEW i \in CalledInfos'
               PROVE  /\ infos'[i].in_system_header = InSystemHeader(infos'[i].fn)
                      /\ infos'[i].has_definition = HasDefinition(infos'[i].fn)
                      /\ \A j \in CalledInfos' : infos'[i].fn = infos'[j].fn => i = j
    BY <1>1 DEF CalleesOnce, InSystemHeader, HasDefinition
  <2> HIDE DEF n, fn
  <2>1. \A j \in CalledInfos : infos'[j].fn # fn
    BY <1>4, <1>5 DEF CalledFns
  <2>2. CASE i = n + 1
    BY <2>1, <2>2, <1>3, <1>4
  <2>3. CASE i \in CalledInfos
    BY <2>1, <2>3, <1>2, <1>3, <1>4 DEF VisitedInv, CalleesOnce, Grows
  <2> QED
    BY <1>4, <2>2, <2>3
<1>7. \/ frames' = GoOn
      \/ \E f : frames' = Append(GoOn, f) /\ f.info \notin DOMAIN infos
  BY <1>2 DEF CallExternal, EnterCallee, Frame
<1>8. \A i \in DOMAIN infos : \A c :
        Pending(i, c)' <=> Pending(i, c) /\ ~(i = current /\ c = Here)
  BY <1>1, <1>7, PendingOn
<1>9. OriginsOnce' /\ OriginsPast'
  <2>1. PICK k : k = current
    OBVIOUS
  <2>2. NoCursor \notin DOMAIN program.kind
    BY TreeFacts DEF TInv, ScalarsGood
  <2>3. VisitedInv => OriginsOnce /\ OriginsPast
    BY DEF VisitedInv
  <2> QED
    BY <1>1, <1>2, <1>8, <2>1, <2>2, <2>3, GrowsOnce
<1>10. PendingOrSeen'
  <2> SUFFICES ASSUME NEW i \in DOMAIN infos', (Started(i) /\ ~External(infos[i]))',
                      NEW c \in CursorsOf(infos[i].fn)'
               PROVE  Pending(i, c)' \/ Seen(i, c)'
    BY DEF PendingOrSeen
  <2>1. CASE i \in DOMAIN infos
    <3>1. Started(i) /\ ~External(infos[i]) /\ c \in CursorsOf(infos[i].fn)
      BY <1>1, <1>2, <1>4, <2>1 DEF Grows, Started, External, CursorsOf, Ancestors
    <3>2. Pending(i, c) \/ Seen(i, c)
      BY <2>1, <3>1 DEF VisitedInv, PendingOrSeen
    <3>3. Seen(i, c) => Seen(i, c)'
      BY <1>1, <1>2, <2>1, GrowsSeen
    <3>4. ASSUME c = Here PROVE Seen(i, c)'
      <4>1. Kind(c) = "Call" /\ Sym(c) = fn
        BY <1>1, <3>4
      <4>2. Kind(c)' = "Call" /\ Sym(c)' = fn
        BY <1>1, <4>1 DEF Kind, Sym
      <4> QED
        BY <1>5, <4>2 DEF Seen
    <3> QED
      BY <1>8, <2>1, <3>2, <3>3, <3>4
  <2>2. CASE i = n + 1
    <3>1. External(infos[i])' <=> External(Callee(fn))
      BY <1>2, <2>2 DEF External
    <3>2. CASE CallExternal
      BY <3>1, <3>2 DEF CallExternal
    <3>3. CASE EnterCallee
      <4>1. fn \in DOMAIN program.body /\ c \in CursorsOf(fn)
        <5>1. ~External(Callee(fn))
          BY <3>1
        <5>2. External(Callee(fn)) <=> InSystemHeader(fn) \/ ~HasDefinition(fn)
          BY DEF External, Callee, FuncInfo
        <5>3. c \in CursorsOf(fn)
          BY <1>1, <1>3, <2>2 DEF CursorsOf, Ancestors
        <5> QED
          BY <5>1, <5>2, <5>3 DEF HasDefinition
      <4>2. Ahead(program, program.kids[program.body[fn]], c)
        BY <4>1, BodyAhead DEF TInv
      <4>3. frames' = Append(GoOn, Frame(n + 1, Here, fn))
        BY <3>3 DEF EnterCallee
      <4>4. GoOn \in Seq(FrameSet(program)) /\ Len(GoOn) \in Nat
        BY <1>1, GoOnFacts DEF TInv
      <4> DEFINE f == Frame(n + 1, Here, fn)
      <4>5. f.info = n + 1 /\ f.todo = program.kids[program.body[fn]]
        BY DEF Frame, Kids
      <4> HIDE DEF f
      <4>6. Len(frames') = Len(GoOn) + 1 /\ frames'[Len(GoOn) + 1] = f
        <5>1. IsSeq(GoOn)
          BY <4>4, SeqTyped
        <5> QED
          BY <4>3, <5>1, SeqAppend DEF f
      <4>7. Len(GoOn) + 1 \in 1..Len(frames')
        BY <4>4, <4>6
      <4>8. Pending(i, c)'
        BY <4>2, <4>5, <4>6, <4>7, <1>1, <2>2 DEF Pending
      <4> QED
        BY <4>8
    <3> QED
      BY <3>2, <3>3
  <2> QED
    BY <1>2, <2>1, <2>2
<1> QED
  BY <1>1, <1>5, <1>6, <1>9, <1>10 DEF VisitedInv

(* A function returns when nothing of it is left to visit.                 *)
LEMMA PendingReturn ==
  ASSUME TInv, LeaveCallee, NEW i, NEW c
  PROVE  Pending(i, c)' <=> Pending(i, c)
<1> DEFINE n == Len(frames)
<1>1. /\ phase = "visit" /\ Top.todo = <<>> /\ n > 1 /\ frames' = Front(frames)
      /\ UNCHANGED program
  BY DEF LeaveCallee
<1>2. frames \in Seq(FrameSet(program)) /\ n \in Nat /\ Top = frames[n]
  BY <1>1 DEF TInv, FramesGood, Top, Last
<1>3. Len(frames') = n - 1 /\ \A m \in 1..(n - 1) : frames'[m] = frames[m]
  <2>1. frames # <<>>
    BY <1>1, <1>2
  <2> QED
    BY <1>1, <1>2, <2>1, FrontIs
<1>4. ~Ahead(program, frames[n].todo, c)
  BY <1>1, <1>2, NoneIsSeq DEF Ahead
<1>5. \A m \in 1..n : m # n <=> m \in 1..(n - 1)
  BY <1>2
<1>6. \A m \in 1..(n - 1) : m \in 1..n
  BY <1>2
<1> DEFINE Is(fs, m) == fs[m].info = i /\ Ahead(program, fs[m].todo, c)
<1>7. Pending(i, c)' <=> \E m \in 1..(n - 1) : Is(frames', m)
  BY <1>1, <1>3 DEF Pending
<1>8. Pending(i, c) <=> \E m \in 1..n : Is(frames, m)
  BY DEF Pending
<1> QED
  BY <1>3, <1>4, <1>5, <1>6, <1>7, <1>8

LEMMA ReachReturn ==
  ASSUME TInv, WalkInv, VisitedInv, LeaveCallee
  PROVE  VisitedInv'
<1>1. UNCHANGED <<program, next, infos, touched_func_usrs>>
  BY DEF LeaveCallee
<1>2. \A i, c : Pending(i, c)' <=> Pending(i, c)
  BY PendingReturn
<1>3. UNCHANGED NumRoots /\ CalledFns' = CalledFns /\ (CalleesOnce => CalleesOnce')
      /\ (OriginsOnce => OriginsOnce')
  BY <1>1 DEF NumRoots, CalledFns, CalledInfos, CalleesOnce, OriginsOnce, OriginAt,
              InSystemHeader, HasDefinition
<1>4. OriginsPast => OriginsPast'
  BY <1>1, <1>2 DEF OriginsPast, OriginAt
<1>5. \A i, c : Seen(i, c)' <=> Seen(i, c)
  BY <1>1, <1>3 DEF Seen, OriginAt, Kind, Sym, Subscript, Ancestors, UnderFirst, Kids
<1>6. PendingOrSeen => PendingOrSeen'
  BY <1>1, <1>2, <1>3, <1>5 DEF PendingOrSeen, Started, External, CursorsOf, Ancestors
<1> QED
  BY <1>1, <1>3, <1>4, <1>6 DEF VisitedInv

(* At the end of a root's visit all is seen that was started.              *)
LEMMA NothingPending ==
  ASSUME TInv, phase = "visit", Len(frames) = 1, Top.todo = <<>>, NEW i, NEW c
  PROVE  ~Pending(i, c)
<1>1. Top = frames[1]
  BY DEF Top, Last
<1>2. \A m \in 1..Len(frames) : frames[m].todo = <<>>
  BY <1>1
<1> QED
  BY <1>2, NoneIsSeq DEF Pending, Ahead

(* process_func_info of a root: the whole of it is to come.                *)
LEMMA StartPending ==
  ASSUME ScalarsGood, NEW r, StartRoot(r), UNCHANGED program, infos' = infos,
         infos[r].fn \in DOMAIN program.body
  PROVE  /\ \A c \in CursorsOf(infos[r].fn) : Pending(r, c)'
         /\ \A i, c : Pending(i, c)' => i = r
<1> DEFINE f == Frame(r, NoCursor, infos[r].fn)
<1>1. frames' = <<f>>
  BY DEF StartRoot
<1>2. f.info = r /\ f.todo = program.kids[program.body[infos[r].fn]]
  BY DEF Frame, Kids
<1> HIDE DEF f
<1>3. Len(frames') = 1 /\ frames'[1] = f
  BY <1>1
<1>4. \A m \in 1..Len(frames') : m = 1
  BY <1>3
<1>5. 1 \in 1..Len(frames')
  BY <1>3
<1>6. ASSUME NEW c \in CursorsOf(infos[r].fn)
      PROVE  Pending(r, c)'
  <2>1. Ahead(program, f.todo, c)
    BY <1>2, <1>6, BodyAhead
  <2> QED
    BY <2>1, <1>2, <1>3, <1>5 DEF Pending
<1> QED
  BY <1>2, <1>3, <1>4, <1>6 DEF Pending

LEMMA ReachNextRoot ==
  ASSUME TInv, InlineInv, VisitedInv, LeaveRoot
  PROVE  VisitedInv'
<1>1. /\ phase = "visit" /\ Top.todo = <<>> /\ Len(frames) = 1 /\ next < NumRoots
      /\ StartRoot(next + 1) /\ next' = next + 1
      /\ UNCHANGED <<program, infos, touched_func_usrs>>
  BY DEF LeaveRoot
<1>2. /\ NumRoots \in Nat /\ next \in 1..NumRoots /\ next + 1 \in 1..NumRoots
      /\ infos[next + 1].fn \in DOMAIN program.body
      /\ infos[next + 1].accesses = <<>>
  <2>1. NumRoots \in Nat /\ next \in 1..NumRoots
    BY <1>1, VisitFacts
  <2>2. next + 1 \in 1..NumRoots /\ next + 1 > next
    BY <1>1, <2>1
  <2> QED
    BY <1>1, <2>1, <2>2 DEF TInv, RootsGood, InlineInv, RootsWaiting
<1>3. PICK r : r = next + 1
  OBVIOUS
<1>4. /\ \A c \in CursorsOf(infos[r].fn) : Pending(r, c)'
      /\ \A i, c : Pending(i, c)' => i = r
  BY <1>1, <1>2, <1>3, StartPending DEF TInv
<1>5. UNCHANGED NumRoots /\ CalledFns' = CalledFns /\ (CalleesOnce => CalleesOnce')
      /\ (OriginsOnce => OriginsOnce')
  BY <1>1 DEF NumRoots, CalledFns, CalledInfos, CalleesOnce, OriginsOnce, OriginAt,
              InSystemHeader, HasDefinition
<1>6. OriginsPast'
  <2>1. \A n \in DOMAIN infos[r].accesses : FALSE
    BY <1>2, <1>3, NoneIsSeq
  <2> QED
    BY <1>1, <1>4, <2>1 DEF OriginsPast, OriginAt
<1>7. \A i, c : Seen(i, c)' <=> Seen(i, c)
  BY <1>1, <1>5 DEF Seen, OriginAt, Kind, Sym, Subscript, Ancestors, UnderFirst, Kids
<1>8. PendingOrSeen'
  <2> SUFFICES ASSUME NEW i \in DOMAIN infos, Started(i)', ~External(infos[i]),
                      NEW c \in CursorsOf(infos[i].fn)
               PROVE  Pending(i, c)' \/ Seen(i, c)'
    BY <1>1 DEF PendingOrSeen, External, CursorsOf, Ancestors
  <2>1. CASE i = r
    BY <1>4, <2>1
  <2>2. CASE i # r
    <3>1. DOMAIN infos = 1..Len(infos)
      BY <1>1, VisitFacts
    <3>2. Started(i)
      BY <1>1, <1>2, <1>3, <1>5, <2>2, <3>1 DEF Started
    <3>3. ~Pending(i, c)
      BY <1>1, NothingPending
    <3> QED
      BY <1>7, <3>2, <3>3 DEF VisitedInv, PendingOrSeen
  <2> QED
    BY <2>1, <2>2
<1> QED
  BY <1>1, <1>5, <1>6, <1>8 DEF VisitedInv

LEMMA ReachFirstRoot ==
  ASSUME TInv, InlineInv, ReachInv, RootsFound
  PROVE  VisitedInv'
<1>1. /\ phase = "search" /\ StartRoot(1) /\ next' = 1
      /\ Len(infos) = NumRoots /\ infos # <<>>
      /\ UNCHANGED <<program, infos, touched_func_usrs>> /\ touched_func_usrs = {}
  BY DEF RootsFound, NumRoots, ReachInv
<1>2. DOMAIN infos = 1..NumRoots /\ NumRoots \in Nat /\ 1 \in DOMAIN infos
  <2>1. DOMAIN infos = 1..Len(infos) /\ Len(infos) \in Nat
    BY SeqIs DEF TInv, InfosGood
  <2>2. infos = [i \in 1..Len(infos) |-> infos[i]]
    BY SeqIs DEF TInv, InfosGood
  <2>3. Len(infos) # 0
    BY <1>1, <2>1, <2>2
  <2> QED
    BY <1>1, <2>1, <2>3
<1>3. \A i \in DOMAIN infos : infos[i].fn \in DOMAIN program.body /\ infos[i].accesses = <<>>
  BY <1>1 DEF TInv, RootsGood, InlineInv, Blank
<1>4. /\ \A c \in CursorsOf(infos[1].fn) : Pending(1, c)'
  BY <1>1, <1>2, <1>3, StartPending DEF TInv
<1>5. NumRoots' = NumRoots /\ CalledInfos' = {}
  BY <1>1, <1>2 DEF NumRoots, CalledInfos
<1>6. CalledFns' = {} /\ CalleesOnce'
  BY <1>5 DEF CalledFns, CalleesOnce
<1>7. \A i \in DOMAIN infos' : \A n \in DOMAIN infos'[i].accesses : FALSE
  BY <1>1, <1>3, NoneIsSeq
<1>8. OriginsOnce' /\ OriginsPast'
  BY <1>7 DEF OriginsOnce, OriginsPast
<1>9. PendingOrSeen'
  <2> SUFFICES ASSUME NEW i \in DOMAIN infos, Started(i)', ~External(infos[i]),
                      NEW c \in CursorsOf(infos[i].fn)
               PROVE  Pending(i, c)' \/ Seen(i, c)'
    BY <1>1 DEF PendingOrSeen, External, CursorsOf, Ancestors
  <2>1. i = 1
    BY <1>1, <1>2, <1>5 DEF Started
  <2> QED
    BY <2>1, <1>4
<1> QED
  BY <1>1, <1>6, <1>8, <1>9 DEF VisitedInv

LEMMA ReachEnd ==
  ASSUME TInv, VisitedInv, LeaveLastRoot
  PROVE  CalleesOnce' /\ OriginsOnce' /\ AllSeen'
<1>1. /\ phase = "visit" /\ Top.todo = <<>> /\ Len(frames) = 1 /\ next = NumRoots
      /\ UNCHANGED <<program, infos>>
  BY DEF LeaveLastRoot
<1>2. UNCHANGED NumRoots /\ CalledFns' = CalledFns /\ (CalleesOnce => CalleesOnce')
      /\ (OriginsOnce => OriginsOnce')
  BY <1>1 DEF NumRoots, CalledFns, CalledInfos, CalleesOnce, OriginsOnce, OriginAt,
              InSystemHeader, HasDefinition
<1>3. \A i, c : Seen(i, c)' <=> Seen(i, c)
  BY <1>1, <1>2 DEF Seen, OriginAt, Kind, Sym, Subscript, Ancestors, UnderFirst, Kids
<1>4. ASSUME NEW i \in DOMAIN infos, ~External(infos[i]), NEW c \in CursorsOf(infos[i].fn)
      PROVE  Seen(i, c)
  <2>1. DOMAIN infos = 1..Len(infos) /\ Len(infos) \in Nat /\ NumRoots \in Nat
    BY <1>1, VisitFacts
  <2>2. Started(i)
    BY <1>1, <2>1 DEF Started
  <2>3. ~Pending(i, c)
    BY <1>1, NothingPending
  <2> QED
    BY <1>4, <2>2, <2>3 DEF VisitedInv, PendingOrSeen
<1>5. AllSeen'
  <2> SUFFICES ASSUME NEW i \in DOMAIN infos, ~External(infos[i]), NEW c \in CursorsOf(infos[i].fn)
               PROVE  Seen(i, c)'
    BY <1>1 DEF AllSeen, External, CursorsOf, Ancestors
  <2> QED
    BY <1>3, <1>4
<1> QED
  BY <1>2, <1>5 DEF VisitedInv

(* Unwinding comes after.                                                  *)
LEMMA UnwindsAfter ==
  ASSUME TInv, InlineInv, Unwind
  PROVE  ~AllVisited'
<1>1. \A k \in DOMAIN work' : work'[k] # 1
  BY FirstUnwound
<1>2. NumRoots' = NumRoots /\ NumRoots \in Nat /\ NumRoots > 0
  BY NumRootsNat DEF TInv, InlineInv, Unwind, NumRoots
<1>3. ASSUME work' = [r \in 1..NumRoots |-> r]
      PROVE  FALSE
  BY <1>1, <1>2, <1>3
<1> QED
  BY <1>2, <1>3 DEF AllVisited

(* A USR begins with the variable.                                         *)
LEMMA UsrBegun ==
  ASSUME NEW stack, Len(stack) \in Nat, NEW c
  PROVE  IsSeq(Usr(stack, c)) /\ Usr(stack, c) # <<>> /\ Head(Usr(stack, c)) = Sym(c)
<1> DEFINE n == Len(stack) - 1
           Field(k) == LET d == stack[Len(stack) + 1 - k]
                       IN  IF Kind(d) = "Member" THEN <<Sym(d)>> ELSE <<>>
           s == [k \in 1..n |-> Field(k)]
           one == <<Sym(c)>>
<1>1. IsSeq(s) /\ DOMAIN s = 1..n
  <2> HIDE DEF Field
  <2>1. CASE n \in Nat
    <3> HIDE DEF n
    <3> QED
      BY <2>1, SeqMade
  <2>2. CASE n \notin Nat
    <3>1. 1..n = {}
      BY <2>2
    <3>2. s = <<>>
      BY <3>1
    <3> QED
      BY <3>1, <3>2, NoneIsSeq
  <2> QED
    BY <2>1, <2>2
<1>2. \A k \in 1..n : IsSeq(Field(k))
  <2>1. ASSUME NEW x PROVE IsSeq(<<x>>)
    BY OneIsSeq
  <2> QED
    BY <2>1, NoneIsSeq
<1>3. IsSeq(FlattenSeq(s))
  <2> HIDE DEF Field, n
  <2> QED
    BY <1>1, <1>2, FlattenIsSeq
<1>4. Usr(stack, c) = one \o FlattenSeq(s)
  BY DEF Usr, Fields
<1> HIDE DEF s
<1>5. IsSeq(one) /\ Len(one) = 1 /\ one[1] = Sym(c)
  BY OneIsSeq
<1> HIDE DEF one
<1> DEFINE f == FlattenSeq(s)
<1>6. (one \o f)[1] = one[1] /\ IsSeq(one \o f) /\ one \o f # <<>>
  <2>1. 1 \in 1..Len(one) /\ IsSeq(f)
    BY <1>3, <1>5
  <2> HIDE DEF f
  <2>2. /\ IsSeq(one \o f) /\ Len(one \o f) = Len(one) + Len(f)
        /\ \A i \in 1..Len(one) : (one \o f)[i] = one[i]
    BY <2>1, <1>5, SeqConcat
  <2>3. Len(f) \in Nat
    BY <2>1, SeqIs
  <2>4. one \o f # <<>>
    BY <2>2, <2>3, <1>5, NoneIsSeq
  <2> QED
    BY <2>1, <2>2, <2>4
<1> QED
  BY <1>4, <1>5, <1>6
-----------------------------------------------------------------------------
(* The closest of the ancestors that decide                                *)

LEMMA GreatestOf ==
  ASSUME NEW n \in Nat, NEW T, T \subseteq 1..n, T # {}
  PROVE  \E m \in T : \A x \in T : x <= m
<1> DEFINE D == {n - x : x \in T}
<1>1. D \subseteq Nat /\ D # {}
  <2>1. \A x \in T : n - x \in Nat
    OBVIOUS
  <2> QED
    BY <2>1
<1>2. PICK d \in D : \A x \in D : d <= x
  BY <1>1, LeastOf
<1>3. PICK m \in T : d = n - m
  BY <1>2
<1>4. ASSUME NEW x \in T PROVE x <= m
  <2>1. n - m <= n - x
    BY <1>2, <1>3
  <2> QED
    BY <2>1
<1> QED
  BY <1>4

(* Position i of the stack is the last of these kinds.                     *)
ClosestAt(stack, kinds, i) ==
  /\ i \in 1..Len(stack) /\ Kind(stack[i]) \in kinds
  /\ \A j \in 1..Len(stack) : j > i => Kind(stack[j]) \notin kinds
  /\ Closest(stack, kinds) = stack[i] /\ Offset(stack, kinds) = Len(stack) + 1 - i

ClosestNowhere(stack, kinds) ==
  /\ \A j \in 1..Len(stack) : Kind(stack[j]) \notin kinds
  /\ Closest(stack, kinds) = NoCursor /\ Offset(stack, kinds) = Len(stack) + 1

LEMMA ClosestIs ==
  ASSUME NEW stack, Len(stack) \in Nat, NEW kinds
  PROVE  ClosestNowhere(stack, kinds) \/ \E i : ClosestAt(stack, kinds, i)
<1> DEFINE n == Len(stack)
           I == {i \in 1..n : Kind(stack[i]) \in kinds}
           last == IF I # {} THEN Max(I) ELSE 0
<1>1. /\ Closest(stack, kinds) = IF last = 0 THEN NoCursor ELSE stack[last]
      /\ Offset(stack, kinds) = n + 1 - last
  BY DEF Closest, Offset, SelectLastInSeq
<1>2. CASE I = {}
  BY <1>1, <1>2 DEF ClosestNowhere
<1>3. CASE I # {}
  <2>1. PICK m \in I : \A x \in I : x <= m
    BY <1>3, GreatestOf
  <2>2. Max(I) \in I /\ \A x \in I : Max(I) >= x
    <3> HIDE DEF I
    <3>1. \A x \in I : m >= x
      <4>1. \A x \in I : x \in Nat
        BY DEF I
      <4> QED
        BY <2>1, <4>1
    <3> QED
      BY <3>1 DEF Max
  <2>3. \A j \in 1..n : j > Max(I) => j \notin I
    BY <2>2
  <2>4. last = Max(I) /\ last # 0
    BY <1>3, <2>2
  <2> HIDE DEF last
  <2>5. ClosestAt(stack, kinds, last)
    BY <1>1, <2>2, <2>3, <2>4 DEF ClosestAt
  <2> QED
    BY <2>5
<1> QED
  BY <1>2, <1>3
-----------------------------------------------------------------------------
(* What lies on the left                                                   *)

(* Cursor c is visited with this stack.                                    *)
Visiting(stack, c) ==
  /\ program \in Programs /\ c \in DOMAIN program.kind /\ program.parent[c] # NoCursor
  /\ StackGood(program, stack) /\ PlacedAt(program, stack, c)

LEMMA StackIs ==
  ASSUME NEW stack, NEW c, Visiting(stack, c)
  PROVE  /\ stack \in Seq(DOMAIN program.kind) /\ Len(stack) \in Nat
         /\ \A k \in 1..Len(stack) : stack[k] \in DOMAIN program.kind
<1>1. stack \in Seq(DOMAIN program.kind)
  BY DEF Visiting, StackGood
<1> QED
  BY <1>1, LenProperties

(* What a call returned from has left on the stack lies below that call.   *)
LEMMA NoCallsLinked ==
  ASSUME NEW stack, NEW c, Visiting(stack, c), NEW i \in 1..Len(stack),
         \A k \in 1..Len(stack) : k > i => Kind(stack[k]) # "Call"
  PROVE  stack[i] \in Ancestors(c)
<1>1. ASSUME NEW j \in i..(Len(stack) - 1)
      PROVE  Linked(program, stack[j], stack[j + 1])
  <2>1. j + 1 \in 1..Len(stack) /\ j + 1 > i /\ j + 1 > 1 /\ (j + 1) - 1 = j
    BY StackIs
  <2>2. program.kind[stack[j + 1]] # "Call"
    BY <2>1 DEF Kind
  <2> DEFINE k == j + 1
  <2>3. Linked(program, stack[k - 1], stack[k])
    <3> HIDE DEF k
    <3>1. k \in 1..Len(stack) /\ k > 1 /\ program.kind[stack[k]] # "Call"
      BY <2>1, <2>2 DEF k
    <3> QED
      BY <3>1 DEF Visiting, StackGood
  <2> QED
    BY <2>1, <2>3
<1>2. LinkedFrom(program, stack, i)
  BY <1>1 DEF LinkedFrom
<1> QED
  BY <1>2, PlacedAbove DEF Visiting, Ancestors

LEMMA KidsInSeq ==
  ASSUME NEW p \in Programs, NEW a \in DOMAIN p.kind
  PROVE  /\ p.kids[a] \in Seq(DOMAIN p.kind) /\ Len(p.kids[a]) \in Nat
         /\ DOMAIN p.kids[a] = 1..Len(p.kids[a])
         /\ p.kids[a] # <<>> => Head(p.kids[a]) = p.kids[a][1] /\ 1 \in DOMAIN p.kids[a]
<1>1. p.kids[a] \in Seq(DOMAIN p.kind)
  BY TreeFacts
<1> DEFINE s == p.kids[a]
<1> HIDE DEF s
<1>2. /\ Len(s) \in Nat /\ DOMAIN s = 1..Len(s)
      /\ s # <<>> => Head(s) = s[1] /\ 1 \in DOMAIN s
  BY <1>1, LenProperties, HeadTailProperties DEF s
<1> QED
  BY <1>1, <1>2 DEF s

(* OnLeft tells the truth of assignments and subscripts: these have two    *)
(* children, and of what is not a last child the stack holds no remains.   *)
LEMMA LeftIsLeft ==
  ASSUME NEW stack, NEW c, Visiting(stack, c), NEW kind \in {"Assign", "Index"},
         OnLeft(stack, {kind}, c)
  PROVE  \E a \in Ancestors(c) : Kind(a) = kind /\ UnderFirst(a, c)
<1> DEFINE a == Closest(stack, {kind})
           d == program.kids[a][1]
<1>1. /\ Len(stack) \in Nat /\ stack \in Seq(DOMAIN program.kind)
      /\ \A k \in 1..Len(stack) : stack[k] \in DOMAIN program.kind
  BY StackIs
<1>2. PICK i : ClosestAt(stack, {kind}, i)
  BY <1>1, ClosestIs DEF OnLeft, ClosestNowhere
<1>3. a = stack[i] /\ a \in DOMAIN program.kind /\ Kind(a) = kind
  BY <1>1, <1>2 DEF ClosestAt
<1>4. Len(program.kids[a]) = 2 /\ program \in Programs
  BY <1>3, SyntaxFacts DEF Kind, Visiting
<1> HIDE DEF a
<1>5. 1 \in DOMAIN program.kids[a] /\ 2 \in DOMAIN program.kids[a]
  BY <1>3, <1>4, KidsInSeq
<1>6. /\ d \in DOMAIN program.kind /\ program.parent[d] = a
      /\ program.ancestors[d] = program.ancestors[a] \cup {a}
  BY <1>3, <1>4, <1>5, KidFacts
<1>7. Within(stack, c, d)
  <2>1. Head(program.kids[a]) = d
    BY <1>3, <1>4, <1>5, KidsInSeq, NoneIsSeq
  <2> QED
    BY <2>1 DEF OnLeft, Kids, a
<1>8. ~LastKid(program, d)
  <2>1. program.kids[a][1] # program.kids[a][2]
    BY <1>3, <1>4, <1>5, KidsApart
  <2> QED
    BY <1>3, <1>4, <1>6, <2>1, TreeFacts DEF LastKid, LastChild
<1> HIDE DEF d
<1>9. d \in program.ancestors[c] \cup {c}
  <2>1. CASE Contains(stack, d)
    <3>1. PICK k \in 1..Len(stack) : stack[k] = d
      BY <1>1, <2>1, LenProperties DEF Contains
    <3>2. LinkedFrom(program, stack, k)
      BY <1>8, <3>1 DEF Visiting, PlacedAt
    <3> QED
      BY <3>1, <3>2, PlacedAbove DEF Visiting
  <2> QED
    BY <1>7, <2>1 DEF Within
<1>10. a \in program.ancestors[c]
  <2>1. CASE d = c
    BY <1>6, <2>1
  <2>2. CASE d \in program.ancestors[c]
    <3>1. program.ancestors[d] \subseteq program.ancestors[c]
      BY <1>4, <2>2, TreeFacts DEF Visiting
    <3> QED
      BY <1>6, <3>1
  <2> QED
    BY <1>9, <2>1, <2>2
<1> QED
  BY <1>3, <1>9, <1>10 DEF UnderFirst, Ancestors, Kids, d

LEMMA NoneSubscripted ==
  ASSUME NEW stack, NEW c, Visiting(stack, c), AccessType(stack, c) = "None"
  PROVE  Subscript(c)
<1>1. OnLeft(stack, {"Index"}, c)
  BY DEF AccessType, PassedToCall, Subscripted, UnderUnary, Dereferenced, Assigned
<1> QED
  BY <1>1, LeftIsLeft DEF Subscript

(* The operator found closest is above c when no call is closer: what is   *)
(* left of other functions lies below a call.                              *)
LEMMA UnaryAbove ==
  ASSUME NEW stack, NEW c, Visiting(stack, c), ~InCall(stack),
         Offset(stack, UnaryKinds) < Offset(stack, {"Assign"}),
         Offset(stack, UnaryKinds) < Offset(stack, {"Index"})
  PROVE  Closest(stack, UnaryKinds) \in Ancestors(c)
<1> DEFINE n == Len(stack)
<1>1. n \in Nat
  BY StackIs
<1>2. \A kinds : Offset(stack, kinds) \in 1..(n + 1)
  <2>1. ASSUME NEW kinds PROVE Offset(stack, kinds) \in 1..(n + 1)
    <3>1. CASE ClosestNowhere(stack, kinds)
      BY <1>1, <3>1 DEF ClosestNowhere
    <3>2. CASE \E i : ClosestAt(stack, kinds, i)
      <4>1. PICK i \in 1..n : Offset(stack, kinds) = n + 1 - i
        BY <3>2 DEF ClosestAt
      <4> QED
        BY <1>1, <4>1
    <3> QED
      BY <1>1, <3>1, <3>2, ClosestIs
  <2> QED
    BY <2>1
<1>3. Offset(stack, UnaryKinds) < Offset(stack, {"Call"})
  BY <1>1, <1>2 DEF InCall
<1>4. PICK i : ClosestAt(stack, UnaryKinds, i)
  BY <1>1, <1>2, <1>3, ClosestIs DEF ClosestNowhere
<1>5. i \in 1..n /\ Offset(stack, UnaryKinds) = n + 1 - i
      /\ Closest(stack, UnaryKinds) = stack[i]
  BY <1>4 DEF ClosestAt
<1>6. \A k \in 1..n : k > i => Kind(stack[k]) # "Call"
  <2>1. CASE ClosestNowhere(stack, {"Call"})
    BY <2>1 DEF ClosestNowhere
  <2>2. CASE \E j : ClosestAt(stack, {"Call"}, j)
    <3>1. PICK j : ClosestAt(stack, {"Call"}, j)
      BY <2>2
    <3>2. j \in 1..n /\ n + 1 - i < n + 1 - j /\ \A k \in 1..n : k > j => Kind(stack[k]) # "Call"
      BY <1>3, <1>5, <3>1 DEF ClosestAt
    <3>3. j < i
      BY <1>1, <1>5, <3>2
    <3> QED
      BY <1>1, <1>5, <3>2, <3>3
  <2> QED
    BY <1>1, <2>1, <2>2, ClosestIs
<1> QED
  BY <1>5, <1>6, NoCallsLinked

LEMMA WritesModify ==
  ASSUME NEW stack, NEW c, Visiting(stack, c), AccessType(stack, c) \in {"Write", "PtrWrite"}
  PROVE  Modified(c)
<1>1. \/ OnLeft(stack, {"Assign"}, c)
      \/ /\ ~InCall(stack) /\ Kind(Closest(stack, UnaryKinds)) = "IncDec"
         /\ Offset(stack, UnaryKinds) < Offset(stack, {"Assign"})
         /\ Offset(stack, UnaryKinds) < Offset(stack, {"Index"})
  <2>1. /\ PassedToCall(stack, c) \notin {"Write", "PtrWrite"}
        /\ Subscripted(stack, c) \in {"Write", "PtrWrite"} => OnLeft(stack, {"Assign"}, c)
        /\ Dereferenced(stack, c) \in {"Write", "PtrWrite"} => OnLeft(stack, {"Assign"}, c)
        /\ Assigned(stack, c) \in {"Write", "PtrWrite"} => OnLeft(stack, {"Assign"}, c)
    BY DEF PassedToCall, Subscripted, Dereferenced, Assigned
  <2>2. /\ UnderUnary(stack, c) \in {"Write", "PtrWrite"} =>
             OnLeft(stack, {"Assign"}, c) \/ Kind(Closest(stack, UnaryKinds)) = "IncDec"
    BY <2>1 DEF UnderUnary
  <2> QED
    BY <2>1, <2>2 DEF AccessType
<1>2. CASE OnLeft(stack, {"Assign"}, c)
  BY <1>2, LeftIsLeft DEF Modified
<1>3. CASE ~OnLeft(stack, {"Assign"}, c)
  BY <1>1, <1>3, UnaryAbove DEF Modified
<1> QED
  BY <1>2, <1>3

(* From what is assigned up to the assignment there are but fields, each   *)
(* the first child of the next.                                            *)
LEMMA TargetPath ==
  ASSUME program \in Programs, NEW c \in DOMAIN program.kind, NEW d \in Ancestors(c), Kind(d) = "Func",
         NEW a \in Ancestors(c), Kind(a) = "Assign", UnderFirst(a, c),
         \A e \in Ancestors(c) \ (Ancestors(a) \cup {a}) : Kind(e) = "Member",
         NEW x \in Ancestors(c) \cup {c}, a \in Ancestors(x)
  PROVE  /\ FirstKid(program, x) /\ program.parent[program.parent[x]] # NoCursor
         /\ program.parent[x] = a \/ a \in Ancestors(program.parent[x])
         /\ program.parent[x] \in Ancestors(c)
         /\ x # c => Kind(x) = "Member"
<1> DEFINE y == program.parent[x]
<1>1. /\ a \in DOMAIN program.kind /\ x \in DOMAIN program.kind /\ d \in DOMAIN program.kind
      /\ \A e \in Ancestors(x) : e \in Ancestors(c)
  BY TreeFacts DEF Ancestors
<1>2. program.parent[a] # NoCursor
  <2>1. d \in Ancestors(a)
    <3>1. d # a /\ Kind(d) # "Member"
      OBVIOUS
    <3> QED
      BY <3>1
  <2> QED
    BY <1>1, <2>1, TreeFacts DEF Ancestors
<1>3. ASSUME NEW e \in Ancestors(c), a \in Ancestors(e)
      PROVE  Kind(e) = "Member"
  <2>1. e \in DOMAIN program.kind
    BY TreeFacts DEF Ancestors
  <2>2. e \notin Ancestors(a) \cup {a}
    BY <1>1, <1>3, TreeFacts DEF Ancestors
  <2> QED
    BY <1>3, <2>2
<1>4. /\ y # NoCursor /\ y \in DOMAIN program.kind
      /\ program.ancestors[x] = program.ancestors[y] \cup {y}
  BY <1>1, TreeFacts DEF Ancestors
<1>5. PICK l \in DOMAIN program.kids[y] : program.kids[y][l] = x
  BY <1>1, <1>4, TreeFacts
<1>6. y \in Ancestors(c) /\ (y = a \/ a \in Ancestors(y))
  BY <1>1, <1>4 DEF Ancestors
<1> HIDE DEF y
<1>7. l = 1
  <2>1. CASE y = a
    <3>1. Len(program.kids[a]) = 2
      BY <1>1, SyntaxFacts DEF Kind
    <3>2. 1 \in DOMAIN program.kids[a]
      BY <1>1, <3>1, KidsInSeq
    <3>3. PICK k \in DOMAIN program.kids[a] :
            \A m \in DOMAIN program.kids[a] :
              program.kids[a][m] \in program.ancestors[c] \cup {c} <=> m = k
      BY KidAbove DEF Ancestors
    <3>4. 1 = k
      BY <3>2, <3>3 DEF UnderFirst, Kids, Ancestors
    <3>5. l = k
      BY <1>5, <2>1, <3>3 DEF Ancestors
    <3> QED
      BY <3>4, <3>5
  <2>2. CASE y # a
    <3>1. program.kind[y] = "Member"
      BY <1>3, <1>6, <2>2 DEF Kind
    <3>2. Len(program.kids[y]) <= 1
      BY <1>4, <3>1, SyntaxFacts
    <3>3. l \in 1..Len(program.kids[y]) /\ Len(program.kids[y]) \in Nat
      BY <1>4, <1>5, KidsInSeq
    <3> QED
      BY <3>2, <3>3
  <2> QED
    BY <2>1, <2>2
<1>8. program.parent[y] # NoCursor
  <2>1. CASE y = a
    BY <1>2, <2>1
  <2>2. CASE y # a
    BY <1>4, <1>6, <2>2, TreeFacts DEF Ancestors
  <2> QED
    BY <2>1, <2>2
<1> QED
  BY <1>3, <1>4, <1>5, <1>6, <1>7, <1>8 DEF FirstKid, y

(* That path is on top of the stack, with the assignment below.            *)
LEMMA TargetOnStack ==
  ASSUME NEW stack, NEW c, Visiting(stack, c), NEW d \in Ancestors(c), Kind(d) = "Func", Target(c)
  PROVE  \E i \in 1..Len(stack) :
           /\ Kind(stack[i]) = "Assign"
           /\ \A j \in 1..Len(stack) : j > i => Kind(stack[j]) = "Member"
           /\ Kids(stack[i])[1] = c \/ Contains(stack, Kids(stack[i])[1])
<1> DEFINE n == Len(stack)
<1>1. program \in Programs /\ c \in DOMAIN program.kind /\ n \in Nat
  BY StackIs DEF Visiting
<1>2. PICK a \in Ancestors(c) :
        /\ Kind(a) = "Assign" /\ UnderFirst(a, c)
        /\ \A e \in Ancestors(c) \ (Ancestors(a) \cup {a}) : Kind(e) = "Member"
  BY DEF Target
<1> DEFINE On(x) == x \in Ancestors(c) /\ a \in Ancestors(x)
<1>3. ASSUME NEW x, On(x) \/ x = c
      PROVE  /\ FirstKid(program, x) /\ program.parent[program.parent[x]] # NoCursor
             /\ program.parent[x] = a \/ On(program.parent[x])
             /\ x # c => Kind(x) = "Member"
             /\ program.parent[x] = a => Kids(a)[1] = x
  <2>1. x \in Ancestors(c) \cup {c} /\ a \in Ancestors(x)
    BY <1>3
  <2>2. /\ FirstKid(program, x) /\ program.parent[program.parent[x]] # NoCursor
        /\ program.parent[x] = a \/ a \in Ancestors(program.parent[x])
        /\ program.parent[x] \in Ancestors(c)
        /\ x # c => Kind(x) = "Member"
    BY <1>1, <1>2, <2>1, TargetPath
  <2> QED
    BY <2>2 DEF FirstKid, Kids
<1>4. c \notin Ancestors(c)
  BY <1>1, TreeFacts DEF Ancestors
<1> HIDE DEF On
<1>5. stack # <<>> /\ stack[n] = program.parent[c]
  BY <1>3 DEF Visiting, PlacedAt
<1>6. n \in 1..n
  <2>1. n # 0
    BY <1>5, StackIs
  <2> QED
    BY <1>1, <2>1
<1>7. CASE program.parent[c] = a
  <2>1. Kids(a)[1] = c
    BY <1>3, <1>7
  <2>2. stack[n] = a
    BY <1>5, <1>7
  <2>3. \A j \in 1..n : ~(j > n)
    BY <1>1
  <2> QED
    BY <1>2, <1>6, <2>1, <2>2, <2>3
<1>8. CASE program.parent[c] # a
  <2> DEFINE T == {k \in 1..n : \A j \in k..n : On(stack[j])}
  <2>1. n \in T
    <3>1. \A j \in n..n : j = n
      BY <1>1
    <3> QED
      BY <1>3, <1>5, <1>6, <1>8, <3>1
  <2>2. PICK k \in T : \A m \in T : k <= m
    <3>1. T \subseteq Nat /\ T # {}
      BY <2>1
    <3> QED
      BY <3>1, LeastOf
  <2> DEFINE x == stack[k]
  <2>3. k \in 1..n /\ On(x) /\ \A j \in k..n : On(stack[j])
    BY <2>2
  <2>4. /\ FirstKid(program, x) /\ program.parent[program.parent[x]] # NoCursor
        /\ program.parent[x] = a \/ On(program.parent[x])
        /\ Kind(x) = "Member"
        /\ program.parent[x] = a => Kids(a)[1] = x
    BY <1>3, <1>4, <2>3 DEF On
  <2>5. k > 1 /\ stack[k - 1] = program.parent[x]
    BY <2>3, <2>4 DEF Visiting, StackGood, Kind
  <2>6. k - 1 \in 1..n /\ \A j \in (k - 1)..n : j = k - 1 \/ j \in k..n
    BY <1>1, <2>3, <2>5
  <2>7. program.parent[x] = a
    <3>1. k - 1 \notin T
      BY <1>1, <2>2, <2>3
    <3> HIDE DEF x
    <3>2. ~On(stack[k - 1])
      BY <2>3, <2>6, <3>1
    <3> QED
      BY <2>4, <2>5, <3>2
  <2>8. \A j \in 1..n : j > k - 1 => Kind(stack[j]) = "Member"
    <3>1. \A j \in 1..n : j > k - 1 => j \in k..n
      BY <1>1, <2>3
    <3> QED
      BY <3>1, <1>3, <1>4, <2>3 DEF On
  <2>9. stack[k - 1] = a /\ Kids(a)[1] = stack[k]
    BY <2>4, <2>5, <2>7
  <2>10. Contains(stack, Kids(a)[1])
    BY <2>3, <2>9 DEF Contains
  <2> HIDE DEF x
  <2> QED
    BY <1>2, <2>6, <2>8, <2>9, <2>10
<1> QED
  BY <1>7, <1>8

LEMMA TargetWritten ==
  ASSUME NEW stack, NEW c, Visiting(stack, c), NEW d \in Ancestors(c), Kind(d) = "Func", Target(c)
  PROVE  AccessType(stack, c) = "Write"
<1> DEFINE n == Len(stack)
<1>1. PICK i \in 1..n :
        /\ Kind(stack[i]) = "Assign"
        /\ \A j \in 1..n : j > i => Kind(stack[j]) = "Member"
        /\ Kids(stack[i])[1] = c \/ Contains(stack, Kids(stack[i])[1])
  BY TargetOnStack
<1>2. n \in Nat /\ stack[i] \in DOMAIN program.kind /\ program \in Programs
  BY StackIs DEF Visiting
<1>3. Closest(stack, {"Assign"}) = stack[i] /\ Offset(stack, {"Assign"}) = n + 1 - i
  <2>1. CASE ClosestNowhere(stack, {"Assign"})
    BY <1>1, <2>1 DEF ClosestNowhere
  <2>2. CASE \E m : ClosestAt(stack, {"Assign"}, m)
    <3>1. PICK m : ClosestAt(stack, {"Assign"}, m)
      BY <2>2
    <3>2. m \in 1..n /\ ~(m > i) /\ ~(i > m)
      BY <1>1, <3>1 DEF ClosestAt
    <3>3. m = i
      BY <1>2, <3>2
    <3> QED
      BY <3>1, <3>3 DEF ClosestAt
  <2> QED
    BY <1>2, <2>1, <2>2, ClosestIs
<1>4. ASSUME NEW kinds, "Assign" \notin kinds, "Member" \notin kinds
      PROVE  Offset(stack, {"Assign"}) < Offset(stack, kinds)
  <2>1. CASE ClosestNowhere(stack, kinds)
    BY <1>2, <1>3, <2>1 DEF ClosestNowhere
  <2>2. CASE \E m : ClosestAt(stack, kinds, m)
    <3>1. PICK m : ClosestAt(stack, kinds, m)
      BY <2>2
    <3>2. m \in 1..n /\ ~(m > i) /\ m # i /\ Offset(stack, kinds) = n + 1 - m
      BY <1>1, <1>4, <3>1 DEF ClosestAt
    <3> QED
      BY <1>2, <1>3, <3>2
  <2> QED
    BY <1>2, <2>1, <2>2, ClosestIs
<1>5. /\ Offset(stack, {"Assign"}) < Offset(stack, {"Call"})
      /\ Offset(stack, {"Assign"}) < Offset(stack, {"Index"})
      /\ Offset(stack, {"Assign"}) < Offset(stack, UnaryKinds)
  <2>1. "Assign" \notin UnaryKinds /\ "Member" \notin UnaryKinds
    BY DEF UnaryKinds
  <2> QED
    BY <1>4, <2>1
<1>6. \A kinds : Offset(stack, kinds) \in Int
  <2>1. ASSUME NEW kinds PROVE Offset(stack, kinds) \in Int
    <3>1. CASE ClosestNowhere(stack, kinds)
      BY <1>2, <3>1 DEF ClosestNowhere
    <3>2. CASE \E m : ClosestAt(stack, kinds, m)
      <4>1. PICK m \in 1..n : Offset(stack, kinds) = n + 1 - m
        BY <3>2 DEF ClosestAt
      <4> QED
        BY <1>2, <4>1
    <3> QED
      BY <1>2, <3>1, <3>2, ClosestIs
  <2> QED
    BY <2>1
<1>7. OnLeft(stack, {"Assign"}, c)
  <2>1. Len(program.kids[stack[i]]) = 2
    BY <1>1, <1>2, SyntaxFacts DEF Kind
  <2>2. program.kids[stack[i]] # <<>>
    BY <2>1
  <2>3. Head(program.kids[stack[i]]) = program.kids[stack[i]][1]
    BY <1>2, <2>2, KidsInSeq
  <2>4. stack[i] # NoCursor
    BY <1>2, TreeFacts
  <2> QED
    BY <1>1, <1>3, <2>2, <2>3, <2>4 DEF OnLeft, Within, Kids
<1>8. AccessType(stack, c) = Assigned(stack, c)
  BY <1>5, <1>6 DEF AccessType, InCall
<1> QED
  BY <1>7, <1>8 DEF Assigned
-----------------------------------------------------------------------------
(* The entry a reference gets                                              *)

LEMMA HereVisiting ==
  ASSUME TInv, WalkInv, AtCursor("cursor")
  PROVE  /\ Visiting(ancestry_stack, Here)
         /\ Body(current) \in Ancestors(Here) /\ Kind(Body(current)) = "Func"
<1>1. phase = "visit" /\ step = "cursor" /\ Top.todo # <<>> /\ FramesFit /\ StackFits
  BY DEF AtCursor, WalkInv
<1>2. /\ program \in Programs /\ TodoFits(program, Top.todo, Body(current))
      /\ Here = Top.todo[1] /\ 1 \in DOMAIN Top.todo /\ Here \in DOMAIN program.kind
      /\ infos[current].fn \in DOMAIN program.body
  BY <1>1, WalkFacts
<1>3. program.parent[Here] # NoCursor /\ Body(current) \in program.ancestors[Here]
  BY <1>2, TreeFacts DEF TodoFits
<1>4. program.kind[Body(current)] = "Func"
  BY <1>2, SyntaxFacts DEF Body
<1> QED
  BY <1>1, <1>2, <1>3, <1>4 DEF StackFits, Visiting, Ancestors, Kind

LEMMA EntryRight ==
  ASSUME TInv, WalkInv, AtCursor("cursor"),
         NEW va, va = AccessEntry(ancestry_stack, Here), va.type # "None"
  PROVE  va.origin = Here /\ RightEntry(va)
<1>1. va.origin = Here /\ va.type = AccessType(ancestry_stack, Here)
  BY DEF AccessEntry, VarAccess
<1>2. /\ Visiting(ancestry_stack, Here)
      /\ Body(current) \in Ancestors(Here) /\ Kind(Body(current)) = "Func"
  BY HereVisiting
<1>3. Here \in DOMAIN program.kind
  BY <1>2 DEF Visiting
<1>4. Target(Here) => va.type = "Write"
  BY <1>1, <1>2, TargetWritten
<1>5. va.type \in {"Write", "PtrWrite"} => Modified(Here)
  BY <1>1, <1>2, WritesModify
<1>6. IsSeq(va.usr) /\ va.usr # <<>> /\ Head(va.usr) = Sym(Here)
  <2>1. va.usr = Usr(ancestry_stack, Here) /\ Len(ancestry_stack) \in Nat
    BY <1>2, StackIs DEF AccessEntry, VarAccess
  <2> QED
    BY <2>1, UsrBegun
<1>7. ~Placeholder(va)
  BY <1>1, AccessEntryGood DEF Placeholder
<1> QED
  BY <1>1, <1>3, <1>4, <1>5, <1>6, <1>7 DEF RightEntry, Named

(* The steps of the visit push no entry but one of the cursor visited.     *)
LEMMA VisitPushes ==
  ASSUME TInv, WalkInv, VisitDecl \/ VisitIf \/ VisitVariable \/ VisitOther \/ SkipCall
  PROVE  \E e, E :
           /\ e.origin = NoCursor \/ (e.origin = Here /\ RightEntry(e))
           /\ E \in {<<>>, <<e>>} /\ Pushes(E)
           /\ VisitVariable /\ ~Subscript(Here) => E = <<e>> /\ e.origin = Here
<1>1. phase = "visit" /\ AtCursor("cursor")
  BY DEF Visit, VisitDecl, VisitIf, VisitVariable, VisitOther, SkipCall, AtCursor
<1>2. \A type : Marker(type).origin = NoCursor
  BY DEF Marker, VarAccess
<1>3. CASE (VisitDecl \/ VisitOther \/ SkipCall) /\ ~VisitVariable
  BY <1>1, <1>2, <1>3, StepPushes
<1>4. CASE VisitIf /\ ~VisitVariable
  <2>1. When(tracking, <<Marker("IfStmt")>>) \in {<<>>, <<Marker("IfStmt")>>}
    BY DEF When
  <2> QED
    BY <1>1, <1>2, <1>4, <2>1, StepPushes
<1>5. CASE VisitVariable
  <2> DEFINE va == AccessEntry(ancestry_stack, Here)
  <2>1. Pushes(When(va.type # "None", <<va>>))
    BY <1>1, <1>5, StepPushes
  <2>2. va.type = AccessType(ancestry_stack, Here)
    BY DEF AccessEntry, VarAccess
  <2> HIDE DEF va
  <2>3. CASE va.type = "None"
    <3>1. Subscript(Here)
      BY <1>1, <2>2, <2>3, HereVisiting, NoneSubscripted
    <3>2. Pushes(<<>>)
      BY <2>1, <2>3 DEF When
    <3> QED
      BY <1>2, <3>1, <3>2
  <2>4. CASE va.type # "None"
    <3>1. Pushes(<<va>>)
      BY <2>1, <2>4 DEF When
    <3>2. va.origin = Here /\ RightEntry(va)
      BY <1>1, <2>4, EntryRight DEF va
    <3> QED
      BY <3>1, <3>2
  <2> QED
    BY <2>3, <2>4
<1>6. VisitDecl \/ VisitIf \/ VisitVariable \/ VisitOther \/ SkipCall
  OBVIOUS
<1> QED
  BY <1>3, <1>4, <1>5, <1>6

LEMMA ReachVisit ==
  ASSUME TInv, WalkInv, VisitedInv,
         VisitDecl \/ VisitIf \/ VisitVariable \/ VisitOther \/ SkipCall
  PROVE  VisitedInv'
<1>1. /\ phase = "visit" /\ Top.todo # <<>> /\ frames' = GoOn
      /\ UNCHANGED <<program, next, touched_func_usrs>>
      /\ Kind(Here) = "Call" => Sym(Here) \in touched_func_usrs \cup {NoFunc}
      /\ Kind(Here) = "Ref" => VisitVariable
  BY DEF Visit, VisitDecl, VisitIf, VisitVariable, VisitOther, SkipCall, AtCursor
<1>2. PICK e, E :
        /\ e.origin = NoCursor \/ (e.origin = Here /\ RightEntry(e))
        /\ E \in {<<>>, <<e>>} /\ Pushes(E)
        /\ VisitVariable /\ ~Subscript(Here) => E = <<e>> /\ e.origin = Here
  BY VisitPushes
<1>3. PICK k, h : k = current /\ h = Here
  OBVIOUS
<1>4. CalledFns' = CalledFns
  BY <1>1, <1>2, PushCallees
<1>5. Kind(h)' = Kind(h) /\ Sym(h)' = Sym(h) /\ Subscript(h)' = Subscript(h)
  BY <1>1 DEF Kind, Sym, Subscript, Ancestors, UnderFirst, Kids
<1>6. Kind(h) = "Call" => Sym(h) \in CalledFns \cup {NoFunc}
  BY <1>1, <1>3 DEF VisitedInv
<1>7. ASSUME Kind(h) = "Ref", ~Subscript(h)
      PROVE  \E n \in DOMAIN infos'[k].accesses : infos'[k].accesses[n].origin = h
  <2>1. IsSeq(infos[k].accesses)
    BY <1>1, <1>3, VisitFacts DEF InfosGood, InfoGood
  <2> DEFINE s == infos[k].accesses
             t == infos'[k].accesses
  <2>2. t = s \o <<e>> /\ e.origin = h
    BY <1>1, <1>2, <1>3, <1>7 DEF Pushes
  <2>3. \E n \in DOMAIN t : t[n] = e
    <3> HIDE DEF s, t
    <3>1. IsSeq(s)
      BY <2>1 DEF s
    <3> QED
      BY <2>2, <3>1, ExtendsOne
  <2> QED
    BY <2>2, <2>3
<1>8. Seen(k, h)'
  BY <1>4, <1>5, <1>6, <1>7 DEF Seen, OriginAt
<1> QED
  BY <1>1, <1>2, <1>3, <1>8, ReachPush

LEMMA ReachStep ==
  ASSUME TInv, WalkInv, InlineInv, ReachInv, [TNext]_tvars
  PROVE  ReachInv'
<1>1. CASE CompareDefinition \/ RootsMissing
  BY <1>1 DEF CompareDefinition, RootsMissing, ReachInv, AllVisited, visitor
<1>2. CASE RootsFound
  <2>1. phase' = "visit"
    BY <1>2 DEF RootsFound
  <2> QED
    BY <1>2, <2>1, ReachFirstRoot DEF ReachInv, AllVisited
<1>3. CASE \/ PushParent \/ PopAncestor \/ Settle \/ MarkBranch
           \/ VisitDecl \/ VisitIf \/ VisitVariable \/ VisitOther \/ SkipCall
           \/ CallExternal \/ EnterCallee \/ LeaveCallee \/ LeaveRoot
  <2>1. phase = "visit" /\ phase' = "visit"
    BY <1>3 DEF PushParent, PopAncestor, Settle, MarkBranch, AtCursor, Visit, VisitDecl, VisitIf,
                VisitVariable, VisitOther, SkipCall, CallExternal, EnterCallee, FirstCall,
                LeaveCallee, LeaveRoot
  <2>2. VisitedInv
    BY <2>1 DEF ReachInv
  <2>3. VisitedInv'
    BY <1>3, <2>2, ReachStack, ReachVisit, ReachCall, ReachReturn, ReachNextRoot
  <2> QED
    BY <2>1, <2>3 DEF ReachInv, AllVisited
<1>4. CASE LeaveLastRoot
  <2>1. /\ phase = "visit" /\ phase' = "unwind" /\ UNCHANGED <<program, infos>>
    BY <1>4 DEF LeaveLastRoot
  <2>2. \A r \in 1..NumRoots : ~External(infos[r])
    BY <2>1 DEF InlineInv, RootsWaiting
  <2>3. (\A r \in 1..NumRoots : ~External(infos[r]))'
    BY <2>1, <2>2 DEF NumRoots, External
  <2>4. VisitedInv
    BY <2>1 DEF ReachInv
  <2> QED
    BY <1>4, <2>1, <2>3, <2>4, ReachEnd DEF ReachInv
<1>5. CASE Unwind
  BY <1>5, UnwindsAfter DEF Unwind, ReachInv
<1>6. CASE UnwindCrashes \/ Build
  BY <1>6 DEF UnwindCrashes, Build, ReachInv, AllVisited
<1>7. CASE Stopped \/ UNCHANGED tvars
  <2>1. UNCHANGED <<program, phase, next, infos, frames, touched_func_usrs, work>>
    BY <1>7 DEF Stopped, tvars, visitor
  <2>2. UNCHANGED NumRoots /\ UNCHANGED CalledInfos /\ UNCHANGED CalledFns
        /\ UNCHANGED AllVisited /\ (CalleesOnce <=> CalleesOnce') /\ (OriginsOnce <=> OriginsOnce')
    BY <2>1 DEF NumRoots, CalledInfos, CalledFns, AllVisited, CalleesOnce, OriginsOnce, OriginAt,
                InSystemHeader, HasDefinition
  <2>3. \A i, c : (Seen(i, c)' <=> Seen(i, c)) /\ (Pending(i, c)' <=> Pending(i, c))
    BY <2>1, <2>2 DEF Seen, OriginAt, Pending, Kind, Sym, Subscript, Ancestors, UnderFirst, Kids
  <2>4. (AllSeen <=> AllSeen') /\ (PendingOrSeen <=> PendingOrSeen') /\ (OriginsPast <=> OriginsPast')
    BY <2>1, <2>2, <2>3 DEF AllSeen, PendingOrSeen, OriginsPast, OriginAt, Started, External,
                            CursorsOf, Ancestors
  <2>5. VisitedInv <=> VisitedInv'
    BY <2>1, <2>2, <2>4 DEF VisitedInv
  <2>6. (\A r \in 1..NumRoots : ~External(infos[r])) <=> (\A r \in 1..NumRoots : ~External(infos[r]))'
    BY <2>1, <2>2 DEF External
  <2> QED
    BY <2>1, <2>2, <2>4, <2>5, <2>6 DEF ReachInv
<1> QED
  BY <1>1, <1>2, <1>3, <1>4, <1>5, <1>6, <1>7 DEF TNext

(* Whatever calls what, in cycles or not: each function that a root        *)
(* reaches has a FuncInfo, although touched_func_usrs is asked before one  *)
(* is made, and each function analysed an entry for each of its references *)
(* to variables, and but one.                                              *)
THEOREM ReachedFunctionsCollected == TSpec => []ReachedCollected
<1>1. TInit => ReachInv
  BY NoneIsSeq DEF TInit, ReachInv, AllVisited
<1>2. TInv /\ ReachInv => ReachedCollected
  <2> SUFFICES ASSUME TInv, ReachInv, AllVisited
               PROVE  /\ \A fn \in Reachable : \E i \in DOMAIN infos : i > NumRoots /\ infos[i].fn = fn
                      /\ \A i \in DOMAIN infos : ~External(infos[i]) =>
                           \A c \in Refs(infos[i].fn) : ~Subscript(c) =>
                             Cardinality({p \in DOMAIN infos[i].accesses :
                                            infos[i].accesses[p].origin = c}) = 1
    BY DEF ReachedCollected
  <2>1. /\ CalleesOnce /\ OriginsOnce /\ AllSeen
        /\ \A r \in 1..NumRoots : r \in DOMAIN infos /\ ~External(infos[r])
                                  /\ infos[r].fn \in DOMAIN program.body
    BY NumRootsNat, SeqIs DEF ReachInv, AllVisited, TInv, RootsGood, InfosGood
  <2> DEFINE names == UNION {CalledIn(fn) : fn \in DOMAIN program.body}
  <2>2. ASSUME NEW i \in DOMAIN infos, ~External(infos[i]), infos[i].fn \in DOMAIN program.body
        PROVE  CalledIn(infos[i].fn) \subseteq CalledFns \cap names
    <3> SUFFICES ASSUME NEW fn \in CalledIn(infos[i].fn)
                 PROVE  fn \in CalledFns
      BY <2>2
    <3>1. PICK c \in CursorsOf(infos[i].fn) : Kind(c) = "Call" /\ Sym(c) = fn /\ fn # NoFunc
      BY DEF CalledIn
    <3>2. Seen(i, c)
      BY <2>1, <2>2 DEF AllSeen
    <3> QED
      BY <3>1, <3>2 DEF Seen
  <2>3. ASSUME NEW r \in 1..NumRoots PROVE ClosedUnderCalls(r, CalledFns \cap names)
    <3>1. ASSUME NEW fn \in Analysed(CalledFns \cap names)
          PROVE  CalledIn(fn) \subseteq CalledFns \cap names
      <4>1. fn \in CalledFns /\ ~External(Callee(fn))
        BY DEF Analysed
      <4>2. PICK j \in CalledInfos : infos[j].fn = fn
        BY <4>1 DEF CalledFns
      <4>3. infos[j].in_system_header = InSystemHeader(fn) /\ infos[j].has_definition = HasDefinition(fn)
        BY <2>1, <4>2 DEF CalleesOnce
      <4>4. ~External(infos[j]) /\ HasDefinition(fn)
        BY <4>1, <4>3 DEF External, Callee, FuncInfo
      <4> QED
        BY <2>2, <4>2, <4>4 DEF CalledInfos, HasDefinition
    <3> QED
      BY <2>1, <2>2, <3>1 DEF ClosedUnderCalls
  <2>4. ASSUME NEW fn \in Reachable
        PROVE  \E i \in DOMAIN infos : i > NumRoots /\ infos[i].fn = fn
    <3>1. PICK r \in 1..NumRoots : fn \in ReachedFrom(r)
      BY DEF Reachable
    <3>2. fn \in CalledFns
      BY <2>3, <3>1 DEF ReachedFrom
    <3> QED
      BY <3>2 DEF CalledFns, CalledInfos
  <2>5. ASSUME NEW i \in DOMAIN infos, ~External(infos[i]), NEW c \in Refs(infos[i].fn), ~Subscript(c)
        PROVE  Cardinality({p \in DOMAIN infos[i].accesses : infos[i].accesses[p].origin = c}) = 1
    <3>1. c \in CursorsOf(infos[i].fn) /\ Kind(c) = "Ref" /\ c \in DOMAIN program.kind
      BY DEF Refs, CursorsOf
    <3>2. PICK n \in DOMAIN infos[i].accesses : infos[i].accesses[n].origin = c
      BY <2>1, <2>5, <3>1 DEF AllSeen, Seen, OriginAt
    <3>3. {p \in DOMAIN infos[i].accesses : infos[i].accesses[p].origin = c} = {n}
      BY <2>1, <3>1, <3>2 DEF OriginsOnce, OriginAt
    <3> QED
      BY <3>3, FS_Singleton
  <2> QED
    BY <2>4, <2>5
<1> QED
  BY <1>1, <1>2, WalkAlways, InlineInit, InlineStep, ReachStep, TInvInit, TInvStep, PTL DEF TSpec
-----------------------------------------------------------------------------
(* The types of the entries                                                *)

LEMMA ClassPush ==
  ASSUME TInv, phase = "visit", Classified, UNCHANGED program,
         NEW e, NEW E, e.origin = NoCursor \/ RightEntry(e), E \in {<<>>, <<e>>}, Pushes(E)
  PROVE  Classified'
<1> DEFINE s == infos[current].accesses
           t == infos'[current].accesses
<1>1. /\ DOMAIN infos' = DOMAIN infos /\ t = s \o E /\ IsSeq(s)
      /\ \A i \in DOMAIN infos : i # current => infos'[i].accesses = infos[i].accesses
  BY VisitFacts DEF Pushes, InfosGood, InfoGood
<1>2. \A n \in DOMAIN t : (n \in DOMAIN s /\ t[n] = s[n]) \/ t[n] = e
  <2> HIDE DEF s, t
  <2>1. CASE E = <<>>
    <3>1. t = s
      BY <1>1, <2>1, ConcatNone
    <3> QED
      BY <3>1
  <2>2. CASE E = <<e>>
    <3>1. t = s \o <<e>> /\ IsSeq(s)
      BY <1>1, <2>2
    <3>2. Extends(s, t, e.origin)
      BY <3>1, ExtendsOne
    <3>3. \E n \in DOMAIN t \ DOMAIN s : t[n] = e
      BY <3>1, ExtendsOne
    <3> QED
      BY <3>2, <3>3 DEF Extends
  <2> QED
    BY <2>1, <2>2
<1>3. \A va : RightEntry(va)' <=> RightEntry(va)
  BY DEF RightEntry, Named, Target, Modified, Kind, Kids, Sym, Ancestors, UnderFirst
<1>4. ASSUME NEW i \in DOMAIN infos', NEW n \in DOMAIN infos'[i].accesses,
             infos'[i].accesses[n].origin # NoCursor
      PROVE  RightEntry(infos'[i].accesses[n])
  <2>1. CASE i # current
    BY <1>1, <1>4, <2>1 DEF Classified
  <2>2. CASE i = current
    <3>1. CASE t[n] = e
      BY <1>4, <2>2, <3>1
    <3>2. CASE n \in DOMAIN s /\ t[n] = s[n]
      BY <1>1, <1>4, <2>2, <3>2 DEF Classified
    <3> QED
      BY <1>2, <1>4, <2>2, <3>1, <3>2
  <2> QED
    BY <2>1, <2>2
<1>5. SUFFICES ASSUME NEW i \in DOMAIN infos', NEW n \in DOMAIN infos'[i].accesses,
                      infos'[i].accesses[n].origin # NoCursor,
                      NEW va, va = infos'[i].accesses[n]
               PROVE  RightEntry(va)'
  BY DEF Classified, RightEntry, Named, Target, Modified, Kind, Kids, Sym, Ancestors, UnderFirst
<1> QED
  BY <1>3, <1>4, <1>5

LEMMA ClassCall ==
  ASSUME TInv, Classified, CallExternal \/ EnterCallee
  PROVE  Classified'
<1>1. UNCHANGED program
  BY DEF CallExternal, EnterCallee, FirstCall, AtCursor
<1>2. Grows(NoCursor)
  BY CallGrows
<1>3. ASSUME NEW i \in DOMAIN infos', NEW n \in DOMAIN infos'[i].accesses,
             infos'[i].accesses[n].origin # NoCursor
      PROVE  /\ i \in DOMAIN infos /\ n \in DOMAIN infos[i].accesses
             /\ infos'[i].accesses[n] = infos[i].accesses[n]
  <2>1. i \in DOMAIN infos
    BY <1>2, <1>3, NoneIsSeq DEF Grows
  <2>2. CASE i # current
    BY <1>2, <1>3, <2>1, <2>2 DEF Grows
  <2>3. CASE i = current
    BY <1>2, <1>3, <2>1, <2>3 DEF Grows, Extends
  <2> QED
    BY <2>1, <2>2, <2>3
<1> QED
  BY <1>1, <1>3 DEF Classified, RightEntry, Named, Target, Modified, Kind, Kids, Sym, Ancestors, UnderFirst

LEMMA ClassStep ==
  ASSUME TInv, WalkInv, InlineInv, InlineInv', ClassInv, [TNext]_tvars
  PROVE  ClassInv'
<1>1. CASE CompareDefinition
  <2>1. \A i \in DOMAIN infos' : infos'[i].accesses = <<>>
    BY <1>1 DEF CompareDefinition, InlineInv, Blank
  <2> QED
    BY <2>1, NoneIsSeq DEF ClassInv, Classified
<1>2. CASE RootsFound \/ LeaveCallee \/ LeaveRoot \/ LeaveLastRoot
  <2>1. phase \in {"search", "visit"} /\ UNCHANGED <<program, infos>>
    BY <1>2 DEF RootsFound, LeaveCallee, LeaveRoot, LeaveLastRoot
  <2> QED
    BY <2>1 DEF ClassInv, Classified, RightEntry, Named, Target, Modified, Kind, Kids, Sym, Ancestors, UnderFirst
<1>3. CASE \/ PushParent \/ PopAncestor \/ Settle \/ MarkBranch
           \/ VisitDecl \/ VisitIf \/ VisitVariable \/ VisitOther \/ SkipCall
  <2>1. phase = "visit" /\ UNCHANGED program
    BY <1>3 DEF PushParent, PopAncestor, Settle, MarkBranch, AtCursor, Visit, VisitDecl, VisitIf,
                VisitVariable, VisitOther, SkipCall
  <2>2. PICK e, E : /\ e.origin = NoCursor \/ RightEntry(e)
                    /\ E \in {<<>>, <<e>>} /\ Pushes(E)
    BY <1>3, <2>1, StackPushesMark, VisitPushes
  <2> QED
    BY <2>1, <2>2, ClassPush DEF ClassInv
<1>4. CASE CallExternal \/ EnterCallee
  <2>1. phase = "visit"
    BY <1>4 DEF CallExternal, EnterCallee, FirstCall, AtCursor
  <2> QED
    BY <1>4, <2>1, ClassCall DEF ClassInv
<1>5. CASE Unwind
  <2>1. phase' = "unwind"
    BY <1>5 DEF Unwind
  <2> QED
    BY <1>5, <2>1, UnwindsAfter DEF ClassInv
<1>6. CASE RootsMissing \/ UnwindCrashes \/ Build
  BY <1>6 DEF RootsMissing, UnwindCrashes, Build, ClassInv, AllVisited
<1>7. CASE Stopped \/ UNCHANGED tvars
  BY <1>7 DEF Stopped, tvars, visitor, ClassInv, AllVisited, NumRoots, Classified, RightEntry,
              Named, Target, Modified, Kind, Kids, Sym, Ancestors, UnderFirst
<1> QED
  BY <1>1, <1>2, <1>3, <1>4, <1>5, <1>6, <1>7 DEF TNext

(* For every program: the closest ancestors on the stack tell the visitor  *)
(* of a variable that a simple assignment assigns, itself or in a field,   *)
(* that it is written, and of no other variable than one under the left    *)
(* side of a simple assignment, an increment or a decrement, even when     *)
(* earlier calls have left on the stack what does not belong there.        *)
THEOREM WritesTold == TSpec => []WritesClassified
<1>1. TInit => ClassInv
  BY NoneIsSeq DEF TInit, ClassInv, Classified
<1>2. TInv /\ ClassInv => WritesClassified
  <2> SUFFICES ASSUME TInv, ClassInv, AllVisited, NEW i \in DOMAIN infos,
                      NEW va \in Range(infos[i].accesses), va.origin # NoCursor
               PROVE  /\ Target(va.origin) => va.type = "Write"
                      /\ va.type \in {"Write", "PtrWrite"} => Modified(va.origin)
    BY DEF WritesClassified
  <2>1. PICK n \in DOMAIN infos[i].accesses : va = infos[i].accesses[n]
    BY DEF Range
  <2> QED
    BY <2>1 DEF ClassInv, Classified, RightEntry
<1> QED
  BY <1>1, <1>2, WalkAlways, InlineInit, InlineStep, ClassStep, TInvInit, TInvStep, PTL DEF TSpec
-----------------------------------------------------------------------------
(* The names of the parameters                                             *)

(* Parameters are declared once, and nothing else adds to params.          *)
LEMMA ParamsStay ==
  ASSUME UNCHANGED program, NEW i \in DOMAIN infos, ParamsOnce(i),
         infos'[i].params = infos[i].params, \A c : Pending(i, c)' => Pending(i, c)
  PROVE  ParamsOnce(i)'
<1>1. SymsApart' <=> SymsApart
  BY DEF SymsApart, Kind, Sym
<1> QED
  BY <1>1 DEF ParamsOnce, Kind, Sym

LEMMA NoParamsOnce ==
  ASSUME NEW i, infos'[i].params = <<>>
  PROVE  ParamsOnce(i)'
BY NoneIsSeq DEF ParamsOnce

LEMMA NamesKept ==
  ASSUME TInv, phase = "visit", ParamsSeen, UNCHANGED <<program, next>>,
         DOMAIN infos \subseteq DOMAIN infos', ParamsKept,
         \A i \in DOMAIN infos' \ DOMAIN infos : infos'[i].params = <<>>,
         \A i \in DOMAIN infos : \A c : Pending(i, c)' => Pending(i, c)
  PROVE  ParamsSeen'
<1>1. /\ NumRoots' = NumRoots /\ NumRoots \in Nat /\ NumRoots <= Len(infos)
      /\ Len(infos) \in Nat /\ DOMAIN infos = 1..Len(infos)
  BY VisitFacts DEF NumRoots
<1>2. \A r \in 1..NumRoots : r \in DOMAIN infos
  BY <1>1
<1>3. ASSUME NEW i \in DOMAIN infos' PROVE ParamsOnce(i)'
  <2>1. CASE i \in DOMAIN infos
    BY <2>1, ParamsStay DEF ParamsSeen, ParamsKept
  <2>2. CASE i \notin DOMAIN infos
    BY <2>2, NoParamsOnce
  <2> QED
    BY <2>1, <2>2
<1> QED
  BY <1>1, <1>2, <1>3 DEF ParamsSeen, ParamsKept

LEMMA OtherFieldKept ==
  ASSUME TInv, phase = "visit", NEW x,
         \/ UNCHANGED infos
         \/ infos' = [infos EXCEPT ![current].accesses = x]
         \/ infos' = [infos EXCEPT ![current].locals = x]
  PROVE  DOMAIN infos' = DOMAIN infos /\ ParamsKept
<1>1. current \in DOMAIN infos /\ \A i \in DOMAIN infos : DOMAIN infos[i] = InfoFields
  BY VisitFacts DEF InfosGood, InfoGood
<1>2. /\ DOMAIN infos' = DOMAIN infos
      /\ \A i \in DOMAIN infos : i # current => infos'[i] = infos[i]
      /\ \/ infos'[current] = infos[current]
         \/ infos'[current] = [infos[current] EXCEPT !.accesses = x]
         \/ infos'[current] = [infos[current] EXCEPT !.locals = x]
  BY <1>1
<1>3. infos'[current].params = infos[current].params
  BY <1>1, <1>2 DEF InfoFields
<1> QED
  BY <1>2, <1>3 DEF ParamsKept

LEMMA NamesStack ==
  ASSUME TInv, ParamsSeen, PushParent \/ PopAncestor \/ Settle \/ MarkBranch
  PROVE  ParamsSeen'
<1>1. phase = "visit" /\ UNCHANGED <<program, next, frames>>
  BY DEF PushParent, PopAncestor, Settle, MarkBranch, AtCursor
<1>2. UNCHANGED infos \/ \E x : infos' = [infos EXCEPT ![current].accesses = x]
  BY DEF PushParent, PopAncestor, Settle, MarkBranch, Push
<1>3. DOMAIN infos' = DOMAIN infos /\ ParamsKept
  BY <1>1, <1>2, OtherFieldKept
<1>4. \A i, c : Pending(i, c)' => Pending(i, c)
  BY <1>1 DEF Pending
<1> QED
  BY <1>1, <1>3, <1>4, NamesKept

LEMMA NamesCall ==
  ASSUME TInv, WalkInv, ParamsSeen, CallExternal \/ EnterCallee
  PROVE  ParamsSeen'
<1> DEFINE n == Len(infos)
<1>1. /\ phase = "visit" /\ Top.todo # <<>> /\ UNCHANGED <<program, next>>
      /\ infos' = WithCallee
  BY DEF CallExternal, EnterCallee, FirstCall, AtCursor
<1>2. /\ InfosGood /\ CallsAligned /\ current \in DOMAIN infos
      /\ n \in Nat /\ DOMAIN infos = 1..n
  BY <1>1, VisitFacts
<1>3. ParamsKept /\ infos'[n + 1] = Callee(Sym(Here))
  BY <1>1, <1>2, CalleeStep DEF WithCallee
<1>4. DOMAIN infos' = 1..(n + 1)
  BY CallFacts
<1>5. infos'[n + 1].params = <<>>
  BY <1>3 DEF Callee, FuncInfo
<1>6. frames' = GoOn \/ \E f : frames' = Append(GoOn, f) /\ f.info \notin DOMAIN infos
  <2>1. n + 1 \notin DOMAIN infos
    BY <1>2
  <2> QED
    BY <2>1 DEF CallExternal, EnterCallee, Frame
<1>7. \A i \in DOMAIN infos : \A c : Pending(i, c)' => Pending(i, c)
  BY <1>1, <1>6, PendingOn
<1>8. DOMAIN infos \subseteq DOMAIN infos' /\ \A i \in DOMAIN infos' \ DOMAIN infos : i = n + 1
  BY <1>2, <1>4
<1> QED
  BY <1>1, <1>3, <1>5, <1>7, <1>8, NamesKept

LEMMA NamesReturn ==
  ASSUME TInv, ParamsSeen, LeaveCallee
  PROVE  ParamsSeen'
<1>1. phase = "visit" /\ UNCHANGED <<program, next, infos>>
  BY DEF LeaveCallee
<1>2. \A i, c : Pending(i, c)' => Pending(i, c)
  BY PendingReturn
<1> QED
  BY <1>1, <1>2, NamesKept DEF ParamsKept

(* The parameter declared is a new one.                                    *)
LEMMA NamesParam ==
  ASSUME TInv, WalkInv, InlineInv, ParamsSeen, VisitDecl, Kind(Here) = "Parm"
  PROVE  ParamsSeen'
<1>1. /\ phase = "visit" /\ Top.todo # <<>> /\ UNCHANGED <<program, next>> /\ frames' = GoOn
      /\ infos' = [infos EXCEPT ![current].params = Append(@, Sym(Here))]
  BY DEF VisitDecl, Visit, AtCursor
<1>2. /\ current \in DOMAIN infos /\ next \in 1..NumRoots /\ Active(current)
      /\ NumRoots \in Nat /\ NumRoots <= Len(infos)
      /\ Len(infos) \in Nat /\ DOMAIN infos = 1..Len(infos)
  BY <1>1, VisitFacts
<1>3. PICK i : i = current
  OBVIOUS
<1>4. PICK h : h = Here
  OBVIOUS
<1>5. PICK s : s = infos[i].params
  OBVIOUS
<1>6. IsSeq(s) /\ DOMAIN infos[i] = InfoFields
  BY <1>2, <1>3, <1>5 DEF TInv, InfosGood, InfoGood
<1>7. /\ DOMAIN infos' = DOMAIN infos
      /\ \A j \in DOMAIN infos : j # i => infos'[j] = infos[j]
      /\ infos'[i].params = Append(s, Sym(h))
  <2>1. infos'[i] = [infos[i] EXCEPT !.params = Append(s, Sym(h))]
    BY <1>1, <1>2, <1>3, <1>4, <1>5
  <2> QED
    BY <2>1, <1>1, <1>2, <1>3, <1>6 DEF InfoFields
<1>8. h \in DOMAIN program.kind /\ Kind(h) = "Parm"
  BY <1>1, <1>4, HereFacts DEF TInv, Cursors
<1>9. /\ \A j \in DOMAIN infos : \A c : Pending(j, c)' => Pending(j, c)
      /\ Pending(i, h) /\ ~Pending(i, h)'
  <2>1. \A j \in DOMAIN infos : \A c : /\ Pending(j, c)' <=> Pending(j, c) /\ ~(j = current /\ c = Here)
                                       /\ Pending(current, Here)
    BY <1>1, PendingOn
  <2> QED
    BY <2>1, <1>2, <1>3, <1>4
<1>10. ParamsOnce(i)'
  <2> DEFINE t == Append(s, Sym(h))
  <2>1. SUFFICES ASSUME SymsApart
                 PROVE  /\ \A k \in DOMAIN t : \E c \in DOMAIN program.kind :
                             Kind(c) = "Parm" /\ Sym(c) = t[k] /\ ~Pending(i, c)'
                        /\ \A k \in DOMAIN t, l \in DOMAIN t : t[k] = t[l] => k = l
    BY <1>1, <1>7 DEF ParamsOnce, SymsApart, Kind, Sym
  <2>2. /\ \A k \in DOMAIN s : \E c \in DOMAIN program.kind :
             Kind(c) = "Parm" /\ Sym(c) = s[k] /\ ~Pending(i, c)
        /\ \A k \in DOMAIN s, l \in DOMAIN s : s[k] = s[l] => k = l
    BY <2>1, <1>2, <1>3, <1>5 DEF ParamsSeen, ParamsOnce
  <2>3. \A k \in DOMAIN s : s[k] # Sym(h)
    BY <2>1, <2>2, <1>8, <1>9 DEF SymsApart
  <2>4. /\ DOMAIN t = 1..(Len(s) + 1) /\ Len(s) \in Nat /\ DOMAIN s = 1..Len(s)
        /\ t[Len(s) + 1] = Sym(h) /\ \A k \in 1..Len(s) : t[k] = s[k]
    <3>1. /\ IsSeq(Append(s, Sym(h))) /\ Len(Append(s, Sym(h))) = Len(s) + 1
          /\ Append(s, Sym(h))[Len(s) + 1] = Sym(h)
          /\ \A k \in 1..Len(s) : Append(s, Sym(h))[k] = s[k]
      BY <1>6, SeqAppend
    <3>2. IsSeq(t) /\ Len(t) = Len(s) + 1
      BY <3>1
    <3> QED
      BY <3>1, <3>2, <1>6, SeqIs
  <2> HIDE DEF t
  <2>5. \A k \in DOMAIN t : (k \in DOMAIN s /\ t[k] = s[k]) \/ (k = Len(s) + 1 /\ t[k] = Sym(h))
    BY <2>4
  <2>6. \A k \in DOMAIN t : \E c \in DOMAIN program.kind :
          Kind(c) = "Parm" /\ Sym(c) = t[k] /\ ~Pending(i, c)'
    BY <2>2, <2>5, <1>2, <1>3, <1>8, <1>9
  <2>7. \A k \in DOMAIN t, l \in DOMAIN t : t[k] = t[l] => k = l
    BY <2>2, <2>3, <2>5
  <2> QED
    BY <2>6, <2>7
<1>11. \A j \in DOMAIN infos' : ParamsOnce(j)'
  <2> TAKE j \in DOMAIN infos'
  <2>1. CASE j = i
    BY <2>1, <1>10
  <2>2. CASE j # i
    BY <2>2, <1>1, <1>7, <1>9, ParamsStay DEF ParamsSeen
  <2> QED
    BY <2>1, <2>2
<1>12. ASSUME NEW r \in 1..NumRoots, r > next
       PROVE  infos'[r].params = <<>>
  <2>1. ~(i \in 1..NumRoots /\ i > next)
    BY <1>1, <1>2, <1>3, ActiveRoot DEF InlineInv
  <2>2. r \in DOMAIN infos /\ r # i
    BY <2>1, <1>2, <1>12
  <2> QED
    BY <2>2, <1>7, <1>12 DEF ParamsSeen
<1> QED
  BY <1>1, <1>11, <1>12 DEF ParamsSeen, NumRoots

LEMMA NamesVisit ==
  ASSUME TInv, WalkInv, InlineInv, ParamsSeen,
         VisitDecl \/ VisitIf \/ VisitVariable \/ VisitOther \/ SkipCall
  PROVE  ParamsSeen'
<1>1. /\ phase = "visit" /\ Top.todo # <<>> /\ UNCHANGED <<program, next>> /\ frames' = GoOn
  BY DEF Visit, VisitDecl, VisitIf, VisitVariable, VisitOther, SkipCall, AtCursor
<1>2. CASE VisitDecl /\ Kind(Here) = "Parm"
  BY <1>2, NamesParam
<1>3. CASE ~(VisitDecl /\ Kind(Here) = "Parm")
  <2>1. \/ UNCHANGED infos
        \/ \E x : \/ infos' = [infos EXCEPT ![current].accesses = x]
                  \/ infos' = [infos EXCEPT ![current].locals = x]
    BY <1>3 DEF VisitDecl, VisitIf, VisitVariable, VisitOther, SkipCall, Push
  <2>2. DOMAIN infos' = DOMAIN infos /\ ParamsKept
    BY <1>1, <2>1, OtherFieldKept
  <2>3. \A i \in DOMAIN infos : \A c : Pending(i, c)' => Pending(i, c)
    BY <1>1, PendingOn
  <2> QED
    BY <1>1, <2>2, <2>3, NamesKept
<1> QED
  BY <1>2, <1>3
-----------------------------------------------------------------------------
(* Unwinding a root gives its parameters the arguments                     *)

LEMMA ClearApart ==
  ASSUME program \in Programs, NamesClear
  PROVE  SymsApart
<1>1. ASSUME NEW c \in DOMAIN program.kind, NEW d \in DOMAIN program.kind,
             Kind(c) = "Parm", Kind(d) = "Parm", Sym(c) = Sym(d)
      PROVE  c = d
  <2>1. <<Sym(c), Sym(d)>> \in UsrBegins
    BY <1>1, UsrBeginsAssumption DEF Kind, Sym
  <2> QED
    BY <1>1, <2>1 DEF NamesClear
<1> QED
  BY <1>1 DEF SymsApart

LEMMA HeadConcat ==
  ASSUME NEW s, IsSeq(s), Len(s) = 1, NEW t, IsSeq(t)
  PROVE  Head(s \o t) = s[1]
<1> DEFINE u == s \o t
<1>1. /\ IsSeq(s \o t) /\ Len(s \o t) = Len(s) + Len(t)
      /\ \A i \in 1..Len(s) : (s \o t)[i] = s[i]
  BY SeqConcat
<1>2. u[1] = s[1]
  BY <1>1
<1>3. Head(u) = u[1]
  <2> HIDE DEF u
  <2> QED
    OBVIOUS
<1> QED
  BY <1>2, <1>3

LEMMA RenamedHead ==
  ASSUME NEW va, EntryGood(va), Named(va), NEW params, NEW args,
         NEW k \in DOMAIN params, k \in DOMAIN args,
         \A l \in DOMAIN args \cap DOMAIN params :
           <<params[l], Head(va.usr)>> \in UsrBegins <=> l = k,
         DOMAIN params \subseteq Nat
  PROVE  Head(Renamed(params, args, va).usr) = args[k]
<1> DEFINE ks == {l \in DOMAIN args \cap DOMAIN params : <<params[l], Head(va.usr)>> \in UsrBegins}
           u == <<args[k]>> \o Tail(va.usr)
<1>1. ks = {k}
  OBVIOUS
<1>2. Min(ks) = k
  BY <1>1 DEF Min
<1>3. Renamed(params, args, va) = [va EXCEPT !.usr = u]
  BY <1>1, <1>2 DEF Renamed, Named
<1>4. Renamed(params, args, va).usr = u
  <2> HIDE DEF u
  <2> QED
    BY <1>3 DEF EntryGood
<1>5. Head(u) = args[k]
  <2> DEFINE one == <<args[k]>>
             t == Tail(va.usr)
  <2>1. IsSeq(t)
    <3> DEFINE s == va.usr
    <3>1. s \in Seq({s[i] : i \in DOMAIN s}) /\ s # <<>>
      BY DEF Named, IsSeq
    <3> HIDE DEF s
    <3>2. Tail(s) \in Seq({s[i] : i \in DOMAIN s})
      BY <3>1, HeadTailProperties
    <3> QED
      BY <3>2, SeqTyped DEF s
  <2>2. IsSeq(one) /\ Len(one) = 1 /\ one[1] = args[k]
    BY OneIsSeq
  <2> HIDE DEF one, t
  <2>3. Head(one \o t) = one[1]
    BY <2>1, <2>2, HeadConcat
  <2>4. Head(one \o t) = args[k]
    BY <2>2, <2>3
  <2> QED
    BY <2>4 DEF one, t
<1> QED
  BY <1>4, <1>5

LEMMA MarkedUsr ==
  ASSUME NEW va, DOMAIN va = {"type", "usr", "esc", "idx", "origin", "ptr"}, NEW info
  PROVE  Marked(info, va).usr = va.usr /\ Marked(info, va).origin = va.origin
<1>1. Marked(info, va) = va \/ \E type : Marked(info, va) = [va EXCEPT !.type = type]
  BY DEF Marked
<1> HIDE DEF Marked
<1> QED
  BY <1>1

LEMMA RenamedShape ==
  ASSUME NEW va, EntryGood(va), NEW params, NEW args
  PROVE  /\ DOMAIN Renamed(params, args, va) = {"type", "usr", "esc", "idx", "origin", "ptr"}
         /\ Renamed(params, args, va).origin = va.origin
<1>1. Renamed(params, args, va) = va \/ \E u : Renamed(params, args, va) = [va EXCEPT !.usr = u]
  BY DEF Renamed
<1> HIDE DEF Renamed
<1> QED
  BY <1>1 DEF EntryGood

(* The unwinding of FuncInfo i: the next in line.                          *)
LEMMA UnwindShape ==
  ASSUME TInv, Unwind, NEW i, i = Head(work)
  PROVE  /\ i \in DOMAIN infos /\ DOMAIN infos' = DOMAIN infos
         /\ infos'[i] = UnwoundOwn(infos[i], ArgsOf(i))
         /\ \A j \in DOMAIN infos :
              /\ infos'[j].fn = infos[j].fn /\ infos'[j].params = infos[j].params
              /\ infos'[j].callees = infos[j].callees
              /\ External(infos'[j]) <=> External(infos[j])
              /\ (\A k \in DOMAIN infos[i].callees : infos[i].callees[k] # j) =>
                   j = i \/ infos'[j] = infos[j]
<1>1. /\ InfosGood /\ work \in Seq(DOMAIN infos) /\ work # <<>>
      /\ infos' = unwind_func_info(infos, i, ArgsOf(i))
  BY DEF TInv, WorkGood, Unwind
<1>2. i \in DOMAIN infos
  BY <1>1, HeadTailProperties
<1>3. DOMAIN infos' = DOMAIN infos /\ infos'[i] = UnwoundOwn(infos[i], ArgsOf(i))
  BY <1>1, <1>2 DEF unwind_func_info
<1>4. ASSUME NEW j \in DOMAIN infos, j # i
      PROVE  /\ infos'[j] = infos[j] \/ \E u : infos'[j] = [infos[j] EXCEPT !.accesses = u]
             /\ (\A k \in DOMAIN infos[i].callees : infos[i].callees[k] # j) => infos'[j] = infos[j]
  <2>1. Contains(infos[i].callees, j) => \E k \in DOMAIN infos[i].callees : infos[i].callees[k] = j
    <3>1. infos[i].callees \in Seq((i + 1)..Len(infos))
      BY <1>1, <1>2 DEF InfosGood, InfoGood
    <3>2. DOMAIN infos[i].callees = 1..Len(infos[i].callees)
      BY <3>1, LenProperties
    <3> QED
      BY <3>2 DEF Contains
  <2> QED
    BY <1>1, <1>4, <2>1 DEF unwind_func_info
<1>5. infos'[i] = infos[i] \/ \E u : infos'[i] = [infos[i] EXCEPT !.accesses = u]
  BY <1>3 DEF UnwoundOwn
<1>6. ASSUME NEW j \in DOMAIN infos
      PROVE  /\ infos'[j].fn = infos[j].fn /\ infos'[j].params = infos[j].params
             /\ infos'[j].callees = infos[j].callees
             /\ External(infos'[j]) <=> External(infos[j])
  <2>1. infos'[j] = infos[j] \/ \E u : infos'[j] = [infos[j] EXCEPT !.accesses = u]
    BY <1>4, <1>5
  <2>2. DOMAIN infos[j] = InfoFields
    BY <1>1 DEF InfosGood, InfoGood
  <2> QED
    BY <2>1, <2>2 DEF InfoFields, External
<1> QED
  BY <1>2, <1>3, <1>4, <1>6

LEMMA ClearStays ==
  ASSUME UNCHANGED program, DOMAIN infos' = DOMAIN infos, \A r \in 1..NumRoots : r \in DOMAIN infos,
         \A j \in DOMAIN infos : infos'[j].fn = infos[j].fn /\ infos'[j].params = infos[j].params
  PROVE  NamesClear' <=> NamesClear
<1>1. InOrder' <=> InOrder
  <2>1. \A fn : Arity(fn)' = Arity(fn)
    BY DEF Arity, Params, Kids, Kind
  <2> QED
    BY <2>1 DEF InOrder, NumRoots, Matches
<1> QED
  BY <1>1 DEF NamesClear, NumRoots, Kind, Sym

LEMMA RootUnwound ==
  ASSUME TInv, Unwind, NEW i \in 1..NumRoots, i = Head(work),
         ~External(infos[i]), ParamsOnce(i), Raw(i), NamesClear
  PROVE  Unwound(i)'
<1>1. /\ program \in Programs /\ InfosGood /\ UNCHANGED program
      /\ program.command \in Seq([func : STRING, args : Seq(STRING)])
  BY ProgramFacts DEF TInv, ScalarsGood, Unwind
<1> DEFINE s == infos[i].accesses
           ps == infos[i].params
           args == program.command[i].args
           t == [p \in DOMAIN s |-> Marked(infos[i], Renamed(ps, args, s[p]))]
<1>2. /\ i \in DOMAIN infos /\ infos'[i] = UnwoundOwn(infos[i], args) /\ infos'[i].params = ps
  BY UnwindShape DEF ArgsOf
<1>3. DOMAIN infos[i] = InfoFields /\ IsSeq(ps) /\ \A p \in DOMAIN s : EntryGood(s[p])
  BY <1>1, <1>2 DEF InfosGood, InfoGood
<1>4. infos'[i].accesses = t
  <2>1. infos'[i] = [infos[i] EXCEPT !.accesses = t]
    BY <1>2 DEF UnwoundOwn
  <2> HIDE DEF t
  <2> QED
    BY <2>1, <1>3 DEF InfoFields
<1>5. DOMAIN ps = 1..Len(ps) /\ Len(ps) \in Nat /\ DOMAIN args = DOMAIN ps
  <2>1. i \in 1..Len(program.command)
    BY DEF NumRoots
  <2>2. args \in Seq(STRING)
    <3> DEFINE call == program.command
               S == [func : STRING, args : Seq(STRING)]
    <3> HIDE DEF call, S
    <3>1. call \in Seq(S) /\ i \in 1..Len(call)
      BY <1>1, <2>1 DEF call, S
    <3>2. call[i] \in S
      BY <3>1
    <3> QED
      BY <3>2 DEF call, S
  <2>3. Len(args) = Len(ps)
    BY DEF NamesClear
  <2>4. DOMAIN args = 1..Len(args)
    <3> HIDE DEF args
    <3> QED
      BY <2>2, LenProperties
  <2>5. DOMAIN ps = 1..Len(ps) /\ Len(ps) \in Nat
    <3> HIDE DEF ps
    <3> QED
      BY <1>3, SeqIs
  <2> QED
    BY <2>3, <2>4, <2>5
<1>6. /\ SymsApart
      /\ \A k \in DOMAIN ps : \E c \in DOMAIN program.kind : Kind(c) = "Parm" /\ Sym(c) = ps[k]
      /\ \A k \in DOMAIN ps, l \in DOMAIN ps : ps[k] = ps[l] => k = l
  BY <1>1, ClearApart DEF ParamsOnce
<1>7. ASSUME NEW n \in DOMAIN s, NEW k \in DOMAIN ps, s[n].origin # NoCursor, Sym(s[n].origin) = ps[k]
      PROVE  Head(Renamed(ps, args, s[n]).usr) = args[k]
  <2>1. Named(s[n]) /\ EntryGood(s[n]) /\ Head(s[n].usr) = ps[k]
    BY <1>3, <1>7 DEF Raw, Named
  <2>2. \A l \in DOMAIN ps : <<ps[l], ps[k]>> \in UsrBegins <=> l = k
    <3>1. PICK d \in DOMAIN program.kind : Kind(d) = "Parm" /\ Sym(d) = ps[k]
      BY <1>6
    <3>2. <<ps[k], ps[k]>> \in UsrBegins
      BY <3>1, <1>1, UsrBeginsAssumption DEF Kind, Sym
    <3>3. ASSUME NEW l \in DOMAIN ps, <<ps[l], ps[k]>> \in UsrBegins
          PROVE  l = k
      <4>1. PICK c \in DOMAIN program.kind : Kind(c) = "Parm" /\ Sym(c) = ps[l]
        BY <1>6
      <4>2. ps[l] = ps[k]
        BY <3>1, <3>3, <4>1 DEF NamesClear
      <4> QED
        BY <4>2, <1>6
    <3> QED
      BY <3>2, <3>3
  <2>3. k \in DOMAIN args /\ DOMAIN ps \subseteq Nat
    BY <1>5
  <2> HIDE DEF ps, args
  <2>4. \A l \in DOMAIN args \cap DOMAIN ps : <<ps[l], Head(s[n].usr)>> \in UsrBegins <=> l = k
    BY <2>1, <2>2
  <2> HIDE DEF s
  <2> QED
    BY <1>7, <2>1, <2>3, <2>4, RenamedHead
<1>8. ASSUME NEW n \in DOMAIN s
      PROVE  /\ t[n].usr = Renamed(ps, args, s[n]).usr
             /\ t[n].origin = s[n].origin
  <2> DEFINE v == Renamed(ps, args, s[n])
  <2>1. DOMAIN v = {"type", "usr", "esc", "idx", "origin", "ptr"} /\ v.origin = s[n].origin
    BY <1>3, RenamedShape
  <2> HIDE DEF v
  <2>2. Marked(infos[i], v).usr = v.usr /\ Marked(infos[i], v).origin = v.origin
    BY <2>1, MarkedUsr
  <2> QED
    BY <2>1, <2>2 DEF v
<1>9. \A n \in DOMAIN t, k \in DOMAIN ps :
        t[n].origin # NoCursor /\ Sym(t[n].origin) = ps[k] => Head(t[n].usr) = args[k]
  <2>1. DOMAIN t = DOMAIN s
    OBVIOUS
  <2> HIDE DEF t, s, ps, args
  <2> QED
    BY <2>1, <1>7, <1>8
<1> HIDE DEF t
<1> QED
  BY <1>1, <1>2, <1>4, <1>9 DEF Unwound, Sym
-----------------------------------------------------------------------------
(* The steps, one by one                                                   *)

LEMMA NamesFirstRoot ==
  ASSUME TInv, \A i \in DOMAIN infos : infos[i].params = <<>>, RootsFound
  PROVE  ParamsSeen'
<1>1. UNCHANGED <<program, infos>> /\ Len(infos) = NumRoots
  BY DEF RootsFound, NumRoots
<1>2. DOMAIN infos = 1..NumRoots
  BY <1>1, SeqIs DEF TInv, InfosGood
<1> QED
  BY <1>1, <1>2, NoParamsOnce DEF ParamsSeen, NumRoots

LEMMA NamesNextRoot ==
  ASSUME TInv, ParamsSeen, LeaveRoot
  PROVE  ParamsSeen'
<1>1. /\ phase = "visit" /\ next < NumRoots /\ StartRoot(next + 1) /\ next' = next + 1
      /\ UNCHANGED <<program, infos>>
  BY DEF LeaveRoot
<1>2. /\ NumRoots \in Nat /\ next \in 1..NumRoots /\ next + 1 \in 1..NumRoots
      /\ infos[next + 1].fn \in DOMAIN program.body
  <2>1. NumRoots \in Nat /\ next \in 1..NumRoots
    BY <1>1, VisitFacts
  <2>2. next + 1 \in 1..NumRoots
    BY <1>1, <2>1
  <2> QED
    BY <1>1, <2>1, <2>2 DEF TInv, RootsGood
<1>3. PICK n : n = next + 1
  OBVIOUS
<1>4. \A i, c : Pending(i, c)' => i = n
  BY <1>1, <1>2, <1>3, StartPending DEF TInv
<1>5. n \in 1..NumRoots /\ n > next
  BY <1>2, <1>3
<1>6. infos[n].params = <<>>
  BY <1>5 DEF ParamsSeen
<1>7. \A i \in DOMAIN infos' : ParamsOnce(i)'
  <2> TAKE i \in DOMAIN infos'
  <2>1. CASE i = n
    BY <2>1, <1>1, <1>6, NoParamsOnce
  <2>2. CASE i # n
    BY <2>2, <1>1, <1>4, ParamsStay DEF ParamsSeen
  <2> QED
    BY <2>1, <2>2
<1>8. \A r \in 1..NumRoots : r > n => r > next
  BY <1>2, <1>3
<1> QED
  BY <1>1, <1>3, <1>7, <1>8 DEF ParamsSeen, NumRoots

LEMMA NamesEnd ==
  ASSUME TInv, InlineInv, ClassInv, ParamsSeen, LeaveLastRoot
  PROVE  RootsUnwound'
<1>1. /\ phase = "visit" /\ UNCHANGED <<program, infos>> /\ frames' = <<>>
      /\ work' = [r \in 1..NumRoots |-> r]
      /\ Forest /\ RootsWaiting /\ Classified
  BY DEF LeaveLastRoot, InlineInv, ClassInv
<1>2. /\ NumRoots' = NumRoots /\ NumRoots \in Nat /\ NumRoots <= Len(infos)
      /\ Len(infos) \in Nat /\ DOMAIN infos = 1..Len(infos)
  BY <1>1, VisitFacts DEF NumRoots
<1>3. \A r \in 1..NumRoots : r \in DOMAIN infos
  BY <1>2
<1>4. \A i, c : ~Pending(i, c)'
  <2>1. \A m \in 1..Len(frames') : FALSE
    BY <1>1
  <2> QED
    BY <2>1 DEF Pending
<1>5. \A r \in 1..NumRoots : ParamsOnce(r)'
  BY <1>1, <1>3, <1>4, ParamsStay DEF ParamsSeen
<1>6. \A r \in 1..NumRoots : Waiting(r)' /\ Raw(r)'
  <2> TAKE r \in 1..NumRoots
  <2>1. Waiting(r)'
    BY <1>1 DEF Waiting
  <2>2. Raw(r)
    BY <1>1, <1>3 DEF Raw, Classified, RightEntry
  <2> QED
    BY <1>1, <2>1, <2>2 DEF Raw, Named, Sym
<1>7. \A j \in DOMAIN work', k \in DOMAIN work' : work'[j] = work'[k] => j = k
  BY <1>1
<1>8. \A i \in DOMAIN infos : \A k \in DOMAIN infos[i].callees : infos[i].callees[k] > NumRoots
  BY <1>1 DEF Forest
<1>9. \A r \in 1..NumRoots : ~External(infos[r])
  BY <1>1 DEF RootsWaiting
<1> QED
  BY <1>1, <1>2, <1>5, <1>6, <1>7, <1>8, <1>9 DEF RootsUnwound, External

(* The callees of the FuncInfo unwound take its place in work.             *)
LEMMA WorkMoves ==
  ASSUME TInv, RootsUnwound, Unwind, NEW i, i = Head(work), NEW r \in 1..NumRoots
  PROVE  /\ Waiting(r)' <=> Waiting(r) /\ r # i
         /\ \A j \in DOMAIN work', k \in DOMAIN work' : work'[j] = r /\ work'[k] = r => j = k
<1> DEFINE cs == infos[i].callees
           t == Tail(work)
           n == Len(cs)
<1>1. /\ work \in Seq(DOMAIN infos) /\ work # <<>> /\ work' = cs \o t /\ InfosGood
  BY DEF TInv, WorkGood, Unwind, WorkAfter
<1>2. /\ i \in DOMAIN infos /\ t \in Seq(DOMAIN infos) /\ Len(t) = Len(work) - 1
      /\ Len(work) \in Nat \ {0} /\ DOMAIN work = 1..Len(work) /\ work[1] = i
      /\ \A k \in 1..(Len(work) - 1) : t[k] = work[k + 1]
  BY <1>1, HeadTailProperties, LenProperties
<1>3. IsSeq(cs) /\ IsSeq(t)
  <2>1. cs \in Seq((i + 1)..Len(infos))
    BY <1>1, <1>2 DEF InfosGood, InfoGood
  <2> QED
    BY <2>1, <1>2, SeqTyped
<1>4. /\ DOMAIN t = 1..(Len(work) - 1) /\ n \in Nat /\ DOMAIN cs = 1..n
  <2> HIDE DEF cs, t
  <2> QED
    BY <1>2, <1>3, SeqIs
<1>5. \A k \in DOMAIN cs : cs[k] # r
  <2>1. NumRoots \in Nat
    BY NumRootsNat DEF TInv
  <2>2. \A k \in DOMAIN cs : cs[k] > NumRoots
    BY <1>2 DEF RootsUnwound
  <2>3. \A x : x > NumRoots => x # r
    BY <2>1
  <2> QED
    BY <2>2, <2>3
<1>6. \A j \in DOMAIN work, k \in DOMAIN work : work[j] = r /\ work[k] = r => j = k
  BY DEF RootsUnwound
<1> HIDE DEF cs, t, n
<1>7. /\ Len(cs \o t) = n + Len(t) /\ IsSeq(cs \o t)
      /\ \A j \in 1..Len(t) : (cs \o t)[n + j] = t[j]
      /\ \A j \in DOMAIN (cs \o t) :
           \/ j \in DOMAIN cs /\ (cs \o t)[j] = cs[j]
           \/ j - n \in DOMAIN t /\ (cs \o t)[j] = t[j - n]
  BY <1>3, SeqConcat DEF n
<1>8. DOMAIN work' = 1..(n + Len(work) - 1)
  <2>1. DOMAIN (cs \o t) = 1..Len(cs \o t)
    BY <1>7, SeqIs
  <2> QED
    BY <2>1, <1>1, <1>2, <1>7
<1>9. ASSUME NEW j \in DOMAIN work', work'[j] = r
      PROVE  j - n + 1 \in DOMAIN work /\ work[j - n + 1] = r /\ j - n + 1 # 1
  <2>1. j - n \in DOMAIN t /\ t[j - n] = r
    BY <1>1, <1>5, <1>7, <1>9
  <2> QED
    BY <2>1, <1>2, <1>4, <1>8, <1>9
<1>10. ASSUME Waiting(r), r # i
       PROVE  Waiting(r)'
  <2>1. PICK k \in DOMAIN work : work[k] = r
    BY <1>10 DEF Waiting
  <2>2. k # 1
    BY <2>1, <1>2, <1>10
  <2>3. k - 1 \in 1..(Len(work) - 1) /\ (k - 1) + 1 = k /\ n + (k - 1) \in DOMAIN work'
    BY <2>1, <2>2, <1>2, <1>4, <1>8
  <2>4. t[k - 1] = r
    BY <2>1, <2>3, <1>2
  <2>5. work'[n + (k - 1)] = r
    BY <2>3, <2>4, <1>1, <1>2, <1>7
  <2> QED
    BY <2>3, <2>5 DEF Waiting
<1>11. ASSUME Waiting(r)'
       PROVE  Waiting(r) /\ r # i
  <2>1. PICK j \in DOMAIN work' : work'[j] = r
    BY <1>11 DEF Waiting
  <2>2. j - n + 1 \in DOMAIN work /\ work[j - n + 1] = r /\ j - n + 1 # 1
    BY <2>1, <1>9
  <2>3. 1 \in DOMAIN work
    BY <1>2
  <2> QED
    BY <2>2, <2>3, <1>2, <1>6 DEF Waiting
<1>12. ASSUME NEW j \in DOMAIN work', NEW k \in DOMAIN work', work'[j] = r, work'[k] = r
       PROVE  j = k
  <2>1. j - n + 1 = k - n + 1
    BY <1>6, <1>9, <1>12
  <2> QED
    BY <2>1, <1>4, <1>8
<1> QED
  BY <1>10, <1>11, <1>12

LEMMA NamesUnwind ==
  ASSUME TInv, RootsUnwound, Unwind
  PROVE  RootsUnwound'
<1>1. UNCHANGED <<program, frames>> /\ NumRoots' = NumRoots
  BY DEF Unwind, visitor, NumRoots
<1>2. PICK i : i = Head(work)
  OBVIOUS
<1>3. /\ i \in DOMAIN infos /\ DOMAIN infos' = DOMAIN infos
      /\ \A j \in DOMAIN infos :
           /\ infos'[j].fn = infos[j].fn /\ infos'[j].params = infos[j].params
           /\ infos'[j].callees = infos[j].callees
           /\ External(infos'[j]) <=> External(infos[j])
           /\ (\A k \in DOMAIN infos[i].callees : infos[i].callees[k] # j) =>
                j = i \/ infos'[j] = infos[j]
  BY <1>2, UnwindShape
<1>4. \A r \in 1..NumRoots : r \in DOMAIN infos
  <2>1. NumRoots \in Nat /\ NumRoots <= Len(infos)
    BY NumRootsNat DEF TInv, RootsGood, Unwind
  <2>2. DOMAIN infos = 1..Len(infos) /\ Len(infos) \in Nat
    BY SeqIs DEF TInv, InfosGood
  <2> QED
    BY <2>1, <2>2
<1>5. NamesClear' <=> NamesClear
  BY <1>1, <1>3, <1>4, ClearStays
<1>6. ASSUME NEW r \in 1..NumRoots
      PROVE  /\ ~External(infos'[r]) /\ ParamsOnce(r)'
             /\ Waiting(r)' => Raw(r)'
             /\ NamesClear' /\ ~Waiting(r)' => Unwound(r)'
  <2>1. /\ ~External(infos[r]) /\ ParamsOnce(r)
        /\ Waiting(r) => Raw(r)
        /\ NamesClear /\ ~Waiting(r) => Unwound(r)
    BY DEF RootsUnwound
  <2>2. ~External(infos'[r])
    BY <2>1, <1>3, <1>4
  <2>3. ParamsOnce(r)'
    <3>1. \A c : Pending(r, c)' => Pending(r, c)
      BY <1>1 DEF Pending
    <3> QED
      BY <2>1, <3>1, <1>1, <1>3, <1>4, ParamsStay
  <2>4. Waiting(r)' <=> Waiting(r) /\ r # i
    BY <1>2, WorkMoves
  <2>5. CASE r = i
    <3>1. Waiting(i)
      <4>1. work # <<>> /\ work \in Seq(DOMAIN infos)
        BY DEF TInv, WorkGood, Unwind
      <4>2. 1 \in DOMAIN work /\ work[1] = i
        BY <4>1, <1>2, LenProperties
      <4> QED
        BY <4>2 DEF Waiting
    <3>2. NamesClear => Unwound(i)'
      BY <2>1, <2>5, <3>1, <1>2, RootUnwound
    <3> QED
      BY <2>2, <2>3, <2>4, <2>5, <3>2, <1>5
  <2>6. CASE r # i
    <3>1. \A k \in DOMAIN infos[i].callees : infos[i].callees[k] # r
      <4>1. NumRoots \in Nat
        BY NumRootsNat DEF TInv
      <4>2. \A k \in DOMAIN infos[i].callees : infos[i].callees[k] > NumRoots
        BY <1>3 DEF RootsUnwound
      <4>3. \A x : x > NumRoots => x # r
        BY <4>1
      <4> QED
        BY <4>2, <4>3
    <3>2. infos'[r] = infos[r]
      BY <3>1, <2>6, <1>3, <1>4
    <3>3. Raw(r) => Raw(r)'
      BY <3>2, <1>1 DEF Raw, Named, Sym
    <3>4. Unwound(r) => Unwound(r)'
      BY <3>2, <1>1 DEF Unwound, Sym
    <3> QED
      BY <2>1, <2>2, <2>3, <2>4, <2>6, <3>3, <3>4, <1>5
  <2> QED
    BY <2>5, <2>6
<1>7. \A r \in 1..NumRoots : \A j \in DOMAIN work', k \in DOMAIN work' :
        work'[j] = r /\ work'[k] = r => j = k
  BY <1>2, WorkMoves
<1>8. \A j \in DOMAIN infos' : \A k \in DOMAIN infos'[j].callees : infos'[j].callees[k] > NumRoots
  BY <1>3 DEF RootsUnwound
<1> QED
  BY <1>1, <1>6, <1>7, <1>8 DEF RootsUnwound, External
-----------------------------------------------------------------------------
LEMMA NamesSearch ==
  ASSUME TInv, \A i \in DOMAIN infos : infos[i].params = <<>>, CompareDefinition
  PROVE  \A i \in DOMAIN infos' : infos'[i].params = <<>>
<1> DEFINE fn == program.defs[next]
           n == Cardinality({r \in DOMAIN program.command : Matches(program.command[r], fn)})
           t == [k \in 1..n |-> Root(fn)]
<1>1. infos' = infos \o t /\ IsSeq(infos)
  BY DEF CompareDefinition, TInv, InfosGood
<1>2. IsSeq(t) /\ \A k \in DOMAIN t : t[k].params = <<>>
  <2>1. Root(fn).params = <<>>
    BY DEF Root, FuncInfo
  <2>2. \A k \in DOMAIN t : t[k] = Root(fn)
    OBVIOUS
  <2>3. IsSeq(t)
    <3>1. n \in Nat
      <4>1. DOMAIN program.command = 1..Len(program.command) /\ Len(program.command) \in Nat
        BY ProgramFacts, LenProperties DEF TInv
      <4>2. IsFiniteSet(DOMAIN program.command)
        BY <4>1, FS_Interval
      <4> QED
        BY <4>2, FS_Subset, FS_CardinalityType
    <3> HIDE DEF n
    <3> QED
      BY <3>1, SeqMade
  <2> QED
    BY <2>1, <2>2, <2>3
<1> HIDE DEF t
<1>3. \A i \in DOMAIN (infos \o t) :
        \/ i \in DOMAIN infos /\ (infos \o t)[i] = infos[i]
        \/ i - Len(infos) \in DOMAIN t /\ (infos \o t)[i] = t[i - Len(infos)]
  BY <1>1, <1>2, SeqConcat
<1> QED
  BY <1>1, <1>2, <1>3

LEMMA NamesStutter ==
  ASSUME TInv, NamesInv, UNCHANGED tvars
  PROVE  NamesInv'
<1>1. UNCHANGED <<program, phase, next, infos, frames, work>> /\ NumRoots' = NumRoots
  BY DEF tvars, visitor, NumRoots
<1>2. \A i \in DOMAIN infos : ParamsOnce(i) => ParamsOnce(i)'
  <2> TAKE i \in DOMAIN infos
  <2>1. \A c : Pending(i, c)' => Pending(i, c)
    BY <1>1 DEF Pending
  <2> QED
    BY <1>1, <2>1, ParamsStay
<1>3. NamesClear' <=> NamesClear
  <2>1. \A fn : Arity(fn)' = Arity(fn)
    BY <1>1 DEF Arity, Params, Kids, Kind
  <2>2. InOrder' <=> InOrder
    BY <1>1, <2>1 DEF InOrder, Matches
  <2> QED
    BY <1>1, <2>2 DEF NamesClear, Kind, Sym
<1>4. \A r : /\ Waiting(r)' <=> Waiting(r)
             /\ Raw(r) => Raw(r)'
             /\ Unwound(r) => Unwound(r)'
  BY <1>1 DEF Waiting, Raw, Unwound, Named, Sym
<1>5. phase = "search" => \A i \in DOMAIN infos' : infos'[i].params = <<>>
  BY <1>1 DEF NamesInv
<1>6. ParamsSeen => ParamsSeen'
  <2>1. ASSUME ParamsSeen PROVE \A i \in DOMAIN infos' : ParamsOnce(i)'
    BY <2>1, <1>1, <1>2 DEF ParamsSeen
  <2>2. ASSUME ParamsSeen PROVE \A r \in 1..NumRoots : r > next => infos[r].params = <<>>
    BY <2>2 DEF ParamsSeen
  <2> QED
    BY <1>1, <2>1, <2>2 DEF ParamsSeen
<1>7. phase = "unwind" => \A r \in 1..NumRoots : r \in DOMAIN infos
  <2> SUFFICES ASSUME phase = "unwind" PROVE \A r \in 1..NumRoots : r \in DOMAIN infos
    OBVIOUS
  <2>1. NumRoots \in Nat /\ NumRoots <= Len(infos)
    BY NumRootsNat DEF TInv, RootsGood
  <2>2. DOMAIN infos = 1..Len(infos) /\ Len(infos) \in Nat
    BY SeqIs DEF TInv, InfosGood
  <2> QED
    BY <2>1, <2>2
<1>8. ASSUME RootsUnwound, phase = "unwind" PROVE RootsUnwound'
  <2>1. ASSUME NEW r \in 1..NumRoots
        PROVE  /\ ~External(infos'[r]) /\ ParamsOnce(r)'
               /\ Waiting(r)' => Raw(r)'
               /\ NamesClear' /\ ~Waiting(r)' => Unwound(r)'
    <3>1. /\ ~External(infos[r]) /\ ParamsOnce(r)
          /\ Waiting(r) => Raw(r)
          /\ NamesClear /\ ~Waiting(r) => Unwound(r)
      BY <1>8 DEF RootsUnwound
    <3>2. ParamsOnce(r)'
      BY <3>1, <1>2, <1>7, <1>8
    <3> QED
      BY <3>1, <3>2, <1>1, <1>3, <1>4
  <2>2. /\ \A i \in DOMAIN infos : \A k \in DOMAIN infos[i].callees : infos[i].callees[k] > NumRoots
        /\ \A r \in 1..NumRoots : \A j \in DOMAIN work, k \in DOMAIN work :
             work[j] = r /\ work[k] = r => j = k
    BY <1>8 DEF RootsUnwound
  <2> QED
    BY <2>1, <2>2, <1>1 DEF RootsUnwound, External
<1>9. (phase = "built" /\ NamesClear)' => \A r \in 1..NumRoots : Unwound(r)'
  BY <1>1, <1>3, <1>4 DEF NamesInv
<1> QED
  BY <1>1, <1>5, <1>6, <1>8, <1>9 DEF NamesInv

LEMMA NamesStep ==
  ASSUME TInv, WalkInv, InlineInv, ClassInv, NamesInv, [TNext]_tvars
  PROVE  NamesInv'
<1>1. CASE CompareDefinition
  <2>1. phase = "search" /\ phase' = "search"
    BY <1>1 DEF CompareDefinition
  <2> QED
    BY <1>1, <2>1, NamesSearch DEF NamesInv
<1>2. CASE RootsFound
  <2>1. phase = "search" /\ phase' = "visit"
    BY <1>2 DEF RootsFound
  <2> QED
    BY <1>2, <2>1, NamesFirstRoot DEF NamesInv
<1>3. CASE \/ PushParent \/ PopAncestor \/ Settle \/ MarkBranch
           \/ VisitDecl \/ VisitIf \/ VisitVariable \/ VisitOther
           \/ SkipCall \/ CallExternal \/ EnterCallee \/ LeaveCallee \/ LeaveRoot
  <2>1. phase = "visit" /\ phase' = "visit"
    BY <1>3 DEF PushParent, PopAncestor, Settle, MarkBranch, AtCursor, Visit, VisitDecl, VisitIf,
                VisitVariable, VisitOther, SkipCall, CallExternal, EnterCallee, FirstCall,
                LeaveCallee, LeaveRoot
  <2>2. ParamsSeen'
    BY <1>3, <2>1, NamesStack, NamesVisit, NamesCall, NamesReturn, NamesNextRoot DEF NamesInv
  <2> QED
    BY <2>1, <2>2 DEF NamesInv
<1>4. CASE LeaveLastRoot
  <2>1. phase = "visit" /\ phase' = "unwind"
    BY <1>4 DEF LeaveLastRoot
  <2> QED
    BY <1>4, <2>1, NamesEnd DEF NamesInv
<1>5. CASE Unwind
  <2>1. phase = "unwind" /\ phase' = "unwind"
    BY <1>5 DEF Unwind
  <2> QED
    BY <1>5, <2>1, NamesUnwind DEF NamesInv
<1>6. CASE Build
  <2>1. /\ phase = "unwind" /\ phase' = "built" /\ work = <<>>
        /\ UNCHANGED <<program, infos>> /\ NumRoots' = NumRoots
    BY <1>6 DEF Build, NumRoots
  <2>2. \A r : ~Waiting(r)
    BY <2>1, NoneIsSeq DEF Waiting
  <2>3. NamesClear' => NamesClear
    <3>1. \A fn : Arity(fn)' = Arity(fn)
      BY <2>1 DEF Arity, Params, Kids, Kind
    <3>2. InOrder' <=> InOrder
      BY <2>1, <3>1 DEF InOrder, Matches
    <3> QED
      BY <2>1, <3>2 DEF NamesClear, Kind, Sym
  <2>4. \A r : Unwound(r) => Unwound(r)'
    BY <2>1 DEF Unwound, Sym
  <2> QED
    BY <2>1, <2>2, <2>3, <2>4 DEF NamesInv, RootsUnwound
<1>7. CASE RootsMissing \/ UnwindCrashes
  BY <1>7 DEF RootsMissing, UnwindCrashes, NamesInv
<1>8. CASE Stopped \/ UNCHANGED tvars
  BY <1>8, NamesStutter DEF Stopped
<1> QED
  BY <1>1, <1>2, <1>3, <1>4, <1>5, <1>6, <1>7, <1>8 DEF TNext

(* For every program whose names are clear and every command line: the     *)
(* unwinding replaces a parameter of a root by the argument it has in the  *)
(* command line, in each access of it and whatever the callees unwound in  *)
(* between did, so parameters of two roots become one variable exactly if  *)
(* their arguments are the same.                                           *)
THEOREM ArgumentsNamed == TSpec => []SameArgumentSameUsr
<1>1. TInit => ClassInv /\ NamesInv
  BY NoneIsSeq DEF TInit, ClassInv, Classified, NamesInv
<1>2. NamesInv => SameArgumentSameUsr
  <2> SUFFICES ASSUME NamesInv, phase = "built", NamesClear,
                      NEW r \in 1..NumRoots, NEW s \in 1..NumRoots,
                      NEW k \in DOMAIN infos[r].params, NEW l \in DOMAIN infos[s].params,
                      NEW v \in Range(infos[r].accesses), NEW w \in Range(infos[s].accesses),
                      v.origin # NoCursor, Sym(v.origin) = infos[r].params[k],
                      w.origin # NoCursor, Sym(w.origin) = infos[s].params[l]
               PROVE  Head(v.usr) = Head(w.usr)
                      <=> program.command[r].args[k] = program.command[s].args[l]
    BY DEF SameArgumentSameUsr
  <2>1. PICK m \in DOMAIN infos[r].accesses : v = infos[r].accesses[m]
    BY DEF Range
  <2>2. PICK n \in DOMAIN infos[s].accesses : w = infos[s].accesses[n]
    BY DEF Range
  <2>3. Unwound(r) /\ Unwound(s)
    BY DEF NamesInv
  <2>4. Head(v.usr) = program.command[r].args[k]
    BY <2>1, <2>3 DEF Unwound
  <2>5. Head(w.usr) = program.command[s].args[l]
    BY <2>2, <2>3 DEF Unwound
  <2> QED
    BY <2>4, <2>5
<1> QED
  BY <1>1, <1>2, WalkAlways, InlineInit, InlineStep, ClassStep, NamesStep, TInvInit, TInvStep,
     PTL DEF TSpec
=============================================================================
