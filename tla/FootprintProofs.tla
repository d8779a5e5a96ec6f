--------------------------- MODULE FootprintProofs ---------------------------
(***************************************************************************)
(* Proof that Traversal implements Footprint: what the visitor pushes      *)
(* while it visits a root, callees included, grows by the steps of         *)
(* Footprint, and the ifs on its stack are the open ifs of what has grown. *)
(***************************************************************************)
EXTENDS WalkProofs
-----------------------------------------------------------------------------
(* The nesting of a footprint, an entry at a time                          *)

NestStep(fp, g, p) == IF p = 0 THEN <<>> ELSE PartAfter(g[p - 1], fp[p])
Nests(fp, g, n) == g = [p \in 0..n |-> NestStep(fp, g, p)]

NestingOf(fp) ==
  LET nest[p \in 0..Len(fp)] == IF p = 0 THEN <<>> ELSE PartAfter(nest[p - 1], fp[p])
  IN  nest[Len(fp)]

LEMMA NestsExist ==
  ASSUME NEW fp, NEW n \in Nat
  PROVE  \E g : Nests(fp, g, n)
<1> DEFINE Solved(m) == \E g : Nests(fp, g, m)
           Unsolved == {m \in Nat : ~Solved(m)}
<1> SUFFICES ASSUME Unsolved # {} PROVE FALSE
  OBVIOUS
<1>1. PICK m \in Unsolved : \A q \in Unsolved : m <= q
  <2>1. Unsolved \subseteq Nat
    OBVIOUS
  <2> HIDE DEF Unsolved
  <2> QED
    BY <2>1, LeastOf
<1>2. m # 0
  <2> DEFINE g == [p \in 0..0 |-> <<>>]
  <2>1. g = [p \in 0..0 |-> NestStep(fp, g, p)]
    <3>1. \A p \in 0..0 : NestStep(fp, g, p) = <<>>
      BY DEF NestStep
    <3> QED
      BY <3>1
  <2>2. Solved(0)
    BY <2>1 DEF Nests
  <2> HIDE DEF Solved
  <2> QED
    BY <2>2, <1>1
<1>3. m \in Nat /\ ~Solved(m) /\ m - 1 \in Nat /\ Solved(m - 1)
  <2> HIDE DEF Solved
  <2> QED
    BY <1>1, <1>2
<1>4. PICK f : f = [p \in 0..(m - 1) |-> NestStep(fp, f, p)]
  BY <1>3 DEF Nests
<1> DEFINE g == [p \in 0..m |-> IF p = m THEN NestStep(fp, f, m) ELSE f[p]]
<1>5. \A p \in 0..m : NestStep(fp, g, p) = NestStep(fp, f, p)
  <2> TAKE p \in 0..m
  <2>1. p # 0 => p - 1 \in 0..m /\ p - 1 # m
    BY <1>3
  <2>2. p # 0 => g[p - 1] = f[p - 1]
    BY <2>1
  <2> HIDE DEF g
  <2> QED
    BY <2>2 DEF NestStep
<1>6. g = [p \in 0..m |-> NestStep(fp, g, p)]
  <2>1. \A p \in 0..m : p # m => f[p] = NestStep(fp, f, p)
    <3>1. \A p \in 0..m : p # m => p \in 0..(m - 1)
      BY <1>3
    <3> QED
      BY <3>1, <1>4
  <2>2. \A p \in 0..m : g[p] = NestStep(fp, g, p)
    <3>1. \A p \in 0..m : g[p] = NestStep(fp, f, p)
      BY <2>1
    <3> HIDE DEF g
    <3> QED
      BY <3>1, <1>5
  <2>3. g = [p \in 0..m |-> g[p]]
    OBVIOUS
  <2> HIDE DEF g
  <2> QED
    BY <2>2, <2>3
<1> QED
  BY <1>3, <1>6 DEF Nests

LEMMA NestsSame ==
  ASSUME NEW s, NEW t, NEW n \in Nat, NEW m \in Nat, n <= m, NEW f, NEW g,
         Nests(s, f, n), Nests(t, g, m), \A p \in 1..n : t[p] = s[p]
  PROVE  \A p \in 0..n : g[p] = f[p]
<1> DEFINE Differ == {p \in 0..n : g[p] # f[p]}
<1> SUFFICES ASSUME Differ # {} PROVE FALSE
  OBVIOUS
<1>1. PICK p \in Differ : \A q \in Differ : p <= q
  <2>1. Differ \subseteq Nat
    OBVIOUS
  <2> HIDE DEF Differ
  <2> QED
    BY <2>1, LeastOf
<1>2. p \in 0..n /\ p \in 0..m /\ g[p] # f[p]
  BY <1>1
<1>3. p # 0 => p \in 1..n /\ p - 1 \in 0..n /\ p - 1 \notin Differ
  <2>1. p # 0 => p \in 1..n /\ p - 1 \in 0..n /\ ~(p <= p - 1)
    BY <1>2
  <2> HIDE DEF Differ
  <2> QED
    BY <2>1, <1>1
<1>4. NestStep(t, g, p) = NestStep(s, f, p)
  BY <1>2, <1>3 DEF NestStep
<1>5. f[p] = NestStep(s, f, p) /\ g[p] = NestStep(t, g, p)
  BY <1>2 DEF Nests
<1> QED
  BY <1>2, <1>4, <1>5

LEMMA NestingIs ==
  ASSUME NEW fp, Len(fp) \in Nat
  PROVE  \E g : Nests(fp, g, Len(fp)) /\ NestingOf(fp) = g[Len(fp)]
<1> DEFINE n == Len(fp)
           Is(g) == g = [p \in 0..n |-> NestStep(fp, g, p)]
<1> HIDE DEF n
<1>1. PICK g : Is(g)
  BY NestsExist DEF Nests, n
<1>2. NestingOf(fp) = (CHOOSE f : Is(f))[n]
  BY DEF NestingOf, NestStep, n
<1>3. Is(CHOOSE f : Is(f))
  <2> HIDE DEF Is
  <2> QED
    BY <1>1
<1> QED
  BY <1>2, <1>3 DEF Nests, n

LEMMA NestingGrows ==
  /\ NestingOf(<<>>) = <<>>
  /\ \A s, e : IsSeq(s) => NestingOf(Append(s, e)) = PartAfter(NestingOf(s), e)
<1>1. NestingOf(<<>>) = <<>>
  <2>1. Len(<<>>) = 0
    OBVIOUS
  <2>2. PICK g : Nests(<<>>, g, 0) /\ NestingOf(<<>>) = g[0]
    BY <2>1, NestingIs
  <2> QED
    BY <2>2 DEF Nests, NestStep
<1>2. ASSUME NEW s, NEW e, IsSeq(s)
      PROVE  NestingOf(Append(s, e)) = PartAfter(NestingOf(s), e)
  <2> DEFINE n == Len(s)
             t == Append(s, e)
  <2>1. /\ n \in Nat /\ Len(t) = n + 1 /\ t[n + 1] = e /\ \A p \in 1..n : t[p] = s[p]
    BY <1>2, SeqIs, SeqAppend
  <2> HIDE DEF t
  <2>2. PICK f : Nests(s, f, n) /\ NestingOf(s) = f[n]
    BY <2>1, NestingIs
  <2>3. PICK g : Nests(t, g, n + 1) /\ NestingOf(t) = g[n + 1]
    BY <2>1, NestingIs
  <2> HIDE DEF n
  <2>4. \A p \in 0..n : g[p] = f[p]
    BY <2>1, <2>2, <2>3, NestsSame
  <2>5. g[n + 1] = PartAfter(g[n], e)
    BY <2>1, <2>3 DEF Nests, NestStep
  <2>6. n \in 0..n
    BY <2>1
  <2> QED
    BY <2>2, <2>3, <2>4, <2>5, <2>6 DEF t
<1> QED
  BY <1>1, <1>2
-----------------------------------------------------------------------------
(* The ifs of the stack and the nesting of the footprint                   *)

Parts == {"cond", "then", "else"}

(* Cursor c is the then or the else block of an if.                        *)
Branch(p, c) == p.kind[p.parent[c]] = "If" /\ ~FirstKid(p, c)

(* The stack above k leads from the cursor there to the next one to come.  *)
Chained(p, stack, k, todo) ==
  /\ LinkedFrom(p, stack, k)
  /\ \A m \in 1..Len(stack) : m > k => stack[k] \in p.ancestors[stack[m]]
  /\ \A a \in p.ancestors[todo[1]] : stack[k] \in p.ancestors[a] =>
       \E m \in 1..Len(stack) : m > k /\ stack[m] = a

Due(todo, q, c) == \E j \in DOMAIN todo : j >= q /\ todo[j] = c

(* f[i] is where on the stack the i-th if is that nest has open.           *)
IfsAt(p, stack, nest, f) ==
  /\ f \in [1..Len(nest) -> 1..Len(stack)]
  /\ \A i \in 1..Len(nest), j \in 1..Len(nest) : i < j => f[i] < f[j]
  /\ \A i \in 1..Len(nest) : p.kind[stack[f[i]]] = "If"
  /\ \A k \in 1..Len(stack) : p.kind[stack[k]] = "If" => \E i \in 1..Len(nest) : f[i] = k

PartDue(p, todo, q, w) == IF Due(todo, q, p.kids[w][2]) THEN "cond" ELSE "then"

(* The if of each block still to be marked is open in the part before it,  *)
(* and a condition is left for a then block; todo counts from position q.  *)
BranchesDue(p, stack, nest, f, todo, q) ==
  /\ \A x \in DOMAIN p.kind : Due(todo, q, x) /\ Branch(p, x) =>
       \E i \in 1..Len(nest) :
         /\ stack[f[i]] = p.parent[x] /\ Chained(p, stack, f[i], todo)
         /\ nest[i] = PartDue(p, todo, q, p.parent[x])
  /\ \A i \in 1..Len(nest) : nest[i] = "cond" =>
       Due(todo, q, p.kids[stack[f[i]]][2]) /\ Chained(p, stack, f[i], todo)

Matched(p, stack, nest, todo, q) ==
  /\ stack \in Seq(DOMAIN p.kind) /\ nest \in Seq(Parts)
  /\ \E f : IfsAt(p, stack, nest, f) /\ BranchesDue(p, stack, nest, f, todo, q)

(* Some copies of c are pushed.                                            *)
Piled(s, t, c) ==
  /\ Len(t) \in Nat /\ Len(t) >= Len(s) /\ \A m \in 1..Len(s) : t[m] = s[m]
  /\ \A m \in 1..Len(t) : m > Len(s) => t[m] = c

LEMMA IfsPop ==
  ASSUME NEW p, NEW s \in Seq(DOMAIN p.kind), s # <<>>, NEW nest \in Seq(Parts),
         NEW f, IfsAt(p, s, nest, f), NEW t, t = Front(s)
  PROVE  /\ p.kind[s[Len(s)]] # "If" => IfsAt(p, t, nest, f)
         /\ p.kind[s[Len(s)]] = "If" =>
              /\ nest # <<>> /\ f[Len(nest)] = Len(s)
              /\ \E g : /\ IfsAt(p, t, Front(nest), g)
                        /\ \A i \in 1..(Len(nest) - 1) : g[i] = f[i]
<1>1. /\ Len(s) \in Nat \ {0} /\ Len(t) = Len(s) - 1 /\ Len(t) \in Nat
      /\ \A i \in 1..Len(t) : t[i] = s[i]
  BY FrontIs
<1>2. Len(nest) \in Nat
  BY LenProperties
<1> DEFINE n == Len(s)
           l == Len(nest)
<1>3. /\ f \in [1..l -> 1..n]
      /\ \A i \in 1..l, j \in 1..l : i < j => f[i] < f[j]
      /\ \A i \in 1..l : p.kind[s[f[i]]] = "If"
      /\ \A k \in 1..n : p.kind[s[k]] = "If" => \E i \in 1..l : f[i] = k
  BY DEF IfsAt
<1>4. ASSUME p.kind[s[n]] # "If" PROVE IfsAt(p, t, nest, f)
  <2> HIDE DEF n, l
  <2>1. \A i \in 1..l : f[i] \in 1..(n - 1)
    BY <1>1, <1>3, <1>4 DEF n
  <2>2. /\ \A i \in 1..l : p.kind[t[f[i]]] = "If"
        /\ \A k \in 1..(n - 1) : p.kind[t[k]] = "If" => \E i \in 1..l : f[i] = k
    BY <2>1, <1>1, <1>3 DEF n
  <2>3. f \in [1..l -> 1..(n - 1)]
    BY <2>1, <1>3
  <2> QED
    BY <2>2, <2>3, <1>1, <1>3 DEF IfsAt, n, l
<1>5. ASSUME p.kind[s[n]] = "If"
      PROVE  /\ nest # <<>> /\ f[l] = n
             /\ \E g : IfsAt(p, t, Front(nest), g) /\ \A i \in 1..(l - 1) : g[i] = f[i]
  <2>1. n \in 1..n
    BY <1>1
  <2>2. PICK i \in 1..l : f[i] = n
    BY <1>3, <1>5, <2>1
  <2>3. nest # <<>>
    BY <2>2, <1>2
  <2>4. i = l
    <3>1. l \in 1..l /\ f[l] \in 1..n
      BY <1>2, <1>3, <2>2
    <3>2. i # l => f[i] < f[l]
      BY <1>2, <1>3, <2>2, <3>1
    <3> HIDE DEF n, l
    <3> QED
      BY <3>1, <3>2, <2>2, <1>1 DEF n
  <2>5. Len(Front(nest)) = l - 1
    BY <2>3, FrontIs
  <2> DEFINE g == [j \in 1..(l - 1) |-> f[j]]
  <2> HIDE DEF n, l
  <2>6. \A j \in 1..(l - 1) : j \in 1..l /\ f[j] < f[l] /\ f[l] = n /\ f[j] \in 1..n
    <3>1. \A j \in 1..(l - 1) : j \in 1..l /\ l \in 1..l /\ j < l
      BY <1>2 DEF l
    <3> QED
      BY <3>1, <1>3, <2>2, <2>4
  <2>7. g \in [1..(l - 1) -> 1..(n - 1)]
    BY <2>6, <1>1 DEF n
  <2>8. \A j \in 1..(l - 1), k \in 1..(l - 1) : j < k => g[j] < g[k]
    BY <2>6, <1>3
  <2>9. \A j \in 1..(l - 1) : p.kind[t[g[j]]] = "If"
    <3> TAKE j \in 1..(l - 1)
    <3>1. g[j] = f[j] /\ f[j] \in 1..(n - 1) /\ p.kind[s[f[j]]] = "If"
      BY <2>6, <2>7, <1>3
    <3> QED
      BY <3>1, <1>1 DEF n
  <2>10. ASSUME NEW k \in 1..(n - 1), p.kind[t[k]] = "If"
         PROVE  \E j \in 1..(l - 1) : g[j] = k
    <3>1. k \in 1..n /\ s[k] = t[k] /\ k # n
      BY <1>1 DEF n
    <3>2. PICK j \in 1..l : f[j] = k
      BY <3>1, <1>3, <2>10
    <3>3. j \in 1..(l - 1)
      BY <3>1, <3>2, <2>2, <2>4, <1>2 DEF l
    <3> QED
      BY <3>2, <3>3
  <2>11. IfsAt(p, t, Front(nest), g)
    <3> HIDE DEF g
    <3> QED
      BY <2>5, <2>7, <2>8, <2>9, <2>10, <1>1 DEF IfsAt, n
  <2> QED
    BY <2>2, <2>3, <2>4, <2>11
<1> QED
  BY <1>4, <1>5

LEMMA IfsPiled ==
  ASSUME NEW p, NEW s \in Seq(DOMAIN p.kind), NEW nest \in Seq(Parts),
         NEW f, IfsAt(p, s, nest, f), NEW c, p.kind[c] # "If", NEW t, Piled(s, t, c)
  PROVE  IfsAt(p, t, nest, f)
<1>1. Len(s) \in Nat
  BY LenProperties
<1>2. /\ \A i \in 1..Len(nest) : f[i] \in 1..Len(s) /\ f[i] \in 1..Len(t)
      /\ f \in [1..Len(nest) -> 1..Len(s)]
  <2>1. f \in [1..Len(nest) -> 1..Len(s)]
    BY DEF IfsAt
  <2>2. \A k \in 1..Len(s) : k \in 1..Len(t)
    BY <1>1 DEF Piled
  <2> QED
    BY <2>1, <2>2
<1>3. \A i \in 1..Len(nest) : p.kind[t[f[i]]] = "If"
  BY <1>2 DEF IfsAt, Piled
<1>4. \A k \in 1..Len(t) : p.kind[t[k]] = "If" => k \in 1..Len(s) /\ t[k] = s[k]
  BY <1>1 DEF Piled
<1>5. \A k \in 1..Len(t) : p.kind[t[k]] = "If" => \E i \in 1..Len(nest) : f[i] = k
  BY <1>4 DEF IfsAt
<1>6. f \in [1..Len(nest) -> 1..Len(t)]
  BY <1>2
<1> QED
  BY <1>3, <1>5, <1>6 DEF IfsAt

Agree(g, f, n) == \A i \in 1..n : g[i] = f[i]

LEMMA IfsPush ==
  ASSUME NEW p, NEW s \in Seq(DOMAIN p.kind), NEW nest \in Seq(Parts),
         NEW f, IfsAt(p, s, nest, f), NEW c \in DOMAIN p.kind, p.kind[c] = "If",
         NEW t, t = Append(s, c), NEW x \in Parts
  PROVE  \E g : IfsAt(p, t, Append(nest, x), g) /\ g[Len(nest) + 1] = Len(t) /\ Agree(g, f, Len(nest))
<1> DEFINE n == Len(s)
           l == Len(nest)
           g == [i \in 1..(l + 1) |-> IF i = l + 1 THEN n + 1 ELSE f[i]]
<1>1. /\ n \in Nat /\ Len(t) = n + 1 /\ t[n + 1] = c /\ \A i \in 1..n : t[i] = s[i]
      /\ l \in Nat /\ Len(Append(nest, x)) = l + 1
  BY AppendIs, AppendProperties, LenProperties
<1>3. /\ f \in [1..l -> 1..n]
      /\ \A i \in 1..l, j \in 1..l : i < j => f[i] < f[j]
      /\ \A i \in 1..l : p.kind[s[f[i]]] = "If"
      /\ \A k \in 1..n : p.kind[s[k]] = "If" => \E i \in 1..l : f[i] = k
  BY DEF IfsAt
<1> HIDE DEF n, l
<1>4. /\ g[l + 1] = n + 1 /\ \A i \in 1..l : g[i] = f[i] /\ f[i] \in 1..n
      /\ \A i \in 1..(l + 1) : i \in 1..l \/ i = l + 1
  BY <1>1, <1>3
<1>5. g \in [1..(l + 1) -> 1..(n + 1)]
  BY <1>1, <1>3
<1> HIDE DEF g
<1>6. \A i \in 1..(l + 1), j \in 1..(l + 1) : i < j => g[i] < g[j]
  <2> SUFFICES ASSUME NEW i \in 1..(l + 1), NEW j \in 1..(l + 1), i < j
               PROVE  g[i] < g[j]
    OBVIOUS
  <2>1. i \in 1..l
    BY <1>1
  <2>2. CASE j \in 1..l
    BY <2>1, <2>2, <1>3, <1>4
  <2>3. CASE j = l + 1
    BY <2>1, <2>3, <1>1, <1>4
  <2> QED
    BY <2>2, <2>3, <1>4
<1>7. \A i \in 1..(l + 1) : p.kind[t[g[i]]] = "If"
  BY <1>1, <1>3, <1>4
<1>8. ASSUME NEW k \in 1..(n + 1), p.kind[t[k]] = "If"
      PROVE  \E i \in 1..(l + 1) : g[i] = k
  <2>1. CASE k = n + 1
    BY <2>1, <1>1, <1>4
  <2>2. CASE k # n + 1
    <3>1. k \in 1..n
      BY <2>2, <1>1
    <3>2. PICK i \in 1..l : f[i] = k
      BY <3>1, <1>1, <1>3, <1>8
    <3>3. i \in 1..(l + 1)
      BY <1>1
    <3> QED
      BY <3>2, <3>3, <1>4
  <2> QED
    BY <2>1, <2>2
<1>9. IfsAt(p, t, Append(nest, x), g)
  BY <1>1, <1>5, <1>6, <1>7, <1>8 DEF IfsAt
<1>10. Agree(g, f, l) /\ g[l + 1] = Len(t)
  BY <1>1, <1>4 DEF Agree
<1> QED
  BY <1>9, <1>10 DEF l
-----------------------------------------------------------------------------
(* Chains                                                                  *)

LEMMA AboveNext ==
  ASSUME NEW p \in Programs, NEW d, NEW todo, TodoFits(p, todo, d), NEW j \in DOMAIN todo
  PROVE  /\ todo[1] \in DOMAIN p.kind /\ todo[j] \in DOMAIN p.kind
         /\ p.parent[todo[j]] # NoCursor /\ p.parent[todo[j]] \in DOMAIN p.kind
         /\ p.parent[todo[j]] \in p.ancestors[todo[1]]
         /\ p.ancestors[todo[1]] \subseteq DOMAIN p.kind
         /\ todo # <<>> /\ Len(todo) \in Nat /\ DOMAIN todo = 1..Len(todo) /\ 1 \in DOMAIN todo
<1>1. todo # <<>>
  <2>1. todo = <<>> => DOMAIN todo = {}
    OBVIOUS
  <2> QED
    BY <2>1
<1>2. /\ Len(todo) \in Nat \ {0} /\ DOMAIN todo = 1..Len(todo)
      /\ \A i \in DOMAIN todo :
              /\ todo[i] \in DOMAIN p.kind /\ p.parent[todo[i]] # NoCursor
              /\ p.parent[todo[i]] \in DOMAIN p.kind
  BY <1>1, TodoFacts
<1>3. 1 \in DOMAIN todo
  BY <1>2
<1>4. p.parent[todo[j]] \in p.ancestors[todo[j]]
  BY <1>2, TreeFacts
<1>5. p.ancestors[todo[j]] \subseteq p.ancestors[todo[1]]
  <2>1. CASE j = 1
    BY <2>1
  <2>2. CASE j # 1
    <3>1. 1 < j
      BY <2>2, <1>2
    <3> QED
      BY <3>1, <1>3 DEF TodoFits
  <2> QED
    BY <2>1, <2>2
<1>6. p.ancestors[todo[1]] \subseteq DOMAIN p.kind
  BY <1>2, <1>3, TreeFacts
<1> QED
  BY <1>1, <1>2, <1>3, <1>4, <1>5, <1>6

(* The visitor does not pop what a block to come hangs on.                 *)
LEMMA ChainedPop ==
  ASSUME NEW p \in Programs, NEW d, NEW todo, TodoFits(p, todo, d), todo # <<>>,
         NEW s \in Seq(DOMAIN p.kind), NEW k \in 1..Len(s), Chained(p, s, k, todo),
         s[k] \in p.ancestors[todo[1]], s[Len(s)] # p.parent[todo[1]],
         NEW t, t = Front(s)
  PROVE  k \in 1..Len(t) /\ Chained(p, t, k, todo) /\ t[k] = s[k]
<1> DEFINE c == todo[1]
           b == p.parent[c]
           n == Len(s)
<1>1. /\ c \in DOMAIN p.kind /\ b # NoCursor /\ b \in DOMAIN p.kind
      /\ p.ancestors[c] = p.ancestors[b] \cup {b} /\ b \notin p.ancestors[b]
      /\ \A x \in DOMAIN p.kind : x \notin p.ancestors[x]
  <2>1. 1 \in DOMAIN todo
    <3>1. Len(todo) \in Nat \ {0} /\ DOMAIN todo = 1..Len(todo)
      BY TodoFacts
    <3> QED
      BY <3>1
  <2>2. c \in DOMAIN p.kind /\ b # NoCursor /\ b \in DOMAIN p.kind
    BY <2>1, AboveNext
  <2> QED
    BY <2>2, TreeFacts
<1>2. /\ n \in Nat /\ n > 0 /\ Len(t) = n - 1 /\ Len(t) \in Nat
      /\ \A i \in 1..Len(t) : t[i] = s[i]
      /\ \A i \in 1..n : s[i] \in DOMAIN p.kind
  <2>1. n \in Nat /\ \A i \in 1..n : s[i] \in DOMAIN p.kind
    BY LenProperties
  <2>2. n # 0 /\ s # <<>>
    BY <2>1
  <2> QED
    BY <2>1, <2>2, FrontIs
<1>3. /\ LinkedFrom(p, s, k)
      /\ \A m \in 1..n : m > k => s[k] \in p.ancestors[s[m]]
      /\ \A a \in p.ancestors[c] : s[k] \in p.ancestors[a] => \E m \in 1..n : m > k /\ s[m] = a
  BY DEF Chained
<1> HIDE DEF n
(* The parent of the cursor visited is on the stack above k, or is there.  *)
<1>4. ASSUME s[k] # b
      PROVE  \E m \in 1..n : m > k /\ m # n /\ s[m] = b
  <2>1. s[k] \in p.ancestors[b] /\ b \in p.ancestors[c]
    BY <1>1, <1>4
  <2>2. PICK m \in 1..n : m > k /\ s[m] = b
    BY <2>1, <1>3
  <2> QED
    BY <2>2 DEF n
<1>5. k # n
  <2>1. CASE s[k] = b
    BY <2>1 DEF n
  <2>2. CASE s[k] # b
    <3>1. PICK m \in 1..n : m > k
      BY <2>2, <1>4
    <3> QED
      BY <3>1, <1>2
  <2> QED
    BY <2>1, <2>2
<1>6. k \in 1..Len(t) /\ t[k] = s[k]
  <2>1. k \in 1..n
    BY DEF n
  <2> QED
    BY <2>1, <1>2, <1>5
<1>7. LinkedFrom(p, t, k)
  <2> SUFFICES ASSUME NEW j \in k..(Len(t) - 1) PROVE Linked(p, t[j], t[j + 1])
    BY DEF LinkedFrom
  <2>1. j \in 1..Len(t) /\ j + 1 \in 1..Len(t) /\ j \in k..(n - 1)
    BY <1>2, <1>6
  <2> QED
    BY <2>1, <1>2, <1>3 DEF LinkedFrom, n
<1>8. \A m \in 1..Len(t) : m > k => t[k] \in p.ancestors[t[m]]
  BY <1>2, <1>3, <1>6
<1>9. ASSUME NEW a \in p.ancestors[c], s[k] \in p.ancestors[a], s[n] = a
      PROVE  FALSE
  <2>1. a # b /\ a \in p.ancestors[b] /\ a \in DOMAIN p.kind
    BY <1>1, <1>9, TreeFacts DEF n
  <2>2. s[k] # b
    <3>1. s[k] = b => b \in p.ancestors[a] /\ p.ancestors[a] \subseteq p.ancestors[b]
      BY <2>1, <1>1, <1>9, TreeFacts
    <3> QED
      BY <3>1, <1>1
  <2>3. PICK m \in 1..n : m > k /\ m # n /\ s[m] = b
    BY <2>2, <1>4
  <2>4. LinkedFrom(p, s, m)
    <3>1. \A j \in m..(n - 1) : j \in k..(n - 1)
      BY <2>3, <1>2
    <3> QED
      BY <3>1, <1>3 DEF LinkedFrom, n
  <2>5. n \in m..n
    BY <2>3, <1>2
  <2>6. Linked(p, s[m], s[n])
    BY <2>3, <2>4, <2>5, LinkedUp DEF n
  <2>7. b \in p.ancestors[a]
    BY <2>1, <2>3, <2>6, <1>9 DEF Linked
  <2>8. p.ancestors[a] \subseteq p.ancestors[b]
    BY <2>1, <1>1, TreeFacts
  <2> QED
    BY <2>7, <2>8, <1>1
<1>10. ASSUME NEW a \in p.ancestors[c], t[k] \in p.ancestors[a]
       PROVE  \E m \in 1..Len(t) : m > k /\ t[m] = a
  <2>1. s[k] \in p.ancestors[a]
    BY <1>6, <1>10
  <2>2. PICK m \in 1..n : m > k /\ s[m] = a
    BY <2>1, <1>3
  <2>3. m # n
    BY <2>1, <2>2, <1>9
  <2>4. m \in 1..Len(t)
    BY <2>2, <2>3, <1>2
  <2> QED
    BY <2>2, <2>4, <1>2
<1> QED
  BY <1>6, <1>7, <1>8, <1>10 DEF Chained

LEMMA AfterNext ==
  ASSUME NEW p \in Programs, NEW d, NEW todo, TodoFits(p, todo, d), todo # <<>>,
         NEW c, c = todo[1], NEW t, t = After(p, todo), t # <<>>
  PROVE  /\ c \in DOMAIN p.kind /\ p.parent[c] # NoCursor
         /\ p.parent[t[1]] # c => p.ancestors[t[1]] \subseteq p.ancestors[c]
BY AfterFacts

(* The cursor visited and what is pushed for it continue the chain.        *)
LEMMA ChainedOn ==
  ASSUME NEW p \in Programs, NEW d, NEW todo, TodoFits(p, todo, d), todo # <<>>,
         NEW c, c = todo[1], NEW t, t = After(p, todo), t # <<>>,
         NEW s \in Seq(DOMAIN p.kind), s # <<>> => s[Len(s)] = p.parent[c],
         NEW u, Piled(s, u, c), p.kids[c] # <<>> => Len(u) > Len(s),
         NEW k \in 1..Len(s), Chained(p, s, k, todo), s[k] \in p.ancestors[c]
  PROVE  Chained(p, u, k, t) /\ u[k] = s[k]
<1>1. /\ c \in DOMAIN p.kind /\ p.parent[c] # NoCursor
      /\ p.parent[t[1]] # c => p.ancestors[t[1]] \subseteq p.ancestors[c]
      /\ p.parent[c] \in p.ancestors[c]
  <2>1. /\ c \in DOMAIN p.kind /\ p.parent[c] # NoCursor
        /\ p.parent[t[1]] # c => p.ancestors[t[1]] \subseteq p.ancestors[c]
    BY AfterNext
  <2> QED
    BY <2>1, TreeFacts
<1>2. t[1] \in DOMAIN p.kind /\ p.parent[t[1]] # NoCursor
  <2>1. TodoFits(p, t, d)
    BY TodoFitsOn
  <2>2. Len(t) \in Nat \ {0} /\ DOMAIN t = 1..Len(t)
    BY <2>1, TodoFacts
  <2>3. 1 \in DOMAIN t
    BY <2>2
  <2> QED
    BY <2>1, <2>3, TodoFacts
<1> DEFINE n == Len(s)
<1>3. /\ LinkedFrom(p, s, k)
      /\ \A m \in 1..n : m > k => s[k] \in p.ancestors[s[m]]
      /\ \A a \in p.ancestors[c] : s[k] \in p.ancestors[a] => \E m \in 1..n : m > k /\ s[m] = a
  BY DEF Chained
<1>4. /\ n \in Nat /\ n > 0 /\ s[n] = p.parent[c] /\ k \in 1..n
  <2>1. n \in Nat
    BY LenProperties
  <2>2. n > 0 /\ s # <<>>
    BY <2>1
  <2> QED
    BY <2>1, <2>2
<1>5. /\ Len(u) \in Nat /\ Len(u) >= n /\ \A m \in 1..n : u[m] = s[m]
      /\ \A m \in 1..Len(u) : m > n => u[m] = c
      /\ p.kids[c] # <<>> => Len(u) > n
  BY DEF Piled
<1> HIDE DEF n
<1>6. LinkedFrom(p, u, k)
  <2> SUFFICES ASSUME NEW j \in k..(Len(u) - 1) PROVE Linked(p, u[j], u[j + 1])
    BY DEF LinkedFrom
  <2>1. CASE j < n
    <3>1. j \in k..(n - 1) /\ j \in 1..n /\ j + 1 \in 1..n
      BY <2>1, <1>4
    <3> QED
      BY <3>1, <1>3, <1>5 DEF LinkedFrom, n
  <2>2. CASE j = n
    <3>1. j \in 1..n /\ j + 1 \in 1..Len(u) /\ j + 1 > n
      BY <2>2, <1>4, <1>5
    <3> QED
      BY <3>1, <2>2, <1>1, <1>4, <1>5 DEF Linked
  <2>3. CASE j > n
    <3>1. j \in 1..Len(u) /\ j + 1 \in 1..Len(u) /\ j + 1 > n
      BY <2>3, <1>4, <1>5
    <3> QED
      BY <3>1, <2>3, <1>5 DEF Linked
  <2> QED
    BY <2>1, <2>2, <2>3, <1>4
<1>7. u[k] = s[k]
  BY <1>4, <1>5
<1>8. ASSUME NEW m \in 1..Len(u), m > k PROVE u[k] \in p.ancestors[u[m]]
  <2>1. CASE m \in 1..n
    BY <2>1, <1>3, <1>5, <1>7, <1>8
  <2>2. CASE m \notin 1..n
    <3>1. m > n
      BY <2>2, <1>4
    <3> QED
      BY <3>1, <1>5, <1>7
  <2> QED
    BY <2>1, <2>2
<1>9. ASSUME NEW a \in p.ancestors[t[1]], u[k] \in p.ancestors[a]
      PROVE  \E m \in 1..Len(u) : m > k /\ u[m] = a
  <2>1. CASE a \in p.ancestors[c]
    <3>1. PICK m \in 1..n : m > k /\ s[m] = a
      BY <2>1, <1>3, <1>7, <1>9
    <3>2. m \in 1..Len(u)
      BY <1>4, <1>5
    <3> QED
      BY <3>1, <3>2, <1>5
  <2>2. CASE a \notin p.ancestors[c]
    <3>1. p.parent[t[1]] = c
      BY <2>2, <1>1, <1>9
    <3>2. a = c /\ \E l \in DOMAIN p.kids[c] : p.kids[c][l] = t[1]
      BY <3>1, <2>2, <1>1, <1>2, <1>9, TreeFacts
    <3>3. p.kids[c] # <<>>
      <4>1. p.kids[c] = <<>> => DOMAIN p.kids[c] = {}
        OBVIOUS
      <4> QED
        BY <3>2, <4>1
    <3>4. Len(u) \in 1..Len(u) /\ Len(u) > n /\ Len(u) > k
      BY <3>3, <1>4, <1>5
    <3> QED
      BY <3>2, <3>4, <1>5
  <2> QED
    BY <2>1, <2>2
<1> QED
  BY <1>6, <1>7, <1>8, <1>9 DEF Chained

(* Nothing is above the parent of the cursor visited, if it is on top.     *)
LEMMA ChainedTop ==
  ASSUME NEW p \in Programs, NEW todo, NEW s \in Seq(DOMAIN p.kind),
         NEW k \in 1..Len(s), Chained(p, s, k, todo), s[Len(s)] = s[k]
  PROVE  k = Len(s)
<1>1. Len(s) \in Nat /\ Len(s) \in 1..Len(s) /\ s[k] \in DOMAIN p.kind
  BY LenProperties
<1>2. Len(s) > k => s[k] \in p.ancestors[s[Len(s)]]
  BY <1>1 DEF Chained
<1>3. s[k] \notin p.ancestors[s[k]]
  BY <1>1, TreeFacts
<1> QED
  BY <1>1, <1>2, <1>3

(* What is left to come behind the cursor visited.                         *)
LEMMA AfterIs ==
  ASSUME NEW p \in Programs, NEW d, NEW todo, TodoFits(p, todo, d), todo # <<>>,
         NEW c, c = todo[1], NEW t, t = After(p, todo)
  PROVE  /\ \A j \in DOMAIN t : /\ j >= 1
                                /\ \/ \E l \in DOMAIN p.kids[c] : t[j] = p.kids[c][l]
                                   \/ \E i \in DOMAIN todo : i >= 2 /\ t[j] = todo[i]
         /\ \A i \in DOMAIN todo : i >= 2 => \E j \in DOMAIN t : t[j] = todo[i]
         /\ \A l \in DOMAIN p.kids[c] : \E j \in DOMAIN t : t[j] = p.kids[c][l]
<1>1. /\ todo \in Seq(DOMAIN p.kind) /\ p.kids[c] \in Seq(DOMAIN p.kind)
      /\ t = p.kids[c] \o Tail(todo)
  <2>1. 1 \in DOMAIN todo
    <3>1. Len(todo) \in Nat \ {0} /\ DOMAIN todo = 1..Len(todo)
      BY TodoFacts
    <3> QED
      BY <3>1
  <2>2. c \in DOMAIN p.kind
    BY <2>1, AboveNext
  <2> QED
    BY <2>2, TreeFacts DEF TodoFits, After
<1>10. PICK kids : kids = p.kids[c]
  OBVIOUS
<1>11. kids \in Seq(DOMAIN p.kind) /\ t = kids \o Tail(todo)
  BY <1>1, <1>10
<1>2. /\ t \in Seq(DOMAIN p.kind) /\ Len(kids) \in Nat /\ Len(todo) \in Nat \ {0}
      /\ Len(t) = Len(kids) + Len(todo) - 1 /\ Len(t) \in Nat /\ DOMAIN t = 1..Len(t)
      /\ DOMAIN kids = 1..Len(kids) /\ DOMAIN todo = 1..Len(todo)
      /\ \A i \in 1..Len(kids) : t[i] = kids[i]
      /\ Continues(t, Len(kids), todo)
  <2>1. \A S, l, e, q : l \in Seq(S) /\ e \in Seq(S) /\ e # <<>> /\ q = l \o Tail(e)
          => /\ q \in Seq(S) /\ Len(l) \in Nat /\ Len(e) \in Nat \ {0}
             /\ Len(q) = Len(l) + Len(e) - 1 /\ Len(q) \in Nat /\ DOMAIN q = 1..Len(q)
             /\ DOMAIN l = 1..Len(l) /\ DOMAIN e = 1..Len(e)
             /\ \A i \in 1..Len(l) : q[i] = l[i]
             /\ Continues(q, Len(l), e)
    BY RecurseIs
  <2> QED
    BY <1>1, <1>11, <2>1
<1>3. ASSUME NEW j \in DOMAIN t
      PROVE  /\ j >= 1 /\ \/ \E l \in DOMAIN kids : t[j] = kids[l]
                          \/ \E i \in DOMAIN todo : i >= 2 /\ t[j] = todo[i]
  <2>1. CASE j <= Len(kids)
    <3>1. j \in DOMAIN kids /\ j >= 1
      BY <2>1, <1>2
    <3> QED
      BY <3>1, <1>2
  <2>2. CASE ~(j <= Len(kids))
    <3>1. j > Len(kids) /\ j >= 1
      BY <2>2, <1>2
    <3>2. PICK i \in 2..Len(todo) : t[j] = todo[i]
      BY <3>1, <1>2 DEF Continues
    <3>3. i \in DOMAIN todo /\ i >= 2
      BY <1>2
    <3> QED
      BY <3>1, <3>2, <3>3
  <2> QED
    BY <2>1, <2>2
<1>4. ASSUME NEW i \in DOMAIN todo, i >= 2 PROVE \E j \in DOMAIN t : t[j] = todo[i]
  <2>1. i \in 2..Len(todo)
    BY <1>2, <1>4
  <2> QED
    BY <2>1, <1>2 DEF Continues
<1>5. ASSUME NEW l \in DOMAIN kids PROVE \E j \in DOMAIN t : t[j] = kids[l]
  <2>1. l \in DOMAIN t /\ t[l] = kids[l]
    BY <1>2
  <2> QED
    BY <2>1
<1> QED
  BY <1>3, <1>4, <1>5, <1>10
-----------------------------------------------------------------------------
(* Blocks due                                                              *)

Behind(p, c, x, w) ==
  \E m \in DOMAIN p.kids[w], n \in DOMAIN p.kids[w] :
    /\ m < n /\ p.kids[w][n] = x
    /\ \A l \in DOMAIN p.kids[w] : p.kids[w][l] \in p.ancestors[c] \cup {c} <=> l = m

(* What comes after the cursor visited, below an ancestor of it, is due    *)
(* later than the child of the ancestor that it lies under.                *)
LEMMA DueLater ==
  ASSUME NEW p \in Programs, NEW d, NEW todo, TodoFits(p, todo, d), NEW c, c = todo[1],
         NEW x, Due(todo, 2, x), NEW w, w = p.parent[x]
  PROVE  /\ c \in DOMAIN p.kind /\ x \in DOMAIN p.kind /\ w \in DOMAIN p.kind
         /\ x # c /\ w # NoCursor /\ w \in p.ancestors[c] /\ w # c
         /\ Behind(p, c, x, w)
<1>1. PICK j \in DOMAIN todo : j >= 2 /\ todo[j] = x
  BY DEF Due
<1>2. /\ c \in DOMAIN p.kind /\ x \in DOMAIN p.kind /\ w \in DOMAIN p.kind
      /\ w # NoCursor /\ w \in p.ancestors[c]
      /\ DOMAIN todo = 1..Len(todo) /\ Len(todo) \in Nat /\ 1 \in DOMAIN todo
  BY <1>1, AboveNext
<1>3. 1 < j
  BY <1>1, <1>2
<1>4. Earlier(p, c, x) /\ Under(p, c) \cap Under(p, x) = {}
  BY <1>1, <1>2, <1>3 DEF TodoFits
<1>5. x # c
  BY <1>2, <1>4 DEF Under
<1>6. w # c
  BY <1>2, TreeFacts
<1>7. PICK m \in DOMAIN p.kids[w], n \in DOMAIN p.kids[w] :
        m < n /\ p.kids[w][n] = x /\ p.kids[w][m] \in p.ancestors[c] \cup {c}
  BY <1>4 DEF Earlier
<1>8. PICK k \in DOMAIN p.kids[w] :
        \A l \in DOMAIN p.kids[w] : p.kids[w][l] \in p.ancestors[c] \cup {c} <=> l = k
  BY <1>2, KidAbove
<1>9. k = m
  BY <1>7, <1>8
<1> QED
  BY <1>2, <1>5, <1>6, <1>7, <1>8, <1>9 DEF Behind

LEMMA DueBehind ==
  ASSUME NEW p \in Programs, NEW d, NEW todo, TodoFits(p, todo, d),
         NEW x, Due(todo, 2, x)
  PROVE  Behind(p, todo[1], x, p.parent[x])
  BY DueLater

LEMMA DueOn ==
  ASSUME NEW p \in Programs, NEW d, NEW todo, TodoFits(p, todo, d), todo # <<>>,
         NEW c, c = todo[1], NEW t, t = After(p, todo), NEW x
  PROVE  /\ Due(todo, 2, x) => Due(t, 1, x)
         /\ Due(t, 1, x) => Due(todo, 2, x) \/ p.parent[x] = c
         /\ (\E l \in DOMAIN p.kids[c] : x = p.kids[c][l]) => Due(t, 1, x)
<1>1. /\ \A j \in DOMAIN t : /\ j >= 1
                             /\ \/ \E l \in DOMAIN p.kids[c] : t[j] = p.kids[c][l]
                                \/ \E i \in DOMAIN todo : i >= 2 /\ t[j] = todo[i]
      /\ \A i \in DOMAIN todo : i >= 2 => \E j \in DOMAIN t : t[j] = todo[i]
      /\ \A l \in DOMAIN p.kids[c] : \E j \in DOMAIN t : t[j] = p.kids[c][l]
  <2>1. \A j \in DOMAIN t : /\ j >= 1
                            /\ \/ \E l \in DOMAIN p.kids[c] : t[j] = p.kids[c][l]
                               \/ \E i \in DOMAIN todo : i >= 2 /\ t[j] = todo[i]
    BY AfterIs
  <2>2. \A i \in DOMAIN todo : i >= 2 => \E j \in DOMAIN t : t[j] = todo[i]
    BY AfterIs
  <2>3. \A l \in DOMAIN p.kids[c] : \E j \in DOMAIN t : t[j] = p.kids[c][l]
    BY AfterIs
  <2> QED
    BY <2>1, <2>2, <2>3
<1>2. c \in DOMAIN p.kind
  <2>1. Len(todo) \in Nat \ {0} /\ DOMAIN todo = 1..Len(todo)
    BY TodoFacts
  <2>2. 1 \in DOMAIN todo
    BY <2>1
  <2> QED
    BY <2>2, TodoFacts
<1>3. Due(todo, 2, x) => Due(t, 1, x)
  BY <1>1 DEF Due
<1>4. ASSUME Due(t, 1, x) PROVE Due(todo, 2, x) \/ p.parent[x] = c
  <2>1. PICK j \in DOMAIN t : t[j] = x
    BY <1>4 DEF Due
  <2>2. CASE \E l \in DOMAIN p.kids[c] : t[j] = p.kids[c][l]
    BY <2>1, <2>2, <1>2, KidFacts
  <2>3. CASE \E i \in DOMAIN todo : i >= 2 /\ t[j] = todo[i]
    BY <2>1, <2>3 DEF Due
  <2> QED
    BY <2>2, <2>3, <1>1
<1>5. (\E l \in DOMAIN p.kids[c] : x = p.kids[c][l]) => Due(t, 1, x)
  BY <1>1 DEF Due
<1> QED
  BY <1>3, <1>4, <1>5

LEMMA KidDue ==
  ASSUME NEW p \in Programs, NEW d, NEW todo, TodoFits(p, todo, d), todo # <<>>,
         NEW l \in DOMAIN p.kids[todo[1]]
  PROVE  Due(After(p, todo), 1, p.kids[todo[1]][l])
<1>1. PICK c : c = todo[1]
  OBVIOUS
<1>2. PICK t : t = After(p, todo)
  OBVIOUS
<1>3. \E j \in DOMAIN t : t[j] = p.kids[c][l]
  BY <1>1, <1>2, AfterIs
<1> QED
  BY <1>1, <1>2, <1>3, DueOn DEF Due

(* The chain to the if of a block due later is carried on.                 *)
LEMMA CarriedOn ==
  ASSUME NEW p \in Programs, NEW d, NEW todo, TodoFits(p, todo, d), todo # <<>>,
         NEW c, c = todo[1], NEW t, t = After(p, todo),
         NEW s \in Seq(DOMAIN p.kind), s # <<>> => s[Len(s)] = p.parent[c],
         NEW u, Piled(s, u, c), p.kids[c] # <<>> => Len(u) > Len(s),
         NEW k \in 1..Len(s), Chained(p, s, k, todo),
         NEW x, Due(todo, 2, x), p.parent[x] = s[k]
  PROVE  Chained(p, u, k, t) /\ u[k] = s[k]
<1>1. s[k] \in p.ancestors[c]
  BY DueLater
<1>2. Due(t, 1, x)
  BY DueOn
<1>3. t # <<>>
  <2>1. t = <<>> => DOMAIN t = {}
    OBVIOUS
  <2> QED
    BY <2>1, <1>2 DEF Due
<1>4. Chained(p, u, k, t)
  BY <1>1, <1>3, ChainedOn
<1>5. u[k] = s[k]
  BY <1>1, <1>3, ChainedOn
<1> QED
  BY <1>4, <1>5

(* The then block of an if is a child of it, and not the first.            *)
LEMMA ThenIsBranch ==
  ASSUME NEW p \in Programs, NEW w \in DOMAIN p.kind, p.kind[w] = "If"
  PROVE  /\ 1 \in DOMAIN p.kids[w] /\ 2 \in DOMAIN p.kids[w]
         /\ Len(p.kids[w]) \in DOMAIN p.kids[w] /\ Len(p.kids[w]) \in Nat
         /\ DOMAIN p.kids[w] = 1..Len(p.kids[w])
         /\ p.kids[w][2] \in DOMAIN p.kind /\ p.parent[p.kids[w][2]] = w
         /\ Branch(p, p.kids[w][2])
<1>1. p.kids[w] \in Seq(DOMAIN p.kind) /\ Len(p.kids[w]) >= 2
  BY TreeFacts, SyntaxFacts
<1>2. /\ 1 \in DOMAIN p.kids[w] /\ 2 \in DOMAIN p.kids[w]
      /\ Len(p.kids[w]) \in DOMAIN p.kids[w] /\ Len(p.kids[w]) \in Nat
      /\ DOMAIN p.kids[w] = 1..Len(p.kids[w])
  <2>1. Len(p.kids[w]) \in Nat /\ DOMAIN p.kids[w] = 1..Len(p.kids[w])
    BY <1>1, LenProperties
  <2> QED
    BY <1>1, <2>1
<1>3. p.kids[w][2] \in DOMAIN p.kind /\ p.parent[p.kids[w][2]] = w
  BY <1>2, KidFacts
<1>4. p.kids[w][2] # p.kids[w][1]
  BY <1>2, KidsApart
<1> QED
  BY <1>2, <1>3, <1>4 DEF Branch, FirstKid

(* If it is due later, the cursor visited lies in the condition.           *)
LEMMA InCondition ==
  ASSUME NEW p \in Programs, NEW d, NEW todo, TodoFits(p, todo, d), NEW c, c = todo[1],
         NEW w \in DOMAIN p.kind, p.kind[w] = "If", Due(todo, 2, p.kids[w][2])
  PROVE  /\ w \in p.ancestors[c] /\ c \in DOMAIN p.kind
         /\ \A l \in DOMAIN p.kids[w] : p.kids[w][l] \in p.ancestors[c] \cup {c} <=> l = 1
<1>1. /\ 1 \in DOMAIN p.kids[w] /\ 2 \in DOMAIN p.kids[w] /\ p.parent[p.kids[w][2]] = w
      /\ DOMAIN p.kids[w] = 1..Len(p.kids[w])
  BY ThenIsBranch
<1> DEFINE x == p.kids[w][2]
<1>2. w = p.parent[x] /\ Due(todo, 2, x)
  BY <1>1
<1> HIDE DEF x
<1>3. c \in DOMAIN p.kind /\ w \in p.ancestors[c]
  BY <1>2, DueLater
<1>4. PICK m \in DOMAIN p.kids[w], n \in DOMAIN p.kids[w] :
        /\ m < n /\ p.kids[w][n] = x
        /\ \A l \in DOMAIN p.kids[w] : p.kids[w][l] \in p.ancestors[c] \cup {c} <=> l = m
  BY <1>2, DueBehind DEF Behind
<1>5. n = 2
  BY <1>1, <1>4, KidsApart DEF x
<1>6. m = 1
  <2>1. m \in 1..Len(p.kids[w]) /\ m < 2
    BY <1>1, <1>4, <1>5
  <2>2. m \in Nat /\ m >= 1
    BY <2>1
  <2> QED
    BY <2>1, <2>2
<1> QED
  BY <1>3, <1>4, <1>6
-----------------------------------------------------------------------------
(* Visiting a cursor keeps nesting and stack matched                       *)

NoneDue(p, todo, q) == \A x \in DOMAIN p.kind : Due(todo, q, x) => ~Branch(p, x)

LEMMA MatchedQuiet ==
  ASSUME NEW p, NEW s \in Seq(DOMAIN p.kind), NEW nest \in Seq(Parts),
         NEW f, IfsAt(p, s, nest, f), NEW todo, NEW q, NoneDue(p, todo, q),
         \A i \in 1..Len(nest) : nest[i] # "cond"
  PROVE  Matched(p, s, nest, todo, q)
BY DEF Matched, BranchesDue, NoneDue

LEMMA NoCondition ==
  ASSUME NEW p \in Programs, NEW s, NEW nest, NEW todo, NEW q, Matched(p, s, nest, todo, q),
         NoneDue(p, todo, q)
  PROVE  /\ \A i \in 1..Len(nest) : nest[i] # "cond"
         /\ s \in Seq(DOMAIN p.kind) /\ nest \in Seq(Parts) /\ \E f : IfsAt(p, s, nest, f)
<1>1. PICK f : IfsAt(p, s, nest, f) /\ BranchesDue(p, s, nest, f, todo, q)
  BY DEF Matched
<1>2. ASSUME NEW i \in 1..Len(nest), nest[i] = "cond" PROVE FALSE
  <2> DEFINE w == s[f[i]]
  <2>1. Due(todo, q, p.kids[w][2])
    BY <1>1, <1>2 DEF BranchesDue
  <2>2. f[i] \in 1..Len(s) /\ p.kind[w] = "If"
    BY <1>1 DEF IfsAt
  <2>3. s \in Seq(DOMAIN p.kind)
    BY DEF Matched
  <2>4. w \in DOMAIN p.kind
    BY <2>2, <2>3, LenProperties
  <2> HIDE DEF w
  <2>5. p.kids[w][2] \in DOMAIN p.kind /\ Branch(p, p.kids[w][2])
    BY <2>2, <2>4, ThenIsBranch
  <2> QED
    BY <2>1, <2>5 DEF NoneDue
<1> QED
  BY <1>1, <1>2 DEF Matched

LEMMA PartOn ==
  ASSUME NEW p \in Programs, NEW d, NEW todo, TodoFits(p, todo, d), todo # <<>>,
         NEW c, c = todo[1], NEW t, t = After(p, todo),
         NEW w \in DOMAIN p.kind, p.kind[w] = "If", w # c
  PROVE  PartDue(p, t, 1, w) = PartDue(p, todo, 2, w)
<1>1. p.parent[p.kids[w][2]] # c
  BY ThenIsBranch
<1>2. PICK x : x = p.kids[w][2]
  OBVIOUS
<1>3. Due(t, 1, x) <=> Due(todo, 2, x)
  BY <1>1, <1>2, DueOn
<1> QED
  BY <1>2, <1>3 DEF PartDue

(* The ifs that stand on the stack below what is pushed.                   *)
LEMMA BranchesOn ==
  ASSUME NEW p \in Programs, NEW d, NEW todo, TodoFits(p, todo, d), todo # <<>>,
         NEW c, c = todo[1], NEW t, t = After(p, todo),
         NEW s \in Seq(DOMAIN p.kind), s # <<>> => s[Len(s)] = p.parent[c],
         NEW u, Piled(s, u, c), p.kids[c] # <<>> => Len(u) > Len(s),
         NEW nest, NEW f, IfsAt(p, s, nest, f), BranchesDue(p, s, nest, f, todo, 2)
  PROVE  /\ \A x \in DOMAIN p.kind : Due(t, 1, x) /\ Branch(p, x) /\ p.parent[x] # c =>
              \E i \in 1..Len(nest) :
                /\ u[f[i]] = p.parent[x] /\ Chained(p, u, f[i], t)
                /\ nest[i] = PartDue(p, t, 1, p.parent[x])
         /\ \A i \in 1..Len(nest) : nest[i] = "cond" =>
              Due(t, 1, p.kids[u[f[i]]][2]) /\ Chained(p, u, f[i], t)
<1>1. \A i \in 1..Len(nest) : f[i] \in 1..Len(s) /\ p.kind[s[f[i]]] = "If"
  BY DEF IfsAt
<1>2. \A i \in 1..Len(nest) : s[f[i]] \in DOMAIN p.kind
  <2>1. \A k \in 1..Len(s) : s[k] \in DOMAIN p.kind
    BY LenProperties
  <2> QED
    BY <1>1, <2>1
<1>3. ASSUME NEW x \in DOMAIN p.kind, Due(t, 1, x), Branch(p, x), p.parent[x] # c
      PROVE  \E i \in 1..Len(nest) :
               /\ u[f[i]] = p.parent[x] /\ Chained(p, u, f[i], t)
               /\ nest[i] = PartDue(p, t, 1, p.parent[x])
  <2>1. Due(todo, 2, x)
    BY <1>3, DueOn
  <2>2. PICK i \in 1..Len(nest) :
          /\ s[f[i]] = p.parent[x] /\ Chained(p, s, f[i], todo)
          /\ nest[i] = PartDue(p, todo, 2, p.parent[x])
    BY <1>3, <2>1 DEF BranchesDue
  <2>3. PICK k \in 1..Len(s) : k = f[i]
    BY <1>1
  <2>4. Chained(p, u, k, t) /\ u[k] = s[k]
    <3>1. Chained(p, s, k, todo) /\ p.parent[x] = s[k]
      BY <2>2, <2>3
    <3>2. Chained(p, u, k, t)
      BY <2>1, <3>1, CarriedOn
    <3>3. u[k] = s[k]
      BY <2>1, <3>1, CarriedOn
    <3> QED
      BY <3>2, <3>3
  <2>5. PICK w \in DOMAIN p.kind : w = p.parent[x] /\ p.kind[w] = "If" /\ w # c
    BY <1>1, <1>2, <1>3, <2>2
  <2>6. PartDue(p, t, 1, w) = PartDue(p, todo, 2, w)
    BY <2>5, PartOn
  <2> QED
    BY <2>2, <2>3, <2>4, <2>5, <2>6
<1>4. ASSUME NEW i \in 1..Len(nest), nest[i] = "cond"
      PROVE  Due(t, 1, p.kids[u[f[i]]][2]) /\ Chained(p, u, f[i], t)
  <2>1. PICK k \in 1..Len(s) : k = f[i]
    BY <1>1
  <2>2. PICK x : x = p.kids[s[k]][2]
    OBVIOUS
  <2>3. Due(todo, 2, x) /\ Chained(p, s, k, todo)
    BY <1>4, <2>1, <2>2 DEF BranchesDue
  <2>4. p.parent[x] = s[k]
    BY <1>1, <1>2, <2>1, <2>2, ThenIsBranch
  <2>5. Chained(p, u, k, t) /\ u[k] = s[k]
    <3>1. Chained(p, u, k, t)
      BY <2>3, <2>4, CarriedOn
    <3>2. u[k] = s[k]
      BY <2>3, <2>4, CarriedOn
    <3> QED
      BY <3>1, <3>2
  <2>6. Due(t, 1, x)
    BY <2>3, DueOn
  <2> QED
    BY <2>1, <2>2, <2>5, <2>6
<1> QED
  BY <1>3, <1>4

LEMMA MatchedOn ==
  ASSUME NEW p \in Programs, NEW d, NEW todo, TodoFits(p, todo, d), todo # <<>>,
         NEW c, c = todo[1], p.kind[c] # "If", NEW t, t = After(p, todo),
         NEW s \in Seq(DOMAIN p.kind), s # <<>> => s[Len(s)] = p.parent[c],
         NEW u \in Seq(DOMAIN p.kind), Piled(s, u, c), p.kids[c] # <<>> => Len(u) > Len(s),
         NEW nest, Matched(p, s, nest, todo, 2)
  PROVE  Matched(p, u, nest, t, 1)
<1>1. nest \in Seq(Parts)
  BY DEF Matched
<1>2. PICK f : IfsAt(p, s, nest, f) /\ BranchesDue(p, s, nest, f, todo, 2)
  BY DEF Matched
<1>3. IfsAt(p, u, nest, f)
  BY <1>1, <1>2, IfsPiled
<1>4. /\ \A x \in DOMAIN p.kind : Due(t, 1, x) /\ Branch(p, x) /\ p.parent[x] # c =>
           \E i \in 1..Len(nest) :
             /\ u[f[i]] = p.parent[x] /\ Chained(p, u, f[i], t)
             /\ nest[i] = PartDue(p, t, 1, p.parent[x])
      /\ \A i \in 1..Len(nest) : nest[i] = "cond" =>
           Due(t, 1, p.kids[u[f[i]]][2]) /\ Chained(p, u, f[i], t)
  BY <1>2, BranchesOn
<1>5. \A x \in DOMAIN p.kind : Branch(p, x) => p.parent[x] # c
  BY DEF Branch
<1>6. BranchesDue(p, u, nest, f, t, 1)
  BY <1>4, <1>5 DEF BranchesDue
<1> QED
  BY <1>1, <1>3, <1>6 DEF Matched

LEMMA ChainedHere ==
  ASSUME NEW p \in Programs, NEW d, NEW todo, TodoFits(p, todo, d), todo # <<>>,
         NEW c, c = todo[1], NEW t, t = After(p, todo), t # <<>>,
         NEW u \in Seq(DOMAIN p.kind), NEW k, k = Len(u), u[k] = c
  PROVE  Chained(p, u, k, t)
<1>1. /\ c \in DOMAIN p.kind
      /\ p.ancestors[t[1]] \subseteq p.ancestors[c] \cup {p.parent[t[1]]}
      /\ p.parent[t[1]] # c => p.ancestors[t[1]] \subseteq p.ancestors[c]
  BY AfterFacts
<1>2. k \in Nat
  BY LenProperties
<1>3. \A a \in p.ancestors[c] \cup {c} : c \notin p.ancestors[a]
  BY <1>1, TreeFacts
<1>4. \A a \in p.ancestors[t[1]] : c \notin p.ancestors[a]
  BY <1>1, <1>3
<1>5. LinkedFrom(p, u, k)
  BY <1>2 DEF LinkedFrom
<1>6. \A m \in 1..Len(u) : ~(m > k)
  BY <1>2
<1> QED
  BY <1>4, <1>5, <1>6 DEF Chained

LEMMA CondDue ==
  ASSUME NEW p \in Programs, NEW d, NEW todo, TodoFits(p, todo, d), todo # <<>>,
         NEW c, c = todo[1], NEW t, t = After(p, todo), p.kind[c] = "If"
  PROVE  /\ c \in DOMAIN p.kind /\ Due(t, 1, p.kids[c][2]) /\ t # <<>>
         /\ PartDue(p, t, 1, c) = "cond"
<1>1. c \in DOMAIN p.kind
  <2>1. Len(todo) \in Nat \ {0} /\ DOMAIN todo = 1..Len(todo)
    BY TodoFacts
  <2>2. 1 \in DOMAIN todo
    BY <2>1
  <2> QED
    BY <2>2, TodoFacts
<1>2. 2 \in DOMAIN p.kids[c]
  BY <1>1, ThenIsBranch
<1>3. \A l \in DOMAIN p.kids[c] : Due(t, 1, p.kids[c][l])
  BY KidDue
<1>4. t = <<>> => DOMAIN t = {}
  OBVIOUS
<1> QED
  BY <1>1, <1>2, <1>3, <1>4 DEF Due, PartDue

(* An if is opened: its condition comes first.                             *)
LEMMA BranchesIf ==
  ASSUME NEW p \in Programs, NEW d, NEW todo, TodoFits(p, todo, d), todo # <<>>,
         NEW c, c = todo[1], NEW t, t = After(p, todo), p.kind[c] = "If",
         NEW s \in Seq(DOMAIN p.kind), s # <<>> => s[Len(s)] = p.parent[c],
         NEW u \in Seq(DOMAIN p.kind), Piled(s, u, c), p.kids[c] # <<>> => Len(u) > Len(s),
         u[Len(u)] = c,
         NEW nest, NEW f, IfsAt(p, s, nest, f), BranchesDue(p, s, nest, f, todo, 2),
         NEW v, NEW g, Len(nest) \in Nat, Len(v) = Len(nest) + 1, v[Len(v)] = "cond",
         g[Len(v)] = Len(u), Agree(v, nest, Len(nest)), Agree(g, f, Len(nest))
  PROVE  BranchesDue(p, u, v, g, t, 1)
<1>1. /\ \A x \in DOMAIN p.kind : Due(t, 1, x) /\ Branch(p, x) /\ p.parent[x] # c =>
           \E i \in 1..Len(nest) :
             /\ u[f[i]] = p.parent[x] /\ Chained(p, u, f[i], t)
             /\ nest[i] = PartDue(p, t, 1, p.parent[x])
      /\ \A i \in 1..Len(nest) : nest[i] = "cond" =>
           Due(t, 1, p.kids[u[f[i]]][2]) /\ Chained(p, u, f[i], t)
  BY BranchesOn
<1>2. c \in DOMAIN p.kind /\ Due(t, 1, p.kids[c][2]) /\ t # <<>> /\ PartDue(p, t, 1, c) = "cond"
  BY CondDue
<1>3. \A k : k = Len(u) => Chained(p, u, k, t)
  BY <1>2, ChainedHere
<1>4. Chained(p, u, g[Len(v)], t) /\ u[g[Len(v)]] = c
  BY <1>3
<1>5. /\ Len(v) \in 1..Len(v) /\ \A i \in 1..Len(v) : i \in 1..Len(nest) \/ i = Len(v)
      /\ \A i \in 1..Len(nest) : i \in 1..Len(v)
  OBVIOUS
<1>6. ASSUME NEW x \in DOMAIN p.kind, Due(t, 1, x), Branch(p, x)
      PROVE  \E i \in 1..Len(v) :
               /\ u[g[i]] = p.parent[x] /\ Chained(p, u, g[i], t)
               /\ v[i] = PartDue(p, t, 1, p.parent[x])
  <2>1. CASE p.parent[x] = c
    BY <2>1, <1>2, <1>4, <1>5
  <2>2. CASE p.parent[x] # c
    <3>1. PICK i \in 1..Len(nest) :
            /\ u[f[i]] = p.parent[x] /\ Chained(p, u, f[i], t)
            /\ nest[i] = PartDue(p, t, 1, p.parent[x])
      BY <2>2, <1>1, <1>6
    <3>2. i \in 1..Len(v) /\ g[i] = f[i] /\ v[i] = nest[i]
      BY <1>5 DEF Agree
    <3> QED
      BY <3>1, <3>2
  <2> QED
    BY <2>1, <2>2
<1>7. ASSUME NEW i \in 1..Len(v), v[i] = "cond"
      PROVE  Due(t, 1, p.kids[u[g[i]]][2]) /\ Chained(p, u, g[i], t)
  <2>1. CASE i \in 1..Len(nest)
    BY <2>1, <1>1, <1>7 DEF Agree
  <2>2. CASE i = Len(v)
    BY <2>2, <1>2, <1>4
  <2> QED
    BY <2>1, <2>2, <1>5
<1> QED
  BY <1>6, <1>7 DEF BranchesDue

TopIf(p, u, v, f, n) ==
  \E g : IfsAt(p, u, v, g) /\ g[Len(v)] = Len(u) /\ Agree(g, f, n)

LEMMA PushedIf ==
  ASSUME NEW p, NEW s \in Seq(DOMAIN p.kind), NEW c \in DOMAIN p.kind, p.kind[c] = "If",
         NEW u, u = Append(s, c), NEW nest \in Seq(Parts), NEW f, IfsAt(p, s, nest, f),
         NEW v, v = Append(nest, "cond")
  PROVE  /\ u \in Seq(DOMAIN p.kind) /\ Piled(s, u, c) /\ Len(u) > Len(s) /\ u[Len(u)] = c
         /\ v \in Seq(Parts) /\ Len(nest) \in Nat /\ Len(v) = Len(nest) + 1 /\ v[Len(v)] = "cond"
         /\ Agree(v, nest, Len(nest))
         /\ TopIf(p, u, v, f, Len(nest))
<1>1. PICK x \in Parts : x = "cond"
  BY DEF Parts
<1>2. \A S, q, e, r : q \in Seq(S) /\ e \in S /\ r = Append(q, e)
        => /\ r \in Seq(S) /\ Len(q) \in Nat /\ Len(r) = Len(q) + 1 /\ r # <<>>
           /\ r[Len(r)] = e /\ r[Len(q) + 1] = e /\ \A i \in 1..Len(q) : r[i] = q[i]
  BY AppendIs
<1>3. /\ u \in Seq(DOMAIN p.kind) /\ Len(s) \in Nat /\ Len(u) = Len(s) + 1
      /\ u[Len(u)] = c /\ \A i \in 1..Len(s) : u[i] = s[i]
  BY <1>2
<1>4. /\ v \in Seq(Parts) /\ Len(nest) \in Nat /\ Len(v) = Len(nest) + 1
      /\ v[Len(v)] = "cond" /\ \A i \in 1..Len(nest) : v[i] = nest[i]
  BY <1>1, <1>2
<1>5. Piled(s, u, c) /\ Len(u) > Len(s)
  <2>1. \A m \in 1..Len(u) : m > Len(s) => m = Len(u)
    BY <1>3
  <2>2. Len(u) \in Nat /\ Len(u) >= Len(s) /\ Len(u) > Len(s)
    BY <1>3
  <2> QED
    BY <2>1, <2>2, <1>3 DEF Piled
<1>6. PICK g : IfsAt(p, u, Append(nest, x), g) /\ g[Len(nest) + 1] = Len(u) /\ Agree(g, f, Len(nest))
  BY IfsPush
<1>7. IfsAt(p, u, v, g) /\ g[Len(v)] = Len(u)
  BY <1>1, <1>4, <1>6
<1>8. Agree(v, nest, Len(nest))
  BY <1>4 DEF Agree
<1> QED
  BY <1>3, <1>4, <1>5, <1>6, <1>7, <1>8 DEF TopIf

LEMMA MatchedIf ==
  ASSUME NEW p \in Programs, NEW d, NEW todo, TodoFits(p, todo, d), todo # <<>>,
         NEW c, c = todo[1], p.kind[c] = "If", NEW t, t = After(p, todo),
         NEW s \in Seq(DOMAIN p.kind), s # <<>> => s[Len(s)] = p.parent[c],
         NEW u, u = Append(s, c), NEW nest, Matched(p, s, nest, todo, 2),
         NEW v, v = Append(nest, "cond")
  PROVE  Matched(p, u, v, t, 1)
<1>1. nest \in Seq(Parts)
  BY DEF Matched
<1>2. PICK f : IfsAt(p, s, nest, f) /\ BranchesDue(p, s, nest, f, todo, 2)
  BY DEF Matched
<1>3. c \in DOMAIN p.kind
  BY CondDue
<1>4. /\ u \in Seq(DOMAIN p.kind) /\ Piled(s, u, c) /\ Len(u) > Len(s) /\ u[Len(u)] = c
      /\ v \in Seq(Parts) /\ Len(nest) \in Nat /\ Len(v) = Len(nest) + 1 /\ v[Len(v)] = "cond"
      /\ Agree(v, nest, Len(nest))
      /\ \E g : IfsAt(p, u, v, g) /\ g[Len(v)] = Len(u) /\ Agree(g, f, Len(nest))
  <2>1. u \in Seq(DOMAIN p.kind)
    BY <1>3, AppendProperties
  <2>2. Piled(s, u, c)
    <3>1. \A q \in Seq(DOMAIN p.kind), a \in DOMAIN p.kind, n \in Seq(Parts) : \A h :
            p.kind[a] = "If" /\ IfsAt(p, q, n, h) => Piled(q, Append(q, a), a)
      BY PushedIf
    <3> QED
      BY <3>1, <1>1, <1>2, <1>3
  <2>3. Len(u) > Len(s) /\ u[Len(u)] = c
    BY <1>1, <1>2, <1>3, PushedIf
  <2>4. Agree(v, nest, Len(nest)) /\ Len(nest) \in Nat
    BY <1>1, <1>2, <1>3, PushedIf
  <2>5. v \in Seq(Parts) /\ Len(v) = Len(nest) + 1 /\ v[Len(v)] = "cond"
    <3>1. "cond" \in Parts
      BY DEF Parts
    <3> QED
      BY <3>1, <1>1, AppendProperties, LenProperties
  <2>6. TopIf(p, u, v, f, Len(nest))
    BY <1>1, <1>2, <1>3, PushedIf
  <2> QED
    BY <2>1, <2>2, <2>3, <2>4, <2>5, <2>6 DEF TopIf
<1>5. PICK g : IfsAt(p, u, v, g) /\ g[Len(v)] = Len(u) /\ Agree(g, f, Len(nest))
  BY <1>4
<1>6. BranchesDue(p, u, v, g, t, 1)
  <2>1. p.kids[c] # <<>> => Len(u) > Len(s)
    BY <1>4
  <2> QED
    BY <2>1, <1>2, <1>4, <1>5, BranchesIf
<1> QED
  BY <1>4, <1>5, <1>6 DEF Matched
-----------------------------------------------------------------------------
(* Unwinding and marking keep nesting and stack matched                    *)

LEMMA MatchedPop ==
  ASSUME NEW p \in Programs, NEW d, NEW todo, TodoFits(p, todo, d), todo # <<>>,
         NEW s \in Seq(DOMAIN p.kind), s # <<>>, s[Len(s)] # p.parent[todo[1]],
         NEW nest, Matched(p, s, nest, todo, 1), NEW t, t = Front(s)
  PROVE  /\ p.kind[s[Len(s)]] # "If" => Matched(p, t, nest, todo, 1)
         /\ p.kind[s[Len(s)]] = "If" =>
              /\ nest # <<>> /\ nest[Len(nest)] \in {"then", "else"}
              /\ Matched(p, t, Front(nest), todo, 1)
<1>1. nest \in Seq(Parts) /\ Len(nest) \in Nat
  <2>1. nest \in Seq(Parts)
    BY DEF Matched
  <2> QED
    BY <2>1, LenProperties
<1>2. PICK f : IfsAt(p, s, nest, f) /\ BranchesDue(p, s, nest, f, todo, 1)
  BY DEF Matched
<1>3. /\ t \in Seq(DOMAIN p.kind) /\ Len(s) \in Nat \ {0} /\ Len(t) = Len(s) - 1
      /\ \A k \in 1..Len(s) : s[k] \in DOMAIN p.kind
  <2>1. \A k \in 1..Len(s) : s[k] \in DOMAIN p.kind
    BY LenProperties
  <2> QED
    BY <2>1, FrontIs
<1>4. \A i \in 1..Len(nest) : /\ f[i] \in 1..Len(s) /\ p.kind[s[f[i]]] = "If"
                              /\ s[f[i]] \in DOMAIN p.kind
  BY <1>2, <1>3 DEF IfsAt
(* Not the if of a block to come.                                          *)
<1>5. ASSUME NEW x, Due(todo, 1, x), NEW k \in 1..Len(s), s[k] = p.parent[x],
             Chained(p, s, k, todo)
      PROVE  k \in 1..Len(t) /\ Chained(p, t, k, todo) /\ t[k] = s[k] /\ k # Len(s)
  <2>1. PICK j \in DOMAIN todo : todo[j] = x
    BY <1>5 DEF Due
  <2>2. p.parent[todo[j]] \in p.ancestors[todo[1]]
    BY AboveNext
  <2>3. s[k] \in p.ancestors[todo[1]]
    BY <1>5, <2>1, <2>2
  <2>4. k \in 1..Len(t) /\ Chained(p, t, k, todo) /\ t[k] = s[k]
    BY <1>5, <2>3, ChainedPop
  <2>5. k # Len(s)
    BY <2>4, <1>3
  <2> QED
    BY <2>4, <2>5
<1>6. ASSUME NEW x \in DOMAIN p.kind, Due(todo, 1, x), Branch(p, x)
      PROVE  \E i \in 1..Len(nest) :
               /\ t[f[i]] = p.parent[x] /\ Chained(p, t, f[i], todo)
               /\ nest[i] = PartDue(p, todo, 1, p.parent[x]) /\ f[i] # Len(s)
  <2>1. PICK i \in 1..Len(nest) :
          /\ s[f[i]] = p.parent[x] /\ Chained(p, s, f[i], todo)
          /\ nest[i] = PartDue(p, todo, 1, p.parent[x])
    BY <1>2, <1>6 DEF BranchesDue
  <2>2. f[i] \in 1..Len(s)
    BY <1>4
  <2>3. Chained(p, t, f[i], todo) /\ t[f[i]] = s[f[i]] /\ f[i] # Len(s)
    BY <1>5, <1>6, <2>1, <2>2
  <2> QED
    BY <2>1, <2>3
<1>7. ASSUME NEW i \in 1..Len(nest), nest[i] = "cond"
      PROVE  /\ Due(todo, 1, p.kids[t[f[i]]][2]) /\ Chained(p, t, f[i], todo)
             /\ f[i] # Len(s)
  <2>1. PICK k \in 1..Len(s) : k = f[i]
    BY <1>4
  <2>2. PICK x : x = p.kids[s[k]][2]
    OBVIOUS
  <2>3. Due(todo, 1, x) /\ Chained(p, s, k, todo)
    BY <1>2, <1>7, <2>1, <2>2 DEF BranchesDue
  <2>4. s[k] = p.parent[x]
    BY <1>4, <2>1, <2>2, ThenIsBranch
  <2>5. Chained(p, t, k, todo) /\ t[k] = s[k] /\ k # Len(s)
    BY <1>5, <2>3, <2>4
  <2> QED
    BY <2>1, <2>2, <2>3, <2>5
<1>8. CASE p.kind[s[Len(s)]] # "If"
  <2>1. IfsAt(p, t, nest, f)
    BY <1>1, <1>2, <1>8, IfsPop
  <2>2. BranchesDue(p, t, nest, f, todo, 1)
    BY <1>6, <1>7 DEF BranchesDue
  <2> QED
    BY <1>1, <1>3, <1>8, <2>1, <2>2 DEF Matched
<1>9. CASE p.kind[s[Len(s)]] = "If"
  <2> DEFINE l == Len(nest)
             v == Front(nest)
  <2>1. /\ nest # <<>> /\ f[l] = Len(s)
        /\ \E g : IfsAt(p, t, v, g) /\ \A i \in 1..(l - 1) : g[i] = f[i]
    BY <1>1, <1>2, <1>9, IfsPop
  <2>2. PICK g : IfsAt(p, t, v, g) /\ \A i \in 1..(l - 1) : g[i] = f[i]
    BY <2>1
  <2>3. /\ v \in Seq(Parts) /\ l \in Nat \ {0} /\ Len(v) = l - 1
        /\ \A i \in 1..(l - 1) : v[i] = nest[i]
    BY <1>1, <2>1, FrontIs
  <2> HIDE DEF v
  <2>4. l \in 1..Len(nest)
    BY <2>3
  <2>5. nest[l] \in {"then", "else"}
    <3>1. nest[l] \in Parts
      BY <1>1, <2>4, LenProperties
    <3>2. nest[l] # "cond"
      BY <1>7, <2>1, <2>4
    <3> QED
      BY <3>1, <3>2 DEF Parts
  <2>6. \A i \in 1..Len(nest) : f[i] # Len(s) => i \in 1..(l - 1) /\ i \in 1..Len(v)
    <3> TAKE i \in 1..Len(nest)
    <3>1. f[i] # Len(s) => i # l
      BY <2>1
    <3> QED
      BY <3>1, <2>3
  <2>7. ASSUME NEW x \in DOMAIN p.kind, Due(todo, 1, x), Branch(p, x)
        PROVE  \E i \in 1..Len(v) :
                 /\ t[g[i]] = p.parent[x] /\ Chained(p, t, g[i], todo)
                 /\ v[i] = PartDue(p, todo, 1, p.parent[x])
    <3>1. PICK i \in 1..Len(nest) :
            /\ t[f[i]] = p.parent[x] /\ Chained(p, t, f[i], todo)
            /\ nest[i] = PartDue(p, todo, 1, p.parent[x]) /\ f[i] # Len(s)
      BY <2>7, <1>6
    <3>2. i \in 1..Len(v) /\ g[i] = f[i] /\ v[i] = nest[i]
      BY <3>1, <2>2, <2>3, <2>6
    <3> QED
      BY <3>1, <3>2
  <2>8. ASSUME NEW i \in 1..Len(v), v[i] = "cond"
        PROVE  Due(todo, 1, p.kids[t[g[i]]][2]) /\ Chained(p, t, g[i], todo)
    <3>1. i \in 1..(l - 1) /\ i \in 1..Len(nest)
      BY <2>3
    <3>2. g[i] = f[i] /\ nest[i] = "cond"
      BY <3>1, <2>2, <2>3, <2>8
    <3> QED
      BY <3>1, <3>2, <1>7
  <2>9. BranchesDue(p, t, v, g, todo, 1)
    BY <2>7, <2>8 DEF BranchesDue
  <2>10. Matched(p, t, v, todo, 1)
    BY <1>3, <2>2, <2>3, <2>9 DEF Matched
  <2> QED
    BY <1>9, <2>1, <2>5, <2>10 DEF v
<1> QED
  BY <1>8, <1>9

LEMMA DueNow ==
  ASSUME NEW p \in Programs, NEW d, NEW todo, TodoFits(p, todo, d), todo # <<>>,
         NEW c, c = todo[1], NEW x
  PROVE  /\ Due(todo, 1, x) <=> x = c \/ Due(todo, 2, x)
         /\ ~Due(todo, 2, c) /\ c \in DOMAIN p.kind /\ p.parent[c] \in DOMAIN p.kind
         /\ p.parent[c] \in p.ancestors[c]
<1>1. Len(todo) \in Nat \ {0} /\ DOMAIN todo = 1..Len(todo)
  BY TodoFacts
<1>2. 1 \in DOMAIN todo
  BY <1>1
<1>3. \A j \in DOMAIN todo : j = 1 \/ j >= 2
  BY <1>1
<1>4. Due(todo, 1, x) <=> x = c \/ Due(todo, 2, x)
  <2>1. ASSUME Due(todo, 1, x) PROVE x = c \/ Due(todo, 2, x)
    BY <2>1, <1>3 DEF Due
  <2>2. ASSUME x = c \/ Due(todo, 2, x) PROVE Due(todo, 1, x)
    <3>1. \A j \in DOMAIN todo : j >= 1
      BY <1>1
    <3> QED
      BY <2>2, <3>1, <1>2 DEF Due
  <2> QED
    BY <2>1, <2>2
<1>5. ~Due(todo, 2, c)
  <2>1. ASSUME Due(todo, 2, c) PROVE FALSE
    <3>1. \A y, w : Due(todo, 2, y) /\ w = p.parent[y] => y # c
      BY DueLater
    <3> QED
      BY <2>1, <3>1
  <2> QED
    BY <2>1
<1> QED
  BY <1>2, <1>4, <1>5, AboveNext

(* A block is marked: the part of the innermost if changes.                *)
Retops(v, nest, y) ==
  /\ v \in Seq(Parts) /\ Len(v) = Len(nest) /\ v[Len(nest)] = y
  /\ \A i \in 1..Len(nest) : i # Len(nest) => v[i] = nest[i]

LEMMA IfsRetop ==
  ASSUME NEW p, NEW s, NEW nest \in Seq(Parts), nest # <<>>, NEW f, IfsAt(p, s, nest, f),
         NEW y \in Parts, NEW v, v = Append(Front(nest), y)
  PROVE  IfsAt(p, s, v, f) /\ Retops(v, nest, y)
<1>1. PICK h : h = Front(nest)
  OBVIOUS
<1>2. /\ h \in Seq(Parts) /\ Len(nest) \in Nat \ {0} /\ Len(h) = Len(nest) - 1
      /\ \A i \in 1..Len(h) : h[i] = nest[i]
  BY <1>1, FrontIs
<1>3. /\ v \in Seq(Parts) /\ Len(v) = Len(h) + 1 /\ v[Len(h) + 1] = y
      /\ \A i \in 1..Len(h) : v[i] = h[i]
  BY <1>1, <1>2, AppendIs
<1>4. Len(v) = Len(nest) /\ v[Len(nest)] = y
  BY <1>2, <1>3
<1>5. \A i \in 1..Len(nest) : i # Len(nest) => i \in 1..Len(h)
  BY <1>2
<1>6. IfsAt(p, s, v, f)
  BY <1>4 DEF IfsAt
<1> QED
  BY <1>2, <1>3, <1>4, <1>5, <1>6 DEF Retops

(* The if of a block to be marked is on top.                               *)
LEMMA MarkTop ==
  ASSUME NEW p \in Programs, NEW d, NEW todo, TodoFits(p, todo, d), todo # <<>>,
         NEW c, c = todo[1], NEW s \in Seq(DOMAIN p.kind), s # <<>> => s[Len(s)] = p.parent[c],
         NEW nest \in Seq(Parts), NEW f, IfsAt(p, s, nest, f),
         BranchesDue(p, s, nest, f, todo, 1)
  PROVE  /\ Branch(p, c) =>
              /\ nest # <<>> /\ f[Len(nest)] = Len(s)
              /\ nest[Len(nest)] = PartDue(p, todo, 1, p.parent[c])
         /\ \A i \in 1..Len(nest) :
              /\ s[f[i]] \in DOMAIN p.kind /\ p.kind[s[f[i]]] = "If"
              /\ Chained(p, s, f[i], todo) /\ s[f[i]] = p.parent[c] =>
                   i = Len(nest) /\ f[i] = Len(s)
<1>1. /\ Len(s) \in Nat /\ \A k \in 1..Len(s) : s[k] \in DOMAIN p.kind
      /\ Len(nest) \in Nat
  BY LenProperties
<1>2. /\ \A i \in 1..Len(nest) : f[i] \in 1..Len(s) /\ p.kind[s[f[i]]] = "If"
      /\ \A i \in 1..Len(nest), j \in 1..Len(nest) : i < j => f[i] < f[j]
  BY DEF IfsAt
<1>3. ASSUME NEW i \in 1..Len(nest), Chained(p, s, f[i], todo), s[f[i]] = p.parent[c]
      PROVE  i = Len(nest) /\ f[i] = Len(s) /\ nest # <<>>
  <2>1. PICK k \in 1..Len(s) : k = f[i]
    BY <1>2
  <2>2. s # <<>>
    <3>1. s = <<>> => Len(s) = 0
      OBVIOUS
    <3> QED
      BY <3>1, <2>1
  <2>3. k = Len(s)
    BY <1>3, <2>1, <2>2, ChainedTop
  <2>4. i < Len(nest) => f[i] < f[Len(nest)] /\ f[Len(nest)] \in 1..Len(s)
    <3>1. Len(nest) \in 1..Len(nest)
      BY <1>1
    <3> QED
      BY <3>1, <1>2
  <2>5. i = Len(nest)
    BY <2>1, <2>3, <2>4, <1>1
  <2>6. nest # <<>>
    <3>1. nest = <<>> => Len(nest) = 0
      OBVIOUS
    <3> QED
      BY <3>1, <2>5
  <2> QED
    BY <2>1, <2>3, <2>5, <2>6
<1>4. ASSUME Branch(p, c)
      PROVE  /\ nest # <<>> /\ f[Len(nest)] = Len(s)
             /\ nest[Len(nest)] = PartDue(p, todo, 1, p.parent[c])
  <2>1. Due(todo, 1, c) /\ c \in DOMAIN p.kind
    BY DueNow
  <2>2. PICK i \in 1..Len(nest) :
          /\ s[f[i]] = p.parent[c] /\ Chained(p, s, f[i], todo)
          /\ nest[i] = PartDue(p, todo, 1, p.parent[c])
    BY <1>4, <2>1 DEF BranchesDue
  <2> QED
    BY <2>2, <1>3
<1> QED
  BY <1>1, <1>2, <1>3, <1>4
-----------------------------------------------------------------------------
LEMMA PartNow ==
  ASSUME NEW p \in Programs, NEW d, NEW todo, TodoFits(p, todo, d), todo # <<>>,
         NEW c, c = todo[1], NEW w, p.kids[w][2] # c
  PROVE  /\ PartDue(p, todo, 2, w) = PartDue(p, todo, 1, w)
         /\ Due(todo, 1, p.kids[w][2]) => Due(todo, 2, p.kids[w][2])
<1>1. PICK x : x = p.kids[w][2]
  OBVIOUS
<1>2. Due(todo, 1, x) <=> Due(todo, 2, x)
  BY <1>1, DueNow
<1> QED
  BY <1>1, <1>2 DEF PartDue

LEMMA MarkedPart ==
  ASSUME NEW p \in Programs, NEW d, NEW todo, TodoFits(p, todo, d), todo # <<>>,
         NEW c, c = todo[1], NEW s \in Seq(DOMAIN p.kind), s # <<>> => s[Len(s)] = p.parent[c],
         NEW nest \in Seq(Parts), NEW f, IfsAt(p, s, nest, f),
         BranchesDue(p, s, nest, f, todo, 1), Branch(p, c)
  PROVE  nest # <<>> /\ nest[Len(nest)] = PartDue(p, todo, 1, p.parent[c])
BY MarkTop

LEMMA MarkedBlock ==
  ASSUME NEW p \in Programs, NEW d, NEW todo, TodoFits(p, todo, d), todo # <<>>,
         NEW c, c = todo[1], NEW s \in Seq(DOMAIN p.kind), s # <<>> => s[Len(s)] = p.parent[c],
         NEW nest \in Seq(Parts), NEW f, IfsAt(p, s, nest, f),
         BranchesDue(p, s, nest, f, todo, 1), Branch(p, c),
         NEW y \in Parts \ {"cond"}, NEW v, v = Append(Front(nest), y),
         \A x \in DOMAIN p.kind : Due(todo, 2, x) /\ Branch(p, x) /\ p.parent[x] = p.parent[c] =>
           y = PartDue(p, todo, 2, p.parent[c])
  PROVE  Matched(p, s, v, todo, 2)
<1>1. /\ nest # <<>> /\ f[Len(nest)] = Len(s)
      /\ \A i \in 1..Len(nest) :
           /\ s[f[i]] \in DOMAIN p.kind /\ p.kind[s[f[i]]] = "If"
           /\ Chained(p, s, f[i], todo) /\ s[f[i]] = p.parent[c] => i = Len(nest)
  BY MarkTop
<1>2. /\ IfsAt(p, s, v, f) /\ v \in Seq(Parts) /\ Len(v) = Len(nest)
      /\ v[Len(nest)] = y /\ \A i \in 1..Len(nest) : i # Len(nest) => v[i] = nest[i]
  <2>1. y \in Parts /\ nest # <<>>
    BY <1>1
  <2>2. IfsAt(p, s, v, f)
    BY <2>1, IfsRetop
  <2>3. Retops(v, nest, y)
    BY <2>1, IfsRetop
  <2> QED
    BY <2>2, <2>3 DEF Retops
<1>3. ASSUME NEW x \in DOMAIN p.kind, Due(todo, 2, x), Branch(p, x)
      PROVE  \E i \in 1..Len(v) :
               /\ s[f[i]] = p.parent[x] /\ Chained(p, s, f[i], todo)
               /\ v[i] = PartDue(p, todo, 2, p.parent[x])
  <2>1. Due(todo, 1, x)
    BY <1>3, DueNow
  <2>2. PICK i \in 1..Len(nest) :
          /\ s[f[i]] = p.parent[x] /\ Chained(p, s, f[i], todo)
          /\ nest[i] = PartDue(p, todo, 1, p.parent[x])
    BY <1>3, <2>1 DEF BranchesDue
  <2>3. CASE p.parent[x] = p.parent[c]
    <3>1. i = Len(nest)
      BY <2>2, <2>3, <1>1
    <3>2. v[i] = PartDue(p, todo, 2, p.parent[x])
      BY <3>1, <2>3, <1>2, <1>3
    <3> QED
      BY <3>2, <2>2, <1>2
  <2>4. CASE p.parent[x] # p.parent[c]
    <3>1. i # Len(nest)
      <4>1. s # <<>>
        <5>1. s = <<>> => Len(s) = 0 /\ 1..Len(s) = {}
          OBVIOUS
        <5>2. f[i] \in 1..Len(s)
          BY DEF IfsAt
        <5> QED
          BY <5>1, <5>2
      <4> QED
        BY <4>1, <2>2, <2>4, <1>1
    <3>2. PICK w \in DOMAIN p.kind : w = p.parent[x] /\ p.kind[w] = "If"
      BY <2>2, <1>1
    <3>3. p.kids[w][2] # c
      BY <3>2, <2>4, ThenIsBranch
    <3>4. PartDue(p, todo, 2, w) = PartDue(p, todo, 1, w)
      BY <3>3, PartNow
    <3> QED
      BY <3>1, <3>2, <3>4, <2>2, <1>2
  <2> QED
    BY <2>3, <2>4
<1>4. ASSUME NEW i \in 1..Len(v), v[i] = "cond"
      PROVE  Due(todo, 2, p.kids[s[f[i]]][2]) /\ Chained(p, s, f[i], todo)
  <2>1. i \in 1..Len(nest) /\ i # Len(nest)
    BY <1>2, <1>4
  <2>2. Due(todo, 1, p.kids[s[f[i]]][2]) /\ Chained(p, s, f[i], todo)
    BY <2>1, <1>2, <1>4 DEF BranchesDue
  <2>3. PICK w \in DOMAIN p.kind : w = s[f[i]] /\ p.kind[w] = "If" /\ w # p.parent[c]
    BY <2>1, <2>2, <1>1
  <2>4. p.kids[w][2] # c
    BY <2>3, ThenIsBranch
  <2>5. Due(todo, 2, p.kids[w][2])
    BY <2>2, <2>3, <2>4, PartNow
  <2> QED
    BY <2>2, <2>3, <2>5
<1>5. BranchesDue(p, s, v, f, todo, 2)
  BY <1>3, <1>4 DEF BranchesDue
<1> QED
  BY <1>2, <1>5 DEF Matched

ThenOf(p, w, c) == p.kind[w] = "If" /\ c = p.kids[w][2]
ElseOf(p, w, c) ==
  p.kind[w] = "If" /\ c = p.kids[w][Len(p.kids[w])] /\ Len(p.kids[w]) > 2

(* The cursor visited is a then block.                                     *)
LEMMA MatchedThen ==
  ASSUME NEW p \in Programs, NEW d, NEW todo, TodoFits(p, todo, d), todo # <<>>,
         NEW c, c = todo[1], NEW s, s # <<>> => s[Len(s)] = p.parent[c],
         NEW nest, Matched(p, s, nest, todo, 1), ThenOf(p, p.parent[c], c)
  PROVE  /\ nest # <<>> /\ nest[Len(nest)] = "cond"
         /\ Matched(p, s, Append(Front(nest), "then"), todo, 2)
<1>1. s \in Seq(DOMAIN p.kind) /\ nest \in Seq(Parts)
  BY DEF Matched
<1>2. PICK f : IfsAt(p, s, nest, f) /\ BranchesDue(p, s, nest, f, todo, 1)
  BY DEF Matched
<1>3. ~Due(todo, 2, c) /\ p.parent[c] \in DOMAIN p.kind /\ Due(todo, 1, c)
  BY DueNow
<1>4. Branch(p, c)
  <2>1. \A w \in DOMAIN p.kind : ThenOf(p, w, c) => Branch(p, c)
    BY ThenIsBranch DEF ThenOf
  <2> QED
    BY <1>3, <2>1
<1>5. PartDue(p, todo, 1, p.parent[c]) = "cond" /\ PartDue(p, todo, 2, p.parent[c]) = "then"
  BY <1>3 DEF PartDue, ThenOf
<1>6. nest # <<>> /\ nest[Len(nest)] = PartDue(p, todo, 1, p.parent[c])
  BY <1>1, <1>2, <1>4, MarkedPart
<1>7. PICK y \in Parts \ {"cond"} : y = "then"
  BY DEF Parts
<1>8. Matched(p, s, Append(Front(nest), y), todo, 2)
  BY <1>1, <1>2, <1>4, <1>5, <1>7, MarkedBlock
<1> QED
  BY <1>5, <1>6, <1>7, <1>8

LEMMA ElseIsBranch ==
  ASSUME NEW p \in Programs, NEW w \in DOMAIN p.kind, NEW c, ElseOf(p, w, c), w = p.parent[c]
  PROVE  /\ Branch(p, c) /\ c # p.kids[w][2]
         /\ \A m \in DOMAIN p.kids[w], n \in DOMAIN p.kids[w] :
              m < n => p.kids[w][m] # c
         /\ 1 \in DOMAIN p.kids[w] /\ p.kids[w][1] # c
         /\ \E n \in DOMAIN p.kids[w] : n # 1 /\ p.kids[w][n] = c
<1>1. p.kind[w] = "If"
  BY DEF ElseOf
<1>2. PICK n : n = Len(p.kids[w])
  OBVIOUS
<1>3. /\ 1 \in DOMAIN p.kids[w] /\ 2 \in DOMAIN p.kids[w] /\ n \in DOMAIN p.kids[w]
      /\ n \in Nat /\ DOMAIN p.kids[w] = 1..n
  BY <1>1, <1>2, ThenIsBranch
<1>4. c = p.kids[w][n] /\ n > 2
  BY <1>2 DEF ElseOf
<1>5. \A i \in DOMAIN p.kids[w], j \in DOMAIN p.kids[w] : i # j => p.kids[w][i] # p.kids[w][j]
  BY KidsApart
<1>6. \A i \in DOMAIN p.kids[w] : p.kids[w][i] = c => i = n
  BY <1>3, <1>4, <1>5
<1>7. \A m \in DOMAIN p.kids[w], l \in DOMAIN p.kids[w] : m < l => m # n
  BY <1>3
<1>8. 1 # n /\ 2 # n
  BY <1>3, <1>4
<1>9. Branch(p, c)
  BY <1>1, <1>3, <1>6, <1>8 DEF Branch, FirstKid
<1> QED
  BY <1>3, <1>4, <1>6, <1>7, <1>8, <1>9

(* It is an else block: no other block of its if is due.                   *)
LEMMA ElseLast ==
  ASSUME NEW p \in Programs, NEW d, NEW todo, TodoFits(p, todo, d), todo # <<>>,
         NEW c, c = todo[1], ElseOf(p, p.parent[c], c)
  PROVE  \A x : Due(todo, 2, x) => p.parent[x] # p.parent[c]
<1> SUFFICES ASSUME NEW x, Due(todo, 2, x), p.parent[x] = p.parent[c] PROVE FALSE
  OBVIOUS
<1>1. c \in DOMAIN p.kind /\ p.parent[c] \in DOMAIN p.kind
  BY DueNow
<1>2. PICK w \in DOMAIN p.kind : w = p.parent[c]
  BY <1>1
<1>3. ElseOf(p, w, c)
  BY <1>2
<1>4. /\ \A m \in DOMAIN p.kids[w], n \in DOMAIN p.kids[w] : m < n => p.kids[w][m] # c
      /\ \E n \in DOMAIN p.kids[w] : p.kids[w][n] = c
  BY <1>2, <1>3, ElseIsBranch
<1>5. Behind(p, todo[1], x, p.parent[x])
  BY DueBehind
<1>6. PICK m \in DOMAIN p.kids[w], n \in DOMAIN p.kids[w] :
        /\ m < n
        /\ \A l \in DOMAIN p.kids[w] : p.kids[w][l] \in p.ancestors[c] \cup {c} <=> l = m
  BY <1>2, <1>5 DEF Behind
<1>7. PICK l \in DOMAIN p.kids[w] : p.kids[w][l] = c
  BY <1>4
<1>8. l = m
  BY <1>6, <1>7
<1> QED
  BY <1>4, <1>6, <1>7, <1>8

LEMMA MatchedElse ==
  ASSUME NEW p \in Programs, NEW d, NEW todo, TodoFits(p, todo, d), todo # <<>>,
         NEW c, c = todo[1], NEW s, s # <<>> => s[Len(s)] = p.parent[c],
         NEW nest, Matched(p, s, nest, todo, 1), ElseOf(p, p.parent[c], c)
  PROVE  /\ nest # <<>> /\ nest[Len(nest)] = "then"
         /\ Matched(p, s, Append(Front(nest), "else"), todo, 2)
<1>1. s \in Seq(DOMAIN p.kind) /\ nest \in Seq(Parts)
  BY DEF Matched
<1>2. PICK f : IfsAt(p, s, nest, f) /\ BranchesDue(p, s, nest, f, todo, 1)
  BY DEF Matched
<1>3. p.parent[c] \in DOMAIN p.kind
  BY DueNow
<1>4. Branch(p, c) /\ c # p.kids[p.parent[c]][2]
  <2>1. \A w \in DOMAIN p.kind : ElseOf(p, w, c) /\ w = p.parent[c] =>
          Branch(p, c) /\ c # p.kids[w][2]
    BY ElseIsBranch
  <2> QED
    BY <1>3, <2>1
<1>5. \A x : Due(todo, 2, x) => p.parent[x] # p.parent[c]
  BY ElseLast
<1>6. ~Due(todo, 1, p.kids[p.parent[c]][2])
  <2>1. \A w \in DOMAIN p.kind : p.kind[w] = "If" => p.parent[p.kids[w][2]] = w
    BY ThenIsBranch
  <2>2. p.parent[p.kids[p.parent[c]][2]] = p.parent[c]
    BY <1>3, <2>1 DEF ElseOf
  <2>3. PICK x : x = p.kids[p.parent[c]][2]
    OBVIOUS
  <2>4. Due(todo, 1, x) <=> x = c \/ Due(todo, 2, x)
    BY DueNow
  <2> QED
    BY <1>4, <1>5, <2>2, <2>3, <2>4
<1>7. nest # <<>> /\ nest[Len(nest)] = PartDue(p, todo, 1, p.parent[c])
  BY <1>1, <1>2, <1>4, MarkedPart
<1>8. PICK y \in Parts \ {"cond"} : y = "else"
  BY DEF Parts
<1>9. Matched(p, s, Append(Front(nest), y), todo, 2)
  BY <1>1, <1>2, <1>4, <1>5, <1>8, MarkedBlock
<1> QED
  BY <1>6, <1>7, <1>8, <1>9 DEF PartDue

(* It is no then block, and nothing is marked.                             *)
LEMMA MatchedUnmarked ==
  ASSUME NEW p \in Programs, NEW d, NEW todo, TodoFits(p, todo, d), todo # <<>>,
         NEW c, c = todo[1], NEW s, NEW nest, Matched(p, s, nest, todo, 1),
         ~ThenOf(p, p.parent[c], c)
  PROVE  Matched(p, s, nest, todo, 2)
<1>1. s \in Seq(DOMAIN p.kind) /\ nest \in Seq(Parts)
  BY DEF Matched
<1>2. PICK f : IfsAt(p, s, nest, f) /\ BranchesDue(p, s, nest, f, todo, 1)
  BY DEF Matched
<1>3. \A i \in 1..Len(nest) : s[f[i]] \in DOMAIN p.kind /\ p.kind[s[f[i]]] = "If"
  <2>1. \A k \in 1..Len(s) : s[k] \in DOMAIN p.kind
    BY <1>1, LenProperties
  <2> QED
    BY <2>1, <1>2 DEF IfsAt
<1>4. \A w \in DOMAIN p.kind : p.kind[w] = "If" => p.kids[w][2] # c
  BY ThenIsBranch DEF ThenOf
<1>5. ASSUME NEW x \in DOMAIN p.kind, Due(todo, 2, x), Branch(p, x)
      PROVE  \E i \in 1..Len(nest) :
               /\ s[f[i]] = p.parent[x] /\ Chained(p, s, f[i], todo)
               /\ nest[i] = PartDue(p, todo, 2, p.parent[x])
  <2>1. Due(todo, 1, x)
    BY <1>5, DueNow
  <2>2. PICK i \in 1..Len(nest) :
          /\ s[f[i]] = p.parent[x] /\ Chained(p, s, f[i], todo)
          /\ nest[i] = PartDue(p, todo, 1, p.parent[x])
    BY <1>2, <1>5, <2>1 DEF BranchesDue
  <2>3. PICK w \in DOMAIN p.kind : w = p.parent[x] /\ p.kind[w] = "If"
    BY <2>2, <1>3
  <2>4. PartDue(p, todo, 2, w) = PartDue(p, todo, 1, w)
    BY <2>3, <1>4, PartNow
  <2> QED
    BY <2>2, <2>3, <2>4
<1>6. ASSUME NEW i \in 1..Len(nest), nest[i] = "cond"
      PROVE  Due(todo, 2, p.kids[s[f[i]]][2]) /\ Chained(p, s, f[i], todo)
  <2>1. Due(todo, 1, p.kids[s[f[i]]][2]) /\ Chained(p, s, f[i], todo)
    BY <1>2, <1>6 DEF BranchesDue
  <2>2. PICK w \in DOMAIN p.kind : w = s[f[i]] /\ p.kind[w] = "If"
    BY <1>3
  <2>3. Due(todo, 2, p.kids[w][2])
    BY <2>1, <2>2, <1>4, PartNow
  <2> QED
    BY <2>1, <2>2, <2>3
<1>7. BranchesDue(p, s, nest, f, todo, 2)
  BY <1>5, <1>6 DEF BranchesDue
<1> QED
  BY <1>1, <1>2, <1>7 DEF Matched
-----------------------------------------------------------------------------
(* Regular programs                                                        *)

(* No block of an if around a call of an analysed function is due later.   *)
LEMMA CallQuiet ==
  ASSUME NEW p \in Programs, Regular(p), NEW d, NEW todo, TodoFits(p, todo, d),
         NEW c, c = todo[1], p.kind[c] = "Call", p.sym[c] \in DOMAIN p.body \ p.system
  PROVE  NoneDue(p, todo, 2)
<1> SUFFICES ASSUME NEW x \in DOMAIN p.kind, Due(todo, 2, x), Branch(p, x) PROVE FALSE
  BY DEF NoneDue
<1>1. PICK w : w = p.parent[x]
  OBVIOUS
<1>2. /\ c \in DOMAIN p.kind /\ w \in DOMAIN p.kind /\ w \in p.ancestors[c]
      /\ \E m \in DOMAIN p.kids[w], n \in DOMAIN p.kids[w] :
           /\ m < n /\ p.kids[w][n] = x
           /\ \A l \in DOMAIN p.kids[w] : p.kids[w][l] \in p.ancestors[c] \cup {c} <=> l = m
  <2>1. c \in DOMAIN p.kind /\ w \in DOMAIN p.kind /\ w \in p.ancestors[c]
    BY <1>1, DueLater
  <2>2. Behind(p, todo[1], x, p.parent[x])
    BY DueBehind
  <2> QED
    BY <2>1, <2>2, <1>1 DEF Behind
<1>3. PICK m \in DOMAIN p.kids[w], n \in DOMAIN p.kids[w] :
        /\ m < n
        /\ \A l \in DOMAIN p.kids[w] : p.kids[w][l] \in p.ancestors[c] \cup {c} <=> l = m
  BY <1>2
<1>4. p.kind[w] = "If"
  BY <1>1 DEF Branch
<1>5. Last(p.kids[w]) \in p.ancestors[c] \cup {c}
  BY <1>2, <1>4 DEF Regular
<1>6. Len(p.kids[w]) \in DOMAIN p.kids[w] /\ DOMAIN p.kids[w] = 1..Len(p.kids[w]) /\ Len(p.kids[w]) \in Nat
  BY <1>2, <1>4, ThenIsBranch
<1>7. Len(p.kids[w]) = m
  BY <1>3, <1>5, <1>6 DEF Last
<1> QED
  BY <1>3, <1>6, <1>7

LEMMA QuietOn ==
  ASSUME NEW p \in Programs, NEW d, NEW todo, TodoFits(p, todo, d), todo # <<>>,
         NEW c, c = todo[1], p.kind[c] # "If", NEW t, t = After(p, todo), NoneDue(p, todo, 2)
  PROVE  NoneDue(p, t, 1)
<1> SUFFICES ASSUME NEW x \in DOMAIN p.kind, Due(t, 1, x), Branch(p, x) PROVE FALSE
  BY DEF NoneDue
<1>1. p.parent[x] # c
  BY DEF Branch
<1>2. Due(todo, 2, x)
  BY <1>1, DueOn
<1> QED
  BY <1>2 DEF NoneDue

(* An if is not visited in the condition of another.                       *)
LEMMA NotInCondition ==
  ASSUME NEW p \in Programs, Regular(p), NEW d, NEW todo, TodoFits(p, todo, d), todo # <<>>,
         NEW c, c = todo[1], p.kind[c] = "If", NEW s, NEW nest, Matched(p, s, nest, todo, 2),
         nest # <<>>
  PROVE  nest[Len(nest)] # "cond"
<1>1. /\ s \in Seq(DOMAIN p.kind) /\ nest \in Seq(Parts)
  BY DEF Matched
<1>2. Len(nest) \in 1..Len(nest)
  <2>1. Len(nest) \in Nat /\ Len(nest) # 0
    BY <1>1, LenProperties
  <2> QED
    BY <2>1
<1>3. PICK f : IfsAt(p, s, nest, f) /\ BranchesDue(p, s, nest, f, todo, 2)
  BY DEF Matched
<1>4. PICK w : w = s[f[Len(nest)]]
  OBVIOUS
<1>5. w \in DOMAIN p.kind /\ p.kind[w] = "If"
  <2>1. \A k \in 1..Len(s) : s[k] \in DOMAIN p.kind
    BY <1>1, LenProperties
  <2> QED
    BY <2>1, <1>2, <1>3, <1>4 DEF IfsAt
<1>6. ASSUME nest[Len(nest)] = "cond" PROVE FALSE
  <2>1. Due(todo, 2, p.kids[w][2])
    BY <1>2, <1>3, <1>4, <1>6 DEF BranchesDue
  <2>2. /\ w \in p.ancestors[c] /\ c \in DOMAIN p.kind
        /\ \A l \in DOMAIN p.kids[w] : p.kids[w][l] \in p.ancestors[c] \cup {c} <=> l = 1
    BY <1>5, <2>1, InCondition
  <2>3. 1 \in DOMAIN p.kids[w]
    BY <1>5, ThenIsBranch
  <2>4. p.kids[w][1] \notin p.ancestors[c] \cup {c}
    BY <1>5, <2>2 DEF Regular
  <2> QED
    BY <2>2, <2>3, <2>4
<1> QED
  BY <1>6
-----------------------------------------------------------------------------
(* How the footprint of Footprint grows                                    *)

GrowsBy(e) ==
  /\ GrownFootprint' = Append(GrownFootprint, e)
  /\ GrownNesting' = PartAfter(GrownNesting, e)

GrowsNot == UNCHANGED <<GrownFootprint, GrownNesting>>

GrowthTyped ==
  /\ IsSeq(GrownFootprint) /\ GrownNesting \in Seq(Parts)
  /\ Len(GrownNesting) <= Len(GrownFootprint)

(* The bound MaxEntries is not reached.                                    *)
FootprintFits == Len(GrownFootprint) < MaxEntries

TopIn(nest, parts) == nest # <<>> /\ nest[Len(nest)] \in parts

LEMMA NestingIsGrown ==
  /\ GrownNesting = NestingOf(GrownFootprint)
  /\ GrownNesting' = NestingOf(GrownFootprint')
BY DEF GrownNesting, NestingOf

LEMMA GrownSame ==
  ASSUME UNCHANGED <<program, trails>>
  PROVE  GrowsNot
<1>1. GrownFootprint' = GrownFootprint
  BY DEF GrownFootprint
<1> QED
  BY <1>1, NestingIsGrown DEF GrowsNot

LEMMA GrownNone ==
  /\ ~program.regular \/ trails = <<>> => GrownFootprint = <<>> /\ GrownNesting = <<>>
  /\ ~program'.regular => GrownFootprint' = <<>> /\ GrownNesting' = <<>>
<1>1. ~program.regular \/ trails = <<>> => GrownFootprint = <<>>
  BY DEF GrownFootprint
<1>2. ~program'.regular => GrownFootprint' = <<>>
  BY DEF GrownFootprint
<1> QED
  BY <1>1, <1>2, NestingIsGrown, NestingGrows

(* A root is started.                                                      *)
LEMMA GrownStart ==
  ASSUME IsSeq(trails), trails' = Append(trails, <<>>)
  PROVE  GrownFootprint' = <<>> /\ GrownNesting' = <<>>
<1>1. IsSeq(trails') /\ Last(trails') = <<>>
  BY SeqAppend DEF Last
<1>2. GrownFootprint' = <<>>
  <2>1. DOMAIN Last(trails') = {}
    BY <1>1
  <2>2. CASE trails' = <<>> \/ ~program'.regular
    BY <2>2 DEF GrownFootprint
  <2>3. CASE ~(trails' = <<>> \/ ~program'.regular)
    <3>1. GrownFootprint' = [p \in DOMAIN Last(trails') |-> AbstractEntry(Last(trails')[p])]
      BY <2>3 DEF GrownFootprint
    <3> DEFINE G == GrownFootprint'
    <3> HIDE DEF G
    <3>2. G = [p \in {} |-> G[p]]
      BY <2>1, <3>1 DEF G
    <3>3. 1..0 = {} /\ 0 \in Nat
      OBVIOUS
    <3>4. G = [p \in 1..0 |-> G[p]]
      BY <3>2, <3>3
    <3>5. IsSeq(G) /\ Len(G) = 0
      BY <3>3, <3>4, SeqMade
    <3>6. IsSeq(<<>>) /\ Len(<<>>) = 0
      BY NoneIsSeq
    <3>7. \A i \in 1..Len(G) : <<>>[i] = G[i]
      BY <3>5, <3>3
    <3>8. G = <<>>
      BY <3>5, <3>6, <3>7, SameSeq
    <3> QED
      BY <3>8 DEF G
  <2> QED
    BY <2>2, <2>3
<1> QED
  BY <1>2, NestingIsGrown, NestingGrows

(* An entry is pushed.                                                     *)
LEMMA GrownPush ==
  ASSUME TInv, InlineInv, phase = "visit", program.regular, UNCHANGED program,
         NEW E, Push(E)
  PROVE  /\ E = <<>> => GrowsNot
         /\ \A va : Single(E, va) => GrowsBy(AbstractEntry(va))
<1> DEFINE a == trails[next]
           b == trails'[next]
<1>1. /\ IsSeq(trails) /\ Len(trails) = next /\ IsSeq(a) /\ next \in 1..next
      /\ next \in Nat /\ DOMAIN trails = 1..next
  <2>1. IsSeq(trails) /\ Len(trails) = next /\ \A r \in 1..next : IsSeq(trails[r])
    BY DEF InlineInv
  <2>2. next \in Nat /\ next \in 1..next
    BY VisitFacts
  <2> QED
    BY <2>1, <2>2, SeqIs
<1>2. trails' = [trails EXCEPT ![next] = @ \o E]
  BY DEF Push
<1>3. b = a \o E /\ trails' = [r \in 1..next |-> trails'[r]]
  BY <1>1, <1>2
<1> HIDE DEF a
<1>4. Len(trails') = next /\ IsSeq(trails')
  BY <1>1, <1>3, SeqMade
<1>5. trails # <<>> /\ trails' # <<>> /\ Last(trails) = a /\ Last(trails') = b
  <2>1. Len(<<>>) = 0 /\ next # 0
    BY <1>1
  <2> QED
    BY <2>1, <1>1, <1>4 DEF Last, a
<1> HIDE DEF b
<1>6. /\ GrownFootprint = [p \in DOMAIN a |-> AbstractEntry(a[p])]
      /\ GrownFootprint' = [p \in DOMAIN b |-> AbstractEntry(b[p])]
  BY <1>5 DEF GrownFootprint
<1> DEFINE G == GrownFootprint
           H == GrownFootprint'
<1> HIDE DEF G, H
<1>7. IsSeq(G) /\ Len(G) = Len(a) /\ Len(a) \in Nat /\ DOMAIN a = 1..Len(a)
  <2>1. Len(a) \in Nat /\ DOMAIN a = 1..Len(a)
    BY <1>1, SeqIs
  <2>2. G = [p \in 1..Len(a) |-> G[p]]
    BY <2>1, <1>6 DEF G
  <2> QED
    BY <2>1, <2>2, SeqMade
<1>8. ASSUME E = <<>> PROVE GrowsNot
  <2>1. b = a
    BY <1>1, <1>3, <1>8, ConcatNone
  <2>2. GrownFootprint' = GrownFootprint
    BY <2>1, <1>6
  <2> QED
    BY <2>2, NestingIsGrown DEF GrowsNot
<1>9. ASSUME NEW va, Single(E, va) PROVE GrowsBy(AbstractEntry(va))
  <2>1. /\ IsSeq(b) /\ Len(b) = Len(a) + 1 /\ DOMAIN b = 1..(Len(a) + 1)
        /\ b[Len(a) + 1] = va /\ \A p \in 1..Len(a) : b[p] = a[p]
    BY <1>1, <1>3, <1>9, AppendedOne
  <2>2. /\ H = [p \in 1..(Len(a) + 1) |-> H[p]] /\ Len(a) + 1 \in Nat
        /\ Len(a) + 1 \in 1..(Len(a) + 1)
        /\ \A p \in 1..Len(a) : p \in 1..(Len(a) + 1)
    BY <2>1, <1>6, <1>7 DEF H
  <2>3. IsSeq(H) /\ Len(H) = Len(a) + 1
    BY <2>2, SeqMade
  <2>4. H[Len(a) + 1] = AbstractEntry(va)
    BY <2>1, <2>2, <1>6 DEF H
  <2>5. \A p \in 1..Len(a) : H[p] = G[p]
    BY <2>1, <2>2, <1>6, <1>7 DEF G, H
  <2>6. H = Append(G, AbstractEntry(va))
    BY <2>3, <2>4, <2>5, <1>7, IsAppend
  <2>7. NestingOf(H) = PartAfter(NestingOf(G), AbstractEntry(va))
    BY <2>6, <1>7, NestingGrows
  <2>8. GrownNesting = NestingOf(G) /\ GrownNesting' = NestingOf(H)
    BY NestingIsGrown DEF G, H
  <2> QED
    BY <2>6, <2>7, <2>8 DEF GrowsBy, G, H
<1> QED
  BY <1>8, <1>9

LEMMA GrowsTyped ==
  ASSUME GrowthTyped, NEW e, GrowsBy(e),
         e.type \in {"ThenBlock", "ElseStmt"} => GrownNesting # <<>>
  PROVE  GrowthTyped' /\ Len(GrownFootprint') = Len(GrownFootprint) + 1
<1> DEFINE N == GrownNesting
           M == GrownNesting'
<1>1. N \in Seq(Parts) /\ Len(N) \in Nat /\ IsSeq(GrownFootprint) /\ Len(GrownFootprint) \in Nat
  <2>1. N \in Seq(Parts) /\ IsSeq(GrownFootprint)
    BY DEF GrowthTyped
  <2> QED
    BY <2>1, SeqIs, LenProperties
<1>2. IsSeq(GrownFootprint') /\ Len(GrownFootprint') = Len(GrownFootprint) + 1
  BY <1>1, SeqAppend DEF GrowsBy
<1>3. M = PartAfter(N, e)
  BY DEF GrowsBy
<1>4. e.type \in {"ThenBlock", "ElseStmt"} => N # <<>>
  OBVIOUS
<1> HIDE DEF N, M
<1>5. /\ \A x \in Parts : Append(N, x) \in Seq(Parts) /\ Len(Append(N, x)) = Len(N) + 1
      /\ N # <<>> => /\ Front(N) \in Seq(Parts) /\ Len(Front(N)) = Len(N) - 1
                     /\ \A x \in Parts : /\ Append(Front(N), x) \in Seq(Parts)
                                         /\ Len(Append(Front(N), x)) = Len(N)
  <2>1. \A x \in Parts : Append(N, x) \in Seq(Parts) /\ Len(Append(N, x)) = Len(N) + 1
    BY <1>1, AppendProperties
  <2>2. ASSUME N # <<>>, NEW h, h = Front(N)
        PROVE  /\ h \in Seq(Parts) /\ Len(h) = Len(N) - 1
               /\ \A x \in Parts : Append(h, x) \in Seq(Parts) /\ Len(Append(h, x)) = Len(N)
    <3>1. h \in Seq(Parts) /\ Len(h) = Len(N) - 1
      BY <2>2, <1>1, FrontIs
    <3>2. \A x \in Parts : Append(h, x) \in Seq(Parts) /\ Len(Append(h, x)) = Len(h) + 1
      BY <3>1, AppendProperties
    <3> QED
      BY <3>1, <3>2, <1>1
  <2> QED
    BY <2>1, <2>2
<1>6. "cond" \in Parts /\ "then" \in Parts /\ "else" \in Parts
  BY DEF Parts
<1>7. M \in Seq(Parts) /\ Len(M) <= Len(N) + 1
  <2>1. CASE e.type = "IfStmt"
    <3>1. M = Append(N, "cond")
      BY <2>1, <1>3 DEF PartAfter
    <3> QED
      BY <3>1, <1>1, <1>5, <1>6
  <2>2. CASE e.type = "ThenBlock"
    <3>1. M = Append(Front(N), "then")
      BY <2>2, <1>3 DEF PartAfter
    <3>2. M \in Seq(Parts) /\ Len(M) = Len(N)
      BY <3>1, <2>2, <1>4, <1>5, <1>6
    <3> QED
      BY <3>2, <1>1
  <2>3. CASE e.type = "ElseStmt"
    <3>1. M = Append(Front(N), "else")
      BY <2>3, <1>3 DEF PartAfter
    <3>2. M \in Seq(Parts) /\ Len(M) = Len(N)
      BY <3>1, <2>3, <1>4, <1>5, <1>6
    <3> QED
      BY <3>2, <1>1
  <2>4. CASE e.type = "EndIf" /\ N # <<>>
    <3>1. M = Front(N)
      BY <2>4, <1>3 DEF PartAfter
    <3>2. M \in Seq(Parts) /\ Len(M) = Len(N) - 1
      BY <3>1, <2>4, <1>5
    <3> QED
      BY <3>2, <1>1
  <2>5. CASE ~(e.type = "EndIf" /\ N # <<>>) /\ e.type \notin {"IfStmt", "ThenBlock", "ElseStmt"}
    <3>1. M = N
      BY <2>5, <1>3 DEF PartAfter
    <3> QED
      BY <3>1, <1>1
  <2> QED
    BY <2>1, <2>2, <2>3, <2>4, <2>5
<1>8. Len(N) <= Len(GrownFootprint)
  BY DEF GrowthTyped, N
<1>9. Len(M) \in Nat
  BY <1>7, LenProperties
<1>10. Len(M) <= Len(GrownFootprint')
  BY <1>1, <1>2, <1>7, <1>8, <1>9
<1> QED
  BY <1>2, <1>7, <1>10 DEF GrowthTyped, M
-----------------------------------------------------------------------------
(* The entries Footprint has a step for                                    *)

Ends(fp) == \A p \in 1..Len(fp) : fp[p] = F!Marker("EndIf")

Allowed(e, nest, fp) ==
  \/ e = [type |-> "Access", usr |-> "variable"]
  \/ e = [type |-> "LockAcquire", usr |-> "lock"]
  \/ e = [type |-> "LockRelease", usr |-> "lock"]
  \/ e = F!Marker("IfStmt") /\ ~TopIn(nest, {"cond"})
  \/ e = F!Marker("ThenBlock") /\ TopIn(nest, {"cond"})
  \/ e = F!Marker("ElseStmt") /\ TopIn(nest, {"then"})
  \/ e = F!Marker("EndIf") /\ TopIn(nest, {"then", "else"})
  \/ e = F!Marker("EndIf") /\ nest = <<>> /\ Ends(fp)

LEMMA Retopped ==
  ASSUME NEW s \in Seq(Parts), s # <<>>, NEW y \in Parts
  PROVE  Append(Front(s), y) = [s EXCEPT ![Len(s)] = y]
<1> DEFINE h == Front(s)
           t == Append(h, y)
           u == [s EXCEPT ![Len(s)] = y]
<1>1. /\ h \in Seq(Parts) /\ Len(s) \in Nat \ {0} /\ Len(h) = Len(s) - 1 /\ Len(h) \in Nat
      /\ \A i \in 1..Len(h) : h[i] = s[i]
  BY FrontIs
<1> HIDE DEF h
<1>2. /\ t \in Seq(Parts) /\ Len(t) = Len(s) /\ t[Len(s)] = y /\ \A i \in 1..Len(h) : t[i] = h[i]
  <2>1. /\ t \in Seq(Parts) /\ Len(t) = Len(h) + 1 /\ t[Len(t)] = y
        /\ \A i \in 1..Len(h) : t[i] = h[i]
    BY <1>1, AppendIs
  <2> QED
    BY <2>1, <1>1
<1> HIDE DEF t
<1>3. Len(s) \in 1..Len(s)
  BY <1>1
<1>4. /\ u \in Seq(Parts) /\ Len(u) = Len(s)
      /\ \A i \in 1..Len(s) : u[i] = IF i = Len(s) THEN y ELSE s[i]
  BY <1>3, ExceptSeq
<1> HIDE DEF u
<1>5. \A i \in 1..Len(s) : t[i] = u[i]
  <2>1. \A i \in 1..Len(s) : i = Len(s) \/ i \in 1..Len(h)
    BY <1>1
  <2> QED
    BY <2>1, <1>1, <1>2, <1>4
<1>6. IsSeq(t) /\ IsSeq(u)
  BY <1>2, <1>4, SeqTyped
<1>7. t = u
  BY <1>2, <1>4, <1>5, <1>6, SameSeq
<1> QED
  BY <1>7 DEF t, u, h

(* Each is a step of Footprint.                                            *)
LEMMA Emits ==
  ASSUME GrowthTyped, FootprintFits, FootprintFits', NEW e, GrowsBy(e),
         Allowed(e, GrownNesting, GrownFootprint)
  PROVE  GrowthTyped' /\ F!FootprintNext
<1> DEFINE N == GrownNesting
           G == GrownFootprint
<1>1. e.type \in {"ThenBlock", "ElseStmt"} => N # <<>>
  BY DEF Allowed, TopIn, F!Marker
<1>2. GrowthTyped' /\ Len(G') = Len(G) + 1
  BY <1>1, GrowsTyped
<1>3. /\ N \in Seq(Parts) /\ Len(N) \in Nat /\ Len(G) \in Nat /\ MaxEntries \in Nat
      /\ Len(N) <= Len(G)
  BY SeqIs, LenProperties, MaxEntriesAssumption DEF GrowthTyped
<1>4. Len(G) + 1 < MaxEntries /\ Len(N) < MaxEntries /\ Len(G) < MaxEntries
  BY <1>2, <1>3 DEF FootprintFits
<1>5. G' = Append(G, e) /\ N' = PartAfter(N, e)
  BY DEF GrowsBy
<1>6. Len(G) + F!Reserve(N) < MaxEntries
  BY <1>3, <1>4 DEF F!Reserve
<1> HIDE DEF G, N
<1>7. ASSUME NEW nest, F!Reserve(nest) = 0 \/ nest = N, N' = nest PROVE F!push_var_access(e, nest)
  BY <1>3, <1>4, <1>5, <1>6, <1>7 DEF F!push_var_access, G, N
<1>8. CASE e = [type |-> "Access", usr |-> "variable"]
  <2>1. N' = N
    BY <1>5, <1>8 DEF PartAfter
  <2>2. F!EmitAccess("variable")
    BY <1>7, <1>8, <2>1 DEF F!EmitAccess, N
  <2> QED
    BY <1>2, <2>2 DEF F!FootprintNext
<1>9. CASE e \in {[type |-> "LockAcquire", usr |-> "lock"], [type |-> "LockRelease", usr |-> "lock"]}
  <2>1. N' = N
    BY <1>5, <1>9 DEF PartAfter
  <2>2. F!EmitLockCall("LockAcquire", "lock") \/ F!EmitLockCall("LockRelease", "lock")
    BY <1>7, <1>9, <2>1 DEF F!EmitLockCall, N
  <2> QED
    BY <1>2, <2>2 DEF F!FootprintNext, F!LockCalls
<1>10. CASE e = F!Marker("IfStmt") /\ ~TopIn(N, {"cond"})
  <2>1. N' = Append(N, "cond") /\ ~F!InPart({"cond"})
    BY <1>5, <1>10 DEF PartAfter, F!Marker, TopIn, F!InPart, F!Top, N
  <2>2. F!push_var_access(e, Append(N, "cond"))
    <3>1. G' = Append(G, e) /\ N' = Append(N, "cond")
      BY <2>1, <1>5
    <3>2. F!Reserve(Append(N, "cond")) \in {0, 1}
      BY DEF F!Reserve
    <3>3. Len(G) + F!Reserve(Append(N, "cond")) < MaxEntries
      BY <3>2, <1>3, <1>4
    <3> QED
      BY <3>1, <3>3 DEF F!push_var_access, G, N
  <2>3. F!EmitIfStmt
    BY <2>1, <2>2, <1>4, <1>10 DEF F!EmitIfStmt, N
  <2> QED
    BY <1>2, <2>3 DEF F!FootprintNext
<1>11. ASSUME NEW nest, N' = nest PROVE F!push_var_access(e, nest)
  <2>1. F!Reserve(nest) \in {0, 1}
    BY DEF F!Reserve
  <2>2. Len(G) + F!Reserve(nest) < MaxEntries
    BY <2>1, <1>3, <1>4
  <2> QED
    BY <2>2, <1>5, <1>11 DEF F!push_var_access, G, N
<1>12. CASE e = F!Marker("ThenBlock") /\ TopIn(N, {"cond"})
  <2>1. N # <<>> /\ N' = Append(Front(N), "then") /\ F!InPart({"cond"})
    BY <1>5, <1>12 DEF PartAfter, F!Marker, TopIn, F!InPart, F!Top, N
  <2>2. N' = F!SetTop("then")
    BY <2>1, <1>3, Retopped DEF F!SetTop, N, Parts
  <2>3. F!EmitThenBlock
    BY <2>1, <2>2, <1>11, <1>12 DEF F!EmitThenBlock
  <2> QED
    BY <1>2, <2>3 DEF F!FootprintNext
<1>13. CASE e = F!Marker("ElseStmt") /\ TopIn(N, {"then"})
  <2>1. N # <<>> /\ N' = Append(Front(N), "else") /\ F!InPart({"then"})
    BY <1>5, <1>13 DEF PartAfter, F!Marker, TopIn, F!InPart, F!Top, N
  <2>2. N' = F!SetTop("else")
    BY <2>1, <1>3, Retopped DEF F!SetTop, N, Parts
  <2>3. F!EmitElseStmt
    BY <2>1, <2>2, <1>11, <1>13 DEF F!EmitElseStmt
  <2> QED
    BY <1>2, <2>3 DEF F!FootprintNext
<1>14. CASE e = F!Marker("EndIf") /\ TopIn(N, {"then", "else"})
  <2>1. N # <<>> /\ N' = Front(N) /\ F!InPart({"then", "else"})
    BY <1>5, <1>14 DEF PartAfter, F!Marker, TopIn, F!InPart, F!Top, N
  <2>2. N' = F!PopTop
    BY <2>1 DEF F!PopTop, Front, N
  <2>3. F!EmitEndIf
    BY <2>1, <2>2, <1>11, <1>14 DEF F!EmitEndIf
  <2> QED
    BY <1>2, <2>3 DEF F!FootprintNext
<1>15. CASE e = F!Marker("EndIf") /\ N = <<>> /\ Ends(G)
  <2>1. N' = N
    BY <1>5, <1>15 DEF PartAfter, F!Marker
  <2>2. F!EmitStrayEndIf
    BY <2>1, <1>4, <1>11, <1>15 DEF F!EmitStrayEndIf, Ends, G, N
  <2> QED
    BY <1>2, <2>2 DEF F!FootprintNext
<1> QED
  BY <1>8, <1>9, <1>10, <1>12, <1>13, <1>14, <1>15 DEF Allowed, G, N

LEMMA AbstractMarker ==
  ASSUME NEW t \in {"IfStmt", "ThenBlock", "ElseStmt", "EndIf"}
  PROVE  AbstractEntry(Marker(t)) = F!Marker(t)
<1>1. Placeholder(Marker(t)) /\ Marker(t).type = t
  BY DEF Placeholder, Marker, VarAccess
<1> QED
  BY <1>1 DEF AbstractEntry, F!Marker, F!NoUsr

LEMMA AbstractAccess ==
  ASSUME NEW va, ~Placeholder(va), NEW nest, NEW fp
  PROVE  /\ Allowed(AbstractEntry(va), nest, fp)
         /\ PartAfter(nest, AbstractEntry(va)) = nest
<1> DEFINE lock == IF va.idx = 0 THEN lock_primitive_type(va.esc) ELSE "Null"
<1>1. lock \in {"Null", "LockAcquire", "LockRelease"}
  BY DEF lock_primitive_type
<1>2. AbstractEntry(va) = IF lock = "Null" THEN [type |-> "Access", usr |-> "variable"]
                          ELSE [type |-> lock, usr |-> "lock"]
  BY DEF AbstractEntry
<1> HIDE DEF lock
<1>3. AbstractEntry(va) \in {[type |-> "Access", usr |-> "variable"],
        [type |-> "LockAcquire", usr |-> "lock"], [type |-> "LockRelease", usr |-> "lock"]}
  BY <1>1, <1>2
<1> QED
  BY <1>3 DEF Allowed, PartAfter
-----------------------------------------------------------------------------
(* The stack that the next cursor is marked on: its parent is on it        *)

Entering == step = "arrive" /\ Top.todo # <<>> /\ Descends
Entered == IF Entering THEN Append(ancestry_stack, Parent(Here)) ELSE ancestry_stack
Unmarked == IF step = "cursor" THEN 2 ELSE 1

NestMatched == Matched(program, Entered, GrownNesting, Top.todo, Unmarked)

(* Only ifs that an earlier root left open have been ended.                *)
StrayEnds ==
  /\ step = "arrive" /\ Len(frames) = 1 /\ GrownNesting = <<>> /\ Ends(GrownFootprint)
  /\ Fresh(program, ancestry_stack, last_visited, Top.todo, Body(current))

(* The functions that wait for a call to return have no block to mark.     *)
QuietBelow == \A m \in 1..(Len(frames) - 1) : NoneDue(program, frames[m].todo, 1)

NestGood ==
  /\ QuietBelow
  /\ tracking => StrayEnds \/ NestMatched
  /\ ~tracking => GrownNesting = <<>>

NestInv == GrowthTyped /\ (phase = "visit" /\ program.regular => NestGood)

Growing == GrowthTyped' /\ (F!FootprintNext \/ NextRoot \/ GrowsNot)

LEMMA GrowsNone ==
  ASSUME GrowthTyped, GrowsNot
  PROVE  Growing /\ GrownNesting' = GrownNesting /\ GrownFootprint' = GrownFootprint
BY DEF GrowthTyped, GrowsNot, Growing

(* A push is a step of Footprint, if it has one.                           *)
LEMMA PushGrowing ==
  ASSUME TInv, InlineInv, phase = "visit", program.regular, UNCHANGED program,
         GrowthTyped, FootprintFits, FootprintFits', NEW E, Push(E)
  PROVE  /\ E = <<>> =>
              Growing /\ GrownNesting' = GrownNesting /\ GrownFootprint' = GrownFootprint
         /\ \A va : Single(E, va) /\ Allowed(AbstractEntry(va), GrownNesting, GrownFootprint) =>
              Growing /\ GrowsBy(AbstractEntry(va))
<1>1. ASSUME E = <<>>
      PROVE  Growing /\ GrownNesting' = GrownNesting /\ GrownFootprint' = GrownFootprint
  <2>1. GrowsNot
    BY <1>1, GrownPush
  <2> QED
    BY <2>1, GrowsNone
<1>2. ASSUME NEW va, Single(E, va), Allowed(AbstractEntry(va), GrownNesting, GrownFootprint)
      PROVE  Growing /\ GrowsBy(AbstractEntry(va))
  <2>1. GrowsBy(AbstractEntry(va))
    BY <1>2, GrownPush
  <2>2. GrowthTyped' /\ F!FootprintNext
    BY <1>2, <2>1, Emits
  <2> QED
    BY <2>1, <2>2 DEF Growing
<1> QED
  BY <1>1, <1>2

LEMMA MarkerGrowing ==
  ASSUME TInv, InlineInv, phase = "visit", program.regular, UNCHANGED program,
         GrowthTyped, FootprintFits, FootprintFits',
         NEW t \in {"IfStmt", "ThenBlock", "ElseStmt", "EndIf"},
         NEW E, Push(E), E = <<Marker(t)>>,
         Allowed(F!Marker(t), GrownNesting, GrownFootprint)
  PROVE  Growing /\ GrowsBy(F!Marker(t))
<1>1. AbstractEntry(Marker(t)) = F!Marker(t)
  BY AbstractMarker
<1>2. Single(E, Marker(t))
  BY DEF Single
<1>3. Growing /\ GrowsBy(AbstractEntry(Marker(t)))
  BY <1>1, <1>2, PushGrowing
<1> QED
  BY <1>1, <1>3

(* Where no if is on the stack and no block is due.                        *)
LEMMA MatchedNoIfs ==
  ASSUME NEW p, NEW s \in Seq(DOMAIN p.kind), \A k \in 1..Len(s) : p.kind[s[k]] # "If",
         NEW todo, NEW q, NoneDue(p, todo, q)
  PROVE  Matched(p, s, <<>>, todo, q)
<1> DEFINE f == [i \in {} |-> 1]
<1>1. <<>> \in Seq(Parts) /\ Len(<<>>) = 0 /\ 1..0 = {}
  OBVIOUS
<1>2. f \in [1..Len(<<>>) -> 1..Len(s)]
  BY <1>1
<1> HIDE DEF f
<1>3. IfsAt(p, s, <<>>, f)
  BY <1>1, <1>2 DEF IfsAt
<1> QED
  BY <1>1, <1>3, MatchedQuiet

LEMMA FreshQuiet ==
  ASSUME NEW p, NEW todo, NEW d, p.kind[d] = "Func", \A j \in DOMAIN todo : p.parent[todo[j]] = d,
         NEW q
  PROVE  NoneDue(p, todo, q)
BY DEF NoneDue, Due, Branch
-----------------------------------------------------------------------------
(* Unwinding                                                               *)

(* Where the visitor is about to place a cursor of the root on the stack.  *)
LEMMA StrayStack ==
  ASSUME TInv, WalkInv, phase = "visit", Top.todo # <<>>, StrayEnds
  PROVE  /\ NoneDue(program, Top.todo, 1) /\ GrownNesting = <<>> /\ Parent(Here) = Body(current)
         /\ Parent(Parent(Here)) = NoCursor /\ Kind(Parent(Here)) = "Func"
         /\ Parent(Here) \in DOMAIN program.kind
         /\ last_visited # Parent(Here) /\ (last_visited = NoCursor => ancestry_stack = <<>>)
<1>1. FramesFit
  BY DEF WalkInv
<1>2. /\ program \in Programs /\ 1 \in DOMAIN Top.todo /\ Here = Top.todo[1]
      /\ infos[current].fn \in DOMAIN program.body
  BY <1>1, WalkFacts
<1>3. /\ Body(current) \in DOMAIN program.kind /\ program.kind[Body(current)] = "Func"
      /\ program.parent[Body(current)] = NoCursor /\ NoCursor \notin DOMAIN program.kind
  BY <1>2, SyntaxFacts, TreeFacts DEF Body
<1>4. /\ \A j \in DOMAIN Top.todo : program.parent[Top.todo[j]] = Body(current)
      /\ last_visited = NoCursor => ancestry_stack = <<>>
      /\ last_visited # NoCursor => program.parent[last_visited] # NoCursor
      /\ GrownNesting = <<>>
  BY DEF StrayEnds, Fresh
<1>5. NoneDue(program, Top.todo, 1)
  BY <1>3, <1>4, FreshQuiet
<1> QED
  BY <1>2, <1>3, <1>4, <1>5 DEF Parent, Kind

LEMMA TopSame ==
  ASSUME UNCHANGED frames
  PROVE  Top' = Top /\ Here' = Here
BY DEF Top, Here

LEMMA AtArrival ==
  ASSUME TInv, WalkInv, AtCursor("arrive")
  PROVE  /\ program \in Programs /\ phase = "visit" /\ Top.todo # <<>> /\ step = "arrive"
         /\ TodoFits(program, Top.todo, Body(current))
         /\ Here = Top.todo[1]
         /\ StackGood(program, ancestry_stack)
         /\ ancestry_stack \in Seq(DOMAIN program.kind)
<1>1. phase = "visit" /\ Top.todo # <<>> /\ step = "arrive" /\ FramesFit /\ StackFits
  BY DEF WalkInv, AtCursor
<1>3. program \in Programs /\ NoCursor \notin DOMAIN program.kind
  BY <1>1, WalkFacts, TreeFacts
<1>5. TodoFits(program, Top.todo, Body(current)) /\ Here = Top.todo[1]
  BY <1>1, WalkFacts
<1>6. StackGood(program, ancestry_stack) /\ ancestry_stack \in Seq(DOMAIN program.kind)
  BY <1>1 DEF StackFits, StackGood
<1> QED
  BY <1>1, <1>3, <1>5, <1>6

LEMMA NestParent ==
  ASSUME TInv, WalkInv, GrowthTyped, NestGood, program.regular, PushParent
  PROVE  Growing /\ NestGood'
<1>1. /\ AtCursor("arrive") /\ Descends /\ step' = "branch"
      /\ ancestry_stack' = Append(ancestry_stack, Parent(Here))
      /\ UNCHANGED <<program, tracking, trails>> /\ UNCHANGED frames
  BY DEF PushParent
<1>2. /\ program \in Programs /\ phase = "visit" /\ Top.todo # <<>> /\ step = "arrive"
      /\ TodoFits(program, Top.todo, Body(current)) /\ Top' = Top
  BY <1>1, AtArrival, TopSame
<1>3. Growing /\ GrownNesting' = GrownNesting
  BY <1>1, GrownSame, GrowsNone
<1>4. Entered = ancestry_stack' /\ Entered' = ancestry_stack' /\ Unmarked = 1 /\ Unmarked' = 1
  BY <1>1, <1>2 DEF Entered, Entering, Unmarked
<1>5. QuietBelow'
  BY <1>1 DEF NestGood, QuietBelow
<1>6. ASSUME tracking PROVE NestMatched'
  <2>1. CASE NestMatched
    BY <2>1, <1>1, <1>2, <1>3, <1>4 DEF NestMatched
  <2>2. CASE StrayEnds
    <3>1. /\ NoneDue(program, Top.todo, 1) /\ GrownNesting = <<>> /\ Kind(Parent(Here)) = "Func"
          /\ Parent(Here) \in DOMAIN program.kind /\ ancestry_stack = <<>>
      BY <2>2, <1>1, <1>2, StrayStack DEF Descends
    <3> DEFINE d == Parent(Here)
    <3> HIDE DEF d
    <3>2. ancestry_stack' = <<d>>
      BY <3>1, <1>1 DEF d
    <3>3. PICK u : u = <<d>>
      OBVIOUS
    <3>4. d \in DOMAIN program.kind /\ program.kind[d] # "If"
      BY <3>1 DEF Kind, d
    <3>5. u \in Seq(DOMAIN program.kind) /\ Len(u) = 1 /\ u[1] = d
      <4>1. \A S : d \in S => <<d>> \in Seq(S)
        OBVIOUS
      <4>3. u \in Seq(DOMAIN program.kind)
        BY <3>3, <3>4, <4>1
      <4>2. Len(u) = 1 /\ u[1] = d
        BY <3>3
      <4> QED
        BY <4>2, <4>3
    <3>6. \A k \in 1..Len(u) : program.kind[u[k]] # "If"
      BY <3>4, <3>5
    <3>7. Matched(program, u, <<>>, Top.todo, 1)
      BY <3>1, <3>5, <3>6, MatchedNoIfs
    <3> QED
      BY <3>1, <3>2, <3>3, <3>7, <1>1, <1>2, <1>3, <1>4 DEF NestMatched
  <2> QED
    BY <2>1, <2>2, <1>6 DEF NestGood
<1>7. ~tracking => GrownNesting' = <<>>
  BY <1>3 DEF NestGood
<1> QED
  BY <1>1, <1>3, <1>5, <1>6, <1>7 DEF NestGood

LEMMA NestSettle ==
  ASSUME TInv, WalkInv, GrowthTyped, NestGood, program.regular, Settle
  PROVE  Growing /\ NestGood'
<1>1. /\ AtCursor("arrive") /\ ~Descends /\ Settled /\ step' = "branch"
      /\ UNCHANGED <<program, tracking, trails, ancestry_stack>> /\ UNCHANGED frames
  BY DEF Settle
<1>2. /\ program \in Programs /\ phase = "visit" /\ Top.todo # <<>> /\ step = "arrive"
      /\ Top' = Top /\ StackGood(program, ancestry_stack)
      /\ ancestry_stack \in Seq(DOMAIN program.kind)
  BY <1>1, AtArrival, TopSame
<1>3. Growing /\ GrownNesting' = GrownNesting
  BY <1>1, GrownSame, GrowsNone
<1>4. Entered = ancestry_stack /\ Entered' = ancestry_stack /\ Unmarked = 1 /\ Unmarked' = 1
  BY <1>1, <1>2 DEF Entered, Entering, Unmarked
<1>5. QuietBelow'
  BY <1>1 DEF NestGood, QuietBelow
<1>6. ASSUME tracking PROVE NestMatched'
  <2>1. CASE NestMatched
    BY <2>1, <1>1, <1>2, <1>3, <1>4 DEF NestMatched
  <2>2. CASE StrayEnds
    <3>1. /\ NoneDue(program, Top.todo, 1) /\ GrownNesting = <<>> /\ Kind(Parent(Here)) = "Func"
          /\ Parent(Here) \in DOMAIN program.kind /\ Parent(Parent(Here)) = NoCursor
      BY <2>2, <1>1, <1>2, StrayStack
    <3> DEFINE d == Parent(Here)
               s == ancestry_stack
    <3>2. s # <<>> => s[Len(s)] = d
      BY <1>1 DEF Settled, Last
    <3> HIDE DEF d, s
    <3>3. /\ s \in Seq(DOMAIN program.kind) /\ Len(s) \in Nat /\ (s # <<>> => Len(s) # 0)
          /\ \A k \in 1..Len(s) : program.parent[s[k]] = NoCursor => k = 1
      BY <1>2, LenProperties DEF StackGood, s
    <3>4. \A k \in 1..Len(s) : s[k] = d
      <4>1. CASE s = <<>>
        BY <4>1
      <4>2. CASE s # <<>>
        <5>1. Len(s) \in 1..Len(s) /\ program.parent[s[Len(s)]] = NoCursor
          BY <4>2, <3>1, <3>2, <3>3 DEF Parent, d
        <5>2. Len(s) = 1
          BY <5>1, <3>3
        <5> QED
          BY <5>2, <4>2, <3>2
      <4> QED
        BY <4>1, <4>2
    <3>5. \A k \in 1..Len(s) : program.kind[s[k]] # "If"
      BY <3>1, <3>4 DEF Kind, d
    <3>6. Matched(program, s, <<>>, Top.todo, 1)
      BY <3>1, <3>3, <3>5, MatchedNoIfs
    <3> QED
      BY <3>1, <3>6, <1>1, <1>2, <1>3, <1>4 DEF NestMatched, s
  <2> QED
    BY <2>1, <2>2, <1>6 DEF NestGood
<1>7. ~tracking => GrownNesting' = <<>>
  BY <1>3 DEF NestGood
<1> QED
  BY <1>1, <1>3, <1>5, <1>6, <1>7 DEF NestGood
-----------------------------------------------------------------------------
LEMMA PoppedNest ==
  ASSUME NEW t \in {"IfStmt", "ThenBlock", "ElseStmt", "EndIf"}, GrowsBy(F!Marker(t))
  PROVE  /\ t = "IfStmt" => GrownNesting' = Append(GrownNesting, "cond")
         /\ t = "ThenBlock" => GrownNesting' = Append(Front(GrownNesting), "then")
         /\ t = "ElseStmt" => GrownNesting' = Append(Front(GrownNesting), "else")
         /\ t = "EndIf" /\ GrownNesting # <<>> => GrownNesting' = Front(GrownNesting)
         /\ t = "EndIf" /\ GrownNesting = <<>> => GrownNesting' = GrownNesting
         /\ GrownFootprint' = Append(GrownFootprint, F!Marker(t))
<1>1. F!Marker(t).type = t
  BY DEF F!Marker
<1> QED
  BY <1>1 DEF GrowsBy, PartAfter

LEMMA EndsGrow ==
  ASSUME GrowthTyped, Ends(GrownFootprint),
         GrownFootprint' = Append(GrownFootprint, F!Marker("EndIf"))
  PROVE  Ends(GrownFootprint')
<1> DEFINE G == GrownFootprint
           H == GrownFootprint'
           e == F!Marker("EndIf")
<1> HIDE DEF e
<1>1. IsSeq(G) /\ H = Append(G, e)
  BY DEF GrowthTyped, e
<1> HIDE DEF G, H
<1>2. /\ Len(H) = Len(G) + 1 /\ H[Len(G) + 1] = e /\ Len(G) \in Nat
      /\ \A i \in 1..Len(G) : H[i] = G[i]
  BY <1>1, SeqAppend, SeqIs
<1>3. \A i \in 1..Len(G) : G[i] = e
  BY DEF Ends, G, e
<1>4. \A i \in 1..Len(H) : H[i] = e
  BY <1>2, <1>3
<1> QED
  BY <1>4 DEF Ends, H, e

(* The cursor on top is not above the next one, and is popped.             *)
LEMMA NestPop ==
  ASSUME TInv, WalkInv, InlineInv, GrowthTyped, FootprintFits, FootprintFits',
         NestGood, program.regular, PopAncestor
  PROVE  Growing /\ NestGood'
<1> DEFINE s == ancestry_stack
           N == GrownNesting
           E == Ended(Last(s))
<1>1. /\ AtCursor("arrive") /\ ~Descends /\ ~Settled /\ Push(E) /\ s' = Front(s)
      /\ UNCHANGED <<program, tracking, step, last_visited, current>> /\ UNCHANGED frames
  BY DEF PopAncestor
<1>2. /\ program \in Programs /\ phase = "visit" /\ Top.todo # <<>> /\ step = "arrive"
      /\ TodoFits(program, Top.todo, Body(current)) /\ Here = Top.todo[1]
      /\ s \in Seq(DOMAIN program.kind)
  BY <1>1, AtArrival
<1>3. Top' = Top /\ Here' = Here /\ Descends' = Descends
  BY <1>1, TopSame DEF Descends, Parent
<1>4. /\ s # <<>> /\ Last(s) = s[Len(s)] /\ s[Len(s)] # program.parent[Top.todo[1]]
      /\ last_visited # NoCursor
  BY <1>1, <1>2 DEF Settled, Last, Parent, Descends
<1>5. /\ Entered = s /\ Entered' = s' /\ Unmarked = 1 /\ Unmarked' = 1
  BY <1>1, <1>2, <1>3 DEF Entered, Entering, Unmarked
<1>6. QuietBelow'
  BY <1>1 DEF NestGood, QuietBelow
<1>7. tracking \in BOOLEAN
  BY DEF TInv, ScalarsGood
<1> DEFINE ends == tracking /\ program.kind[s[Len(s)]] = "If"
<1>8. /\ ends => E = <<Marker("EndIf")>>
      /\ ~ends => E = <<>>
  BY <1>4, <1>7 DEF Ended, When, Kind
<1> HIDE DEF E
<1>9. ASSUME ~ends
      PROVE  Growing /\ N' = N /\ GrownFootprint' = GrownFootprint
  BY <1>1, <1>2, <1>8, <1>9, PushGrowing
<1>10. ASSUME ends, Allowed(F!Marker("EndIf"), N, GrownFootprint)
       PROVE  Growing /\ GrowsBy(F!Marker("EndIf"))
  BY <1>1, <1>2, <1>8, <1>10, MarkerGrowing
<1>11. CASE ~tracking
  <2>1. N = <<>> /\ Growing /\ N' = N
    BY <1>9, <1>11 DEF NestGood
  <2> QED
    BY <2>1, <1>1, <1>6, <1>11 DEF NestGood
<1>12. CASE tracking /\ NestMatched
  <2>1. Matched(program, s, N, Top.todo, 1)
    BY <1>5, <1>12 DEF NestMatched
  <2>2. /\ program.kind[s[Len(s)]] # "If" => Matched(program, s', N, Top.todo, 1)
        /\ program.kind[s[Len(s)]] = "If" =>
             /\ N # <<>> /\ N[Len(N)] \in {"then", "else"}
             /\ Matched(program, s', Front(N), Top.todo, 1)
    <3> DEFINE t == Front(s)
    <3> HIDE DEF N, s, t
    <3>1. /\ program.kind[s[Len(s)]] # "If" => Matched(program, t, N, Top.todo, 1)
          /\ program.kind[s[Len(s)]] = "If" =>
               /\ N # <<>> /\ N[Len(N)] \in {"then", "else"}
               /\ Matched(program, t, Front(N), Top.todo, 1)
      BY <2>1, <1>2, <1>4, MatchedPop DEF t
    <3> QED
      BY <3>1, <1>1 DEF t, s
  <2>3. CASE ~ends
    <3>1. Matched(program, s', N, Top.todo, 1) /\ Growing /\ N' = N
      BY <2>2, <2>3, <1>9, <1>12
    <3>2. NestMatched'
      BY <3>1, <1>1, <1>3, <1>5 DEF NestMatched
    <3> QED
      BY <3>1, <3>2, <1>1, <1>6, <1>12 DEF NestGood
  <2>4. CASE ends
    <3>1. /\ N # <<>> /\ N[Len(N)] \in {"then", "else"}
          /\ Matched(program, s', Front(N), Top.todo, 1)
      BY <2>2, <2>4
    <3>2. Allowed(F!Marker("EndIf"), N, GrownFootprint)
      BY <3>1 DEF Allowed, TopIn
    <3>3. Growing /\ N' = Front(N)
      BY <2>4, <3>1, <3>2, <1>10, PoppedNest
    <3>4. NestMatched'
      BY <3>1, <3>3, <1>1, <1>3, <1>5 DEF NestMatched
    <3> QED
      BY <3>3, <3>4, <1>1, <1>6, <1>12 DEF NestGood
  <2> QED
    BY <2>3, <2>4
<1>13. CASE tracking /\ StrayEnds
  <2>1. N = <<>> /\ Ends(GrownFootprint) /\ Len(frames) = 1
        /\ Fresh(program, s, last_visited, Top.todo, Body(current))
    BY <1>13 DEF StrayEnds
  <2>2. Body(current)' = Body(current)
    <3>1. FnKept /\ current \in DOMAIN infos
      BY <1>2, VisitFn, VisitFacts
    <3> QED
      BY <3>1, <1>1 DEF Body, FnKept
  <2>3. Fresh(program, s', last_visited, Top.todo, Body(current))
    BY <2>1, <1>4 DEF Fresh
  <2>4. Growing /\ N' = <<>> /\ Ends(GrownFootprint')
    <3>1. CASE ~ends
      <4>1. Growing /\ N' = N /\ GrownFootprint' = GrownFootprint
        BY <3>1, <1>9
      <4> QED
        BY <4>1, <2>1
    <3>2. CASE ends
      <4>1. Allowed(F!Marker("EndIf"), N, GrownFootprint)
        BY <2>1 DEF Allowed
      <4>2. Growing /\ GrowsBy(F!Marker("EndIf"))
        BY <3>2, <4>1, <1>10
      <4>3. N' = N /\ GrownFootprint' = Append(GrownFootprint, F!Marker("EndIf"))
        BY <4>2, <2>1, PoppedNest
      <4> QED
        BY <4>2, <4>3, <2>1, EndsGrow
    <3> QED
      BY <3>1, <3>2
  <2>5. StrayEnds'
    BY <2>1, <2>2, <2>3, <2>4, <1>1, <1>2, <1>3 DEF StrayEnds
  <2> QED
    BY <2>4, <2>5, <1>1, <1>6, <1>13 DEF NestGood
<1> QED
  BY <1>7, <1>11, <1>12, <1>13 DEF NestGood

(* A then or else block is marked.                                         *)
LEMMA MarkersAre ==
  ASSUME TInv, WalkInv, AtCursor("branch")
  PROVE  LET w == Parent(Here)
         IN  /\ ~tracking => BranchMarkers = <<>>
             /\ tracking /\ ThenOf(program, w, Here) => BranchMarkers = <<Marker("ThenBlock")>>
             /\ tracking /\ ElseOf(program, w, Here) => BranchMarkers = <<Marker("ElseStmt")>>
             /\ ~ThenOf(program, w, Here) /\ ~ElseOf(program, w, Here) => BranchMarkers = <<>>
<1> DEFINE w == Parent(Here)
           kids == Kids(w)
<1>1. phase = "visit" /\ Top.todo # <<>> /\ FramesFit
  BY DEF AtCursor, WalkInv
<1>2. program \in Programs /\ w \in DOMAIN program.kind
  <2>1. /\ program \in Programs /\ TodoFits(program, Top.todo, Body(current)) /\ Here = Top.todo[1]
        /\ 1 \in DOMAIN Top.todo
    BY <1>1, WalkFacts
  <2> QED
    BY <2>1, <1>1, TodoFacts DEF Parent
<1>3. ~(kids[2] = kids[Len(kids)] /\ Len(kids) > 2)
  <2>1. kids \in Seq(DOMAIN program.kind) /\ Len(kids) \in Nat /\ DOMAIN kids = 1..Len(kids)
    BY <1>2, TreeFacts, LenProperties DEF Kids
  <2>2. ASSUME Len(kids) > 2 PROVE 2 \in DOMAIN kids /\ Len(kids) \in DOMAIN kids /\ 2 # Len(kids)
    <3>1. \A n \in Nat : n > 2 => 2 \in 1..n /\ n \in 1..n /\ 2 # n
      OBVIOUS
    <3> QED
      BY <2>1, <2>2, <3>1, Zenon
  <2> QED
    BY <1>2, <2>2, KidsApart DEF Kids
<1> DEFINE isThen == Here = kids[2]
           isElse == Here = kids[Len(kids)] /\ Len(kids) > 2
<1>4. BranchMarkers =
        IF ~tracking \/ Kind(w) # "If" THEN <<>>
        ELSE CASE isThen -> <<Marker("ThenBlock")>>
               [] isElse -> <<Marker("ElseStmt")>>
               [] OTHER -> <<>>
  BY DEF BranchMarkers, Last
<1>5. ~(isThen /\ isElse)
  BY <1>3
<1>6. /\ ThenOf(program, w, Here) <=> Kind(w) = "If" /\ isThen
      /\ ElseOf(program, w, Here) <=> Kind(w) = "If" /\ isElse
  BY DEF ThenOf, ElseOf, Kind, Kids
<1> HIDE DEF isThen, isElse, w, kids
<1>7. /\ ~tracking => BranchMarkers = <<>>
      /\ tracking /\ Kind(w) = "If" /\ isThen => BranchMarkers = <<Marker("ThenBlock")>>
      /\ tracking /\ Kind(w) = "If" /\ isElse => BranchMarkers = <<Marker("ElseStmt")>>
      /\ ~(Kind(w) = "If" /\ isThen) /\ ~(Kind(w) = "If" /\ isElse) => BranchMarkers = <<>>
  BY <1>4, <1>5
<1> QED
  BY <1>6, <1>7 DEF w
-----------------------------------------------------------------------------
LEMMA NestMark ==
  ASSUME TInv, WalkInv, InlineInv, GrowthTyped, FootprintFits, FootprintFits',
         NestGood, program.regular, MarkBranch
  PROVE  Growing /\ NestGood'
<1> DEFINE s == ancestry_stack
           N == GrownNesting
           E == BranchMarkers
           w == Parent(Here)
           c == Here
           todo == Top.todo
<1>1. /\ AtCursor("branch") /\ Push(E) /\ step' = "cursor"
      /\ UNCHANGED <<program, tracking, ancestry_stack>> /\ UNCHANGED frames
  BY DEF MarkBranch
<1>2. phase = "visit" /\ todo # <<>> /\ step = "branch" /\ FramesFit /\ StackFits
  BY <1>1 DEF WalkInv, AtCursor
<1>3. /\ program \in Programs /\ TodoFits(program, todo, Body(current)) /\ c = todo[1]
      /\ s # <<>> => s[Len(s)] = program.parent[c]
  BY <1>2, WalkFacts DEF StackFits, PlacedAt
<1>4. Top' = Top
  BY <1>1, TopSame
<1>5. Entered = s /\ Entered' = s /\ Unmarked = 1 /\ Unmarked' = 2
  BY <1>1, <1>2 DEF Entered, Entering, Unmarked
<1>6. QuietBelow'
  BY <1>1 DEF NestGood, QuietBelow
<1>7. tracking \in BOOLEAN
  BY DEF TInv, ScalarsGood
<1>8. /\ ~tracking => E = <<>>
      /\ tracking /\ ThenOf(program, w, c) => E = <<Marker("ThenBlock")>>
      /\ tracking /\ ElseOf(program, w, c) => E = <<Marker("ElseStmt")>>
      /\ ~ThenOf(program, w, c) /\ ~ElseOf(program, w, c) => E = <<>>
  BY <1>1, MarkersAre
<1>9. w = program.parent[c]
  BY DEF Parent
<1>10. ASSUME E = <<>>
       PROVE  Growing /\ N' = N
  BY <1>1, <1>2, <1>10, PushGrowing
<1>11. ASSUME NEW t \in {"ThenBlock", "ElseStmt"}, E = <<Marker(t)>>,
              Allowed(F!Marker(t), N, GrownFootprint)
       PROVE  Growing /\ GrowsBy(F!Marker(t))
  BY <1>1, <1>2, <1>11, MarkerGrowing
<1>12. tracking => Matched(program, s, N, todo, 1)
  BY <1>2, <1>5 DEF NestGood, StrayEnds, NestMatched
<1> HIDE DEF E, s, w, c, todo
<1>13. CASE ~tracking
  <2>1. N = <<>> /\ Growing /\ N' = N
    BY <1>8, <1>10, <1>13 DEF NestGood
  <2> QED
    BY <2>1, <1>1, <1>6, <1>13 DEF NestGood
<1>14. ASSUME tracking, Growing, Matched(program, s, N', todo, 2)
       PROVE  NestGood'
  <2>1. NestMatched'
    BY <1>14, <1>1, <1>4, <1>5 DEF NestMatched, todo
  <2> QED
    BY <2>1, <1>1, <1>6, <1>14 DEF NestGood
<1>15. CASE tracking /\ ThenOf(program, w, c)
  <2>1. /\ N # <<>> /\ N[Len(N)] = "cond"
        /\ Matched(program, s, Append(Front(N), "then"), todo, 2)
    <3> HIDE DEF N
    <3>1. ThenOf(program, program.parent[c], c)
      BY <1>9, <1>15 DEF c
    <3>2. N # <<>> /\ N[Len(N)] = "cond"
      BY <1>2, <1>3, <1>12, <1>15, <3>1, MatchedThen DEF todo
    <3>3. Matched(program, s, Append(Front(N), "then"), todo, 2)
      BY <1>2, <1>3, <1>12, <1>15, <3>1, MatchedThen DEF todo
    <3> QED
      BY <3>2, <3>3
  <2>2. Allowed(F!Marker("ThenBlock"), N, GrownFootprint)
    BY <2>1 DEF Allowed, TopIn
  <2>3. Growing /\ GrowsBy(F!Marker("ThenBlock"))
    BY <2>2, <1>8, <1>11, <1>15
  <2>4. N' = Append(Front(N), "then")
    BY <2>3, PoppedNest
  <2> QED
    BY <2>1, <2>3, <2>4, <1>14, <1>15
<1>16. CASE tracking /\ ElseOf(program, w, c)
  <2>1. /\ N # <<>> /\ N[Len(N)] = "then"
        /\ Matched(program, s, Append(Front(N), "else"), todo, 2)
    <3> HIDE DEF N
    <3>1. ElseOf(program, program.parent[c], c)
      BY <1>9, <1>16 DEF c
    <3>2. N # <<>> /\ N[Len(N)] = "then"
      BY <1>2, <1>3, <1>12, <1>16, <3>1, MatchedElse DEF todo
    <3>3. Matched(program, s, Append(Front(N), "else"), todo, 2)
      BY <1>2, <1>3, <1>12, <1>16, <3>1, MatchedElse DEF todo
    <3> QED
      BY <3>2, <3>3
  <2>2. Allowed(F!Marker("ElseStmt"), N, GrownFootprint)
    BY <2>1 DEF Allowed, TopIn
  <2>3. Growing /\ GrowsBy(F!Marker("ElseStmt"))
    BY <2>2, <1>8, <1>11, <1>16
  <2>4. N' = Append(Front(N), "else")
    BY <2>3, PoppedNest
  <2> QED
    BY <2>1, <2>3, <2>4, <1>14, <1>16
<1>17. CASE tracking /\ ~ThenOf(program, w, c) /\ ~ElseOf(program, w, c)
  <2>1. Growing /\ N' = N
    BY <1>8, <1>10, <1>17
  <2>2. Matched(program, s, N, todo, 2)
    <3> HIDE DEF N
    <3>1. ~ThenOf(program, program.parent[c], c)
      BY <1>9, <1>17 DEF c
    <3> QED
      BY <3>1, <1>2, <1>3, <1>12, <1>17, MatchedUnmarked DEF todo
  <2> QED
    BY <2>1, <2>2, <1>14, <1>17
<1> QED
  BY <1>7, <1>13, <1>15, <1>16, <1>17
-----------------------------------------------------------------------------
(* Visiting                                                                *)

(* The children of the cursor visited are next.                            *)
LEMMA KidNext ==
  ASSUME NEW p \in Programs, NEW d, NEW todo, TodoFits(p, todo, d), todo # <<>>,
         NEW c, c = todo[1], p.kids[c] # <<>>, NEW t, t = After(p, todo)
  PROVE  t # <<>> /\ p.parent[t[1]] = c
<1> DEFINE kids == p.kids[c]
           rest == Tail(todo)
<1>1. /\ c \in DOMAIN p.kind /\ rest \in Seq(DOMAIN p.kind)
  <2>1. Len(todo) \in Nat \ {0} /\ DOMAIN todo = 1..Len(todo)
    BY TodoFacts
  <2>2. 1 \in DOMAIN todo
    BY <2>1
  <2> QED
    BY <2>2, TodoFacts
<1>2. kids \in Seq(DOMAIN p.kind) /\ kids # <<>>
  BY <1>1, TreeFacts
<1>3. t = kids \o rest
  BY DEF After
<1> HIDE DEF rest
<1>4. p.parent[kids[1]] = c /\ Len(kids) \in Nat \ {0}
  <2>1. Len(kids) \in Nat \ {0} /\ DOMAIN kids = 1..Len(kids)
    BY <1>2
  <2>2. 1 \in DOMAIN kids
    BY <2>1
  <2> QED
    BY <2>1, <2>2, <1>1, KidFacts
<1> HIDE DEF kids
<1>5. t \in Seq(DOMAIN p.kind) /\ Len(t) = Len(kids) + Len(rest) /\ t[1] = kids[1]
  BY <1>1, <1>2, <1>3, <1>4
<1>6. Len(rest) \in Nat
  BY <1>1
<1>7. t # <<>>
  BY <1>4, <1>5, <1>6
<1> QED
  BY <1>4, <1>5, <1>7

Grown(s, u, c) == u = s \/ u = Append(s, c)

(* A cursor goes on the stack once or twice, if it has children.           *)
LEMMA PiledUp ==
  ASSUME NEW S, NEW s \in Seq(S), NEW c \in S, NEW t, Grown(s, t, c), NEW u, Grown(t, u, c)
  PROVE  u \in Seq(S) /\ Piled(s, u, c) /\ (u = Append(t, c) => Len(u) > Len(s))
<1>1. /\ t \in Seq(S) /\ Len(s) \in Nat /\ Len(t) \in Nat
      /\ Len(t) = Len(s) \/ (Len(t) = Len(s) + 1 /\ t[Len(s) + 1] = c)
      /\ \A i \in 1..Len(s) : t[i] = s[i]
  <2>1. CASE t = s
    BY <2>1, LenProperties
  <2>2. CASE t = Append(s, c)
    BY <2>2, AppendIs
  <2> QED
    BY <2>1, <2>2 DEF Grown
<1>2. CASE u = t
  <2>1. Piled(s, u, c)
    BY <1>1, <1>2 DEF Piled
  <2>2. u # Append(t, c)
    <3>1. Len(Append(t, c)) = Len(t) + 1
      BY <1>1, AppendIs
    <3> QED
      BY <3>1, <1>1, <1>2
  <2> QED
    BY <2>1, <2>2, <1>1, <1>2
<1>3. CASE u = Append(t, c)
  <2>1. /\ u \in Seq(S) /\ Len(u) = Len(t) + 1 /\ u[Len(t) + 1] = c
        /\ \A i \in 1..Len(t) : u[i] = t[i]
    BY <1>1, <1>3, AppendIs
  <2>2. Piled(s, u, c) /\ Len(u) > Len(s)
    BY <2>1, <1>1 DEF Piled
  <2> QED
    BY <2>1, <2>2
<1> QED
  BY <1>2, <1>3 DEF Grown

VisitsOn ==
  /\ AtCursor("cursor") /\ frames' = GoOn /\ step' = "arrive"
  /\ UNCHANGED <<program, tracking, current, last_visited>>
  /\ Grown(ancestry_stack, ancestry_stack', Here)

LEMMA StackOn ==
  ASSUME TInv, WalkInv, FnKept, VisitsOn
  PROVE  /\ program \in Programs /\ phase = "visit" /\ step = "cursor" /\ Top.todo # <<>>
         /\ TodoFits(program, Top.todo, Body(current)) /\ Here = Top.todo[1]
         /\ Here \in DOMAIN program.kind
         /\ ancestry_stack \in Seq(DOMAIN program.kind)
         /\ ancestry_stack # <<>> => ancestry_stack[Len(ancestry_stack)] = program.parent[Here]
         /\ Top'.todo = After(program, Top.todo)
         /\ Grown(ancestry_stack', Entered', Here)
         /\ program.kids[Here] # <<>> => Entered' = Append(ancestry_stack', Here)
         /\ Unmarked = 2 /\ Unmarked' = 1 /\ Entered = ancestry_stack
<1>1. /\ phase = "visit" /\ step = "cursor" /\ Top.todo # <<>> /\ FramesFit /\ StackFits
      /\ step' = "arrive" /\ last_visited' = last_visited /\ UNCHANGED program
  BY DEF VisitsOn, WalkInv, AtCursor
<1>2. /\ program \in Programs /\ TodoFits(program, Top.todo, Body(current))
      /\ Here = Top.todo[1] /\ Here \in DOMAIN program.kind
  BY <1>1, WalkFacts
<1>3. /\ last_visited = Here /\ ancestry_stack \in Seq(DOMAIN program.kind)
      /\ ancestry_stack # <<>> => ancestry_stack[Len(ancestry_stack)] = program.parent[Here]
  BY <1>1 DEF StackFits, StackGood, PlacedAt
<1>4. Top'.todo = After(program, Top.todo)
  BY <1>1, FitsOn DEF VisitsOn
<1> DEFINE c == Here
           t == Top'.todo
<1>5. Here' = Head(t) /\ (Entering' <=> t # <<>> /\ last_visited \in {NoCursor, program.parent[Here']})
      /\ Entered' = IF Entering' THEN Append(ancestry_stack', program.parent[Here']) ELSE ancestry_stack'
  BY <1>1 DEF Here, Entering, Descends, Entered, Parent
<1>6. c # NoCursor
  BY <1>2, TreeFacts
<1> HIDE DEF c, t
<1>7. Entering' => program.parent[Here'] = c
  BY <1>3, <1>5, <1>6 DEF c
<1>8. Grown(ancestry_stack', Entered', c)
  BY <1>5, <1>7 DEF Grown
<1>9. ASSUME program.kids[c] # <<>> PROVE Entered' = Append(ancestry_stack', c)
  <2>1. t # <<>> /\ program.parent[t[1]] = c
    BY <1>1, <1>2, <1>4, <1>9, KidNext DEF c, t
  <2>2. Head(t) = t[1]
    OBVIOUS
  <2>3. Entering'
    BY <2>1, <2>2, <1>3, <1>5 DEF c
  <2> QED
    BY <2>3, <1>5, <1>7
<1>10. Unmarked = 2 /\ Unmarked' = 1 /\ Entered = ancestry_stack
  BY <1>1 DEF Unmarked, Entered, Entering
<1> QED
  BY <1>1, <1>2, <1>3, <1>4, <1>8, <1>9, <1>10 DEF c, t

LEMMA QuietBelowOn ==
  ASSUME TInv, phase = "visit", Top.todo # <<>>, QuietBelow, frames' = GoOn, UNCHANGED program
  PROVE  QuietBelow'
<1>1. /\ Len(GoOn) = Len(frames) /\ Len(frames) \in Nat
      /\ \A n \in 1..Len(frames) : GoOn[n].todo = IF n = Len(frames) THEN Recurse ELSE frames[n].todo
  BY GoOnFacts DEF TInv
<1>2. ASSUME NEW m \in 1..(Len(frames') - 1) PROVE NoneDue(program, frames'[m].todo, 1)
  <2>1. m \in 1..(Len(frames) - 1) /\ m \in 1..Len(frames) /\ m # Len(frames)
    BY <1>1
  <2>2. frames'[m].todo = frames[m].todo
    BY <2>1, <1>1
  <2> QED
    BY <2>1, <2>2 DEF QuietBelow
<1> QED
  BY <1>2 DEF QuietBelow

(* A cursor that is no if.                                                 *)
LEMMA NestOn ==
  ASSUME TInv, WalkInv, FnKept, NestGood, VisitsOn, Growing, GrownNesting' = GrownNesting,
         Kind(Here) # "If"
  PROVE  NestGood'
<1> DEFINE s == ancestry_stack
           u == Entered'
           c == Here
           todo == Top.todo
           N == GrownNesting
<1>1. /\ program \in Programs /\ phase = "visit" /\ step = "cursor" /\ todo # <<>>
      /\ TodoFits(program, todo, Body(current)) /\ c = todo[1] /\ c \in DOMAIN program.kind
      /\ s \in Seq(DOMAIN program.kind) /\ (s # <<>> => s[Len(s)] = program.parent[c])
      /\ Top'.todo = After(program, todo) /\ Grown(ancestry_stack', u, c)
      /\ program.kids[c] # <<>> => u = Append(ancestry_stack', c)
      /\ Unmarked = 2 /\ Unmarked' = 1 /\ Entered = s
  BY StackOn
<1>2. /\ Grown(s, ancestry_stack', c) /\ frames' = GoOn /\ UNCHANGED program
      /\ tracking' = tracking
  BY DEF VisitsOn
<1>3. QuietBelow'
  BY <1>1, <1>2, QuietBelowOn DEF NestGood
<1>4. ASSUME tracking PROVE NestMatched'
  <2>1. Matched(program, s, N, todo, 2)
    BY <1>1, <1>4 DEF NestGood, StrayEnds, NestMatched
  <2> DEFINE t == ancestry_stack'
  <2> HIDE DEF s, u, c, todo, N, t
  <2>2. u \in Seq(DOMAIN program.kind) /\ Piled(s, u, c) /\ (u = Append(t, c) => Len(u) > Len(s))
    BY <1>1, <1>2, PiledUp DEF t
  <2>3. Matched(program, u, N, After(program, todo), 1)
    BY <2>1, <2>2, <1>1, MatchedOn DEF Kind, t, c
  <2> QED
    BY <2>3, <1>1, <1>2 DEF NestMatched, u, N
<1>5. ~tracking => GrownNesting' = <<>>
  BY DEF NestGood
<1> QED
  BY <1>2, <1>3, <1>4, <1>5 DEF NestGood
-----------------------------------------------------------------------------
LEMMA NestIf ==
  ASSUME TInv, WalkInv, InlineInv, GrowthTyped, FootprintFits, FootprintFits',
         NestGood, program.regular, VisitIf
  PROVE  Growing /\ NestGood'
<1> DEFINE s == ancestry_stack
           c == Here
           todo == Top.todo
           N == GrownNesting
           E == When(tracking, <<Marker("IfStmt")>>)
<1>1. VisitsOn /\ Kind(c) = "If" /\ Push(E) /\ ancestry_stack' = s /\ FnKept
  BY VisitFn DEF VisitIf, Visit, VisitsOn, Grown
<1>2. /\ program \in Programs /\ phase = "visit" /\ step = "cursor" /\ todo # <<>>
      /\ TodoFits(program, todo, Body(current)) /\ c = todo[1] /\ c \in DOMAIN program.kind
      /\ s \in Seq(DOMAIN program.kind) /\ (s # <<>> => s[Len(s)] = program.parent[c])
      /\ Top'.todo = After(program, todo)
      /\ program.kids[c] # <<>> => Entered' = Append(ancestry_stack', c)
      /\ Unmarked = 2 /\ Unmarked' = 1 /\ Entered = s
  BY <1>1, StackOn
<1>3. program.regular = Regular(program)
  BY <1>2, ProgramsAssumption
<1>4. Entered' = Append(s, c)
  <2>1. Len(program.kids[c]) >= 2
    BY <1>1, <1>2, SyntaxFacts DEF Kind
  <2>2. Len(<<>>) = 0
    OBVIOUS
  <2>3. program.kids[c] # <<>>
    BY <2>1, <2>2
  <2> QED
    BY <2>3, <1>1, <1>2
<1>5. frames' = GoOn /\ UNCHANGED program /\ tracking' = tracking
  BY <1>1 DEF VisitsOn
<1>6. QuietBelow'
  BY <1>2, <1>5, QuietBelowOn DEF NestGood
<1>7. tracking \in BOOLEAN
  BY DEF TInv, ScalarsGood
<1>8. CASE ~tracking
  <2>1. E = <<>> /\ N = <<>>
    BY <1>8 DEF When, NestGood
  <2> HIDE DEF E
  <2>2. Growing /\ N' = N
    BY <2>1, <1>1, <1>2, <1>5, PushGrowing
  <2> QED
    BY <2>1, <2>2, <1>5, <1>6, <1>8 DEF NestGood
<1>9. CASE tracking
  <2>1. E = <<Marker("IfStmt")>>
    BY <1>9 DEF When
  <2>2. Matched(program, s, N, todo, 2)
    BY <1>2, <1>9 DEF NestGood, StrayEnds, NestMatched
  <2> HIDE DEF E, s, c, todo, N
  <2>3. ~TopIn(N, {"cond"})
    BY <2>2, <1>1, <1>2, <1>3, NotInCondition DEF TopIn, Kind, c
  <2>4. Matched(program, Append(s, c), Append(N, "cond"), After(program, todo), 1)
    BY <2>2, <1>1, <1>2, MatchedIf DEF Kind, c
  <2>5. Growing /\ GrowsBy(F!Marker("IfStmt"))
    <3>1. Allowed(F!Marker("IfStmt"), N, GrownFootprint)
      BY <2>3 DEF Allowed
    <3> QED
      BY <3>1, <2>1, <1>1, <1>2, <1>5, MarkerGrowing DEF N
  <2>6. N' = Append(N, "cond")
    BY <2>5, PoppedNest DEF N
  <2>7. NestMatched'
    BY <2>4, <2>6, <1>2, <1>4, <1>5 DEF NestMatched, N
  <2> QED
    BY <2>5, <2>7, <1>5, <1>6, <1>9 DEF NestGood
<1> QED
  BY <1>7, <1>8, <1>9

LEMMA NestVariable ==
  ASSUME TInv, WalkInv, InlineInv, GrowthTyped, FootprintFits, FootprintFits',
         NestGood, program.regular, VisitVariable
  PROVE  Growing /\ NestGood'
<1> DEFINE va == AccessEntry(ancestry_stack, Here)
           E == When(va.type # "None", <<va>>)
<1>1. /\ VisitsOn /\ Kind(Here) # "If" /\ Push(E) /\ FnKept /\ UNCHANGED program
      /\ AtCursor("cursor") /\ phase = "visit"
  BY VisitFn DEF VisitVariable, Visit, VisitsOn, Grown, AtCursor
<1>2. Growing /\ GrownNesting' = GrownNesting
  <2>1. CASE va.type = "None"
    <3>1. E = <<>>
      BY <2>1 DEF When
    <3> HIDE DEF E
    <3> QED
      BY <3>1, <1>1, PushGrowing
  <2>2. CASE va.type # "None"
    <3>1. Single(E, va)
      BY <2>2 DEF When, Single
    <3>2. ~Placeholder(va)
      BY <2>2, <1>1, EntryRight DEF RightEntry, Named
    <3> HIDE DEF E, va
    <3>3. /\ Allowed(AbstractEntry(va), GrownNesting, GrownFootprint)
          /\ PartAfter(GrownNesting, AbstractEntry(va)) = GrownNesting
      BY <3>2, AbstractAccess
    <3>4. Growing /\ GrowsBy(AbstractEntry(va))
      BY <3>1, <3>3, <1>1, PushGrowing
    <3> QED
      BY <3>3, <3>4 DEF GrowsBy
  <2> QED
    BY <2>1, <2>2
<1> QED
  BY <1>1, <1>2, NestOn

(* Nothing is pushed, and no analysed function is entered.                 *)
LEMMA NestSilent ==
  ASSUME TInv, WalkInv, GrowthTyped, NestGood, program.regular,
         VisitDecl \/ VisitOther \/ SkipCall \/ CallExternal
  PROVE  Growing /\ NestGood'
<1>1. VisitsOn /\ Kind(Here) # "If" /\ UNCHANGED <<program, trails>>
  <2>1. CASE VisitDecl \/ VisitOther
    BY <2>1 DEF VisitDecl, VisitOther, Visit, VisitsOn, Grown
  <2>2. CASE SkipCall \/ CallExternal
    BY <2>2 DEF SkipCall, CallExternal, FirstCall, VisitsOn, Grown
  <2> QED
    BY <2>1, <2>2
<1>2. FnKept
  BY VisitFn
<1>3. Growing /\ GrownNesting' = GrownNesting
  BY <1>1, GrownSame, GrowsNone
<1> QED
  BY <1>1, <1>2, <1>3, NestOn
-----------------------------------------------------------------------------
(* Calls                                                                   *)

(* Where no block is due, what is open stays so below another todo list    *)
(* that has none.                                                          *)
LEMMA MatchedAway ==
  ASSUME NEW p \in Programs, NEW s, NEW nest, NEW todo, NEW q, Matched(p, s, nest, todo, q),
         NoneDue(p, todo, q), NEW c, p.kind[c] # "If", NEW u \in Seq(DOMAIN p.kind), Piled(s, u, c),
         NEW t, NEW r, NoneDue(p, t, r)
  PROVE  Matched(p, u, nest, t, r)
<1>1. /\ \A i \in 1..Len(nest) : nest[i] # "cond"
      /\ s \in Seq(DOMAIN p.kind) /\ nest \in Seq(Parts) /\ \E f : IfsAt(p, s, nest, f)
  BY NoCondition
<1>2. PICK f : IfsAt(p, s, nest, f)
  BY <1>1
<1>3. IfsAt(p, u, nest, f)
  BY <1>1, <1>2, IfsPiled
<1> QED
  BY <1>1, <1>3, MatchedQuiet

LEMMA BodyQuiet ==
  ASSUME NEW p \in Programs, NEW fn \in DOMAIN p.body, NEW q
  PROVE  /\ NoneDue(p, p.kids[p.body[fn]], q)
         /\ p.kids[p.body[fn]] # <<>> /\ p.parent[p.body[fn]] = NoCursor
         /\ p.parent[Head(p.kids[p.body[fn]])] = p.body[fn]
<1> DEFINE d == p.body[fn]
           todo == p.kids[d]
<1>1. d \in DOMAIN p.kind /\ p.kind[d] = "Func" /\ p.parent[d] = NoCursor /\ todo # <<>>
  BY SyntaxFacts
<1> HIDE DEF d
<1>2. \A j \in DOMAIN todo : p.parent[todo[j]] = d
  BY <1>1, KidFacts
<1> HIDE DEF todo
<1>3. NoneDue(p, todo, q)
  BY <1>1, <1>2, FreshQuiet
<1>4. p.parent[Head(todo)] = d
  <2>1. todo \in Seq(DOMAIN p.kind)
    BY <1>1, TreeFacts DEF todo
  <2>2. 1 \in DOMAIN todo /\ Head(todo) = todo[1]
    BY <2>1, <1>1
  <2> QED
    BY <2>2, <1>2
<1> QED
  BY <1>1, <1>3, <1>4 DEF d, todo

LEMMA NestEnter ==
  ASSUME TInv, WalkInv, GrowthTyped, NestGood, program.regular, EnterCallee
  PROVE  Growing /\ NestGood'
<1> DEFINE s == ancestry_stack
           c == Here
           fn == Sym(Here)
           todo == Top.todo
           N == GrownNesting
           n == Len(frames)
<1>1. /\ phase = "visit" /\ step = "cursor" /\ todo # <<>> /\ FramesFit /\ StackFits
      /\ step' = "arrive" /\ UNCHANGED <<program, tracking, trails>>
      /\ ancestry_stack' = s /\ last_visited' = last_visited
      /\ frames' = Append(GoOn, Frame(Len(infos) + 1, c, fn)) /\ Kind(c) = "Call"
  BY DEF WalkInv, AtCursor, EnterCallee, FirstCall
<1>2. FnKept /\ infos'[Len(infos) + 1].fn = fn
  BY CallFacts DEF Callee, FuncInfo
<1>3. fn \in DOMAIN program.body \ program.system
  BY DEF EnterCallee, External, Callee, FuncInfo, HasDefinition, InSystemHeader
<1>4. /\ program \in Programs /\ TodoFits(program, todo, Body(current)) /\ c = todo[1]
      /\ c \in DOMAIN program.kind /\ Recurse = After(program, todo)
  BY <1>1, WalkFacts
<1>5. program.regular = Regular(program)
  BY <1>4, ProgramsAssumption
<1>6. last_visited = c /\ s \in Seq(DOMAIN program.kind) /\ program.parent[c] # NoCursor
  <2>1. last_visited = c /\ s \in Seq(DOMAIN program.kind)
    BY <1>1 DEF StackFits, StackGood
  <2>2. program.parent[c] # NoCursor
    <3>1. DOMAIN todo = 1..Len(todo) /\ Len(todo) \in Nat \ {0}
      BY <1>1, <1>4, TodoFacts
    <3>2. 1 \in DOMAIN todo
      BY <3>1
    <3> QED
      BY <3>2, <1>1, <1>4, TodoFacts
  <2> QED
    BY <2>1, <2>2
<1>7. Top'.todo = program.kids[program.body[fn]]
  BY <1>1, <1>2, <1>3, FitsEnter
<1>8. /\ NoneDue(program, Top'.todo, 1) /\ Top'.todo # <<>>
      /\ program.parent[Head(Top'.todo)] # c /\ c # NoCursor
  <2>1. /\ NoneDue(program, program.kids[program.body[fn]], 1)
        /\ program.kids[program.body[fn]] # <<>> /\ program.parent[program.body[fn]] = NoCursor
        /\ program.parent[Head(program.kids[program.body[fn]])] = program.body[fn]
    BY <1>3, <1>4, BodyQuiet
  <2>2. c # NoCursor
    BY <1>4, TreeFacts
  <2> QED
    BY <2>1, <2>2, <1>6, <1>7
<1>9. Growing /\ N' = N
  BY <1>1, GrownSame, GrowsNone
<1>10. /\ Entered = s /\ Unmarked = 2 /\ Unmarked' = 1
  BY <1>1 DEF Entered, Entering, Unmarked
<1>11. Entered' = s
  <2>1. ~Descends'
    <3>1. Here' = Head(Top'.todo)
      BY DEF Here
    <3> QED
      BY <3>1, <1>1, <1>6, <1>8 DEF Descends, Parent
  <2> QED
    BY <2>1, <1>1 DEF Entered, Entering
<1> HIDE DEF s, c, fn, todo, n
<1>12. NoneDue(program, todo, 2)
  BY <1>1, <1>3, <1>4, <1>5, CallQuiet DEF Kind, Sym, fn, c
<1>13. QuietBelow'
  <2>1. /\ GoOn \in Seq(FrameSet(program)) /\ Len(GoOn) = n /\ n \in Nat \ {0}
        /\ \A m \in 1..n : GoOn[m].todo = IF m = n THEN Recurse ELSE frames[m].todo
    BY <1>1, GoOnFacts, VisitFacts DEF TInv, n, todo
  <2>2. Len(frames') = n + 1 /\ \A m \in 1..n : frames'[m] = GoOn[m]
    <3>1. frames' = Append(GoOn, Frame(Len(infos) + 1, c, fn))
      BY <1>1
    <3>2. IsSeq(GoOn)
      BY <2>1, SeqTyped
    <3> QED
      BY <2>1, <3>1, <3>2, SeqAppend
  <2>3. NoneDue(program, Recurse, 1)
    BY <1>1, <1>4, <1>12, QuietOn DEF Kind
  <2>4. ASSUME NEW m \in 1..(Len(frames') - 1) PROVE NoneDue(program, frames'[m].todo, 1)
    <3>1. m \in 1..n /\ (m # n => m \in 1..(n - 1))
      BY <2>1, <2>2
    <3>2. frames'[m].todo = IF m = n THEN Recurse ELSE frames[m].todo
      BY <3>1, <2>1, <2>2
    <3> QED
      BY <3>1, <3>2, <2>3 DEF NestGood, QuietBelow, n
  <2> QED
    BY <2>4, <1>1 DEF QuietBelow
<1>14. ASSUME tracking PROVE NestMatched'
  <2>1. Matched(program, s, N, todo, 2)
    BY <1>1, <1>10, <1>14 DEF NestGood, StrayEnds, NestMatched, todo
  <2>2. Piled(s, s, c)
    <3>1. Len(s) \in Nat
      BY <1>6
    <3>2. \A m \in 1..Len(s) : ~(m > Len(s))
      BY <3>1
    <3> QED
      BY <3>1, <3>2 DEF Piled
  <2> DEFINE t == Top'.todo
  <2> HIDE DEF t, N
  <2>3. Matched(program, s, N, t, 1)
    BY <2>1, <2>2, <1>1, <1>4, <1>6, <1>8, <1>12, MatchedAway DEF t, Kind
  <2> QED
    BY <2>3, <1>1, <1>9, <1>10, <1>11 DEF NestMatched, t, N
<1>15. ~tracking => N' = <<>>
  BY <1>9 DEF NestGood
<1> QED
  BY <1>1, <1>9, <1>13, <1>14, <1>15 DEF NestGood
-----------------------------------------------------------------------------
(* The cursor visited last is no leaf's parent when a function is left.    *)
LEMMA LeftLast ==
  ASSUME NEW p \in Programs, NEW s, NEW last, Between(p, s, last, <<>>),
         NEW d, NEW todo, TodoFits(p, todo, d), todo # <<>>
  PROVE  last \notin {NoCursor, p.parent[Head(todo)]}
<1>1. /\ last \in DOMAIN p.kind /\ \A k \in DOMAIN p.kids[last] : \E j \in {} : TRUE
  <2>1. \A k \in DOMAIN p.kids[last] : \E j \in DOMAIN <<>> : <<>>[j] = p.kids[last][k]
    BY DEF Between
  <2>2. DOMAIN <<>> = {}
    OBVIOUS
  <2>3. last \in DOMAIN p.kind
    BY DEF Between
  <2> QED
    BY <2>1, <2>2, <2>3
<1>2. DOMAIN p.kids[last] = {}
  BY <1>1
<1>3. todo[1] \in DOMAIN p.kind /\ p.parent[todo[1]] # NoCursor /\ Head(todo) = todo[1]
  <2>1. Len(todo) \in Nat \ {0} /\ DOMAIN todo = 1..Len(todo)
    BY TodoFacts
  <2>2. 1 \in DOMAIN todo
    BY <2>1
  <2> QED
    BY <2>2, TodoFacts
<1>4. DOMAIN p.kids[p.parent[todo[1]]] # {}
  BY <1>3, TreeFacts
<1>5. NoCursor \notin DOMAIN p.kind
  BY TreeFacts
<1> QED
  BY <1>1, <1>2, <1>3, <1>4, <1>5

LEMMA NoneLeft ==
  ASSUME NEW p, NEW q
  PROVE  NoneDue(p, <<>>, q)
<1>1. DOMAIN <<>> = {}
  OBVIOUS
<1> QED
  BY <1>1 DEF NoneDue, Due

LEMMA NestLeave ==
  ASSUME TInv, WalkInv, GrowthTyped, NestGood, program.regular, LeaveCallee
  PROVE  Growing /\ NestGood'
<1> DEFINE s == ancestry_stack
           call == Top.call
           N == GrownNesting
           n == Len(frames)
           todo == Top'.todo
<1>1. /\ phase = "visit" /\ Top.todo = <<>> /\ FramesFit /\ StackFits /\ n > 1
      /\ UNCHANGED <<program, tracking, infos, step, trails>>
      /\ last_visited' = last_visited
      /\ ancestry_stack' = Append(s, call) /\ frames' = Front(frames) /\ current' = Top.prev
  BY DEF WalkInv, LeaveCallee
<1>2. program \in Programs /\ frames \in Seq(FrameSet(program)) /\ frames # <<>>
  <2>1. frames \in Seq(FrameSet(program)) /\ Len(frames) > 0
    BY <1>1 DEF TInv, FramesGood
  <2> QED
    BY <2>1, <1>1, WalkFacts
<1>3. /\ n \in Nat \ {0} /\ Len(frames') = n - 1 /\ \A i \in 1..(n - 1) : frames'[i] = frames[i]
  BY <1>1, <1>2, FrontIs
<1>4. Top' = frames[n - 1]
  <2>1. n - 1 \in 1..(n - 1)
    BY <1>1, <1>3
  <2>2. Top' = frames'[n - 1]
    BY <1>3 DEF Top, Last
  <2> QED
    BY <2>1, <2>2, <1>3
<1>5. /\ step = "arrive" /\ s \in Seq(DOMAIN program.kind)
      /\ Between(program, s, last_visited, <<>>)
  BY <1>1 DEF StackFits, StackGood, Fresh
<1>6. /\ Waits(program, todo, call) /\ TodoFits(program, todo, Body(current)')
  BY <1>1, FitsLeave
<1>7. Growing /\ N' = N
  BY <1>1, GrownSame, GrowsNone
<1>8. Entered = s /\ Unmarked = 1 /\ Unmarked' = 1
  BY <1>1, <1>5 DEF Entered, Entering, Unmarked
<1>9. Entered' = ancestry_stack'
  <2>1. todo # <<>> => last_visited \notin {NoCursor, program.parent[Head(todo)]}
    BY <1>2, <1>5, <1>6, LeftLast
  <2>2. Here' = Head(todo)
    BY DEF Here
  <2>3. ~Entering'
    BY <2>1, <2>2, <1>1 DEF Entering, Descends, Parent
  <2> QED
    BY <2>3 DEF Entered
<1> HIDE DEF s, call, N, n, todo
<1>10. \A m \in 1..(n - 1) : NoneDue(program, frames[m].todo, 1)
  BY DEF NestGood, QuietBelow, n
<1>11. QuietBelow'
  <2>1. \A m \in 1..(Len(frames') - 1) : m \in 1..(n - 1)
    BY <1>3
  <2> QED
    BY <2>1, <1>1, <1>3, <1>10 DEF QuietBelow
<1>12. NoneDue(program, todo, 1)
  <2>1. n - 1 \in 1..(n - 1)
    BY <1>1, <1>3
  <2>2. todo = frames[n - 1].todo
    BY <1>4 DEF todo
  <2> QED
    BY <2>1, <2>2, <1>10
<1>13. ASSUME tracking PROVE NestMatched'
  <2>1. Matched(program, s, N, <<>>, 1)
    <3>1. ~StrayEnds
      <4>1. n # 1
        BY <1>1, SMT
      <4> QED
        BY <4>1 DEF StrayEnds, n
    <3> QED
      BY <3>1, <1>1, <1>8, <1>13 DEF NestGood, NestMatched, N
  <2>2. call \in DOMAIN program.kind /\ program.kind[call] # "If"
    BY <1>6 DEF Waits
  <2> DEFINE u == Append(s, call)
  <2>3. u \in Seq(DOMAIN program.kind) /\ Piled(s, u, call)
    BY <2>2, <1>5, PiledUp DEF Grown
  <2> HIDE DEF u
  <2>4. Matched(program, u, N, todo, 1)
    BY <2>1, <2>2, <2>3, <1>2, <1>12, NoneLeft, MatchedAway
  <2> QED
    BY <2>4, <1>1, <1>7, <1>8, <1>9 DEF NestMatched, todo, u, N
<1>14. ~tracking => N' = <<>>
  BY <1>7 DEF NestGood, N
<1> QED
  BY <1>1, <1>7, <1>11, <1>13, <1>14 DEF NestGood, N
-----------------------------------------------------------------------------
(* Roots                                                                   *)

LEMMA NestStart ==
  ASSUME TInv, WalkInv, InlineInv, GrowthTyped, phase = "visit" /\ program.regular => NestGood,
         RootsFound \/ LeaveRoot
  PROVE  Growing /\ NestGood'
<1>1. /\ IsSeq(trails) /\ UNCHANGED <<program, tracking>>
      /\ \E r : StartRoot(r)
  <2>1. IsSeq(trails)
    <3>1. CASE RootsFound
      BY <3>1, NoneIsSeq DEF RootsFound, InlineInv
    <3>2. CASE LeaveRoot
      BY <3>2 DEF LeaveRoot, InlineInv
    <3> QED
      BY <3>1, <3>2
  <2> QED
    BY <2>1 DEF RootsFound, LeaveRoot
<1>2. PICK r : StartRoot(r)
  BY <1>1
<1>3. trails' = Append(trails, <<>>) /\ frames' = <<Frame(r, NoCursor, infos[r].fn)>>
  BY <1>2 DEF StartRoot
<1>4. GrownFootprint' = <<>> /\ GrownNesting' = <<>>
  BY <1>1, <1>3, GrownStart
<1>5. GrowthTyped'
  <2>1. IsSeq(<<>>) /\ Len(<<>>) = 0 /\ <<>> \in Seq(Parts)
    BY NoneIsSeq
  <2> QED
    BY <2>1, <1>4 DEF GrowthTyped
<1>6. /\ step' = "arrive" /\ Fresh(program, ancestry_stack', last_visited', Top'.todo, Body(current)')
  BY StartWalk
<1>7. Len(frames') = 1
  BY <1>3
<1>8. QuietBelow'
  <2>1. 1..(Len(frames') - 1) = {}
    BY <1>7
  <2> QED
    BY <2>1 DEF QuietBelow
<1>9. StrayEnds'
  <2>1. Ends(GrownFootprint')
    <3>1. 1..Len(<<>>) = {}
      OBVIOUS
    <3> QED
      BY <3>1, <1>4 DEF Ends
  <2> QED
    BY <2>1, <1>1, <1>4, <1>6, <1>7 DEF StrayEnds
<1>10. NextRoot \/ GrowsNot
  <2>1. CASE RootsFound \/ ~program.regular
    <3>1. ~program.regular \/ trails = <<>>
      BY <2>1 DEF RootsFound, InlineInv
    <3> QED
      BY <3>1, <1>4, GrownNone DEF GrowsNot
  <2>2. CASE LeaveRoot /\ program.regular
    <3>1. phase = "visit" /\ Top.todo = <<>> /\ NestGood /\ FramesFit
      BY <2>2 DEF LeaveRoot, WalkInv
    <3>2. tracking \in BOOLEAN /\ program \in Programs
      BY DEF TInv, ScalarsGood
    <3>3. \A i \in 1..Len(GrownNesting) : GrownNesting[i] # "cond"
      <4>1. CASE tracking
        <5>1. Matched(program, Entered, GrownNesting, <<>>, Unmarked)
          BY <3>1, <4>1 DEF NestGood, StrayEnds, Fresh, NestMatched
        <5> QED
          BY <5>1, <3>2, NoneLeft, NoCondition
      <4>2. CASE ~tracking
        <5>1. GrownNesting = <<>> /\ 1..Len(<<>>) = {}
          BY <3>1, <4>2 DEF NestGood
        <5> QED
          BY <5>1
      <4> QED
        BY <4>1, <4>2, <3>2
    <3>4. ~(GrownNesting # <<>> /\ GrownNesting[Len(GrownNesting)] = "cond")
      <4>1. ASSUME GrownNesting # <<>> PROVE Len(GrownNesting) \in 1..Len(GrownNesting)
        <5> DEFINE N == GrownNesting
        <5>1. N \in Seq(Parts) /\ N # <<>>
          BY <4>1 DEF GrowthTyped
        <5> HIDE DEF N
        <5>2. Len(N) \in Nat \ {0}
          BY <5>1
        <5>3. Len(N) \in 1..Len(N)
          BY <5>2
        <5> QED
          BY <5>3 DEF N
      <4> QED
        BY <4>1, <3>3
    <3>5. F!FootprintComplete
      BY <3>4 DEF F!FootprintComplete, F!InPart, F!Top
    <3> QED
      BY <3>5, <1>4 DEF NextRoot
  <2> QED
    BY <2>1, <2>2
<1> QED
  BY <1>4, <1>5, <1>8, <1>9, <1>10 DEF NestGood, Growing
-----------------------------------------------------------------------------
(* Every push is a step of Footprint                                       *)

LEMMA NestInit ==
  ASSUME TInit
  PROVE  NestInv /\ F!FootprintInit
<1>1. trails = <<>> /\ phase = "search"
  BY DEF TInit
<1>2. GrownFootprint = <<>> /\ GrownNesting = <<>>
  BY <1>1, GrownNone
<1>3. IsSeq(<<>>) /\ Len(<<>>) = 0 /\ <<>> \in Seq(Parts)
  BY NoneIsSeq
<1>4. GrowthTyped
  BY <1>2, <1>3 DEF GrowthTyped
<1> QED
  BY <1>1, <1>2, <1>4 DEF NestInv, F!FootprintInit

LEMMA NestStutter ==
  ASSUME NestInv, UNCHANGED tvars
  PROVE  Growing /\ NestInv'
<1>1. /\ UNCHANGED <<program, tracking, phase, step, ancestry_stack, last_visited, trails>>
      /\ UNCHANGED infos /\ UNCHANGED frames /\ UNCHANGED current
  BY DEF tvars, visitor
<1>2. Growing /\ GrownNesting' = GrownNesting /\ GrownFootprint' = GrownFootprint
  BY <1>1, GrownSame, GrowsNone DEF NestInv
<1>3. ASSUME NestGood PROVE NestGood'
  <2>1. Top' = Top /\ Here' = Here
    BY <1>1 DEF Top, Here
  <2>2. Entered' = Entered /\ Unmarked' = Unmarked
    BY <1>1, <2>1 DEF Entered, Entering, Descends, Parent, Unmarked
  <2>3. QuietBelow'
    BY <1>1, <1>3 DEF NestGood, QuietBelow
  <2>4. StrayEnds => StrayEnds'
    BY <1>1, <1>2, <2>1 DEF StrayEnds, Body
  <2>5. NestMatched => NestMatched'
    BY <1>1, <1>2, <2>1, <2>2 DEF NestMatched
  <2> QED
    BY <1>1, <1>2, <1>3, <2>3, <2>4, <2>5 DEF NestGood
<1> QED
  BY <1>1, <1>2, <1>3 DEF NestInv, Growing

(* A step of the visitor.                                                  *)
Visits ==
  \/ PushParent \/ PopAncestor \/ Settle \/ MarkBranch
  \/ VisitDecl \/ VisitIf \/ VisitVariable \/ VisitOther
  \/ SkipCall \/ CallExternal \/ EnterCallee \/ LeaveCallee

LEMMA VisitsKeep ==
  ASSUME Visits
  PROVE  phase = "visit" /\ UNCHANGED program
BY DEF Visits, PushParent, PopAncestor, Settle, MarkBranch, VisitDecl, VisitIf, VisitVariable,
       VisitOther, Visit, SkipCall, CallExternal, EnterCallee, LeaveCallee, FirstCall, AtCursor

LEMMA NestVisits ==
  ASSUME TInv, WalkInv, InlineInv, GrowthTyped, FootprintFits, FootprintFits',
         NestGood, program.regular, Visits
  PROVE  Growing /\ NestGood'
<1>1. CASE PushParent
  BY <1>1, NestParent
<1>2. CASE PopAncestor
  BY <1>2, NestPop
<1>3. CASE Settle
  BY <1>3, NestSettle
<1>4. CASE MarkBranch
  BY <1>4, NestMark
<1>5. CASE VisitIf
  BY <1>5, NestIf
<1>6. CASE VisitVariable
  BY <1>6, NestVariable
<1>7. CASE VisitDecl \/ VisitOther \/ SkipCall \/ CallExternal
  BY <1>7, NestSilent
<1>8. CASE EnterCallee
  BY <1>8, NestEnter
<1>9. CASE LeaveCallee
  BY <1>9, NestLeave
<1> QED
  BY <1>1, <1>2, <1>3, <1>4, <1>5, <1>6, <1>7, <1>8, <1>9 DEF Visits

LEMMA NestKept ==
  ASSUME TInv, WalkInv, InlineInv, NestInv, FootprintFits, FootprintFits', [TNext]_tvars
  PROVE  Growing /\ NestInv'
<1>1. CASE Visits
  <2>1. phase = "visit" /\ UNCHANGED program
    BY <1>1, VisitsKeep
  <2>2. CASE program.regular
    <3>1. GrowthTyped /\ NestGood
      BY <2>1, <2>2 DEF NestInv
    <3>2. Growing /\ NestGood'
      BY <1>1, <2>2, <3>1, NestVisits
    <3> QED
      BY <3>2 DEF Growing, NestInv
  <2>3. CASE ~program.regular
    <3>1. ~program'.regular
      BY <2>1, <2>3
    <3>2. GrowsNot
      BY <2>3, <3>1, GrownNone DEF GrowsNot
    <3>3. Growing
      BY <3>2, GrowsNone DEF NestInv
    <3> QED
      BY <3>1, <3>3 DEF Growing, NestInv
  <2> QED
    BY <2>2, <2>3
<1>2. CASE RootsFound \/ LeaveRoot
  BY <1>2, NestStart DEF NestInv, Growing
<1>3. CASE CompareDefinition \/ RootsMissing \/ LeaveLastRoot \/ Unwind \/ UnwindCrashes \/ Build
  <2>1. UNCHANGED <<program, trails>> /\ phase' # "visit"
    BY <1>3 DEF CompareDefinition, RootsMissing, LeaveLastRoot, Unwind, UnwindCrashes, Build
  <2>2. Growing
    BY <2>1, GrownSame, GrowsNone DEF NestInv
  <2> QED
    BY <2>1, <2>2 DEF Growing, NestInv
<1>4. CASE Stopped \/ UNCHANGED tvars
  BY <1>4, NestStutter DEF Stopped
<1>5. CASE TNext
  BY <1>1, <1>2, <1>3, <1>4, <1>5 DEF TNext, Visits
<1> QED
  BY <1>4, <1>5

(* For every program that is Regular and both ways to call the tool: what  *)
(* prong_visitor_walk_func pushes while it visits a root, callees included, *)
(* is what Footprint can grow, on which the models of the lock analysis    *)
(* rest; the next root begins with no condition left open. The hypothesis  *)
(* is about the bound of Footprint only: the code has none.                *)
THEOREM FootprintsGrown == TSpec /\ []FootprintFits => ImplementsFootprint
<1>1. TInit => NestInv /\ F!FootprintInit
  BY NestInit
<1>2. TInv /\ WalkInv /\ InlineInv /\ NestInv /\ FootprintFits /\ FootprintFits' /\ [TNext]_tvars
      => NestInv' /\ [F!FootprintNext \/ NextRoot]_<<GrownFootprint, GrownNesting>>
  <2> SUFFICES ASSUME TInv, WalkInv, InlineInv, NestInv, FootprintFits, FootprintFits', [TNext]_tvars
               PROVE  /\ NestInv'
                      /\ [F!FootprintNext \/ NextRoot]_<<GrownFootprint, GrownNesting>>
    OBVIOUS
  <2>1. NestInv' /\ Growing
    BY NestKept
  <2> QED
    BY <2>1 DEF Growing, GrowsNot
<1> QED
  BY <1>1, <1>2, WalkAlways, TInvInit, TInvStep, InlineInit, InlineStep,
     PTL DEF TSpec, ImplementsFootprint
=============================================================================
