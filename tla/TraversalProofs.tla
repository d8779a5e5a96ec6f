--------------------------- MODULE TraversalProofs ---------------------------
(***************************************************************************)
(* Proofs about the walk of the AST and the unwinding of the FuncInfos,    *)
(* for all programs: the types, that the callee counters of the two passes *)
(* over the accesses find the function each Call entry stands for, that    *)
(* no parameter is looked up in a list without any, and that the recursive *)
(* footprint has the entries in the order of the visit.                    *)
(***************************************************************************)
EXTENDS Traversal, SequenceTheorems, FiniteSetTheorems, WellFoundedInduction, TLAPS
-----------------------------------------------------------------------------
(* Sequences of no particular type                                         *)

IsSeq(s) == s \in Seq({s[i] : i \in DOMAIN s})

LEMMA SeqMade ==
  ASSUME NEW n \in Nat, NEW s, s = [i \in 1..n |-> s[i]]
  PROVE  IsSeq(s) /\ Len(s) = n /\ DOMAIN s = 1..n
<1> DEFINE T == {s[i] : i \in DOMAIN s}
<1>1. DOMAIN s = 1..n
  OBVIOUS
<1>2. s \in [1..n -> T]
  BY <1>1
<1>3. s \in Seq(T)
  <2> HIDE DEF T
  <2> QED
    BY <1>2
<1>4. Len(s) = n
  <2> HIDE DEF T
  <2> QED
    BY <1>2, <1>3, LenProperties
<1> QED
  BY <1>1, <1>3, <1>4 DEF IsSeq

LEMMA SeqIs ==
  ASSUME NEW s, IsSeq(s)
  PROVE  Len(s) \in Nat /\ DOMAIN s = 1..Len(s) /\ s = [i \in 1..Len(s) |-> s[i]]
<1> DEFINE T == {s[i] : i \in DOMAIN s}
<1>1. s \in Seq(T)
  BY DEF IsSeq
<1> HIDE DEF T
<1> QED
  BY <1>1, LenProperties

LEMMA SeqTyped ==
  ASSUME NEW S, NEW s \in Seq(S)
  PROVE  IsSeq(s)
<1>1. Len(s) \in Nat /\ s \in [1..Len(s) -> S]
  BY LenProperties
<1>2. s = [i \in 1..Len(s) |-> s[i]]
  BY <1>1
<1> QED
  BY <1>1, <1>2, SeqMade

LEMMA SeqWiden ==
  ASSUME NEW S, NEW T, S \subseteq T, NEW s \in Seq(S)
  PROVE  s \in Seq(T)
<1>1. Len(s) \in Nat /\ s \in [1..Len(s) -> S]
  BY LenProperties
<1>2. s \in [1..Len(s) -> T]
  BY <1>1
<1> QED
  BY <1>1, <1>2

LEMMA NoneIsSeq ==
  ASSUME NEW s, s = <<>>
  PROVE  IsSeq(s) /\ DOMAIN s = {} /\ Len(s) = 0
<1>1. s \in Seq(Nat) /\ DOMAIN s = {} /\ Len(s) = 0
  OBVIOUS
<1>2. IsSeq(s)
  BY <1>1, SeqTyped
<1> QED
  BY <1>1, <1>2

LEMMA SeqConcat ==
  ASSUME NEW s, NEW t, IsSeq(s), IsSeq(t)
  PROVE  /\ IsSeq(s \o t) /\ Len(s \o t) = Len(s) + Len(t)
         /\ \A i \in 1..Len(s) : (s \o t)[i] = s[i]
         /\ \A i \in 1..Len(t) : (s \o t)[Len(s) + i] = t[i]
         /\ \A i \in DOMAIN (s \o t) :
              \/ i \in DOMAIN s /\ (s \o t)[i] = s[i]
              \/ i - Len(s) \in DOMAIN t /\ (s \o t)[i] = t[i - Len(s)]
<1> DEFINE S == {s[i] : i \in DOMAIN s}
           T == {t[i] : i \in DOMAIN t}
           U == S \cup T
<1>1. s \in Seq(S) /\ t \in Seq(T) /\ S \subseteq U /\ T \subseteq U
  BY DEF IsSeq
<1> HIDE DEF S, T, U
<1>2. s \in Seq(U) /\ t \in Seq(U)
  BY <1>1
<1>3. s \o t \in Seq(U) /\ Len(s \o t) = Len(s) + Len(t)
  BY <1>2, ConcatProperties
<1>4. \A i \in 1..(Len(s) + Len(t)) :
        (s \o t)[i] = IF i <= Len(s) THEN s[i] ELSE t[i - Len(s)]
  BY <1>2, ConcatProperties
<1>5. Len(s) \in Nat /\ Len(t) \in Nat /\ DOMAIN s = 1..Len(s) /\ DOMAIN t = 1..Len(t)
  BY SeqIs
<1>6. IsSeq(s \o t) /\ DOMAIN (s \o t) = 1..(Len(s) + Len(t))
  BY <1>3, SeqTyped, SeqIs
<1> QED
  BY <1>3, <1>4, <1>5, <1>6

LEMMA SeqAppend ==
  ASSUME NEW s, NEW e, IsSeq(s)
  PROVE  /\ IsSeq(Append(s, e)) /\ Len(Append(s, e)) = Len(s) + 1
         /\ Append(s, e)[Len(s) + 1] = e /\ Append(s, e) # <<>>
         /\ \A i \in 1..Len(s) : Append(s, e)[i] = s[i]
<1> DEFINE S == {s[i] : i \in DOMAIN s}
           U == S \cup {e}
<1>1. s \in Seq(S) /\ S \subseteq U /\ e \in U
  BY DEF IsSeq
<1> HIDE DEF S, U
<1>2. s \in Seq(U)
  BY <1>1
<1>3. /\ Append(s, e) \in Seq(U) /\ Len(Append(s, e)) = Len(s) + 1
      /\ \A i \in 1..Len(s) : Append(s, e)[i] = s[i]
      /\ Append(s, e)[Len(s) + 1] = e
  BY <1>1, <1>2, AppendProperties
<1>4. Len(s) \in Nat /\ Len(<<>>) = 0
  BY SeqIs
<1>5. Append(s, e) # <<>>
  BY <1>3, <1>4
<1> QED
  BY <1>3, <1>5, SeqTyped
-----------------------------------------------------------------------------
(* The inductive invariant                                                 *)

EntryTypes ==
  {"Null", "Read", "Write", "PtrRead", "PtrWrite", "Escape", "LockAcquire", "LockRelease",
   "Call", "IfStmt", "ThenBlock", "ElseStmt", "EndIf"}

(* Of a call there is no argument, so unwinding never marks its entry.     *)
EntryGood(va) ==
  /\ DOMAIN va = {"type", "usr", "esc", "idx", "origin", "ptr"}
  /\ va.type \in EntryTypes
  /\ va.type = "Call" => va.idx = NO_IDX

InfoFields ==
  {"fn", "in_system_header", "has_definition", "accesses", "callees", "params", "locals"}

(* FuncInfo i of n.                                                        *)
InfoGood(info, i, n) ==
  /\ DOMAIN info = InfoFields
  /\ IsSeq(info.accesses) /\ \A p \in DOMAIN info.accesses : EntryGood(info.accesses[p])
  /\ info.callees \in Seq((i + 1)..n)
  /\ IsSeq(info.params) /\ IsSeq(info.locals)

InfosGood == IsSeq(infos) /\ \A i \in DOMAIN infos : InfoGood(infos[i], i, Len(infos))

Cursors == DOMAIN program.kind

ScalarsGood ==
  /\ program \in Programs /\ tracking \in BOOLEAN
  /\ phase \in {"search", "visit", "unwind", "built", "ERR_NOT_FOUND", "crashed"}
  /\ step \in {"arrive", "branch", "cursor"} /\ next \in Nat \ {0}
  /\ last_visited \in Cursors \cup {NoCursor}
  /\ ancestry_stack \in Seq(Cursors \cup {NoCursor})
  /\ phase # "visit" => current = 0

(* The roots have bodies, and each is there before it is visited.          *)
RootsGood ==
  /\ phase = "search" => \A i \in DOMAIN infos : infos[i].fn \in DOMAIN program.body
  /\ phase \in {"visit", "unwind"} =>
       /\ NumRoots <= Len(infos)
       /\ \A r \in 1..NumRoots : infos[r].fn \in DOMAIN program.body
  /\ phase = "visit" => next <= NumRoots

(* The active calls go from the root visited to current_func, each of a    *)
(* younger FuncInfo.                                                       *)
FrameSet(p) ==
  [info : Nat, prev : Nat, call : DOMAIN p.kind \cup {NoCursor}, todo : Seq(DOMAIN p.kind)]

FramesGood ==
  phase = "visit" =>
    /\ frames \in Seq(FrameSet(program)) /\ Len(frames) > 0
    /\ frames[1].info = next /\ frames[Len(frames)].info = current
    /\ \A n \in 1..Len(frames) : frames[n].info \in DOMAIN infos
    /\ \A n \in 2..Len(frames) : frames[n].prev = frames[n - 1].info
    /\ \A m \in 1..Len(frames), n \in 1..Len(frames) :
         m < n => frames[m].info < frames[n].info

WorkGood == phase = "unwind" => work \in Seq(DOMAIN infos)

(* A root whose call has arguments gets its parameters in its visit.       *)
ParamsGood ==
  /\ phase \in {"visit", "unwind"} =>
       \A r \in 1..NumRoots :
         Params(infos[r].fn) # {} /\ (phase = "unwind" \/ r < next) => infos[r].params # <<>>
  /\ phase = "visit" =>
       (Params(infos[next].fn) # {} /\ infos[next].params = <<>> =>
          \E k \in DOMAIN frames[1].todo : Kind(frames[1].todo[k]) = "Parm")

TInv ==
  /\ InfosGood /\ ScalarsGood /\ RootsGood /\ FramesGood /\ WorkGood
  /\ CallsAligned /\ ParamsGood /\ NoWildParameter
-----------------------------------------------------------------------------
(* Call entries and their numbers                                          *)

LEMMA CallsFinite ==
  ASSUME NEW s, IsSeq(s)
  PROVE  /\ IsFiniteSet(Calls(s)) /\ Cardinality(Calls(s)) \in Nat
         /\ \A p \in Calls(s) : next_callee(s, p) \in 1..Cardinality(Calls(s))
<1>1. Len(s) \in Nat /\ DOMAIN s = 1..Len(s)
  BY SeqIs
<1>2. IsFiniteSet(1..Len(s))
  BY <1>1, FS_Interval
<1>3. Calls(s) \subseteq 1..Len(s)
  BY <1>1 DEF Calls
<1>4. IsFiniteSet(Calls(s)) /\ Cardinality(Calls(s)) \in Nat
  BY <1>2, <1>3, FS_Subset, FS_CardinalityType
<1>5. ASSUME NEW p \in Calls(s) PROVE next_callee(s, p) \in 1..Cardinality(Calls(s))
  <2> DEFINE T == {q \in Calls(s) : q <= p}
  <2>1. T \subseteq Calls(s) /\ p \in T
    BY <1>3, <1>1
  <2> HIDE DEF T
  <2>2. /\ IsFiniteSet(T) /\ Cardinality(T) \in Nat
        /\ Cardinality(T) <= Cardinality(Calls(s))
    BY <2>1, <1>4, FS_Subset, FS_CardinalityType
  <2>3. Cardinality(T) # 0
    BY <2>1, <2>2, FS_EmptySet
  <2>4. next_callee(s, p) = Cardinality(T)
    BY DEF next_callee, T
  <2> QED
    BY <2>2, <2>3, <2>4, <1>4
<1> QED
  BY <1>4, <1>5

(* The part of CallsAligned about one FuncInfo of is.                      *)
AlignedIn(accesses, callees, is) ==
  /\ Cardinality(Calls(accesses)) = Len(callees)
  /\ \A p \in Calls(accesses) :
       accesses[p].esc = is[callees[next_callee(accesses, p)]].fn

LEMMA AlignedIs ==
  CallsAligned <=> \A i \in DOMAIN infos : AlignedIn(infos[i].accesses, infos[i].callees, infos)
BY DEF CallsAligned, AlignedIn

(* Neither entries that are no calls nor FuncInfos behind the callees      *)
(* matter.                                                                 *)
LEMMA AlignedKept ==
  ASSUME NEW s, NEW t, IsSeq(s), NEW callees, NEW is, NEW js, NEW S,
         AlignedIn(s, callees, is), callees \in Seq(S),
         \A j \in S : js[j].fn = is[j].fn,
         Calls(t) = Calls(s), \A p \in Calls(s) : t[p].esc = s[p].esc
  PROVE  AlignedIn(t, callees, js)
<1>1. Cardinality(Calls(t)) = Len(callees)
  BY DEF AlignedIn
<1>2. ASSUME NEW p \in Calls(t)
      PROVE  t[p].esc = js[callees[next_callee(t, p)]].fn
  <2>1. next_callee(t, p) = next_callee(s, p)
    BY DEF next_callee
  <2>2. next_callee(s, p) \in 1..Len(callees)
    BY <1>1, CallsFinite
  <2>3. callees[next_callee(s, p)] \in S
    BY <2>2
  <2>4. s[p].esc = is[callees[next_callee(s, p)]].fn
    BY DEF AlignedIn
  <2> QED
    BY <2>1, <2>3, <2>4
<1> QED
  BY <1>1, <1>2 DEF AlignedIn

LEMMA AlignedAppend ==
  ASSUME NEW s, IsSeq(s), NEW callees, NEW is, NEW js, NEW S, NEW e, NEW j,
         AlignedIn(s, callees, is), callees \in Seq(S),
         \A m \in S : js[m].fn = is[m].fn,
         e.type = "Call", e.esc = js[j].fn
  PROVE  AlignedIn(Append(s, e), Append(callees, j), js)
<1> DEFINE t == Append(s, e)
           n == Len(s) + 1
           cs == Append(callees, j)
<1>1. /\ Len(s) \in Nat /\ DOMAIN s = 1..Len(s)
      /\ DOMAIN t = 1..n /\ t[n] = e /\ \A i \in 1..Len(s) : t[i] = s[i]
  BY SeqIs, SeqAppend
<1>2. Calls(t) = Calls(s) \cup {n} /\ n \notin Calls(s)
  BY <1>1 DEF Calls
<1>3. /\ IsFiniteSet(Calls(s)) /\ Cardinality(Calls(s)) \in Nat
      /\ \A p \in Calls(s) : next_callee(s, p) \in 1..Cardinality(Calls(s))
  BY CallsFinite
<1>4. Cardinality(Calls(t)) = Cardinality(Calls(s)) + 1
  BY <1>2, <1>3, FS_AddElement
<1>5. /\ Len(cs) = Len(callees) + 1 /\ cs[Len(callees) + 1] = j
      /\ \A k \in 1..Len(callees) : cs[k] = callees[k]
  BY SeqTyped, SeqAppend
<1>6. Cardinality(Calls(s)) = Len(callees)
  BY DEF AlignedIn
<1> HIDE DEF cs
<1>7. ASSUME NEW p \in Calls(s) PROVE t[p].esc = js[cs[next_callee(t, p)]].fn
  <2>1. p \in 1..Len(s)
    BY <1>1 DEF Calls
  <2>2. {q \in Calls(t) : q <= p} = {q \in Calls(s) : q <= p}
    BY <2>1, <1>1, <1>2
  <2>3. next_callee(t, p) = next_callee(s, p)
    BY <2>2 DEF next_callee
  <2>4. next_callee(s, p) \in 1..Len(callees)
    BY <1>3, <1>6
  <2>5. callees[next_callee(s, p)] \in S
    BY <2>4
  <2>6. s[p].esc = is[callees[next_callee(s, p)]].fn
    BY DEF AlignedIn
  <2> QED
    BY <2>1, <2>3, <2>4, <2>5, <2>6, <1>1, <1>5
<1>8. t[n].esc = js[cs[next_callee(t, n)]].fn
  <2>1. \A q \in Calls(t) : q <= n
    BY <1>1, <1>2 DEF Calls
  <2>2. {q \in Calls(t) : q <= n} = Calls(t)
    BY <2>1
  <2>3. next_callee(t, n) = Len(callees) + 1
    BY <2>2, <1>4, <1>6 DEF next_callee
  <2> QED
    BY <2>3, <1>1, <1>5
<1> QED
  BY <1>2, <1>4, <1>5, <1>6, <1>7, <1>8 DEF AlignedIn, cs
-----------------------------------------------------------------------------
(* What the steps do to the FuncInfos                                      *)

(* No FuncInfo becomes that of another function.                           *)
FnKept ==
  /\ Len(infos) \in Nat /\ Len(infos') \in Nat /\ Len(infos) <= Len(infos')
  /\ DOMAIN infos = 1..Len(infos) /\ DOMAIN infos' = 1..Len(infos')
  /\ \A i \in DOMAIN infos : infos'[i].fn = infos[i].fn

ParamsKept == \A i \in DOMAIN infos : infos'[i].params = infos[i].params

(* The accesses t of a FuncInfo have the calls that s had.                 *)
SameCalls(s, t) == Calls(t) = Calls(s) /\ \A p \in Calls(s) : t[p].esc = s[p].esc

(* A step that adds neither FuncInfos nor calls.                           *)
LEMMA InfosChanged ==
  ASSUME InfosGood, CallsAligned,
         infos' = [i \in DOMAIN infos |-> infos'[i]],
         \A i \in DOMAIN infos :
           /\ InfoGood(infos'[i], i, Len(infos))
           /\ infos'[i].fn = infos[i].fn /\ infos'[i].callees = infos[i].callees
           /\ SameCalls(infos[i].accesses, infos'[i].accesses)
  PROVE  InfosGood' /\ CallsAligned' /\ FnKept /\ DOMAIN infos' = DOMAIN infos
<1>1. Len(infos) \in Nat /\ DOMAIN infos = 1..Len(infos)
  BY SeqIs DEF InfosGood
<1>2. IsSeq(infos') /\ Len(infos') = Len(infos) /\ DOMAIN infos' = 1..Len(infos)
  BY <1>1, SeqMade
<1>3. InfosGood'
  <2>1. IsSeq(infos)'
    BY <1>2 DEF IsSeq
  <2>2. \A i \in DOMAIN infos' : InfoGood(infos'[i], i, Len(infos'))
    BY <1>1, <1>2
  <2> QED
    BY <2>1, <2>2 DEF InfosGood, InfoGood
<1>4. FnKept
  BY <1>1, <1>2 DEF FnKept
<1>5. ASSUME NEW i \in DOMAIN infos
      PROVE  AlignedIn(infos'[i].accesses, infos[i].callees, infos')
  <2>1. /\ IsSeq(infos[i].accesses)
        /\ infos[i].callees \in Seq((i + 1)..Len(infos))
    BY DEF InfosGood, InfoGood
  <2>2. AlignedIn(infos[i].accesses, infos[i].callees, infos)
    BY AlignedIs
  <2>3. \A j \in (i + 1)..Len(infos) : infos'[j].fn = infos[j].fn
    BY <1>1
  <2>4. SameCalls(infos[i].accesses, infos'[i].accesses)
    OBVIOUS
  <2> HIDE DEF AlignedIn
  <2> QED
    BY <2>1, <2>2, <2>3, <2>4, AlignedKept DEF SameCalls
<1>6. \A i \in DOMAIN infos' : AlignedIn(infos'[i].accesses, infos'[i].callees, infos')
  BY <1>1, <1>2, <1>5
<1>7. CallsAligned'
  BY <1>6 DEF CallsAligned, AlignedIn
<1> QED
  BY <1>1, <1>2, <1>3, <1>4, <1>7

LEMMA CallsConcat ==
  ASSUME NEW s, NEW t, IsSeq(s), IsSeq(t), \A p \in DOMAIN t : t[p].type # "Call"
  PROVE  SameCalls(s, s \o t)
<1>1. /\ Len(s) \in Nat /\ DOMAIN s = 1..Len(s) /\ Len(t) \in Nat /\ DOMAIN t = 1..Len(t)
      /\ Len(s \o t) = Len(s) + Len(t) /\ DOMAIN (s \o t) = 1..(Len(s) + Len(t))
      /\ \A i \in 1..Len(s) : (s \o t)[i] = s[i]
      /\ \A i \in DOMAIN (s \o t) :
           \/ i \in DOMAIN s /\ (s \o t)[i] = s[i]
           \/ i - Len(s) \in DOMAIN t /\ (s \o t)[i] = t[i - Len(s)]
  BY SeqIs, SeqConcat
<1>2. Calls(s \o t) = Calls(s)
  BY <1>1 DEF Calls
<1> QED
  BY <1>1, <1>2 DEF SameCalls, Calls

LEMMA PushStep ==
  ASSUME InfosGood, CallsAligned, current \in DOMAIN infos,
         NEW E, IsSeq(E), \A p \in DOMAIN E : EntryGood(E[p]) /\ E[p].type # "Call",
         Push(E)
  PROVE  InfosGood' /\ CallsAligned' /\ FnKept /\ ParamsKept
<1> DEFINE s == infos[current].accesses
           new == [infos[current] EXCEPT !.accesses = s \o E]
<1>1. infos' = [infos EXCEPT ![current] = new]
  BY DEF Push
<1>2. \A i \in DOMAIN infos : InfoGood(infos[i], i, Len(infos))
  BY DEF InfosGood
<1>3. IsSeq(s) /\ \A p \in DOMAIN s : EntryGood(s[p])
  BY <1>2 DEF InfoGood
<1>4. /\ IsSeq(s \o E) /\ \A p \in DOMAIN (s \o E) : EntryGood((s \o E)[p])
      /\ SameCalls(s, s \o E)
  <2> HIDE DEF s, EntryGood
  <2> QED
    BY <1>3, SeqConcat, CallsConcat
<1>5. /\ DOMAIN new = DOMAIN infos[current] /\ new.accesses = s \o E
      /\ new.fn = infos[current].fn /\ new.callees = infos[current].callees
      /\ new.params = infos[current].params /\ new.locals = infos[current].locals
  BY <1>2 DEF InfoGood
<1>6. InfoGood(new, current, Len(infos))
  <2> HIDE DEF s, EntryGood, new
  <2> QED
    BY <1>2, <1>4, <1>5 DEF InfoGood
<1>7. \A i \in DOMAIN infos : infos'[i] = IF i = current THEN new ELSE infos[i]
  BY <1>1
<1>8. infos' = [i \in DOMAIN infos |-> infos'[i]]
  BY <1>1
<1>9. \A i \in DOMAIN infos : SameCalls(infos[i].accesses, infos[i].accesses)
  BY DEF SameCalls
<1> HIDE DEF new, s, InfoGood, SameCalls
<1>10. \A i \in DOMAIN infos :
           /\ InfoGood(infos'[i], i, Len(infos))
           /\ infos'[i].fn = infos[i].fn /\ infos'[i].callees = infos[i].callees
           /\ infos'[i].params = infos[i].params
           /\ SameCalls(infos[i].accesses, infos'[i].accesses)
  BY <1>2, <1>4, <1>5, <1>6, <1>7, <1>9 DEF s
<1>11. InfosGood' /\ CallsAligned' /\ FnKept
  BY <1>8, <1>10, InfosChanged
<1> QED
  BY <1>10, <1>11 DEF ParamsKept
LEMMA DeclStep ==
  ASSUME InfosGood, CallsAligned, current \in DOMAIN infos, NEW v,
         \/ infos' = [infos EXCEPT ![current].locals = Append(@, v)]
         \/ infos' = [infos EXCEPT ![current].params = Append(@, v)]
  PROVE  /\ InfosGood' /\ CallsAligned' /\ FnKept
         /\ \A i \in DOMAIN infos :
              \/ infos'[i].params = infos[i].params
              \/ infos'[i].params # <<>>
<1> DEFINE old == infos[current]
           new == infos'[current]
<1>1. \A i \in DOMAIN infos : InfoGood(infos[i], i, Len(infos))
  BY DEF InfosGood
<1>2. IsSeq(old.locals) /\ IsSeq(old.params)
  BY <1>1 DEF InfoGood
<1>3. /\ IsSeq(Append(old.locals, v)) /\ IsSeq(Append(old.params, v))
      /\ Append(old.params, v) # <<>>
  <2> HIDE DEF old
  <2> QED
    BY <1>2, SeqAppend
<1>4. /\ infos' = [i \in DOMAIN infos |-> infos'[i]]
      /\ \A i \in DOMAIN infos : i # current => infos'[i] = infos[i]
      /\ \/ new = [old EXCEPT !.locals = Append(old.locals, v)]
         \/ new = [old EXCEPT !.params = Append(old.params, v)]
  OBVIOUS
<1>5. DOMAIN old = InfoFields
  BY <1>1 DEF InfoGood
<1>6. /\ DOMAIN new = DOMAIN old /\ new.fn = old.fn
      /\ new.callees = old.callees /\ new.accesses = old.accesses
      /\ new.params \in {old.params, Append(old.params, v)}
      /\ new.locals \in {old.locals, Append(old.locals, v)}
  <2> HIDE DEF old, new
  <2> QED
    BY <1>4, <1>5 DEF InfoFields
<1>7. InfoGood(new, current, Len(infos))
  <2> HIDE DEF new, EntryGood
  <2> QED
    BY <1>1, <1>2, <1>3, <1>6 DEF InfoGood
<1>8. \A i \in DOMAIN infos : SameCalls(infos[i].accesses, infos[i].accesses)
  BY DEF SameCalls
<1> HIDE DEF InfoGood, SameCalls
<1>9. \A i \in DOMAIN infos :
           /\ InfoGood(infos'[i], i, Len(infos))
           /\ infos'[i].fn = infos[i].fn /\ infos'[i].callees = infos[i].callees
           /\ SameCalls(infos[i].accesses, infos'[i].accesses)
  BY <1>1, <1>4, <1>6, <1>7, <1>8
<1>10. InfosGood' /\ CallsAligned' /\ FnKept
  BY <1>4, <1>9, InfosChanged
<1> QED
  BY <1>3, <1>4, <1>6, <1>10

LEMMA FuncInfoGood ==
  ASSUME NEW info, NEW fn, NEW h, NEW d, info = FuncInfo(fn, h, d),
         NEW i \in Nat, NEW n \in Nat, NEW is
  PROVE  /\ InfoGood(info, i, n) /\ AlignedIn(info.accesses, info.callees, is)
         /\ info.accesses = <<>> /\ info.callees = <<>>
         /\ info.fn = fn /\ info.params = <<>>
         /\ info.in_system_header = h /\ info.has_definition = d
<1>1. /\ DOMAIN info = InfoFields
      /\ info.accesses = <<>> /\ info.callees = <<>>
      /\ info.params = <<>> /\ info.locals = <<>> /\ info.fn = fn
      /\ info.in_system_header = h /\ info.has_definition = d
  BY DEF FuncInfo, InfoFields
<1>2. IsSeq(<<>>) /\ DOMAIN <<>> = {} /\ Len(<<>>) = 0 /\ <<>> \in Seq((i + 1)..n)
  <2>1. <<>> \in Seq((i + 1)..n)
    OBVIOUS
  <2> QED
    BY <2>1, NoneIsSeq
<1>3. Calls(<<>>) = {} /\ Cardinality({}) = 0
  BY <1>2, FS_EmptySet DEF Calls
<1>4. InfoGood(info, i, n)
  BY <1>1, <1>2 DEF InfoGood
<1>5. AlignedIn(info.accesses, info.callees, is)
  BY <1>1, <1>2, <1>3 DEF AlignedIn
<1> QED
  BY <1>1, <1>4, <1>5

LEMMA CalleeStep ==
  ASSUME InfosGood, CallsAligned, current \in DOMAIN infos, NEW fn,
         infos' = Append([infos EXCEPT ![current].callees = Append(@, Len(infos) + 1),
                                       ![current].accesses = Append(@, CallEntry(fn))],
                         Callee(fn))
  PROVE  /\ InfosGood' /\ CallsAligned' /\ FnKept /\ ParamsKept
         /\ Len(infos') = Len(infos) + 1 /\ infos'[Len(infos) + 1] = Callee(fn)
<1> DEFINE old == infos[current]
           n == Len(infos)
           e == CallEntry(fn)
           acc == Append(old.accesses, e)
           cs == Append(old.callees, n + 1)
           new == [old EXCEPT !.callees = cs, !.accesses = acc]
           mid == [infos EXCEPT ![current] = new]
<1>1. n \in Nat /\ DOMAIN infos = 1..n
  BY SeqIs DEF InfosGood
<1>2. infos' = Append(mid, Callee(fn))
  OBVIOUS
<1>3. IsSeq(mid) /\ Len(mid) = n /\ \A i \in 1..n : mid[i] = IF i = current THEN new ELSE infos[i]
  <2>1. DOMAIN mid = 1..n /\ mid = [i \in 1..n |-> mid[i]]
    BY <1>1
  <2>2. \A i \in 1..n : mid[i] = IF i = current THEN new ELSE infos[i]
    BY <1>1
  <2> HIDE DEF mid
  <2>3. IsSeq(mid) /\ Len(mid) = n
    BY <2>1, <1>1, SeqMade
  <2> QED
    BY <2>2, <2>3
<1> HIDE DEF mid, new
<1>4. /\ IsSeq(infos') /\ Len(infos') = n + 1 /\ DOMAIN infos' = 1..(n + 1)
      /\ infos'[n + 1] = Callee(fn)
      /\ \A i \in 1..n : infos'[i] = IF i = current THEN new ELSE infos[i]
  <2>1. /\ IsSeq(Append(mid, Callee(fn))) /\ Len(Append(mid, Callee(fn))) = n + 1
        /\ Append(mid, Callee(fn))[n + 1] = Callee(fn)
        /\ \A i \in 1..n : Append(mid, Callee(fn))[i] = mid[i]
    BY <1>3, SeqAppend
  <2>2. DOMAIN infos' = 1..(n + 1)
    BY <1>2, <2>1, SeqIs
  <2> QED
    BY <1>2, <1>3, <2>1, <2>2
<1> USE DEF new
<1>5. \A i \in DOMAIN infos : InfoGood(infos[i], i, n)
  BY DEF InfosGood
<1>6. /\ DOMAIN new = DOMAIN old /\ new.accesses = acc /\ new.callees = cs
      /\ new.fn = old.fn /\ new.params = old.params /\ new.locals = old.locals
  BY <1>5 DEF InfoGood, InfoFields
<1>7. EntryGood(e) /\ e.type = "Call" /\ e.esc = fn
  BY DEF EntryGood, CallEntry, VarAccess, EntryTypes, NO_IDX
<1>8. /\ IsSeq(old.accesses) /\ \A p \in DOMAIN old.accesses : EntryGood(old.accesses[p])
      /\ old.callees \in Seq((current + 1)..n)
  BY <1>5 DEF InfoGood
<1>9. IsSeq(acc) /\ \A p \in DOMAIN acc : EntryGood(acc[p])
  <2>1. /\ Len(old.accesses) \in Nat /\ DOMAIN old.accesses = 1..Len(old.accesses)
        /\ IsSeq(acc) /\ DOMAIN acc = 1..(Len(old.accesses) + 1)
        /\ acc[Len(old.accesses) + 1] = e
        /\ \A i \in 1..Len(old.accesses) : acc[i] = old.accesses[i]
    BY <1>8, SeqIs, SeqAppend
  <2> HIDE DEF acc, e, EntryGood, old, new, cs
  <2>2. ASSUME NEW p \in DOMAIN acc PROVE EntryGood(acc[p])
    <3>1. CASE p = Len(old.accesses) + 1
      BY <3>1, <2>1, <1>7
    <3>2. CASE p \in 1..Len(old.accesses)
      BY <3>2, <2>1, <1>8
    <3> QED
      BY <3>1, <3>2, <2>1
  <2> QED
    BY <2>1, <2>2
<1>10. cs \in Seq((current + 1)..(n + 1))
  <2>1. old.callees \in Seq((current + 1)..(n + 1)) /\ n + 1 \in (current + 1)..(n + 1)
    BY <1>1, <1>8
  <2> QED
    BY <2>1, AppendProperties
<1>11. InfoGood(new, current, n + 1)
  <2> HIDE DEF new, acc, cs, e, EntryGood
  <2> QED
    BY <1>5, <1>6, <1>9, <1>10 DEF InfoGood
<1>12. \A i \in 1..n : InfoGood(infos[i], i, n + 1)
  <2>1. ASSUME NEW i \in 1..n PROVE infos[i].callees \in Seq((i + 1)..(n + 1))
    <3>1. infos[i].callees \in Seq((i + 1)..n)
      BY <1>1, <1>5 DEF InfoGood
    <3>2. (i + 1)..n \subseteq (i + 1)..(n + 1)
      BY <1>1
    <3>3. \A S, T, q : S \subseteq T /\ q \in Seq(S) => q \in Seq(T)
      BY SeqWiden
    <3> HIDE DEF n
    <3> QED
      BY <3>1, <3>2, <3>3
  <2> HIDE DEF EntryGood, n
  <2> QED
    BY <1>1, <1>5, <2>1 DEF InfoGood
<1>13. InfoGood(Callee(fn), n + 1, n + 1)
  BY <1>1, FuncInfoGood DEF Callee
<1>14. InfosGood'
  <2>1. IsSeq(infos)'
    BY <1>4 DEF IsSeq
  <2>2. \A i \in DOMAIN infos' : InfoGood(infos'[i], i, Len(infos'))
    <3> HIDE DEF InfoGood, new, n
    <3> QED
      BY <1>1, <1>4, <1>11, <1>12, <1>13
  <2> QED
    BY <2>1, <2>2 DEF InfosGood, InfoGood
<1>15. \A i \in 1..n : infos'[i].fn = infos[i].fn /\ infos'[i].params = infos[i].params
  <2> HIDE DEF new
  <2> QED
    BY <1>4, <1>6
<1>16. FnKept /\ ParamsKept
  BY <1>1, <1>4, <1>15 DEF FnKept, ParamsKept
<1>17. ASSUME NEW i \in 1..n PROVE AlignedIn(infos[i].accesses, infos[i].callees, infos')
  <2>1. IsSeq(infos[i].accesses) /\ infos[i].callees \in Seq((i + 1)..n)
    BY <1>1, <1>5 DEF InfoGood
  <2>2. AlignedIn(infos[i].accesses, infos[i].callees, infos)
    BY <1>1, AlignedIs
  <2>3. \A j \in (i + 1)..n : infos'[j].fn = infos[j].fn
    BY <1>1, <1>15
  <2> HIDE DEF AlignedIn
  <2> QED
    BY <2>1, <2>2, <2>3, AlignedKept
<1>18. AlignedIn(acc, cs, infos')
  <2>1. AlignedIn(old.accesses, old.callees, infos)
    BY <1>1, AlignedIs
  <2>2. \A j \in (current + 1)..n : infos'[j].fn = infos[j].fn
    BY <1>1, <1>15
  <2>3. e.esc = infos'[n + 1].fn
    BY <1>4, <1>7 DEF Callee, FuncInfo
  <2> HIDE DEF AlignedIn, e, n, old, new
  <2>4. \A s, callees, S, m :
          (/\ IsSeq(s) /\ AlignedIn(s, callees, infos) /\ callees \in Seq(S)
           /\ \A j \in S : infos'[j].fn = infos[j].fn
           /\ e.esc = infos'[m].fn)
          => AlignedIn(Append(s, e), Append(callees, m), infos')
    <3>1. e.type = "Call"
      BY <1>7
    <3>2. \A is, js :
            \A s, callees, S, m :
              (/\ IsSeq(s) /\ AlignedIn(s, callees, is) /\ callees \in Seq(S)
               /\ \A j \in S : js[j].fn = is[j].fn
               /\ e.esc = js[m].fn)
              => AlignedIn(Append(s, e), Append(callees, m), js)
      BY <3>1, AlignedAppend
    <3> QED
      BY <3>2
  <2> QED
    BY <1>8, <2>1, <2>2, <2>3, <2>4
<1>19. AlignedIn(Callee(fn).accesses, Callee(fn).callees, infos')
  BY <1>1, FuncInfoGood DEF Callee
<1>20. \A i \in DOMAIN infos' : AlignedIn(infos'[i].accesses, infos'[i].callees, infos')
  <2> HIDE DEF AlignedIn, new, acc, cs, n
  <2>1. SUFFICES ASSUME NEW i \in 1..(n + 1)
                 PROVE  AlignedIn(infos'[i].accesses, infos'[i].callees, infos')
    BY <1>4
  <2>2. CASE i = n + 1
    BY <2>2, <1>4, <1>19
  <2>3. CASE i = current
    BY <2>3, <1>1, <1>4, <1>6, <1>18
  <2>4. CASE i \in 1..n /\ i # current
    BY <2>4, <1>4, <1>17
  <2> QED
    BY <2>2, <2>3, <2>4, <1>1
<1>21. CallsAligned'
  BY <1>20 DEF CallsAligned, AlignedIn
<1> QED
  BY <1>4, <1>14, <1>16, <1>21
LEMMA DefinitionStep ==
  ASSUME InfosGood, CallsAligned, NEW fn, NEW t, IsSeq(t),
         \A k \in DOMAIN t : t[k] = Root(fn), infos' = infos \o t
  PROVE  /\ InfosGood' /\ CallsAligned' /\ FnKept
         /\ \A i \in DOMAIN infos' : i \in DOMAIN infos \/ infos'[i].fn = fn
<1> DEFINE n == Len(infos)
           c == Len(t)
<1>1. n \in Nat /\ DOMAIN infos = 1..n /\ IsSeq(infos)
  BY SeqIs DEF InfosGood
<1>2. c \in Nat /\ \A k \in 1..c : t[k] = Root(fn)
  BY SeqIs
<1>5. /\ IsSeq(infos') /\ Len(infos') = n + c
      /\ \A i \in 1..n : infos'[i] = infos[i]
      /\ \A i \in 1..c : infos'[n + i] = Root(fn)
  BY <1>1, <1>2, SeqConcat
<1> HIDE DEF n, c
<1>6. DOMAIN infos' = 1..(n + c) /\ \A i \in 1..(n + c) : i \in 1..n \/ infos'[i] = Root(fn)
  <2>1. DOMAIN infos' = 1..(n + c)
    BY <1>5, SeqIs DEF n, c
  <2>2. ASSUME NEW i \in 1..(n + c), i \notin 1..n PROVE infos'[i] = Root(fn)
    <3>1. i - n \in 1..c /\ n + (i - n) = i
      BY <2>2, <1>1, <1>2
    <3> QED
      BY <3>1, <1>5
  <2> QED
    BY <2>1, <2>2
<1>7. ASSUME NEW i \in 1..(n + c)
      PROVE  /\ InfoGood(infos'[i], i, n + c)
             /\ AlignedIn(infos'[i].accesses, infos'[i].callees, infos')
  <2>1. CASE i \in 1..n
    <3>1. infos'[i] = infos[i] /\ InfoGood(infos[i], i, n)
      BY <2>1, <1>1, <1>5 DEF InfosGood, n
    <3>2. IsSeq(infos[i].accesses) /\ infos[i].callees \in Seq((i + 1)..n)
      BY <3>1 DEF InfoGood
    <3>3. infos[i].callees \in Seq((i + 1)..(n + c))
      BY <3>2, <2>1, <1>1, <1>2
    <3>4. InfoGood(infos[i], i, n + c)
      <4> HIDE DEF EntryGood, n
      <4> QED
        BY <3>1, <3>3 DEF InfoGood
    <3>5. AlignedIn(infos[i].accesses, infos[i].callees, infos)
      BY <2>1, <1>1, AlignedIs
    <3>6. \A j \in (i + 1)..n : infos'[j].fn = infos[j].fn
      BY <2>1, <1>1, <1>5
    <3>7. AlignedIn(infos[i].accesses, infos[i].callees, infos')
      <4> HIDE DEF AlignedIn
      <4> QED
        BY ZenonT(30), <3>2, <3>5, <3>6, AlignedKept
    <3> QED
      BY <3>1, <3>4, <3>7
  <2>2. CASE i \notin 1..n
    <3>1. infos'[i] = Root(fn) /\ i \in Nat /\ n + c \in Nat
      BY <2>2, <1>1, <1>2, <1>6
    <3>2. /\ InfoGood(Root(fn), i, n + c)
          /\ AlignedIn(Root(fn).accesses, Root(fn).callees, infos')
      BY <3>1, FuncInfoGood DEF Root
    <3> QED
      BY <3>1, <3>2
  <2> QED
    BY <2>1, <2>2
<1> USE DEF n
<1>8. InfosGood'
  <2>1. IsSeq(infos)'
    BY <1>5 DEF IsSeq
  <2>2. \A i \in DOMAIN infos' : InfoGood(infos'[i], i, Len(infos'))
    BY <1>5, <1>6, <1>7
  <2> QED
    BY <2>1, <2>2 DEF InfosGood, InfoGood
<1>9. CallsAligned'
  <2>1. \A i \in DOMAIN infos' : AlignedIn(infos'[i].accesses, infos'[i].callees, infos')
    BY <1>6, <1>7
  <2> QED
    BY <2>1 DEF CallsAligned, AlignedIn
<1>10. FnKept
  BY <1>1, <1>2, <1>5, <1>6 DEF FnKept
<1>11. Root(fn).fn = fn
  BY DEF Root, FuncInfo
<1> QED
  BY <1>1, <1>6, <1>8, <1>9, <1>10, <1>11

LEMMA MarkedGood ==
  ASSUME NEW va, EntryGood(va), NEW info, NEW params, NEW args
  PROVE  LET w == Marked(info, Renamed(params, args, va))
         IN  EntryGood(w) /\ w.esc = va.esc /\ (w.type = "Call" <=> va.type = "Call")
<1> DEFINE r == Renamed(params, args, va)
<1>1. /\ DOMAIN r = {"type", "usr", "esc", "idx", "origin", "ptr"}
      /\ r.type = va.type /\ r.esc = va.esc /\ r.idx = va.idx
  <2>1. r = va \/ \E u : r = [va EXCEPT !.usr = u]
    BY DEF Renamed
  <2> QED
    BY <2>1 DEF EntryGood
<1> HIDE DEF r
<1>2. lock_primitive_type(r.esc) \in {"LockAcquire", "LockRelease", "Null"}
  BY DEF lock_primitive_type
<1>3. Private(info, r) => r.type # "Call"
  BY DEF Private, Placeholder
<1>4. LET w == Marked(info, r)
      IN  \/ w = r
          \/ /\ r.idx = 0
             /\ w \in {[r EXCEPT !.type = "LockAcquire"], [r EXCEPT !.type = "LockRelease"]}
          \/ r.type # "Call" /\ w = [r EXCEPT !.type = "Null"]
  BY <1>2, <1>3 DEF Marked
<1>5. r.type \in EntryTypes /\ (r.type = "Call" => r.idx # 0)
  BY <1>1 DEF EntryGood, NO_IDX
<1>6. LET w == Marked(info, r)
      IN  EntryGood(w) /\ w.esc = va.esc /\ (w.type = "Call" <=> va.type = "Call")
  <2> DEFINE w == Marked(info, r)
  <2> HIDE DEF w
  <2>1. \/ w = r
        \/ /\ r.idx = 0
           /\ w \in {[r EXCEPT !.type = "LockAcquire"], [r EXCEPT !.type = "LockRelease"]}
        \/ r.type # "Call" /\ w = [r EXCEPT !.type = "Null"]
    BY <1>4 DEF w
  <2>2. EntryGood(w) /\ w.esc = va.esc /\ (w.type = "Call" <=> va.type = "Call")
    BY <2>1, <1>1, <1>5 DEF EntryGood, EntryTypes
  <2> QED
    BY <2>2 DEF w
<1> QED
  BY <1>6 DEF r
(* A set of naturals has a least element.                                  *)
LEMMA LeastOf ==
  ASSUME NEW T, T \subseteq Nat, T # {}
  PROVE  \E m \in T : \A n \in T : m <= n
<1> DEFINE R == OpToRel(<, Nat)
<1>1. PICK m \in T : \A n \in T : <<n, m>> \notin R
  BY NatLessThanWellFounded, WFMin
<1>2. ASSUME NEW n \in T PROVE m <= n
  <2>1. m \in Nat /\ n \in Nat
    OBVIOUS
  <2>2. ~(n < m)
    BY <1>1, <2>1 DEF OpToRel
  <2> QED
    BY <2>1, <2>2
<1> QED
  BY <1>2

(* Accesses rewritten one by one.                                          *)
LEMMA RewrittenGood ==
  ASSUME NEW s, IsSeq(s), \A p \in DOMAIN s : EntryGood(s[p]),
         NEW t, t = [p \in DOMAIN s |-> t[p]],
         \A p \in DOMAIN s :
           EntryGood(t[p]) /\ t[p].esc = s[p].esc /\ (t[p].type = "Call" <=> s[p].type = "Call")
  PROVE  IsSeq(t) /\ (\A p \in DOMAIN t : EntryGood(t[p])) /\ SameCalls(s, t)
<1>1. Len(s) \in Nat /\ DOMAIN s = 1..Len(s)
  BY SeqIs
<1>2. IsSeq(t) /\ DOMAIN t = 1..Len(s)
  BY <1>1, SeqMade
<1> QED
  BY <1>1, <1>2 DEF SameCalls, Calls

LEMMA UnwoundGood ==
  ASSUME NEW info, NEW i, NEW n, InfoGood(info, i, n), NEW args
  PROVE  LET new == UnwoundOwn(info, args)
         IN  /\ InfoGood(new, i, n) /\ SameCalls(info.accesses, new.accesses)
             /\ new.fn = info.fn /\ new.callees = info.callees /\ new.params = info.params
<1> DEFINE s == info.accesses
           t == [p \in DOMAIN s |-> Marked(info, Renamed(info.params, args, s[p]))]
           new == UnwoundOwn(info, args)
<1>1. IsSeq(s) /\ \A p \in DOMAIN s : EntryGood(s[p])
  BY DEF InfoGood
<1>2. t = [p \in DOMAIN s |-> t[p]]
  OBVIOUS
<1>3. \A p \in DOMAIN s :
        EntryGood(t[p]) /\ t[p].esc = s[p].esc /\ (t[p].type = "Call" <=> s[p].type = "Call")
  <2>1. ASSUME NEW p \in DOMAIN s
        PROVE  EntryGood(t[p]) /\ t[p].esc = s[p].esc /\ (t[p].type = "Call" <=> s[p].type = "Call")
    <3>1. t[p] = Marked(info, Renamed(info.params, args, s[p])) /\ EntryGood(s[p])
      BY <1>1
    <3> HIDE DEF t, s, EntryGood
    <3> QED
      BY <3>1, MarkedGood
  <2> QED
    BY <2>1
<1>4. new = info \/ new = [info EXCEPT !.accesses = t]
  BY DEF UnwoundOwn
<1> HIDE DEF t
<1>5. IsSeq(t) /\ (\A p \in DOMAIN t : EntryGood(t[p])) /\ SameCalls(s, t)
  <2> HIDE DEF s, EntryGood
  <2> QED
    BY <1>1, <1>2, <1>3, RewrittenGood
<1>6. SameCalls(s, s)
  BY DEF SameCalls
<1>7. /\ InfoGood(new, i, n) /\ SameCalls(info.accesses, new.accesses)
      /\ new.fn = info.fn /\ new.callees = info.callees /\ new.params = info.params
  <2>1. CASE new = info
    BY <2>1, <1>6
  <2>2. CASE new = [info EXCEPT !.accesses = t]
    <3>1. /\ DOMAIN new = DOMAIN info /\ new.accesses = t /\ new.locals = info.locals
          /\ new.fn = info.fn /\ new.callees = info.callees /\ new.params = info.params
      <4> HIDE DEF new
      <4> QED
        BY <2>2 DEF InfoGood
    <3> HIDE DEF new, EntryGood, SameCalls
    <3> QED
      BY <3>1, <1>5 DEF InfoGood
  <2> QED
    BY <2>1, <2>2, <1>4
<1> QED
  BY <1>7

LEMMA ResolvedGood ==
  ASSUME NEW info, NEW i, NEW n, InfoGood(info, i, n),
         NEW is, NEW j, NEW k, is[is[j].callees[k]] = info
  PROVE  LET new == [info EXCEPT !.accesses = resolve_var_access_alias(is, j, k)]
         IN  /\ InfoGood(new, i, n) /\ SameCalls(info.accesses, new.accesses)
             /\ new.fn = info.fn /\ new.callees = info.callees /\ new.params = info.params
<1> DEFINE s == info.accesses
           alias == CallAt(is[j].accesses, k)
           t == [p \in DOMAIN s |->
                   IF ~Placeholder(s[p]) /\ s[p].usr = Argument(info.fn, alias.idx)
                   THEN [s[p] EXCEPT !.usr = alias.usr] ELSE s[p]]
           u == resolve_var_access_alias(is, j, k)
           new == [info EXCEPT !.accesses = u]
<1>1. IsSeq(s) /\ \A p \in DOMAIN s : EntryGood(s[p])
  BY DEF InfoGood
<1>2. t = [p \in DOMAIN s |-> t[p]]
  OBVIOUS
<1>3. \A p \in DOMAIN s :
        EntryGood(t[p]) /\ t[p].esc = s[p].esc /\ (t[p].type = "Call" <=> s[p].type = "Call")
  <2>1. \A p \in DOMAIN s : t[p] = s[p] \/ \E x : t[p] = [s[p] EXCEPT !.usr = x]
    OBVIOUS
  <2> HIDE DEF t
  <2> QED
    BY ZenonT(60), <2>1, <1>1 DEF EntryGood
<1>4. u = s \/ u = t
  BY DEF resolve_var_access_alias
<1> HIDE DEF t, u
<1>5. IsSeq(t) /\ (\A p \in DOMAIN t : EntryGood(t[p])) /\ SameCalls(s, t)
  <2> HIDE DEF s, EntryGood
  <2> QED
    BY <1>1, <1>2, <1>3, RewrittenGood
<1>6. SameCalls(s, s)
  BY DEF SameCalls
<1>7. IsSeq(u) /\ (\A p \in DOMAIN u : EntryGood(u[p])) /\ SameCalls(s, u)
  BY <1>1, <1>4, <1>5, <1>6
<1>8. /\ DOMAIN new = DOMAIN info /\ new.accesses = u /\ new.locals = info.locals
      /\ new.fn = info.fn /\ new.callees = info.callees /\ new.params = info.params
  BY DEF InfoGood
<1>9. InfoGood(new, i, n)
  <2> HIDE DEF new, EntryGood, SameCalls
  <2> QED
    BY <1>7, <1>8 DEF InfoGood
<1> QED
  BY <1>7, <1>8, <1>9 DEF u

LEMMA UnwindStep ==
  ASSUME InfosGood, CallsAligned, NEW i \in DOMAIN infos, NEW args,
         infos' = unwind_func_info(infos, i, args)
  PROVE  InfosGood' /\ CallsAligned' /\ FnKept /\ ParamsKept /\ DOMAIN infos' = DOMAIN infos
<1> DEFINE n == Len(infos)
           cs == infos[i].callees
           kth(j) == SelectInSeq(cs, LAMBDA m : m = j)
<1>1. n \in Nat /\ DOMAIN infos = 1..n /\ \A j \in DOMAIN infos : InfoGood(infos[j], j, n)
  BY SeqIs DEF InfosGood
<1>2. Len(cs) \in Nat
  BY <1>1 DEF InfoGood
<1>3. ASSUME NEW j \in DOMAIN infos, Contains(cs, j) PROVE cs[kth(j)] = j
  <2> DEFINE I == {m \in 1..Len(cs) : cs[m] = j}
  <2>1. I # {} /\ I \subseteq Nat
    BY <1>2, <1>3 DEF Contains
  <2>2. kth(j) = Min(I)
    BY <2>1 DEF SelectInSeq
  <2> HIDE DEF I
  <2>3. \E m \in I : \A x \in I : m <= x
    BY <2>1, LeastOf
  <2>4. Min(I) \in I
    BY <2>3 DEF Min
  <2> QED
    BY <2>2, <2>4 DEF I
<1> DEFINE Good(j) ==
      /\ InfoGood(infos'[j], j, n)
      /\ infos'[j].fn = infos[j].fn /\ infos'[j].callees = infos[j].callees
      /\ infos'[j].params = infos[j].params
      /\ SameCalls(infos[j].accesses, infos'[j].accesses)
<1>4. ASSUME NEW j \in DOMAIN infos PROVE Good(j)
  <2>1. CASE j = i
    <3>1. infos'[j] = UnwoundOwn(infos[j], args)
      BY <2>1 DEF unwind_func_info
    <3> QED
      BY <3>1, <1>1, UnwoundGood
  <2>2. CASE j # i /\ Contains(cs, j)
    <3>1. infos'[j] = [infos[j] EXCEPT !.accesses = resolve_var_access_alias(infos, i, kth(j))]
      BY <2>2 DEF unwind_func_info
    <3>2. infos[infos[i].callees[kth(j)]] = infos[j]
      BY <2>2, <1>3
    <3> HIDE DEF kth
    <3> QED
      BY SMTT(30), <3>1, <3>2, <1>1, ResolvedGood
  <2>3. CASE j # i /\ ~Contains(cs, j)
    <3>1. infos'[j] = infos[j]
      BY <2>3 DEF unwind_func_info
    <3>2. SameCalls(infos[j].accesses, infos[j].accesses)
      BY DEF SameCalls
    <3> QED
      BY <3>1, <3>2, <1>1
  <2> QED
    BY <2>1, <2>2, <2>3
<1>5. infos' = [j \in DOMAIN infos |-> infos'[j]]
  BY DEF unwind_func_info
<1>6. InfosGood' /\ CallsAligned' /\ FnKept /\ DOMAIN infos' = DOMAIN infos
  BY <1>4, <1>5, InfosChanged
<1> QED
  BY <1>4, <1>6 DEF ParamsKept
-----------------------------------------------------------------------------
(* The steps of the walk                                                   *)

LEMMA ProgramFacts ==
  ASSUME ScalarsGood
  PROVE  /\ NoCursor \notin Cursors
         /\ \A c \in Cursors : Kids(c) \in Seq(Cursors) /\ Parent(c) \in Cursors \cup {NoCursor}
         /\ \A fn \in DOMAIN program.body : program.body[fn] \in Cursors
         /\ program.defs \in Seq(DOMAIN program.body)
         /\ program.command \in Seq([func : STRING, args : Seq(STRING)])
BY ProgramsAssumption DEF ScalarsGood, Cursors, Kids, Parent

LEMMA RootKids ==
  ASSUME ScalarsGood, NEW fn \in DOMAIN program.body
  PROVE  Kids(program.body[fn]) \in Seq(Cursors)
BY ProgramFacts

(* The cursor visited is in the tree, and stays on the tree.               *)
LEMMA HereFacts ==
  ASSUME ScalarsGood, FramesGood, phase = "visit", Top.todo # <<>>
  PROVE  /\ Here \in Cursors /\ Kids(Here) \in Seq(Cursors) /\ Tail(Top.todo) \in Seq(Cursors)
         /\ Recurse \in Seq(Cursors)
         /\ \A n \in DOMAIN Top.todo :
              \/ Top.todo[n] = Here
              \/ \E j \in DOMAIN Recurse : Recurse[j] = Top.todo[n]
<1>1. /\ frames \in Seq(FrameSet(program)) /\ Len(frames) > 0 /\ Len(frames) \in Nat
  BY LenProperties DEF FramesGood
<1>2. Top \in FrameSet(program)
  BY <1>1 DEF Top, Last
<1>3. Top.todo \in Seq(Cursors)
  BY <1>2 DEF FrameSet, Cursors
<1> DEFINE todo == Top.todo
           rest == Tail(todo)
<1> HIDE DEF todo
<1>4. /\ Here = todo[1] /\ Here \in Cursors /\ rest \in Seq(Cursors)
      /\ Len(rest) = Len(todo) - 1 /\ \A i \in 1..Len(rest) : rest[i] = todo[i + 1]
      /\ Len(todo) \in Nat /\ DOMAIN todo = 1..Len(todo)
  <2>1. todo \in Seq(Cursors) /\ todo # <<>>
    BY <1>3 DEF todo
  <2>2. Here = todo[1]
    BY <2>1 DEF Here, todo
  <2> QED
    BY <2>1, <2>2, HeadTailProperties, LenProperties
<1>5. Kids(Here) \in Seq(Cursors)
  BY <1>4, ProgramFacts
<1> DEFINE kids == Kids(Here)
<1> HIDE DEF kids, rest
<1>6. /\ Recurse \in Seq(Cursors) /\ DOMAIN Recurse = 1..(Len(kids) + Len(rest))
      /\ Len(kids) \in Nat /\ Len(rest) \in Nat
      /\ \A i \in 1..Len(rest) : Recurse[Len(kids) + i] = rest[i]
  <2>1. kids \in Seq(Cursors) /\ Recurse = kids \o rest
    BY <1>5 DEF kids, rest, todo, Recurse
  <2>2. IsSeq(kids) /\ IsSeq(rest)
    BY <2>1, <1>4, SeqTyped
  <2>3. /\ Len(kids) \in Nat /\ Len(rest) \in Nat
        /\ IsSeq(Recurse) /\ Len(Recurse) = Len(kids) + Len(rest)
        /\ \A i \in 1..Len(rest) : Recurse[Len(kids) + i] = rest[i]
    BY <2>1, <2>2, SeqIs, SeqConcat
  <2>4. Recurse \in Seq(Cursors)
    BY <2>1, <1>4, ConcatProperties
  <2> QED
    BY <2>3, <2>4, SeqIs
<1>7. ASSUME NEW n \in DOMAIN todo, todo[n] # Here
      PROVE  \E j \in DOMAIN Recurse : Recurse[j] = todo[n]
  <2>1. n - 1 \in 1..Len(rest) /\ rest[n - 1] = todo[n]
    BY <1>4, <1>7
  <2>2. Len(kids) + (n - 1) \in DOMAIN Recurse /\ Recurse[Len(kids) + (n - 1)] = todo[n]
    BY <2>1, <1>6
  <2> QED
    BY <2>2
<1> QED
  BY <1>4, <1>5, <1>6, <1>7 DEF todo, rest
LEMMA GoOnFacts ==
  ASSUME ScalarsGood, FramesGood, phase = "visit", Top.todo # <<>>
  PROVE  /\ GoOn \in Seq(FrameSet(program)) /\ Len(GoOn) = Len(frames) /\ Len(frames) \in Nat
         /\ \A n \in 1..Len(frames) :
              /\ GoOn[n].info = frames[n].info /\ GoOn[n].prev = frames[n].prev
              /\ GoOn[n].todo = IF n = Len(frames) THEN Recurse ELSE frames[n].todo
<1> DEFINE S == FrameSet(program)
           top == [Top EXCEPT !.todo = Recurse]
<1>1. /\ frames \in Seq(S) /\ Len(frames) > 0 /\ Len(frames) \in Nat
      /\ \A n \in 1..Len(frames) : frames[n] \in S
  BY LenProperties DEF FramesGood
<1>2. Top \in S /\ Top = frames[Len(frames)]
  BY <1>1 DEF Top, Last
<1>3. /\ top \in S /\ top.info = Top.info /\ top.prev = Top.prev /\ top.todo = Recurse
  BY <1>2, HereFacts DEF FrameSet, Cursors
<1>4. GoOn = [frames EXCEPT ![Len(frames)] = top]
  BY <1>2 DEF GoOn
<1> HIDE DEF S, top
<1>5. /\ GoOn \in Seq(S) /\ Len(GoOn) = Len(frames)
      /\ \A n \in 1..Len(frames) : GoOn[n] = IF n = Len(frames) THEN top ELSE frames[n]
  BY <1>1, <1>3, <1>4, ExceptSeq
<1> QED
  BY <1>1, <1>2, <1>3, <1>5 DEF S

(* CXChildVisit_Recurse within the function on top.                        *)
LEMMA WalkOn ==
  ASSUME ScalarsGood, RootsGood, FramesGood, ParamsGood, phase = "visit", Top.todo # <<>>,
         frames' = GoOn, UNCHANGED <<program, phase, next, current>>, FnKept,
         \A i \in DOMAIN infos : infos'[i].params = infos[i].params \/ infos'[i].params # <<>>,
         Kind(Here) = "Parm" => infos'[current].params # <<>>
  PROVE  RootsGood' /\ FramesGood' /\ ParamsGood' /\ current \in DOMAIN infos
<1>1. /\ GoOn \in Seq(FrameSet(program)) /\ Len(GoOn) = Len(frames) /\ Len(frames) \in Nat
      /\ \A n \in 1..Len(frames) :
           /\ GoOn[n].info = frames[n].info /\ GoOn[n].prev = frames[n].prev
           /\ GoOn[n].todo = IF n = Len(frames) THEN Recurse ELSE frames[n].todo
  BY GoOnFacts
<1>2. /\ Len(frames) > 0 /\ frames[1].info = next /\ frames[Len(frames)].info = current
      /\ \A n \in 1..Len(frames) : frames[n].info \in DOMAIN infos
      /\ \A n \in 2..Len(frames) : frames[n].prev = frames[n - 1].info
      /\ \A m \in 1..Len(frames), n \in 1..Len(frames) : m < n => frames[m].info < frames[n].info
  BY DEF FramesGood
<1>3. /\ DOMAIN infos \subseteq DOMAIN infos' /\ DOMAIN infos = 1..Len(infos)
      /\ Len(infos) \in Nat /\ Len(infos) <= Len(infos')
  BY DEF FnKept
<1>4. FramesGood'
  <2>1. frames' \in Seq(FrameSet(program')) /\ Len(frames') > 0
    BY <1>1, <1>2
  <2>2. frames'[1].info = next /\ frames'[Len(frames')].info = current
    BY <1>1, <1>2
  <2>3. \A n \in 1..Len(frames') : frames'[n].info \in DOMAIN infos'
    BY <1>1, <1>2, <1>3
  <2>4. \A n \in 2..Len(frames') : frames'[n].prev = frames'[n - 1].info
    BY <1>1, <1>2
  <2>5. \A m \in 1..Len(frames'), n \in 1..Len(frames') :
          m < n => frames'[m].info < frames'[n].info
    BY <1>1, <1>2
  <2> QED
    BY <2>1, <2>2, <2>3, <2>4, <2>5 DEF FramesGood, FrameSet
<1>5. next \in 1..NumRoots /\ NumRoots <= Len(infos) /\ NumRoots \in Nat
  <2>1. NumRoots \in Nat
    BY ProgramFacts, LenProperties DEF NumRoots
  <2> QED
    BY <2>1 DEF RootsGood, ScalarsGood
<1>6. \A r \in 1..NumRoots : r \in DOMAIN infos /\ infos'[r].fn = infos[r].fn
  BY <1>3, <1>5 DEF FnKept
<1>7. RootsGood'
  BY <1>3, <1>5, <1>6 DEF RootsGood, NumRoots
<1>8. \A r \in 1..NumRoots : Params(infos[r].fn)' = Params(infos[r].fn)
  BY <1>6 DEF Params, Kids, Kind
<1>9. \A r \in 1..NumRoots : Params(infos[r].fn) # {} /\ r < next => infos'[r].params # <<>>
  BY <1>6 DEF ParamsGood
<1>10. ASSUME Params(infos[next].fn) # {}, infos'[next].params = <<>>
       PROVE  \E n \in DOMAIN frames'[1].todo : Kind(frames'[1].todo[n]) = "Parm"
  <2>1. infos[next].params = <<>>
    BY <1>5, <1>6, <1>10
  <2>2. PICK n \in DOMAIN frames[1].todo : Kind(frames[1].todo[n]) = "Parm"
    BY <1>10, <2>1 DEF ParamsGood
  <2>3. CASE Len(frames) = 1
    <3>1. Top = frames[1] /\ frames'[1].todo = Recurse /\ current = next
      BY <2>3, <1>1, <1>2 DEF Top, Last
    <3>2. Kind(Here) # "Parm"
      BY <3>1, <1>10
    <3>3. \E j \in DOMAIN Recurse : Recurse[j] = frames[1].todo[n]
      BY <3>1, <3>2, <2>2, HereFacts
    <3> QED
      BY <3>1, <3>3, <2>2
  <2>4. CASE Len(frames) # 1
    BY <2>2, <2>4, <1>1, <1>2
  <2> QED
    BY <2>3, <2>4
<1>11. ParamsGood'
  <2>1. Kind(frames[1].todo[1])' = Kind(frames'[1].todo[1])
    BY DEF Kind
  <2> QED
    BY <1>5, <1>8, <1>9, <1>10 DEF ParamsGood, NumRoots, Kind
<1> QED
  BY <1>1, <1>2, <1>4, <1>7, <1>11
LEMMA NumRootsNat ==
  ASSUME ScalarsGood
  PROVE  NumRoots \in Nat
BY ProgramFacts, LenProperties DEF NumRoots

(* process_func_info of a callee: FuncInfo n + 1 was just pushed.          *)
LEMMA EnterStep ==
  ASSUME ScalarsGood, RootsGood, FramesGood, ParamsGood, phase = "visit", Top.todo # <<>>,
         NEW fn \in DOMAIN program.body, Kind(Here) # "Parm",
         frames' = Append(GoOn, Frame(Len(infos) + 1, Here, fn)),
         current' = Len(infos) + 1, Len(infos') = Len(infos) + 1,
         UNCHANGED <<program, phase, next>>, FnKept, ParamsKept
  PROVE  RootsGood' /\ FramesGood' /\ ParamsGood' /\ current' \in DOMAIN infos'
<1> DEFINE frame == Frame(Len(infos) + 1, Here, fn)
           n == Len(frames)
<1>1. /\ GoOn \in Seq(FrameSet(program)) /\ Len(GoOn) = n /\ n \in Nat
      /\ \A i \in 1..n :
           /\ GoOn[i].info = frames[i].info /\ GoOn[i].prev = frames[i].prev
           /\ GoOn[i].todo = IF i = n THEN Recurse ELSE frames[i].todo
  BY GoOnFacts
<1>2. /\ n > 0 /\ frames[1].info = next /\ frames[n].info = current
      /\ \A i \in 1..n : frames[i].info \in DOMAIN infos
      /\ \A i \in 2..n : frames[i].prev = frames[i - 1].info
      /\ \A m \in 1..n, i \in 1..n : m < i => frames[m].info < frames[i].info
  BY DEF FramesGood
<1>3. /\ DOMAIN infos = 1..Len(infos) /\ DOMAIN infos' = 1..(Len(infos) + 1) /\ Len(infos) \in Nat
  BY DEF FnKept
<1>4. /\ frame \in FrameSet(program) /\ frame.info = Len(infos) + 1 /\ frame.prev = current
  <2>1. Here \in Cursors /\ Kids(program.body[fn]) \in Seq(Cursors) /\ current \in Nat
    BY <1>1, <1>2, <1>3, HereFacts, RootKids
  <2> QED
    BY <2>1, <1>3 DEF Frame, FrameSet, Cursors
<1> HIDE DEF frame
<1>5. /\ frames' \in Seq(FrameSet(program)) /\ Len(frames') = n + 1 /\ frames'[n + 1] = frame
      /\ \A i \in 1..n : frames'[i] = GoOn[i]
  <2>1. frames' = Append(GoOn, frame)
    BY DEF frame
  <2> QED
    BY <2>1, <1>1, <1>4, AppendProperties
<1>6. FramesGood'
  <2>1. frames' \in Seq(FrameSet(program')) /\ Len(frames') > 0
    BY <1>1, <1>5
  <2>2. frames'[1].info = next /\ frames'[Len(frames')].info = current'
    BY <1>1, <1>2, <1>4, <1>5
  <2>3. \A i \in 1..Len(frames') : frames'[i].info \in DOMAIN infos'
    <3>1. \A i \in 1..n : frames'[i].info \in DOMAIN infos'
      BY SMTT(30), <1>1, <1>2, <1>3, <1>5
    <3>2. frames'[n + 1].info \in DOMAIN infos'
      BY <1>3, <1>4, <1>5
    <3> QED
      BY <3>1, <3>2, <1>1, <1>5
  <2>4. \A i \in 2..Len(frames') : frames'[i].prev = frames'[i - 1].info
    <3>1. \A i \in 2..n : frames'[i].prev = frames'[i - 1].info
      BY <1>1, <1>2, <1>5
    <3>2. frames'[n + 1].prev = frames'[n].info
      BY <1>1, <1>2, <1>4, <1>5
    <3> QED
      BY <3>1, <3>2, <1>1, <1>5
  <2>5. ASSUME NEW m \in 1..Len(frames'), NEW i \in 1..Len(frames'), m < i
        PROVE  frames'[m].info < frames'[i].info
    <3>1. m \in 1..n /\ frames'[m].info = frames[m].info /\ frames[m].info \in 1..Len(infos)
      BY <2>5, <1>1, <1>2, <1>3, <1>5
    <3>2. CASE i = n + 1
      BY <3>1, <3>2, <1>3, <1>4, <1>5
    <3>3. CASE i # n + 1
      <4>1. i \in 1..n /\ frames'[i].info = frames[i].info
        BY <3>3, <1>1, <1>5
      <4> QED
        BY <2>5, <3>1, <4>1, <1>2
    <3> QED
      BY <3>2, <3>3
  <2> QED
    BY <2>1, <2>2, <2>3, <2>4, <2>5 DEF FramesGood, FrameSet
<1>7. next \in 1..NumRoots /\ NumRoots <= Len(infos) /\ NumRoots \in Nat
  BY NumRootsNat DEF RootsGood, ScalarsGood
<1>8. \A r \in 1..NumRoots :
        r \in DOMAIN infos /\ infos'[r].fn = infos[r].fn /\ infos'[r].params = infos[r].params
  BY <1>3, <1>7 DEF FnKept, ParamsKept
<1>9. RootsGood'
  BY <1>3, <1>7, <1>8 DEF RootsGood, NumRoots, FnKept
<1>10. \A r \in 1..NumRoots : Params(infos[r].fn)' = Params(infos[r].fn)
  BY <1>8 DEF Params, Kids, Kind
<1>11. \A r \in 1..NumRoots : Params(infos[r].fn) # {} /\ r < next => infos'[r].params # <<>>
  BY <1>8 DEF ParamsGood
<1>12. ASSUME Params(infos[next].fn) # {}, infos'[next].params = <<>>
       PROVE  \E k \in DOMAIN frames'[1].todo : Kind(frames'[1].todo[k]) = "Parm"
  <2>1. infos[next].params = <<>>
    BY <1>7, <1>8, <1>12
  <2>2. PICK k \in DOMAIN frames[1].todo : Kind(frames[1].todo[k]) = "Parm"
    BY <1>12, <2>1 DEF ParamsGood
  <2>3. CASE n = 1
    <3>1. Top = frames[1] /\ frames'[1].todo = Recurse
      BY <2>3, <1>1, <1>5 DEF Top, Last
    <3>2. \E j \in DOMAIN Recurse : Recurse[j] = frames[1].todo[k]
      BY <3>1, <2>2, HereFacts
    <3> QED
      BY <3>1, <3>2, <2>2
  <2>4. CASE n # 1
    BY <2>2, <2>4, <1>1, <1>2, <1>5
  <2> QED
    BY <2>3, <2>4
<1>13. ParamsGood'
  BY <1>7, <1>10, <1>11, <1>12 DEF ParamsGood, NumRoots, Kind
<1> QED
  BY <1>3, <1>6, <1>9, <1>13

(* process_func_info returns.                                              *)
LEMMA LeaveStep ==
  ASSUME ScalarsGood, RootsGood, FramesGood, ParamsGood, phase = "visit", Len(frames) > 1,
         frames' = Front(frames), current' = Top.prev,
         UNCHANGED <<program, phase, next, infos>>
  PROVE  RootsGood' /\ FramesGood' /\ ParamsGood' /\ current' \in DOMAIN infos'
<1> DEFINE n == Len(frames)
<1>1. n \in Nat /\ n > 1 /\ \A i \in 1..n : frames[i] \in FrameSet(program)
  BY LenProperties DEF FramesGood
<1>2. /\ frames[1].info = next
      /\ \A i \in 1..n : frames[i].info \in DOMAIN infos
      /\ \A i \in 2..n : frames[i].prev = frames[i - 1].info
      /\ \A m \in 1..n, i \in 1..n : m < i => frames[m].info < frames[i].info
  BY DEF FramesGood
<1>3. /\ frames' \in Seq(FrameSet(program)) /\ Len(frames') = n - 1
      /\ \A i \in 1..(n - 1) : frames'[i] = frames[i]
  <2>1. frames' = SubSeq(frames, 1, n - 1)
    BY DEF Front
  <2> HIDE DEF n
  <2>2. \A i \in 1..(n - 1) : frames[i] \in FrameSet(program)
    BY <1>1
  <2> QED
    BY <2>1, <2>2, <1>1, SubSeqProperties
<1>4. current' = frames[n - 1].info
  BY <1>1, <1>2 DEF Top, Last
<1>5. FramesGood'
  <2>1. frames' \in Seq(FrameSet(program')) /\ Len(frames') > 0
    BY <1>1, <1>3
  <2>2. frames'[1].info = next /\ frames'[Len(frames')].info = current'
    BY <1>1, <1>2, <1>3, <1>4
  <2>3. \A i \in 1..Len(frames') : frames'[i].info \in DOMAIN infos
    BY <1>1, <1>2, <1>3
  <2>4. \A i \in 2..Len(frames') : frames'[i].prev = frames'[i - 1].info
    BY <1>1, <1>2, <1>3
  <2>5. \A m \in 1..Len(frames'), i \in 1..Len(frames') :
          m < i => frames'[m].info < frames'[i].info
    <3>1. \A i \in 1..Len(frames') : i \in 1..n /\ frames'[i] = frames[i]
      BY <1>1, <1>3
    <3> HIDE DEF n
    <3> QED
      BY <3>1, <1>2
  <2> QED
    BY <2>1, <2>2, <2>3, <2>4, <2>5 DEF FramesGood, FrameSet
<1>6. RootsGood'
  BY DEF RootsGood, NumRoots
<1>7. frames'[1] = frames[1]
  BY <1>1, <1>3
<1>8. ParamsGood'
  BY <1>7 DEF ParamsGood, NumRoots, Params, Kids, Kind
<1> QED
  BY <1>1, <1>2, <1>4, <1>5, <1>6, <1>8
(* process_func_info of root r.                                            *)
LEMMA StartStep ==
  ASSUME ScalarsGood, InfosGood, current \in Nat, NumRoots <= Len(infos),
         NEW r \in 1..NumRoots, \A q \in 1..NumRoots : infos[q].fn \in DOMAIN program.body,
         \A q \in 1..NumRoots : Params(infos[q].fn) # {} /\ q < r => infos[q].params # <<>>,
         StartRoot(r), next' = r, phase' = "visit", UNCHANGED <<program, infos>>
  PROVE  RootsGood' /\ FramesGood' /\ ParamsGood' /\ current' \in DOMAIN infos'
<1> DEFINE fn == infos[r].fn
           frame == Frame(r, NoCursor, fn)
<1>1. NumRoots \in Nat /\ Len(infos) \in Nat /\ DOMAIN infos = 1..Len(infos) /\ r \in DOMAIN infos
  <2>1. NumRoots \in Nat /\ Len(infos) \in Nat /\ DOMAIN infos = 1..Len(infos)
    BY NumRootsNat, SeqIs DEF InfosGood
  <2> QED
    BY <2>1
<1>2. Kids(program.body[fn]) \in Seq(Cursors)
  BY RootKids
<1>3. /\ frame \in FrameSet(program) /\ frame.info = r /\ frame.todo = Kids(program.body[fn])
  BY <1>1, <1>2 DEF Frame, FrameSet, Cursors
<1>4. frames' = <<frame>> /\ current' = r
  BY DEF StartRoot
<1> HIDE DEF frame
<1>5. /\ frames' \in Seq(FrameSet(program)) /\ Len(frames') = 1 /\ frames'[1] = frame
  BY <1>3, <1>4
<1>6. FramesGood'
  <2>1. frames' \in Seq(FrameSet(program')) /\ Len(frames') > 0
    BY <1>5
  <2>2. frames'[1].info = next' /\ frames'[Len(frames')].info = current'
    BY <1>3, <1>4, <1>5
  <2>3. \A i \in 1..Len(frames') : frames'[i].info \in DOMAIN infos'
    BY <1>1, <1>3, <1>5
  <2>4. \A i \in 2..Len(frames') : frames'[i].prev = frames'[i - 1].info
    BY <1>5
  <2>5. \A m \in 1..Len(frames'), i \in 1..Len(frames') :
          m < i => frames'[m].info < frames'[i].info
    BY <1>5
  <2> QED
    BY <2>1, <2>2, <2>3, <2>4, <2>5 DEF FramesGood, FrameSet
<1>7. RootsGood'
  BY <1>1 DEF RootsGood, NumRoots
<1>8. Params(infos[r].fn) # {} => \E k \in DOMAIN frame.todo : Kind(frame.todo[k]) = "Parm"
  BY <1>3 DEF Params
<1>9. ParamsGood'
  BY <1>1, <1>5, <1>8 DEF ParamsGood, NumRoots, Params, Kids, Kind
<1> QED
  BY <1>1, <1>4, <1>6, <1>7, <1>9
-----------------------------------------------------------------------------
(* Every step keeps the invariant                                          *)

(* The cursors an access is classified by.                                 *)
LEMMA AccessEntryGood ==
  ASSUME NEW stack, NEW c, AccessType(stack, c) # "None"
  PROVE  /\ EntryGood(AccessEntry(stack, c)) /\ AccessEntry(stack, c).type = AccessType(stack, c)
         /\ AccessType(stack, c) \in {"Read", "Write", "PtrRead", "PtrWrite", "Escape"}
<1>1. AccessType(stack, c) \in {"Read", "Write", "PtrRead", "PtrWrite", "Escape"}
  <2>1. PassedToCall(stack, c) \in {"Read", "Escape"}
    BY DEF PassedToCall
  <2>2. Subscripted(stack, c) \in {"Read", "None", "PtrWrite", "PtrRead"}
    BY DEF Subscripted
  <2>3. Dereferenced(stack, c) \in {"Read", "PtrWrite", "PtrRead"}
    BY DEF Dereferenced
  <2>4. UnderUnary(stack, c) \in {"Read", "Write", "PtrWrite", "PtrRead"}
    BY <2>3 DEF UnderUnary
  <2>5. Assigned(stack, c) \in {"Read", "Write"}
    BY DEF Assigned
  <2> QED
    BY <2>1, <2>2, <2>4, <2>5 DEF AccessType
<1> DEFINE type == AccessType(stack, c)
<1> HIDE DEF type
<1>2. \A u, e, i : LET va == VarAccess(type, u, e, i, c)
                   IN  /\ DOMAIN va = {"type", "usr", "esc", "idx", "origin", "ptr"}
                       /\ va.type = type
  BY DEF VarAccess
<1>3. \E u, e, i : AccessEntry(stack, c) = VarAccess(type, u, e, i, c)
  BY DEF AccessEntry, type
<1> QED
  BY <1>1, <1>2, <1>3 DEF EntryGood, EntryTypes, type

LEMMA MarkerGood ==
  ASSUME NEW type \in {"IfStmt", "ThenBlock", "ElseStmt", "EndIf"}
  PROVE  EntryGood(Marker(type)) /\ Marker(type).type \notin {"Call", "Null"}
BY DEF EntryGood, EntryTypes, Marker, VarAccess

(* One entry or none.                                                      *)
LEMMA OneEntry ==
  ASSUME NEW e, EntryGood(e), e.type # "Call", NEW E, E \in {<<>>, <<e>>}
  PROVE  IsSeq(E) /\ \A p \in DOMAIN E : EntryGood(E[p]) /\ E[p].type # "Call"
<1>1. E \in Seq({e}) /\ \A p \in DOMAIN E : E[p] = e
  <2>1. CASE E = <<>>
    BY <2>1
  <2>2. CASE E = <<e>>
    BY <2>2
  <2> QED
    BY <2>1, <2>2
<1>2. IsSeq(E)
  BY <1>1, SeqTyped
<1> QED
  BY <1>1, <1>2
(* In the visit nothing is crashed or unwound yet.                         *)
LEMMA VisitKeeps ==
  ASSUME phase' = "visit"
  PROVE  WorkGood' /\ NoWildParameter'
BY DEF WorkGood, NoWildParameter

(* The walk is where it was, but for the stack.                            *)
LEMMA SamePlace ==
  ASSUME TInv, phase = "visit", UNCHANGED <<program, phase, next, frames, current>>,
         FnKept, ParamsKept
  PROVE  RootsGood' /\ FramesGood' /\ ParamsGood'
<1>1. NumRoots \in Nat /\ NumRoots <= Len(infos) /\ next \in 1..NumRoots
  BY NumRootsNat DEF TInv, RootsGood, ScalarsGood
<1>2. \A r \in 1..NumRoots :
        r \in DOMAIN infos /\ infos'[r].fn = infos[r].fn /\ infos'[r].params = infos[r].params
  BY <1>1 DEF FnKept, ParamsKept
<1>3. RootsGood'
  BY <1>1, <1>2 DEF TInv, RootsGood, NumRoots, FnKept
<1>4. DOMAIN infos \subseteq DOMAIN infos'
  BY DEF FnKept
<1>5. FramesGood'
  BY <1>4 DEF TInv, FramesGood, FrameSet
<1>6. \A r \in 1..NumRoots : Params(infos[r].fn)' = Params(infos[r].fn)
  BY <1>2 DEF Params, Kids, Kind
<1>7. ParamsGood'
  BY <1>1, <1>2, <1>6 DEF TInv, ParamsGood, NumRoots, Kind
<1> QED
  BY <1>3, <1>5, <1>7

LEMMA CurrentIn ==
  ASSUME TInv, phase = "visit"
  PROVE  current \in DOMAIN infos /\ current \in Nat /\ Len(frames) \in Nat
<1>1. Len(frames) \in Nat /\ Len(frames) > 0
  BY LenProperties DEF TInv, FramesGood
<1>2. current \in DOMAIN infos
  BY <1>1 DEF TInv, FramesGood
<1>3. DOMAIN infos = 1..Len(infos)
  BY SeqIs DEF TInv, InfosGood
<1> QED
  BY <1>1, <1>2, <1>3

LEMMA SameInfos ==
  ASSUME TInv, UNCHANGED infos
  PROVE  InfosGood' /\ CallsAligned' /\ FnKept /\ ParamsKept
<1>1. Len(infos) \in Nat /\ DOMAIN infos = 1..Len(infos)
  BY SeqIs DEF TInv, InfosGood
<1>2. FnKept /\ ParamsKept
  BY <1>1 DEF FnKept, ParamsKept
<1>3. InfosGood'
  <2>1. IsSeq(infos)'
    BY DEF TInv, InfosGood, IsSeq
  <2>2. \A i \in DOMAIN infos' : InfoGood(infos'[i], i, Len(infos'))
    BY DEF TInv, InfosGood
  <2> QED
    BY <2>1, <2>2 DEF InfosGood, InfoGood
<1>4. CallsAligned'
  BY DEF TInv, CallsAligned
<1> QED
  BY <1>2, <1>3, <1>4

LEMMA StackSteps ==
  ASSUME TInv, PushParent \/ PopAncestor \/ Settle \/ MarkBranch
  PROVE  TInv'
<1> DEFINE S == Cursors \cup {NoCursor}
<1>1. ScalarsGood /\ phase = "visit" /\ ancestry_stack \in Seq(S)
  BY DEF TInv, ScalarsGood, PushParent, PopAncestor, Settle, MarkBranch, AtCursor
<1>2. Here \in Cursors /\ Parent(Here) \in S
  <2>1. Here \in Cursors
    BY <1>1, HereFacts DEF TInv, PushParent, PopAncestor, Settle, MarkBranch, AtCursor
  <2> QED
    BY <2>1, <1>1, ProgramFacts
<1>3. UNCHANGED <<program, tracking, phase, next, frames, current>>
  BY DEF PushParent, PopAncestor, Settle, MarkBranch
<1>4. ancestry_stack' \in Seq(S)
  <2>1. CASE PushParent
    BY <2>1, <1>1, <1>2, AppendProperties DEF PushParent
  <2>2. CASE PopAncestor
    <3>1. /\ ancestry_stack' = SubSeq(ancestry_stack, 1, Len(ancestry_stack) - 1)
          /\ Len(ancestry_stack) \in Nat
      BY <2>2, <1>1, LenProperties DEF PopAncestor, Front
    <3>2. \A i \in 1..(Len(ancestry_stack) - 1) : ancestry_stack[i] \in S
      BY <1>1, <3>1
    <3> HIDE DEF S
    <3> QED
      BY <3>1, <3>2, SubSeqProperties
  <2>3. CASE Settle \/ MarkBranch
    BY <2>3, <1>1 DEF Settle, MarkBranch
  <2> QED
    BY <2>1, <2>2, <2>3
<1>5. last_visited' \in S /\ step' \in {"arrive", "branch", "cursor"}
  BY <1>2, <1>1 DEF ScalarsGood, PushParent, PopAncestor, Settle, MarkBranch
<1>6. ScalarsGood'
  BY <1>1, <1>3, <1>4, <1>5 DEF ScalarsGood, Cursors
<1>7. InfosGood' /\ CallsAligned' /\ FnKept /\ ParamsKept
  <2>1. CASE PushParent \/ Settle
    BY <2>1, SameInfos DEF PushParent, Settle
  <2>2. CASE PopAncestor
    <3> DEFINE E == Ended(Last(ancestry_stack))
    <3>1. E \in {<<>>, <<Marker("EndIf")>>} /\ Push(E)
      BY <2>2 DEF Ended, When, PopAncestor
    <3> HIDE DEF E
    <3>2. IsSeq(E) /\ \A p \in DOMAIN E : EntryGood(E[p]) /\ E[p].type # "Call"
      BY <3>1, MarkerGood, OneEntry
    <3> QED
      BY <3>1, <3>2, <1>1, CurrentIn, PushStep DEF TInv
  <2>3. CASE MarkBranch
    <3> DEFINE E == BranchMarkers
    <3>1. E \in {<<>>, <<Marker("ThenBlock")>>, <<Marker("ElseStmt")>>} /\ Push(E)
      BY <2>3 DEF BranchMarkers, MarkBranch
    <3> HIDE DEF E
    <3>2. IsSeq(E) /\ \A p \in DOMAIN E : EntryGood(E[p]) /\ E[p].type # "Call"
      BY <3>1, MarkerGood, OneEntry
    <3> QED
      BY <3>1, <3>2, <1>1, CurrentIn, PushStep DEF TInv
  <2> QED
    BY <2>1, <2>2, <2>3
<1>8. RootsGood' /\ FramesGood' /\ ParamsGood'
  BY <1>1, <1>3, <1>7, SamePlace
<1> QED
  BY <1>1, <1>3, <1>6, <1>7, <1>8, VisitKeeps DEF TInv
LEMMA VisitSteps ==
  ASSUME TInv, VisitDecl \/ VisitIf \/ VisitVariable \/ VisitOther
  PROVE  TInv'
<1>1. /\ ScalarsGood /\ InfosGood /\ CallsAligned
      /\ RootsGood /\ FramesGood /\ ParamsGood /\ phase = "visit" /\ Top.todo # <<>>
  BY DEF TInv, Visit, VisitDecl, VisitIf, VisitVariable, VisitOther, AtCursor
<1>2. /\ frames' = GoOn /\ step' = "arrive"
      /\ UNCHANGED <<program, tracking, phase, next, current, ancestry_stack, last_visited>>
  BY DEF Visit, VisitDecl, VisitIf, VisitVariable, VisitOther
<1>3. ScalarsGood'
  BY <1>1, <1>2 DEF ScalarsGood, Cursors
<1>4. current \in DOMAIN infos
  BY <1>1, CurrentIn
<1>5. /\ InfosGood' /\ CallsAligned' /\ FnKept
      /\ \A i \in DOMAIN infos : infos'[i].params = infos[i].params \/ infos'[i].params # <<>>
      /\ Kind(Here) = "Parm" => infos'[current].params # <<>>
  <2>1. CASE VisitDecl
    <3>1. \/ infos' = [infos EXCEPT ![current].locals = Append(@, Sym(Here))] /\ Kind(Here) = "Var"
          \/ infos' = [infos EXCEPT ![current].params = Append(@, Sym(Here))]
      BY <2>1 DEF VisitDecl
    <3>2. /\ InfosGood' /\ CallsAligned' /\ FnKept
          /\ \A i \in DOMAIN infos : infos'[i].params = infos[i].params \/ infos'[i].params # <<>>
      BY <3>1, <1>1, <1>4, DeclStep
    <3>3. ASSUME Kind(Here) = "Parm" PROVE infos'[current].params # <<>>
      <4>1. infos'[current].params = Append(infos[current].params, Sym(Here))
        BY <3>1, <3>3, <1>1, <1>4 DEF InfosGood, InfoGood, InfoFields
      <4>2. IsSeq(infos[current].params)
        BY <1>1, <1>4 DEF InfosGood, InfoGood
      <4> QED
        BY <4>1, <4>2, SeqAppend
    <3> QED
      BY <3>2, <3>3
  <2>2. CASE VisitIf
    <3> DEFINE E == When(tracking, <<Marker("IfStmt")>>)
    <3>1. E \in {<<>>, <<Marker("IfStmt")>>} /\ Push(E) /\ Kind(Here) # "Parm"
      BY <2>2 DEF VisitIf, When
    <3> HIDE DEF E
    <3>2. IsSeq(E) /\ \A p \in DOMAIN E : EntryGood(E[p]) /\ E[p].type # "Call"
      BY <3>1, MarkerGood, OneEntry
    <3> QED
      BY <3>1, <3>2, <1>1, <1>4, PushStep DEF ParamsKept
  <2>3. CASE VisitVariable
    <3> DEFINE va == AccessEntry(ancestry_stack, Here)
               E == When(va.type # "None", <<va>>)
    <3>1. Push(E) /\ Kind(Here) # "Parm"
      BY <2>3 DEF VisitVariable
    <3>2. va.type = AccessType(ancestry_stack, Here)
      BY DEF AccessEntry, VarAccess
    <3>3. IsSeq(E) /\ \A p \in DOMAIN E : EntryGood(E[p]) /\ E[p].type # "Call"
      <4>1. CASE va.type = "None"
        <5>1. E = <<>>
          BY <4>1 DEF When
        <5> HIDE DEF E
        <5> QED
          BY <5>1, NoneIsSeq
      <4>2. CASE va.type # "None"
        <5>1. EntryGood(va) /\ va.type # "Call"
          BY <4>2, <3>2, AccessEntryGood
        <5>2. E = <<va>>
          BY <4>2 DEF When
        <5> HIDE DEF va, E
        <5> QED
          BY <5>1, <5>2, OneEntry
      <4> QED
        BY <4>1, <4>2
    <3> HIDE DEF E
    <3> QED
      BY <3>1, <3>3, <1>1, <1>4, PushStep DEF ParamsKept
  <2>4. CASE VisitOther
    <3>1. UNCHANGED infos /\ Kind(Here) # "Parm"
      BY <2>4 DEF VisitOther
    <3> QED
      BY <3>1, SameInfos DEF ParamsKept
  <2> QED
    BY <2>1, <2>2, <2>3, <2>4
<1>6. RootsGood' /\ FramesGood' /\ ParamsGood'
  BY <1>1, <1>2, <1>5, WalkOn
<1> QED
  BY <1>1, <1>2, <1>3, <1>5, <1>6, VisitKeeps DEF TInv

LEMMA CallSteps ==
  ASSUME TInv, SkipCall \/ CallExternal \/ EnterCallee
  PROVE  TInv'
<1> DEFINE S == Cursors \cup {NoCursor}
           fn == Sym(Here)
<1>1. /\ ScalarsGood /\ InfosGood /\ CallsAligned
      /\ RootsGood /\ FramesGood /\ ParamsGood /\ phase = "visit" /\ Top.todo # <<>>
      /\ Kind(Here) # "Parm"
  BY DEF TInv, SkipCall, CallExternal, EnterCallee, FirstCall, AtCursor
<1>2. /\ step' = "arrive" /\ UNCHANGED <<program, tracking, phase, next, last_visited>>
  BY DEF SkipCall, CallExternal, EnterCallee, FirstCall
<1>3. ancestry_stack' \in Seq(S)
  <2>1. ancestry_stack \in Seq(S) /\ Here \in S
    BY <1>1, HereFacts DEF ScalarsGood
  <2> QED
    BY <2>1, AppendProperties DEF SkipCall, CallExternal, EnterCallee
<1>4. ScalarsGood'
  BY <1>1, <1>2, <1>3 DEF ScalarsGood, Cursors
<1>5. current \in DOMAIN infos
  BY <1>1, CurrentIn
<1>6. CASE SkipCall
  <2>1. InfosGood' /\ CallsAligned' /\ FnKept /\ ParamsKept
    BY <1>6, SameInfos DEF SkipCall
  <2>2. frames' = GoOn /\ current' = current
    BY <1>6 DEF SkipCall
  <2>3. RootsGood' /\ FramesGood' /\ ParamsGood'
    BY <1>1, <1>2, <2>1, <2>2, WalkOn DEF ParamsKept
  <2> QED
    BY <1>1, <1>2, <1>4, <2>1, <2>3, VisitKeeps DEF TInv
<1>7. CASE CallExternal \/ EnterCallee
  <2>1. infos' = WithCallee
    BY <1>7 DEF CallExternal, EnterCallee, FirstCall
  <2>2. /\ InfosGood' /\ CallsAligned' /\ FnKept /\ ParamsKept
        /\ Len(infos') = Len(infos) + 1
    BY <2>1, <1>1, <1>5, CalleeStep DEF WithCallee
  <2>3. RootsGood' /\ FramesGood' /\ ParamsGood'
    <3>1. CASE CallExternal
      <4>1. frames' = GoOn /\ current' = current
        BY <3>1 DEF CallExternal
      <4> QED
        BY <1>1, <1>2, <2>2, <4>1, WalkOn DEF ParamsKept
    <3>2. CASE EnterCallee
      <4>1. /\ frames' = Append(GoOn, Frame(Len(infos) + 1, Here, fn))
            /\ current' = Len(infos) + 1 /\ fn \in DOMAIN program.body
        BY <3>2 DEF EnterCallee, External, Callee, FuncInfo, HasDefinition
      <4> HIDE DEF fn
      <4> QED
        BY <1>1, <1>2, <2>2, <4>1, EnterStep
    <3> QED
      BY <3>1, <3>2, <1>7
  <2> QED
    BY <1>1, <1>2, <1>4, <2>2, <2>3, VisitKeeps DEF TInv
<1> QED
  BY <1>6, <1>7
LEMMA SearchSteps ==
  ASSUME TInv, CompareDefinition \/ RootsFound \/ RootsMissing
  PROVE  TInv'
<1>1. /\ ScalarsGood /\ InfosGood /\ CallsAligned /\ RootsGood /\ phase = "search" /\ current = 0
      /\ UNCHANGED <<program, tracking, step, ancestry_stack, last_visited>>
  BY DEF TInv, ScalarsGood, CompareDefinition, RootsFound, RootsMissing, visitor
<1>2. CASE CompareDefinition
  <2> DEFINE fn == program.defs[next]
             calls == {r \in DOMAIN program.command : Matches(program.command[r], fn)}
             t == [k \in 1..Cardinality(calls) |-> Root(fn)]
  <2>1. infos' = infos \o t /\ next' = next + 1 /\ phase' = phase /\ current' = current
    BY <1>2 DEF CompareDefinition, visitor
  <2>2. fn \in DOMAIN program.body
    <3>1. program.defs \in Seq(DOMAIN program.body) /\ next \in 1..Len(program.defs)
      BY <1>1, <1>2, ProgramFacts, LenProperties DEF ScalarsGood, CompareDefinition
    <3> QED
      BY <3>1
  <2>3. Cardinality(calls) \in Nat
    <3>1. DOMAIN program.command = 1..Len(program.command) /\ Len(program.command) \in Nat
      BY <1>1, ProgramFacts, LenProperties
    <3>2. IsFiniteSet(1..Len(program.command)) /\ calls \subseteq 1..Len(program.command)
      BY <3>1, FS_Interval
    <3> HIDE DEF calls
    <3> QED
      BY <3>2, FS_Subset, FS_CardinalityType
  <2> HIDE DEF calls, fn
  <2>4. IsSeq(t) /\ \A k \in DOMAIN t : t[k] = Root(fn)
    <3>1. t = [k \in 1..Cardinality(calls) |-> t[k]] /\ \A k \in DOMAIN t : t[k] = Root(fn)
      OBVIOUS
    <3> HIDE DEF t
    <3> QED
      BY <2>3, <3>1, SeqMade
  <2> HIDE DEF t
  <2>5. /\ InfosGood' /\ CallsAligned' /\ FnKept
        /\ \A i \in DOMAIN infos' : i \in DOMAIN infos \/ infos'[i].fn = fn
    BY <1>1, <2>1, <2>4, DefinitionStep
  <2>6. ScalarsGood'
    BY <1>1, <2>1 DEF ScalarsGood, Cursors
  <2>7. RootsGood' /\ FramesGood' /\ WorkGood' /\ ParamsGood' /\ NoWildParameter'
    BY <1>1, <2>1, <2>2, <2>5
       DEF RootsGood, FramesGood, WorkGood, ParamsGood, NoWildParameter, FnKept
  <2> QED
    BY <2>5, <2>6, <2>7 DEF TInv
<1>3. CASE RootsFound
  <2>1. StartRoot(1) /\ next' = 1 /\ phase' = "visit" /\ UNCHANGED infos
    BY <1>3 DEF RootsFound
  <2>2. NumRoots \in Nat /\ NumRoots = Len(infos) /\ NumRoots > 0 /\ DOMAIN infos = 1..NumRoots
    <3>1. /\ Len(infos) = NumRoots /\ infos # <<>>
          /\ Len(infos) \in Nat /\ DOMAIN infos = 1..Len(infos)
      BY <1>1, <1>3, SeqIs DEF RootsFound, NumRoots, InfosGood
    <3>2. Len(infos) # 0
      <4>1. infos = [i \in 1..Len(infos) |-> infos[i]]
        BY <1>1, SeqIs DEF InfosGood
      <4>2. Len(infos) = 0 => infos = <<>>
        BY <4>1
      <4> QED
        BY <4>2, <3>1
    <3> QED
      BY <3>1, <3>2
  <2>3. InfosGood' /\ CallsAligned'
    BY <2>1, SameInfos
  <2>4. /\ \A q \in 1..NumRoots : infos[q].fn \in DOMAIN program.body
        /\ \A q \in 1..NumRoots : Params(infos[q].fn) # {} /\ q < 1 => infos[q].params # <<>>
        /\ 1 \in 1..NumRoots /\ current \in Nat
    BY <1>1, <2>2 DEF RootsGood
  <2>5. RootsGood' /\ FramesGood' /\ ParamsGood'
    BY <1>1, <2>1, <2>2, <2>4, StartStep
  <2>6. ScalarsGood'
    BY <1>1, <2>1 DEF ScalarsGood, Cursors
  <2> QED
    BY <2>1, <2>3, <2>5, <2>6, VisitKeeps DEF TInv
<1>4. CASE RootsMissing
  <2>1. phase' = "ERR_NOT_FOUND" /\ UNCHANGED <<infos, next, current>>
    BY <1>4 DEF RootsMissing, visitor
  <2>2. InfosGood' /\ CallsAligned'
    BY <2>1, SameInfos
  <2>3. ScalarsGood'
    BY <1>1, <2>1 DEF ScalarsGood, Cursors
  <2>4. RootsGood' /\ FramesGood' /\ WorkGood' /\ ParamsGood' /\ NoWildParameter'
    BY <2>1 DEF RootsGood, FramesGood, WorkGood, ParamsGood, NoWildParameter
  <2> QED
    BY <2>2, <2>3, <2>4 DEF TInv
<1> QED
  BY <1>2, <1>3, <1>4

LEMMA LeaveSteps ==
  ASSUME TInv, LeaveCallee \/ LeaveRoot \/ LeaveLastRoot
  PROVE  TInv'
<1>1. /\ ScalarsGood /\ InfosGood /\ RootsGood /\ FramesGood /\ ParamsGood /\ phase = "visit"
      /\ UNCHANGED <<program, tracking, step, last_visited, infos>>
  BY DEF TInv, LeaveCallee, LeaveRoot, LeaveLastRoot
<1>2. InfosGood' /\ CallsAligned'
  BY <1>1, SameInfos
<1>3. ancestry_stack \in Seq(Cursors \cup {NoCursor})
  BY <1>1 DEF ScalarsGood
<1>4. CASE LeaveCallee
  <2>1. /\ frames' = Front(frames) /\ current' = Top.prev /\ Len(frames) > 1
        /\ phase' = "visit" /\ next' = next /\ ancestry_stack' = Append(ancestry_stack, Top.call)
    BY <1>1, <1>4 DEF LeaveCallee
  <2>2. RootsGood' /\ FramesGood' /\ ParamsGood'
    BY <1>1, <2>1, LeaveStep
  <2>3. Top.call \in Cursors \cup {NoCursor}
    <3>1. Top \in FrameSet(program)
      BY <1>1, <2>1, LenProperties DEF FramesGood, Top, Last
    <3> QED
      BY <3>1 DEF FrameSet, Cursors
  <2>4. ancestry_stack' \in Seq(Cursors \cup {NoCursor})
    BY <1>3, <2>1, <2>3, AppendProperties
  <2>5. ScalarsGood'
    BY <1>1, <2>1, <2>4 DEF ScalarsGood, Cursors
  <2> QED
    BY <1>2, <2>1, <2>2, <2>5, VisitKeeps DEF TInv
<1>5. CASE LeaveRoot \/ LeaveLastRoot
  <2>1. Len(frames) = 1 /\ Top.todo = <<>>
    BY <1>5 DEF LeaveRoot, LeaveLastRoot
  <2>2. frames[1].todo = <<>>
    BY <2>1 DEF Top, Last
  <2>3. NumRoots \in Nat /\ NumRoots <= Len(infos) /\ next \in 1..NumRoots
    BY <1>1, NumRootsNat DEF RootsGood, ScalarsGood
  <2>4. \A q \in 1..NumRoots : Params(infos[q].fn) # {} /\ q < next + 1 => infos[q].params # <<>>
    <3>1. Params(infos[next].fn) # {} => infos[next].params # <<>>
      BY <1>1, <2>2 DEF ParamsGood
    <3>2. \A q \in 1..NumRoots : Params(infos[q].fn) # {} /\ q < next => infos[q].params # <<>>
      BY <1>1 DEF ParamsGood
    <3> QED
      BY <2>3, <3>1, <3>2
  <2>5. \A q \in 1..NumRoots : infos[q].fn \in DOMAIN program.body
    BY <1>1 DEF RootsGood
  <2>6. CASE LeaveRoot
    <3>1. /\ StartRoot(next + 1) /\ next' = next + 1 /\ phase' = "visit" /\ next < NumRoots
          /\ ancestry_stack' = ancestry_stack
      BY <1>1, <2>6 DEF LeaveRoot
    <3>2. current \in Nat /\ next + 1 \in 1..NumRoots
      BY <1>1, <2>3, <3>1, CurrentIn
    <3>3. RootsGood' /\ FramesGood' /\ ParamsGood'
      BY <1>1, <2>3, <2>4, <2>5, <3>1, <3>2, StartStep
    <3>4. ScalarsGood'
      BY <1>1, <3>1 DEF ScalarsGood, Cursors
    <3> QED
      BY <1>2, <3>1, <3>3, <3>4, VisitKeeps DEF TInv
  <2>7. CASE LeaveLastRoot
    <3>1. /\ phase' = "unwind" /\ next' = next /\ work' = [r \in 1..NumRoots |-> r]
          /\ current' = 0 /\ ancestry_stack' = ancestry_stack /\ next = NumRoots
      BY <2>7 DEF LeaveLastRoot
    <3>2. ScalarsGood'
      BY <1>1, <3>1 DEF ScalarsGood, Cursors
    <3>3. DOMAIN infos = 1..Len(infos) /\ Len(infos) \in Nat
      BY <1>1, SeqIs DEF InfosGood
    <3>4. WorkGood'
      <4>1. work' \in Seq(1..Len(infos))
        BY <2>3, <3>1, <3>3
      <4> QED
        BY <4>1, <3>3, <1>1 DEF WorkGood
    <3>5. RootsGood' /\ FramesGood' /\ NoWildParameter'
      BY <1>1, <2>3, <2>5, <3>1 DEF RootsGood, FramesGood, NoWildParameter, NumRoots
    <3>6. \A q \in 1..NumRoots : Params(infos[q].fn) # {} => infos[q].params # <<>>
      BY <2>3, <2>4, <3>1
    <3>7. ParamsGood'
      BY <1>1, <3>1, <3>6 DEF ParamsGood, NumRoots, Params, Kids, Kind
    <3> QED
      BY <1>2, <3>2, <3>4, <3>5, <3>7 DEF TInv
  <2> QED
    BY <1>5, <2>6, <2>7
<1> QED
  BY <1>4, <1>5

LEMMA UnwindSteps ==
  ASSUME TInv, Unwind \/ UnwindCrashes \/ Build
  PROVE  TInv'
<1>1. /\ ScalarsGood /\ InfosGood /\ CallsAligned /\ RootsGood /\ WorkGood /\ ParamsGood
      /\ phase = "unwind"
      /\ UNCHANGED <<program, tracking, next, step, current, ancestry_stack, last_visited>>
  BY DEF TInv, Unwind, UnwindCrashes, Build, visitor
<1>2. Len(infos) \in Nat /\ DOMAIN infos = 1..Len(infos)
  BY <1>1, SeqIs DEF InfosGood
<1>3. work \in Seq(DOMAIN infos) /\ NumRoots \in Nat /\ NumRoots <= Len(infos)
  BY <1>1, NumRootsNat DEF WorkGood, RootsGood
<1>4. CASE Unwind
  <2> DEFINE i == Head(work)
  <2>1. /\ infos' = unwind_func_info(infos, i, ArgsOf(i)) /\ phase' = phase
        /\ work' = infos[i].callees \o Tail(work) /\ work # <<>>
    BY <1>4 DEF Unwind, WorkAfter
  <2>2. i \in DOMAIN infos /\ Tail(work) \in Seq(DOMAIN infos)
    BY <1>3, <2>1, HeadTailProperties
  <2> HIDE DEF i
  <2>3. InfosGood' /\ CallsAligned' /\ FnKept /\ ParamsKept /\ DOMAIN infos' = DOMAIN infos
    BY <1>1, <2>1, <2>2, UnwindStep
  <2>4. ScalarsGood'
    BY <1>1, <2>1 DEF ScalarsGood, Cursors
  <2>5. WorkGood'
    <3>1. infos[i].callees \in Seq((i + 1)..Len(infos))
      BY <1>1, <2>2 DEF InfosGood, InfoGood
    <3>2. (i + 1)..Len(infos) \subseteq DOMAIN infos
      BY <1>2, <2>2
    <3> DEFINE cs == infos[i].callees
               D == DOMAIN infos
    <3>3. cs \in Seq(D) /\ Tail(work) \in Seq(D)
      BY <3>1, <3>2, <2>2
    <3>4. work' \in Seq(D)
      <4>1. work' = cs \o Tail(work)
        BY <2>1
      <4> HIDE DEF cs, D
      <4> QED
        BY <3>3, <4>1, ConcatProperties
    <3> QED
      BY <3>4, <2>3 DEF WorkGood
  <2>6. \A r \in 1..NumRoots :
          r \in DOMAIN infos /\ infos'[r].fn = infos[r].fn /\ infos'[r].params = infos[r].params
    BY <1>2, <1>3, <2>3 DEF FnKept, ParamsKept
  <2>7. RootsGood' /\ FramesGood' /\ NoWildParameter'
    BY <1>1, <1>3, <2>1, <2>3, <2>6
       DEF RootsGood, FramesGood, NoWildParameter, NumRoots, FnKept
  <2>8. \A r \in 1..NumRoots : Params(infos[r].fn)' = Params(infos[r].fn)
    BY <1>1, <2>6 DEF Params, Kids, Kind
  <2>9. ParamsGood'
    BY <1>1, <2>1, <2>6, <2>8 DEF ParamsGood, NumRoots
  <2> QED
    BY <2>3, <2>4, <2>5, <2>7, <2>9 DEF TInv
<1>5. CASE UnwindCrashes
  <2> DEFINE i == Head(work)
  <2>1. UNCHANGED infos /\ phase' = "crashed" /\ work # <<>> /\ WildParameter(i)
    BY <1>5 DEF UnwindCrashes
  <2>2. i \in DOMAIN infos
    BY <1>3, <2>1, HeadTailProperties
  <2> HIDE DEF i
  <2>3. i \in 1..NumRoots /\ program.command[i].args # <<>> /\ infos[i].params = <<>>
    BY <1>2, <1>3, <2>1, <2>2 DEF WildParameter, ArgsOf
  <2>4. ~InOrder
    <3>1. SUFFICES ASSUME InOrder PROVE FALSE
      OBVIOUS
    <3>2. Len(program.command[i].args) = Cardinality(Params(infos[i].fn))
      BY <3>1, <2>2, <2>3 DEF InOrder, Matches, Arity
    <3>3. program.command[i].args \in Seq(STRING)
      <4> DEFINE Call == [func : STRING, args : Seq(STRING)]
      <4>1. program.command \in Seq(Call)
        BY <1>1, ProgramFacts
      <4>2. program.command[i] \in Call
        <5> HIDE DEF Call
        <5> QED
          BY <4>1, <2>3, ElementOfSeq DEF NumRoots
      <4> QED
        BY <4>2
    <3>4. Len(program.command[i].args) # 0
      BY <3>3, <2>3
    <3>5. Params(infos[i].fn) # {}
      BY <3>2, <3>4, FS_EmptySet
    <3> QED
      BY <3>5, <1>1, <2>3 DEF ParamsGood
  <2>5. NoWildParameter'
    <3>1. program' = program /\ infos' = infos
      BY <1>1, <2>1
    <3>2. \A r, fn : Matches(program.command[r], fn)' <=> Matches(program.command[r], fn)
      BY <3>1 DEF Matches, Arity, Params, Kids, Kind
    <3>3. InOrder' => InOrder
      BY <3>1, <3>2 DEF InOrder, NumRoots
    <3> QED
      BY <2>4, <3>3 DEF NoWildParameter
  <2>6. InfosGood' /\ CallsAligned'
    BY <2>1, SameInfos
  <2>7. ScalarsGood'
    BY <1>1, <2>1 DEF ScalarsGood, Cursors
  <2>8. RootsGood' /\ FramesGood' /\ WorkGood' /\ ParamsGood'
    BY <2>1 DEF RootsGood, FramesGood, WorkGood, ParamsGood
  <2> QED
    BY <2>5, <2>6, <2>7, <2>8 DEF TInv
<1>6. CASE Build
  <2>1. UNCHANGED infos /\ phase' = "built"
    BY <1>6 DEF Build
  <2>2. InfosGood' /\ CallsAligned'
    BY <2>1, SameInfos
  <2>3. ScalarsGood'
    BY <1>1, <2>1 DEF ScalarsGood, Cursors
  <2>4. RootsGood' /\ FramesGood' /\ WorkGood' /\ ParamsGood' /\ NoWildParameter'
    BY <2>1 DEF RootsGood, FramesGood, WorkGood, ParamsGood, NoWildParameter
  <2> QED
    BY <2>2, <2>3, <2>4 DEF TInv
<1> QED
  BY <1>4, <1>5, <1>6
-----------------------------------------------------------------------------
(* The theorems                                                            *)

LEMMA TInvInit ==
  ASSUME TInit
  PROVE  TInv
<1>1. /\ infos = <<>> /\ DOMAIN infos = {} /\ IsSeq(infos) /\ phase = "search"
  BY NoneIsSeq DEF TInit
<1>2. ScalarsGood
  <2>1. NoCursor \in Cursors \cup {NoCursor} /\ <<>> \in Seq(Cursors \cup {NoCursor})
    OBVIOUS
  <2> QED
    BY <2>1, TrackingAssumption DEF TInit, ScalarsGood
<1>3. InfosGood /\ CallsAligned
  BY <1>1 DEF InfosGood, CallsAligned
<1>4. RootsGood /\ FramesGood /\ WorkGood /\ ParamsGood /\ NoWildParameter
  BY <1>1 DEF RootsGood, FramesGood, WorkGood, ParamsGood, NoWildParameter
<1> QED
  BY <1>2, <1>3, <1>4 DEF TInv

LEMMA TInvStutter ==
  ASSUME TInv, UNCHANGED tvars
  PROVE  TInv'
<1>1. UNCHANGED <<program, tracking, phase, next, infos, step, frames, current,
                  ancestry_stack, last_visited, work>>
  BY DEF tvars, visitor
<1>2. InfosGood' /\ CallsAligned'
  BY <1>1, SameInfos
<1>3. ScalarsGood'
  BY <1>1 DEF TInv, ScalarsGood, Cursors
<1>4. RootsGood'
  BY <1>1 DEF TInv, RootsGood, NumRoots
<1>5. FramesGood'
  BY <1>1 DEF TInv, FramesGood, FrameSet
<1>6. WorkGood'
  BY <1>1 DEF TInv, WorkGood
<1>7. ParamsGood'
  BY <1>1 DEF TInv, ParamsGood, NumRoots, Params, Kids, Kind
<1>8. NoWildParameter'
  <2>1. \A r, fn : Matches(program.command[r], fn)' <=> Matches(program.command[r], fn)
    BY <1>1 DEF Matches, Arity, Params, Kids, Kind
  <2>2. InOrder' => InOrder
    BY <1>1, <2>1 DEF InOrder, NumRoots
  <2> QED
    BY <1>1, <2>2 DEF TInv, NoWildParameter
<1> QED
  BY <1>2, <1>3, <1>4, <1>5, <1>6, <1>7, <1>8 DEF TInv

LEMMA TInvStep ==
  ASSUME TInv, [TNext]_tvars
  PROVE  TInv'
<1>1. CASE CompareDefinition \/ RootsFound \/ RootsMissing
  BY <1>1, SearchSteps
<1>2. CASE PushParent \/ PopAncestor \/ Settle \/ MarkBranch
  BY <1>2, StackSteps
<1>3. CASE VisitDecl \/ VisitIf \/ VisitVariable \/ VisitOther
  BY <1>3, VisitSteps
<1>4. CASE SkipCall \/ CallExternal \/ EnterCallee
  BY <1>4, CallSteps
<1>5. CASE LeaveCallee \/ LeaveRoot \/ LeaveLastRoot
  BY <1>5, LeaveSteps
<1>6. CASE Unwind \/ UnwindCrashes \/ Build
  BY <1>6, UnwindSteps
<1>7. CASE Stopped \/ UNCHANGED tvars
  BY <1>7, TInvStutter DEF Stopped
<1> QED
  BY <1>1, <1>2, <1>3, <1>4, <1>5, <1>6, <1>7 DEF TNext

LEMMA TInvAlways == TSpec => []TInv
BY TInvInit, TInvStep, PTL DEF TSpec

(* Whatever the programs: the values of the state, and that a callee is    *)
(* younger than its caller, so the recursions of unwind_func_info and      *)
(* build_var_access_footprint end.                                         *)
THEOREM TraversalTypes == TSpec => []TTypeOK
<1>1. ASSUME TInv PROVE TTypeOK
  <2>1. ScalarsGood /\ InfosGood
    BY <1>1 DEF TInv
  <2>2. Len(infos) \in Nat /\ DOMAIN infos = 1..Len(infos)
    BY <2>1, SeqIs DEF InfosGood
  <2>3. current \in 0..Len(infos)
    <3>1. CASE phase = "visit"
      BY <1>1, <2>2, <3>1, CurrentIn
    <3>2. CASE phase # "visit"
      BY <2>1, <2>2, <3>2 DEF ScalarsGood
    <3> QED
      BY <3>1, <3>2
  <2>4. Range(ancestry_stack) \cup {last_visited} \subseteq DOMAIN program.kind \cup {NoCursor}
    <3> DEFINE S == DOMAIN program.kind \cup {NoCursor}
    <3>1. ancestry_stack \in Seq(S) /\ last_visited \in S
      BY <2>1 DEF ScalarsGood, Cursors
    <3> HIDE DEF S
    <3>2. \A i \in DOMAIN ancestry_stack : ancestry_stack[i] \in S
      BY <3>1
    <3> QED
      BY <3>1, <3>2 DEF Range, S
  <2>5. ASSUME NEW i \in DOMAIN infos
        PROVE  /\ Range(infos[i].callees) \subseteq (i + 1)..Len(infos)
               /\ \A va \in Range(infos[i].accesses) : va.type \in EntryTypes
    <3>1. /\ infos[i].callees \in Seq((i + 1)..Len(infos))
          /\ \A p \in DOMAIN infos[i].accesses : EntryGood(infos[i].accesses[p])
      BY <2>1 DEF InfosGood, InfoGood
    <3>2. \A k \in DOMAIN infos[i].callees : infos[i].callees[k] \in (i + 1)..Len(infos)
      BY <3>1
    <3> QED
      BY <3>1, <3>2 DEF Range, EntryGood
  <2> QED
    BY <2>1, <2>3, <2>4, <2>5 DEF TTypeOK, ScalarsGood, EntryTypes
<1> QED
  BY <1>1, TInvAlways, PTL

(* Whatever the programs, recursive or not: the n-th Call entry of a       *)
(* function stands for its n-th callee, at any time between the push of    *)
(* both and the end of unwinding, which rewrites the accesses around the   *)
(* Call entries and marks or nulls others.  So the next_callee counter of  *)
(* build_var_access_footprint never leaves the callees and never takes one *)
(* for another.  (The one of unwind_func_info does, see                    *)
(* resolve_var_access_alias: it stops at a callee in a system header.)     *)
THEOREM CalleesAligned == TSpec => []CallsAligned
<1>1. TInv => CallsAligned
  BY DEF TInv
<1> QED
  BY <1>1, TInvAlways, PTL

(* Whatever the programs: if the calls of the command line are matched in  *)
(* order, unwind_func_info never looks for a parameter in an empty list.   *)
THEOREM ParametersFound == TSpec => []NoWildParameter
<1>1. TInv => NoWildParameter
  BY DEF TInv
<1> QED
  BY <1>1, TInvAlways, PTL
-----------------------------------------------------------------------------
(* FlattenSeq, a sequence at a time                                        *)

FlatStep(s, f, i) == IF i = 1 THEN s[i] ELSE f[i - 1] \o s[i]
Flattens(s, f, n) == f = [i \in 1..n |-> FlatStep(s, f, i)]

LEMMA FlattensExists ==
  ASSUME NEW s, NEW n \in Nat
  PROVE  \E f : Flattens(s, f, n)
<1> DEFINE Solved(m) == \E f : Flattens(s, f, m)
           Unsolved == {m \in Nat : ~Solved(m)}
<1> SUFFICES ASSUME Unsolved # {} PROVE FALSE
  OBVIOUS
<1>1. PICK m \in Unsolved : \A q \in Unsolved : m <= q
  <2>1. Unsolved \subseteq Nat
    OBVIOUS
  <2> HIDE DEF Unsolved
  <2> QED
    BY <2>1, LeastOf
<1>2. m # 0
  <2> DEFINE none == [i \in 1..0 |-> 0]
  <2>1. none = [i \in 1..0 |-> FlatStep(s, none, i)]
    <3>1. 1..0 = {}
      OBVIOUS
    <3> QED
      BY <3>1
  <2>2. Solved(0)
    BY <2>1 DEF Flattens
  <2> HIDE DEF Solved
  <2> QED
    BY <2>2, <1>1
<1>3. m \in Nat /\ ~Solved(m) /\ m - 1 \in Nat /\ Solved(m - 1)
  <2> HIDE DEF Solved
  <2> QED
    BY <1>1, <1>2
<1>4. PICK f : f = [i \in 1..(m - 1) |-> FlatStep(s, f, i)]
  BY <1>3 DEF Flattens
<1> DEFINE g == [i \in 1..m |-> IF i = m THEN FlatStep(s, f, m) ELSE f[i]]
<1>5. \A i \in 1..m : FlatStep(s, g, i) = FlatStep(s, f, i)
  <2> TAKE i \in 1..m
  <2>1. i # 1 => i - 1 \in 1..m /\ i - 1 # m
    BY <1>3
  <2>2. i # 1 => g[i - 1] = f[i - 1]
    BY <2>1
  <2> HIDE DEF g
  <2> QED
    BY <2>2 DEF FlatStep
<1>6. g = [i \in 1..m |-> FlatStep(s, g, i)]
  <2>1. \A i \in 1..m : i # m => f[i] = FlatStep(s, f, i)
    <3>1. \A i \in 1..m : i # m => i \in 1..(m - 1)
      BY <1>3
    <3> QED
      BY <3>1, <1>4
  <2>2. \A i \in 1..m : g[i] = FlatStep(s, g, i)
    <3>1. \A i \in 1..m : g[i] = FlatStep(s, f, i)
      BY <2>1
    <3> HIDE DEF g
    <3> QED
      BY <3>1, <1>5
  <2>3. g = [i \in 1..m |-> g[i]]
    OBVIOUS
  <2> HIDE DEF g
  <2> QED
    BY <2>2, <2>3
<1> QED
  BY <1>3, <1>6 DEF Flattens

LEMMA FlattensSame ==
  ASSUME NEW s, NEW t, NEW n \in Nat, NEW m \in Nat, n <= m, NEW f, NEW g,
         Flattens(s, f, n), Flattens(t, g, m), \A i \in 1..n : t[i] = s[i]
  PROVE  \A i \in 1..n : g[i] = f[i]
<1> DEFINE Differ == {i \in 1..n : g[i] # f[i]}
<1> SUFFICES ASSUME Differ # {} PROVE FALSE
  OBVIOUS
<1>1. PICK i \in Differ : \A j \in Differ : i <= j
  <2>1. Differ \subseteq Nat
    OBVIOUS
  <2> HIDE DEF Differ
  <2> QED
    BY <2>1, LeastOf
<1>2. i \in 1..n /\ i \in 1..m /\ g[i] # f[i]
  BY <1>1
<1>3. i # 1 => i - 1 \in 1..n /\ i - 1 \notin Differ
  <2>1. i # 1 => i - 1 \in 1..n /\ ~(i <= i - 1)
    BY <1>2
  <2> HIDE DEF Differ
  <2> QED
    BY <2>1, <1>1
<1>4. FlatStep(t, g, i) = FlatStep(s, f, i)
  BY <1>2, <1>3 DEF FlatStep
<1>5. f[i] = FlatStep(s, f, i) /\ g[i] = FlatStep(t, g, i)
  BY <1>2 DEF Flattens
<1> QED
  BY <1>2, <1>4, <1>5

LEMMA FlattenIs ==
  ASSUME NEW s, IsSeq(s), s # <<>>
  PROVE  \E f : Flattens(s, f, Len(s)) /\ FlattenSeq(s) = f[Len(s)] /\ Len(s) \in Nat \ {0}
<1> DEFINE n == Len(s)
           Is(f) == f = [i \in 1..n |-> FlatStep(s, f, i)]
<1>1. n \in Nat \ {0}
  <2>1. n \in Nat /\ s = [i \in 1..n |-> s[i]]
    BY SeqIs
  <2>2. n = 0 => s = <<>>
    BY <2>1
  <2> QED
    BY <2>1, <2>2
<1> HIDE DEF n
<1>2. PICK g : Is(g)
  BY <1>1, FlattensExists DEF Flattens
<1>3. FlattenSeq(s) = (CHOOSE f : Is(f))[n]
  BY <1>1 DEF FlattenSeq, FlatStep, n
<1>4. Is(CHOOSE f : Is(f))
  <2> HIDE DEF Is
  <2> QED
    BY <1>2
<1> QED
  BY <1>1, <1>3, <1>4 DEF Flattens, n

LEMMA FlattenNone == FlattenSeq(<<>>) = <<>>
BY DEF FlattenSeq

LEMMA ConcatNone ==
  ASSUME NEW x, IsSeq(x)
  PROVE  <<>> \o x = x /\ x \o <<>> = x
<1> DEFINE T == {x[i] : i \in DOMAIN x}
<1>1. x \in Seq(T)
  BY DEF IsSeq
<1> HIDE DEF T
<1> QED
  BY <1>1, ConcatEmptySeq

LEMMA ConcatAssoc ==
  ASSUME NEW x, NEW y, NEW z, IsSeq(x), IsSeq(y), IsSeq(z)
  PROVE  (x \o y) \o z = x \o (y \o z)
<1> DEFINE X == {x[i] : i \in DOMAIN x}
           Y == {y[i] : i \in DOMAIN y}
           Z == {z[i] : i \in DOMAIN z}
           U == X \cup Y \cup Z
<1>1. x \in Seq(X) /\ y \in Seq(Y) /\ z \in Seq(Z)
  BY DEF IsSeq
<1>2. X \subseteq U /\ Y \subseteq U /\ Z \subseteq U
  OBVIOUS
<1> HIDE DEF X, Y, Z, U
<1>3. x \in Seq(U) /\ y \in Seq(U) /\ z \in Seq(U)
  BY <1>1, <1>2, SeqWiden
<1> QED
  BY <1>3, ConcatAssociative

(* What is flattened is appended to.                                       *)
LEMMA FlattenAppend ==
  ASSUME NEW s, IsSeq(s), NEW x, IsSeq(x), IsSeq(FlattenSeq(s))
  PROVE  FlattenSeq(Append(s, x)) = FlattenSeq(s) \o x
<1> DEFINE t == Append(s, x)
           n == Len(s)
<1>1. /\ IsSeq(t) /\ Len(t) = n + 1 /\ t[n + 1] = x /\ t # <<>> /\ n \in Nat
      /\ \A i \in 1..n : t[i] = s[i]
  BY SeqAppend, SeqIs
<1>2. PICK g : Flattens(t, g, n + 1) /\ FlattenSeq(t) = g[n + 1]
  <2> HIDE DEF t
  <2> QED
    BY <1>1, FlattenIs
<1>3. g[n + 1] = FlatStep(t, g, n + 1)
  BY <1>1, <1>2 DEF Flattens
<1>4. CASE s = <<>>
  <2>1. n = 0
    BY <1>4, NoneIsSeq
  <2>2. FlattenSeq(t) = x
    BY <2>1, <1>1, <1>2, <1>3 DEF FlatStep
  <2> QED
    BY <1>4, <2>2, FlattenNone, ConcatNone
<1>5. CASE s # <<>>
  <2>1. PICK f : Flattens(s, f, n) /\ FlattenSeq(s) = f[n] /\ n \in Nat \ {0}
    BY <1>5, FlattenIs
  <2>2. g[n] = f[n]
    <3> HIDE DEF t, n
    <3>1. n + 1 \in Nat /\ n <= n + 1 /\ n \in 1..n
      BY <2>1
    <3> QED
      BY <1>1, <1>2, <2>1, <3>1, FlattensSame
  <2>3. FlatStep(t, g, n + 1) = g[n] \o x
    <3> HIDE DEF t
    <3> QED
      BY <1>1, <2>1 DEF FlatStep
  <2> QED
    BY <2>1, <2>2, <2>3, <1>2, <1>3
<1> QED
  BY <1>4, <1>5

LEMMA SameSeq ==
  ASSUME NEW s, NEW t, IsSeq(s), IsSeq(t), Len(t) = Len(s), \A p \in 1..Len(s) : t[p] = s[p]
  PROVE  t = s
<1>1. s = [p \in 1..Len(s) |-> s[p]] /\ t = [p \in 1..Len(s) |-> t[p]]
  BY SeqIs
<1> QED
  BY <1>1

LEMMA FlattenIsSeq ==
  ASSUME NEW s, IsSeq(s), \A p \in DOMAIN s : IsSeq(s[p])
  PROVE  IsSeq(FlattenSeq(s))
<1>1. CASE s = <<>>
  BY <1>1, FlattenNone, NoneIsSeq
<1>2. CASE s # <<>>
  <2>1. PICK f : Flattens(s, f, Len(s)) /\ FlattenSeq(s) = f[Len(s)] /\ Len(s) \in Nat \ {0}
    BY <1>2, FlattenIs
  <2>2. DOMAIN s = 1..Len(s)
    BY SeqIs
  <2> DEFINE Bad == {p \in 1..Len(s) : ~IsSeq(f[p])}
  <2>3. Bad = {}
    <3> SUFFICES ASSUME Bad # {} PROVE FALSE
      OBVIOUS
    <3>1. PICK p \in Bad : \A q \in Bad : p <= q
      <4>1. Bad \subseteq Nat
        BY <2>1
      <4> HIDE DEF Bad
      <4> QED
        BY <4>1, LeastOf
    <3>2. p \in 1..Len(s) /\ ~IsSeq(f[p]) /\ IsSeq(s[p])
      BY <3>1, <2>2
    <3>3. p # 1 => IsSeq(f[p - 1])
      <4>1. p # 1 => p - 1 \in 1..Len(s) /\ ~(p <= p - 1)
        BY <3>2, <2>1
      <4>2. p # 1 => p - 1 \notin Bad
        <5> HIDE DEF Bad
        <5> QED
          BY <4>1, <3>1
      <4> QED
        BY <4>1, <4>2
    <3>4. f[p] = FlatStep(s, f, p)
      BY <3>2, <2>1 DEF Flattens
    <3>5. IsSeq(FlatStep(s, f, p))
      <4> HIDE DEF Bad
      <4> QED
        BY <3>2, <3>3, SeqConcat DEF FlatStep
    <3> QED
      BY <3>2, <3>4, <3>5
  <2>4. Len(s) \in 1..Len(s)
    BY <2>1
  <2> QED
    BY <2>1, <2>3, <2>4
<1> QED
  BY <1>1, <1>2
-----------------------------------------------------------------------------
(* What build_var_access_footprint computes                                *)

(* What entry p of FuncInfo i becomes, f being the footprints.             *)
Piece(is, f, i, p) ==
  LET va == is[i].accesses[p]
  IN  CASE va.type = "Call" -> f[is[i].callees[next_callee(is[i].accesses, p)]]
        [] va.type = "Null" -> <<>>
        [] OTHER -> <<va>>

Pieces(is, f, i) == [p \in DOMAIN is[i].accesses |-> Piece(is, f, i, p)]

Inlined(is, f, i) == IF External(is[i]) THEN <<>> ELSE FlattenSeq(Pieces(is, f, i))

Builds(is, f) ==
  /\ f = [i \in DOMAIN is |-> Inlined(is, f, i)]
  /\ \A i \in DOMAIN is : IsSeq(f[i])

(* The callees of a FuncInfo, which its Call entries are counted to.       *)
LEMMA CalleeOf ==
  ASSUME InfosGood, CallsAligned, NEW i \in DOMAIN infos, NEW p \in Calls(infos[i].accesses)
  PROVE  /\ next_callee(infos[i].accesses, p) \in DOMAIN infos[i].callees
         /\ infos[i].callees[next_callee(infos[i].accesses, p)] \in (i + 1)..Len(infos)
         /\ i \in 1..Len(infos) /\ Len(infos) \in Nat
<1>1. /\ IsSeq(infos[i].accesses) /\ infos[i].callees \in Seq((i + 1)..Len(infos))
      /\ i \in 1..Len(infos) /\ Len(infos) \in Nat
  BY SeqIs DEF InfosGood, InfoGood
<1>2. next_callee(infos[i].accesses, p) \in 1..Cardinality(Calls(infos[i].accesses))
  BY <1>1, CallsFinite
<1>3. Cardinality(Calls(infos[i].accesses)) = Len(infos[i].callees)
  BY DEF CallsAligned
<1>4. next_callee(infos[i].accesses, p) \in DOMAIN infos[i].callees
  BY <1>1, <1>2, <1>3, SeqTyped, SeqIs
<1> QED
  BY <1>1, <1>4

(* The equation has one solution.                                          *)
LEMMA BuildIs ==
  ASSUME InfosGood, CallsAligned, NEW g, Builds(infos, g)
  PROVE  build_var_access_footprint(infos) = g
<1> DEFINE Is(f) == f = [i \in DOMAIN infos |-> Inlined(infos, f, i)]
           h == build_var_access_footprint(infos)
           n == Len(infos)
<1>1. h = CHOOSE f : Is(f)
  BY DEF build_var_access_footprint, Inlined, Pieces, Piece
<1>2. Is(g)
  BY DEF Builds
<1>3. Is(h)
  <2> HIDE DEF Is, h
  <2> QED
    BY <1>1, <1>2
<1>4. n \in Nat /\ DOMAIN infos = 1..n
  BY SeqIs DEF InfosGood
<1> HIDE DEF h
<1> DEFINE Differ == {m \in 0..n : n - m \in 1..n /\ h[n - m] # g[n - m]}
<1>5. Differ = {}
  <2> SUFFICES ASSUME Differ # {} PROVE FALSE
    OBVIOUS
  <2>1. PICK m \in Differ : \A q \in Differ : m <= q
    <3>1. Differ \subseteq Nat
      BY <1>4
    <3> HIDE DEF Differ
    <3> QED
      BY <3>1, LeastOf
  <2> DEFINE i == n - m
  <2>2. i \in 1..n /\ h[i] # g[i] /\ m \in 0..n
    BY <2>1
  <2>3. \A j \in (i + 1)..n : h[j] = g[j]
    <3> SUFFICES ASSUME NEW j \in (i + 1)..n, h[j] # g[j] PROVE FALSE
      OBVIOUS
    <3>1. n - j \in 0..n /\ n - (n - j) = j /\ j \in 1..n /\ ~(m <= n - j)
      BY <2>2, <1>4
    <3>2. n - j \in Differ
      BY <3>1
    <3> HIDE DEF Differ
    <3> QED
      BY <3>1, <3>2, <2>1
  <2> HIDE DEF Differ, i
  <2>4. \A p \in DOMAIN infos[i].accesses : Piece(infos, h, i, p) = Piece(infos, g, i, p)
    <3> TAKE p \in DOMAIN infos[i].accesses
    <3>1. CASE p \in Calls(infos[i].accesses)
      <4>1. infos[i].callees[next_callee(infos[i].accesses, p)] \in (i + 1)..n
        BY <3>1, <2>2, <1>4, CalleeOf
      <4> QED
        BY <4>1, <2>3 DEF Piece
    <3>2. CASE p \notin Calls(infos[i].accesses)
      BY <3>2 DEF Piece, Calls
    <3> QED
      BY <3>1, <3>2
  <2>5. Pieces(infos, h, i) = Pieces(infos, g, i)
    BY <2>4 DEF Pieces
  <2>6. Inlined(infos, h, i) = Inlined(infos, g, i)
    BY <2>5 DEF Inlined
  <2>7. h[i] = Inlined(infos, h, i) /\ g[i] = Inlined(infos, g, i)
    BY <1>2, <1>3, <1>4, <2>2
  <2> QED
    BY <2>2, <2>6, <2>7
<1>6. \A i \in 1..n : h[i] = g[i]
  <2> SUFFICES ASSUME NEW i \in 1..n, h[i] # g[i] PROVE FALSE
    OBVIOUS
  <2>1. n - i \in 0..n /\ n - (n - i) = i
    BY <1>4
  <2>2. n - i \in Differ
    BY <2>1
  <2> QED
    BY <2>2, <1>5
<1>7. h = [i \in 1..n |-> h[i]] /\ g = [i \in 1..n |-> g[i]]
  BY <1>2, <1>3, <1>4
<1> QED
  BY <1>6, <1>7 DEF h
-----------------------------------------------------------------------------
(* The invariant behind InliningInOrder                                    *)

(* The callee pointers make the FuncInfos trees, with the roots on top.    *)
Forest ==
  /\ \A i \in DOMAIN infos, j \in DOMAIN infos :
       \A k \in DOMAIN infos[i].callees, l \in DOMAIN infos[j].callees :
         infos[i].callees[k] = infos[j].callees[l] => i = j /\ k = l
  /\ \A i \in DOMAIN infos : \A k \in DOMAIN infos[i].callees : infos[i].callees[k] > NumRoots

(* The last entry so far is the Call entry of FuncInfo j.                  *)
EndsIn(info, j) ==
  /\ info.accesses # <<>> /\ info.accesses[Len(info.accesses)].type = "Call"
  /\ info.callees # <<>> /\ info.callees[Len(info.callees)] = j

(* Each active call is the last thing its caller has seen.                 *)
Chain ==
  /\ \A m \in 1..Len(frames) : ~External(infos[frames[m].info])
  /\ \A m \in 1..(Len(frames) - 1) : EndsIn(infos[frames[m].info], frames[m + 1].info)

RootsWaiting ==
  \A r \in 1..NumRoots : ~External(infos[r]) /\ (r > next => infos[r].accesses = <<>>)

(* What would be built now is what was pushed.                             *)
Follows(n) == \E g : Builds(infos, g) /\ \A r \in 1..n : g[r] = trails[r]

Blank(info) == ~External(info) /\ info.accesses = <<>> /\ info.callees = <<>>

InlineInv ==
  /\ phase = "search" => trails = <<>> /\ \A i \in DOMAIN infos : Blank(infos[i])
  /\ phase = "visit" =>
       /\ Forest /\ Chain /\ RootsWaiting
       /\ IsSeq(trails) /\ Len(trails) = next /\ (\A r \in 1..next : IsSeq(trails[r]))
       /\ Follows(next)
  /\ phase = "unwind" =>
       /\ NumRoots > 0
       /\ \/ \A k \in DOMAIN work : work[k] # 1
          \/ work = [r \in 1..NumRoots |-> r] /\ Follows(NumRoots)

Active(i) == \E m \in 1..Len(frames) : frames[m].info = i

(* A FuncInfo that is active is the last callee of the one before it.      *)
LEMMA ActiveCallee ==
  ASSUME TInv, phase = "visit", Forest, Chain, NEW i \in DOMAIN infos,
         NEW k \in DOMAIN infos[i].callees, Active(infos[i].callees[k])
  PROVE  Active(i) /\ i # current /\ k = Len(infos[i].callees)
<1>1. /\ InfosGood /\ Len(frames) \in Nat /\ frames[1].info = next /\ next \in 1..NumRoots
      /\ frames[Len(frames)].info = current /\ NumRoots \in Nat
      /\ \A n \in 1..Len(frames) : frames[n].info \in DOMAIN infos
      /\ \A m \in 1..Len(frames), n \in 1..Len(frames) :
           m < n => frames[m].info < frames[n].info
  BY CurrentIn, NumRootsNat DEF TInv, FramesGood, RootsGood, ScalarsGood
<1>2. PICK l \in 1..Len(frames) : frames[l].info = infos[i].callees[k]
  BY DEF Active
<1>3. frames[l].info > NumRoots /\ frames[l].info \in Nat
  <2>1. DOMAIN infos = 1..Len(infos) /\ Len(infos) \in Nat
    BY <1>1, SeqIs DEF InfosGood
  <2> QED
    BY <2>1, <1>1, <1>2 DEF Forest
<1>4. l # 1
  BY <1>1, <1>3
<1> DEFINE m == l - 1
           j == frames[m].info
<1>5. /\ m \in 1..(Len(frames) - 1) /\ m \in 1..Len(frames) /\ m + 1 = l
      /\ Len(frames) \in 1..Len(frames) /\ m < Len(frames)
  BY <1>1, <1>2, <1>4
<1> HIDE DEF m
<1>6. EndsIn(infos[j], infos[i].callees[k]) /\ j \in DOMAIN infos /\ j # current
  <2>1. EndsIn(infos[j], frames[m + 1].info)
    BY <1>5 DEF Chain
  <2>2. j < current
    BY <1>1, <1>5
  <2>3. DOMAIN infos = 1..Len(infos) /\ Len(infos) \in Nat /\ j \in DOMAIN infos
    BY <1>1, <1>5, SeqIs DEF InfosGood
  <2> QED
    BY <1>2, <1>5, <2>1, <2>2, <2>3
<1>7. Len(infos[j].callees) \in DOMAIN infos[j].callees
  <2>1. infos[j].callees # <<>> /\ infos[j].callees \in Seq((j + 1)..Len(infos))
    BY <1>1, <1>6 DEF EndsIn, InfosGood, InfoGood
  <2> HIDE DEF j
  <2>2. IsSeq(infos[j].callees)
    BY <2>1, SeqTyped
  <2>3. /\ infos[j].callees = [x \in 1..Len(infos[j].callees) |-> infos[j].callees[x]]
        /\ Len(infos[j].callees) \in Nat
    BY <2>2, SeqIs
  <2>4. Len(infos[j].callees) # 0
    BY <2>1, <2>3
  <2> QED
    BY <2>3, <2>4
<1>8. i = j /\ k = Len(infos[j].callees)
  BY <1>6, <1>7 DEF EndsIn, Forest
<1>9. Active(i)
  BY <1>5, <1>8 DEF Active
<1> QED
  BY <1>6, <1>8, <1>9

(* The last entry is the only one with the last number.                    *)
LEMMA LastCall ==
  ASSUME NEW s, IsSeq(s), NEW p \in Calls(s), Len(s) \in Calls(s)
  PROVE  next_callee(s, p) = Cardinality(Calls(s)) <=> p = Len(s)
<1>1. /\ Len(s) \in Nat /\ DOMAIN s = 1..Len(s)
      /\ IsFiniteSet(Calls(s)) /\ Cardinality(Calls(s)) \in Nat
  BY SeqIs, CallsFinite
<1> DEFINE T == {q \in Calls(s) : q <= p}
<1>2. Calls(s) \subseteq 1..Len(s) /\ next_callee(s, p) = Cardinality(T)
  BY <1>1 DEF Calls, next_callee
<1>3. CASE p = Len(s)
  <2>1. T = Calls(s)
    BY <1>1, <1>2, <1>3
  <2> QED
    BY <2>1, <1>2, <1>3
<1>4. CASE p # Len(s)
  <2>1. Len(s) \notin T /\ T \subseteq Calls(s) /\ T # Calls(s)
    BY <1>1, <1>2, <1>4
  <2> HIDE DEF T
  <2>2. Cardinality(T) # Cardinality(Calls(s))
    BY <2>1, <1>1, FS_Subset
  <2> QED
    BY <2>2, <1>2, <1>4
<1> QED
  BY <1>3, <1>4

LEMMA PiecesAre ==
  ASSUME InfosGood, CallsAligned, NEW i \in DOMAIN infos, NEW g, Builds(infos, g)
  PROVE  /\ IsSeq(Pieces(infos, g, i)) /\ Len(Pieces(infos, g, i)) = Len(infos[i].accesses)
         /\ \A p \in 1..Len(infos[i].accesses) :
              /\ Pieces(infos, g, i)[p] = Piece(infos, g, i, p)
              /\ IsSeq(Piece(infos, g, i, p))
         /\ DOMAIN infos[i].accesses = 1..Len(infos[i].accesses)
         /\ Len(infos[i].accesses) \in Nat /\ IsSeq(infos[i].accesses)
<1> DEFINE n == Len(infos[i].accesses)
           t == Pieces(infos, g, i)
<1>1. IsSeq(infos[i].accesses)
  BY DEF InfosGood, InfoGood
<1>2. n \in Nat /\ DOMAIN infos[i].accesses = 1..n
  BY <1>1, SeqIs
<1> HIDE DEF n
<1>3. t = [p \in 1..n |-> Piece(infos, g, i, p)]
  BY <1>2 DEF Pieces
<1> HIDE DEF t
<1>4. t = [p \in 1..n |-> t[p]] /\ \A p \in 1..n : t[p] = Piece(infos, g, i, p)
  BY <1>3
<1>5. IsSeq(t) /\ Len(t) = n
  BY <1>2, <1>4, SeqMade
<1>6. ASSUME NEW p \in 1..n PROVE IsSeq(Piece(infos, g, i, p))
  <2>1. CASE p \in Calls(infos[i].accesses)
    <3> DEFINE j == infos[i].callees[next_callee(infos[i].accesses, p)]
    <3>1. j \in DOMAIN infos
      <4>1. j \in (i + 1)..Len(infos) /\ i \in 1..Len(infos) /\ Len(infos) \in Nat
        BY <2>1, CalleeOf
      <4>2. DOMAIN infos = 1..Len(infos)
        BY SeqIs DEF InfosGood
      <4> HIDE DEF j
      <4> QED
        BY <4>1, <4>2
    <3>2. IsSeq(g[j])
      BY <3>1 DEF Builds
    <3> QED
      BY <2>1, <3>2 DEF Piece, Calls
  <2>2. CASE p \notin Calls(infos[i].accesses)
    <3> DEFINE va == infos[i].accesses[p]
    <3>1. IsSeq(<<>>) /\ IsSeq(<<va>>)
      <4> HIDE DEF va
      <4>1. <<va>> \in Seq({va})
        OBVIOUS
      <4> QED
        BY <4>1, NoneIsSeq, SeqTyped
    <3>2. va.type # "Call"
      BY <2>2, <1>2 DEF Calls
    <3>3. Piece(infos, g, i, p) \in {<<>>, <<va>>}
      BY <3>2 DEF Piece
    <3> HIDE DEF va
    <3> QED
      BY <3>1, <3>3
  <2> QED
    BY <2>1, <2>2
<1> QED
  BY <1>1, <1>2, <1>4, <1>5, <1>6 DEF n, t

LEMMA IsAppend ==
  ASSUME NEW s, IsSeq(s), NEW x, NEW t, IsSeq(t), Len(t) = Len(s) + 1,
         t[Len(s) + 1] = x, \A p \in 1..Len(s) : t[p] = s[p]
  PROVE  t = Append(s, x)
<1>1. /\ IsSeq(Append(s, x)) /\ Len(Append(s, x)) = Len(s) + 1
      /\ Append(s, x)[Len(s) + 1] = x /\ Len(s) \in Nat
      /\ \A p \in 1..Len(s) : Append(s, x)[p] = s[p]
  BY SeqAppend, SeqIs
<1>2. \A p \in 1..Len(t) : Append(s, x)[p] = t[p]
  BY <1>1
<1> QED
  BY <1>1, <1>2, SameSeq

Single(E, e) == E = <<e>>

LEMMA OneIsSeq ==
  ASSUME NEW e
  PROVE  IsSeq(<<e>>) /\ Len(<<e>>) = 1 /\ <<e>>[1] = e
<1>1. <<e>> \in Seq({e}) /\ Len(<<e>>) = 1 /\ <<e>>[1] = e
  OBVIOUS
<1> QED
  BY <1>1, SeqTyped

LEMMA AppendedOne ==
  ASSUME NEW a, IsSeq(a), NEW e, NEW E, Single(E, e)
  PROVE  /\ IsSeq(a \o E) /\ Len(a \o E) = Len(a) + 1 /\ DOMAIN (a \o E) = 1..(Len(a) + 1)
         /\ (a \o E)[Len(a) + 1] = e /\ \A p \in 1..Len(a) : (a \o E)[p] = a[p]
<1>1. IsSeq(E) /\ Len(E) = 1 /\ E[1] = e
  BY OneIsSeq DEF Single
<1>2. /\ IsSeq(a \o E) /\ Len(a \o E) = Len(a) + Len(E)
      /\ \A p \in 1..Len(a) : (a \o E)[p] = a[p]
      /\ \A p \in 1..Len(E) : (a \o E)[Len(a) + p] = E[p]
  <2>1. IsSeq(E)
    BY <1>1
  <2> QED
    BY <2>1, SeqConcat
<1>3. DOMAIN (a \o E) = 1..Len(a \o E)
  BY <1>2, SeqIs
<1>4. (a \o E)[Len(a) + 1] = E[1]
  <2>1. 1 \in 1..Len(E)
    BY <1>1
  <2> QED
    BY <2>1, <1>2
<1> QED
  BY <1>1, <1>2, <1>3, <1>4

(* An entry pushed is the last of the footprint of every active call.      *)
LEMMA PushedLast ==
  ASSUME TInv, phase = "visit", Forest, Chain, NEW g, Builds(infos, g),
         NEW e, e.type \notin {"Call", "Null"}, NEW E, Single(E, e),
         infos' = [infos EXCEPT ![current].accesses = @ \o E]
  PROVE  Builds(infos', [i \in DOMAIN infos |-> IF Active(i) THEN g[i] \o E ELSE g[i]])
<1> DEFINE h == [i \in DOMAIN infos |-> IF Active(i) THEN g[i] \o E ELSE g[i]]
           acc(i) == infos[i].accesses
<1>e. IsSeq(E) /\ Len(E) = 1 /\ E[1] = e
  BY OneIsSeq DEF Single
<1>1. /\ InfosGood /\ CallsAligned /\ current \in DOMAIN infos /\ Len(frames) \in Nat
      /\ FramesGood
  BY CurrentIn DEF TInv
<1>2. /\ DOMAIN infos' = DOMAIN infos
      /\ \A i \in DOMAIN infos :
           /\ infos'[i].callees = infos[i].callees /\ External(infos'[i]) = External(infos[i])
           /\ i # current => infos'[i].accesses = acc(i)
      /\ infos'[current].accesses = acc(current) \o E
  <2>1. \A i \in DOMAIN infos : DOMAIN infos[i] = InfoFields
    BY <1>1 DEF InfosGood, InfoGood
  <2> QED
    BY <1>1, <2>1 DEF InfoFields, External
<1>3. \A i \in DOMAIN infos :
        /\ IsSeq(g[i]) /\ h[i] = IF Active(i) THEN g[i] \o E ELSE g[i]
        /\ IsSeq(h[i])
  BY <1>e, SeqConcat DEF Builds
<1>4. ASSUME NEW i \in DOMAIN infos PROVE g[i] = Inlined(infos, g, i)
  BY DEF Builds
<1> HIDE DEF h
(* A piece changes only if it is an active callee.                         *)
<1>5. ASSUME NEW i \in DOMAIN infos, NEW p \in 1..Len(acc(i)),
             ~(Active(i) /\ i # current /\ p \in Calls(acc(i))
               /\ next_callee(acc(i), p) = Len(infos[i].callees))
      PROVE  Piece(infos, h, i, p) = Piece(infos, g, i, p)
  <2>1. CASE p \in Calls(acc(i))
    <3> DEFINE k == next_callee(acc(i), p)
               j == infos[i].callees[k]
    <3>1. k \in DOMAIN infos[i].callees /\ j \in DOMAIN infos
      <4>1. /\ k \in DOMAIN infos[i].callees /\ j \in (i + 1)..Len(infos)
            /\ i \in 1..Len(infos) /\ Len(infos) \in Nat /\ DOMAIN infos = 1..Len(infos)
        BY <2>1, <1>1, CalleeOf, SeqIs DEF InfosGood
      <4> HIDE DEF j, k
      <4> QED
        BY <4>1
    <3>2. ~Active(j)
      <4> HIDE DEF k
      <4> QED
        BY <3>1, <1>5, <2>1, ActiveCallee DEF k
    <3>3. h[j] = g[j]
      BY <3>1, <3>2, <1>3
    <3> QED
      BY <2>1, <3>3 DEF Piece, Calls
  <2>2. CASE p \notin Calls(acc(i))
    <3>1. p \in DOMAIN acc(i)
      BY <1>1, PiecesAre
    <3> QED
      BY <2>2, <3>1 DEF Piece, Calls
  <2> QED
    BY <2>1, <2>2
<1>6. ASSUME NEW i \in DOMAIN infos, i # current, NEW p PROVE Piece(infos', h, i, p) = Piece(infos, h, i, p)
  BY <1>2, <1>6 DEF Piece
<1>7. ASSUME NEW i \in DOMAIN infos, ~Active(i) PROVE Inlined(infos', h, i) = h[i]
  <2>1. i # current
    <3>1. Len(frames) \in 1..Len(frames) /\ frames[Len(frames)].info = current
      BY <1>1 DEF FramesGood
    <3> QED
      BY <3>1, <1>7 DEF Active
  <2>2. DOMAIN infos'[i].accesses = 1..Len(acc(i)) /\ DOMAIN acc(i) = 1..Len(acc(i))
    BY <2>1, <1>1, <1>2, PiecesAre
  <2>3. Pieces(infos', h, i) = Pieces(infos, g, i)
    BY <2>1, <2>2, <1>5, <1>6, <1>7 DEF Pieces
  <2> QED
    BY <2>3, <1>2, <1>3, <1>4, <1>7 DEF Inlined
<1>8. Inlined(infos', h, current) = h[current]
  <2> DEFINE s == Pieces(infos, g, current)
             t == Pieces(infos', h, current)
             n == Len(acc(current))
  <2>1. /\ IsSeq(s) /\ Len(s) = n /\ n \in Nat /\ DOMAIN acc(current) = 1..n /\ IsSeq(acc(current))
        /\ \A p \in 1..n : s[p] = Piece(infos, g, current, p) /\ IsSeq(s[p])
    BY <1>1, PiecesAre
  <2>2. Active(current) /\ ~External(infos[current])
    <3>1. Len(frames) \in 1..Len(frames) /\ frames[Len(frames)].info = current
      BY <1>1 DEF FramesGood
    <3> QED
      BY <3>1 DEF Active, Chain
  <2>3. /\ DOMAIN infos'[current].accesses = 1..(n + 1)
        /\ \A p \in 1..n : infos'[current].accesses[p] = acc(current)[p]
        /\ infos'[current].accesses[n + 1] = e
        /\ Calls(infos'[current].accesses) = Calls(acc(current))
    <3> DEFINE a == acc(current)
               b == a \o E
    <3>1. /\ IsSeq(b) /\ Len(b) = n + 1 /\ DOMAIN b = 1..(n + 1) /\ b[n + 1] = e
          /\ \A p \in 1..n : b[p] = a[p]
      BY <2>1, AppendedOne
    <3>2. DOMAIN b = 1..(n + 1)
      BY <3>1
    <3>3. Calls(b) = Calls(a)
      <4> HIDE DEF b
      <4> QED
        BY <3>1, <3>2, <2>1 DEF Calls
    <3> QED
      BY <3>1, <3>2, <3>3, <1>2
  <2>4. ASSUME NEW p \in 1..n PROVE Piece(infos', h, current, p) = Piece(infos, h, current, p)
    <3>1. next_callee(infos'[current].accesses, p) = next_callee(acc(current), p)
      BY <2>3 DEF next_callee
    <3> QED
      BY <3>1, <2>3, <1>1, <1>2 DEF Piece
  <2>5. Piece(infos', h, current, n + 1) = E
    BY <2>3 DEF Piece, Single
  <2>6. t = [p \in 1..(n + 1) |-> Piece(infos', h, current, p)]
    BY <2>3 DEF Pieces
  <2> HIDE DEF s, t, n
  <2>7. t = [p \in 1..(n + 1) |-> t[p]] /\ n + 1 \in Nat
    BY <2>6, <2>1
  <2>8. IsSeq(t) /\ Len(t) = n + 1 /\ t[n + 1] = E /\ \A p \in 1..n : t[p] = s[p]
    <3>1. \A p \in 1..n : Piece(infos, h, current, p) = Piece(infos, g, current, p)
      BY <1>1, <1>5 DEF n
    <3>2. IsSeq(t) /\ Len(t) = n + 1
      BY <2>7, SeqMade
    <3>3. n + 1 \in 1..(n + 1) /\ \A p \in 1..n : p \in 1..(n + 1)
      BY <2>1
    <3>4. t[n + 1] = E
      BY <3>3, <2>5, <2>6
    <3>5. ASSUME NEW p \in 1..n PROVE t[p] = s[p]
      <4>1. t[p] = Piece(infos', h, current, p)
        BY <3>3, <2>6
      <4> QED
        BY <4>1, <3>1, <2>1, <2>4
    <3> QED
      BY <3>2, <3>4, <3>5
  <2>9. t = Append(s, E)
    BY <2>1, <2>8, IsAppend
  <2>10. IsSeq(FlattenSeq(s)) /\ FlattenSeq(s) = g[current]
    <3>1. g[current] = FlattenSeq(s)
      BY <1>1, <1>4, <2>2 DEF Inlined, s
    <3> QED
      BY <3>1, <1>1, <1>3
  <2>11. FlattenSeq(t) = g[current] \o E
    BY <1>e, <2>1, <2>9, <2>10, FlattenAppend
  <2> QED
    BY <2>2, <2>11, <1>1, <1>2, <1>3 DEF Inlined, t
<1>9. ASSUME NEW i \in DOMAIN infos, Active(i), i # current PROVE Inlined(infos', h, i) = h[i]
  <2> DEFINE n == Len(acc(i))
             j == infos[i].callees[Len(infos[i].callees)]
             u == [p \in 1..(n - 1) |-> Piece(infos, g, i, p)]
             s == Pieces(infos, g, i)
             t == Pieces(infos', h, i)
  <2>1. /\ IsSeq(s) /\ Len(s) = n /\ n \in Nat /\ DOMAIN acc(i) = 1..n /\ IsSeq(acc(i))
        /\ \A p \in 1..n : s[p] = Piece(infos, g, i, p) /\ IsSeq(s[p])
    BY <1>1, PiecesAre
  <2>2. /\ EndsIn(infos[i], j) /\ Active(j) /\ ~External(infos[i])
    <3>1. PICK m \in 1..Len(frames) : frames[m].info = i
      BY <1>9 DEF Active
    <3>2. m \in 1..(Len(frames) - 1) /\ m + 1 \in 1..Len(frames)
      <4>1. m # Len(frames)
        BY <3>1, <1>9, <1>1 DEF FramesGood
      <4> QED
        BY <4>1, <3>1, <1>1
    <3>3. EndsIn(infos[i], frames[m + 1].info) /\ ~External(infos[i])
      BY <3>1, <3>2 DEF Chain
    <3> QED
      BY <3>2, <3>3 DEF EndsIn, Active
  <2>3. n \in Calls(acc(i)) /\ n - 1 \in Nat /\ n = (n - 1) + 1
    <3>1. n # 0
      <4>1. acc(i) = [p \in 1..n |-> acc(i)[p]]
        BY <2>1, SeqIs
      <4>2. acc(i) # <<>>
        BY <2>2 DEF EndsIn
      <4>3. n = 0 => acc(i) = <<>>
        BY <4>1
      <4> QED
        BY <4>2, <4>3
    <3>2. acc(i)[n].type = "Call"
      BY <2>2 DEF EndsIn
    <3> HIDE DEF n
    <3> QED
      BY <3>1, <3>2, <2>1 DEF Calls
  <2>4. Cardinality(Calls(acc(i))) = Len(infos[i].callees)
    BY <1>1 DEF CallsAligned
  <2>5. \A p \in Calls(acc(i)) : next_callee(acc(i), p) = Len(infos[i].callees) <=> p = n
    BY <2>1, <2>3, <2>4, LastCall
  <2>6. j \in DOMAIN infos /\ next_callee(acc(i), n) = Len(infos[i].callees)
    <3>1. next_callee(acc(i), n) = Len(infos[i].callees)
      BY <2>3, <2>5
    <3>2. j \in (i + 1)..Len(infos) /\ i \in 1..Len(infos) /\ Len(infos) \in Nat
      BY <3>1, <2>3, <1>1, CalleeOf
    <3>3. DOMAIN infos = 1..Len(infos)
      BY <1>1, SeqIs DEF InfosGood
    <3> HIDE DEF j
    <3> QED
      BY <3>1, <3>2, <3>3
  <2>7. Piece(infos, g, i, n) = g[j] /\ Piece(infos, h, i, n) = g[j] \o E
    <3>1. h[j] = g[j] \o E
      BY <2>2, <2>6, <1>3
    <3> QED
      BY <3>1, <2>3, <2>6 DEF Piece, Calls
  <2>8. \A p \in 1..(n - 1) : Piece(infos, h, i, p) = Piece(infos, g, i, p)
    <3> TAKE p \in 1..(n - 1)
    <3>1. p \in 1..n /\ p # n
      BY <2>1
    <3> QED
      BY <3>1, <2>5, <1>5
  <2>9. t = [p \in 1..n |-> Piece(infos', h, i, p)]
    BY <2>1, <1>2, <1>9 DEF Pieces
  <2> HIDE DEF s, t, n, j
  <2>10. t = [p \in 1..n |-> t[p]] /\ \A p \in 1..n : t[p] = Piece(infos, h, i, p)
    BY <2>9, <1>6, <1>9
  <2>11. IsSeq(t) /\ Len(t) = n
    BY <2>10, <2>1, SeqMade
  <2>12. /\ IsSeq(u) /\ Len(u) = n - 1 /\ DOMAIN u = 1..(n - 1)
         /\ \A p \in 1..(n - 1) : u[p] = Piece(infos, g, i, p) /\ IsSeq(u[p])
    <3>1. u = [p \in 1..(n - 1) |-> u[p]]
      OBVIOUS
    <3>2. \A p \in 1..(n - 1) : u[p] = Piece(infos, g, i, p) /\ p \in 1..n
      BY <2>3, <2>1
    <3> HIDE DEF u
    <3> QED
      BY <3>1, <3>2, <2>1, <2>3, SeqMade
  <2> HIDE DEF u
  <2>13. s = Append(u, g[j]) /\ t = Append(u, g[j] \o E)
    <3>1. \A p \in 1..(n - 1) : s[p] = u[p] /\ t[p] = u[p]
      BY <2>1, <2>8, <2>10, <2>12
    <3>2. s[n] = g[j] /\ t[n] = g[j] \o E
      BY <2>1, <2>3, <2>7, <2>10
    <3> QED
      <4>1. \A x, y, z : /\ IsSeq(x) /\ IsSeq(y) /\ Len(y) = Len(x) + 1 /\ y[Len(x) + 1] = z
                         /\ \A p \in 1..Len(x) : y[p] = x[p]
                         => y = Append(x, z)
        BY IsAppend
      <4>2. Len(u) + 1 = n
        BY <2>3, <2>12
      <4>3. s = Append(u, g[j])
        BY <4>1, <4>2, <3>1, <3>2, <2>1, <2>12
      <4>4. t = Append(u, g[j] \o E)
        BY <4>1, <4>2, <3>1, <3>2, <2>11, <2>12
      <4> QED
        BY <4>3, <4>4
  <2>14. IsSeq(FlattenSeq(u)) /\ IsSeq(g[j]) /\ IsSeq(E)
    BY <1>e, <2>12, <2>6, <1>3, FlattenIsSeq
  <2>15. /\ FlattenSeq(s) = FlattenSeq(u) \o g[j]
         /\ FlattenSeq(t) = FlattenSeq(u) \o (g[j] \o E)
    <3>1. IsSeq(g[j] \o E)
      BY <2>14, SeqConcat
    <3> QED
      BY <3>1, <2>12, <2>13, <2>14, FlattenAppend
  <2>16. FlattenSeq(t) = FlattenSeq(s) \o E
    <3> DEFINE w == FlattenSeq(u)
    <3>1. IsSeq(w) /\ FlattenSeq(s) = w \o g[j] /\ FlattenSeq(t) = w \o (g[j] \o E)
      BY <2>14, <2>15
    <3> HIDE DEF w
    <3>2. (w \o g[j]) \o E = w \o (g[j] \o E)
      <4> DEFINE v == g[j]
      <4>1. IsSeq(v) /\ IsSeq(w) /\ IsSeq(E)
        BY <3>1, <2>14
      <4> HIDE DEF v
      <4>2. (w \o v) \o E = w \o (v \o E)
        BY <4>1, ConcatAssoc
      <4> QED
        BY <4>2 DEF v
    <3> QED
      BY <3>1, <3>2
  <2>17. g[i] = FlattenSeq(s)
    BY <1>4, <2>2 DEF Inlined, s
  <2> QED
    BY <2>2, <2>16, <2>17, <1>2, <1>3, <1>9 DEF Inlined, t
<1>10. \A i \in DOMAIN infos : Inlined(infos', h, i) = h[i]
  BY <1>7, <1>8, <1>9
<1>11. h = [i \in DOMAIN infos' |-> h[i]] /\ \A i \in DOMAIN infos' : IsSeq(h[i])
  BY <1>2, <1>3 DEF h
<1> QED
  BY <1>2, <1>10, <1>11 DEF Builds, h
-----------------------------------------------------------------------------
(* Steps that inline what they did                                         *)

SameShapes ==
  /\ DOMAIN infos' = DOMAIN infos
  /\ \A i \in DOMAIN infos :
       /\ infos'[i].accesses = infos[i].accesses /\ infos'[i].callees = infos[i].callees
       /\ External(infos'[i]) = External(infos[i])

LEMMA ShapesBuild ==
  ASSUME SameShapes, NEW g, Builds(infos, g)
  PROVE  Builds(infos', g)
<1>1. ASSUME NEW i \in DOMAIN infos PROVE Inlined(infos', g, i) = Inlined(infos, g, i)
  <2>1. \A p : Piece(infos', g, i, p) = Piece(infos, g, i, p)
    BY DEF SameShapes, Piece
  <2>2. Pieces(infos', g, i) = Pieces(infos, g, i)
    BY <2>1 DEF SameShapes, Pieces
  <2> QED
    BY <2>2 DEF SameShapes, Inlined
<1> QED
  BY <1>1 DEF SameShapes, Builds

SameFrames ==
  Len(frames') = Len(frames) /\ \A m \in 1..Len(frames) : frames'[m].info = frames[m].info

(* Of the roots only the one visited is active.                            *)
LEMMA ActiveRoot ==
  ASSUME TInv, phase = "visit", Forest, Chain, NEW r \in 1..NumRoots, Active(r)
  PROVE  r = next
<1>1. /\ InfosGood /\ Len(frames) \in Nat /\ frames[1].info = next /\ NumRoots \in Nat
      /\ \A n \in 1..Len(frames) : frames[n].info \in DOMAIN infos
  BY CurrentIn, NumRootsNat DEF TInv, FramesGood
<1>2. PICK l \in 1..Len(frames) : frames[l].info = r
  BY DEF Active
<1> SUFFICES ASSUME l # 1 PROVE FALSE
  BY <1>1, <1>2
<1> DEFINE j == frames[l - 1].info
<1>3. l - 1 \in 1..(Len(frames) - 1) /\ l - 1 \in 1..Len(frames) /\ (l - 1) + 1 = l
  BY <1>1, <1>2
<1>4. EndsIn(infos[j], r) /\ j \in DOMAIN infos
  BY <1>1, <1>2, <1>3 DEF Chain
<1> HIDE DEF j
<1>5. Len(infos[j].callees) \in DOMAIN infos[j].callees
  <2>1. infos[j].callees # <<>> /\ infos[j].callees \in Seq((j + 1)..Len(infos))
    BY <1>1, <1>4 DEF EndsIn, InfosGood, InfoGood
  <2>2. IsSeq(infos[j].callees)
    BY <2>1, SeqTyped
  <2>3. /\ infos[j].callees = [x \in 1..Len(infos[j].callees) |-> infos[j].callees[x]]
        /\ Len(infos[j].callees) \in Nat
    BY <2>2, SeqIs
  <2>4. Len(infos[j].callees) # 0
    BY <2>1, <2>3
  <2> QED
    BY <2>3, <2>4
<1>6. r > NumRoots
  BY <1>4, <1>5 DEF EndsIn, Forest
<1> QED
  BY <1>1, <1>6

LEMMA VisitFacts ==
  ASSUME TInv, phase = "visit"
  PROVE  /\ InfosGood /\ CallsAligned /\ current \in DOMAIN infos
         /\ Len(infos) \in Nat /\ DOMAIN infos = 1..Len(infos)
         /\ NumRoots \in Nat /\ NumRoots <= Len(infos) /\ next \in 1..NumRoots
         /\ Len(frames) \in Nat \ {0}
         /\ frames[1].info = next /\ frames[Len(frames)].info = current /\ Active(current)
         /\ \A m \in 1..Len(frames) : frames[m].info \in DOMAIN infos
         /\ \A m \in 1..(Len(frames) - 1) : frames[m].info # current
<1>1. /\ InfosGood /\ CallsAligned /\ current \in DOMAIN infos
      /\ Len(infos) \in Nat /\ DOMAIN infos = 1..Len(infos)
      /\ NumRoots \in Nat /\ NumRoots <= Len(infos) /\ next \in 1..NumRoots
      /\ Len(frames) \in Nat \ {0}
      /\ frames[1].info = next /\ frames[Len(frames)].info = current
      /\ \A m \in 1..Len(frames) : frames[m].info \in DOMAIN infos
      /\ \A m \in 1..Len(frames), n \in 1..Len(frames) :
           m < n => frames[m].info < frames[n].info
  BY CurrentIn, NumRootsNat, SeqIs DEF TInv, InfosGood, FramesGood, RootsGood, ScalarsGood
<1>2. Active(current)
  BY <1>1 DEF Active
<1>3. ASSUME NEW m \in 1..(Len(frames) - 1) PROVE frames[m].info # current
  <2>1. m \in 1..Len(frames) /\ Len(frames) \in 1..Len(frames) /\ m < Len(frames)
    BY <1>1
  <2>2. frames[m].info < current /\ frames[m].info \in Nat /\ current \in Nat
    BY <1>1, <2>1
  <2> QED
    BY <2>2
<1> QED
  BY <1>1, <1>2, <1>3

(* What the steps of the visit change other than entries and callees.      *)
LEMMA ShapeStep ==
  ASSUME TInv, InlineInv, phase = "visit", SameShapes, SameFrames,
         phase' = "visit", UNCHANGED <<program, next, trails>>
  PROVE  InlineInv'
<1>1. /\ Forest /\ Chain /\ RootsWaiting
      /\ IsSeq(trails) /\ Len(trails) = next /\ (\A r \in 1..next : IsSeq(trails[r]))
      /\ Follows(next)
  BY DEF InlineInv
<1>2. NumRoots' = NumRoots
  BY DEF NumRoots
<1>3. Forest'
  BY <1>1, <1>2 DEF SameShapes, Forest
<1>4. Chain'
  <2>1. \A m \in 1..Len(frames) : frames[m].info \in DOMAIN infos
    BY VisitFacts
  <2>2. Len(frames) \in Nat /\ \A m \in 1..(Len(frames) - 1) : m \in 1..Len(frames) /\ m + 1 \in 1..Len(frames)
    BY VisitFacts
  <2> QED
    BY ZenonT(60), <1>1, <2>1, <2>2 DEF Chain, EndsIn, SameShapes, SameFrames
<1>5. RootsWaiting'
  <2>1. \A r \in 1..NumRoots : r \in DOMAIN infos
    BY VisitFacts
  <2> QED
    BY <1>1, <1>2, <2>1 DEF RootsWaiting, SameShapes
<1>6. Follows(next)'
  BY <1>1, ShapesBuild DEF Follows
<1> QED
  BY <1>1, <1>3, <1>4, <1>5, <1>6 DEF InlineInv, IsSeq

LEMMA OneStep ==
  ASSUME TInv, InlineInv, phase = "visit", SameFrames,
         phase' = "visit", UNCHANGED <<program, next>>,
         NEW e, e.type \notin {"Call", "Null"}, NEW E, Single(E, e), Push(E)
  PROVE  InlineInv'
<1>1. /\ Forest /\ Chain /\ RootsWaiting
      /\ IsSeq(trails) /\ Len(trails) = next /\ (\A r \in 1..next : IsSeq(trails[r]))
      /\ Follows(next)
  BY DEF InlineInv
<1>2. NumRoots' = NumRoots
  BY DEF NumRoots
<1>3. infos' = [infos EXCEPT ![current].accesses = @ \o E]
  BY DEF Push
<1>4. /\ DOMAIN infos' = DOMAIN infos
      /\ \A i \in DOMAIN infos :
           /\ infos'[i].callees = infos[i].callees /\ External(infos'[i]) = External(infos[i])
           /\ i # current => infos'[i] = infos[i]
  <2>1. InfosGood /\ \A i \in DOMAIN infos : DOMAIN infos[i] = InfoFields
    BY VisitFacts DEF InfosGood, InfoGood
  <2> QED
    BY <1>3, <2>1 DEF InfoFields, External
<1>5. Forest'
  BY <1>1, <1>2, <1>4 DEF Forest
<1>6. Chain'
  <2>1. \A m \in 1..Len(frames) : frames[m].info \in DOMAIN infos
    BY VisitFacts
  <2>2. /\ Len(frames) \in Nat
        /\ \A m \in 1..(Len(frames) - 1) :
             m \in 1..Len(frames) /\ m + 1 \in 1..Len(frames) /\ frames[m].info # current
    BY VisitFacts
  <2>3. \A m \in 1..Len(frames') : ~External(infos'[frames'[m].info])
    BY <1>1, <1>4, <2>1 DEF Chain, SameFrames
  <2>4. ASSUME NEW m \in 1..(Len(frames') - 1)
        PROVE  EndsIn(infos'[frames'[m].info], frames'[m + 1].info)
    <3>1. EndsIn(infos[frames[m].info], frames[m + 1].info) /\ infos'[frames[m].info] = infos[frames[m].info]
      BY <1>1, <1>4, <2>1, <2>2 DEF Chain, SameFrames
    <3> QED
      BY <3>1, <2>2 DEF SameFrames
  <2> QED
    BY <2>3, <2>4 DEF Chain, EndsIn
<1>7. RootsWaiting'
  <2>1. \A r \in 1..NumRoots : r \in DOMAIN infos /\ (r > next => r # current)
    <3>1. /\ \A r \in 1..NumRoots : r \in DOMAIN infos
          /\ Active(current) /\ next \in 1..NumRoots /\ NumRoots \in Nat
      BY VisitFacts
    <3> QED
      BY <1>1, <3>1, ActiveRoot
  <2> QED
    BY <1>1, <1>2, <1>4, <2>1 DEF RootsWaiting
<1>8. PICK g : Builds(infos, g) /\ \A r \in 1..next : g[r] = trails[r]
  BY <1>1 DEF Follows
<1> DEFINE h == [i \in DOMAIN infos |-> IF Active(i) THEN g[i] \o E ELSE g[i]]
<1>9. Builds(infos', h)
  <2>1. E = <<e>>
    BY DEF Single
  <2> HIDE DEF h
  <2> QED
    BY <1>1, <1>3, <1>8, <2>1, PushedLast DEF h
<1>10. /\ next \in 1..NumRoots /\ NumRoots \in Nat /\ next \in 1..next
       /\ \A r \in 1..next : r \in DOMAIN infos /\ r \in 1..NumRoots
       /\ Active(next) /\ \A r \in 1..next : r # next => ~Active(r)
  <2>1. /\ next \in 1..NumRoots /\ NumRoots \in Nat /\ 1 \in 1..Len(frames)
        /\ frames[1].info = next /\ \A r \in 1..NumRoots : r \in DOMAIN infos
    BY VisitFacts
  <2>2. \A r \in 1..next : r \in 1..NumRoots
    BY <2>1
  <2> QED
    BY <1>1, <2>1, <2>2, ActiveRoot DEF Active
<1>11. DOMAIN trails = 1..next /\ trails' = [trails EXCEPT ![next] = @ \o E]
  BY <1>1, SeqIs DEF Push
<1>12. /\ IsSeq(trails') /\ Len(trails') = next /\ \A r \in 1..next : IsSeq(trails'[r])
       /\ \A r \in 1..next : trails'[r] = IF r = next THEN trails[r] \o E ELSE trails[r]
  <2>1. /\ trails' = [r \in 1..next |-> trails'[r]]
        /\ \A r \in 1..next : trails'[r] = IF r = next THEN trails[r] \o E ELSE trails[r]
    BY <1>11
  <2>2. next \in Nat
    BY <1>10
  <2>3. IsSeq(trails') /\ Len(trails') = next
    BY <2>1, <2>2, SeqMade
  <2>4. IsSeq(trails[next] \o E)
    BY <1>1, <1>10, AppendedOne
  <2> QED
    BY <1>1, <2>1, <2>3, <2>4
<1>13. \A r \in 1..next : h[r] = trails'[r]
  <2>1. \A r \in 1..next : h[r] = IF r = next THEN g[r] \o E ELSE g[r]
    BY <1>10
  <2> HIDE DEF h
  <2> QED
    BY <2>1, <1>8, <1>12
<1>14. Follows(next)'
  <2> HIDE DEF h
  <2> QED
    BY <1>9, <1>13 DEF Follows
<1>15. IsSeq(trails)'
  BY <1>12 DEF IsSeq
<1>16. (\A r \in 1..next : IsSeq(trails[r]))'
  BY <1>12 DEF IsSeq
<1> QED
  BY <1>5, <1>6, <1>7, <1>12, <1>14, <1>15, <1>16 DEF InlineInv

(* The visitor pushes an entry or none.                                    *)
LEMMA PushInline ==
  ASSUME TInv, InlineInv, phase = "visit", SameFrames,
         phase' = "visit", UNCHANGED <<program, next>>,
         NEW E, Push(E),
         E = <<>> \/ \E e : Single(E, e) /\ e.type \notin {"Call", "Null"}
  PROVE  InlineInv'
<1>1. CASE E = <<>>
  <2>1. /\ InfosGood /\ current \in DOMAIN infos /\ next \in 1..next
        /\ IsSeq(trails) /\ IsSeq(trails[next]) /\ DOMAIN trails = 1..next
    <3>1. /\ IsSeq(trails) /\ Len(trails) = next /\ \A r \in 1..next : IsSeq(trails[r])
      BY DEF InlineInv
    <3>2. InfosGood /\ current \in DOMAIN infos /\ next \in 1..next
      BY VisitFacts
    <3> QED
      BY <3>1, <3>2, SeqIs
  <2>2. /\ IsSeq(infos[current].accesses) /\ DOMAIN infos[current] = InfoFields
        /\ \A i \in DOMAIN infos : DOMAIN infos[i] = InfoFields
    BY <2>1 DEF InfosGood, InfoGood
  <2>3. infos[current].accesses \o <<>> = infos[current].accesses
    BY <2>2, ConcatNone
  <2>4. SameShapes
    <3>1. infos' = [infos EXCEPT ![current].accesses = infos[current].accesses]
      <4>1. infos' = [infos EXCEPT ![current].accesses = infos[current].accesses \o E]
        BY DEF Push
      <4> QED
        BY <4>1, <2>3, <1>1
    <3> QED
      BY <3>1, <2>1, <2>2 DEF SameShapes, InfoFields, External
  <2>5. trails' = trails
    <3>1. trails[next] \o <<>> = trails[next]
      BY <2>1, ConcatNone
    <3>2. trails' = [trails EXCEPT ![next] = trails[next]]
      <4>1. trails' = [trails EXCEPT ![next] = trails[next] \o E]
        BY DEF Push
      <4> QED
        BY <4>1, <3>1, <1>1
    <3>3. trails = [r \in 1..next |-> trails[r]]
      <4>1. Len(trails) = next
        BY DEF InlineInv
      <4> QED
        BY <4>1, <2>1, SeqIs
    <3> QED
      BY <3>2, <3>3
  <2> QED
    BY <2>4, <2>5, ShapeStep
<1>2. CASE \E e : Single(E, e) /\ e.type \notin {"Call", "Null"}
  BY <1>2, OneStep
<1> QED
  BY <1>1, <1>2
-----------------------------------------------------------------------------
(* A callee that has just been pushed                                      *)

LEMMA NextAppended ==
  ASSUME NEW s, IsSeq(s), NEW e, e.type = "Call"
  PROVE  /\ Calls(Append(s, e)) = Calls(s) \cup {Len(s) + 1} /\ Len(s) + 1 \notin Calls(s)
         /\ \A p \in Calls(s) : next_callee(Append(s, e), p) = next_callee(s, p)
         /\ next_callee(Append(s, e), Len(s) + 1) = Cardinality(Calls(s)) + 1
<1> DEFINE t == Append(s, e)
           n == Len(s) + 1
<1>1. /\ Len(s) \in Nat /\ DOMAIN s = 1..Len(s)
      /\ DOMAIN t = 1..n /\ t[n] = e /\ \A i \in 1..Len(s) : t[i] = s[i]
  BY SeqIs, SeqAppend
<1> HIDE DEF t
<1>2. Calls(t) = Calls(s) \cup {n} /\ n \notin Calls(s)
  BY <1>1 DEF Calls
<1>3. IsFiniteSet(Calls(s)) /\ Cardinality(Calls(s)) \in Nat
  BY CallsFinite
<1>4. Cardinality(Calls(t)) = Cardinality(Calls(s)) + 1
  BY <1>2, <1>3, FS_AddElement
<1>5. ASSUME NEW p \in Calls(s) PROVE next_callee(t, p) = next_callee(s, p)
  <2>1. p \in 1..Len(s)
    BY <1>1 DEF Calls
  <2>2. {q \in Calls(t) : q <= p} = {q \in Calls(s) : q <= p}
    BY <2>1, <1>1, <1>2
  <2> QED
    BY <2>2 DEF next_callee
<1>6. next_callee(t, n) = Cardinality(Calls(s)) + 1
  <2>1. \A q \in Calls(t) : q <= n
    BY <1>1, <1>2 DEF Calls
  <2>2. {q \in Calls(t) : q <= n} = Calls(t)
    BY <2>1
  <2> QED
    BY <2>2, <1>4 DEF next_callee
<1> QED
  BY <1>2, <1>5, <1>6 DEF t

(* WithCallee, for the function fn.                                        *)
Called(fn) ==
  infos' = Append([infos EXCEPT ![current].callees = Append(@, Len(infos) + 1),
                                ![current].accesses = Append(@, CallEntry(fn))],
                  Callee(fn))

LEMMA CalleeFacts ==
  ASSUME InfosGood, current \in DOMAIN infos, NEW fn, Called(fn)
  PROVE  /\ Len(infos) \in Nat /\ DOMAIN infos = 1..Len(infos)
         /\ DOMAIN infos' = 1..(Len(infos) + 1) /\ infos'[Len(infos) + 1] = Callee(fn)
         /\ \A i \in 1..Len(infos) : i # current => infos'[i] = infos[i]
         /\ infos'[current].accesses = Append(infos[current].accesses, CallEntry(fn))
         /\ infos'[current].callees = Append(infos[current].callees, Len(infos) + 1)
         /\ External(infos'[current]) = External(infos[current])
<1> DEFINE old == infos[current]
           n == Len(infos)
           new == [old EXCEPT !.callees = Append(@, n + 1), !.accesses = Append(@, CallEntry(fn))]
           mid == [infos EXCEPT ![current] = new]
<1>1. n \in Nat /\ DOMAIN infos = 1..n
  BY SeqIs DEF InfosGood
<1>2. infos' = Append(mid, Callee(fn))
  BY DEF Called
<1>3. IsSeq(mid) /\ Len(mid) = n /\ \A i \in 1..n : mid[i] = IF i = current THEN new ELSE infos[i]
  <2>1. DOMAIN mid = 1..n /\ mid = [i \in 1..n |-> mid[i]]
    BY <1>1
  <2>2. \A i \in 1..n : mid[i] = IF i = current THEN new ELSE infos[i]
    BY <1>1
  <2> HIDE DEF mid
  <2>3. IsSeq(mid) /\ Len(mid) = n
    BY <2>1, <1>1, SeqMade
  <2> QED
    BY <2>2, <2>3
<1> HIDE DEF mid, new
<1>4. /\ DOMAIN infos' = 1..(n + 1) /\ infos'[n + 1] = Callee(fn)
      /\ \A i \in 1..n : infos'[i] = IF i = current THEN new ELSE infos[i]
  <2>1. /\ IsSeq(Append(mid, Callee(fn))) /\ Len(Append(mid, Callee(fn))) = n + 1
        /\ Append(mid, Callee(fn))[n + 1] = Callee(fn)
        /\ \A i \in 1..n : Append(mid, Callee(fn))[i] = mid[i]
    BY <1>3, SeqAppend
  <2>2. DOMAIN infos' = 1..(n + 1)
    BY <1>2, <2>1, SeqIs
  <2> QED
    BY <1>2, <1>3, <2>1, <2>2
<1>5. DOMAIN old = InfoFields
  BY DEF InfosGood, InfoGood
<1>6. /\ new.accesses = Append(old.accesses, CallEntry(fn))
      /\ new.callees = Append(old.callees, n + 1) /\ External(new) = External(old)
  BY <1>5 DEF new, InfoFields, External
<1> QED
  BY <1>1, <1>4, <1>6

LEMMA CalleeAdded ==
  ASSUME InfosGood, CallsAligned, current \in DOMAIN infos, ~External(infos[current]),
         NEW fn, Called(fn), NEW g, Builds(infos, g)
  PROVE  Builds(infos', [i \in 1..(Len(infos) + 1) |-> IF i = Len(infos) + 1 THEN <<>> ELSE g[i]])
<1> DEFINE n == Len(infos)
           h == [i \in 1..(n + 1) |-> IF i = n + 1 THEN <<>> ELSE g[i]]
           acc == infos[current].accesses
           e == CallEntry(fn)
<1>1. /\ n \in Nat /\ DOMAIN infos = 1..n
      /\ DOMAIN infos' = 1..(n + 1) /\ infos'[n + 1] = Callee(fn)
      /\ \A i \in 1..n : i # current => infos'[i] = infos[i]
      /\ infos'[current].accesses = Append(acc, e)
      /\ infos'[current].callees = Append(infos[current].callees, n + 1)
      /\ External(infos'[current]) = External(infos[current])
  BY CalleeFacts
<1>2. /\ h[n + 1] = <<>> /\ \A i \in 1..n : h[i] = g[i]
      /\ h = [i \in 1..(n + 1) |-> h[i]]
  BY <1>1
<1> HIDE DEF h
<1>3. n \in Nat /\ current \in 1..n /\ \A i \in 1..(n + 1) : i = n + 1 \/ i \in 1..n
  <2>1. n \in Nat /\ DOMAIN infos = 1..n
    BY <1>1
  <2> HIDE DEF n
  <2> QED
    BY <2>1
<1>4. \A i \in 1..n : \A j \in (i + 1)..n : j \in 1..n
  <2> HIDE DEF n
  <2> QED
    BY <1>3
<1>5. g = [i \in 1..n |-> Inlined(infos, g, i)] /\ \A i \in 1..n : IsSeq(g[i])
  BY <1>1 DEF Builds
<1>6. \A i \in 1..(n + 1) : IsSeq(h[i])
  <2>1. IsSeq(h[n + 1])
    BY <1>2, NoneIsSeq
  <2>2. \A i \in 1..n : IsSeq(h[i])
    BY <1>2, <1>5
  <2> QED
    BY <2>1, <2>2, <1>3
<1>7. ASSUME NEW i \in 1..n, i # current PROVE Inlined(infos', h, i) = Inlined(infos, g, i)
  <2>1. infos'[i] = infos[i] /\ i \in DOMAIN infos
    BY <1>1, <1>7
  <2>2. \A p \in DOMAIN infos[i].accesses : Piece(infos', h, i, p) = Piece(infos, g, i, p)
    <3> TAKE p \in DOMAIN infos[i].accesses
    <3>1. CASE p \in Calls(infos[i].accesses)
      <4> DEFINE j == infos[i].callees[next_callee(infos[i].accesses, p)]
      <4>1. j \in (i + 1)..n
        BY <3>1, <2>1, CalleeOf
      <4> HIDE DEF j
      <4>2. h[j] = g[j]
        <5>1. j \in 1..n
          BY <4>1, <1>4
        <5> QED
          BY <5>1, <1>2
      <4> QED
        BY <4>2, <2>1 DEF Piece, j
    <3>2. CASE p \notin Calls(infos[i].accesses)
      BY <3>2, <2>1 DEF Piece, Calls
    <3> QED
      BY <3>1, <3>2
  <2>3. Pieces(infos', h, i) = Pieces(infos, g, i)
    BY <2>1, <2>2 DEF Pieces
  <2> QED
    BY <2>1, <2>3 DEF Inlined
<1>8. Inlined(infos', h, n + 1) = <<>>
  <2>1. Callee(fn).accesses = <<>>
    BY <1>1, FuncInfoGood DEF Callee
  <2>2. DOMAIN infos'[n + 1].accesses = {}
    BY <2>1, <1>1, NoneIsSeq
  <2>3. Pieces(infos', h, n + 1) = <<>>
    BY <2>2 DEF Pieces
  <2> QED
    BY <2>3, FlattenNone DEF Inlined
<1>9. Inlined(infos', h, current) = Inlined(infos, g, current)
  <2> DEFINE s == Pieces(infos, g, current)
             t == Pieces(infos', h, current)
             m == Len(acc)
  <2>1. /\ IsSeq(s) /\ Len(s) = m
        /\ \A p \in 1..m : s[p] = Piece(infos, g, current, p) /\ IsSeq(s[p])
        /\ DOMAIN acc = 1..m /\ m \in Nat /\ IsSeq(acc)
    BY PiecesAre
  <2>2. e.type = "Call"
    BY DEF CallEntry, VarAccess
  <2> HIDE DEF e
  <2>3. /\ Calls(Append(acc, e)) = Calls(acc) \cup {m + 1} /\ m + 1 \notin Calls(acc)
        /\ \A p \in Calls(acc) : next_callee(Append(acc, e), p) = next_callee(acc, p)
        /\ next_callee(Append(acc, e), m + 1) = Cardinality(Calls(acc)) + 1
    BY <2>1, <2>2, NextAppended
  <2>4. /\ DOMAIN Append(acc, e) = 1..(m + 1)
        /\ Append(acc, e)[m + 1] = e /\ \A p \in 1..m : Append(acc, e)[p] = acc[p]
    <3>1. /\ IsSeq(Append(acc, e)) /\ Len(Append(acc, e)) = m + 1
          /\ Append(acc, e)[m + 1] = e /\ \A p \in 1..m : Append(acc, e)[p] = acc[p]
      BY <2>1, SeqAppend
    <3> QED
      BY <3>1, SeqIs
  <2> DEFINE cs == infos[current].callees
  <2>5. /\ IsSeq(cs) /\ Len(cs) \in Nat /\ DOMAIN cs = 1..Len(cs)
        /\ Cardinality(Calls(acc)) = Len(cs)
        /\ Append(cs, n + 1)[Len(cs) + 1] = n + 1
        /\ \A k \in 1..Len(cs) : Append(cs, n + 1)[k] = cs[k]
    <3>1. cs \in Seq((current + 1)..n) /\ Cardinality(Calls(acc)) = Len(cs)
      BY DEF InfosGood, InfoGood, CallsAligned
    <3>2. IsSeq(cs)
      BY <3>1, SeqTyped
    <3> HIDE DEF cs, n, acc
    <3> QED
      BY <3>1, <3>2, SeqIs, SeqAppend
  <2>6. ASSUME NEW p \in 1..m PROVE Piece(infos', h, current, p) = s[p]
    <3>1. CASE p \in Calls(acc)
      <4> DEFINE k == next_callee(acc, p)
                 j == cs[k]
      <4>1. k \in DOMAIN cs /\ j \in (current + 1)..n /\ current \in 1..n
        BY <3>1, CalleeOf
      <4> HIDE DEF k
      <4>2. Append(cs, n + 1)[k] = j
        BY <4>1, <2>5
      <4>3. h[j] = g[j]
        <5> HIDE DEF j
        <5>1. j \in 1..n
          BY <4>1, <1>4
        <5> QED
          BY <5>1, <1>2
      <4>4. Append(acc, e)[p] = acc[p] /\ acc[p].type = "Call"
        BY <2>4, <3>1 DEF Calls
      <4>5. next_callee(Append(acc, e), p) = k
        BY <2>3, <3>1 DEF k
      <4>6. Piece(infos', h, current, p) = h[j]
        BY <1>1, <4>2, <4>4, <4>5 DEF Piece
      <4>7. Piece(infos, g, current, p) = g[j]
        BY <4>4 DEF Piece, k
      <4> QED
        BY <4>3, <4>6, <4>7, <2>1
    <3>2. CASE p \notin Calls(acc)
      <4>1. Append(acc, e)[p] = acc[p] /\ acc[p].type # "Call"
        BY <2>1, <2>4, <3>2 DEF Calls
      <4> QED
        BY <4>1, <2>1, <1>1 DEF Piece
    <3> QED
      BY <3>1, <3>2
  <2>7. Piece(infos', h, current, m + 1) = <<>>
    BY <1>1, <1>2, <2>2, <2>3, <2>4, <2>5 DEF Piece
  <2>8. t = [p \in 1..(m + 1) |-> Piece(infos', h, current, p)]
    BY <1>1, <2>4 DEF Pieces
  <2> HIDE DEF s, t, m, cs
  <2>9. t = Append(s, <<>>)
    <3>1. t = [p \in 1..(m + 1) |-> t[p]] /\ m + 1 \in Nat
      BY <2>1, <2>8
    <3>2. IsSeq(t) /\ Len(t) = m + 1
      BY <3>1, SeqMade
    <3>3. t[m + 1] = <<>> /\ \A p \in 1..m : t[p] = s[p]
      BY <2>1, <2>6, <2>7, <2>8
    <3> QED
      BY <3>2, <3>3, <2>1, IsAppend
  <2>10. IsSeq(FlattenSeq(s))
    <3>1. \A p \in DOMAIN s : IsSeq(s[p])
      BY <2>1, SeqIs
    <3> QED
      BY <3>1, <2>1, FlattenIsSeq
  <2>11. FlattenSeq(t) = FlattenSeq(s)
    BY <2>1, <2>9, <2>10, NoneIsSeq, FlattenAppend, ConcatNone
  <2> QED
    BY <2>11, <1>1 DEF Inlined, s, t
<1>10. \A i \in 1..(n + 1) : h[i] = Inlined(infos', h, i)
  <2>1. \A i \in 1..n : h[i] = Inlined(infos, g, i)
    BY <1>2, <1>5
  <2>2. \A i \in 1..n : h[i] = Inlined(infos', h, i)
    BY <2>1, <1>7, <1>9
  <2>3. h[n + 1] = Inlined(infos', h, n + 1)
    BY <1>2, <1>8
  <2> QED
    BY <2>2, <2>3, <1>3
<1>11. h = [i \in 1..(n + 1) |-> Inlined(infos', h, i)]
  BY <1>2, <1>10
<1>12. Builds(infos', h)
  BY <1>1, <1>6, <1>11 DEF Builds
<1> QED
  BY <1>12 DEF h
-----------------------------------------------------------------------------
(* Every step keeps the invariant of the footprints                        *)

LEMMA StackInline ==
  ASSUME TInv, InlineInv, PushParent \/ PopAncestor \/ Settle \/ MarkBranch
  PROVE  InlineInv'
<1>1. /\ phase = "visit" /\ phase' = "visit" /\ UNCHANGED <<program, next, frames>>
  BY DEF PushParent, PopAncestor, Settle, MarkBranch, AtCursor
<1>2. SameFrames
  BY <1>1 DEF SameFrames
<1>3. CASE PushParent \/ Settle
  <2>1. UNCHANGED <<infos, trails>>
    BY <1>3 DEF PushParent, Settle
  <2>2. SameShapes
    BY <2>1 DEF SameShapes, External
  <2> QED
    BY <1>1, <1>2, <2>1, <2>2, ShapeStep
<1>4. CASE PopAncestor
  <2> DEFINE E == Ended(Last(ancestry_stack))
             e == Marker("EndIf")
  <2>1. E \in {<<>>, <<e>>} /\ Push(E)
    BY <1>4 DEF Ended, When, PopAncestor
  <2>2. e.type \notin {"Call", "Null"}
    BY MarkerGood
  <2> HIDE DEF E, e
  <2>3. E = <<>> \/ \E x : Single(E, x) /\ x.type \notin {"Call", "Null"}
    BY <2>1, <2>2 DEF Single
  <2> QED
    BY <1>1, <1>2, <2>1, <2>3, PushInline
<1>5. CASE MarkBranch
  <2> DEFINE E == BranchMarkers
             e == Marker("ThenBlock")
             f == Marker("ElseStmt")
  <2>1. E \in {<<>>, <<e>>, <<f>>} /\ Push(E)
    BY <1>5 DEF BranchMarkers, MarkBranch
  <2>2. e.type \notin {"Call", "Null"} /\ f.type \notin {"Call", "Null"}
    BY MarkerGood
  <2> HIDE DEF E, e, f
  <2>3. E = <<>> \/ \E x : Single(E, x) /\ x.type \notin {"Call", "Null"}
    BY <2>1, <2>2 DEF Single
  <2> QED
    BY <1>1, <1>2, <2>1, <2>3, PushInline
<1> QED
  BY <1>3, <1>4, <1>5

LEMMA VisitInline ==
  ASSUME TInv, InlineInv, VisitDecl \/ VisitIf \/ VisitVariable \/ VisitOther
  PROVE  InlineInv'
<1>1. /\ ScalarsGood /\ InfosGood /\ FramesGood /\ phase = "visit" /\ Top.todo # <<>>
      /\ frames' = GoOn /\ phase' = "visit" /\ UNCHANGED <<program, next>>
  BY DEF TInv, Visit, VisitDecl, VisitIf, VisitVariable, VisitOther, AtCursor
<1>2. SameFrames
  BY <1>1, GoOnFacts DEF SameFrames
<1>3. CASE VisitDecl
  <2>1. /\ UNCHANGED trails /\ current \in DOMAIN infos
        /\ \/ infos' = [infos EXCEPT ![current].locals = Append(@, Sym(Here))]
           \/ infos' = [infos EXCEPT ![current].params = Append(@, Sym(Here))]
    BY <1>1, <1>3, CurrentIn DEF VisitDecl
  <2>2. \A i \in DOMAIN infos : DOMAIN infos[i] = InfoFields
    BY <1>1 DEF InfosGood, InfoGood
  <2>3. SameShapes
    BY <2>1, <2>2 DEF SameShapes, InfoFields, External
  <2> QED
    BY <1>1, <1>2, <2>1, <2>3, ShapeStep
<1>4. CASE VisitOther
  <2>1. UNCHANGED <<infos, trails>>
    BY <1>4 DEF VisitOther
  <2>2. SameShapes
    BY <2>1 DEF SameShapes, External
  <2> QED
    BY <1>1, <1>2, <2>1, <2>2, ShapeStep
<1>5. CASE VisitIf
  <2> DEFINE E == When(tracking, <<Marker("IfStmt")>>)
             e == Marker("IfStmt")
  <2>1. E \in {<<>>, <<e>>} /\ Push(E)
    BY <1>5 DEF VisitIf, When
  <2>2. e.type \notin {"Call", "Null"}
    BY MarkerGood
  <2> HIDE DEF E, e
  <2>3. E = <<>> \/ \E x : Single(E, x) /\ x.type \notin {"Call", "Null"}
    BY <2>1, <2>2 DEF Single
  <2> QED
    BY <1>1, <1>2, <2>1, <2>3, PushInline
<1>6. CASE VisitVariable
  <2> DEFINE va == AccessEntry(ancestry_stack, Here)
             E == When(va.type # "None", <<va>>)
  <2>1. Push(E)
    BY <1>6 DEF VisitVariable
  <2>2. va.type = AccessType(ancestry_stack, Here)
    BY DEF AccessEntry, VarAccess
  <2>3. va.type = "None" \/ va.type \notin {"Call", "Null"}
    BY <2>2, AccessEntryGood
  <2>4. IF va.type # "None" THEN E = <<va>> ELSE E = <<>>
    BY DEF When
  <2> HIDE DEF va, E
  <2>5. E = <<>> \/ \E x : Single(E, x) /\ x.type \notin {"Call", "Null"}
    BY <2>3, <2>4 DEF Single
  <2> QED
    BY <1>1, <1>2, <2>1, <2>5, PushInline
<1> QED
  BY <1>3, <1>4, <1>5, <1>6

(* The push of a callee, but for the frames.                               *)
LEMMA CalledKeeps ==
  ASSUME TInv, InlineInv, phase = "visit", NEW fn, Called(fn),
         UNCHANGED <<program, next, trails>>
  PROVE  /\ Forest' /\ RootsWaiting' /\ Follows(next)'
         /\ EndsIn(infos'[current], Len(infos) + 1) /\ ~External(infos'[current])
         /\ \A i \in DOMAIN infos : i # current => infos'[i] = infos[i]
         /\ infos'[Len(infos) + 1] = Callee(fn) /\ Len(infos) \in Nat
<1> DEFINE n == Len(infos)
           acc == infos[current].accesses
           cs == infos[current].callees
           e == CallEntry(fn)
<1>1. /\ Forest /\ Chain /\ RootsWaiting /\ Follows(next) /\ NumRoots' = NumRoots
  BY DEF InlineInv, NumRoots
<1>2. /\ InfosGood /\ CallsAligned /\ current \in DOMAIN infos
      /\ n \in Nat /\ DOMAIN infos = 1..n
      /\ NumRoots \in Nat /\ NumRoots <= n /\ next \in 1..NumRoots
      /\ ~External(infos[current]) /\ Active(current)
  <2>1. /\ InfosGood /\ CallsAligned /\ current \in DOMAIN infos
        /\ n \in Nat /\ DOMAIN infos = 1..n
        /\ NumRoots \in Nat /\ NumRoots <= n /\ next \in 1..NumRoots
        /\ Active(current) /\ Len(frames) \in Nat \ {0} /\ frames[Len(frames)].info = current
    BY VisitFacts
  <2>2. Len(frames) \in 1..Len(frames)
    BY <2>1
  <2>3. ~External(infos[frames[Len(frames)].info])
    BY <1>1, <2>2 DEF Chain
  <2> QED
    BY <2>1, <2>3
<1>3. /\ DOMAIN infos' = 1..(n + 1) /\ infos'[n + 1] = Callee(fn)
      /\ \A i \in 1..n : i # current => infos'[i] = infos[i]
      /\ infos'[current].accesses = Append(acc, e)
      /\ infos'[current].callees = Append(cs, n + 1)
      /\ External(infos'[current]) = External(infos[current])
  BY <1>2, CalleeFacts
<1>4. \A i \in 1..n : \A k \in DOMAIN infos[i].callees :
        infos[i].callees[k] \in (i + 1)..n /\ infos[i].callees[k] # n + 1
  <2>1. \A i \in 1..n : infos[i].callees \in Seq((i + 1)..n)
    BY <1>2 DEF InfosGood, InfoGood
  <2>2. \A i \in 1..n : \A k \in DOMAIN infos[i].callees : infos[i].callees[k] \in (i + 1)..n
    BY <2>1
  <2>3. \A i \in 1..n : \A j \in (i + 1)..n : j # n + 1
    <3> HIDE DEF n
    <3> QED
      BY <1>2
  <2> QED
    BY <2>2, <2>3
<1>5. /\ Len(cs) \in Nat /\ DOMAIN cs = 1..Len(cs)
      /\ DOMAIN Append(cs, n + 1) = 1..(Len(cs) + 1) /\ Append(cs, n + 1)[Len(cs) + 1] = n + 1
      /\ Len(Append(cs, n + 1)) = Len(cs) + 1 /\ Append(cs, n + 1) # <<>>
      /\ \A k \in 1..Len(cs) : Append(cs, n + 1)[k] = cs[k]
  <2>1. cs \in Seq((current + 1)..n)
    BY <1>2 DEF InfosGood, InfoGood
  <2>2. IsSeq(cs)
    BY <2>1, SeqTyped
  <2> HIDE DEF cs, n
  <2>3. /\ IsSeq(Append(cs, n + 1)) /\ Len(Append(cs, n + 1)) = Len(cs) + 1
        /\ Append(cs, n + 1)[Len(cs) + 1] = n + 1 /\ Append(cs, n + 1) # <<>>
        /\ \A k \in 1..Len(cs) : Append(cs, n + 1)[k] = cs[k]
    BY <2>2, SeqAppend
  <2> QED
    BY <2>2, <2>3, SeqIs
<1>6. /\ Append(acc, e) # <<>> /\ Append(acc, e)[Len(Append(acc, e))].type = "Call"
  <2>1. IsSeq(acc) /\ e.type = "Call"
    BY <1>2 DEF InfosGood, InfoGood, CallEntry, VarAccess
  <2> HIDE DEF acc, e
  <2>2. /\ Len(Append(acc, e)) = Len(acc) + 1
        /\ Append(acc, e)[Len(acc) + 1] = e /\ Append(acc, e) # <<>>
    BY <2>1, SeqAppend
  <2> QED
    BY <2>1, <2>2
<1>7. EndsIn(infos'[current], n + 1)
  BY <1>3, <1>5, <1>6 DEF EndsIn
<1> HIDE DEF acc, e
(* Where callee k of FuncInfo i was before.                                *)
<1>8. \A i \in DOMAIN infos' : \A k :
        k \in DOMAIN infos'[i].callees =>
          \/ /\ i \in 1..n /\ k \in DOMAIN infos[i].callees
             /\ infos'[i].callees[k] = infos[i].callees[k] /\ infos'[i].callees[k] # n + 1
          \/ i = current /\ k = Len(cs) + 1 /\ infos'[i].callees[k] = n + 1
  <2> SUFFICES ASSUME NEW i \in DOMAIN infos', NEW k, k \in DOMAIN infos'[i].callees
               PROVE  \/ /\ i \in 1..n /\ k \in DOMAIN infos[i].callees
                         /\ infos'[i].callees[k] = infos[i].callees[k] /\ infos'[i].callees[k] # n + 1
                      \/ i = current /\ k = Len(cs) + 1 /\ infos'[i].callees[k] = n + 1
    OBVIOUS
  <2>1. CASE i = n + 1
    <3>1. Callee(fn).callees = <<>>
      BY <1>2, FuncInfoGood DEF Callee
    <3>2. infos'[i].callees = <<>>
      BY <2>1, <3>1, <1>3
    <3> QED
      BY <3>2, NoneIsSeq
  <2>2. CASE i \in 1..n /\ i # current
    BY <2>2, <1>3, <1>4
  <2>3. CASE i = current
    <3>1. k \in 1..(Len(cs) + 1) /\ infos'[i].callees = Append(cs, n + 1)
      BY <2>3, <1>3, <1>5
    <3>2. CASE k = Len(cs) + 1
      BY <3>1, <3>2, <2>3, <1>5
    <3>3. CASE k # Len(cs) + 1
      <4>1. k \in 1..Len(cs)
        BY <3>1, <3>3, <1>5
      <4> QED
        BY <4>1, <3>1, <2>3, <1>2, <1>4, <1>5
    <3> QED
      BY <3>2, <3>3
  <2>4. i = n + 1 \/ i \in 1..n
    <3> HIDE DEF n
    <3> QED
      BY <1>2, <1>3
  <2> QED
    BY <2>1, <2>2, <2>3, <2>4
<1>9. Forest'
  <2>1. ASSUME NEW i \in DOMAIN infos', NEW j \in DOMAIN infos',
               NEW k \in DOMAIN infos'[i].callees, NEW l \in DOMAIN infos'[j].callees,
               infos'[i].callees[k] = infos'[j].callees[l]
        PROVE  i = j /\ k = l
    <3> HIDE DEF cs, n
    <3> QED
      BY <2>1, <1>1, <1>2, <1>8 DEF Forest
  <2>2. ASSUME NEW i \in DOMAIN infos', NEW k \in DOMAIN infos'[i].callees
        PROVE  infos'[i].callees[k] > NumRoots'
    <3>1. n + 1 > NumRoots
      <4> HIDE DEF n
      <4> QED
        BY <1>2
    <3> HIDE DEF cs, n
    <3> QED
      BY <3>1, <1>1, <1>2, <1>8 DEF Forest
  <2> QED
    BY <2>1, <2>2 DEF Forest
<1>10. RootsWaiting'
  <2>1. \A r \in 1..NumRoots : r \in DOMAIN infos /\ (r > next => r # current)
    <3>1. \A r \in 1..NumRoots : r \in 1..n
      <4> HIDE DEF n
      <4> QED
        BY <1>2
    <3>2. \A r \in 1..NumRoots : r > next => r # next
      BY <1>2
    <3> QED
      BY <3>1, <3>2, <1>1, <1>2, ActiveRoot
  <2> QED
    BY <1>1, <1>2, <1>3, <2>1 DEF RootsWaiting
<1>11. Follows(next)'
  <2>1. PICK g : Builds(infos, g) /\ \A r \in 1..next : g[r] = trails[r]
    BY <1>1 DEF Follows
  <2> DEFINE h == [i \in 1..(n + 1) |-> IF i = n + 1 THEN <<>> ELSE g[i]]
  <2>2. Builds(infos', h)
    BY <2>1, <1>2, CalleeAdded
  <2>3. \A r \in 1..next : r \in 1..(n + 1) /\ r # n + 1
    <3> HIDE DEF n
    <3> QED
      BY <1>2
  <2>4. \A r \in 1..next : h[r] = trails[r]
    BY <2>1, <2>3
  <2> HIDE DEF h
  <2> QED
    BY <2>2, <2>4 DEF Follows
<1> QED
  BY <1>2, <1>3, <1>7, <1>9, <1>10, <1>11

LEMMA CallInline ==
  ASSUME TInv, InlineInv, SkipCall \/ CallExternal \/ EnterCallee
  PROVE  InlineInv'
<1>1. /\ ScalarsGood /\ FramesGood /\ phase = "visit" /\ Top.todo # <<>>
      /\ phase' = "visit" /\ UNCHANGED <<program, next, trails>>
  BY DEF TInv, SkipCall, CallExternal, EnterCallee, FirstCall, AtCursor
<1>2. /\ Len(GoOn) = Len(frames) /\ GoOn \in Seq(FrameSet(program))
      /\ \A m \in 1..Len(frames) : GoOn[m].info = frames[m].info
  BY <1>1, GoOnFacts
<1>3. CASE SkipCall
  <2>1. frames' = GoOn /\ UNCHANGED infos
    BY <1>3 DEF SkipCall
  <2>2. SameShapes /\ SameFrames
    BY <1>2, <2>1 DEF SameShapes, SameFrames, External
  <2> QED
    BY <1>1, <2>2, ShapeStep
<1>4. CASE CallExternal \/ EnterCallee
  <2> DEFINE fn == Sym(Here)
             n == Len(frames)
  <2>1. Called(fn)
    BY <1>4 DEF CallExternal, EnterCallee, FirstCall, WithCallee, Called
  <2> HIDE DEF fn
  <2>2. /\ Forest' /\ RootsWaiting' /\ Follows(next)'
        /\ EndsIn(infos'[current], Len(infos) + 1) /\ ~External(infos'[current])
        /\ \A i \in DOMAIN infos : i # current => infos'[i] = infos[i]
        /\ infos'[Len(infos) + 1] = Callee(fn)
    BY <1>1, <2>1, CalledKeeps
  <2>3. /\ Chain /\ n \in Nat \ {0} /\ frames[n].info = current
        /\ IsSeq(trails) /\ Len(trails) = next /\ \A r \in 1..next : IsSeq(trails[r])
        /\ \A m \in 1..n : frames[m].info \in DOMAIN infos
        /\ \A m \in 1..(n - 1) : frames[m].info # current
    BY <1>1, VisitFacts DEF InlineInv
  <2>4. \A m \in 1..n : ~External(infos'[frames[m].info])
    <3>1. \A m \in 1..n : ~External(infos[frames[m].info])
      BY <2>3 DEF Chain
    <3> QED
      BY <3>1, <2>2, <2>3
  <2>5. \A m \in 1..(n - 1) : EndsIn(infos'[frames[m].info], frames[m + 1].info)
    <3>1. \A m \in 1..(n - 1) : m \in 1..n
      BY <2>3
    <3>2. \A m \in 1..(n - 1) : infos'[frames[m].info] = infos[frames[m].info]
      BY <3>1, <2>2, <2>3
    <3> QED
      BY <3>2, <2>3 DEF Chain
  <2>6. Chain'
    <3>1. CASE CallExternal
      <4>1. frames' = GoOn
        BY <3>1 DEF CallExternal
      <4>2. Len(frames') = n /\ \A m \in 1..n : frames'[m].info = frames[m].info
        BY <4>1, <1>2
      <4>3. \A m \in 1..(n - 1) : m \in 1..n /\ m + 1 \in 1..n
        BY <2>3
      <4> QED
        BY <4>2, <4>3, <2>4, <2>5 DEF Chain, EndsIn
    <3>2. CASE EnterCallee
      <4> DEFINE frame == Frame(Len(infos) + 1, Here, fn)
      <4>1. frames' = Append(GoOn, frame) /\ ~External(Callee(fn)) /\ frame.info = Len(infos) + 1
        BY <3>2 DEF EnterCallee, Frame, fn
      <4> HIDE DEF frame
      <4>2. /\ Len(frames') = n + 1 /\ frames'[n + 1] = frame
            /\ \A m \in 1..n : frames'[m].info = frames[m].info
        <5>1. IsSeq(GoOn)
          BY <1>2, SeqTyped
        <5> QED
          BY <4>1, <5>1, <1>2, SeqAppend
      <4>3. ASSUME NEW m \in 1..(n + 1) PROVE ~External(infos'[frames'[m].info])
        <5>1. CASE m = n + 1
          BY <5>1, <4>1, <4>2, <2>2
        <5>2. CASE m # n + 1
          <6>1. m \in 1..n
            BY <5>2, <2>3
          <6> QED
            BY <6>1, <4>2, <2>4
        <5> QED
          BY <5>1, <5>2
      <4>4. ASSUME NEW m \in 1..n PROVE EndsIn(infos'[frames'[m].info], frames'[m + 1].info)
        <5>1. CASE m = n
          BY <5>1, <4>1, <4>2, <2>2, <2>3
        <5>2. CASE m # n
          <6>1. m \in 1..(n - 1) /\ m + 1 \in 1..n
            BY <5>2, <2>3
          <6> QED
            BY <6>1, <4>2, <2>5
        <5> QED
          BY <5>1, <5>2
      <4>5. (n + 1) - 1 = n
        BY <2>3
      <4> QED
        BY <4>2, <4>3, <4>4, <4>5 DEF Chain, EndsIn
    <3> QED
      BY <3>1, <3>2, <1>4
  <2> QED
    BY <1>1, <2>2, <2>3, <2>6 DEF InlineInv, IsSeq
<1> QED
  BY <1>3, <1>4

LEMMA LeaveInline ==
  ASSUME TInv, InlineInv, LeaveCallee \/ LeaveRoot \/ LeaveLastRoot
  PROVE  InlineInv'
<1>1. /\ phase = "visit" /\ UNCHANGED <<program, infos>> /\ NumRoots' = NumRoots
  BY DEF LeaveCallee, LeaveRoot, LeaveLastRoot, NumRoots
<1>2. /\ Forest /\ Chain /\ RootsWaiting
      /\ IsSeq(trails) /\ Len(trails) = next /\ (\A r \in 1..next : IsSeq(trails[r]))
      /\ Follows(next)
  BY <1>1 DEF InlineInv
<1>3. /\ DOMAIN infos = 1..Len(infos) /\ Len(infos) \in Nat
      /\ NumRoots \in Nat /\ NumRoots <= Len(infos) /\ next \in 1..NumRoots
      /\ Len(frames) \in Nat \ {0}
  BY <1>1, VisitFacts
<1>4. Forest'
  BY <1>1, <1>2 DEF Forest
<1>5. CASE LeaveCallee
  <2>1. /\ phase' = "visit" /\ UNCHANGED <<next, trails>>
        /\ frames' = Front(frames) /\ Len(frames) > 1
    BY <1>1, <1>5 DEF LeaveCallee
  <2>2. /\ Len(frames') = Len(frames) - 1
        /\ \A m \in 1..(Len(frames) - 1) : frames'[m] = frames[m]
    <3> DEFINE n == Len(frames)
    <3>1. frames' = SubSeq(frames, 1, n - 1)
      BY <2>1 DEF Front
    <3>2. n \in Nat /\ \A m \in 1..(n - 1) : m \in 1..n
      BY <1>3
    <3>3. \A m \in 1..(n - 1) : frames[m] \in FrameSet(program)
      BY <3>2, <1>1 DEF TInv, FramesGood
    <3> HIDE DEF n
    <3> QED
      BY <2>1, <3>1, <3>2, <3>3, SubSeqProperties DEF n
  <2>3. Chain'
    <3>1. \A m \in 1..(Len(frames) - 1) : m \in 1..Len(frames)
      BY <1>3
    <3>2. \A m \in 1..((Len(frames) - 1) - 1) :
            m \in 1..(Len(frames) - 1) /\ m + 1 \in 1..(Len(frames) - 1)
      BY <1>3
    <3> QED
      BY <3>1, <3>2, <2>2, <1>1, <1>2 DEF Chain, EndsIn
  <2>4. RootsWaiting' /\ Follows(next)'
    BY <2>1, <1>1, <1>2 DEF RootsWaiting, Follows
  <2> QED
    BY <2>1, <2>3, <2>4, <1>2, <1>4 DEF InlineInv, IsSeq
<1>6. CASE LeaveRoot
  <2> DEFINE q == next + 1
             frame == Frame(q, NoCursor, infos[q].fn)
  <2>1. /\ phase' = "visit" /\ next' = q /\ next < NumRoots
        /\ frames' = <<frame>> /\ trails' = Append(trails, <<>>)
    BY <1>1, <1>6 DEF LeaveRoot, StartRoot
  <2>2. q \in 1..NumRoots /\ q > next /\ q \in DOMAIN infos /\ next \in Nat
    BY <1>3, <2>1
  <2>3. frame.info = q
    BY DEF Frame
  <2> HIDE DEF frame, q
  <2>4. Len(frames') = 1 /\ frames'[1] = frame
    BY <2>1
  <2>5. Chain'
    <3>1. ~External(infos[q])
      BY <1>2, <2>2 DEF RootsWaiting
    <3> QED
      BY <3>1, <2>3, <2>4, <1>1 DEF Chain
  <2>6. RootsWaiting'
    BY <1>1, <1>2, <1>3, <2>1, <2>2 DEF RootsWaiting, q
  <2>7. /\ IsSeq(trails') /\ Len(trails') = q /\ trails'[q] = <<>>
        /\ \A r \in 1..next : trails'[r] = trails[r]
    BY <1>2, <2>1, SeqAppend DEF q
  <2>8. \A r \in 1..q : r = q \/ r \in 1..next
    BY <2>2 DEF q
  <2>9. Follows(next)'
    <3>1. PICK g : Builds(infos, g) /\ \A r \in 1..next : g[r] = trails[r]
      BY <1>2 DEF Follows
    <3>2. g[q] = <<>>
      <4>1. infos[q].accesses = <<>> /\ g[q] = Inlined(infos, g, q)
        BY <1>2, <2>2, <3>1 DEF RootsWaiting, Builds
      <4>2. Pieces(infos, g, q) = <<>>
        BY <4>1, NoneIsSeq DEF Pieces
      <4> QED
        BY <4>1, <4>2, FlattenNone DEF Inlined
    <3>3. \A r \in 1..q : g[r] = trails'[r]
      BY <3>1, <3>2, <2>7, <2>8
    <3> QED
      BY <3>1, <3>3, <2>1, <1>1 DEF Follows
  <2>10. \A r \in 1..q : IsSeq(trails'[r])
    BY <1>2, <2>7, <2>8, NoneIsSeq
  <2>11. IsSeq(trails)' /\ (\A r \in 1..next : IsSeq(trails[r]))'
    BY <2>1, <2>7, <2>10 DEF IsSeq
  <2> QED
    BY <2>1, <2>5, <2>6, <2>7, <2>9, <2>11, <1>4 DEF InlineInv
<1>7. CASE LeaveLastRoot
  <2>1. /\ phase' = "unwind" /\ next = NumRoots /\ next' = next
        /\ work' = [r \in 1..NumRoots |-> r] /\ trails' = trails
    BY <1>7 DEF LeaveLastRoot
  <2>2. NumRoots > 0
    BY <1>3
  <2>3. Follows(NumRoots)'
    BY <2>1, <1>1, <1>2 DEF Follows
  <2> QED
    BY <2>1, <2>2, <2>3, <1>1 DEF InlineInv
<1> QED
  BY <1>5, <1>6, <1>7

LEMMA SearchInline ==
  ASSUME TInv, InlineInv, CompareDefinition \/ RootsFound \/ RootsMissing
  PROVE  InlineInv'
<1>1. /\ phase = "search" /\ trails = <<>> /\ \A i \in DOMAIN infos : Blank(infos[i])
      /\ InfosGood /\ ScalarsGood
  BY DEF InlineInv, TInv, CompareDefinition, RootsFound, RootsMissing
<1>2. CASE CompareDefinition
  <2> DEFINE fn == program.defs[next]
             c == Cardinality({r \in DOMAIN program.command : Matches(program.command[r], fn)})
             t == [k \in 1..c |-> Root(fn)]
  <2>1. infos' = infos \o t /\ UNCHANGED <<program, phase, trails>>
    BY <1>2 DEF CompareDefinition
  <2>2. c \in Nat
    <3> DEFINE D == DOMAIN program.command
               calls == {r \in D : Matches(program.command[r], fn)}
    <3>1. IsFiniteSet(D)
      <4>1. program.command \in Seq([func : STRING, args : Seq(STRING)])
        BY <1>1, ProgramFacts
      <4>2. D = 1..Len(program.command) /\ Len(program.command) \in Nat
        BY <4>1, LenProperties
      <4> QED
        BY <4>2, FS_Interval
    <3>2. calls \subseteq D /\ c = Cardinality(calls)
      OBVIOUS
    <3> HIDE DEF calls, D, c
    <3> QED
      BY <3>1, <3>2, FS_Subset, FS_CardinalityType
  <2>3. t = [k \in 1..c |-> t[k]] /\ \A k \in DOMAIN t : t[k] = Root(fn)
    OBVIOUS
  <2> HIDE DEF t, c, fn
  <2>4. IsSeq(t) /\ IsSeq(infos)
    BY <1>1, <2>2, <2>3, SeqMade DEF InfosGood
  <2>5. Blank(Root(fn))
    BY DEF Blank, External, Root, FuncInfo
  <2>6. \A i \in DOMAIN infos' : infos'[i] = Root(fn) \/ (i \in DOMAIN infos /\ infos'[i] = infos[i])
    <3>1. \A i \in DOMAIN (infos \o t) :
            \/ i \in DOMAIN infos /\ (infos \o t)[i] = infos[i]
            \/ i - Len(infos) \in DOMAIN t /\ (infos \o t)[i] = t[i - Len(infos)]
      BY <2>4, SeqConcat
    <3>2. \A k : k \in DOMAIN t => t[k] = Root(fn)
      BY <2>3
    <3> QED
      BY <2>1, <3>1, <3>2
  <2>7. \A i \in DOMAIN infos' : Blank(infos'[i])
    BY <1>1, <2>5, <2>6
  <2> QED
    BY <1>1, <2>1, <2>7 DEF InlineInv, Blank, External
<1>3. CASE RootsFound
  <2> DEFINE frame == Frame(1, NoCursor, infos[1].fn)
  <2>1. /\ phase' = "visit" /\ next' = 1 /\ frames' = <<frame>>
        /\ trails' = Append(trails, <<>>) /\ UNCHANGED <<program, infos>>
        /\ Len(infos) = NumRoots /\ infos # <<>>
    BY <1>3 DEF RootsFound, StartRoot, NumRoots
  <2>2. frame.info = 1
    BY DEF Frame
  <2> HIDE DEF frame
  <2>3. Len(frames') = 1 /\ frames'[1] = frame
    BY <2>1
  <2>4. /\ DOMAIN infos = 1..Len(infos) /\ Len(infos) \in Nat /\ 1 \in DOMAIN infos
        /\ NumRoots' = NumRoots
    <3>1. /\ DOMAIN infos = 1..Len(infos) /\ Len(infos) \in Nat
          /\ infos = [i \in 1..Len(infos) |-> infos[i]]
      BY <1>1, SeqIs DEF InfosGood
    <3>2. Len(infos) # 0
      <4>1. Len(infos) = 0 => infos = <<>>
        BY <3>1
      <4> QED
        BY <4>1, <2>1
    <3> QED
      BY <3>1, <3>2, <2>1 DEF NumRoots
  <2>5. \A i \in DOMAIN infos :
          ~External(infos[i]) /\ infos[i].accesses = <<>> /\ infos[i].callees = <<>>
          /\ DOMAIN infos[i].accesses = {} /\ DOMAIN infos[i].callees = {}
    BY <1>1, NoneIsSeq DEF Blank
  <2>6. Forest' /\ Chain' /\ RootsWaiting'
    <3>1. Forest'
      BY <2>1, <2>5 DEF Forest
    <3>2. Chain'
      BY <2>1, <2>2, <2>3, <2>4, <2>5 DEF Chain
    <3>3. RootsWaiting'
      BY <2>1, <2>4, <2>5 DEF RootsWaiting
    <3> QED
      BY <3>1, <3>2, <3>3
  <2>7. IsSeq(trails') /\ Len(trails') = 1 /\ trails'[1] = <<>>
    <3>1. IsSeq(trails) /\ Len(trails) = 0
      BY <1>1, NoneIsSeq
    <3>2. Len(trails') = 0 + 1 /\ trails'[0 + 1] = <<>> /\ IsSeq(trails')
      BY <3>1, <2>1, SeqAppend
    <3> QED
      BY <3>2
  <2>8. Follows(next)'
    <3> DEFINE g == [i \in DOMAIN infos |-> <<>>]
    <3>1. \A i \in DOMAIN infos : Inlined(infos, g, i) = <<>> /\ g[i] = <<>>
      <4> TAKE i \in DOMAIN infos
      <4>1. Pieces(infos, g, i) = <<>>
        BY <2>5 DEF Pieces
      <4> QED
        BY <4>1, FlattenNone DEF Inlined
    <3>2. Builds(infos, g)
      <4>1. \A i \in DOMAIN infos : IsSeq(g[i])
        BY <3>1, NoneIsSeq
      <4>2. g = [i \in DOMAIN infos |-> Inlined(infos, g, i)]
        BY <3>1
      <4> HIDE DEF g
      <4> QED
        BY <4>1, <4>2 DEF Builds
    <3>3. \A r \in 1..1 : g[r] = trails'[r]
      BY <3>1, <2>4, <2>7
    <3> HIDE DEF g
    <3> QED
      BY <3>2, <3>3, <2>1 DEF Follows
  <2>9. IsSeq(trails)' /\ (\A r \in 1..next : IsSeq(trails[r]))'
    <3>1. \A r \in 1..1 : IsSeq(trails'[r])
      BY <2>7, NoneIsSeq
    <3> QED
      BY <3>1, <2>1, <2>7 DEF IsSeq
  <2> QED
    BY <2>1, <2>6, <2>7, <2>8, <2>9 DEF InlineInv
<1>4. CASE RootsMissing
  BY <1>4 DEF RootsMissing, InlineInv
<1> QED
  BY <1>2, <1>3, <1>4

(* Root 1 is unwound first, and never waits again.                         *)
LEMMA FirstUnwound ==
  ASSUME TInv, InlineInv, Unwind
  PROVE  \A k \in DOMAIN work' : work'[k] # 1
<1>1. /\ phase = "unwind" /\ InfosGood /\ WorkGood /\ NumRoots \in Nat
      /\ \/ \A k \in DOMAIN work : work[k] # 1
         \/ work = [r \in 1..NumRoots |-> r]
  BY NumRootsNat DEF InlineInv, TInv, Unwind
<1> DEFINE i == Head(work)
           cs == infos[i].callees
<1>2. /\ phase' = "unwind" /\ work # <<>> /\ work' = cs \o Tail(work)
  BY <1>1 DEF Unwind, WorkAfter
<1>3. /\ i \in DOMAIN infos /\ work \in Seq(DOMAIN infos) /\ Tail(work) \in Seq(DOMAIN infos)
      /\ Len(infos) \in Nat /\ DOMAIN infos = 1..Len(infos)
  BY <1>1, <1>2, HeadTailProperties, SeqIs DEF WorkGood, InfosGood
<1>4. \A k \in DOMAIN cs : cs[k] # 1
  <2>1. cs \in Seq((i + 1)..Len(infos))
    BY <1>1, <1>3 DEF InfosGood, InfoGood
  <2>2. \A k \in DOMAIN cs : cs[k] \in (i + 1)..Len(infos)
    <3> DEFINE S == (i + 1)..Len(infos)
    <3> HIDE DEF cs, S
    <3>1. cs \in Seq(S)
      BY <2>1 DEF S
    <3>2. \A k \in DOMAIN cs : cs[k] \in S
      BY <3>1
    <3> QED
      BY <3>2 DEF S
  <2>3. \A j \in (i + 1)..Len(infos) : j # 1
    <3> HIDE DEF i
    <3> QED
      BY <1>3
  <2> QED
    BY <2>2, <2>3
<1>5. \A k \in DOMAIN Tail(work) : Tail(work)[k] # 1
  <2>1. /\ Len(work) \in Nat /\ DOMAIN work = 1..Len(work) /\ Len(Tail(work)) = Len(work) - 1
        /\ \A k \in 1..(Len(work) - 1) : Tail(work)[k] = work[k + 1]
    BY <1>2, <1>3, HeadTailProperties, LenProperties
  <2>2. DOMAIN Tail(work) = 1..(Len(work) - 1)
    BY <2>1, <1>3, LenProperties
  <2>3. \A k \in 1..(Len(work) - 1) : k + 1 \in DOMAIN work /\ k + 1 # 1
    BY <2>1
  <2>4. \A k \in 1..(Len(work) - 1) : work[k + 1] # 1
    <3>1. CASE \A k \in DOMAIN work : work[k] # 1
      BY <3>1, <2>3
    <3>2. CASE work = [r \in 1..NumRoots |-> r]
      BY <3>2, <2>3
    <3> QED
      BY <3>1, <3>2, <1>1
  <2> QED
    BY <2>1, <2>2, <2>4
<1>6. IsSeq(cs) /\ IsSeq(Tail(work))
  <2>1. cs \in Seq((i + 1)..Len(infos))
    BY <1>1, <1>3 DEF InfosGood, InfoGood
  <2> QED
    BY <2>1, <1>3, SeqTyped
<1> HIDE DEF cs
<1> QED
  BY <1>2, <1>4, <1>5, <1>6, SeqConcat

LEMMA UnwindInline ==
  ASSUME TInv, InlineInv, Unwind \/ UnwindCrashes \/ Build
  PROVE  InlineInv'
<1>1. phase = "unwind" /\ NumRoots > 0 /\ NumRoots' = NumRoots
  BY DEF InlineInv, NumRoots, Unwind, UnwindCrashes, Build
<1>2. CASE Unwind
  <2>1. phase' = "unwind" /\ \A k \in DOMAIN work' : work'[k] # 1
    BY <1>2, FirstUnwound DEF Unwind
  <2> QED
    BY <1>1, <2>1 DEF InlineInv
<1>3. CASE UnwindCrashes \/ Build
  BY <1>3 DEF UnwindCrashes, Build, InlineInv
<1> QED
  BY <1>2, <1>3

LEMMA InlineInit ==
  ASSUME TInit
  PROVE  InlineInv
<1>1. infos = <<>> /\ DOMAIN infos = {} /\ phase = "search" /\ trails = <<>>
  BY NoneIsSeq DEF TInit
<1> QED
  BY <1>1 DEF InlineInv

LEMMA InlineStutter ==
  ASSUME InlineInv, UNCHANGED tvars
  PROVE  InlineInv'
<1>1. UNCHANGED <<program, phase, next, infos, frames, work, trails>>
  BY DEF tvars, visitor
<1>2. Forest <=> Forest'
  BY <1>1 DEF Forest, NumRoots
<1>3. Chain <=> Chain'
  BY <1>1 DEF Chain, EndsIn
<1>4. RootsWaiting <=> RootsWaiting'
  BY <1>1 DEF RootsWaiting, NumRoots
<1>5. (Follows(next) <=> Follows(next)') /\ (Follows(NumRoots) <=> Follows(NumRoots)')
  BY <1>1 DEF Follows, NumRoots
<1>6. (phase = "search" => trails = <<>> /\ \A i \in DOMAIN infos : Blank(infos[i]))'
  BY <1>1 DEF InlineInv, Blank, External
<1>7. ASSUME phase = "visit"
      PROVE  (IsSeq(trails) /\ Len(trails) = next /\ \A r \in 1..next : IsSeq(trails[r]))'
  BY <1>1, <1>7 DEF InlineInv, IsSeq
<1> QED
  BY <1>1, <1>2, <1>3, <1>4, <1>5, <1>6, <1>7 DEF InlineInv, NumRoots

LEMMA InlineStep ==
  ASSUME TInv, InlineInv, [TNext]_tvars
  PROVE  InlineInv'
<1>1. CASE CompareDefinition \/ RootsFound \/ RootsMissing
  BY <1>1, SearchInline
<1>2. CASE PushParent \/ PopAncestor \/ Settle \/ MarkBranch
  BY <1>2, StackInline
<1>3. CASE VisitDecl \/ VisitIf \/ VisitVariable \/ VisitOther
  BY <1>3, VisitInline
<1>4. CASE SkipCall \/ CallExternal \/ EnterCallee
  BY <1>4, CallInline
<1>5. CASE LeaveCallee \/ LeaveRoot \/ LeaveLastRoot
  BY <1>5, LeaveInline
<1>6. CASE Unwind \/ UnwindCrashes \/ Build
  BY <1>6, UnwindInline
<1>7. CASE Stopped \/ UNCHANGED tvars
  BY <1>7, InlineStutter DEF Stopped
<1> QED
  BY <1>1, <1>2, <1>3, <1>4, <1>5, <1>6, <1>7 DEF TNext

(* Whatever the programs: before unwinding, build_var_access_footprint     *)
(* makes of the FuncInfos of each root, at any nesting of calls, the       *)
(* entries pushed in the visit of that root, in the order of their pushes. *)
(* The recursion of the visitor and that of the footprint agree although   *)
(* the one goes by touched_func_usrs and current_func, and the other by    *)
(* the callee pointers.                                                    *)
THEOREM InlinedInOrder == TSpec => []InliningInOrder
<1>1. TInv /\ InlineInv => InliningInOrder
  <2> SUFFICES ASSUME TInv, InlineInv, AllVisited, NEW r \in 1..NumRoots
               PROVE  build_var_access_footprint(infos)[r] = trails[r]
    BY DEF InliningInOrder
  <2>1. phase = "unwind" /\ work = [s \in 1..NumRoots |-> s] /\ NumRoots \in Nat /\ NumRoots > 0
    BY NumRootsNat DEF AllVisited, InlineInv, TInv
  <2>2. 1 \in DOMAIN work /\ work[1] = 1
    BY <2>1
  <2>3. Follows(NumRoots)
    BY <2>1, <2>2 DEF InlineInv
  <2>4. PICK g : Builds(infos, g) /\ \A s \in 1..NumRoots : g[s] = trails[s]
    BY <2>3 DEF Follows
  <2>5. build_var_access_footprint(infos) = g
    BY <2>4, BuildIs DEF TInv
  <2> QED
    BY <2>4, <2>5
<1>2. TInit => InlineInv
  BY InlineInit
<1>3. TInv /\ InlineInv /\ [TNext]_tvars => InlineInv'
  BY InlineStep
<1> QED
  BY <1>1, <1>2, <1>3, TInvAlways, PTL DEF TSpec
=============================================================================
