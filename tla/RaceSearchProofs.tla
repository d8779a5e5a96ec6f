--------------------------- MODULE RaceSearchProofs ---------------------------
(* Proofs about the race search, for any number of root functions and any  *)
(* footprints the grammar of Footprint allows: no access is reported       *)
(* twice, without lock tracking no overlap is missed, and what the silence *)
(* of the search with --track-locking is worth.  The first two need        *)
(* nothing of the lock ranges: they only say which pairs are bad.          *)
EXTENDS RaceSearch, LockHeldProofs, WellFoundedInduction
-----------------------------------------------------------------------------
(* The loops over the two footprints                                       *)

LEMMA EarlierOrders ==
  ASSUME NEW x \in Nat \X Nat, NEW y \in Nat \X Nat
  PROVE  /\ ~Earlier(x, y) => y = x \/ Earlier(y, x)
         /\ \A z \in Nat \X Nat : Earlier(x, y) /\ Earlier(y, z) => Earlier(x, z)
         /\ ~Earlier(x, x)
BY DEF Earlier

(* The order of the double loop has a first pair in every set of pairs.    *)
LEMMA FirstPair ==
  ASSUME NEW T, T \subseteq Nat \X Nat, T # {}
  PROVE  \E x \in T : \A y \in T \ {x} : Earlier(x, y)
<1> DEFINE R == OpToRel(<, Nat)
           L == LexPairOrdering(R, R, Nat, Nat)
<1>1. IsWellFoundedOn(L, Nat \X Nat)
  BY NatLessThanWellFounded, WFLexPairOrdering
<1>2. PICK x \in T : \A y \in T : <<y, x>> \notin L
  BY <1>1, WFMin
<1>3. ASSUME NEW y \in T \ {x} PROVE Earlier(x, y)
  <2>1. x \in Nat \X Nat /\ y \in Nat \X Nat
    OBVIOUS
  <2>2. ~Earlier(y, x)
    BY <1>2, <2>1 DEF LexPairOrdering, OpToRel, Earlier
  <2> QED
    BY <2>1, <2>2, EarlierOrders
<1> QED
  BY <1>3

(* What the next comparison is.                                            *)
LEMMA NextPairIs ==
  ASSUME Ahead # {}, Ahead \subseteq Nat \X Nat
  PROVE  NextPair \in Ahead /\ \A y \in Ahead \ {NextPair} : Earlier(NextPair, y)
<1>1. \E x \in Ahead : \A y \in Ahead \ {x} : Earlier(x, y)
  BY FirstPair
<1> QED
  BY <1>1 DEF NextPair
-----------------------------------------------------------------------------
(* The inductive invariant                                                 *)

RTypes ==
  /\ stage \in {"collect", "pair", "annotate", "compare", "finished"}
  /\ stage = "collect" => FootprintInv
  /\ fps \in Seq(Seq(VarAccess)) /\ Len(fps) <= NumFuncs
  /\ stage # "collect" => Len(fps) = NumFuncs
  /\ a \in 1..(NumFuncs + 1) /\ b \in Funcs
  /\ at \in Nat \X Nat
  /\ tracking \in BOOLEAN

(* Different functions are compared.                                       *)
PairInv ==
  /\ stage = "collect" => a = 1 /\ b = 1
  /\ stage \in {"annotate", "compare"} => a \in Funcs /\ a # b
  /\ stage = "finished" => a > NumFuncs

(* No overlap is left between the functions whose pass is over, nor behind *)
(* the pair compared last.                                                 *)
NoOverlap(f, g) ==
  \A p \in Live(f), q \in Live(g) : fps[f][p].usr # fps[g][q].usr

Searched(f, g) == f < a \/ (f = a /\ g < b)

OverlapInv ==
  ~tracking =>
    /\ stage # "annotate"
    /\ stage # "collect" =>
         \A f, g \in Funcs : f # g /\ Searched(f, g) => NoOverlap(f, g)
    /\ stage = "compare" => \A pq \in Comparable : Earlier(at, pq)

RInv == RTypes /\ PairInv /\ ReportedOnce /\ OverlapInv
-----------------------------------------------------------------------------
(* An access is compared while it is no placeholder and not nulled.        *)
PlaceholderTypes == {"Null", "IfStmt", "ThenBlock", "ElseStmt", "EndIf"}

LEMMA CurrentEntry ==
  ASSUME NEW fp \in Seq(VarAccess), NEW p \in DOMAIN fp
  PROVE  /\ [fp[p] EXCEPT !.type = "Null"].type = "Null"
         /\ DOMAIN fp \subseteq Nat
<1>1. fp[p] \in VarAccess /\ DOMAIN fp = 1..Len(fp)
  OBVIOUS
<1>2. "type" \in DOMAIN fp[p]
  BY <1>1 DEF VarAccess
<1> QED
  BY <1>1, <1>2

LEMMA LiveIs ==
  ASSUME RTypes, NEW f \in 1..Len(fps)
  PROVE  Live(f) = {p \in DOMAIN fps[f] : /\ <<f, p>> \notin nulled
                                          /\ fps[f][p].type \notin PlaceholderTypes}
<1>1. fps[f] \in Seq(VarAccess)
  BY DEF RTypes
<1>2. \A p \in DOMAIN fps[f] :
        Current(f)[p] = IF <<f, p>> \in nulled THEN [fps[f][p] EXCEPT !.type = "Null"]
                                               ELSE fps[f][p]
  BY DEF Current
<1>3. \A p \in DOMAIN fps[f] :
        Placeholder(Current(f)[p])
          <=> <<f, p>> \in nulled \/ fps[f][p].type \in PlaceholderTypes
  BY <1>1, <1>2, CurrentEntry DEF Placeholder, PlaceholderTypes
<1> QED
  BY <1>3 DEF Live

LEMMA LivePositions ==
  ASSUME RTypes, NEW f \in 1..Len(fps)
  PROVE  Live(f) \subseteq Nat \ {0}
<1>1. fps[f] \in Seq(VarAccess)
  BY DEF RTypes
<1>2. \A fp \in Seq(VarAccess) : DOMAIN fp \subseteq Nat \ {0}
  OBVIOUS
<1> QED
  BY <1>1, <1>2 DEF Live, Current

(* Nulling more takes accesses out of the comparison and brings none back. *)
LEMMA LiveShrinks ==
  ASSUME RTypes, RTypes', UNCHANGED fps, nulled \subseteq nulled', NEW f \in 1..Len(fps)
  PROVE  /\ Live(f)' \subseteq Live(f)
         /\ \A p \in Live(f)' : <<f, p>> \notin nulled'
<1>1. fps[f] \in Seq(VarAccess)
  BY DEF RTypes
<1>2. \A p \in DOMAIN fps[f] :
        Current(f)'[p] = IF <<f, p>> \in nulled' THEN [fps[f][p] EXCEPT !.type = "Null"]
                                                 ELSE fps[f][p]
  BY DEF Current
<1>3. \A p \in DOMAIN fps[f] :
        Placeholder(Current(f)[p])'
          <=> <<f, p>> \in nulled' \/ fps[f][p].type \in PlaceholderTypes
  BY <1>1, <1>2, CurrentEntry DEF Placeholder, PlaceholderTypes
<1>4. Live(f)' = {p \in DOMAIN fps[f] : /\ <<f, p>> \notin nulled'
                                        /\ fps[f][p].type \notin PlaceholderTypes}
  BY <1>3 DEF Live
<1> QED
  BY <1>4, LiveIs

LEMMA LiveKept ==
  ASSUME UNCHANGED <<fps, nulled>>, NEW f, NEW g
  PROVE  Live(f)' = Live(f) /\ (NoOverlap(f, g) => NoOverlap(f, g)')
<1>1. ASSUME NEW h PROVE Live(h)' = Live(h)
  <2>1. Current(h)' = Current(h)
    BY DEF Current
  <2> QED
    BY <2>1 DEF Live
<1>2. NoOverlap(f, g) => NoOverlap(f, g)'
  <2> SUFFICES ASSUME NoOverlap(f, g), NEW p \in Live(f)', NEW q \in Live(g)'
               PROVE  fps[f][p].usr # fps[g][q].usr
    BY DEF NoOverlap
  <2> QED
    BY <1>1 DEF NoOverlap
<1> QED
  BY <1>1, <1>2

(* What the comparison that comes next is about.                           *)
LEMMA AheadTypes ==
  ASSUME RTypes, PairInv, stage = "compare"
  PROVE  /\ a \in 1..Len(fps) /\ b \in 1..Len(fps) /\ a # b
         /\ Comparable \subseteq Live(a) \X Live(b)
         /\ Comparable \subseteq Nat \X Nat
         /\ Ahead \subseteq Comparable
<1>1. a \in 1..Len(fps) /\ b \in 1..Len(fps) /\ a # b
  BY DEF RTypes, PairInv, Funcs
<1>2. Live(a) \subseteq Nat /\ Live(b) \subseteq Nat
  BY <1>1, LivePositions
<1> QED
  BY <1>1, <1>2 DEF Comparable, Ahead
-----------------------------------------------------------------------------
(* The steps                                                               *)

LEMMA InitRInv == RInit => RInv
<1> SUFFICES ASSUME RInit PROVE RInv
  OBVIOUS
<1>1. FootprintInv
  BY FootprintAssumption DEF RInit, Init, FootprintInit, FootprintInv, FootprintTypeOK
<1>2. RTypes
  BY <1>1, RaceSearchAssumption DEF RInit, RTypes, Funcs
<1>3. PairInv /\ ReportedOnce /\ OverlapInv
  BY DEF RInit, PairInv, ReportedOnce, OverlapInv
<1> QED
  BY <1>2, <1>3 DEF RInv

(* What no pass has changed yet stays true while the footprints grow.      *)
LEMMA CollectStep ==
  ASSUME RInv, Grow \/ Collect
  PROVE  RInv'
<1> USE DEF RInv
<1>1. UNCHANGED <<tracking, a, b, side, arrays, at, nulled, reports>>
      /\ stage = "collect" /\ Len(fps) < NumFuncs
  BY DEF Grow, Collect, search
<1>2. ReportedOnce'
  BY <1>1 DEF ReportedOnce, Parties
<1>3. CASE Grow
  <2>1. FootprintInv'
    BY <1>3, FootprintStep DEF Grow, Visit, RTypes
  <2>2. RTypes' /\ PairInv' /\ OverlapInv'
    BY <2>1, <1>1, <1>3 DEF Grow, RTypes, PairInv, OverlapInv
  <2> QED
    BY <2>2, <1>2
<1>4. CASE Collect
  <2>1. footprint \in Seq(VarAccess) /\ fps \in Seq(Seq(VarAccess))
    BY <1>1 DEF RTypes, FootprintInv, FootprintTypeOK
  <2>2. /\ fps' = Append(fps, footprint)
        /\ stage' = IF Len(fps') = NumFuncs THEN "pair" ELSE stage
        /\ footprint' = <<>> /\ nesting' = <<>>
    BY <1>4 DEF Collect
  <2>3. fps' \in Seq(Seq(VarAccess)) /\ Len(fps') = Len(fps) + 1
    BY <2>1, <2>2, AppendFacts
  <2>4. FootprintInv'
    BY <2>2, FootprintAssumption DEF FootprintInv, FootprintTypeOK
  <2>5. RTypes'
    BY <2>1, <2>2, <2>3, <2>4, <1>1, RaceSearchAssumption DEF RTypes
  <2>6. PairInv'
    BY <2>2, <1>1 DEF PairInv
  <2>7. OverlapInv'
    <3>1. a' = 1 /\ b' = 1 /\ \A f, g \in Funcs : ~(f < 1 \/ (f = 1 /\ g < 1))
      BY <1>1 DEF PairInv, Funcs
    <3> QED
      BY <3>1, <2>2, <1>1 DEF OverlapInv, Searched
  <2> QED
    BY <2>5, <2>6, <2>7, <1>2
<1> QED
  BY <1>3, <1>4

(* The loops go on to the next pair of functions, the pass of this one     *)
(* being over.                                                             *)
LEMMA NextFunctions ==
  ASSUME RInv, a <= NumFuncs, stage' = "pair",
         IF b = NumFuncs THEN a' = a + 1 /\ b' = 1 ELSE a' = a /\ b' = b + 1,
         UNCHANGED <<tracking, fps, at, nulled, reports>>,
         stage # "collect",
         ~tracking /\ a # b => NoOverlap(a, b)
  PROVE  RInv'
<1>1. a \in Funcs /\ b \in Funcs /\ NumFuncs \in Nat \ {0}
  BY RaceSearchAssumption DEF RInv, RTypes, Funcs
<1>2. RTypes'
  <2>1. a' \in 1..(NumFuncs + 1) /\ b' \in Funcs
    BY <1>1 DEF Funcs
  <2> QED
    BY <2>1 DEF RInv, RTypes
<1>3. PairInv'
  BY DEF PairInv
<1>4. ReportedOnce'
  BY DEF RInv, ReportedOnce, Parties
<1>5. OverlapInv'
  <2> SUFFICES ASSUME ~tracking, NEW f \in Funcs, NEW g \in Funcs, f # g, Searched(f, g)'
               PROVE  NoOverlap(f, g)'
    BY DEF OverlapInv
  <2>1. Searched(f, g) \/ (f = a /\ g = b)
    BY <1>1 DEF Searched, Funcs
  <2>2. NoOverlap(f, g)
    BY <2>1 DEF RInv, OverlapInv
  <2> QED
    BY <2>2, LiveKept
<1> QED
  BY <1>2, <1>3, <1>4, <1>5 DEF RInv

LEMMA StartPassStep ==
  ASSUME RInv, StartPass
  PROVE  RInv'
<1>1. /\ stage = "pair" /\ a <= NumFuncs /\ a # b /\ at' = <<1, 0>>
      /\ stage' = IF tracking THEN "annotate" ELSE "compare"
      /\ UNCHANGED <<tracking, fps, a, b, nulled, reports>>
  BY DEF StartPass
<1>2. RTypes'
  BY <1>1 DEF RInv, RTypes
<1>3. PairInv'
  BY <1>1, RaceSearchAssumption DEF RInv, RTypes, PairInv, Funcs
<1>4. ReportedOnce'
  BY <1>1 DEF RInv, ReportedOnce, Parties
<1>5. OverlapInv'
  <2> SUFFICES ASSUME ~tracking PROVE OverlapInv'
    BY <1>1 DEF OverlapInv
  <2>1. \A f, g \in Funcs : f # g /\ Searched(f, g)' => NoOverlap(f, g)'
    BY <1>1, LiveKept DEF RInv, OverlapInv, Searched
  <2>2. Comparable \subseteq (Nat \ {0}) \X (Nat \ {0})
    <3>1. a \in 1..Len(fps) /\ b \in 1..Len(fps) /\ RTypes
      BY <1>1 DEF RInv, RTypes, Funcs
    <3> QED
      BY <3>1, LivePositions DEF Comparable
  <2>3. \A pq \in Comparable : Earlier(<<1, 0>>, pq)
    BY <2>2 DEF Earlier
  <2>4. Comparable' = Comparable
    BY <1>1, LiveKept DEF Comparable
  <2> QED
    BY <2>1, <2>3, <2>4, <1>1 DEF OverlapInv
<1> QED
  BY <1>2, <1>3, <1>4, <1>5 DEF RInv

(* The annotation leaves the search alone.                                 *)
LEMMA AnnotateKept ==
  ASSUME RInv, stage = "annotate", stage' \in {"annotate", "compare"},
         UNCHANGED <<tracking, fps, a, b, at, nulled, reports>>
  PROVE  RInv'
<1>1. tracking
  BY DEF RInv, OverlapInv, RTypes
<1>2. RTypes' /\ PairInv' /\ OverlapInv'
  BY <1>1 DEF RInv, RTypes, PairInv, OverlapInv
<1>3. ReportedOnce'
  BY DEF RInv, ReportedOnce, Parties
<1> QED
  BY <1>2, <1>3 DEF RInv

(* The first comparison ahead of at: the others stay ahead of it.          *)
LEMMA CompareFacts ==
  ASSUME RInv, stage = "compare", Ahead # {}
  PROVE  /\ NextPair \in Comparable /\ NextPair \in Nat \X Nat
         /\ <<a, NextPair[1]>> \notin nulled /\ <<b, NextPair[2]>> \notin nulled
         /\ ~tracking => \A pq \in Comparable \ {NextPair} : Earlier(NextPair, pq)
<1>1. /\ a \in 1..Len(fps) /\ b \in 1..Len(fps)
      /\ Comparable \subseteq Live(a) \X Live(b)
      /\ Comparable \subseteq Nat \X Nat /\ Ahead \subseteq Comparable
  BY AheadTypes DEF RInv
<1>2. NextPair \in Ahead /\ \A y \in Ahead \ {NextPair} : Earlier(NextPair, y)
  BY <1>1, NextPairIs
<1>3. NextPair[1] \in Live(a) /\ NextPair[2] \in Live(b)
  BY <1>1, <1>2
<1>4. <<a, NextPair[1]>> \notin nulled /\ <<b, NextPair[2]>> \notin nulled
  BY <1>1, <1>3, LiveIs DEF RInv
<1>5. ~tracking => Comparable \subseteq Ahead
  BY DEF RInv, OverlapInv, Ahead
<1> QED
  BY <1>1, <1>2, <1>4, <1>5

LEMMA ReportStep ==
  ASSUME RInv, Report
  PROVE  RInv'
<1> DEFINE n == NextPair
           r == [pair |-> <<a, b>>, at |-> NextPair, level |-> Level(NextPair)]
<1>1. /\ stage = "compare" /\ Ahead # {} /\ at' = n
      /\ reports' = reports \cup {r} /\ nulled' = nulled \cup BothAccesses(n)
      /\ UNCHANGED <<stage, tracking, fps, a, b>>
  BY DEF Report
<1>2. /\ n \in Comparable /\ n \in Nat \X Nat
      /\ <<a, n[1]>> \notin nulled /\ <<b, n[2]>> \notin nulled
      /\ ~tracking => \A pq \in Comparable \ {n} : Earlier(n, pq)
  BY <1>1, CompareFacts
<1>3. Parties(r) = BothAccesses(n)
  BY DEF Parties, BothAccesses
<1>4. RTypes'
  BY <1>1, <1>2 DEF RInv, RTypes, FootprintInv, Report, ranges, FootprintTypeOK
<1>5. PairInv'
  BY <1>1 DEF RInv, PairInv
<1>6. ReportedOnce'
  <2>1. Parties(r) \cap nulled = {}
    BY <1>2, <1>3 DEF BothAccesses
  <2>2. \A s \in reports : Parties(s) \subseteq nulled
    BY DEF RInv, ReportedOnce
  <2>3. UNION {Parties(s) : s \in reports \cup {r}} = nulled \cup Parties(r)
    BY DEF RInv, ReportedOnce
  <2>4. \A s, t \in reports \cup {r} : s # t => Parties(s) \cap Parties(t) = {}
    BY <2>1, <2>2 DEF RInv, ReportedOnce
  <2> HIDE DEF r, n
  <2>5. \A s : Parties(s)' = Parties(s)
    BY DEF Parties
  <2> QED
    BY <2>3, <2>4, <2>5, <1>1, <1>3 DEF ReportedOnce
<1>7. OverlapInv'
  <2> SUFFICES ASSUME ~tracking PROVE OverlapInv'
    BY <1>1 DEF OverlapInv
  <2>1. \A f \in 1..Len(fps) :
          Live(f)' \subseteq Live(f) /\ \A p \in Live(f)' : <<f, p>> \notin nulled'
    BY <1>1, <1>4, LiveShrinks DEF RInv
  <2>2. \A f, g \in Funcs : f # g /\ Searched(f, g)' => NoOverlap(f, g)'
    <3> SUFFICES ASSUME NEW f \in Funcs, NEW g \in Funcs, f # g, Searched(f, g)'
                 PROVE  NoOverlap(f, g)'
      OBVIOUS
    <3>1. NoOverlap(f, g)
      BY <1>1 DEF RInv, OverlapInv, Searched
    <3>2. f \in 1..Len(fps) /\ g \in 1..Len(fps)
      BY <1>1 DEF RInv, RTypes, Funcs
    <3> QED
      BY <3>1, <3>2, <2>1, <1>1 DEF NoOverlap
  <2>3. ASSUME NEW pq \in Comparable' PROVE Earlier(n, pq)
    <3>1. a \in 1..Len(fps) /\ b \in 1..Len(fps)
      BY <1>1, AheadTypes DEF RInv
    <3>2. pq[1] \in Live(a)' /\ pq \in Comparable
      BY <3>1, <2>1, <1>1 DEF Comparable
    <3>3. pq # n
      BY <3>1, <3>2, <2>1, <1>1 DEF BothAccesses
    <3> QED
      BY <3>2, <3>3, <1>2
  <2> QED
    BY <2>2, <2>3, <1>1 DEF OverlapInv
<1> QED
  BY <1>4, <1>5, <1>6, <1>7 DEF RInv

(* Without lock tracking every comparison is a report.                     *)
LEMMA StayProtectedStep ==
  ASSUME RInv, StayProtected
  PROVE  RInv'
<1>1. /\ stage = "compare" /\ Ahead # {} /\ at' = NextPair
      /\ UNCHANGED <<ranges, stage, tracking, fps, a, b, nulled, reports>>
  BY DEF StayProtected
<1>2. tracking
  BY DEF StayProtected, Bad, Level
<1>3. NextPair \in Nat \X Nat
  BY <1>1, CompareFacts
<1>4. RTypes' /\ PairInv' /\ OverlapInv'
  BY <1>1, <1>2, <1>3 DEF RInv, RTypes, PairInv, OverlapInv
<1>5. ReportedOnce'
  BY <1>1 DEF RInv, ReportedOnce, Parties
<1> QED
  BY <1>4, <1>5 DEF RInv

LEMMA EndPassStep ==
  ASSUME RInv, EndPass
  PROVE  RInv'
<1>1. /\ stage = "compare" /\ Ahead = {} /\ stage' = "pair"
      /\ IF b = NumFuncs THEN a' = a + 1 /\ b' = 1 ELSE a' = a /\ b' = b + 1
      /\ UNCHANGED <<tracking, fps, at, nulled, reports>>
  BY DEF EndPass
<1>2. a \in Funcs
  BY <1>1 DEF RInv, PairInv
<1>3. ASSUME ~tracking PROVE NoOverlap(a, b)
  <2>1. Comparable = {}
    BY <1>1, <1>3 DEF RInv, OverlapInv, Ahead
  <2> SUFFICES ASSUME NEW p \in Live(a), NEW q \in Live(b),
                      fps[a][p].usr = fps[b][q].usr
               PROVE  FALSE
    BY DEF NoOverlap
  <2>2. <<p, q>> \in Comparable
    BY DEF Comparable
  <2> QED
    BY <2>1, <2>2
<1>4. a <= NumFuncs
  BY <1>2, RaceSearchAssumption DEF Funcs
<1> QED
  BY <1>1, <1>3, <1>4, NextFunctions

LEMMA RStep ==
  ASSUME RInv, [RNext]_rvars
  PROVE  RInv'
<1>1. CASE Grow \/ Collect
  BY <1>1, CollectStep
<1>2. CASE SkipEqual
  <2>1. /\ stage = "pair" /\ a <= NumFuncs /\ a = b
        /\ IF b = NumFuncs THEN a' = a + 1 /\ b' = 1 ELSE a' = a /\ b' = b + 1
        /\ UNCHANGED <<stage, tracking, fps, at, nulled, reports>>
    BY <1>2 DEF SkipEqual
  <2> QED
    BY <2>1, NextFunctions
<1>3. CASE StartPass
  BY <1>3, StartPassStep
<1>4. CASE AnnotateStep
  BY <1>4, AnnotateKept DEF AnnotateStep, search
<1>5. CASE Annotated
  <2>1. /\ stage = "annotate" /\ stage' \in {"annotate", "compare"}
        /\ UNCHANGED <<tracking, fps, a, b, at, nulled, reports>>
    BY <1>5 DEF Annotated
  <2> QED
    BY <2>1, AnnotateKept
<1>6. CASE Report
  BY <1>6, ReportStep
<1>7. CASE StayProtected
  BY <1>7, StayProtectedStep
<1>8. CASE EndPass
  BY <1>8, EndPassStep
<1>9. CASE Finish
  <2>1. /\ stage = "pair" /\ a > NumFuncs /\ stage' = "finished"
        /\ UNCHANGED <<tracking, fps, search>>
    BY <1>9 DEF Finish
  <2>2. RTypes' /\ PairInv'
    BY <2>1 DEF RInv, RTypes, PairInv, search
  <2>3. OverlapInv'
    BY <2>1, LiveKept DEF RInv, OverlapInv, Searched, search
  <2>4. ReportedOnce'
    BY <2>1 DEF RInv, ReportedOnce, Parties, search
  <2> QED
    BY <2>2, <2>3, <2>4 DEF RInv
<1>10. CASE Finished \/ UNCHANGED rvars
  <2>1. UNCHANGED <<footprint, nesting, stage, tracking, fps, a, b, at, nulled, reports>>
    BY <1>10 DEF Finished, rvars, ranges, search
  <2>2. RTypes' /\ PairInv'
    BY <2>1 DEF RInv, RTypes, PairInv, FootprintInv, FootprintTypeOK
  <2>3. OverlapInv'
    <3>1. UNCHANGED Comparable
      BY <2>1, LiveKept DEF Comparable
    <3> QED
      BY <2>1, <3>1, LiveKept DEF RInv, OverlapInv, Searched
  <2>4. ReportedOnce'
    BY <2>1 DEF RInv, ReportedOnce, Parties
  <2> QED
    BY <2>2, <2>3, <2>4 DEF RInv
<1> QED
  BY <1>1, <1>2, <1>3, <1>4, <1>5, <1>6, <1>7, <1>8, <1>9, <1>10 DEF RNext
-----------------------------------------------------------------------------
(* The theorems                                                            *)

(* The search keeps, in every pass, the functions and pairs behind it free *)
(* of overlaps, or of nothing at all with lock tracking.                   *)
THEOREM SearchInvariant == RSpec => []RInv
<1>1. RInit => RInv
  BY InitRInv
<1>2. RInv /\ [RNext]_rvars => RInv'
  BY RStep
<1> QED
  BY <1>1, <1>2, PTL DEF RSpec

(* find_va_overlap and find_unprotected_va print an access at most once,   *)
(* and null exactly what they printed.                                     *)
THEOREM ReportsAreDisjoint == RSpec => []ReportedOnce
<1>1. RInv => ReportedOnce
  BY DEF RInv
<1> QED
  BY <1>1, SearchInvariant, PTL

(* Without --track-locking main ends with no two functions accessing the   *)
(* same variable by accesses it did not print.                             *)
THEOREM OverlapSearchExhaustive == RSpec => []OverlapExhaustive
<1>1. ASSUME RInv PROVE OverlapExhaustive
  <2> SUFFICES ASSUME stage = "finished", ~tracking,
                      NEW f \in Funcs, NEW g \in Funcs \ {f},
                      NEW p \in AccessesOf(f), NEW q \in AccessesOf(g),
                      Silent(f, p), Silent(g, q)
               PROVE  ~SameUsr(f, p, g, q)
    BY DEF OverlapExhaustive
  <2>1. RTypes /\ f \in 1..Len(fps) /\ g \in 1..Len(fps)
    BY <1>1 DEF RInv, RTypes, Funcs
  <2>2. p \in Live(f) /\ q \in Live(g)
    BY <2>1, LiveIs DEF AccessesOf, Accesses, Silent, PlaceholderTypes
  <2>3. Searched(f, g)
    BY <1>1, RaceSearchAssumption DEF RInv, RTypes, PairInv, Searched, Funcs
  <2>4. NoOverlap(f, g)
    BY <2>3, <1>1 DEF RInv, OverlapInv
  <2> QED
    BY <2>2, <2>4 DEF NoOverlap, SameUsr
<1> QED
  BY <1>1, SearchInvariant, PTL-----------------------------------------------------------------------------
(* What silence means with lock tracking.  A pass compares one function's  *)
(* locks with the other's in one direction; main makes the pass in the     *)
(* other direction as well.                                                *)

FpsInv == \A f \in 1..Len(fps) : Len(fps[f]) <= MaxLen

LoopTypes == k \in Nat \ {0} /\ bound \in Nat /\ start \in 1..MaxLen \cup {1}

(* Only what is compared is nulled: no branch marker.                      *)
NulledInv ==
  \A f \in Funcs, p \in Nat : <<f, p>> \in nulled =>
    /\ stage # "collect"
    /\ p \in DOMAIN fps[f] /\ fps[f][p].type \notin PlaceholderTypes

(* The ranges fs of function f tell which locks are held, but for the locks*)
(* a call on which is nulled.                                              *)
ArrayExact(fs, f) ==
  /\ fs \in Seq(Field)
  /\ \A l \in Locks : LockIntact(f, l) =>
       \A p \in Plain(f) :
         Silent(f, p) => (l \in CoveringLocks(fs, p) <=> l \in HeldStraight(fps[f], p))

AnnotateInv ==
  /\ stage = "annotate" =>
       /\ IInv /\ OrderInv /\ ScanInv /\ at = <<1, 0>>
       /\ side \in {1, 2} /\ arrays \in Seq(Seq(Field)) /\ Len(arrays) = side - 1
       /\ footprint = Current(IF side = 1 THEN a ELSE b)
       /\ side = 2 => ArrayExact(arrays[1], a)
  /\ stage = "compare" /\ tracking =>
       ArrayExact(arrays[1], a) /\ ArrayExact(arrays[2], b)

(* Of two accesses passed over in silence, the intact locks held at the one*)
(* of f are held at the one of g.                                          *)
Included(f, g, p, q) ==
  Silent(f, p) /\ Silent(g, q) /\ SameUsr(f, p, g, q) =>
    \A l \in Locks :
      LockIntact(f, l) /\ LockIntact(g, l) /\ l \in HeldStraight(fps[f], p)
        => l \in HeldStraight(fps[g], q)

PassedInv ==
  tracking =>
    /\ stage # "collect" =>
         \A f, g \in Funcs : f # g /\ Searched(f, g) =>
           \A p \in Plain(f), q \in Plain(g) : Included(f, g, p, q)
    /\ stage = "compare" =>
         \A p \in Plain(a), q \in Plain(b) :
           ~Earlier(at, <<p, q>>) => Included(a, b, p, q)

SInv == FpsInv /\ LoopTypes /\ NulledInv /\ AnnotateInv /\ PassedInv
-----------------------------------------------------------------------------
(* The verdict on two accesses                                             *)

(* get_lp_fields_in_range lists the elements in a total order.             *)
LEMMA FirstListedIn ==
  ASSUME NEW n \in Nat, NEW fs, DOMAIN fs = 1..n,
         NEW S, S \subseteq 1..n, S # {}
  PROVE  FirstListed(fs, S) \in S
<1> DEFINE list == ListOf(fs)
           lists == {list[i] : i \in S}
<1>1. \A i \in 1..n : list[i] \in Nat
  BY ListOfIs
<1> HIDE DEF list
<1>2. PICK m \in lists : \A j \in lists : m <= j
  <2>1. lists \subseteq Nat /\ lists # {}
    BY <1>1
  <2> HIDE DEF lists
  <2> QED
    BY <2>1, LeastNat
<1> DEFINE first == {i \in S : list[i] = m}
<1>3. PICK i \in first : \A j \in first : i <= j
  <2>1. first \subseteq Nat
    <3>1. S \subseteq Nat
      OBVIOUS
    <3> QED
      BY <3>1
  <2>2. first # {}
    <3>1. PICK i \in S : list[i] = m
      BY <1>2
    <3> QED
      BY <3>1
  <2> HIDE DEF first
  <2> QED
    BY <2>1, <2>2, LeastNat
<1>4. ASSUME NEW j \in S \ {i} PROVE ListedBefore(fs, i, j)
  <2>1. /\ i \in Nat /\ j \in Nat /\ list[i] = m /\ m \in Nat /\ list[j] \in Nat
        /\ m <= list[j]
    <3>1. i \in 1..n /\ j \in 1..n /\ list[i] = m
      OBVIOUS
    <3>2. list[j] \in lists
      OBVIOUS
    <3> QED
      BY <3>1, <3>2, <1>1, <1>2
  <2>2. list[j] = m => i <= j
    BY <1>3
  <2> QED
    BY <2>1, <2>2 DEF ListedBefore, list
<1>5. \E x \in S : \A j \in S \ {x} : ListedBefore(fs, x, j)
  BY <1>3, <1>4
<1> QED
  BY <1>5 DEF FirstListed

(* matching_protection_field_arrays calls a pair protected only if each    *)
(* range of a finds one of the same lock among those of b.                 *)
LEMMA MatchIncluded ==
  ASSUME NEW fa \in Seq(Field), NEW fb \in Seq(Field), NEW p, NEW q,
         matching_protection_field_arrays(fa, fb, p, q) = "Protected"
  PROVE  CoveringLocks(fa, p) \subseteq CoveringLocks(fb, q)
<1> DEFINE A == get_lp_fields_in_range(fa, p)
           B == get_lp_fields_in_range(fb, q)
           bad == {i \in A : Verdict(fa[i], fb, B) # "Protected"}
<1>1. /\ Len(fa) \in Nat /\ DOMAIN fa = 1..Len(fa) /\ A \subseteq 1..Len(fa)
      /\ Len(fb) \in Nat /\ DOMAIN fb = 1..Len(fb) /\ B \subseteq 1..Len(fb)
  BY LenProperties DEF get_lp_fields_in_range
<1>2. \/ bad = {}
      \/ Verdict(fa[FirstListed(fa, bad)], fb, B) = "Protected"
  BY DEF matching_protection_field_arrays
<1>3. bad = {}
  <2> SUFFICES ASSUME bad # {} PROVE FALSE
    OBVIOUS
  <2>1. bad \subseteq 1..Len(fa)
    BY <1>1
  <2>2. FirstListed(fa, bad) \in bad
    <3> HIDE DEF bad
    <3> QED
      BY <1>1, <2>1, FirstListedIn
  <2> QED
    BY <1>2, <2>2
<1>4. ASSUME NEW i \in A PROVE \E j \in B : fb[j].hash = fa[i].hash
  <2> DEFINE hits == {j \in B : fb[j].depth # 0 \/ fb[j].hash = fa[i].hash}
  <2>1. Verdict(fa[i], fb, B) = "Protected"
    BY <1>3
  <2>2. hits # {} /\ fb[FirstListed(fb, hits)].depth = 0
    BY <2>1 DEF Verdict
  <2>3. hits \subseteq 1..Len(fb)
    BY <1>1
  <2>4. FirstListed(fb, hits) \in hits
    <3> HIDE DEF hits
    <3> QED
      BY <1>1, <2>2, <2>3, FirstListedIn
  <2> QED
    BY <2>2, <2>4
<1> HIDE DEF A, B
<1>5. /\ CoveringLocks(fa, p) = {l \in Locks : \E i \in A : fa[i].hash = LockHash[l]}
      /\ CoveringLocks(fb, q) = {l \in Locks : \E i \in B : fb[i].hash = LockHash[l]}
  BY DEF CoveringLocks, A, B
<1> QED
  BY <1>4, <1>5
-----------------------------------------------------------------------------
(* The footprints as the passes left them                                  *)

BranchTypes == {"IfStmt", "ThenBlock", "ElseStmt"}

LEMMA NulledEntry ==
  ASSUME NEW va \in VarAccess, va.type \notin PlaceholderTypes
  PROVE  /\ [va EXCEPT !.type = "Null"] \in VarAccess
         /\ [va EXCEPT !.type = "Null"].type = "Null"
BY DEF VarAccess, PlaceholderTypes, Markers, LockCalls

LEMMA CurrentIs ==
  ASSUME RTypes, FpsInv, NulledInv, stage # "collect", NEW f \in Funcs
  PROVE  /\ Current(f) \in Seq(VarAccess) /\ Len(Current(f)) <= MaxLen
         /\ DOMAIN Current(f) = DOMAIN fps[f]
         /\ DOMAIN fps[f] = 1..Len(fps[f]) /\ Len(fps[f]) \in Nat
         /\ \A p \in DOMAIN fps[f] :
              /\ Silent(f, p) => Current(f)[p] = fps[f][p]
              /\ ~Silent(f, p) => Current(f)[p].type = "Null"
              /\ ~Silent(f, p) => fps[f][p].type \notin PlaceholderTypes
<1>1. f \in 1..Len(fps) /\ fps[f] \in Seq(VarAccess)
  BY DEF RTypes, Funcs
<1>2. DOMAIN fps[f] = 1..Len(fps[f]) /\ Len(fps[f]) \in Nat /\ Len(fps[f]) <= MaxLen
  BY <1>1, LenProperties DEF FpsInv
<1>3. ASSUME NEW p \in DOMAIN fps[f]
      PROVE  /\ Current(f)[p] \in VarAccess
             /\ Silent(f, p) => Current(f)[p] = fps[f][p]
             /\ ~Silent(f, p) => Current(f)[p].type = "Null"
             /\ ~Silent(f, p) => fps[f][p].type \notin PlaceholderTypes
  <2>1. fps[f][p] \in VarAccess /\ p \in Nat
    BY <1>1, <1>2, ElementOfSeq
  <2>2. CASE Silent(f, p)
    BY <2>1, <2>2 DEF Current, Silent
  <2>3. CASE ~Silent(f, p)
    <3>1. fps[f][p].type \notin PlaceholderTypes
      BY <2>1, <2>3 DEF NulledInv, Silent
    <3>2. Current(f)[p] = [fps[f][p] EXCEPT !.type = "Null"]
      BY <2>3 DEF Current, Silent
    <3> QED
      BY <3>1, <3>2, <2>1, <2>3, NulledEntry
  <2> QED
    BY <2>2, <2>3
<1>4. Current(f) \in [1..Len(fps[f]) -> VarAccess]
  BY <1>2, <1>3 DEF Current
<1>5. Current(f) \in Seq(VarAccess) /\ Len(Current(f)) = Len(fps[f])
      /\ DOMAIN Current(f) = DOMAIN fps[f]
  BY <1>2, <1>4, SeqFrom
<1> QED
  BY <1>2, <1>3, <1>5

(* Nulling leaves the branches as they were, and every lock held no call on*)
(* which is nulled.                                                        *)
LEMMA CurrentPlain ==
  ASSUME RTypes, FpsInv, NulledInv, stage # "collect", NEW f \in Funcs,
         NEW p \in Plain(f)
  PROVE  /\ p \in DOMAIN fps[f] /\ p \in Nat
         /\ Silent(f, p) => p \in Accesses(Current(f))
         /\ ~AfterElse(Current(f), p) /\ ~InCondition(Current(f), p)
         /\ \A l \in Locks : LockIntact(f, l) =>
              (l \in HeldStraight(Current(f), p) <=> l \in HeldStraight(fps[f], p))
<1>1. /\ DOMAIN Current(f) = DOMAIN fps[f]
      /\ DOMAIN fps[f] = 1..Len(fps[f]) /\ Len(fps[f]) \in Nat
      /\ \A q \in DOMAIN fps[f] :
           /\ Silent(f, q) => Current(f)[q] = fps[f][q]
           /\ ~Silent(f, q) => Current(f)[q].type = "Null"
           /\ ~Silent(f, q) => fps[f][q].type \notin PlaceholderTypes
  BY CurrentIs
<1>2. /\ p \in 1..Len(fps[f]) /\ fps[f][p].type = "Access"
      /\ ~AfterElse(fps[f], p) /\ ~InCondition(fps[f], p)
  BY <1>1 DEF Plain, AccessesOf, Accesses
<1>3. \A q \in 1..p : q \in DOMAIN fps[f]
  BY <1>1, <1>2
<1>4. \A q \in 1..p, t \in BranchTypes :
        Current(f)[q].type = t <=> fps[f][q].type = t
  BY <1>1, <1>3 DEF BranchTypes, PlaceholderTypes
<1>5. \A q \in 1..(p - 1) : q \in 1..p
  BY <1>1, <1>2
<1>6. ~AfterElse(Current(f), p)
  BY <1>2, <1>4, <1>5 DEF AfterElse, BranchTypes
<1>7. ~InCondition(Current(f), p)
  <2> SUFFICES ASSUME NEW q \in 1..(p - 1), Current(f)[q].type = "IfStmt",
                      \A r \in q..p : Current(f)[r].type # "ThenBlock"
               PROVE  FALSE
    BY DEF InCondition
  <2>1. \A r \in q..p : r \in 1..p
    BY <1>1, <1>2
  <2> QED
    BY <2>1, <1>2, <1>4, <1>5 DEF InCondition, BranchTypes
<1>8. ASSUME NEW l \in Locks, LockIntact(f, l)
      PROVE  l \in HeldStraight(Current(f), p) <=> l \in HeldStraight(fps[f], p)
  <2>1. \A q \in 1..(p - 1), t \in LockCalls :
          Calls(Current(f), q, t, l) <=> Calls(fps[f], q, t, l)
    <3> SUFFICES ASSUME NEW q \in 1..(p - 1), NEW t \in LockCalls
                 PROVE  Calls(Current(f), q, t, l) <=> Calls(fps[f], q, t, l)
      OBVIOUS
    <3>1. q \in DOMAIN fps[f]
      BY <1>3, <1>5
    <3>2. CASE Silent(f, q)
      BY <3>1, <3>2, <1>1 DEF Calls
    <3>3. CASE ~Silent(f, q)
      BY <3>1, <3>3, <1>1, <1>8 DEF LockIntact, Calls, LockCalls
    <3> QED
      BY <3>2, <3>3
  <2>2. \A q \in 1..(p - 1) : \A r \in (q + 1)..(p - 1) : r \in 1..(p - 1)
    BY <1>1, <1>2
  <2> QED
    BY <2>1, <2>2 DEF HeldStraight, LockCalls
<1> QED
  BY <1>1, <1>2, <1>6, <1>7, <1>8 DEF Accesses
-----------------------------------------------------------------------------
(* The annotation                                                          *)

(* A footprint annotated to its end has exact ranges.                      *)
LEMMA AnnotatedExact ==
  ASSUME RTypes, FpsInv, NulledInv, stage # "collect", NEW f \in Funcs,
         IInv, ScanInv, pc = "done", footprint = Current(f)
  PROVE  ArrayExact(fields, f)
<1>1. fields \in Seq(Field)
  BY DEF IInv
<1> SUFFICES ASSUME NEW l \in Locks, LockIntact(f, l), NEW p \in Plain(f), Silent(f, p)
             PROVE  l \in CoveringLocks(fields, p) <=> l \in HeldStraight(fps[f], p)
  BY <1>1 DEF ArrayExact
<1>2. /\ p \in Accesses(footprint) /\ ~AfterElse(footprint, p)
      /\ ~InCondition(footprint, p)
      /\ l \in HeldStraight(footprint, p) <=> l \in HeldStraight(fps[f], p)
  BY CurrentPlain
<1>3. p < pos
  BY <1>2, ScanTypes DEF ScanInv, LoopAt, Accesses
<1> QED
  BY <1>2, <1>3 DEF ScanInv, ExactBehind, ExactAt

(* Later reports take nothing from what an array tells.                    *)
LEMMA LaterSilence ==
  ASSUME UNCHANGED fps, nulled \subseteq nulled', NEW f
  PROVE  /\ Plain(f)' = Plain(f)
         /\ \A l : LockIntact(f, l)' => LockIntact(f, l)
         /\ \A p : Silent(f, p)' => Silent(f, p)
         /\ \A fs : ArrayExact(fs, f) => ArrayExact(fs, f)'
         /\ \A g, p, q : Included(f, g, p, q) => Included(f, g, p, q)'
<1>1. Plain(f)' = Plain(f)
  BY DEF Plain, AccessesOf
<1>2. \A g, p : Silent(g, p)' => Silent(g, p)
  BY DEF Silent
<1>3. \A g, l : LockIntact(g, l)' => LockIntact(g, l)
  BY <1>2 DEF LockIntact
<1>4. \A fs : ArrayExact(fs, f) => ArrayExact(fs, f)'
  BY <1>1, <1>2, <1>3 DEF ArrayExact
<1>5. \A g, p, q : Included(f, g, p, q) => Included(f, g, p, q)'
  BY <1>2, <1>3 DEF Included, SameUsr
<1> QED
  BY <1>1, <1>2, <1>3, <1>4, <1>5

(* init_protection_field_array: the scan begins with no ranges.            *)
Fresh ==
  /\ footprint \in Seq(VarAccess) /\ Len(footprint) <= MaxLen /\ nesting = <<>>
  /\ pc = "scan" /\ pos = 1 /\ depth = 0
  /\ fields = <<>> /\ capacity = NumLpFields /\ buffer = 1
  /\ LoopTypes

LEMMA FreshInv == Fresh => IInv /\ OrderInv /\ ScanInv
<1> SUFFICES ASSUME Fresh PROVE IInv /\ OrderInv /\ ScanInv
  OBVIOUS
<1> USE DEF Fresh
<1>1. FootprintInv
  BY DEF FootprintInv, FootprintTypeOK
<1>2. Size = 0
  BY DEF Size
<1>3. IInv
  BY <1>1, <1>2, LockRangesAssumption DEF IInv, FieldsGood, LoopInv, LoopTypes
<1>4. OrderInv
  BY <1>2 DEF OrderInv, EndedBehind, InOrder
<1>5. AtStart
  BY LenProperties DEF AtStart
<1> QED
  BY <1>3, <1>4, <1>5, StartExact

LEMMA AnnotateFresh ==
  ASSUME RTypes, FpsInv, NulledInv, LoopTypes, stage # "collect", NEW f \in Funcs,
         Annotate(Current(f))
  PROVE  /\ IInv' /\ OrderInv' /\ ScanInv' /\ LoopTypes'
         /\ footprint' = Current(f)
<1>1. Current(f) \in Seq(VarAccess) /\ Len(Current(f)) <= MaxLen
  BY CurrentIs
<1>2. Fresh' /\ LoopTypes' /\ footprint' = Current(f)
  BY <1>1 DEF Annotate, Fresh, LoopTypes, loop
<1>3. Fresh' => IInv' /\ OrderInv' /\ ScanInv'
  BY FreshInv, PTL
<1> QED
  BY <1>2, <1>3

LEMMA ScanInvariants ==
  ASSUME HashInjective, IInv, OrderInv, ScanInv, Scan
  PROVE  IInv' /\ OrderInv' /\ ScanInv' /\ UNCHANGED footprint /\ LoopTypes'
<1>1. Next
  BY DEF Next
<1>2. IInv' /\ OrderInv'
  BY <1>1, IInvStep, OrderStep
<1>3. ScanInv' /\ UNCHANGED footprint
  BY <1>2, ScanInvStep, LoopAtStep DEF ScanInv
<1> QED
  BY <1>2, <1>3 DEF IInv, LoopTypes
-----------------------------------------------------------------------------
(* The steps                                                               *)

LEMMA InitSInv == RInit => SInv
<1> SUFFICES ASSUME RInit PROVE SInv
  OBVIOUS
<1> USE DEF RInit
<1>1. FpsInv
  BY DEF FpsInv
<1>2. LoopTypes
  BY DEF Init, LoopTypes
<1> QED
  BY <1>1, <1>2 DEF SInv, NulledInv, AnnotateInv, PassedInv

(* While the footprints grow nothing is nulled or compared.                *)
LEMMA SilenceCollect ==
  ASSUME RInv, SInv, Grow \/ Collect
  PROVE  SInv'
<1>1. /\ UNCHANGED <<loop, tracking, a, b, nulled>>
      /\ stage = "collect" /\ stage' \in {"collect", "pair"}
  BY DEF Grow, Collect, Visit, search
<1>2. FpsInv'
  <2>1. CASE Grow
    BY <2>1 DEF Grow, SInv, FpsInv
  <2>2. CASE Collect
    <3>1. fps' = Append(fps, footprint) /\ fps \in Seq(Seq(VarAccess))
          /\ footprint \in Seq(VarAccess) /\ Len(footprint) <= MaxLen
      BY <1>1, <2>2 DEF Collect, RInv, RTypes, FootprintInv, FootprintTypeOK
    <3>2. /\ Len(fps') = Len(fps) + 1 /\ Len(fps) \in Nat
          /\ \A f \in 1..Len(fps) : fps'[f] = fps[f]
          /\ fps'[Len(fps) + 1] = footprint
      BY <3>1, AppendFacts, LenProperties
    <3>3. \A f \in 1..Len(fps') : f = Len(fps) + 1 \/ f \in 1..Len(fps)
      BY <3>2
    <3> QED
      BY <3>1, <3>2, <3>3 DEF SInv, FpsInv
  <2> QED
    BY <2>1, <2>2
<1>3. NulledInv'
  BY <1>1 DEF SInv, NulledInv
<1>4. \A f, g \in Funcs : ~Searched(f, g)'
  BY <1>1 DEF RInv, PairInv, Searched, Funcs
<1> QED
  BY <1>1, <1>2, <1>3, <1>4 DEF SInv, LoopTypes, loop, AnnotateInv, PassedInv

(* What the passes behind have found is not lost by more reports.          *)
LEMMA PassedStays ==
  ASSUME SInv, stage # "collect", UNCHANGED <<fps, tracking, a, b>>,
         nulled \subseteq nulled', tracking
  PROVE  \A f, g \in Funcs : f # g /\ Searched(f, g)' =>
           \A p \in Plain(f)', q \in Plain(g)' : Included(f, g, p, q)'
<1> SUFFICES ASSUME NEW f \in Funcs, NEW g \in Funcs, f # g, Searched(f, g)',
                    NEW p \in Plain(f)', NEW q \in Plain(g)'
             PROVE  Included(f, g, p, q)'
  OBVIOUS
<1>1. Searched(f, g) /\ p \in Plain(f) /\ q \in Plain(g)
  BY LaterSilence DEF Searched
<1>2. Included(f, g, p, q)
  BY <1>1 DEF SInv, PassedInv
<1> QED
  BY <1>2, LaterSilence

LEMMA NulledSame ==
  ASSUME SInv, UNCHANGED <<fps, nulled>>, stage # "collect", stage' # "collect"
  PROVE  FpsInv' /\ NulledInv'
BY DEF SInv, FpsInv, NulledInv

(* The loops of main go on: the pass of the pair is over.                  *)
LEMMA SilenceNext ==
  ASSUME RInv, SInv, a <= NumFuncs, stage # "collect", stage' = "pair",
         IF b = NumFuncs THEN a' = a + 1 /\ b' = 1 ELSE a' = a /\ b' = b + 1,
         UNCHANGED <<loop, tracking, fps, nulled>>,
         tracking /\ a # b =>
           \A p \in Plain(a), q \in Plain(b) : Included(a, b, p, q)
  PROVE  SInv'
<1>1. a \in Funcs /\ b \in Funcs /\ NumFuncs \in Nat \ {0}
  BY RaceSearchAssumption DEF RInv, RTypes, Funcs
<1>2. PassedInv'
  <2> SUFFICES ASSUME tracking, NEW f \in Funcs, NEW g \in Funcs, f # g, Searched(f, g)',
                      NEW p \in Plain(f)', NEW q \in Plain(g)'
               PROVE  Included(f, g, p, q)'
    BY DEF PassedInv
  <2>1. Searched(f, g) \/ (f = a /\ g = b)
    BY <1>1 DEF Searched, Funcs
  <2>2. p \in Plain(f) /\ q \in Plain(g)
    BY LaterSilence
  <2>3. Included(f, g, p, q)
    BY <2>1, <2>2 DEF SInv, PassedInv
  <2> QED
    BY <2>3, LaterSilence
<1> QED
  BY <1>2, NulledSame DEF SInv, LoopTypes, loop, AnnotateInv

LEMMA SilenceStart ==
  ASSUME RInv, SInv, StartPass
  PROVE  SInv'
<1>1. /\ stage = "pair" /\ a <= NumFuncs /\ a # b /\ at' = <<1, 0>>
      /\ side' = 1 /\ arrays' = <<>>
      /\ UNCHANGED <<tracking, fps, a, b, nulled>>
  BY DEF StartPass
<1>2. a \in Funcs /\ b \in Funcs
  BY <1>1, RaceSearchAssumption DEF RInv, RTypes, Funcs
<1>3. CASE tracking
  <2>1. stage' = "annotate" /\ Annotate(Current(a))
    BY <1>3 DEF StartPass
  <2>2. /\ IInv' /\ OrderInv' /\ ScanInv' /\ LoopTypes' /\ footprint' = Current(a)
    BY <1>1, <1>2, <2>1, AnnotateFresh DEF RInv, SInv
  <2>3. Current(a)' = Current(a)
    BY <1>1 DEF Current
  <2>4. AnnotateInv'
    <3>1. arrays' \in Seq(Seq(Field)) /\ Len(arrays') = 0
      BY <1>1
    <3>2. (footprint = Current(IF side = 1 THEN a ELSE b))'
      BY <1>1, <2>2, <2>3
    <3> QED
      BY <3>1, <3>2, <1>1, <2>1, <2>2 DEF AnnotateInv
  <2>5. PassedInv'
    BY <1>1, <1>3, <2>1, PassedStays DEF PassedInv
  <2> QED
    BY <2>1, <2>2, <2>4, <2>5, <1>1, NulledSame DEF SInv
<1>4. CASE ~tracking
  <2>1. stage' = "compare" /\ UNCHANGED ranges
    BY <1>4 DEF StartPass
  <2> QED
    BY <1>1, <1>4, <2>1, NulledSame
    DEF SInv, LoopTypes, ranges, loop, AnnotateInv, PassedInv
<1> QED
  BY <1>3, <1>4 DEF RInv, RTypes

LEMMA SilenceAnnotate ==
  ASSUME HashInjective, RInv, SInv, AnnotateStep
  PROVE  SInv'
<1>1. /\ stage = "annotate" /\ Scan
      /\ UNCHANGED <<stage, tracking, fps, a, b, side, arrays, at, nulled>>
  BY DEF AnnotateStep, search
<1>2. IInv' /\ OrderInv' /\ ScanInv' /\ UNCHANGED footprint /\ LoopTypes'
  BY <1>1, ScanInvariants DEF SInv, AnnotateInv
<1>3. Current(IF side = 1 THEN a ELSE b)' = Current(IF side = 1 THEN a ELSE b)
  BY <1>1 DEF Current
<1>4. \A fs : ArrayExact(fs, a) => ArrayExact(fs, a)'
  BY <1>1, LaterSilence
<1>5. AnnotateInv'
  BY <1>1, <1>2, <1>3, <1>4 DEF SInv, AnnotateInv
<1>6. PassedInv'
  BY <1>1, PassedStays DEF PassedInv
<1> QED
  BY <1>1, <1>2, <1>5, <1>6, NulledSame DEF SInv
LEMMA SilenceAnnotated ==
  ASSUME RInv, SInv, Annotated
  PROVE  SInv'
<1>1. /\ stage = "annotate" /\ pc = "done" /\ arrays' = Append(arrays, fields)
      /\ UNCHANGED <<tracking, fps, a, b, at, nulled>>
  BY DEF Annotated
<1>2. /\ IInv /\ OrderInv /\ ScanInv /\ LoopTypes /\ RTypes /\ FpsInv /\ NulledInv
      /\ side \in {1, 2} /\ arrays \in Seq(Seq(Field)) /\ Len(arrays) = side - 1
      /\ footprint = Current(IF side = 1 THEN a ELSE b)
      /\ side = 2 => ArrayExact(arrays[1], a)
      /\ a \in Funcs /\ b \in Funcs /\ at = <<1, 0>>
  BY <1>1 DEF SInv, AnnotateInv, RInv, PairInv, RTypes
<1>3. /\ arrays' \in Seq(Seq(Field)) /\ Len(arrays') = side
      /\ side = 2 => arrays'[1] = arrays[1]
      /\ arrays'[side] = fields
  <2>1. fields \in Seq(Field)
    BY <1>2 DEF IInv
  <2>2. /\ arrays' \in Seq(Seq(Field)) /\ Len(arrays') = Len(arrays) + 1
        /\ \A j \in 1..Len(arrays) : arrays'[j] = arrays[j]
        /\ arrays'[Len(arrays) + 1] = fields
    BY <2>1, <1>1, <1>2, AppendFacts
  <2> QED
    BY <2>2, <1>2
<1>4. ArrayExact(fields, IF side = 1 THEN a ELSE b)
  BY <1>1, <1>2, AnnotatedExact
<1>5. /\ \A fs : ArrayExact(fs, a) => ArrayExact(fs, a)'
      /\ \A fs : ArrayExact(fs, b) => ArrayExact(fs, b)'
  BY <1>1, LaterSilence
<1>6. PassedInv' /\ stage' \in {"annotate", "compare"}
  <2>1. stage' \in {"annotate", "compare"}
    BY <1>1 DEF Annotated
  <2>2. CASE tracking
    <3>1. \A f, g \in Funcs : f # g /\ Searched(f, g)' =>
            \A p \in Plain(f)', q \in Plain(g)' : Included(f, g, p, q)'
      BY <1>1, <2>2, PassedStays
    <3>2. ASSUME stage' = "compare", NEW p \in Plain(a)', NEW q \in Plain(b)',
                 ~Earlier(at, <<p, q>>)
          PROVE  FALSE
      <4>1. at = <<1, 0>>
        BY <1>1 DEF SInv, AnnotateInv
      <4>2. p \in Plain(a) /\ q \in Plain(b)
        BY <1>1, <3>2, LaterSilence
      <4>3. p \in Nat \ {0} /\ q \in Nat \ {0}
        BY <4>2, <1>1, <1>2, CurrentIs, CurrentPlain
      <4> QED
        BY <4>1, <4>3, <3>2 DEF Earlier
    <3> QED
      BY <1>1, <2>1, <3>1, <3>2 DEF PassedInv
  <2> QED
    BY <1>1, <2>1, <2>2 DEF PassedInv
<1>7. CASE side = 1
  <2>1. side' = 2 /\ stage' = "annotate" /\ Annotate(Current(b))
    BY <1>1, <1>7 DEF Annotated
  <2>2. IInv' /\ OrderInv' /\ ScanInv' /\ LoopTypes' /\ footprint' = Current(b)
    BY <1>1, <1>2, <2>1, AnnotateFresh
  <2>3. (footprint = Current(IF side = 1 THEN a ELSE b))'
    <3>1. Current(b)' = Current(b)
      BY <1>1 DEF Current
    <3> QED
      BY <3>1, <1>1, <2>1, <2>2
  <2>4. ArrayExact(arrays[1], a)'
    BY <1>1, <1>3, <1>4, <1>5, <1>7
  <2>5. AnnotateInv'
    BY <1>1, <1>2, <1>3, <1>7, <2>1, <2>2, <2>3, <2>4 DEF AnnotateInv
  <2> QED
    BY <1>1, <1>6, <2>1, <2>2, <2>5, NulledSame DEF SInv
<1>8. CASE side = 2
  <2>1. stage' = "compare" /\ UNCHANGED ranges
    BY <1>1, <1>8 DEF Annotated
  <2>2. ArrayExact(arrays[1], a)' /\ ArrayExact(arrays[2], b)'
    BY <1>1, <1>2, <1>3, <1>4, <1>5, <1>8
  <2>3. AnnotateInv'
    BY <2>1, <2>2 DEF AnnotateInv
  <2>4. LoopTypes'
    BY <1>2, <2>1 DEF LoopTypes, ranges, loop
  <2> QED
    BY <1>1, <1>6, <2>1, <2>3, <2>4, NulledSame DEF SInv
<1> QED
  BY <1>2, <1>7, <1>8
(* A comparison moves on to the first pair ahead: every pair that is not   *)
(* ahead any more lies behind the comparison before, or is this one.       *)
LEMMA BehindNow ==
  ASSUME RInv, SInv, stage = "compare", Ahead # {}, tracking,
         NEW p \in Plain(a), NEW q \in Plain(b), ~Earlier(NextPair, <<p, q>>),
         Silent(a, p), Silent(b, q), SameUsr(a, p, b, q), <<p, q>> # NextPair
  PROVE  ~Earlier(at, <<p, q>>)
<1>1. /\ a \in 1..Len(fps) /\ b \in 1..Len(fps)
      /\ Comparable \subseteq Nat \X Nat /\ Ahead \subseteq Comparable
  BY AheadTypes DEF RInv
<1>2. p \in Live(a) /\ q \in Live(b)
  BY <1>1, LiveIs DEF RInv, Plain, AccessesOf, Accesses, Silent, PlaceholderTypes
<1>3. <<p, q>> \in Comparable
  BY <1>2 DEF Comparable, SameUsr
<1>4. Ahead \subseteq Nat \X Nat
  BY <1>1
<1>5. \A y \in Ahead \ {NextPair} : Earlier(NextPair, y)
  BY <1>4, NextPairIs
<1> QED
  BY <1>3, <1>5 DEF Ahead

LEMMA SilenceReport ==
  ASSUME RInv, SInv, Report
  PROVE  SInv'
<1> DEFINE n == NextPair
<1>1. /\ stage = "compare" /\ Ahead # {} /\ at' = n
      /\ nulled' = nulled \cup {<<a, n[1]>>, <<b, n[2]>>}
      /\ UNCHANGED <<ranges, stage, tracking, fps, a, b, side, arrays>>
  BY DEF Report, BothAccesses
<1>2. /\ a \in Funcs /\ b \in Funcs /\ a \in 1..Len(fps) /\ b \in 1..Len(fps)
      /\ Comparable \subseteq Live(a) \X Live(b)
  BY <1>1, AheadTypes DEF RInv, PairInv, RTypes
<1>3. n \in Comparable /\ n \in Nat \X Nat
  BY <1>1, CompareFacts
<1>4. NulledInv'
  <2> SUFFICES ASSUME NEW f \in Funcs, NEW p \in Nat, <<f, p>> \in nulled'
               PROVE  p \in DOMAIN fps[f] /\ fps[f][p].type \notin PlaceholderTypes
    BY <1>1 DEF NulledInv
  <2>1. n[1] \in Live(a) /\ n[2] \in Live(b)
    BY <1>2, <1>3
  <2>2. /\ n[1] \in DOMAIN fps[a] /\ fps[a][n[1]].type \notin PlaceholderTypes
        /\ n[2] \in DOMAIN fps[b] /\ fps[b][n[2]].type \notin PlaceholderTypes
    BY <1>2, <2>1, LiveIs DEF RInv
  <2>3. CASE <<f, p>> \in nulled
    BY <2>3 DEF SInv, NulledInv
  <2>4. CASE <<f, p>> \in {<<a, n[1]>>, <<b, n[2]>>}
    <3> HIDE DEF n
    <3> QED
      BY <2>2, <2>4
  <2> QED
    BY <2>3, <2>4, <1>1
<1> HIDE DEF n
<1>5. nulled \subseteq nulled'
  BY <1>1
<1>6. AnnotateInv'
  BY <1>1, <1>5, LaterSilence DEF SInv, AnnotateInv
<1>7. PassedInv'
  <2> SUFFICES ASSUME tracking PROVE PassedInv'
    BY <1>1 DEF PassedInv
  <2>1. \A f, g \in Funcs : f # g /\ Searched(f, g)' =>
          \A p \in Plain(f)', q \in Plain(g)' : Included(f, g, p, q)'
    BY <1>1, <1>5, PassedStays
  <2>2. ASSUME NEW p \in Plain(a)', NEW q \in Plain(b)', ~Earlier(n, <<p, q>>)
        PROVE  Included(a, b, p, q)'
    <3> SUFFICES ASSUME Silent(a, p)', Silent(b, q)', SameUsr(a, p, b, q)'
                 PROVE  Included(a, b, p, q)'
      BY <1>1 DEF Included
    <3>1. p \in Plain(a) /\ q \in Plain(b) /\ Silent(a, p) /\ Silent(b, q)
          /\ SameUsr(a, p, b, q)
      BY <1>1, <1>5, LaterSilence DEF SameUsr
    <3>2. <<p, q>> # n
      BY <1>1 DEF Silent
    <3>3. ~Earlier(at, <<p, q>>)
      BY <3>1, <3>2, <2>2, <1>1, BehindNow DEF n
    <3>4. Included(a, b, p, q)
      BY <3>1, <3>3, <1>1 DEF SInv, PassedInv
    <3> QED
      BY <3>4, <1>1, <1>5, LaterSilence
  <2> QED
    BY <2>1, <2>2, <1>1 DEF PassedInv
<1>8. FpsInv' /\ LoopTypes'
  BY <1>1 DEF SInv, FpsInv, LoopTypes, ranges, loop
<1> QED
  BY <1>4, <1>6, <1>7, <1>8 DEF SInv

LEMMA SilenceStay ==
  ASSUME RInv, SInv, StayProtected
  PROVE  SInv'
<1>1. /\ stage = "compare" /\ Ahead # {} /\ at' = NextPair /\ ~Bad(NextPair)
      /\ UNCHANGED <<ranges, stage, tracking, fps, a, b, side, arrays, nulled>>
  BY DEF StayProtected
<1>2. AnnotateInv'
  BY <1>1, LaterSilence DEF SInv, AnnotateInv
<1>3. PassedInv'
  <2> SUFFICES ASSUME tracking PROVE PassedInv'
    BY <1>1 DEF PassedInv
  <2>1. \A f, g \in Funcs : f # g /\ Searched(f, g)' =>
          \A p \in Plain(f)', q \in Plain(g)' : Included(f, g, p, q)'
    BY <1>1, PassedStays
  <2>2. ASSUME NEW p \in Plain(a), NEW q \in Plain(b), ~Earlier(NextPair, <<p, q>>)
        PROVE  Included(a, b, p, q)
    <3> SUFFICES ASSUME Silent(a, p), Silent(b, q), SameUsr(a, p, b, q),
                        NEW l \in Locks, LockIntact(a, l), LockIntact(b, l),
                        l \in HeldStraight(fps[a], p)
                 PROVE  l \in HeldStraight(fps[b], q)
      BY DEF Included
    <3>1. CASE <<p, q>> # NextPair
      <4>1. ~Earlier(at, <<p, q>>)
        BY <3>1, <2>2, <1>1, BehindNow
      <4> QED
        BY <4>1, <1>1 DEF SInv, PassedInv, Included
    <3>2. CASE <<p, q>> = NextPair
      <4>1. /\ ArrayExact(arrays[1], a) /\ ArrayExact(arrays[2], b)
        BY <1>1 DEF SInv, AnnotateInv
      <4>2. matching_protection_field_arrays(arrays[1], arrays[2], p, q) = "Protected"
        BY <3>2, <1>1 DEF Bad, Level
      <4>3. CoveringLocks(arrays[1], p) \subseteq CoveringLocks(arrays[2], q)
        BY <4>1, <4>2, MatchIncluded DEF ArrayExact
      <4> QED
        BY <4>1, <4>3 DEF ArrayExact
    <3> QED
      BY <3>1, <3>2
  <2>3. ASSUME NEW p \in Plain(a)', NEW q \in Plain(b)', ~Earlier(NextPair, <<p, q>>)
        PROVE  Included(a, b, p, q)'
    <3>1. p \in Plain(a) /\ q \in Plain(b)
      BY <1>1, LaterSilence
    <3> QED
      BY <3>1, <2>2, <2>3, <1>1, LaterSilence
  <2> QED
    BY <2>1, <2>3, <1>1 DEF PassedInv
<1>4. FpsInv' /\ NulledInv' /\ LoopTypes'
  BY <1>1, NulledSame DEF SInv, LoopTypes, ranges, loop
<1> QED
  BY <1>2, <1>3, <1>4 DEF SInv

LEMMA SilenceEnd ==
  ASSUME RInv, SInv, EndPass
  PROVE  SInv'
<1>1. /\ stage = "compare" /\ Ahead = {} /\ stage' = "pair"
      /\ IF b = NumFuncs THEN a' = a + 1 /\ b' = 1 ELSE a' = a /\ b' = b + 1
      /\ UNCHANGED <<loop, tracking, fps, nulled>>
  BY DEF EndPass, ranges
<1>2. a \in Funcs /\ a <= NumFuncs /\ a \in 1..Len(fps) /\ b \in 1..Len(fps)
  BY <1>1, RaceSearchAssumption DEF RInv, PairInv, RTypes, Funcs
<1>3. ASSUME tracking, NEW p \in Plain(a), NEW q \in Plain(b)
      PROVE  Included(a, b, p, q)
  <2> SUFFICES ASSUME Silent(a, p), Silent(b, q), SameUsr(a, p, b, q)
               PROVE  Included(a, b, p, q)
    BY DEF Included
  <2>1. p \in Live(a) /\ q \in Live(b)
    BY <1>2, LiveIs DEF RInv, Plain, AccessesOf, Accesses, Silent, PlaceholderTypes
  <2>2. <<p, q>> \in Comparable
    BY <2>1 DEF Comparable, SameUsr
  <2>3. ~Earlier(at, <<p, q>>)
    BY <2>2, <1>1 DEF Ahead
  <2> QED
    BY <2>3, <1>1, <1>3 DEF SInv, PassedInv
<1> QED
  BY <1>1, <1>2, <1>3, SilenceNext

LEMMA SilenceStep ==
  ASSUME HashInjective, RInv, SInv, [RNext]_rvars
  PROVE  SInv'
<1>1. CASE Grow \/ Collect
  BY <1>1, SilenceCollect
<1>2. CASE SkipEqual
  <2>1. /\ stage = "pair" /\ a <= NumFuncs /\ a = b /\ stage' = "pair"
        /\ IF b = NumFuncs THEN a' = a + 1 /\ b' = 1 ELSE a' = a /\ b' = b + 1
        /\ UNCHANGED <<loop, tracking, fps, nulled>>
    BY <1>2 DEF SkipEqual, ranges
  <2> QED
    BY <2>1, SilenceNext
<1>3. CASE StartPass
  BY <1>3, SilenceStart
<1>4. CASE AnnotateStep
  BY <1>4, SilenceAnnotate
<1>5. CASE Annotated
  BY <1>5, SilenceAnnotated
<1>6. CASE Report
  BY <1>6, SilenceReport
<1>7. CASE StayProtected
  BY <1>7, SilenceStay
<1>8. CASE EndPass
  BY <1>8, SilenceEnd
<1>9. CASE Finish
  <2>1. /\ stage = "pair" /\ stage' = "finished"
        /\ UNCHANGED <<loop, tracking, fps, a, b, nulled>>
    BY <1>9 DEF Finish, ranges, search
  <2>2. PassedInv'
    BY <2>1, PassedStays DEF PassedInv
  <2> QED
    BY <2>1, <2>2, NulledSame DEF SInv, LoopTypes, loop, AnnotateInv
<1>10. CASE Finished \/ UNCHANGED rvars
  <2>1. UNCHANGED rvars
    BY <1>10 DEF Finished
  <2>2. SInv' <=> SInv
    BY <2>1 DEF rvars, ranges, search, array, loop, SInv, FpsInv, LoopTypes, NulledInv,
      AnnotateInv, PassedInv, IInv, OrderInv, ScanInv, ArrayExact, Included, Current,
      Silent, LockIntact, Plain, AccessesOf, SameUsr, Searched, FootprintInv,
      FootprintTypeOK, FieldsGood, LoopInv, Size, EndedBehind, InOrder, LoopAt, FrontInv,
      Boundaries, HeldAreOpen, OpenFor, ExactBehind, ExactAt
  <2> QED
    BY <2>2
<1> QED
  BY <1>1, <1>2, <1>3, <1>4, <1>5, <1>6, <1>7, <1>8, <1>9, <1>10 DEF RNext
-----------------------------------------------------------------------------
(* find_unprotected_va, run in both directions: two accesses to the same   *)
(* variable before every else block are passed over in silence only if the *)
(* calls before them left the same locks held, but for locks a call on     *)
(* which was reported itself, as long as no two lock objects have one hash.*)
THEOREM SilenceIsSameLocks ==
  ASSUME HashInjective
  PROVE  RSpec => []SilenceMeansSameLocks
<1>1. RInit => RInv /\ SInv
  BY InitRInv, InitSInv
<1>2. RInv /\ SInv /\ [RNext]_rvars => SInv'
  BY SilenceStep
<1>3. ASSUME RInv, SInv PROVE SilenceMeansSameLocks
  <2> SUFFICES ASSUME stage = "finished", tracking,
                      NEW f \in Funcs, NEW g \in Funcs \ {f},
                      NEW p \in Plain(f), NEW q \in Plain(g),
                      Silent(f, p), Silent(g, q), SameUsr(f, p, g, q),
                      NEW l \in Locks, LockIntact(f, l), LockIntact(g, l)
               PROVE  l \in HeldStraight(fps[f], p) <=> l \in HeldStraight(fps[g], q)
    BY DEF SilenceMeansSameLocks
  <2>1. Searched(f, g) /\ Searched(g, f)
    BY <1>3, RaceSearchAssumption DEF RInv, RTypes, PairInv, Searched, Funcs
  <2>2. Included(f, g, p, q) /\ Included(g, f, q, p)
    BY <2>1, <1>3 DEF SInv, PassedInv
  <2> QED
    BY <2>2 DEF Included, SameUsr
<1> QED
  BY <1>1, <1>2, <1>3, SearchInvariant, PTL DEF RSpec
=============================================================================
