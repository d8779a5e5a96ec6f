------------------------------ MODULE RaceSearch ------------------------------
(***************************************************************************)
(* The last stage of main (prong.c): for every ordered pair of different   *)
(* root functions, find_va_overlap or, with --track-locking,               *)
(* find_unprotected_va (core.c).  The latter annotates both footprints     *)
(* afresh (LockRanges), then judges every pair of accesses to the same USR *)
(* by the ranges that cover them, reports the bad pairs and nulls both     *)
(* accesses, which every later pass sees.                                  *)
(*                                                                         *)
(* An iteration that compares accesses of different USRs, or a placeholder,*)
(* does nothing; one action covers those up to the next that does more.    *)
(* The call traces printed with a report are left out.                     *)
(***************************************************************************)
EXTENDS LockHeld

CONSTANTS
  NumFuncs,   \* root functions named on the command line
  Tracking    \* values of arg_track_locking

ASSUME RaceSearchAssumption ==
  /\ NumFuncs \in Nat \ {0}
  /\ Tracking \subseteq BOOLEAN

VARIABLES
  stage,     \* "collect", "pair", "annotate", "compare", "finished"
  tracking,  \* arg_track_locking
  fps,       \* the footprints collected, before any access is nulled
  nulled,    \* <<f, p>>: accesses of fps whose type was set to VarAccess_Null
  a, b,      \* the ordered pair of functions compared: i and j of main
  side,      \* the function of the pair annotated now
  arrays,    \* lp_field_array_a and _b, as far as they are annotated
  at,        \* the pair of positions compared last
  reports    \* what was printed

ranges == <<footprint, nesting, pc, pos, depth, array, loop>>
search == <<a, b, side, arrays, at, nulled, reports>>
rvars == <<ranges, stage, tracking, fps, search>>

Funcs == 1..NumFuncs

RInit ==
  /\ Init
  /\ stage = "collect" /\ tracking \in Tracking
  /\ fps = <<>> /\ nulled = {} /\ reports = {}
  /\ a = 1 /\ b = 1 /\ side = 1 /\ arrays = <<>> /\ at = <<1, 0>>

(* The footprint of a function as the passes so far have left it.          *)
Current(f) ==
  [p \in DOMAIN fps[f] |->
     IF <<f, p>> \in nulled THEN [fps[f][p] EXCEPT !.type = "Null"]
                            ELSE fps[f][p]]

(* init_protection_field_array and the start of the annotation.            *)
Annotate(fp) ==
  /\ footprint' = fp /\ nesting' = <<>>
  /\ pc' = "scan" /\ pos' = 1 /\ depth' = 0
  /\ fields' = <<>> /\ capacity' = NumLpFields /\ buffer' = 1
  /\ UNCHANGED loop
-----------------------------------------------------------------------------
(* The footprints are grown one after the other.                           *)
Grow ==
  /\ stage = "collect" /\ Len(fps) < NumFuncs
  /\ Visit
  /\ UNCHANGED <<stage, tracking, fps, search>>

Collect ==
  /\ stage = "collect" /\ Len(fps) < NumFuncs
  /\ FootprintComplete
  /\ fps' = Append(fps, footprint)
  /\ footprint' = <<>> /\ nesting' = <<>>
  /\ stage' = IF Len(fps') = NumFuncs THEN "pair" ELSE stage
  /\ UNCHANGED <<pc, pos, depth, array, loop, tracking, search>>

(* for i, for j: the pair after (a, b), in main's order.                   *)
SkipEqual ==
  /\ stage = "pair" /\ a <= NumFuncs /\ a = b
  /\ IF b = NumFuncs THEN a' = a + 1 /\ b' = 1 ELSE a' = a /\ b' = b + 1
  /\ UNCHANGED <<ranges, stage, tracking, fps, side, arrays, at, nulled, reports>>

StartPass ==
  /\ stage = "pair" /\ a <= NumFuncs /\ a # b
  /\ at' = <<1, 0>> /\ side' = 1 /\ arrays' = <<>>
  /\ IF tracking THEN stage' = "annotate" /\ Annotate(Current(a))
                 ELSE stage' = "compare" /\ UNCHANGED ranges
  /\ UNCHANGED <<tracking, fps, a, b, nulled, reports>>

AnnotateStep ==
  /\ stage = "annotate"
  /\ Scan
  /\ UNCHANGED <<stage, tracking, fps, search>>

Annotated ==
  /\ stage = "annotate" /\ pc = "done"
  /\ arrays' = Append(arrays, fields)
  /\ IF side = 1 THEN side' = 2 /\ stage' = stage /\ Annotate(Current(b))
                 ELSE side' = side /\ stage' = "compare" /\ UNCHANGED ranges
  /\ UNCHANGED <<tracking, fps, a, b, at, nulled, reports>>
-----------------------------------------------------------------------------
(* matching_protection_field_arrays                                        *)

(* get_lp_fields_in_range lists the ranges list by list, each from its     *)
(* start.                                                                  *)
ListedBefore(fs, i, j) ==
  \/ ListOf(fs)[i] < ListOf(fs)[j]
  \/ ListOf(fs)[i] = ListOf(fs)[j] /\ i < j

FirstListed(fs, S) == CHOOSE i \in S : \A j \in S \ {i} : ListedBefore(fs, i, j)

(* Faulty: ranges are compared by their lock function, not their object.   *)
VerdictByFunction(x, fb, active) ==
  IF active = {} THEN "Unprotected"
  ELSE IF fb[FirstListed(fb, active)].depth # 0 THEN "Uncertain" ELSE "Protected"

(* The verdict one covering range of a gives: it looks for the first range *)
(* of b that was split at an if or is of the same lock.                    *)
Verdict(x, fb, active) ==
  LET hits == {j \in active : fb[j].depth # 0 \/ fb[j].hash = x.hash}
  IN  CASE hits = {} -> "Unprotected"
        [] hits # {} /\ fb[FirstListed(fb, hits)].depth # 0 -> "Uncertain"
        [] OTHER -> "Protected"

matching_protection_field_arrays(fa, fb, p, q) ==
  LET active_protections_a == get_lp_fields_in_range(fa, p)
      active_protections_b == get_lp_fields_in_range(fb, q)
      bad == {i \in active_protections_a :
                Verdict(fa[i], fb, active_protections_b) # "Protected"}
  IN  IF Cardinality(active_protections_a) # Cardinality(active_protections_b)
      THEN "Unprotected"
      ELSE IF bad = {} THEN "Protected"
      ELSE Verdict(fa[FirstListed(fa, bad)], fb, active_protections_b)
-----------------------------------------------------------------------------
(* The comparison loops                                                    *)

(* va_is_placeholder_type                                                  *)
Placeholder(va) == va.type \in {"Null", "IfStmt", "ThenBlock", "ElseStmt", "EndIf"}

Live(f) == {p \in DOMAIN fps[f] : ~Placeholder(Current(f)[p])}

Comparable == {pq \in Live(a) \X Live(b) : fps[a][pq[1]].usr = fps[b][pq[2]].usr}

Earlier(x, y) == x[1] < y[1] \/ (x[1] = y[1] /\ x[2] < y[2])

(* The comparisons left in this pass: the loops never go back.             *)
Ahead == {pq \in Comparable : Earlier(at, pq)}
NextPair == CHOOSE x \in Ahead : \A y \in Ahead \ {x} : Earlier(x, y)

Level(pq) ==
  IF ~tracking THEN "Overlap"
  ELSE matching_protection_field_arrays(arrays[1], arrays[2], pq[1], pq[2])

(* bad_protection; every overlap is bad.                                   *)
Bad(pq) == \/ Level(pq) # "Protected"
           \/ tracking /\ (arrays[1] = <<>> \/ arrays[2] = <<>>)

(* Faulty: only the access of the outer loop is nulled.                    *)
NullOuter(pq) == {<<a, pq[1]>>}

BothAccesses(pq) == {<<a, pq[1]>>, <<b, pq[2]>>}

Report ==
  /\ stage = "compare" /\ Ahead # {}
  /\ Bad(NextPair)
  /\ at' = NextPair
  /\ reports' = reports \cup {[pair |-> <<a, b>>, at |-> NextPair,
                               level |-> Level(NextPair)]}
  /\ nulled' = nulled \cup BothAccesses(NextPair)
  /\ UNCHANGED <<ranges, stage, tracking, fps, a, b, side, arrays>>

StayProtected ==
  /\ stage = "compare" /\ Ahead # {}
  /\ ~Bad(NextPair)
  /\ at' = NextPair
  /\ UNCHANGED <<ranges, stage, tracking, fps, a, b, side, arrays, nulled, reports>>

(* Faulty: goto leaves the outer loop after a report.                      *)
EndAfterReport ==
  /\ stage = "compare" /\ (Ahead = {} \/ reports # {})
  /\ stage' = "pair"
  /\ IF b = NumFuncs THEN a' = a + 1 /\ b' = 1 ELSE a' = a /\ b' = b + 1
  /\ UNCHANGED <<ranges, tracking, fps, side, arrays, at, nulled, reports>>

EndPass ==
  /\ stage = "compare" /\ Ahead = {}
  /\ stage' = "pair"
  /\ IF b = NumFuncs THEN a' = a + 1 /\ b' = 1 ELSE a' = a /\ b' = b + 1
  /\ UNCHANGED <<ranges, tracking, fps, side, arrays, at, nulled, reports>>

Finish ==
  /\ stage = "pair" /\ a > NumFuncs
  /\ stage' = "finished"
  /\ UNCHANGED <<ranges, tracking, fps, search>>

Finished == stage = "finished" /\ UNCHANGED rvars

RNext ==
  \/ Grow \/ Collect \/ SkipEqual \/ StartPass \/ AnnotateStep \/ Annotated
  \/ Report \/ StayProtected \/ EndPass \/ Finish \/ Finished

RSpec == RInit /\ [][RNext]_rvars
-----------------------------------------------------------------------------
(* Properties                                                              *)

(* Both accesses of a report.                                              *)
Parties(r) == {<<r.pair[1], r.at[1]>>, <<r.pair[2], r.at[2]>>}

(* An access is nulled only when it is printed, and printed at most once,  *)
(* over all passes: the output names no access twice and drops none.       *)
ReportedOnce ==
  /\ UNION {Parties(r) : r \in reports} = nulled
  /\ \A r, s \in reports : r # s => Parties(r) \cap Parties(s) = {}

AccessesOf(f) == Accesses(fps[f])
Plain(f) ==
  {p \in AccessesOf(f) : ~AfterElse(fps[f], p) /\ ~InCondition(fps[f], p)}
Silent(f, p) == <<f, p>> \notin nulled
SameUsr(f, p, g, q) == fps[f][p].usr = fps[g][q].usr

(* Without --track-locking, at the end no two functions are left with      *)
(* unreported accesses to the same variable; an access may still be        *)
(* reported with one partner only, or lose its own to another report.      *)
OverlapExhaustive ==
  stage = "finished" /\ ~tracking =>
    \A f \in Funcs : \A g \in Funcs \ {f} :
      \A p \in AccessesOf(f), q \in AccessesOf(g) :
        Silent(f, p) /\ Silent(g, q) => ~SameUsr(f, p, g, q)

(* No call on lock l in f was reported, and so nulled: a report of one     *)
(* takes l away from the passes that come later.                           *)
LockIntact(f, l) ==
  \A p \in DOMAIN fps[f] :
    fps[f][p].type \in LockCalls /\ fps[f][p].usr = l => Silent(f, p)

(* With --track-locking, two accesses to the same variable that come before*)
(* every else block of their functions are both passed over in silence     *)
(* only if the calls before each left the same locks held, but for locks a *)
(* call on which was reported itself: a lock call nulled by one pass       *)
(* (core.c:1145) misleads the next about that lock and about no other.     *)
SilenceMeansSameLocks ==
  stage = "finished" /\ tracking =>
    \A f \in Funcs : \A g \in Funcs \ {f} :
      \A p \in Plain(f), q \in Plain(g) :
        Silent(f, p) /\ Silent(g, q) /\ SameUsr(f, p, g, q) =>
          \A l \in Locks : LockIntact(f, l) /\ LockIntact(g, l) =>
            (l \in HeldStraight(fps[f], p) <=> l \in HeldStraight(fps[g], q))

SharedUnprotected(f, p, g, q) ==
  /\ SameUsr(f, p, g, q)
  /\ HeldAt(fps[f], p).may \cap HeldAt(fps[g], q).may = {}

(* README.md:96 "This would find all shared unprotected accesses between   *)
(* thread1() and thread2()": of two accesses that never hold a lock in     *)
(* common, one at least is reported.  Where no range covers either of them *)
(* the verdict is Protected, if each function acquires some lock somewhere *)
(* (core.c:1120 asks only for an empty array).                             *)
UnprotectedPairReported ==
  stage = "finished" /\ tracking =>
    \A f \in Funcs : \A g \in Funcs \ {f} :
      \A p \in AccessesOf(f), q \in AccessesOf(g) :
        SharedUnprotected(f, p, g, q) => ~Silent(f, p) \/ ~Silent(g, q)
=============================================================================
