----------------------------- MODULE MCRaceSearch -----------------------------
(* Values for the constants of RaceSearch. *)
EXTENDS RaceSearch

CONSTANTS m1, m2

HashOne == [l \in {m1} |-> 7]
HashTwo == [l \in {m1, m2} |-> IF l = m1 THEN 7 ELSE 8]

(* Where both locks are used, functions have no if and at most three       *)
(* entries; with one lock they are bounded by MaxLen and MaxNesting alone. *)
SmallWithTwo ==
  LET seen == Range(fps) \cup {footprint}
  IN  (\E fp \in seen : \E p \in DOMAIN fp : fp[p].usr = m2) =>
        \A fp \in seen :
          Len(fp) <= 3 /\ \A p \in DOMAIN fp : fp[p].type \notin Markers
=============================================================================
