-------------------------- MODULE MCFreshnessCache --------------------------
(* Two planning commands and one abk snapshot share the cache of a manifest *)
(* that moves between two targets.  The planning commands are alike, and so *)
(* are the targets.                                                        *)
EXTENDS FreshnessCache, TLC

CONSTANTS p1, p2, p3, tA, tB

Alike == Permutations({p1, p2}) \cup Permutations({tA, tB})
=============================================================================
