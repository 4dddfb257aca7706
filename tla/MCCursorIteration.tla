-------------------------- MODULE MCCursorIteration --------------------------
(* Bounded instances of CursorIteration for TLC. *)
EXTENDS CursorIteration, TLC

CONSTANTS c1, c2, s1, s2, l1, l2

OneCursor == {c1}
TwoCursors == {c1, c2}
OneSession == {s1}
TwoSessions == {s1, s2}
TwoLsids == {l1, l2}
NoSessions == {}
Symmetry == Permutations(TwoCursors) \cup Permutations(TwoSessions)
            \cup Permutations(TwoLsids)

================================================================================
