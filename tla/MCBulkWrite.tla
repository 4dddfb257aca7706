----------------------------- MODULE MCBulkWrite -----------------------------
(* Bounded instances of BulkWrite for TLC. *)
EXTENDS BulkWrite, TLC

CONSTANTS b1, b2, m1, m2, s1, n1, n2

TwoBulks == {b1, b2}
TwoManagers == {m1, m2}
OneSession == {s1}
TwoNS == {n1, n2}
StartedByFirst == [s \in OneSession |-> m1]

\* The client of the Manager that started the Session does not acknowledge writes
\* unless told to; the other one does.
MixedConcerns == [m \in Mgr |-> IF m = m1 THEN "unacknowledged" ELSE "acknowledged"]

\* All calls with the Session; without, one with the client's write concern and
\* one with an option.
SomeRequests ==
    {r \in Request : \/ r.session = s1
                    \/ r.wc = IF r.mgr = m1 THEN NULL ELSE "unacknowledged"}

Symmetry == Permutations(TwoBulks) \cup Permutations(TwoNS)

================================================================================
