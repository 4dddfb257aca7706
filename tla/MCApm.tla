-------------------------------- MODULE MCApm --------------------------------
(* Bounded instances of Apm for TLC. *)
EXTENDS Apm, TLC

CONSTANTS m1, m2, u1, u2, k1, e1, k2

OneManager == {m1}
TwoManagers == {m1, m2}
TwoSubscribers == {u1, u2}
OneClient == {k1}
OneScoped == {k2}
NoClient == {}

\* Two persistent clients, of which e1 encrypts with k1 as its key vault, and a
\* request-scoped one.
ThreeClients == {k1, e1, k2}
KeyVault == [c \in ThreeClients |-> IF c = e1 THEN k1 ELSE NULL]
NoVault == [c \in OneClient |-> NULL]

Symmetry == Permutations(TwoManagers) \cup Permutations(TwoSubscribers)
SubSymmetry == Permutations(TwoSubscribers)

================================================================================
