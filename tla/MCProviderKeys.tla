--------------------------- MODULE MCProviderKeys ---------------------------
(* Small instances of ProviderKeys. *)
EXTENDS ProviderKeys, TLC

CONSTANTS p1, k1, k2, u1, u2, c1, c2

OneProvider == {p1}
TwoKeys == {k1, k2}
TwoUrls == {u1, u2}
TwoCalls == {c1, c2}

\* Keys, connections and calls are interchangeable.
Symmetry == Permutations({k1, k2}) \cup Permutations({u1, u2}) \cup Permutations(Calls)
=============================================================================
