----------------------------- MODULE MCGiGaPool -----------------------------
(* Instances of GiGaPool for TLC: identities are model values.             *)
EXTENDS GiGaPool, TLC

Symmetry == Permutations(Workers) \cup Permutations(Callers)
            \cup Permutations(Payloads)
=============================================================================
