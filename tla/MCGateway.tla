----------------------------- MODULE MCGateway -----------------------------
(* Two instances and two tenants. *)
EXTENDS Gateway, TLC

CONSTANTS a, b, i1, i2

Symmetry == Permutations({a, b}) \cup Permutations({i1, i2})

=============================================================================
