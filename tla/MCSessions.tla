---------------------------- MODULE MCSessions ----------------------------
(* Two addresses that move between two tenants. *)
EXTENDS Sessions, TLC

CONSTANTS h1, h2, h3

HandlerSet == {h1, h2, h3}
Symmetry   == Permutations(HandlerSet)

===========================================================================
