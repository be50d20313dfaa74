-------------------------- MODULE MCKnowledgeBase --------------------------
(* Small instances of KnowledgeBase: slots are <<worker, kind>> pairs.       *)
EXTENDS KnowledgeBase, TLC

CONSTANTS t1, t2, w1, w2, r1, r2

MCSlots    == Workers \X Kinds
MCWorkerOf == [s \in MCSlots |-> s[1]]
MCKindOf   == [s \in MCSlots |-> s[2]]

Symmetry == Permutations(Tenants) \cup Permutations(Requests)

=============================================================================
