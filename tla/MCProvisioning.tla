--------------------------- MODULE MCProvisioning ---------------------------
(* Small instances of Provisioning: every order comes from one customer.     *)
EXTENDS Provisioning, TLC

CONSTANTS o1, e1, h1, h2

OneCustomer == [o \in Orders |-> "customer"]

Symmetry == Permutations(Handlers)

=============================================================================
