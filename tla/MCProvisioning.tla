--------------------------- MODULE MCProvisioning ---------------------------
(* Instances of Provisioning for TLC. *)
EXTENDS Provisioning, TLC

\* Requests are interchangeable.
Symmetry == Permutations(Requests)
=============================================================================
