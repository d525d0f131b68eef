---------------------------- MODULE MCOtaUpdate ----------------------------
(* Instances of OtaUpdate for TLC. *)
EXTENDS OtaUpdate, TLC

\* Offers and OTA tasks are interchangeable.
Symmetry == Permutations(Offers) \cup Permutations(Tasks)
=============================================================================
