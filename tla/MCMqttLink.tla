----------------------------- MODULE MCMqttLink -----------------------------
(* Instances of MqttLink for TLC. *)
EXTENDS MqttLink, TLC

\* Clients are interchangeable.
Symmetry == Permutations(Handles)
=============================================================================
