------------------------ MODULE MCIncidentLifecycle -------------------------
(* Instances of IncidentLifecycle. *)
EXTENDS IncidentLifecycle, TLC

MCWorkers == Permutations(Workers)
=============================================================================
