----------------------------- MODULE MCOlcClient -----------------------------
(* Symmetry of the small instances of OlcClient. *)
EXTENDS OlcClient, TLC

NotifySymmetry == Permutations(NotifyIds) \cup Permutations(Callers)
=============================================================================
