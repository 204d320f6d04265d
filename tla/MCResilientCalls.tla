-------------------------- MODULE MCResilientCalls --------------------------
(* Values and symmetry for the runs of ResilientCalls. *)
EXTENDS ResilientCalls, TLC

CallerSymmetry == Permutations(Callers)
=============================================================================
