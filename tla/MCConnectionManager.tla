-------------------------- MODULE MCConnectionManager --------------------------
(* Instances of ConnectionManager for TLC.                                  *)
EXTENDS ConnectionManager, TLC

Symmetry == Permutations(Conns)
=============================================================================
