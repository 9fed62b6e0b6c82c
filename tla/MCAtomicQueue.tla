--------------------------- MODULE MCAtomicQueue ----------------------------
(***************************************************************************)
(* The symmetry of AtomicQueue: no action or property tells two producers  *)
(* or two consumers apart.                                                 *)
(***************************************************************************)
EXTENDS AtomicQueue, TLC

ThreadSymmetry == Permutations(Producers) \union Permutations(Consumers)
=============================================================================
