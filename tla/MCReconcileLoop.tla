-------------------------- MODULE MCReconcileLoop --------------------------
(* TLC instances of ReconcileLoop. *)
EXTENDS ReconcileLoop, TLC

Symmetry ==
  Permutations(Requests) \cup Permutations(Targets) \cup Permutations(Workers)
=============================================================================
