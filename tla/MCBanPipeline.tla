--------------------------- MODULE MCBanPipeline ---------------------------
(* TLC instances of BanPipeline. *)
EXTENDS BanPipeline, TLC

Symmetry == Permutations(Requests) \cup Permutations(Workers)
=============================================================================
