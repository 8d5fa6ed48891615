--------------------------- MODULE MCPrefixLibrary ---------------------------
(* TLC instances of PrefixLibrary. *)
EXTENDS PrefixLibrary, TLC
=============================================================================
