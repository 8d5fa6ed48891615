---------------------------- MODULE MCScopedBans ----------------------------
(* Submissions with and without a host, for TLC. *)
EXTENDS ScopedBans, TLC

CONSTANTS s1, s2, g1, g2, h1, p1, p2, sel

\* Bans towards a host, and one or two without.
BothKinds == (s1 :> h1) @@ (g1 :> Everywhere)
OneHost == (s1 :> h1) @@ (g1 :> Everywhere) @@ (g2 :> Everywhere)
TwoScoped == (s1 :> h1) @@ (s2 :> h1)
OneSelector == [b \in Bans |-> sel]

\* Marks two bans do not fit under, and a map with headroom above the mark, or one that
\* expired entries, which nobody deletes, leave too small.
Mark2 == [pool \in Pools |-> 2]
Mark21 == ("scoped" :> 2) @@ ("global" :> 1)
Entries3 == [pool \in Pools |-> 3]
Entries1 == [pool \in Pools |-> 1]

\* Spec under this constraint is ApartSpec, action by action.
NoCollision == ~Collide

SymmetryGlobal ==
  Permutations({g1, g2}) \cup Permutations(Prefixes) \cup Permutations(Workers)
Symmetry == Permutations(Prefixes) \cup Permutations(Workers)
=============================================================================
