---------------------------- MODULE PrefixResolve ----------------------------
(***************************************************************************)
(* What a scoped ban turns its country and AS number into: the ranges of   *)
(* the library that belong to both, under the local rules that come first  *)
(* (internal/prefixdb sync.go applyOverrides, db.go), merged and split     *)
(* into prefixes (resolve.go).  The two loops of Resolve are steps here,   *)
(* so that what they maintain can be stated.                               *)
(*                                                                         *)
(* An address has Width bits, 32 in the code.  A range is a record with a  *)
(* start and an end, a prefix one with an address and a length.            *)
(***************************************************************************)
EXTENDS Integers, FiniteSets

CONSTANTS
  Width,      \* bits of an address
  Size,       \* Size[n]: addresses of a prefix of length n
  Countries, ASNs,  \* what entries and selectors name, without Unset
  Unset,        \* no country "" or AS number 0
  Libraries,  \* libraries that may be loaded: sets of entries
  RuleSets,   \* contents of the rule file: sets of entries
  None

Top == Size[0] - 1
Address == 0 .. Top
Ranges == {r \in [start : Address, end : Address] : r.start <= r.end}
Entries ==
  {e \in [start : Address, end : Address, country : Countries \cup {Unset},
          asn : ASNs \cup {Unset}] : e.start <= e.end}
Prefixes == [addr : Address, len : 0 .. Width]
Selectors == [country : Countries \cup {Unset}, asn : ASNs \cup {Unset}]

ASSUME ResolveAssumption ==
  /\ Width \in Nat
  /\ Size \in [0 .. Width -> Nat \ {0}]
  /\ Size[Width] = 1
  /\ \A n \in 1 .. Width : Size[n - 1] = 2 * Size[n]
  /\ Libraries \subseteq SUBSET Entries
  /\ RuleSets \subseteq SUBSET Entries
  /\ Unset \notin Countries \cup ASNs
  /\ None \notin Ranges

VARIABLES
  rules,    \* the local rules the library was loaded with
  entries,  \* DB.entries, the rules laid over them
  sel,      \* the selector being resolved
  stage,    \* "idle", the loop that runs, or "done"
  ranges,   \* ranges not yet merged
  cur,      \* the range that grows, None before the first
  merged,   \* merged ranges not yet split
  rest,     \* what is left of the range being split, None between two
  out       \* the prefixes so far

resolving == <<sel, stage, ranges, cur, merged, rest, out>>
library == <<rules, entries>>
rvars == <<library, resolving>>

Stages == {"idle", "merge", "split", "done"}

ResolveTypeOK ==
  /\ entries \subseteq Entries /\ rules \in RuleSets
  /\ sel \in Selectors
  /\ stage \in Stages
  /\ ranges \subseteq Ranges /\ merged \subseteq Ranges
  /\ cur \in Ranges \cup {None} /\ rest \in Ranges \cup {None}
  /\ out \subseteq Prefixes

------------------------------------------------------------------------------
(* Sets of addresses *)

Elems(r) == IF r = None THEN {} ELSE r.start .. r.end
Union(R) == UNION {Elems(r) : r \in R}
Members(p) == p.addr .. (p.addr + Size[p.len] - 1)
Block(P) == UNION {Members(p) : p \in P}

------------------------------------------------------------------------------
(* applyOverrides *)

OverlapsAny(e, ovs) == \E o \in ovs : e.start <= o.end /\ o.start <= e.end

\* Variant: an entry goes only when it lies inside a rule.
OverlayKeepingWider(base, ovs) ==
  {e \in base : ~ \E o \in ovs : o.start <= e.start /\ e.end <= o.end} \cup ovs

\* An entry that a rule touches goes as a whole, also the part outside the rule.
Overlay(base, ovs) == {e \in base : ~OverlapsAny(e, ovs)} \cup ovs

------------------------------------------------------------------------------
(* candidates *)

Matches(e, s) == (s.country = Unset \/ e.country = s.country) /\ (s.asn = Unset \/ e.asn = s.asn)

Candidates(s) == {[start |-> e.start, end |-> e.end] : e \in {x \in entries : Matches(x, s)}}

\* The addresses that belong to the selector, the reference for the result.
Wanted(s) == UNION {e.start .. e.end : e \in {x \in entries : Matches(x, s)}}

------------------------------------------------------------------------------
(* Resolve *)

Idle ==
  /\ stage = "idle"
  /\ ranges = {} /\ cur = None /\ merged = {} /\ rest = None /\ out = {}

ResolveInit ==
  /\ rules \in RuleSets
  /\ \E base \in Libraries : entries = Overlay(base, rules)
  /\ sel = [country |-> Unset, asn |-> Unset]
  /\ Idle

\* A selector that names neither a country nor an AS number is an error.
Resolve(s) ==
  /\ stage = "idle"
  /\ s.country # Unset \/ s.asn # Unset
  /\ sel' = s
  /\ ranges' = Candidates(s)
  /\ stage' = IF ranges' = {} THEN "done" ELSE "merge"
  /\ cur' = None /\ merged' = {} /\ rest' = None /\ out' = {}
  /\ UNCHANGED library

Longer(a, b) == IF a < b THEN b ELSE a

\* cur.end + 1 is taken only below the last address, where it cannot wrap.
Touches(c, r) == r.start <= c.end \/ (c.end # Top /\ r.start = c.end + 1)

\* Variant: a range that touches cur replaces its end.
MergeReplacingEnd(r) ==
  /\ stage = "merge"
  /\ r \in ranges /\ \A q \in ranges : r.start <= q.start
  /\ ranges' = ranges \ {r}
  /\ \/ cur = None /\ cur' = r /\ UNCHANGED merged
     \/ cur # None /\ Touches(cur, r)
        /\ cur' = [cur EXCEPT !.end = r.end] /\ UNCHANGED merged
     \/ cur # None /\ ~Touches(cur, r)
        /\ merged' = merged \cup {cur} /\ cur' = r
  /\ UNCHANGED <<library, sel, stage, rest, out>>

\* Ranges come sorted by their start; of two that start together either is first.
Merge(r) ==
  /\ stage = "merge"
  /\ r \in ranges /\ \A q \in ranges : r.start <= q.start
  /\ ranges' = ranges \ {r}
  /\ \/ cur = None /\ cur' = r /\ UNCHANGED merged
     \/ cur # None /\ Touches(cur, r)
        /\ cur' = [cur EXCEPT !.end = Longer(cur.end, r.end)] /\ UNCHANGED merged
     \/ cur # None /\ ~Touches(cur, r)
        /\ merged' = merged \cup {cur} /\ cur' = r
  /\ UNCHANGED <<library, sel, stage, rest, out>>

MergeLast ==
  /\ stage = "merge" /\ ranges = {}
  /\ merged' = merged \cup {cur} /\ cur' = None
  /\ stage' = "split"
  /\ UNCHANGED <<library, sel, ranges, rest, out>>

NextRange(r) ==
  /\ stage = "split" /\ rest = None
  /\ r \in merged /\ \A q \in merged : r.start <= q.start
  /\ merged' = merged \ {r} /\ rest' = r
  /\ UNCHANGED <<library, sel, stage, ranges, cur, out>>

------------------------------------------------------------------------------
(* rangeToCIDRs *)

\* Variant: the alignment of the start is not looked at.
FitsUnaligned(n, r) == Size[n] <= r.end - r.start + 1

\* Variant: a prefix that fills the rest of the range is taken to be too large.
FitsStrictly(n, r) ==
  r.start % Size[n] = 0 /\ (n = Width \/ Size[n] < r.end - r.start + 1)

Fits(n, r) == r.start % Size[n] = 0 /\ Size[n] <= r.end - r.start + 1

\* The shortest prefix that starts at the start and does not pass the end.
MaxSize(r) ==
  CHOOSE n \in 0 .. Width : Fits(n, r) /\ \A m \in 0 .. Width : Fits(m, r) => n <= m

\* Variant: start + blockSize is taken in the width of an address.
SplitWrapping ==
  /\ stage = "split" /\ rest # None
  /\ LET n == MaxSize(rest)
         next == (rest.start + Size[n]) % (Top + 1) IN
     /\ out' = out \cup {[addr |-> rest.start, len |-> n]}
     /\ rest' = IF next > rest.end THEN None ELSE [start |-> next, end |-> rest.end]
  /\ UNCHANGED <<library, sel, stage, ranges, cur, merged>>

Split ==
  /\ stage = "split" /\ rest # None
  /\ LET n == MaxSize(rest)
         next == rest.start + Size[n] IN
     /\ out' = out \cup {[addr |-> rest.start, len |-> n]}
     /\ rest' = IF next > Top \/ next > rest.end THEN None
                ELSE [start |-> next, end |-> rest.end]
  /\ UNCHANGED <<library, sel, stage, ranges, cur, merged>>

Done ==
  /\ stage = "split" /\ rest = None /\ merged = {}
  /\ stage' = "done"
  /\ UNCHANGED <<library, sel, ranges, cur, merged, rest, out>>

\* The caller of Resolve has what it needs.
Return ==
  /\ stage = "done"
  /\ stage' = "idle" /\ out' = {}
  /\ UNCHANGED <<library, sel, ranges, cur, merged, rest>>

ResolveStep ==
  \/ \E r \in ranges : Merge(r)
  \/ MergeLast
  \/ \E r \in merged : NextRange(r)
  \/ Split
  \/ Done

ResolveNext == (\E s \in Selectors : Resolve(s)) \/ ResolveStep \/ Return

ResolveSpec == ResolveInit /\ [][ResolveNext]_rvars

------------------------------------------------------------------------------
(* Properties *)

\* The prefixes cover the addresses of the selector and no other one, whatever
\* ranges overlap, nest or touch, up to the last address.
ResolveIsExact == stage = "done" => Block(out) = Wanted(sel)

\* The quota counts prefixes and the preview adds up their sizes: no address is in
\* two of them, and no two of them could be one.
CoverIsMinimal ==
  stage = "done" => \A p, q \in out : p # q =>
    /\ Members(p) \cap Members(q) = {}
    /\ ~ (p.len = q.len /\ p.len > 0 /\ (p.addr \div Size[p.len - 1]) = (q.addr \div Size[p.len - 1]))

\* The loop over a range ends, at the last address as well: each prefix leaves a
\* smaller part of the range.
SplitShrinks ==
  [][rest # None =>
       rest' = rest \/ (Elems(rest') \subseteq Elems(rest) /\ Elems(rest') # Elems(rest))]_rest

\* "Local rules take precedence over every source" (templates_prefixdb.go): whether
\* an address under a rule is banned is decided by the rules alone.
RulesWin ==
  stage = "done" => \A o \in rules : \A a \in o.start .. o.end :
    a \in Block(out) <=>
      \E x \in rules : a \in x.start .. x.end /\ Matches(x, sel)
==============================================================================
