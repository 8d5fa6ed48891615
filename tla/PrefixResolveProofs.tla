------------------------- MODULE PrefixResolveProofs -------------------------
(***************************************************************************)
(* Theorems about PrefixResolve for addresses of any width and libraries   *)
(* of any size.  The inductive invariant follows the addresses through the *)
(* two loops: what is in the ranges not yet merged, in the range that      *)
(* grows, in the merged ones, in the rest of the one being split and in    *)
(* the prefixes is, at any step, what the selector names.                  *)
(***************************************************************************)
EXTENDS PrefixResolve, FiniteSetTheorems, WellFoundedInduction, TLAPS

------------------------------------------------------------------------------
(* Least elements, without induction: initial segments 0 .. n - 1 are finite *)
(* sets, which strict inclusion orders well.                                 *)

LEMMA LeastElement ==
  ASSUME NEW N \in Nat, NEW T, T \subseteq 0 .. N, T # {}
  PROVE  \E n \in T : \A m \in T : n <= m
<1> DEFINE Below(n) == {k \in 0 .. N : k < n}
           S == {Below(n) : n \in T}
           R == StrictSubsetOrdering(0 .. N)
<1>1. IsWellFoundedOn(R, FiniteSubsetsOf(0 .. N))
  BY FS_StrictSubsetOrderingWellFounded
<1>2. IsFiniteSet(0 .. N)
  BY FS_Interval
<1>3. S \subseteq FiniteSubsetsOf(0 .. N) /\ S # {}
  <2>1. FiniteSubsetsOf(0 .. N) = SUBSET (0 .. N)
    BY <1>2, FS_FiniteSubsetsOfFinite
  <2>2. \A n \in T : Below(n) \in SUBSET (0 .. N)
    OBVIOUS
  <2>3. S \subseteq SUBSET (0 .. N) /\ S # {}
    BY <2>2
  <2> HIDE DEF S
  <2> QED
    BY <2>1, <2>3
<1>4. \E x \in S : \A y \in S : ~ (<<y, x>> \in R)
  <2> HIDE DEF S, R
  <2> QED BY <1>1, <1>3, WFMin
<1>5. PICK n \in T : \A m \in T : ~ (<<Below(m), Below(n)>> \in R)
  BY <1>4
<1>6. ASSUME NEW m \in T, m < n PROVE FALSE
  <2>1. Below(m) \subseteq Below(n) /\ m \in Below(n) /\ m \notin Below(m)
    BY <1>6
  <2>2. <<Below(m), Below(n)>> \in R
    BY <2>1 DEF StrictSubsetOrdering
  <2> QED
    BY <1>5, <2>2
<1> QED
  BY <1>6

------------------------------------------------------------------------------
(* Facts about ranges and prefixes *)

LEMMA TopIsNat == Top \in Nat
BY ResolveAssumption DEF ResolveAssumption, Top

\* Merging two ranges that touch adds no address and loses none.
LEMMA TouchingRanges ==
  ASSUME NEW c \in Ranges, NEW r \in Ranges, c.start <= r.start, Touches(c, r)
  PROVE  /\ [c EXCEPT !.end = Longer(c.end, r.end)] \in Ranges
         /\ Elems([c EXCEPT !.end = Longer(c.end, r.end)]) = Elems(c) \cup Elems(r)
<1> DEFINE d == [c EXCEPT !.end = Longer(c.end, r.end)]
<1>1. /\ c.start \in Nat /\ c.end \in Nat /\ c.start <= c.end /\ c.end <= Top
      /\ r.start \in Nat /\ r.end \in Nat /\ r.start <= r.end /\ r.end <= Top
  BY TopIsNat DEF Ranges, Address
<1>2. d = [start |-> c.start, end |-> Longer(c.end, r.end)]
  BY DEF Ranges
<1>3. Longer(c.end, r.end) \in c.end .. Top
  BY <1>1, TopIsNat DEF Longer
<1>4. d \in Ranges
  BY <1>1, <1>2, <1>3, TopIsNat DEF Ranges, Address
<1>5. c # None /\ r # None /\ d # None
  BY <1>4, ResolveAssumption DEF ResolveAssumption
<1>6. c.start .. Longer(c.end, r.end) = (c.start .. c.end) \cup (r.start .. r.end)
  BY <1>1, TopIsNat DEF Longer, Touches
<1> QED
  BY <1>2, <1>4, <1>5, <1>6 DEF Elems

\* There is a prefix to split off: the single address at the start fits.
LEMMA MaxSizeFits ==
  ASSUME NEW r \in Ranges
  PROVE  /\ MaxSize(r) \in 0 .. Width /\ Fits(MaxSize(r), r)
         /\ \A m \in 0 .. Width : Fits(m, r) => MaxSize(r) <= m
<1> DEFINE T == {n \in 0 .. Width : Fits(n, r)}
<1>1. Width \in Nat /\ Size[Width] = 1
  BY ResolveAssumption DEF ResolveAssumption
<1>2. r.start \in Nat /\ r.end \in Nat /\ r.start <= r.end
  BY TopIsNat DEF Ranges, Address
<1>3. r.start % 1 = 0
  BY <1>2
<1>4. Width \in T
  BY <1>1, <1>2, <1>3 DEF Fits
<1>5. PICK n \in T : \A m \in T : n <= m
  <2> HIDE DEF T
  <2>1. T \subseteq 0 .. Width
    BY DEF T
  <2> QED BY <1>1, <1>4, <2>1, LeastElement
<1>6. n \in 0 .. Width /\ Fits(n, r) /\ \A m \in 0 .. Width : Fits(m, r) => n <= m
  BY <1>5
<1> QED
  BY <1>6 DEF MaxSize

\* What is split off and what is left make up the range, and less is left.
LEMMA SplitRange ==
  ASSUME NEW r \in Ranges
  PROVE  LET n == MaxSize(r)
             p == [addr |-> r.start, len |-> n]
             next == r.start + Size[n]
             s == IF next > Top \/ next > r.end THEN None
                  ELSE [start |-> next, end |-> r.end] IN
         /\ p \in Prefixes
         /\ s \in Ranges \cup {None}
         /\ Elems(r) = Members(p) \cup Elems(s)
         /\ Elems(s) \subseteq Elems(r) /\ Elems(s) # Elems(r)
<1> DEFINE n == MaxSize(r)
           p == [addr |-> r.start, len |-> n]
           next == r.start + Size[n]
           s == IF next > Top \/ next > r.end THEN None
                ELSE [start |-> next, end |-> r.end]
           Divides == /\ s \in Ranges \cup {None}
                      /\ Elems(r) = Members(p) \cup Elems(s)
                      /\ Elems(s) \subseteq Elems(r) /\ Elems(s) # Elems(r)
<1> SUFFICES p \in Prefixes /\ Divides
  OBVIOUS
<1>1. n \in 0 .. Width /\ Size[n] <= r.end - r.start + 1
  BY MaxSizeFits DEF Fits
<1>2. r.start \in Nat /\ r.end \in Nat /\ r.start <= r.end /\ r.end <= Top /\ r # None
  BY TopIsNat, ResolveAssumption DEF Ranges, Address, ResolveAssumption
<1>3. Size[n] \in Nat \ {0}
  BY <1>1, ResolveAssumption DEF ResolveAssumption
<1> HIDE DEF n
<1>4. p \in Prefixes
  BY <1>1, <1>2, TopIsNat DEF Prefixes, Address
<1>5. Members(p) = r.start .. (next - 1)
  BY <1>2, <1>3 DEF Members
<1>6. Elems(r) = r.start .. r.end
  BY <1>2 DEF Elems
<1>7. CASE next > Top \/ next > r.end
  <2>1. next - 1 = r.end
    BY <1>1, <1>2, <1>3, <1>7, TopIsNat
  <2>2. s = None
    BY <1>7
  <2>3. s \in Ranges \cup {None} /\ Elems(s) = {} /\ Elems(r) # {}
    BY <1>2, <1>6, <2>2 DEF Elems
  <2> HIDE DEF p, s, next
  <2> QED
    BY <1>4, <1>5, <1>6, <2>1, <2>3
<1>8. CASE ~ (next > Top \/ next > r.end)
  <2>1. next \in Nat /\ r.start < next /\ next <= r.end
    BY <1>2, <1>3, <1>8, TopIsNat
  <2>2. s = [start |-> next, end |-> r.end]
    BY <1>8
  <2>3. s \in Ranges
    <3> HIDE DEF next, s
    <3> QED BY <1>2, <2>1, <2>2, TopIsNat DEF Ranges, Address
  <2>4. Elems(s) = next .. r.end
    <3> HIDE DEF next, s
    <3> QED BY <2>2, <2>3, ResolveAssumption DEF Elems, ResolveAssumption
  <2>5. r.start .. r.end = (r.start .. (next - 1)) \cup (next .. r.end)
    BY <1>2, <2>1
  <2>6. r.start \in Elems(r) /\ r.start \notin Elems(s)
    BY <1>2, <1>6, <2>1, <2>4
  <2> HIDE DEF p, s, next
  <2> QED
    BY <1>4, <1>5, <1>6, <2>3, <2>4, <2>5, <2>6
<1>9. Divides
  BY <1>7, <1>8
<1> QED
  BY <1>4, <1>9 DEF n

------------------------------------------------------------------------------
(* The inductive invariant *)

\* The addresses that are somewhere between the candidates and the prefixes.
Carried == Union(ranges) \cup Elems(cur) \cup Union(merged) \cup Elems(rest) \cup Block(out)

\* Which of the variables the stages use.
StageInv ==
  /\ stage \in {"idle", "merge"} => rest = None /\ out = {}
  /\ stage = "merge" => cur # None \/ ranges # {}
  /\ stage # "merge" => ranges = {} /\ cur = None
  /\ stage \in {"idle", "done"} => merged = {} /\ rest = None

\* Ranges come in the order of their starts.
OrderInv == cur # None => \A r \in ranges : cur.start <= r.start

\* A prefix starts at a multiple of its size.
AlignInv == \A p \in out : p.addr % Size[p.len] = 0

\* The rules were laid over a library.
OverlayInv == \E base \in Libraries : entries = Overlay(base, rules)

RInv ==
  /\ ResolveTypeOK
  /\ StageInv
  /\ OrderInv
  /\ AlignInv
  /\ OverlayInv
  /\ stage # "idle" => Carried = Wanted(sel)

LEMMA RInit == ResolveInit => RInv
<1> SUFFICES ASSUME ResolveInit PROVE RInv
  OBVIOUS
<1>1. PICK base \in Libraries : entries = Overlay(base, rules)
  BY DEF ResolveInit
<1>2. rules \in RuleSets /\ entries \subseteq Entries
  BY <1>1, ResolveAssumption DEF ResolveInit, Overlay, ResolveAssumption
<1>3. sel \in Selectors
  BY DEF ResolveInit, Selectors
<1> QED
  BY <1>1, <1>2, <1>3
     DEF ResolveInit, Idle, RInv, ResolveTypeOK, Stages, StageInv, OrderInv, AlignInv,
         OverlayInv

\* What is wanted are the addresses of the candidates.
LEMMA CandidatesAreWanted ==
  ASSUME NEW s, entries \subseteq Entries
  PROVE  Candidates(s) \subseteq Ranges /\ Union(Candidates(s)) = Wanted(s)
<1>1. ASSUME NEW e \in Entries
      PROVE  /\ [start |-> e.start, end |-> e.end] \in Ranges
             /\ Elems([start |-> e.start, end |-> e.end]) = e.start .. e.end
  BY ResolveAssumption DEF Entries, Ranges, Elems, ResolveAssumption
<1>2. Candidates(s) \subseteq Ranges
  BY <1>1 DEF Candidates
<1>3. Union(Candidates(s)) \subseteq Wanted(s)
  BY <1>1 DEF Candidates, Union, Wanted
<1>4. Wanted(s) \subseteq Union(Candidates(s))
  BY <1>1 DEF Candidates, Union, Wanted
<1> QED
  BY <1>2, <1>3, <1>4

LEMMA ResolveStepInv ==
  ASSUME RInv, NEW s \in Selectors, Resolve(s)
  PROVE  RInv'
<1>1. Candidates(s) \subseteq Ranges /\ Union(Candidates(s)) = Wanted(s)
  BY CandidatesAreWanted DEF RInv, ResolveTypeOK
<1>2. ranges' = Candidates(s) /\ cur' = None /\ merged' = {} /\ rest' = None /\ out' = {}
  BY DEF Resolve
<1>3. UNCHANGED library /\ sel' = s
  BY DEF Resolve
<1>4. Carried' = Union(Candidates(s))
  BY <1>2 DEF Carried, Union, Elems, Block
<1>5. Wanted(sel)' = Wanted(s)
  BY <1>3 DEF Wanted, Matches, library
<1>6. ResolveTypeOK'
  BY <1>1, <1>2, <1>3 DEF Resolve, RInv, ResolveTypeOK, Stages, library
<1>7. StageInv' /\ OrderInv' /\ AlignInv'
  BY <1>2 DEF Resolve, StageInv, OrderInv, AlignInv
<1>8. OverlayInv'
  BY <1>3 DEF RInv, OverlayInv, library
<1> QED
  BY <1>1, <1>4, <1>5, <1>6, <1>7, <1>8 DEF RInv

\* The selector and the library stay while the loops run.
LEMMA SameQuestion ==
  ASSUME RInv, UNCHANGED <<library, sel>>
  PROVE  Wanted(sel)' = Wanted(sel) /\ OverlayInv'
BY DEF Wanted, Matches, library, RInv, OverlayInv

LEMMA MergeInv ==
  ASSUME RInv, NEW r \in ranges, Merge(r)
  PROVE  RInv'
<1>1. /\ stage = "merge" /\ stage' = "merge"
      /\ ranges \subseteq Ranges /\ merged \subseteq Ranges /\ cur \in Ranges \cup {None}
      /\ ranges' = ranges \ {r} /\ r \in Ranges
      /\ \A q \in ranges : r.start <= q.start
      /\ UNCHANGED <<library, sel, rest, out>>
  BY DEF Merge, RInv, ResolveTypeOK
<1>2. r # None
  BY <1>1, ResolveAssumption DEF ResolveAssumption
<1>3. /\ merged' \subseteq Ranges /\ cur' \in Ranges
      /\ Elems(cur') \cup Union(merged') = Elems(cur) \cup Elems(r) \cup Union(merged)
      /\ \A q \in ranges' : cur'.start <= q.start
  <2>1. CASE cur = None /\ cur' = r /\ UNCHANGED merged
    BY <1>1, <2>1 DEF Elems
  <2>2. CASE /\ cur # None /\ Touches(cur, r)
             /\ cur' = [cur EXCEPT !.end = Longer(cur.end, r.end)] /\ UNCHANGED merged
    <3>1. cur \in Ranges /\ cur.start <= r.start
      BY <1>1, <2>2 DEF RInv, OrderInv
    <3>2. cur' \in Ranges /\ Elems(cur') = Elems(cur) \cup Elems(r)
      BY <1>1, <2>2, <3>1, TouchingRanges
    <3>3. cur'.start = cur.start
      BY <2>2, <3>1 DEF Ranges
    <3> QED
      BY <1>1, <2>2, <3>2, <3>3 DEF RInv, OrderInv
  <2>3. CASE cur # None /\ ~Touches(cur, r) /\ merged' = merged \cup {cur} /\ cur' = r
    BY <1>1, <2>3 DEF Union
  <2> QED
    BY <2>1, <2>2, <2>3 DEF Merge
<1>4. Union(ranges) = Elems(r) \cup Union(ranges')
  BY <1>1 DEF Union
<1>5. Carried' = Carried
  <2>1. Elems(rest)' = Elems(rest) /\ Block(out)' = Block(out)
    BY <1>1 DEF Elems, Block, Members
  <2>2. Union(ranges)' = Union(ranges') /\ Union(merged)' = Union(merged') /\ Elems(cur)' = Elems(cur')
    BY DEF Union, Elems
  <2> QED
    BY <1>3, <1>4, <2>1, <2>2 DEF Carried
<1>6. ResolveTypeOK'
  BY <1>1, <1>3 DEF RInv, ResolveTypeOK, Stages, library
<1>7. StageInv'
  BY <1>1, <1>3, ResolveAssumption DEF RInv, StageInv, ResolveAssumption
<1>8. OrderInv' /\ AlignInv'
  BY <1>1, <1>3 DEF RInv, OrderInv, AlignInv
<1> QED
  BY <1>1, <1>5, <1>6, <1>7, <1>8, SameQuestion DEF RInv

LEMMA MergeLastInv ==
  ASSUME RInv, MergeLast
  PROVE  RInv'
<1>1. /\ stage = "merge" /\ stage' = "split" /\ ranges = {} /\ cur \in Ranges
      /\ merged' = merged \cup {cur} /\ cur' = None
      /\ UNCHANGED <<library, sel, ranges, rest, out>>
  BY DEF MergeLast, RInv, ResolveTypeOK, StageInv
<1>2. Carried' = Carried
  BY <1>1 DEF Carried, Union, Elems, Block, Members
<1>3. ResolveTypeOK'
  BY <1>1 DEF RInv, ResolveTypeOK, Stages, library
<1>4. StageInv' /\ OrderInv' /\ AlignInv'
  BY <1>1 DEF RInv, StageInv, OrderInv, AlignInv
<1> QED
  BY <1>1, <1>2, <1>3, <1>4, SameQuestion DEF RInv

LEMMA NextRangeInv ==
  ASSUME RInv, NEW r \in merged, NextRange(r)
  PROVE  RInv'
<1>1. /\ stage = "split" /\ stage' = "split" /\ rest = None /\ r \in Ranges
      /\ merged' = merged \ {r} /\ rest' = r
      /\ UNCHANGED <<library, sel, ranges, cur, out>>
  BY DEF NextRange, RInv, ResolveTypeOK
<1>2. Carried' = Carried
  BY <1>1 DEF Carried, Union, Elems, Block, Members
<1>3. ResolveTypeOK'
  BY <1>1 DEF RInv, ResolveTypeOK, Stages, library
<1>4. StageInv' /\ OrderInv' /\ AlignInv'
  BY <1>1 DEF RInv, StageInv, OrderInv, AlignInv
<1> QED
  BY <1>1, <1>2, <1>3, <1>4, SameQuestion DEF RInv

\* What a step of Split does to the range at hand.
LEMMA SplitEffect ==
  ASSUME RInv, Split
  PROVE  /\ rest' \in Ranges \cup {None}
         /\ \E p \in Prefixes :
              /\ out' = out \cup {p} /\ p.addr % Size[p.len] = 0
              /\ Elems(rest) = Members(p) \cup Elems(rest')
         /\ Elems(rest') \subseteq Elems(rest) /\ Elems(rest') # Elems(rest)
<1>1. rest \in Ranges
  BY DEF Split, RInv, ResolveTypeOK
<1>2. rest.start % Size[MaxSize(rest)] = 0
  BY <1>1, MaxSizeFits DEF Fits
<1> QED
  BY <1>1, <1>2, SplitRange DEF Split

LEMMA SplitInv ==
  ASSUME RInv, Split
  PROVE  RInv'
<1>1. /\ stage = "split" /\ stage' = "split" /\ rest' \in Ranges \cup {None}
      /\ UNCHANGED <<library, sel, ranges, cur, merged>>
  BY SplitEffect DEF Split
<1>2. PICK p \in Prefixes :
        /\ out' = out \cup {p} /\ p.addr % Size[p.len] = 0
        /\ Elems(rest) = Members(p) \cup Elems(rest')
  BY SplitEffect
<1>3. Block(out') = Block(out) \cup Members(p)
  BY <1>2 DEF Block
<1>4. Carried' = Carried
  <2>1. Union(ranges)' = Union(ranges) /\ Union(merged)' = Union(merged) /\ Elems(cur)' = Elems(cur)
    BY <1>1 DEF Union, Elems
  <2>2. Elems(rest)' = Elems(rest') /\ Block(out)' = Block(out')
    BY DEF Elems, Block, Members
  <2> QED
    BY <1>2, <1>3, <2>1, <2>2 DEF Carried
<1>5. ResolveTypeOK'
  BY <1>1, <1>2 DEF RInv, ResolveTypeOK, Stages, library
<1>6. StageInv' /\ OrderInv' /\ AlignInv'
  BY <1>1, <1>2 DEF RInv, StageInv, OrderInv, AlignInv
<1> QED
  BY <1>1, <1>4, <1>5, <1>6, SameQuestion DEF RInv

LEMMA DoneInv ==
  ASSUME RInv, Done
  PROVE  RInv'
<1>1. Carried' = Carried
  BY DEF Done, Carried, Union, Elems, Block, Members
<1>2. ResolveTypeOK'
  BY DEF Done, RInv, ResolveTypeOK, Stages, library
<1>3. StageInv' /\ OrderInv' /\ AlignInv'
  BY DEF Done, RInv, StageInv, OrderInv, AlignInv
<1> QED
  BY <1>1, <1>2, <1>3, SameQuestion DEF Done, RInv

LEMMA ReturnInv ==
  ASSUME RInv, Return
  PROVE  RInv'
<1>1. ResolveTypeOK'
  BY DEF Return, RInv, ResolveTypeOK, Stages, library
<1>2. StageInv' /\ OrderInv' /\ AlignInv'
  BY DEF Return, RInv, StageInv, OrderInv, AlignInv
<1> QED
  BY <1>1, <1>2, SameQuestion DEF Return, RInv

LEMMA RStutter ==
  ASSUME RInv, UNCHANGED rvars
  PROVE  RInv'
<1>1. Carried' = Carried
  BY DEF rvars, resolving, Carried, Union, Elems, Block, Members
<1>2. ResolveTypeOK' /\ StageInv' /\ OrderInv' /\ AlignInv' /\ AlignInv'
  BY DEF rvars, resolving, library, RInv, ResolveTypeOK, Stages, StageInv, OrderInv, AlignInv
<1>3. UNCHANGED <<library, sel, stage>>
  BY DEF rvars, resolving
<1> QED
  BY <1>1, <1>2, <1>3, SameQuestion DEF RInv

LEMMA RNext ==
  ASSUME RInv, [ResolveNext]_rvars
  PROVE  RInv'
<1>1. CASE \E s \in Selectors : Resolve(s)
  BY <1>1, ResolveStepInv
<1>2. CASE \E r \in ranges : Merge(r)
  BY <1>2, MergeInv
<1>3. CASE MergeLast
  BY <1>3, MergeLastInv
<1>4. CASE \E r \in merged : NextRange(r)
  BY <1>4, NextRangeInv
<1>5. CASE Split
  BY <1>5, SplitInv
<1>6. CASE Done
  BY <1>6, DoneInv
<1>7. CASE Return
  BY <1>7, ReturnInv
<1>8. CASE UNCHANGED rvars
  BY <1>8, RStutter
<1> QED
  BY <1>1, <1>2, <1>3, <1>4, <1>5, <1>6, <1>7, <1>8 DEF ResolveNext, ResolveStep

LEMMA RInvariant == ResolveSpec => []RInv
<1>1. RInv /\ [ResolveNext]_rvars => RInv'
  BY RNext
<1> QED
  BY RInit, <1>1, PTL DEF ResolveSpec

------------------------------------------------------------------------------
(* Theorems *)

\* The variables of Resolve keep their types, ranges never run backwards and
\* prefixes never leave the address space, for every width of an address.
THEOREM ResolveTypeCorrect == ResolveSpec => []ResolveTypeOK
<1>1. RInv => ResolveTypeOK
  BY DEF RInv
<1> QED
  BY RInvariant, <1>1, PTL

LEMMA ExactWhenDone == RInv => ResolveIsExact
<1> SUFFICES ASSUME RInv, stage = "done" PROVE Block(out) = Wanted(sel)
  BY DEF ResolveIsExact
<1>1. Carried = Block(out)
  BY DEF RInv, StageInv, Carried, Union, Elems
<1> QED
  BY <1>1 DEF RInv

\* Whatever ranges the library holds, overlapping, nested, adjacent or up to the
\* last address, the prefixes of a scoped ban cover what its selector names, exactly.
THEOREM ResolveExact == ResolveSpec => []ResolveIsExact
BY RInvariant, ExactWhenDone, PTL

LEMMA RulesDecide == RInv => RulesWin
<1> SUFFICES ASSUME RInv, stage = "done", NEW o \in rules, NEW a \in o.start .. o.end
             PROVE  a \in Block(out) <=>
                      \E x \in rules : a \in x.start .. x.end /\ Matches(x, sel)
  BY DEF RulesWin
<1>1. Block(out) = Wanted(sel)
  BY ExactWhenDone DEF ResolveIsExact
<1>2. PICK base \in Libraries : entries = Overlay(base, rules)
  BY DEF RInv, OverlayInv
<1>3. base \subseteq Entries /\ rules \subseteq Entries
  BY ResolveAssumption DEF ResolveAssumption, RInv, ResolveTypeOK
<1>4. ASSUME NEW x \in base, ~OverlapsAny(x, rules) PROVE a \notin x.start .. x.end
  BY <1>3, <1>4, TopIsNat DEF OverlapsAny, Entries, Address
<1>5. a \in Wanted(sel) <=> \E x \in entries : Matches(x, sel) /\ a \in x.start .. x.end
  BY DEF Wanted
<1> QED
  BY <1>1, <1>2, <1>4, <1>5 DEF Overlay

\* "Local rules take precedence over every source": under a rule nothing of the
\* library shows through, whichever entries it overlaps.
THEOREM RulesTakePrecedence == ResolveSpec => []RulesWin
BY RInvariant, RulesDecide, PTL

LEMMA StepShrinks ==
  ASSUME RInv, [ResolveNext]_rvars, rest # None
  PROVE  rest' = rest \/ (Elems(rest') \subseteq Elems(rest) /\ Elems(rest') # Elems(rest))
<1>1. stage = "split"
  BY DEF RInv, StageInv, ResolveTypeOK, Stages
<1>2. CASE Split
  BY <1>2, SplitEffect
<1>3. CASE UNCHANGED rvars
  BY <1>3 DEF rvars, resolving
<1> QED
  BY <1>1, <1>2, <1>3
     DEF ResolveNext, ResolveStep, Resolve, Merge, MergeLast, NextRange, Done, Return

\* Each round of rangeToCIDRs leaves a smaller range, so that it ends, also for a
\* range that ends with the last address.
THEOREM SplitTerminates == ResolveSpec => SplitShrinks
<1>1. RInv /\ [ResolveNext]_rvars =>
        [rest # None =>
           rest' = rest \/ (Elems(rest') \subseteq Elems(rest) /\ Elems(rest') # Elems(rest))]_rest
  BY StepShrinks
<1> QED
  BY RInvariant, <1>1, PTL DEF ResolveSpec, SplitShrinks

------------------------------------------------------------------------------
(* No prefix too many *)

\* The block that a prefix would be half of, if it were one bit shorter.
Parent(p) == p.addr .. (p.addr + Size[p.len - 1] - 1)

\* A prefix that could grow at its start was not allowed to: not all is wanted there.
WidestInv ==
  \A p \in out :
    p.len > 0 /\ p.addr % Size[p.len - 1] = 0 => ~ (Parent(p) \subseteq Wanted(sel))

\* After a merged range comes an address nobody wants, and merged ranges end
\* before the one that grows.
GapInv ==
  /\ \A r \in merged : r.end + 1 \notin Wanted(sel)
  /\ rest # None => rest.end + 1 \notin Wanted(sel)
  /\ stage = "merge" => \A r \in merged : cur # None /\ r.end + 1 < cur.start

\* No address is in two ranges, in two prefixes or in one of each.
ApartInv ==
  /\ \A r, q \in merged : r # q => Elems(r) \cap Elems(q) = {}
  /\ Elems(rest) \cap Union(merged) = {}
  /\ Block(out) \cap (Elems(rest) \cup Union(merged)) = {}
  /\ \A p, q \in out : p # q => Members(p) \cap Members(q) = {}

CInv == WidestInv /\ GapInv /\ ApartInv

LEMMA RangeEnds ==
  ASSUME NEW r \in Ranges
  PROVE  /\ r.start \in Nat /\ r.end \in Nat /\ r.start <= r.end /\ r.end <= Top /\ r # None
         /\ Elems(r) = r.start .. r.end
BY TopIsNat, ResolveAssumption DEF Ranges, Address, ResolveAssumption, Elems

\* The range that grows is complete when those that follow start beyond its end.
LEMMA GapBehind ==
  ASSUME RInv, CInv, stage = "merge", cur # None,
         \A q \in ranges : cur.end + 1 < q.start
  PROVE  /\ cur.end + 1 \notin Wanted(sel)
         /\ \A m \in merged : Elems(m) \cap Elems(cur) = {}
<1>1. cur \in Ranges /\ ranges \subseteq Ranges /\ merged \subseteq Ranges
  BY DEF RInv, ResolveTypeOK
<1>2. cur.start \in Nat /\ cur.end \in Nat /\ cur.start <= cur.end
      /\ Elems(cur) = cur.start .. cur.end
  BY <1>1, RangeEnds
<1>3. ASSUME NEW q \in ranges PROVE cur.end + 1 \notin Elems(q)
  BY <1>1, <1>2, RangeEnds
<1>4. ASSUME NEW m \in merged
      PROVE  cur.end + 1 \notin Elems(m) /\ Elems(m) \cap Elems(cur) = {}
  <2>1. m.end \in Nat /\ m.start \in Nat /\ m.end + 1 < cur.start /\ Elems(m) = m.start .. m.end
    BY <1>1, RangeEnds DEF CInv, GapInv
  <2> QED
    BY <1>2, <2>1
<1>5. cur.end + 1 \notin Elems(cur)
  BY <1>2
<1>6. Elems(rest) = {} /\ Block(out) = {}
  BY DEF RInv, StageInv, Elems, Block
<1>7. cur.end + 1 \notin Carried
  BY <1>3, <1>4, <1>5, <1>6 DEF Carried, Union
<1> QED
  BY <1>4, <1>7 DEF RInv

LEMMA SameWanted ==
  ASSUME UNCHANGED <<library, sel>>
  PROVE  Wanted(sel)' = Wanted(sel)
BY DEF Wanted, Matches, library

LEMMA MergeCover ==
  ASSUME RInv, CInv, NEW r \in ranges, Merge(r)
  PROVE  CInv'
<1>1. /\ stage = "merge" /\ stage' = "merge"
      /\ ranges \subseteq Ranges /\ merged \subseteq Ranges /\ cur \in Ranges \cup {None}
      /\ r \in Ranges /\ \A q \in ranges : r.start <= q.start
      /\ rest = None /\ rest' = None /\ out = {} /\ out' = {}
      /\ UNCHANGED <<library, sel>>
  BY DEF Merge, RInv, ResolveTypeOK, StageInv
<1>2. Wanted(sel)' = Wanted(sel)
  BY <1>1, SameWanted
<1>3. r # None
  BY <1>1, RangeEnds
<1>4. CASE cur = None /\ cur' = r /\ UNCHANGED merged
  <2>1. merged = {}
    BY <1>1, <1>4 DEF CInv, GapInv
  <2> QED
    BY <1>1, <1>4, <2>1 DEF CInv, WidestInv, GapInv, ApartInv, Elems, Union, Block
<1>5. CASE /\ cur # None /\ Touches(cur, r)
           /\ cur' = [cur EXCEPT !.end = Longer(cur.end, r.end)] /\ UNCHANGED merged
  <2>1. cur \in Ranges /\ cur.start <= r.start
    BY <1>1, <1>5 DEF RInv, OrderInv
  <2>2. cur' \in Ranges /\ cur'.start = cur.start
    BY <1>1, <1>5, <2>1, TouchingRanges DEF Ranges
  <2>3. \A m \in merged : cur' # None /\ m.end + 1 < cur'.start
    BY <1>1, <2>2, RangeEnds DEF CInv, GapInv
  <2> QED
    BY <1>1, <1>2, <1>5, <2>3 DEF CInv, WidestInv, GapInv, ApartInv, Elems, Union, Block, Members
<1>6. CASE cur # None /\ ~Touches(cur, r) /\ merged' = merged \cup {cur} /\ cur' = r
  <2>1. cur \in Ranges
    BY <1>1, <1>6
  <2>2. cur.end + 1 < r.start
    BY <1>1, <1>6, <2>1, RangeEnds DEF Touches
  <2>3. \A q \in ranges : cur.end + 1 < q.start
    BY <1>1, <2>1, <2>2, RangeEnds
  <2>4. cur.end + 1 \notin Wanted(sel) /\ \A m \in merged : Elems(m) \cap Elems(cur) = {}
    BY <1>1, <1>6, <2>3, GapBehind
  <2>5. \A m \in merged : m.end + 1 < r.start
    <3>1. \A m \in merged : m.end + 1 < cur.start
      BY <1>1 DEF CInv, GapInv
    <3> QED
      BY <1>1, <2>1, <2>2, <3>1, RangeEnds
  <2>6. WidestInv' /\ GapInv'
    BY <1>1, <1>2, <1>3, <1>6, <2>2, <2>4, <2>5 DEF CInv, WidestInv, GapInv
  <2>7. ApartInv'
    <3>1. \A a, q \in merged' : a # q => Elems(a) \cap Elems(q) = {}
      BY <1>6, <2>4 DEF CInv, ApartInv
    <3>2. Elems(rest)' = {} /\ Block(out)' = {}
      BY <1>1 DEF Elems, Block
    <3> QED
      BY <1>1, <3>1, <3>2 DEF ApartInv, Elems
  <2> QED
    BY <2>6, <2>7 DEF CInv
<1> QED
  BY <1>4, <1>5, <1>6 DEF Merge

LEMMA MergeLastCover ==
  ASSUME RInv, CInv, MergeLast
  PROVE  CInv'
<1>1. /\ stage = "merge" /\ stage' = "split" /\ ranges = {} /\ cur \in Ranges /\ cur # None
      /\ merged' = merged \cup {cur}
      /\ rest = None /\ rest' = None /\ out = {} /\ out' = {}
      /\ UNCHANGED <<library, sel>>
  BY DEF MergeLast, RInv, ResolveTypeOK, StageInv
<1>2. cur.end + 1 \notin Wanted(sel) /\ \A m \in merged : Elems(m) \cap Elems(cur) = {}
  BY <1>1, GapBehind
<1>3. WidestInv' /\ GapInv'
  BY <1>1, <1>2, SameWanted DEF CInv, WidestInv, GapInv
<1>4. \A a, q \in merged' : a # q => Elems(a) \cap Elems(q) = {}
  BY <1>1, <1>2 DEF CInv, ApartInv
<1>5. Elems(rest)' = {} /\ Block(out)' = {}
  BY <1>1 DEF Elems, Block
<1>6. ApartInv'
  BY <1>1, <1>4, <1>5 DEF ApartInv, Elems
<1> QED
  BY <1>3, <1>6 DEF CInv

LEMMA NextRangeCover ==
  ASSUME RInv, CInv, NEW r \in merged, NextRange(r)
  PROVE  CInv'
<1>1. /\ stage' = "split" /\ rest = None /\ r \in Ranges /\ r # None
      /\ merged' = merged \ {r} /\ rest' = r
      /\ UNCHANGED <<library, sel, out>>
  BY RangeEnds DEF NextRange, RInv, ResolveTypeOK
<1>2. WidestInv' /\ GapInv'
  BY <1>1, SameWanted DEF CInv, WidestInv, GapInv, Parent
<1>3. /\ Elems(rest)' = Elems(r) /\ Union(merged) = Elems(r) \cup Union(merged')
      /\ Block(out)' = Block(out)
  BY <1>1 DEF Elems, Union, Block, Members
<1>4. Elems(r) \cap Union(merged') = {}
  BY <1>1 DEF CInv, ApartInv, Union
<1>5. ApartInv'
  BY <1>1, <1>3, <1>4 DEF CInv, ApartInv, Elems, Union, Members
<1> QED
  BY <1>2, <1>5 DEF CInv

\* The prefix split off is a part of the range, apart from what is left.
LEMMA SplitParts ==
  ASSUME RInv, Split, NEW p, p = [addr |-> rest.start, len |-> MaxSize(rest)]
  PROVE  /\ out' = out \cup {p}
         /\ rest' \in Ranges \cup {None} /\ (rest' # None => rest'.end = rest.end)
         /\ Members(p) \subseteq Elems(rest) /\ Elems(rest') \subseteq Elems(rest)
         /\ Members(p) \cap Elems(rest') = {}
<1>1. rest \in Ranges /\ out' = out \cup {p}
  BY DEF Split, RInv, ResolveTypeOK
<1>2. /\ rest' \in Ranges \cup {None}
      /\ Elems(rest) = Members(p) \cup Elems(rest')
  BY <1>1, SplitRange DEF Split
<1>3. rest' = None \/ rest' = [start |-> rest.start + Size[MaxSize(rest)], end |-> rest.end]
  BY DEF Split
<1>4. rest' # None => rest'.end = rest.end /\ rest'.start = rest.start + Size[MaxSize(rest)]
  BY <1>3
<1>5. Members(p) \cap Elems(rest') = {}
  <2>1. CASE rest' = None
    BY <2>1 DEF Elems
  <2>2. CASE rest' # None
    <3>1. Elems(rest') = rest'.start .. rest'.end
      BY <1>2, <2>2, RangeEnds
    <3>2. p.addr = rest.start /\ p.len = MaxSize(rest)
      OBVIOUS
    <3>3. rest.start \in Nat /\ rest'.start \in Nat
      BY <1>1, <1>2, <2>2, RangeEnds
    <3>4. Size[MaxSize(rest)] \in Nat
      BY <1>1, MaxSizeFits, ResolveAssumption DEF ResolveAssumption
    <3>5. Members(p) = rest.start .. (rest.start + Size[MaxSize(rest)] - 1)
      BY <3>2 DEF Members
    <3> QED
      BY <1>4, <2>2, <3>1, <3>3, <3>4, <3>5
  <2> QED
    BY <2>1, <2>2
<1> QED
  BY <1>1, <1>2, <1>4, <1>5

LEMMA SplitCover ==
  ASSUME RInv, CInv, Split
  PROVE  CInv'
<1> DEFINE n == MaxSize(rest)
<1>1. PICK p : p = [addr |-> rest.start, len |-> n]
  OBVIOUS
<1>2. /\ stage = "split" /\ stage' = "split" /\ rest # None /\ rest \in Ranges
      /\ UNCHANGED <<library, sel, merged>>
  BY DEF Split, RInv, ResolveTypeOK
<1>3. /\ out' = out \cup {p}
      /\ rest' \in Ranges \cup {None} /\ (rest' # None => rest'.end = rest.end)
      /\ Members(p) \subseteq Elems(rest) /\ Elems(rest') \subseteq Elems(rest)
      /\ Members(p) \cap Elems(rest') = {}
  BY <1>1, SplitParts
<1>4. Wanted(sel)' = Wanted(sel)
  BY <1>2, SameWanted
<1>5. GapInv'
  BY <1>2, <1>3, <1>4 DEF CInv, GapInv
<1>6. n > 0 /\ rest.start % Size[n - 1] = 0 => ~ (Parent(p) \subseteq Wanted(sel))
  <2> SUFFICES ASSUME n > 0, rest.start % Size[n - 1] = 0
               PROVE  ~ (Parent(p) \subseteq Wanted(sel))
    OBVIOUS
  <2>1. /\ n \in 0 .. Width /\ Size[n] <= rest.end - rest.start + 1
        /\ \A m \in 0 .. Width : Fits(m, rest) => n <= m
    BY <1>2, MaxSizeFits DEF Fits
  <2>2. Width \in Nat /\ Size \in [0 .. Width -> Nat \ {0}]
    BY ResolveAssumption DEF ResolveAssumption
  <2> HIDE DEF n
  <2>3. n - 1 \in 0 .. Width /\ ~ (n <= n - 1)
    BY <2>1, <2>2
  <2>4. ~ (Size[n - 1] <= rest.end - rest.start + 1)
    BY <2>1, <2>3 DEF Fits
  <2>5. rest.start \in Nat /\ rest.end \in Nat /\ rest.start <= rest.end
    BY <1>2, RangeEnds
  <2>6. Size[n - 1] \in Nat
    BY <2>2, <2>3
  <2>7. rest.end + 1 \in rest.start .. (rest.start + Size[n - 1] - 1)
    BY <2>4, <2>5, <2>6
  <2>8. Parent(p) = rest.start .. (rest.start + Size[n - 1] - 1)
    BY <1>1 DEF Parent
  <2> QED
    BY <1>2, <2>7, <2>8 DEF CInv, GapInv
<1>7. WidestInv'
  <2>1. p.addr = rest.start /\ p.len = n
    BY <1>1
  <2> HIDE DEF n
  <2> QED
    BY <1>3, <1>4, <1>6, <2>1 DEF CInv, WidestInv, Parent
<1>8. Block(out') = Block(out) \cup Members(p)
  BY <1>3 DEF Block
<1>9. ASSUME NEW q \in out PROVE Members(q) \cap Members(p) = {}
  BY <1>3 DEF CInv, ApartInv, Block
<1>10. ApartInv'
  <2>1. Block(out)' = Block(out') /\ Elems(rest)' = Elems(rest') /\ Union(merged)' = Union(merged)
    BY <1>2 DEF Block, Members, Elems, Union
  <2>2. Elems(rest') \cap Union(merged) = {} /\ Members(p) \cap Union(merged) = {}
    BY <1>3 DEF CInv, ApartInv
  <2>3. Block(out') \cap (Elems(rest') \cup Union(merged)) = {}
    BY <1>3, <1>8, <2>2 DEF CInv, ApartInv
  <2>4. \A a, q \in out' : a # q => Members(a) \cap Members(q) = {}
    BY <1>3, <1>9 DEF CInv, ApartInv
  <2> QED
    BY <1>2, <2>1, <2>2, <2>3, <2>4 DEF CInv, ApartInv, Elems, Members
<1> QED
  BY <1>5, <1>7, <1>10 DEF CInv

LEMMA CNext ==
  ASSUME RInv, CInv, [ResolveNext]_rvars
  PROVE  CInv'
<1>1. ASSUME merged' = {}, rest' = None, out' = {}, stage' # "merge" \/ merged' = {}
      PROVE  CInv'
  BY <1>1 DEF CInv, WidestInv, GapInv, ApartInv, Elems, Union, Block
<1>2. CASE \E s \in Selectors : Resolve(s)
  BY <1>1, <1>2 DEF Resolve
<1>3. CASE \E r \in ranges : Merge(r)
  BY <1>3, MergeCover
<1>4. CASE MergeLast
  BY <1>4, MergeLastCover
<1>5. CASE \E r \in merged : NextRange(r)
  BY <1>5, NextRangeCover
<1>6. CASE Split
  BY <1>6, SplitCover
<1>7. CASE Return
  BY <1>1, <1>7 DEF Return, RInv, StageInv
<1>8. CASE Done \/ UNCHANGED rvars
  <2>1. /\ UNCHANGED <<library, sel, cur, merged, rest, out>>
        /\ stage' = "merge" => stage = "merge"
    BY <1>8 DEF Done, rvars, resolving
  <2> QED
    BY <2>1, SameWanted
    DEF CInv, WidestInv, GapInv, ApartInv, Parent, Elems, Union, Block, Members
<1> QED
  BY <1>2, <1>3, <1>4, <1>5, <1>6, <1>7, <1>8 DEF ResolveNext, ResolveStep

\* The quotient of a division.
LEMMA Quotient ==
  ASSUME NEW a \in Nat, NEW s \in Nat \ {0}
  PROVE  /\ a \div s \in Nat
         /\ s * (a \div s) <= a /\ a < s * (a \div s) + s
         /\ a - s * (a \div s) = a % s
OBVIOUS

\* Comparing multiples of s.
LEMMA Cancel ==
  ASSUME NEW x \in Int, NEW s \in Nat \ {0}
  PROVE  (s * x > 0 - s => x >= 0) /\ (s * x < 2 * s => x < 2) /\ (s * x > 0 => x > 0)
<1>1. ASSUME x <= 0 - 1 PROVE s * x <= 0 - s
  <2>1. s * (0 - 1 - x) >= 0
    BY <1>1
  <2> QED
    BY <2>1
<1>2. ASSUME x >= 2 PROVE s * x >= 2 * s
  <2>1. s * (x - 2) >= 0
    BY <1>2
  <2> QED
    BY <2>1
<1>3. s * x > 0 => x > 0
  OBVIOUS
<1> QED
  BY <1>1, <1>2, <1>3

\* Two multiples of s in one block of 2 * s: the first begins it, the other follows.
LEMMA Halves ==
  ASSUME NEW a \in Nat, NEW b \in Nat, NEW s \in Nat \ {0}, NEW t, t = 2 * s,
         a % s = 0, b % s = 0, a < b, a \div t = b \div t
  PROVE  a % t = 0 /\ b = a + s
<1> DEFINE i == a \div s
           j == b \div s
           k == a \div t
<1>1. t \in Nat \ {0}
  OBVIOUS
<1>2. /\ i \in Nat /\ j \in Nat /\ k \in Nat
      /\ a = s * i /\ b = s * j
      /\ t * k <= a /\ b < t * k + t /\ a - t * k = a % t
  <2>1. i \in Nat /\ a - s * i = 0
    BY Quotient
  <2>2. j \in Nat /\ b - s * j = 0
    BY Quotient
  <2>3. k \in Nat /\ t * k <= a /\ a - t * k = a % t
    BY <1>1, Quotient
  <2>4. b < t * k + t
    BY <1>1, Quotient
  <2> HIDE DEF i, j, k
  <2> QED
    BY <1>1, <2>1, <2>2, <2>3, <2>4
<1> HIDE DEF i, j, k
<1>3. t * k = s * (2 * k)
  BY <1>2
<1>4. s * (i - 2 * k) >= 0 /\ s * (j - 2 * k) < 2 * s /\ s * (j - i) > 0
  <2>1. s * (i - 2 * k) = s * i - s * (2 * k) /\ s * (j - 2 * k) = s * j - s * (2 * k)
        /\ s * (j - i) = s * j - s * i
    BY <1>2
  <2> QED
    BY <1>1, <1>2, <1>3, <2>1
<1>5. i - 2 * k >= 0 /\ j - 2 * k < 2 /\ j - i > 0
  <2>1. i - 2 * k \in Int /\ j - 2 * k \in Int /\ j - i \in Int
    BY <1>2
  <2> QED
    BY <1>4, <2>1, Cancel
<1>6. i = 2 * k /\ j = 2 * k + 1
  BY <1>2, <1>5
<1>7. s * (2 * k + 1) = s * (2 * k) + s
  BY <1>2
<1> QED
  BY <1>1, <1>2, <1>3, <1>6, <1>7

LEMMA MinimalWhenDone == RInv /\ CInv => CoverIsMinimal
<1> SUFFICES ASSUME RInv, CInv, stage = "done", NEW p \in out, NEW q \in out, p # q
             PROVE  /\ Members(p) \cap Members(q) = {}
                    /\ ~ /\ p.len = q.len /\ p.len > 0
                         /\ p.addr \div Size[p.len - 1] = q.addr \div Size[q.len - 1]
  BY DEF CoverIsMinimal
<1>1. Members(p) \cap Members(q) = {}
  BY DEF CInv, ApartInv
<1>2. Block(out) = Wanted(sel)
  BY ExactWhenDone DEF ResolveIsExact
<1>3. ASSUME NEW x \in out, NEW y \in out, x.len = y.len, x.len > 0, x.addr < y.addr,
             x.addr \div Size[x.len - 1] = y.addr \div Size[x.len - 1]
      PROVE  FALSE
  <2> DEFINE s == Size[x.len]
             t == Size[x.len - 1]
  <2>1. x.addr \in Nat /\ y.addr \in Nat /\ x.len \in 1 .. Width
    <3>1. x \in Prefixes /\ y \in Prefixes
      BY DEF RInv, ResolveTypeOK
    <3> QED
      BY <1>3, <3>1, TopIsNat, ResolveAssumption DEF ResolveAssumption, Prefixes, Address
  <2>2. s \in Nat \ {0} /\ t = 2 * s
    <3>1. x.len \in 0 .. Width /\ Size \in [0 .. Width -> Nat \ {0}]
      BY <2>1, ResolveAssumption DEF ResolveAssumption
    <3>2. \A n \in 1 .. Width : Size[n - 1] = 2 * Size[n]
      BY ResolveAssumption DEF ResolveAssumption
    <3>3. t = 2 * s
      BY <2>1, <3>2
    <3> QED
      BY <3>1, <3>3
  <2>3. x.addr % s = 0 /\ y.addr % s = 0
    BY <1>3 DEF RInv, AlignInv
  <2>4. x.addr \div t = y.addr \div t
    BY <1>3
  <2>5. Members(x) = x.addr .. (x.addr + s - 1) /\ Members(y) = y.addr .. (y.addr + s - 1)
        /\ Parent(x) = x.addr .. (x.addr + t - 1)
    BY <1>3 DEF Members, Parent
  <2> HIDE DEF s, t
  <2>6. x.addr % t = 0 /\ y.addr = x.addr + s
    <3>1. PICK a \in Nat, b \in Nat : a = x.addr /\ b = y.addr
      BY <2>1
    <3>2. a < b /\ a % s = 0 /\ b % s = 0 /\ a \div t = b \div t
      BY <1>3, <2>3, <2>4, <3>1
    <3>3. a % t = 0 /\ b = a + s
      BY <2>2, <3>2, Halves
    <3> QED
      BY <3>1, <3>3
  <2>7. Parent(x) \subseteq Members(x) \cup Members(y)
    BY <2>1, <2>2, <2>5, <2>6
  <2>8. Parent(x) \subseteq Wanted(sel)
    BY <1>2, <2>7 DEF Block
  <2> QED
    BY <1>3, <2>6, <2>8 DEF CInv, WidestInv, t
<1>4. ASSUME p.len = q.len PROVE p.addr # q.addr /\ p.addr \in Nat /\ q.addr \in Nat
  BY <1>4, TopIsNat DEF RInv, ResolveTypeOK, Prefixes, Address
<1>5. p.len = q.len => p.addr < q.addr \/ q.addr < p.addr
  BY <1>4
<1> QED
  BY <1>1, <1>3, <1>5

\* No address is in two prefixes of a scoped ban and no two of them could be one, for
\* addresses of any width and any ranges: a prefix that is the first half of a block
\* was split off because its range ends inside that block, and behind it lies a gap.
THEOREM ResolveMinimal == ResolveSpec => []CoverIsMinimal
<1>1. ResolveInit => CInv
  BY DEF ResolveInit, Idle, CInv, WidestInv, GapInv, ApartInv, Elems, Union, Block
<1>2. RInv /\ CInv /\ [ResolveNext]_rvars => CInv'
  BY CNext
<1> QED
  BY RInvariant, MinimalWhenDone, <1>1, <1>2, PTL DEF ResolveSpec
=============================================================================
