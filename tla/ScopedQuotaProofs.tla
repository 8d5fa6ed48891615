-------------------------- MODULE ScopedQuotaProofs --------------------------
(***************************************************************************)
(* Theorems about the quota of ScopedBans, for any number of bans and      *)
(* prefixes, and any number of requests at once that do not collide.  What *)
(* the open bans hold is the number of entries they claim, so that a sum   *)
(* over bans changes by the claims of the one ban a step touches.  The     *)
(* inductive invariant says what the tracker counts for each ban at every  *)
(* step of its handler.                                                    *)
(***************************************************************************)
EXTENDS ScopedBansProofs, FiniteSetTheorems

------------------------------------------------------------------------------
(* Sums over bans *)

MaxCount == Cardinality(Prefixes)

LEMMA PrefixCounts ==
  /\ MaxCount \in Nat
  /\ \A ps \in SUBSET Prefixes : Cardinality(ps) \in 0 .. MaxCount
<1>1. IsFiniteSet(Prefixes)
  BY ScopedAssumption DEF ScopedAssumption
<1>2. MaxCount \in Nat
  BY <1>1, FS_CardinalityType DEF MaxCount
<1>3. ASSUME NEW ps \in SUBSET Prefixes
      PROVE  Cardinality(ps) \in 0 .. MaxCount
  <2>1. IsFiniteSet(ps) /\ Cardinality(ps) <= MaxCount
    BY <1>1, FS_Subset DEF MaxCount
  <2>2. Cardinality(ps) \in Nat
    BY <2>1, FS_CardinalityType
  <2> QED
    BY <1>2, <2>1, <2>2
<1> QED
  BY <1>2, <1>3

LEMMA ClaimsFinite ==
  ASSUME NEW S \in SUBSET Bans, NEW f \in [Bans -> 0 .. MaxCount]
  PROVE  IsFiniteSet(Claims(S, f)) /\ Cardinality(Claims(S, f)) \in Nat
<1> DEFINE Box == Bans \X (1 .. MaxCount)
<1>1. IsFiniteSet(Box)
  <2>1. IsFiniteSet(Bans) /\ IsFiniteSet(1 .. MaxCount)
    BY PrefixCounts, FS_Interval, ScopedAssumption DEF ScopedAssumption
  <2> QED
    BY <2>1, FS_Product
<1>2. Claims(S, f) \in SUBSET Box
  <2>1. ASSUME NEW b \in S, NEW i \in 1 .. f[b]
        PROVE  b \in Bans /\ i \in 1 .. MaxCount
    <3>1. f[b] \in 0 .. MaxCount
      OBVIOUS
    <3> QED
      BY <3>1, PrefixCounts
  <2> QED
    BY <2>1 DEF Claims
<1>3. IsFiniteSet(Claims(S, f))
  <2> HIDE DEF Box
  <2> QED BY <1>1, <1>2, FS_Subset
<1> QED
  BY <1>3, FS_CardinalityType

\* Taking one ban out of a sum takes out what it counts.
LEMMA ClaimsSplit ==
  ASSUME NEW S \in SUBSET Bans, NEW f \in [Bans -> 0 .. MaxCount], NEW b \in S
  PROVE  Cardinality(Claims(S, f)) = Cardinality(Claims(S \ {b}, f)) + f[b]
<1> DEFINE Rest == Claims(S \ {b}, f)
           Part == {b} \X (1 .. f[b])
<1>1. f[b] \in Nat
  BY PrefixCounts
<1>2. IsFiniteSet(Rest) /\ Cardinality(Rest) \in Nat
  BY ClaimsFinite
<1>3. IsFiniteSet(Part) /\ Cardinality(Part) = f[b]
  <2>1. IsFiniteSet({b}) /\ Cardinality({b}) = 1
    BY FS_Singleton
  <2>2. IsFiniteSet(1 .. f[b]) /\ Cardinality(1 .. f[b]) = f[b]
    BY <1>1, FS_Interval
  <2>3. IsFiniteSet(Part) /\ Cardinality(Part) = Cardinality({b}) * Cardinality(1 .. f[b])
    BY <2>1, <2>2, FS_Product
  <2> QED
    BY <1>1, <2>1, <2>2, <2>3
<1>4. Claims(S, f) = Rest \cup Part
  BY DEF Claims
<1>5. Rest \cap Part = {}
  BY DEF Claims
<1>6. Cardinality(Rest \cap Part) = 0
  BY <1>5, FS_EmptySet
<1> HIDE DEF Rest, Part
<1>7. Cardinality(Rest \cup Part) = Cardinality(Rest) + Cardinality(Part) - 0
  BY <1>2, <1>3, <1>6, FS_Union
<1> QED
  BY <1>1, <1>2, <1>3, <1>4, <1>7 DEF Rest

\* A sum depends on what its bans count only.
LEMMA ClaimsSame ==
  ASSUME NEW S, NEW f, NEW g, \A b \in S : f[b] = g[b]
  PROVE  Claims(S, f) = Claims(S, g)
BY DEF Claims

\* What becomes of a sum when one ban counts differently.
LEMMA ClaimsChange ==
  ASSUME NEW S \in SUBSET Bans, NEW b \in Bans,
         NEW f \in [Bans -> 0 .. MaxCount], NEW g \in [Bans -> 0 .. MaxCount],
         \A c \in Bans \ {b} : g[c] = f[c]
  PROVE  /\ Cardinality(Claims(S, f)) \in Nat /\ Cardinality(Claims(S, g)) \in Nat
         /\ f[b] \in Nat /\ g[b] \in Nat
         /\ b \notin S => Cardinality(Claims(S, g)) = Cardinality(Claims(S, f))
         /\ b \in S =>
              /\ f[b] <= Cardinality(Claims(S, f))
              /\ Cardinality(Claims(S, g)) = (Cardinality(Claims(S, f)) - f[b]) + g[b]
<1>1. f[b] \in Nat /\ g[b] \in Nat
  BY PrefixCounts
<1>2. Cardinality(Claims(S, f)) \in Nat /\ Cardinality(Claims(S, g)) \in Nat
  BY ClaimsFinite
<1>3. CASE b \notin S
  <2>1. Claims(S, f) = Claims(S, g)
    BY <1>3, ClaimsSame
  <2> QED
    BY <1>1, <1>2, <1>3, <2>1
<1>4. CASE b \in S
  <2>1. /\ Cardinality(Claims(S, f)) = Cardinality(Claims(S \ {b}, f)) + f[b]
        /\ Cardinality(Claims(S, g)) = Cardinality(Claims(S \ {b}, g)) + g[b]
    BY <1>4, ClaimsSplit
  <2>2. Claims(S \ {b}, f) = Claims(S \ {b}, g)
    <3>1. \A c \in S \ {b} : f[c] = g[c]
      OBVIOUS
    <3> QED
      BY <3>1, ClaimsSame
  <2>3. Cardinality(Claims(S \ {b}, f)) \in Nat
    BY ClaimsFinite
  <2> QED
    BY <1>1, <1>2, <1>4, <2>1, <2>2, <2>3
<1> QED
  BY <1>3, <1>4

\* More is claimed where every ban counts more.
LEMMA ClaimsGrow ==
  ASSUME NEW S \in SUBSET Bans, NEW R \in SUBSET S,
         NEW f \in [Bans -> 0 .. MaxCount], NEW g \in [Bans -> 0 .. MaxCount],
         \A c \in R : f[c] <= g[c]
  PROVE  Cardinality(Claims(R, f)) <= Cardinality(Claims(S, g))
<1>1. Claims(R, f) \subseteq Claims(S, g)
  <2> SUFFICES ASSUME NEW c \in R, NEW i \in 1 .. f[c]
               PROVE  i \in 1 .. g[c]
    BY DEF Claims
  <2>1. f[c] \in Nat /\ g[c] \in Nat /\ f[c] <= g[c]
    BY PrefixCounts
  <2> QED
    BY <2>1
<1> QED
  BY <1>1, ClaimsFinite, FS_Subset

------------------------------------------------------------------------------
(* Type correctness *)

CountInv ==
  /\ count \in [Bans -> 0 .. MaxCount]
  /\ num \in [Workers -> 0 .. MaxCount]
  /\ used \in [Pools -> Nat]

RestTypes ==
  /\ ladder \in [Hosts -> Levels \cup {None}]
  /\ protected \in SUBSET (Hosts \cup Prefixes)
  /\ decideMu \in Workers \cup {None}
  /\ failed \in BOOLEAN
  /\ known \in SUBSET Hosts

LEMMA HeldIsNat ==
  ASSUME count \in [Bans -> 0 .. MaxCount], NEW pool
  PROVE  Held(pool) \in Nat
<1>1. Holders(pool) \in SUBSET Bans
  BY DEF Holders
<1> QED
  BY <1>1, ClaimsFinite DEF Held

LEMMA PoolIsPool == \A b : Pool(b) \in Pools
BY DEF Pool, Pools

LEMMA MinusIsNat ==
  ASSUME NEW a \in Nat, NEW b \in Nat
  PROVE  Minus(a, b) \in Nat
BY DEF Minus

\* What the tracker's two calls do to its counters.
LEMMA TrackerTypes ==
  ASSUME used \in [Pools -> Nat], NEW pool \in Pools, NEW n \in Nat,
         Reserve(pool, n) \/ Release(pool, n) \/ UNCHANGED used
  PROVE  used' \in [Pools -> Nat]
<1>1. CASE Reserve(pool, n)
  BY <1>1 DEF Reserve
<1>2. CASE Release(pool, n)
  <2>1. Minus(used[pool], n) \in Nat
    BY MinusIsNat
  <2> QED
    BY <1>2, <2>1 DEF Release
<1> QED
  BY <1>1, <1>2

LEMMA LevelsClosed ==
  ASSUME NEW row \in Levels \cup {None}
  PROVE  NextLevels(row) \subseteq Levels
<1>1. TopLevel \in Nat /\ None \notin Nat
  BY ScopedAssumption DEF ScopedAssumption
<1>2. LevelOf(row) \in Levels
  BY <1>1 DEF LevelOf, Levels
<1>3. \A level \in Levels : \A escalate : Rung(level, escalate) \in Levels
  BY <1>1 DEF Rung, Levels
<1> QED
  BY <1>2, <1>3 DEF NextLevels

LEMMA CountStep ==
  ASSUME BInv, CountInv, [Next]_vars
  PROVE  CountInv'
<1> USE DEF BInv, BTypes, CountInv, table, handlers, executor, maps
<1>0. MaxCount \in Nat /\ \A ps \in SUBSET Prefixes : Cardinality(ps) \in 0 .. MaxCount
  BY PrefixCounts
<1>1. ASSUME NEW w \in Workers, Proceed(w)
      PROVE  CountInv'
  <2>1. /\ num[w] \in 0 .. MaxCount /\ num[w] \in Nat
        /\ Cardinality(todo[w]) \in 0 .. MaxCount /\ Cardinality(todo[w]) \in Nat
    BY <1>0
  <2>2. Pool(job[w]) \in Pools
    BY PoolIsPool
  <2>3. num' \in [Workers -> 0 .. MaxCount]
    BY <1>0, <1>1
    DEF Proceed, ReserveQuota, InsertBan, ReleaseQuota, ApproveTx, Expand, DriftRelease,
      DriftReserve, DriftBack, DriftSave, DispatchGuard, DispatchVeto, DispatchInsert,
      RecordLadder, RejectUpdate, RevokeQuery, RevokePrefix, RevokeWrite, RollbackReject, Goto, Return
  <2>4. count' \in [Bans -> 0 .. MaxCount]
    BY <1>1, <2>1
    DEF Proceed, ReserveQuota, InsertBan, ReleaseQuota, ApproveTx, Expand, DriftRelease,
      DriftReserve, DriftBack, DriftSave, DispatchGuard, DispatchVeto, DispatchInsert,
      RecordLadder, RejectUpdate, RevokeQuery, RevokePrefix, RevokeWrite, RollbackReject
  <2>5. \E n \in Nat : \/ Reserve(Pool(job[w]), n)
                       \/ Release(Pool(job[w]), n)
                       \/ UNCHANGED used
    BY <1>1, <2>1
    DEF Proceed, ReserveQuota, InsertBan, ReleaseQuota, ApproveTx, Expand, DriftRelease,
      DriftReserve, DriftBack, DriftSave, DispatchGuard, DispatchVeto, DispatchInsert,
      RecordLadder, RejectUpdate, RevokeQuery, RevokePrefix, RevokeWrite, RollbackReject
  <2>6. used' \in [Pools -> Nat]
    BY <2>2, <2>5, TrackerTypes
  <2> QED
    BY <2>3, <2>4, <2>6
<1>2. ASSUME NEW w \in Workers, NEW b \in Bans, Serve(w, b)
      PROVE  CountInv'
  <2>1. CASE ScopedBanCreate(w, b)
    <3>1. Cardinality(prefixdb[ScopeOf[b]]) \in 0 .. MaxCount
      BY <1>0, <2>1, ScopedAssumption DEF ScopedAssumption, ScopedBanCreate
    <3> QED
      BY <2>1, <3>1 DEF ScopedBanCreate, Begin
  <2>2. CASE ~ScopedBanCreate(w, b)
    BY <1>2, <2>2
    DEF Serve, ScopedBanApprove, ScopedBanReject, ScopedBanRevoke, LookupRollbackPending, Begin
  <2> QED
    BY <2>1, <2>2
<1>3. CASE Restart
  <2>1. \A pool : Held(pool) \in Nat
    BY HeldIsNat
  <2>2. num' \in [Workers -> 0 .. MaxCount] /\ used' \in [Pools -> Nat]
    BY <1>0, <1>3, <2>1 DEF Restart
  <2> QED
    BY <1>3, <2>2 DEF Restart
<1>4. CASE UNCHANGED <<count, num, used>>
  BY <1>4
<1> QED
  BY <1>1, <1>2, <1>3, <1>4
  DEF Next, Execute, Poll, Apply, PutPrefix, Mark, Reload, EditProtected, vars

LEMMA RestStep ==
  ASSUME BInv, RestTypes, [Next]_vars
  PROVE  RestTypes'
<1> USE DEF BInv, BTypes, RestTypes, table, handlers, executor, maps
<1>1. ASSUME NEW w \in Workers, RecordLadder(w)
      PROVE  RestTypes'
  <2>1. job[w] \in Bans /\ TargetOf[job[w]] \in Hosts \cup {Everywhere}
    BY <1>1, ScopedAssumption DEF ScopedAssumption, RecordLadder, JobInv
  <2>2. ladder' \in [Hosts -> Levels \cup {None}]
    <3>1. CASE UNCHANGED ladder
      BY <3>1
    <3>2. ASSUME NEW level \in NextLevels(ladder[TargetOf[job[w]]]),
                 ladder' = [ladder EXCEPT ![TargetOf[job[w]]] = level]
          PROVE  ladder' \in [Hosts -> Levels \cup {None}]
      <4>1. CASE TargetOf[job[w]] \in Hosts
        <5>1. level \in Levels
          BY <4>1, LevelsClosed
        <5> QED
          BY <3>2, <5>1
      <4>2. CASE TargetOf[job[w]] \notin Hosts
        BY <3>2, <4>2
      <4> QED
        BY <4>1, <4>2
    <3> QED
      BY <1>1, <3>1, <3>2 DEF RecordLadder
  <2> QED
    BY <1>1, <2>2 DEF RecordLadder, Unlock
<1>2. ASSUME NEW w \in Workers, Proceed(w), ~RecordLadder(w)
      PROVE  RestTypes'
  BY <1>2
  DEF Proceed, ReserveQuota, InsertBan, ReleaseQuota, ApproveTx, Expand, DriftRelease,
    DriftReserve, DriftBack, DriftSave, DispatchGuard, DispatchVeto, DispatchInsert,
    RejectUpdate, RevokeQuery, RevokePrefix, RevokeWrite, RollbackReject, Unlock
<1>3. ASSUME NEW w \in Workers, NEW b \in Bans, Serve(w, b)
      PROVE  RestTypes'
  BY <1>3
  DEF Serve, ScopedBanCreate, ScopedBanApprove, ScopedBanReject, ScopedBanRevoke,
    LookupRollbackPending, Lock
<1>4. ASSUME NEW d \in batch, Apply(d)
      PROVE  RestTypes'
  <2>1. TargetOf[d.ban] \in Hosts \cup {Everywhere}
    BY ScopedAssumption DEF ScopedAssumption, Rows
  <2> QED
    BY <1>4, <2>1 DEF Apply
<1>5. ASSUME NEW p \in left, PutPrefix(p)
      PROVE  RestTypes'
  BY <1>5 DEF PutPrefix
<1>6. CASE Poll \/ Mark \/ Reload \/ Restart \/ UNCHANGED vars
  BY <1>6 DEF Poll, Mark, Reload, Restart, vars
<1>7. ASSUME NEW x \in Hosts \cup Prefixes, EditProtected(x)
      PROVE  RestTypes'
  BY <1>7 DEF EditProtected
<1> QED
  BY <1>1, <1>2, <1>3, <1>4, <1>5, <1>6, <1>7 DEF Next, Execute

LEMMA CountCorrect == Spec => []CountInv
<1>1. Init => CountInv
  BY PrefixCounts DEF Init, CountInv, Pools
<1>2. BInv /\ CountInv /\ [Next]_vars => CountInv'
  BY CountStep
<1> QED
  BY ScopedInvariantCorrect, <1>1, <1>2, PTL DEF Spec

\* The tables, the tracker, the handlers and the executor keep their types for any
\* number of bans and prefixes; the tracker in particular never becomes negative,
\* although reservations are given back twice when handlers overtake each other.
THEOREM ScopedTypeCorrect == Spec => []ScopedTypeOK
<1>1. Init => RestTypes
  BY DEF Init, RestTypes
<1>2. BInv /\ RestTypes /\ [Next]_vars => RestTypes'
  BY RestStep
<1>3. BInv /\ CountInv /\ RestTypes => ScopedTypeOK
  BY DEF BInv, BTypes, CountInv, RestTypes, ScopedTypeOK, MaxCount
<1> QED
  BY ScopedInvariantCorrect, CountCorrect, <1>1, <1>2, <1>3, PTL DEF Spec

------------------------------------------------------------------------------
(* The tracker against the table *)

Share(b) == IF Open(b) THEN count[b] ELSE 0

\* What the tracker counts for the ban of a worker in the middle of a handler: also
\* what is reserved and not yet inserted, or closed and not yet released; nothing
\* between the two calls of an exchange; the new count before it is saved.
ChargeBy(w) ==
  CASE pc[w] \in {"create", "release", "rj_release"} -> num[w]
    [] pc[w] \in {"drift_reserve", "drift_back"} -> 0
    [] pc[w] = "drift_save" -> Cardinality(todo[w])
    [] OTHER -> Share(job[w])

Handled(b) == \E w \in Workers : job[w] = b
Handler(b) == CHOOSE w \in Workers : job[w] = b

charge == [b \in Bans |-> IF Handled(b) THEN ChargeBy(Handler(b)) ELSE Share(b)]

InPool(pool) == {b \in Bans : Pool(b) = pool}
Counted(pool) == Cardinality(Claims(InPool(pool), charge))

KeepPCs == {"approve", "reject", "expand", "drift_release", "drift_reserve", "drift_back",
            "drift_save", "rb_reject", "rv_query", "rv_delete", "rv_write", "rj_release",
            "release"}

\* A handler's copy of the row stays true: its count until the drift is saved, and
\* its state until the handler changes it.
CopyInv ==
  \A w \in Workers :
    /\ pc[w] = "idle" => job[w] = None
    /\ pc[w] \in LockPCs => decideMu = w
    /\ pc[w] \in KeepPCs => num[w] = count[job[w]]
    /\ pc[w] \in DecidePCs => state[job[w]] = "pending"
    /\ pc[w] \in {"release", "rj_release"} => ~Open(job[w])

\* What the tracker counts is what it counts for the bans, and what vetoed bans had
\* reserved, and stays under the mark.
LedgerAt(pool) ==
  /\ Counted(pool) <= used[pool]
  /\ used[pool] <= Counted(pool) + Kept(pool)
  /\ used[pool] <= HighWater[pool]

\* An exchange has room to be undone.
ExchangeAt(w) ==
  pc[w] \in DriftPCs =>
    used[Pool(job[w])] + num[w] <= HighWater[Pool(job[w])] + charge[job[w]]

LedgerInv ==
  /\ \A pool \in Pools : LedgerAt(pool)
  /\ \A w \in Workers : ExchangeAt(w)

LEMMA ShareType ==
  ASSUME CountInv, NEW b \in Bans
  PROVE  Share(b) \in 0 .. MaxCount /\ Share(b) \in Nat
<1>1. count[b] \in 0 .. MaxCount /\ MaxCount \in Nat
  BY PrefixCounts DEF CountInv
<1> QED
  BY <1>1 DEF Share

LEMMA ChargeType ==
  ASSUME BInv, CountInv
  PROVE  charge \in [Bans -> 0 .. MaxCount]
<1> SUFFICES ASSUME NEW b \in Bans PROVE charge[b] \in 0 .. MaxCount
  BY DEF charge
<1>1. Share(b) \in 0 .. MaxCount /\ 0 \in 0 .. MaxCount
  BY ShareType, PrefixCounts
<1>2. CASE Handled(b)
  <2>1. Handler(b) \in Workers /\ job[Handler(b)] = b
    BY <1>2 DEF Handled, Handler
  <2>2. num[Handler(b)] \in 0 .. MaxCount /\ Cardinality(todo[Handler(b)]) \in 0 .. MaxCount
    BY <2>1, PrefixCounts DEF BInv, BTypes, CountInv
  <2> QED
    BY <1>1, <1>2, <2>1, <2>2 DEF charge, ChargeBy
<1>3. CASE ~Handled(b)
  BY <1>1, <1>3 DEF charge
<1> QED
  BY <1>2, <1>3

LEMMA ChargeTypes ==
  /\ BInv /\ CountInv => charge \in [Bans -> 0 .. MaxCount]
  /\ BInv' /\ CountInv' => charge' \in [Bans -> 0 .. MaxCount]
<1>1. BInv /\ CountInv => charge \in [Bans -> 0 .. MaxCount]
  BY ChargeType
<1>2. (BInv /\ CountInv => charge \in [Bans -> 0 .. MaxCount])'
  BY <1>1, PTL
<1> QED
  BY <1>1, <1>2

LEMMA ChargeOf ==
  ASSUME Apart, NEW w \in Workers, job[w] \in Bans
  PROVE  charge[job[w]] = ChargeBy(w)
<1>1. Handled(job[w]) /\ Handler(job[w]) = w
  BY ScopedAssumption DEF ScopedAssumption, Apart, Handled, Handler
<1> QED
  BY <1>1 DEF charge

LEMMA KeptIsNat ==
  ASSUME CountInv, NEW pool
  PROVE  Kept(pool) \in Nat
<1> DEFINE V == {b \in Bans : state[b] = "safety_blocked" /\ Pool(b) = pool}
<1>1. V \in SUBSET Bans /\ count \in [Bans -> 0 .. MaxCount]
  BY DEF CountInv
<1> HIDE DEF V
<1> QED
  BY <1>1, ClaimsFinite DEF Kept, V

\* Bans a step leaves alone, or that are not vetoed, do not change what is kept.
LEMMA KeptStays ==
  ASSUME CountInv, NEW pool,
         \A c \in Bans :
           \/ state'[c] = state[c] /\ count'[c] = count[c]
           \/ state[c] # "safety_blocked" /\ state'[c] # "safety_blocked"
  PROVE  Kept(pool)' = Kept(pool) /\ Kept(pool) \in Nat
<1> DEFINE V == {b \in Bans : state[b] = "safety_blocked" /\ Pool(b) = pool}
<1>1. V' = V /\ \A c \in V : count'[c] = count[c]
  BY DEF Pool, Global
<1>2. V \in SUBSET Bans /\ count \in [Bans -> 0 .. MaxCount]
  BY DEF CountInv
<1>3. Kept(pool) = Cardinality(Claims(V, count)) /\ Kept(pool)' = Cardinality(Claims(V', count'))
  BY DEF Kept, Claims
<1> HIDE DEF V
<1>4. Claims(V, count) = Claims(V, count')
  BY <1>1, ClaimsSame
<1> QED
  BY <1>1, <1>2, <1>3, <1>4, ClaimsFinite

\* A veto keeps what the ban had reserved.
LEMMA KeptGrows ==
  ASSUME CountInv, state \in [Bans -> BanStates], NEW b \in Bans, NEW pool, Open(b),
         UNCHANGED count, state' = [state EXCEPT ![b] = "safety_blocked"]
  PROVE  /\ Kept(pool) \in Nat
         /\ Kept(pool)' = Kept(pool) + (IF Pool(b) = pool THEN count[b] ELSE 0)
<1> DEFINE V == {c \in Bans : state[c] = "safety_blocked" /\ Pool(c) = pool}
<1>1. V' = IF Pool(b) = pool THEN V \cup {b} ELSE V
  BY DEF Pool, Global
<1>2. b \notin V /\ V \in SUBSET Bans /\ count \in [Bans -> 0 .. MaxCount]
  BY DEF CountInv, Open
<1>3. Kept(pool) = Cardinality(Claims(V, count)) /\ Kept(pool)' = Cardinality(Claims(V', count'))
  BY DEF Kept, Claims
<1> HIDE DEF V
<1>4. Kept(pool) \in Nat
  BY <1>2, <1>3, ClaimsFinite
<1>5. CASE Pool(b) = pool
  <2> DEFINE U == V \cup {b}
  <2>1. U \in SUBSET Bans /\ b \in U /\ U \ {b} = V
    BY <1>2
  <2> HIDE DEF U
  <2>2. Cardinality(Claims(U, count)) = Cardinality(Claims(V, count)) + count[b]
    BY <1>2, <2>1, ClaimsSplit
  <2> QED
    BY <1>1, <1>3, <1>4, <1>5, <2>2 DEF U
<1>6. CASE Pool(b) # pool
  BY <1>1, <1>3, <1>4, <1>6
<1> QED
  BY <1>4, <1>5, <1>6

\* The calls of the tracker on the pool of a ban.
LEMMA TrackerMoves ==
  ASSUME CountInv, NEW pool \in Pools, NEW n \in Nat
  PROVE  /\ \A q \in Pools \ {pool} : Reserve(pool, n) \/ Release(pool, n) => used'[q] = used[q]
         /\ Reserve(pool, n) => used'[pool] = used[pool] + n
         /\ Release(pool, n) /\ n <= used[pool] => used'[pool] = used[pool] - n
BY DEF CountInv, Reserve, Release, Minus

------------------------------------------------------------------------------
(* What a step of one worker leaves of the ledger *)

LEMMA QuotaStepOfOne ==
  ASSUME BInv, CountInv, NEW w \in Workers, Proceed(w)
  PROVE  /\ \A v \in Workers \ {w} : num'[v] = num[v]
         /\ \A b \in Bans \ {job[w]} : count'[b] = count[b]
         /\ pc'[w] = "idle" => job'[w] = None
         /\ pc'[w] # "idle" => job'[w] = job[w]
<1> USE DEF BInv, BTypes, CountInv, table, handlers
<1>1. \A v \in Workers \ {w} : num'[v] = num[v]
  BY DEF Proceed, ReserveQuota, InsertBan, ReleaseQuota, ApproveTx, Expand, DriftRelease,
    DriftReserve, DriftBack, DriftSave, DispatchGuard, DispatchVeto, DispatchInsert,
    RecordLadder, RejectUpdate, RevokeQuery, RevokePrefix, RevokeWrite, RollbackReject,
    Goto, Return
<1>2. \A b \in Bans \ {job[w]} : count'[b] = count[b]
  BY DEF Proceed, ReserveQuota, InsertBan, ReleaseQuota, ApproveTx, Expand, DriftRelease,
    DriftReserve, DriftBack, DriftSave, DispatchGuard, DispatchVeto, DispatchInsert,
    RecordLadder, RejectUpdate, RevokeQuery, RevokePrefix, RevokeWrite, RollbackReject
<1>3. (pc'[w] = "idle" => job'[w] = None) /\ (pc'[w] # "idle" => job'[w] = job[w])
  BY DEF Proceed, ReserveQuota, InsertBan, ReleaseQuota, ApproveTx, Expand, DriftRelease,
    DriftReserve, DriftBack, DriftSave, DispatchGuard, DispatchVeto, DispatchInsert,
    RecordLadder, RejectUpdate, RevokeQuery, RevokePrefix, RevokeWrite, RollbackReject,
    Goto, Return
<1> QED
  BY <1>1, <1>2, <1>3

LEMMA ChargeStep ==
  ASSUME BInv, CountInv, Apart, Apart', NEW w \in Workers, Proceed(w), NEW b \in Bans, b = job[w]
  PROVE  /\ \A c \in Bans \ {b} : charge'[c] = charge[c]
         /\ charge[b] = ChargeBy(w)
         /\ charge'[b] = IF pc'[w] = "idle" THEN Share(b)' ELSE ChargeBy(w)'
<1>1. /\ \A v \in Workers \ {w} : /\ pc'[v] = pc[v] /\ job'[v] = job[v]
                                  /\ num'[v] = num[v] /\ todo'[v] = todo[v]
      /\ \A c \in Bans \ {b} : state'[c] = state[c] /\ count'[c] = count[c]
      /\ pc'[w] = "idle" => job'[w] = None
      /\ pc'[w] # "idle" => job'[w] = b
  BY StepOfOne, QuotaStepOfOne
<1>2. None \notin Bans
  BY ScopedAssumption DEF ScopedAssumption
<1>3. ASSUME NEW c \in Bans \ {b}
      PROVE  charge'[c] = charge[c]
  <2>1. Share(c)' = Share(c)
    BY <1>1 DEF Share, Open
  <2>2. ASSUME NEW v \in Workers, job[v] = c
        PROVE  charge'[c] = charge[c]
    <3>1. v # w /\ job'[v] = c
      BY <1>1, <2>2
    <3>2. charge[c] = ChargeBy(v)
      BY <2>2, ChargeOf
    <3>3. charge'[c] = ChargeBy(v)'
      <4>1. Handled(c)' /\ Handler(c)' = v
        BY <1>2, <3>1 DEF Apart, Handled, Handler
      <4> QED
        BY <4>1 DEF charge
    <3>4. ChargeBy(v)' = ChargeBy(v)
      BY <1>1, <2>1, <2>2, <3>1 DEF ChargeBy
    <3> QED
      BY <3>2, <3>3, <3>4
  <2>3. CASE ~Handled(c)
    <3>1. ~Handled(c)'
      BY <1>1, <1>2, <2>3 DEF Handled
    <3> QED
      BY <2>1, <2>3, <3>1 DEF charge
  <2> QED
    BY <2>2, <2>3 DEF Handled
<1>4. CASE pc'[w] = "idle"
  <2>1. \A v \in Workers \ {w} : job[v] # b
    BY <1>2 DEF Apart
  <2>2. ~Handled(b)'
    BY <1>1, <1>2, <1>4, <2>1 DEF Handled
  <2> QED
    BY <1>3, <1>4, <2>2, ChargeOf DEF charge
<1>5. CASE pc'[w] # "idle"
  <2>1. Handled(b)' /\ Handler(b)' = w
    BY <1>1, <1>2, <1>5 DEF Apart, Handled, Handler
  <2> QED
    BY <1>3, <1>5, <2>1, ChargeOf DEF charge
<1> QED
  BY <1>4, <1>5

\* What is counted changes by what is counted for one ban.
LEMMA CountedChange ==
  ASSUME charge \in [Bans -> 0 .. MaxCount], charge' \in [Bans -> 0 .. MaxCount],
         NEW b \in Bans, NEW pool, \A c \in Bans \ {b} : charge'[c] = charge[c]
  PROVE  /\ Counted(pool) \in Nat /\ Counted(pool)' \in Nat
         /\ charge[b] \in Nat /\ charge'[b] \in Nat
         /\ Pool(b) # pool => Counted(pool)' = Counted(pool)
         /\ Pool(b) = pool =>
              /\ charge[b] <= Counted(pool)
              /\ Counted(pool)' = (Counted(pool) - charge[b]) + charge'[b]
<1> DEFINE S == InPool(pool)
           f == charge
           g == charge'
<1>1. S \in SUBSET Bans /\ (b \in S <=> Pool(b) = pool) /\ S' = S
  BY DEF InPool, Pool, Global
<1>2. Counted(pool) = Cardinality(Claims(S, f)) /\ Counted(pool)' = Cardinality(Claims(S, g))
  BY <1>1 DEF Counted, Claims
<1>3. f \in [Bans -> 0 .. MaxCount] /\ g \in [Bans -> 0 .. MaxCount] /\ \A c \in Bans \ {b} : g[c] = f[c]
  OBVIOUS
<1> HIDE DEF S, f, g
<1>4. /\ Cardinality(Claims(S, f)) \in Nat /\ Cardinality(Claims(S, g)) \in Nat
      /\ f[b] \in Nat /\ g[b] \in Nat
      /\ b \notin S => Cardinality(Claims(S, g)) = Cardinality(Claims(S, f))
      /\ b \in S =>
           /\ f[b] <= Cardinality(Claims(S, f))
           /\ Cardinality(Claims(S, g)) = (Cardinality(Claims(S, f)) - f[b]) + g[b]
  BY <1>1, <1>3, ClaimsChange
<1> QED
  BY <1>1, <1>2, <1>4 DEF f, g

------------------------------------------------------------------------------
(* The ledger over a step of one worker *)

\* A step that moves the tracker by what it counts for the ban of its worker.
LEMMA LedgerMoved ==
  ASSUME BInv, CountInv, BInv', CountInv', Apart, Apart', LedgerInv,
         NEW w \in Workers, Proceed(w), NEW b \in Bans, b = job[w],
         \A q \in Pools \ {Pool(b)} : used'[q] = used[q],
         used'[Pool(b)] = (used[Pool(b)] - charge[b]) + charge'[b],
         used'[Pool(b)] <= HighWater[Pool(b)],
         \/ state'[b] = state[b] /\ count'[b] = count[b]
         \/ state[b] # "safety_blocked" /\ state'[b] # "safety_blocked",
         pc'[w] \in DriftPCs =>
           used'[Pool(b)] + num'[w] <= HighWater[Pool(b)] + charge'[b],
         \/ used'[Pool(b)] <= used[Pool(b)]
         \/ \A v \in Workers \ {w} : pc[v] \in DriftPCs => Pool(job[v]) # Pool(b)
  PROVE  LedgerInv'
<1>1. \A c \in Bans \ {b} : charge'[c] = charge[c]
  BY ChargeStep
<1>2. charge \in [Bans -> 0 .. MaxCount] /\ charge' \in [Bans -> 0 .. MaxCount]
  BY ChargeTypes
<1>3. \A c \in Bans : charge[c] \in Nat /\ charge'[c] \in Nat
  BY <1>2, PrefixCounts
<1>4. /\ \A v \in Workers \ {w} : /\ pc'[v] = pc[v] /\ job'[v] = job[v] /\ num'[v] = num[v]
      /\ \A c \in Bans \ {b} : state'[c] = state[c] /\ count'[c] = count[c]
      /\ pc'[w] = "idle" \/ job'[w] = b
  BY StepOfOne, QuotaStepOfOne
<1>5. /\ \A pool \in Pools : used[pool] \in Nat /\ used'[pool] \in Nat /\ HighWater[pool] \in Nat
      /\ \A v \in Workers : num[v] \in Nat /\ num'[v] \in Nat
      /\ \A c : Pool(c) \in Pools /\ Pool(c)' = Pool(c)
  BY PoolIsPool, PrefixCounts, ScopedAssumption DEF ScopedAssumption, CountInv, Pool, Global
<1>6. ASSUME NEW pool \in Pools
      PROVE  LedgerAt(pool)'
  <2>1. Kept(pool)' = Kept(pool) /\ Kept(pool) \in Nat
    BY <1>4, KeptStays
  <2>2. /\ Counted(pool) \in Nat /\ Counted(pool)' \in Nat
        /\ charge[b] \in Nat /\ charge'[b] \in Nat
        /\ Pool(b) # pool => Counted(pool)' = Counted(pool)
        /\ Pool(b) = pool =>
             /\ charge[b] <= Counted(pool)
             /\ Counted(pool)' = (Counted(pool) - charge[b]) + charge'[b]
    BY <1>1, <1>2, CountedChange
  <2>3. LedgerAt(pool)
    BY DEF LedgerInv
  <2> QED
    BY <1>5, <2>1, <2>2, <2>3 DEF LedgerAt
<1>7. ASSUME NEW v \in Workers
      PROVE  ExchangeAt(v)'
  <2>1. CASE v = w
    BY <1>4, <1>5, <2>1 DEF ExchangeAt, DriftPCs
  <2>2. CASE v # w /\ pc[v] \in DriftPCs
    <3>1. job[v] \in Bans \ {b}
      BY <2>2, StepOfOne, OtherBans DEF DriftPCs
    <3>2. charge'[job[v]] = charge[job[v]] /\ charge[job[v]] \in Nat
      BY <1>1, <1>3, <3>1
    <3>3. used'[Pool(job[v])] <= used[Pool(job[v])]
      BY <1>5, <2>2
    <3>4. used[Pool(job[v])] + num[v] <= HighWater[Pool(job[v])] + charge[job[v]]
      BY <2>2 DEF LedgerInv, ExchangeAt
    <3>5. used'[Pool(job[v])] + num[v] <= HighWater[Pool(job[v])] + charge[job[v]]
      BY <1>5, <3>2, <3>3, <3>4
    <3> QED
      BY <1>4, <1>5, <2>2, <3>2, <3>5 DEF ExchangeAt
  <2>3. CASE v # w /\ pc[v] \notin DriftPCs
    BY <1>4, <2>3 DEF ExchangeAt
  <2> QED
    BY <2>1, <2>2, <2>3
<1> QED
  BY <1>6, <1>7 DEF LedgerInv, Pools

\* A veto moves what was counted for the ban to what vetoed bans keep.
LEMMA LedgerVeto ==
  ASSUME BInv, CountInv, BInv', CountInv', Apart, Apart', LedgerInv,
         NEW w \in Workers, Proceed(w), NEW b \in Bans, b = job[w],
         UNCHANGED <<used, count>>, Open(b), pc'[w] = "idle",
         state' = [state EXCEPT ![b] = "safety_blocked"],
         charge[b] = count[b], charge'[b] = 0
  PROVE  LedgerInv'
<1>1. \A c \in Bans \ {b} : charge'[c] = charge[c]
  BY ChargeStep
<1>2. charge \in [Bans -> 0 .. MaxCount] /\ charge' \in [Bans -> 0 .. MaxCount]
  BY ChargeTypes
<1>3. \A v \in Workers \ {w} : /\ pc'[v] = pc[v] /\ job'[v] = job[v] /\ num'[v] = num[v]
  BY StepOfOne, QuotaStepOfOne
<1>4. \A pool \in Pools : used[pool] \in Nat /\ HighWater[pool] \in Nat
  BY ScopedAssumption DEF ScopedAssumption, CountInv
<1>5. ASSUME NEW pool \in Pools
      PROVE  LedgerAt(pool)'
  <2>1. /\ Kept(pool) \in Nat
        /\ Kept(pool)' = Kept(pool) + (IF Pool(b) = pool THEN count[b] ELSE 0)
    BY KeptGrows DEF BInv, BTypes
  <2>2. /\ Counted(pool) \in Nat /\ Counted(pool)' \in Nat
        /\ charge[b] \in Nat /\ charge'[b] \in Nat
        /\ Pool(b) # pool => Counted(pool)' = Counted(pool)
        /\ Pool(b) = pool =>
             /\ charge[b] <= Counted(pool)
             /\ Counted(pool)' = (Counted(pool) - charge[b]) + charge'[b]
    BY <1>1, <1>2, CountedChange
  <2>3. LedgerAt(pool)
    BY DEF LedgerInv
  <2>4. CASE Pool(b) = pool
    BY <1>4, <2>1, <2>2, <2>3, <2>4 DEF LedgerAt
  <2>5. CASE Pool(b) # pool
    BY <1>4, <2>1, <2>2, <2>3, <2>5 DEF LedgerAt
  <2> QED
    BY <2>4, <2>5
<1>6. ASSUME NEW v \in Workers
      PROVE  ExchangeAt(v)'
  <2>1. CASE v # w /\ pc[v] \in DriftPCs
    <3>1. job[v] \in Bans \ {b}
      BY <2>1, StepOfOne, OtherBans DEF DriftPCs
    <3> QED
      BY <1>1, <1>3, <2>1, <3>1 DEF LedgerInv, ExchangeAt, Pool, Global
  <2>2. CASE v # w /\ pc[v] \notin DriftPCs
    BY <1>3, <2>2 DEF ExchangeAt
  <2> QED
    BY <2>1, <2>2 DEF ExchangeAt, DriftPCs
<1> QED
  BY <1>5, <1>6 DEF LedgerInv, Pools

LEMMA LedgerProceed ==
  ASSUME ~Faults, BInv, CountInv, BInv', CountInv', Apart, Apart', AloneInv, CopyInv, LedgerInv,
         NEW w \in Workers, Proceed(w), ~Collide
  PROVE  LedgerInv'
<1> USE DEF table, handlers, executor, maps
<1>1. PICK b \in Bans : b = job[w] /\ pc[w] # "idle"
  BY StepOfOne
<1> DEFINE n == num[w]
           c == Cardinality(todo[w])
           P == Pool(b)
<1>2. /\ P \in Pools /\ Pool(b)' = P
      /\ n \in Nat /\ c \in Nat /\ count[b] \in Nat /\ count'[b] \in Nat
      /\ used[P] \in Nat /\ HighWater[P] \in Nat
  BY PoolIsPool, PrefixCounts, ScopedAssumption
  DEF ScopedAssumption, BInv, BTypes, CountInv, Pool, Global
<1>3. /\ pc \in [Workers -> PCs] /\ job \in [Workers -> Bans \cup {None}]
      /\ num \in [Workers -> 0 .. MaxCount] /\ todo \in [Workers -> SUBSET Prefixes]
      /\ state \in [Bans -> BanStates] /\ count \in [Bans -> 0 .. MaxCount]
      /\ used \in [Pools -> Nat]
  BY DEF BInv, BTypes, CountInv
<1>4. /\ charge[b] = ChargeBy(w)
      /\ charge'[b] = IF pc'[w] = "idle" THEN Share(b)' ELSE ChargeBy(w)'
      /\ \A d \in Bans \ {b} : charge'[d] = charge[d]
      /\ pc'[w] = "idle" \/ job'[w] = b
  BY <1>1, ChargeStep, QuotaStepOfOne
<1>5. /\ charge[b] \in Nat /\ charge'[b] \in Nat
      /\ charge[b] <= used[P] /\ used[P] <= HighWater[P]
  <2>1. charge \in [Bans -> 0 .. MaxCount] /\ charge' \in [Bans -> 0 .. MaxCount]
    BY ChargeTypes
  <2>2. Counted(P) \in Nat /\ charge[b] \in Nat /\ charge'[b] \in Nat /\ charge[b] <= Counted(P)
    BY <1>4, <2>1, CountedChange
  <2>3. Counted(P) <= used[P] /\ used[P] <= HighWater[P]
    BY <1>2 DEF LedgerInv, LedgerAt
  <2> QED
    BY <1>2, <2>2, <2>3
<1>6. pc[w] \in DriftPCs => used[P] + n <= HighWater[P] + charge[b]
  BY <1>1 DEF LedgerInv, ExchangeAt
<1>7. pc[w] \in LockPCs => \A v \in Workers \ {w} : pc[v] \notin DriftPCs
  BY DEF CopyInv, LockPCs, DriftPCs
<1>8. Open(b) => Share(b) = count[b]
  BY DEF Share
<1>9. CASE ReserveQuota(w)
  <2>1. pc[w] = "reserve" /\ UNCHANGED <<state, count>> /\ state[b] = "none"
    BY <1>1, <1>9 DEF ReserveQuota, BInv, JobInv, SubmitPCs
  <2>2. charge[b] = 0 /\ Share(b)' = 0
    BY <1>1, <1>4, <2>1 DEF ChargeBy, Share, Open
  <2>3. CASE Fits(P, n) /\ Reserve(P, n) /\ Goto(w, "create")
    <3>1. pc'[w] = "create" /\ num'[w] = n
      BY <1>3, <2>3 DEF Goto
    <3>2. charge'[b] = n
      BY <1>4, <3>1 DEF ChargeBy
    <3>3. used'[P] = used[P] + n /\ \A q \in Pools \ {P} : used'[q] = used[q]
      BY <1>2, <2>3, TrackerMoves
    <3>4. used'[P] <= HighWater[P]
      BY <2>3, <3>3 DEF Fits
    <3>5. \A v \in Workers \ {w} : pc[v] \in DriftPCs => Pool(job[v]) # P
      BY <1>1, <2>1, <3>1 DEF Collide
    <3>6. used'[P] = (used[P] - charge[b]) + charge'[b]
      BY <1>2, <2>2, <3>2, <3>3
    <3> HIDE DEF n, c, P
    <3> QED
      BY <1>1, <2>1, <3>1, <3>3, <3>4, <3>5, <3>6, LedgerMoved DEF DriftPCs, P
  <2>4. CASE Return(w) /\ UNCHANGED used
    <3>1. pc'[w] = "idle"
      BY <1>3, <2>4 DEF Return
    <3>2. /\ used'[P] = (used[P] - charge[b]) + charge'[b] /\ used'[P] <= HighWater[P]
          /\ used'[P] <= used[P] /\ \A q \in Pools \ {P} : used'[q] = used[q]
      BY <1>2, <1>4, <1>5, <2>2, <2>4, <3>1
    <3> HIDE DEF n, c, P
    <3> QED
      BY <1>1, <2>1, <3>1, <3>2, LedgerMoved DEF DriftPCs, P
  <2> QED
    BY <1>1, <1>9, <2>3, <2>4 DEF ReserveQuota
<1>10. CASE InsertBan(w)
  <2>1. /\ pc[w] = "create" /\ state[b] = "none" /\ pc'[w] = "idle"
        /\ state'[b] = "pending" /\ count'[b] = n /\ UNCHANGED used
    BY <1>1, <1>3, <1>10 DEF InsertBan, BInv, JobInv, SubmitPCs, MayFail, SetState, Return
  <2>2. charge[b] = n /\ charge'[b] = n
    BY <1>4, <2>1 DEF ChargeBy, Share, Open
  <2>3. /\ used'[P] = (used[P] - charge[b]) + charge'[b] /\ used'[P] <= HighWater[P]
        /\ used'[P] <= used[P] /\ \A q \in Pools \ {P} : used'[q] = used[q]
    BY <1>2, <1>5, <2>1, <2>2
  <2> HIDE DEF n, c, P
  <2> QED
    BY <1>1, <2>1, <2>3, LedgerMoved DEF DriftPCs, P
<1>11. CASE ReleaseQuota(w)
  <2>1. /\ pc[w] \in {"release", "rj_release"} /\ pc'[w] = "idle"
        /\ UNCHANGED <<state, count>> /\ ~Open(b) /\ Release(P, n)
    BY <1>1, <1>3, <1>11 DEF ReleaseQuota, Return, CopyInv
  <2>2. charge[b] = n /\ charge'[b] = 0
    BY <1>4, <2>1 DEF ChargeBy, Share, Open
  <2>3. used'[P] = used[P] - n /\ \A q \in Pools \ {P} : used'[q] = used[q]
    BY <1>2, <1>5, <2>1, <2>2, TrackerMoves
  <2>4. /\ used'[P] = (used[P] - charge[b]) + charge'[b] /\ used'[P] <= HighWater[P]
        /\ used'[P] <= used[P]
    BY <1>2, <1>5, <2>2, <2>3
  <2> HIDE DEF n, c, P
  <2> QED
    BY <1>1, <1>2, <2>1, <2>3, <2>4, LedgerMoved DEF DriftPCs, P
<1>12. CASE DriftRelease(w)
  <2>1. /\ pc[w] = "drift_release" /\ pc'[w] = "drift_reserve" /\ num'[w] = n
        /\ UNCHANGED <<state, count>> /\ Release(P, n)
    BY <1>1, <1>3, <1>12 DEF DriftRelease, Goto
  <2>2. Open(b) /\ n = count[b]
    BY <1>1, <2>1 DEF AloneInv, GrantedPCs, CopyInv, KeepPCs, Open
  <2>3. charge[b] = n /\ charge'[b] = 0
    BY <1>1, <1>4, <1>8, <2>1, <2>2 DEF ChargeBy
  <2>4. used'[P] = used[P] - n /\ \A q \in Pools \ {P} : used'[q] = used[q]
    BY <1>2, <1>5, <2>1, <2>3, TrackerMoves
  <2>5. /\ used'[P] = (used[P] - charge[b]) + charge'[b] /\ used'[P] <= HighWater[P]
        /\ used'[P] + num'[w] <= HighWater[P] + charge'[b]
        /\ used'[P] <= used[P]
    BY <1>2, <1>5, <2>1, <2>3, <2>4
  <2> HIDE DEF n, c, P
  <2> QED
    BY <1>1, <1>2, <2>1, <2>4, <2>5, LedgerMoved DEF P
<1>13. CASE DriftReserve(w)
  <2>1. pc[w] = "drift_reserve" /\ UNCHANGED <<state, count>>
    BY <1>13 DEF DriftReserve
  <2>2. charge[b] = 0 /\ used[P] + n <= HighWater[P]
    BY <1>2, <1>4, <1>6, <2>1 DEF ChargeBy, DriftPCs
  <2>3. CASE Fits(P, c) /\ Reserve(P, c) /\ Goto(w, "drift_save")
    <3>1. pc'[w] = "drift_save" /\ num'[w] = n /\ todo'[w] = todo[w]
      BY <1>3, <2>3 DEF Goto
    <3>2. charge'[b] = c
      BY <1>4, <3>1 DEF ChargeBy
    <3>3. used'[P] = used[P] + c /\ \A q \in Pools \ {P} : used'[q] = used[q]
      BY <1>2, <2>3, TrackerMoves
    <3>4. used'[P] <= HighWater[P]
      BY <2>3, <3>3 DEF Fits
    <3>5. /\ used'[P] = (used[P] - charge[b]) + charge'[b]
          /\ used'[P] + num'[w] <= HighWater[P] + charge'[b]
      BY <1>2, <2>2, <3>1, <3>2, <3>3
    <3>6. \A v \in Workers \ {w} : pc[v] \notin DriftPCs
      BY <1>7, <2>1 DEF LockPCs
    <3> HIDE DEF n, c, P
    <3> QED
      BY <1>1, <1>2, <2>1, <3>1, <3>3, <3>4, <3>5, <3>6, LedgerMoved DEF P
  <2>4. CASE Goto(w, "drift_back") /\ UNCHANGED used
    <3>1. pc'[w] = "drift_back" /\ num'[w] = n
      BY <1>3, <2>4 DEF Goto
    <3>2. charge'[b] = 0
      BY <1>4, <3>1 DEF ChargeBy
    <3>3. /\ used'[P] = (used[P] - charge[b]) + charge'[b] /\ used'[P] <= HighWater[P]
          /\ used'[P] + num'[w] <= HighWater[P] + charge'[b]
          /\ used'[P] <= used[P] /\ \A q \in Pools \ {P} : used'[q] = used[q]
      BY <1>2, <1>5, <2>2, <2>4, <3>1, <3>2
    <3> HIDE DEF n, c, P
    <3> QED
      BY <1>1, <2>1, <3>1, <3>3, LedgerMoved DEF P
  <2> QED
    BY <1>1, <1>13, <2>3, <2>4 DEF DriftReserve
<1>14. CASE DriftBack(w)
  <2>1. pc[w] = "drift_back" /\ pc'[w] = "idle" /\ UNCHANGED <<state, count>>
    BY <1>3, <1>14 DEF DriftBack, Return
  <2>2. charge[b] = 0 /\ used[P] + n <= HighWater[P]
    BY <1>2, <1>4, <1>6, <2>1 DEF ChargeBy, DriftPCs
  <2>3. Reserve(P, n)
    BY <1>1, <1>14, <2>2 DEF DriftBack, Fits
  <2>4. charge'[b] = n
    <3>1. Open(b) /\ n = count[b]
      BY <1>1, <2>1 DEF AloneInv, GrantedPCs, CopyInv, KeepPCs, Open
    <3> QED
      BY <1>4, <2>1, <3>1 DEF Share, Open
  <2>5. used'[P] = used[P] + n /\ \A q \in Pools \ {P} : used'[q] = used[q]
    BY <1>2, <2>3, TrackerMoves
  <2>6. used'[P] = (used[P] - charge[b]) + charge'[b] /\ used'[P] <= HighWater[P]
    BY <1>2, <2>2, <2>4, <2>5
  <2>7. \A v \in Workers \ {w} : pc[v] \notin DriftPCs
    BY <1>7, <2>1 DEF LockPCs
  <2> HIDE DEF n, c, P
  <2> QED
    BY <1>1, <1>2, <2>1, <2>5, <2>6, <2>7, LedgerMoved DEF DriftPCs, P
<1>15. CASE DriftSave(w)
  <2>1. /\ pc[w] = "drift_save" /\ pc'[w] = "guard" /\ UNCHANGED <<state, used>>
        /\ count'[b] = c
    BY <1>1, <1>3, <1>15 DEF DriftSave, Goto, MayFail
  <2>2. Open(b) /\ state[b] = "active"
    BY <1>1, <2>1 DEF AloneInv, GrantedPCs, Open
  <2>3. charge[b] = c /\ charge'[b] = c
    BY <1>4, <2>1, <2>2 DEF ChargeBy, Share, Open
  <2>4. /\ used'[P] = (used[P] - charge[b]) + charge'[b] /\ used'[P] <= HighWater[P]
        /\ used'[P] <= used[P] /\ \A q \in Pools \ {P} : used'[q] = used[q]
    BY <1>2, <1>5, <2>1, <2>3
  <2>5. state'[b] = "active"
    BY <2>1, <2>2
  <2> HIDE DEF n, c, P
  <2> QED
    BY <1>1, <2>1, <2>2, <2>4, <2>5, LedgerMoved DEF DriftPCs, P
<1>16. CASE DispatchVeto(w)
  <2>1. /\ pc[w] = "veto" /\ pc'[w] = "idle" /\ UNCHANGED <<count, used>>
        /\ state' = [state EXCEPT ![b] = "safety_blocked"]
    BY <1>1, <1>3, <1>16 DEF DispatchVeto, Return, SetState, MayFail
  <2>2. Open(b)
    BY <1>1, <2>1 DEF AloneInv, GrantedPCs, Open
  <2>3. charge[b] = count[b] /\ charge'[b] = 0
    BY <1>1, <1>3, <1>4, <1>8, <2>1, <2>2 DEF ChargeBy, Share, Open
  <2> HIDE DEF n, c, P
  <2> QED
    BY <1>1, <2>1, <2>2, <2>3, LedgerVeto
<1>17. CASE UNCHANGED used /\ charge'[b] = charge[b] /\ pc'[w] \notin DriftPCs
            /\ (\/ state'[b] = state[b] /\ count'[b] = count[b]
                \/ state[b] # "safety_blocked" /\ state'[b] # "safety_blocked")
  <2>1. /\ used'[P] = (used[P] - charge[b]) + charge'[b] /\ used'[P] <= HighWater[P]
        /\ used'[P] <= used[P] /\ \A q \in Pools \ {P} : used'[q] = used[q]
    BY <1>2, <1>5, <1>17
  <2> HIDE DEF n, c, P
  <2> QED
    BY <1>1, <1>17, <2>1, LedgerMoved DEF P
<1>18. CASE RejectUpdate(w) \/ RevokeWrite(w) \/ RollbackReject(w)
  <2>1. pc[w] \in {"reject", "rv_write", "rb_reject"} /\ UNCHANGED <<used, count>>
    BY <1>18 DEF RejectUpdate, RevokeWrite, RollbackReject
  <2>2. Open(b) /\ state[b] \in {"pending", "active"} /\ n = count[b]
    BY <1>1, <2>1 DEF AloneInv, GrantedPCs, CopyInv, KeepPCs, DecidePCs, Open
  <2>3. charge[b] = n
    BY <1>1, <1>4, <1>8, <2>1, <2>2 DEF ChargeBy
  <2>4. CASE pc'[w] \in {"release", "rj_release"} /\ num'[w] = n
             /\ state'[b] \in {"rejected", "revoked"}
    BY <1>4, <1>17, <2>1, <2>2, <2>3, <2>4 DEF ChargeBy, DriftPCs
  <2>5. CASE pc'[w] = "idle" /\ UNCHANGED state
    BY <1>4, <1>17, <2>1, <2>2, <2>3, <2>5 DEF Share, Open, DriftPCs
  <2> QED
    BY <1>1, <1>3, <1>18, <2>4, <2>5
    DEF RejectUpdate, RevokeWrite, RollbackReject, SetState, Goto, Return, MayFail
<1>19. CASE ApproveTx(w)
  <2>1. pc[w] = "approve" /\ UNCHANGED <<used, count>> /\ pc'[w] \in {"expand", "idle"}
    BY <1>3, <1>19 DEF ApproveTx, Goto, Return
  <2>2. state[b] = "pending" /\ state'[b] \in {"pending", "active"}
    BY <1>1, <1>3, <1>19, <2>1 DEF ApproveTx, CopyInv, DecidePCs, SetState
  <2>3. charge[b] = count[b] /\ charge'[b] = count[b]
    BY <1>1, <1>4, <2>1, <2>2 DEF ChargeBy, Share, Open
  <2> QED
    BY <1>17, <2>1, <2>2, <2>3 DEF DriftPCs
<1>20. CASE Expand(w) \/ DispatchGuard(w) \/ DispatchInsert(w) \/ RecordLadder(w)
            \/ RevokeQuery(w) \/ RevokePrefix(w)
  <2> DEFINE Settled == {"idle", "expand", "drift_release", "guard", "veto", "insert", "record",
                         "rv_query", "rv_delete", "rv_write"}
  <2>1. UNCHANGED <<state, count, used>> /\ pc[w] \in Settled /\ pc'[w] \in Settled
    BY <1>3, <1>20
    DEF Expand, DispatchGuard, DispatchInsert, RecordLadder, RevokeQuery, RevokePrefix,
      Goto, Return
  <2>2. charge[b] = Share(b) /\ charge'[b] = Share(b)' /\ Share(b)' = Share(b)
    BY <1>1, <1>4, <2>1 DEF ChargeBy, Share, Open
  <2> QED
    BY <1>17, <2>1, <2>2 DEF DriftPCs
<1> QED
  BY <1>9, <1>10, <1>11, <1>12, <1>13, <1>14, <1>15, <1>16, <1>18, <1>19, <1>20 DEF Proceed

------------------------------------------------------------------------------
(* Requests that do not collide *)

LEMMA CopyStep ==
  ASSUME ~Faults, BInv, CountInv, Apart, AloneInv, CopyInv, [Next]_vars
  PROVE  CopyInv'
<1> USE DEF BInv, BTypes, CountInv, table, handlers, executor, maps
<1>0. None \notin Bans \cup Workers
  BY ScopedAssumption DEF ScopedAssumption
<1>1. ASSUME NEW w \in Workers, Proceed(w)
      PROVE  CopyInv'
  <2>1. job[w] \in Bans
    BY <1>1, StepOfOne
  <2>2. pc'[w] \in KeepPCs =>
          num'[w] = num[w] /\ job'[w] = job[w] /\ pc[w] \in KeepPCs /\ UNCHANGED count
    BY <1>1
    DEF KeepPCs, Proceed, ReserveQuota, InsertBan, ReleaseQuota, ApproveTx, Expand, DriftRelease,
      DriftReserve, DriftBack, DriftSave, DispatchGuard, DispatchVeto, DispatchInsert,
      RecordLadder, RejectUpdate, RevokeQuery, RevokePrefix, RevokeWrite, RollbackReject,
      Goto, Return, MayFail
  <2>3. pc'[w] \notin DecidePCs
    BY <1>1
    DEF DecidePCs, Proceed, ReserveQuota, InsertBan, ReleaseQuota, ApproveTx, Expand, DriftRelease,
      DriftReserve, DriftBack, DriftSave, DispatchGuard, DispatchVeto, DispatchInsert,
      RecordLadder, RejectUpdate, RevokeQuery, RevokePrefix, RevokeWrite, RollbackReject,
      Goto, Return
  <2>4. pc'[w] \in {"release", "rj_release"} => state'[job[w]] \in {"rejected", "revoked"}
    BY <1>1, <2>1
    DEF Proceed, ReserveQuota, InsertBan, ReleaseQuota, ApproveTx, Expand, DriftRelease,
      DriftReserve, DriftBack, DriftSave, DispatchGuard, DispatchVeto, DispatchInsert,
      RecordLadder, RejectUpdate, RevokeQuery, RevokePrefix, RevokeWrite, RollbackReject,
      Goto, Return, SetState, MayFail
  <2>5. \/ UNCHANGED decideMu /\ (pc'[w] \in LockPCs => pc[w] \in LockPCs)
        \/ pc[w] \in LockPCs /\ pc'[w] = "idle"
    BY <1>1
    DEF LockPCs, Proceed, ReserveQuota, InsertBan, ReleaseQuota, ApproveTx, Expand, DriftRelease,
      DriftReserve, DriftBack, DriftSave, DispatchGuard, DispatchVeto, DispatchInsert,
      RecordLadder, RejectUpdate, RevokeQuery, RevokePrefix, RevokeWrite, RollbackReject,
      Goto, Return, Unlock
  <2>6. pc'[w] = "idle" => job'[w] = None
    BY <1>1, QuotaStepOfOne
  <2>7. /\ pc'[w] = "idle" => job'[w] = None
        /\ pc'[w] \in LockPCs => decideMu' = w
        /\ pc'[w] \in KeepPCs => num'[w] = count'[job'[w]]
        /\ pc'[w] \in DecidePCs => state'[job'[w]] = "pending"
        /\ pc'[w] \in {"release", "rj_release"} => ~Open(job[w])' /\ job'[w] = job[w]
    BY <2>2, <2>3, <2>4, <2>5, <2>6 DEF CopyInv, Open, KeepPCs, LockPCs
  <2>8. ASSUME NEW v \in Workers \ {w}
        PROVE  /\ pc'[v] = "idle" => job'[v] = None
               /\ pc'[v] \in LockPCs => decideMu' = v
               /\ pc'[v] \in KeepPCs => num'[v] = count'[job'[v]]
               /\ pc'[v] \in DecidePCs => state'[job'[v]] = "pending"
               /\ pc'[v] \in {"release", "rj_release"} =>
                    state'[job'[v]] = state[job[v]] /\ ~Open(job[v])
    <3>1. pc'[v] = pc[v] /\ job'[v] = job[v] /\ num'[v] = num[v]
      BY <1>1, StepOfOne, QuotaStepOfOne
    <3>2. pc[v] # "idle" => state'[job[v]] = state[job[v]] /\ count'[job[v]] = count[job[v]]
      BY <1>1, StepOfOne, QuotaStepOfOne, OtherBans
    <3>3. pc[v] \in LockPCs => UNCHANGED decideMu
      BY <2>5 DEF CopyInv
    <3> QED
      BY <3>1, <3>2, <3>3 DEF CopyInv, LockPCs, KeepPCs, DecidePCs
  <2> QED
    BY <2>7, <2>8 DEF CopyInv, Open
<1>2. ASSUME NEW w \in Workers, NEW b \in Bans, Serve(w, b)
      PROVE  CopyInv'
  <2>1. /\ pc[w] = "idle" /\ job'[w] = b /\ UNCHANGED <<state, count>>
        /\ pc'[w] \in {"reserve", "approve", "reject", "rv_query", "rb_reject"}
        /\ pc'[w] # "reserve" => num'[w] = count[b]
        /\ pc'[w] \in DecidePCs => state[b] = "pending"
        /\ \A v \in Workers \ {w} : pc'[v] = pc[v] /\ job'[v] = job[v] /\ num'[v] = num[v]
    BY <1>2
    DEF Serve, ScopedBanCreate, ScopedBanApprove, ScopedBanReject, ScopedBanRevoke,
      LookupRollbackPending, Begin, IsPending, DecidePCs
  <2>2. \/ UNCHANGED decideMu /\ pc'[w] \notin LockPCs
        \/ decideMu = None /\ decideMu' = w
    BY <1>2
    DEF Serve, ScopedBanCreate, ScopedBanApprove, ScopedBanReject, ScopedBanRevoke,
      LookupRollbackPending, Begin, Lock, LockPCs
  <2> QED
    BY <1>0, <2>1, <2>2 DEF CopyInv, Open, KeepPCs
<1>3. CASE Restart
  BY <1>3 DEF Restart, CopyInv, LockPCs, KeepPCs, DecidePCs
<1>4. CASE UNCHANGED <<state, count, handlers>>
  BY <1>4 DEF CopyInv, Open
<1> QED
  BY <1>1, <1>2, <1>3, <1>4
  DEF Next, Execute, Poll, Apply, PutPrefix, Mark, Reload, EditProtected, vars

\* A step that changes neither the table nor the tracker, nor what is counted.
LEMMA LedgerSame ==
  ASSUME LedgerInv, charge' = charge, UNCHANGED <<state, count, used>>,
         \A v \in Workers :
           pc'[v] \in DriftPCs => pc'[v] = pc[v] /\ job'[v] = job[v] /\ num'[v] = num[v]
  PROVE  LedgerInv'
<1>1. \A pool : Counted(pool)' = Counted(pool) /\ Kept(pool)' = Kept(pool)
  BY DEF Counted, Kept, Claims, InPool, Pool, Global
<1>2. \A pool \in Pools : LedgerAt(pool)'
  BY <1>1 DEF LedgerInv, LedgerAt
<1>3. \A v \in Workers : ExchangeAt(v)'
  BY DEF LedgerInv, ExchangeAt, Pool, Global
<1> QED
  BY <1>2, <1>3 DEF LedgerInv, Pools

\* A request that begins changes nothing.
LEMMA LedgerServe ==
  ASSUME BInv, CountInv, Apart, Apart', CopyInv, LedgerInv,
         NEW w \in Workers, NEW b \in Bans, Serve(w, b)
  PROVE  LedgerInv'
<1> USE DEF BInv, BTypes, CountInv, handlers, table
<1>1. /\ pc[w] = "idle" /\ job'[w] = b /\ UNCHANGED <<state, count, used>>
      /\ pc'[w] \in {"reserve", "approve", "reject", "rv_query", "rb_reject"}
  BY DEF Serve, ScopedBanCreate, ScopedBanApprove, ScopedBanReject, ScopedBanRevoke,
    LookupRollbackPending, Begin
<1>2. \A v \in Workers \ {w} : /\ pc'[v] = pc[v] /\ job'[v] = job[v]
                                /\ num'[v] = num[v] /\ todo'[v] = todo[v]
  <2>1. \E at, n, ps : Begin(w, at, b, n, ps)
    BY DEF Serve, ScopedBanCreate, ScopedBanApprove, ScopedBanReject, ScopedBanRevoke,
      LookupRollbackPending
  <2>2. \A v \in Workers \ {w} : pc'[v] = pc[v] /\ job'[v] = job[v] /\ todo'[v] = todo[v]
    BY <2>1 DEF Begin
  <2>3. \A v \in Workers \ {w} : num'[v] = num[v]
    BY <2>1 DEF Begin
  <2> QED
    BY <2>2, <2>3
<1>3. None \notin Bans /\ job[w] = None
  BY <1>1, ScopedAssumption DEF ScopedAssumption, CopyInv
<1>4. ~Handled(b)
  BY <1>1, <1>2, <1>3 DEF Apart, Handled
<1>5. Handled(b)' /\ Handler(b)' = w
  BY <1>1, <1>3 DEF Apart, Handled, Handler
<1>6. \A c : Share(c)' = Share(c)
  BY <1>1 DEF Share, Open
<1>7. ASSUME NEW c \in Bans
      PROVE  charge'[c] = charge[c]
  <2>1. CASE c = b
    <3>1. ChargeBy(w)' = Share(b)
      BY <1>1 DEF ChargeBy, Share, Open
    <3> QED
      BY <1>4, <1>5, <2>1, <3>1 DEF charge
  <2>2. CASE c # b /\ ~Handled(c)
    <3>1. ~Handled(c)'
      BY <1>1, <1>2, <2>2 DEF Handled
    <3> QED
      BY <1>6, <2>2, <3>1 DEF charge
  <2>3. CASE c # b /\ Handled(c)
    <3>1. PICK v \in Workers : job[v] = c /\ v # w
      BY <1>3, <2>3 DEF Handled
    <3>2. /\ Handled(c) /\ Handler(c) = v
          /\ Handled(c)' /\ Handler(c)' = v
      BY <1>2, <1>3, <3>1 DEF Apart, Handled, Handler
    <3>3. ChargeBy(v)' = ChargeBy(v)
      BY <1>1, <1>2, <1>6, <3>1 DEF ChargeBy, Share, Open
    <3> QED
      BY <3>2, <3>3 DEF charge
  <2> QED
    BY <2>1, <2>2, <2>3
<1>8. charge' = charge
  BY <1>7 DEF charge
<1> QED
  BY <1>1, <1>2, <1>8, LedgerSame DEF DriftPCs

\* Where no handler is in between, what is counted is what is held.
LEMMA SharesAreHeld ==
  ASSUME CountInv, NEW f, \A b \in Bans : f[b] = Share(b), NEW pool
  PROVE  Cardinality(Claims(InPool(pool), f)) = Held(pool)
<1>1. \A b \in Bans : 1 .. Share(b) = IF Open(b) THEN 1 .. count[b] ELSE {}
  BY DEF Share
<1>2. \A b \in InPool(pool) : f[b] = Share(b) /\ (b \in Holders(pool) <=> Open(b))
  BY DEF InPool, Holders
<1>3. Holders(pool) \subseteq InPool(pool) /\ InPool(pool) \subseteq Bans
  BY DEF InPool, Holders
<1>4. Claims(InPool(pool), f) = Claims(Holders(pool), count)
  <2>1. ASSUME NEW b \in InPool(pool), NEW i \in 1 .. f[b]
        PROVE  b \in Holders(pool) /\ i \in 1 .. count[b]
    BY <1>1, <1>2, <1>3
  <2>2. ASSUME NEW b \in Holders(pool), NEW i \in 1 .. count[b]
        PROVE  b \in InPool(pool) /\ i \in 1 .. f[b]
    BY <1>1, <1>2, <1>3
  <2> QED
    BY <2>1, <2>2 DEF Claims
<1> QED
  BY <1>4 DEF Held

\* Outside an exchange at least as much is counted for a ban as it holds.
LEMMA ChargeCovers ==
  ASSUME BInv, CountInv, Apart, CopyInv, NEW b \in Bans, Open(b),
         \A w \in Workers : job[w] = b => pc[w] \notin DriftPCs
  PROVE  count[b] <= charge[b]
<1>1. Share(b) = count[b] /\ count[b] \in Nat
  BY ShareType DEF Share
<1>2. CASE ~Handled(b)
  BY <1>1, <1>2 DEF charge
<1>3. ASSUME NEW w \in Workers, job[w] = b
      PROVE  count[b] <= charge[b]
  <2>1. charge[b] = ChargeBy(w)
    BY <1>3, ChargeOf
  <2>2. pc[w] \notin {"create", "release", "rj_release"} \cup DriftPCs
    BY <1>3 DEF BInv, JobInv, SubmitPCs, CopyInv, Open
  <2> QED
    BY <1>1, <1>3, <2>1, <2>2 DEF ChargeBy, DriftPCs
<1> QED
  BY <1>2, <1>3 DEF Handled

\* Whatever the handlers are about to do, the open bans hold no more than the mark:
\* in the exchange of a reservation there is room for the old one.
LEMMA HeldUnderMark ==
  ASSUME BInv, CountInv, Apart, CopyInv, LedgerInv, NEW pool \in Pools
  PROVE  Held(pool) <= HighWater[pool]
<1> DEFINE S == InPool(pool)
           R == Holders(pool)
           f == charge
<1>1. S \in SUBSET Bans /\ R \in SUBSET S /\ \A b \in R : b \in Bans /\ Open(b)
  BY DEF InPool, Holders
<1>2. count \in [Bans -> 0 .. MaxCount] /\ f \in [Bans -> 0 .. MaxCount]
  BY ChargeTypes DEF CountInv
<1>3. /\ Held(pool) \in Nat /\ used[pool] \in Nat /\ HighWater[pool] \in Nat
      /\ Cardinality(Claims(S, f)) <= used[pool] /\ used[pool] <= HighWater[pool]
  BY <1>2, HeldIsNat, ScopedAssumption DEF ScopedAssumption, CountInv, LedgerInv, LedgerAt, Counted
<1>4. Held(pool) = Cardinality(Claims(R, count))
  BY DEF Held
<1>5. CASE \A w \in Workers : pc[w] \in DriftPCs => Pool(job[w]) # pool
  <2>1. \A b \in R : count[b] <= f[b]
    BY <1>1, <1>5, ChargeCovers DEF Holders
  <2> HIDE DEF S, R, f
  <2>2. Cardinality(Claims(R, count)) <= Cardinality(Claims(S, f)) /\ Cardinality(Claims(S, f)) \in Nat
    BY <1>1, <1>2, <2>1, ClaimsGrow, ClaimsFinite
  <2> QED
    BY <1>3, <1>4, <2>2
<1>6. ASSUME NEW w \in Workers, pc[w] \in DriftPCs, Pool(job[w]) = pool
      PROVE  Held(pool) <= HighWater[pool]
  <2>1. PICK b \in Bans : b = job[w]
    BY <1>6 DEF BInv, JobInv, DriftPCs
  <2> DEFINE g == [f EXCEPT ![b] = num[w]]
  <2>2. /\ num[w] = count[b] /\ num[w] \in 0 .. MaxCount /\ num[w] \in Nat
        /\ used[pool] + num[w] <= HighWater[pool] + f[b]
    BY <1>6, <2>1, PrefixCounts DEF CountInv, CopyInv, KeepPCs, DriftPCs, LedgerInv, ExchangeAt
  <2>3. \A v \in Workers \ {w} : pc[v] \notin DriftPCs
    BY <1>6 DEF CopyInv, LockPCs, DriftPCs
  <2>4. ASSUME NEW c \in R
        PROVE  count[c] <= g[c]
    <3>1. CASE c = b
      BY <1>2, <2>2, <3>1
    <3>2. CASE c # b
      <4>1. count[c] <= f[c]
        BY <1>1, <2>1, <2>3, <3>2, ChargeCovers
      <4> QED
        BY <1>1, <1>2, <3>2, <4>1
    <3> QED
      BY <3>1, <3>2
  <2>5. g \in [Bans -> 0 .. MaxCount] /\ g[b] = num[w] /\ \A c \in Bans \ {b} : g[c] = f[c]
    BY <1>2, <2>2
  <2>6. b \in S
    BY <1>6, <2>1 DEF InPool
  <2> HIDE DEF S, R, f, g
  <2>7. Cardinality(Claims(R, count)) <= Cardinality(Claims(S, g))
    BY <1>1, <1>2, <2>4, <2>5, ClaimsGrow
  <2>8. /\ f[b] \in Nat /\ Cardinality(Claims(S, f)) \in Nat /\ Cardinality(Claims(S, g)) \in Nat
        /\ f[b] <= Cardinality(Claims(S, f))
        /\ Cardinality(Claims(S, g)) = (Cardinality(Claims(S, f)) - f[b]) + g[b]
    BY <1>1, <1>2, <2>5, <2>6, ClaimsChange
  <2> QED
    BY <1>3, <1>4, <2>2, <2>5, <2>7, <2>8
<1> QED
  BY <1>5, <1>6

\* The next start counts what the table holds.
LEMMA LedgerRestart ==
  ASSUME BInv, CountInv, Apart, CopyInv, LedgerInv, Restart
  PROVE  LedgerInv'
<1>1. /\ UNCHANGED <<state, count>> /\ used' = [pool \in Pools |-> Held(pool)]
      /\ \A w \in Workers : pc'[w] = "idle" /\ job'[w] = None
  BY DEF Restart, table
<1>2. \A b \in Bans : ~Handled(b)' /\ Share(b)' = Share(b)
  BY <1>1, ScopedAssumption DEF ScopedAssumption, Handled, Share, Open
<1>3. \A b \in Bans : charge'[b] = Share(b)
  BY <1>2 DEF charge
<1>4. ASSUME NEW pool \in Pools
      PROVE  LedgerAt(pool)'
  <2>1. Counted(pool)' = Cardinality(Claims(InPool(pool), charge'))
    BY DEF Counted, Claims, InPool, Pool, Global
  <2>2. Counted(pool)' = Held(pool) /\ Held(pool) \in Nat
    BY <1>3, <2>1, SharesAreHeld, HeldIsNat DEF CountInv
  <2>3. Held(pool) <= HighWater[pool]
    BY HeldUnderMark
  <2>4. Kept(pool)' = Kept(pool) /\ Kept(pool) \in Nat
    BY <1>1, KeptStays
  <2> QED
    BY <1>1, <2>2, <2>3, <2>4 DEF LedgerAt
<1>5. \A w \in Workers : ExchangeAt(w)'
  BY <1>1 DEF ExchangeAt, DriftPCs
<1> QED
  BY <1>4, <1>5 DEF LedgerInv, Pools

LEMMA LedgerStep ==
  ASSUME ~Faults, BInv, CountInv, BInv', CountInv', Apart, Apart', AloneInv, CopyInv, LedgerInv,
         [Next /\ ~Collide]_vars
  PROVE  LedgerInv'
<1>1. ASSUME NEW w \in Workers, Proceed(w), ~Collide
      PROVE  LedgerInv'
  BY <1>1, LedgerProceed
<1>2. ASSUME NEW w \in Workers, NEW b \in Bans, Serve(w, b)
      PROVE  LedgerInv'
  BY <1>2, LedgerServe
<1>3. CASE Restart
  BY <1>3, LedgerRestart
<1>4. CASE UNCHANGED <<state, count, used, handlers>>
  <2>1. charge' = charge
    BY <1>4 DEF charge, Handled, Handler, ChargeBy, Share, Open, handlers
  <2> QED
    BY <1>4, <2>1, LedgerSame DEF handlers
<1> QED
  BY <1>1, <1>2, <1>3, <1>4
  DEF Next, Execute, Poll, Apply, PutPrefix, Mark, Reload, EditProtected, vars, table

LEMMA LedgerInit ==
  ASSUME Init, CountInv
  PROVE  AloneInv /\ CopyInv /\ LedgerInv
<1>1. AloneInv /\ CopyInv
  BY DEF Init, AloneInv, CopyInv, GrantedPCs, DecidePCs, KeepPCs, LockPCs
<1>2. \A b \in Bans : charge[b] = Share(b) /\ ~Open(b)
  BY ScopedAssumption DEF ScopedAssumption, Init, charge, Handled, Open
<1>3. ASSUME NEW pool \in Pools
      PROVE  LedgerAt(pool)
  <2>1. Counted(pool) = Held(pool)
    BY <1>2, SharesAreHeld DEF Counted
  <2>2. Holders(pool) = {}
    BY <1>2 DEF Holders
  <2>3. Held(pool) = 0 /\ used[pool] = 0
    BY <2>2, FS_EmptySet DEF Init, Held, Claims
  <2>4. Kept(pool) \in Nat
    BY KeptIsNat
  <2> QED
    BY <2>1, <2>3, <2>4, ScopedAssumption DEF ScopedAssumption, LedgerAt
<1>4. \A w \in Workers : ExchangeAt(w)
  BY DEF Init, ExchangeAt, DriftPCs
<1> QED
  BY <1>1, <1>3, <1>4 DEF LedgerInv

LEMMA LedgerCorrect ==
  ASSUME ~Faults
  PROVE  ApartSpec => [](BInv /\ CountInv /\ Apart /\ CopyInv /\ LedgerInv)
<1>1. Init /\ CountInv => AloneInv /\ CopyInv /\ LedgerInv
  BY LedgerInit
<1>2. BInv /\ CountInv /\ Apart /\ AloneInv /\ CopyInv /\ [Next]_vars => AloneInv' /\ CopyInv'
  BY AloneStep, CopyStep
<1>3. BInv /\ CountInv /\ BInv' /\ CountInv' /\ Apart /\ Apart' /\ AloneInv /\ CopyInv
        /\ LedgerInv /\ [Next /\ ~Collide]_vars => LedgerInv'
  BY LedgerStep
<1> QED
  BY ScopedInvariantCorrect, CountCorrect, ApartIsKept, <1>1, <1>2, <1>3, PTL DEF Spec, ApartSpec

\* Without faults, and while no two requests collide, whenever no request is being
\* served the tracker counts what the open bans hold, for any number of bans and
\* workers and any sequence of submissions, decisions, drifts, rollbacks and
\* restarts: nothing is given back twice or kept, except what a vetoed ban had
\* reserved.
THEOREM QuotaExact ==
  ASSUME ~Faults
  PROVE  ApartSpec => []QuotaIsExact
<1>1. ASSUME CountInv, CopyInv, LedgerInv
      PROVE  QuotaIsExact
  <2> SUFFICES ASSUME Idle, NEW pool \in Pools
               PROVE  Held(pool) <= used[pool] /\ used[pool] <= Held(pool) + Kept(pool)
    BY DEF QuotaIsExact
  <2>1. \A b \in Bans : charge[b] = Share(b)
    BY <1>1, ScopedAssumption DEF ScopedAssumption, Idle, CopyInv, charge, Handled
  <2>2. Counted(pool) = Held(pool)
    BY <1>1, <2>1, SharesAreHeld DEF Counted
  <2> QED
    BY <1>1, <2>2 DEF LedgerInv, LedgerAt
<1> QED
  BY LedgerCorrect, <1>1, PTL

\* Under the same assumptions the open bans never claim more entries than the
\* high-water mark, whatever submissions are reserved in between: the exchange of a
\* drifted reservation, which gives up the old one first, always has room to take
\* it back.  Submissions to the pool in the middle of the exchange are the one case
\* left out, and the one that breaks the mark.
THEOREM HighWaterIsKept ==
  ASSUME ~Faults
  PROVE  ApartSpec => []WithinHighWater
<1>1. BInv /\ CountInv /\ Apart /\ CopyInv /\ LedgerInv => WithinHighWater
  BY HeldUnderMark DEF WithinHighWater
<1> QED
  BY LedgerCorrect, <1>1, PTL
=============================================================================
