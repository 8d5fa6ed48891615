----------------------------- MODULE ScopedBans -----------------------------
(***************************************************************************)
(* Scoped bans: every source prefix of a country or AS is banned, towards  *)
(* one protected host or, without a host, everywhere (internal/web         *)
(* scoped.go and the "scoped" branch of lookup.go), against the quota of   *)
(* map entries (internal/quota), down to the executor that writes and the  *)
(* revoker that deletes the entries (internal/dispatch, cmd/xdpban).       *)
(*                                                                         *)
(* A ban here is one submission; what the form says, its host and its      *)
(* selector, is a constant of the ban.  One action is one database         *)
(* statement, one call of the quota tracker or one map operation; what a   *)
(* handler remembers in between is pc, job, num and todo.  An entry of     *)
(* src_ban_global is a key <<Everywhere, p>>, one of src_ban a key         *)
(* <<host, p>>: target ids are handed out one per host and die with the    *)
(* map.                                                                    *)
(***************************************************************************)
EXTENDS Naturals, FiniteSets

CONSTANTS
  Bans,        \* primary keys of scoped_bans
  MaxSubmitted,     \* bound on submissions
  Hosts,       \* protected hosts a ban may be scoped to
  Everywhere,  \* the target of a ban submitted without a host
  TargetOf, ScopeOf, \* what each submission asks for
  Selectors,   \* countries and AS numbers
  Prefixes,    \* source prefixes a selector may resolve to
  PerRuleMax, HighWater, Capacity, \* the limits of quota.go and of the maps
  Workers,     \* goroutines serving HTTP requests
  TopLevel,    \* last index of escalation.Ladder
  BatchLimit,  \* Limit(..) of the executor's query
  Faults,      \* whether single database statements and map writes may fail
  Restarts,    \* whether the process may stop and start again
  Reloads,     \* whether the prefix library changes while bans are open
  Edits,       \* whether the operator edits protected_targets
  None

Pools == {"scoped", "global"}

ASSUME ScopedAssumption ==
  /\ Everywhere \notin Hosts
  /\ TargetOf \in [Bans -> Hosts \cup {Everywhere}]
  /\ ScopeOf \in [Bans -> Selectors]
  /\ IsFiniteSet(Prefixes) /\ IsFiniteSet(Bans)
  /\ MaxSubmitted \in Nat /\ PerRuleMax \in Nat
  /\ HighWater \in [Pools -> Nat] /\ Capacity \in [Pools -> Nat]
  /\ TopLevel \in Nat \ {0} /\ BatchLimit \in Nat \ {0}
  /\ {Faults, Restarts, Reloads, Edits} \subseteq BOOLEAN
  /\ None \notin Bans \cup Workers \cup Nat \cup [Selectors -> SUBSET Prefixes]

VARIABLES
  state,      \* scoped_bans.state, "none" before the row is inserted
  count,      \* scoped_bans.prefix_count
  effective,  \* bans whose effective_at is set
  dispatch,   \* rows of dispatches
  ladder,     \* ban_ladders.level of a host
  protected,  \* hosts and prefixes that overlap an active protected target
  prefixdb,   \* prefixdb.Global(): what each selector resolves to, None unloaded
  used,       \* quota.Tracker: prefixes and globalPrefixes
  decideMu,   \* Handler.decideMu: the worker that holds it
  pc, job,    \* what each worker does next, and for which ban
  num, todo,  \* prefix_count as the handler read it; prefixes left to handle
  batch, cur, left, failed, \* executor: its snapshot, row, prefixes left, outcome
  known,      \* banMaps.targetIDs: hosts with a target id
  kernel      \* src_ban and src_ban_global: the rule id under each key

table == <<state, count, effective>>
handlers == <<decideMu, pc, job, num, todo>>
executor == <<batch, cur, left, failed>>
maps == <<known, kernel>>
vars == <<table, dispatch, ladder, protected, prefixdb, used, handlers, executor, maps>>

INSTANCE PenaltyLadder

BanStates == {"none", "pending", "active", "rejected", "revoked", "safety_blocked"}
Rows == [ban : Bans, prefixes : SUBSET Prefixes, state : {"pending", "acked", "failed"}]
Keys == (Hosts \cup {Everywhere}) \X Prefixes

LockPCs == {"approve", "expand", "drift_release", "drift_reserve", "drift_back",
            "drift_save", "guard", "veto", "insert", "record", "reject", "rj_release"}
FreePCs == {"reserve", "create", "rb_reject", "rv_query", "rv_delete", "rv_write", "release"}
PCs == {"idle"} \cup LockPCs \cup FreePCs

ScopedTypeOK ==
  /\ state \in [Bans -> BanStates]
  /\ count \in [Bans -> 0..Cardinality(Prefixes)]
  /\ effective \in SUBSET Bans
  /\ dispatch \in SUBSET Rows
  /\ ladder \in [Hosts -> Levels \cup {None}]
  /\ protected \in SUBSET (Hosts \cup Prefixes)
  /\ prefixdb \in [Selectors -> SUBSET Prefixes] \cup {None}
  /\ used \in [Pools -> Nat]
  /\ decideMu \in Workers \cup {None}
  /\ pc \in [Workers -> PCs]
  /\ job \in [Workers -> Bans \cup {None}]
  /\ num \in [Workers -> 0..Cardinality(Prefixes)]
  /\ todo \in [Workers -> SUBSET Prefixes]
  /\ batch \in SUBSET Rows
  /\ cur \in Rows \cup {None}
  /\ left \in SUBSET Prefixes
  /\ failed \in BOOLEAN
  /\ known \in SUBSET Hosts
  /\ kernel \in [Keys -> Bans \cup {None}]

Init ==
  /\ state = [b \in Bans |-> "none"]
  /\ count = [b \in Bans |-> 0]
  /\ effective = {}
  /\ dispatch = {}
  /\ ladder = [t \in Hosts |-> None]
  /\ protected \in SUBSET (Hosts \cup Prefixes)
  /\ prefixdb \in [Selectors -> SUBSET Prefixes] \cup {None}
  /\ used = [p \in Pools |-> 0]
  /\ decideMu = None
  /\ pc = [w \in Workers |-> "idle"]
  /\ job = [w \in Workers |-> None]
  /\ num = [w \in Workers |-> 0]
  /\ todo = [w \in Workers |-> {}]
  /\ batch = {} /\ cur = None /\ left = {} /\ failed = FALSE
  /\ known = {}
  /\ kernel = [k \in Keys |-> None]

------------------------------------------------------------------------------
(* Bans and workers *)

Global(b) == TargetOf[b] = Everywhere
Pool(b) == IF Global(b) THEN "global" ELSE "scoped"
Key(b, p) == <<TargetOf[b], p>>
IsPending(b) == state[b] = "pending"

Begin(w, at, b, n, ps) ==
  /\ pc[w] = "idle"
  /\ pc' = [pc EXCEPT ![w] = at]
  /\ job' = [job EXCEPT ![w] = b]
  /\ num' = [num EXCEPT ![w] = n]
  /\ todo' = [todo EXCEPT ![w] = ps]

Goto(w, at) == pc' = [pc EXCEPT ![w] = at] /\ UNCHANGED <<job, num, todo>>

Return(w) ==
  /\ pc' = [pc EXCEPT ![w] = "idle"]
  /\ job' = [job EXCEPT ![w] = None]
  /\ num' = [num EXCEPT ![w] = 0]
  /\ todo' = [todo EXCEPT ![w] = {}]

Lock(w) == decideMu = None /\ decideMu' = w
Unlock(w) == decideMu' = None

MayFail == Faults

SetState(b, s) == state' = [state EXCEPT ![b] = s]

\* AssertSafe of the host, AssertSafeAll of the prefixes of a ban without one.
\* When the query of protected_targets fails only the built-in set is left.
Vetoed(b, ps) ==
  IF Global(b) THEN ps \cap protected # {} ELSE TargetOf[b] \in protected

GuardVerdicts(b, ps) == {Vetoed(b, ps)} \cup (IF Faults THEN {FALSE} ELSE {})

------------------------------------------------------------------------------
(* quota.Tracker *)

\* Variant: no floor.
MinusUnchecked(a, b) == a - b

Minus(a, b) == IF b <= a THEN a - b ELSE 0

Free(pool) == Minus(HighWater[pool], used[pool])

Fits(pool, n) == used[pool] + n <= HighWater[pool]

Reserve(pool, n) == used' = [used EXCEPT ![pool] = @ + n]

\* Release stops at zero instead of going negative.
Release(pool, n) == used' = [used EXCEPT ![pool] = Minus(@, n)]

\* Check measures every ban against the scoped pool, also those without a host.
Allowed(ps) ==
  /\ ps # {}
  /\ Cardinality(ps) <= PerRuleMax
  /\ Cardinality(ps) <= Free("scoped")

Open(b) == state[b] \in {"pending", "active"}

\* The sum of prefix_count over the open bans of a pool: the number of map entries
\* they claim, the i-th entry of ban b being <<b, i>>.
Claims(S, f) == UNION {{b} \X (1 .. f[b]) : b \in S}
Holders(pool) == {b \in Bans : Open(b) /\ Pool(b) = pool}
Held(pool) == Cardinality(Claims(Holders(pool), count))

------------------------------------------------------------------------------
(* scopedBanCreate: guard, resolve and check; reserve; insert *)

Submitted == {b \in Bans : state[b] # "none" \/ \E w \in Workers : job[w] = b}

ScopedBanCreate(w, b) ==
  /\ b \notin Submitted
  /\ Cardinality(Submitted) < MaxSubmitted
  /\ prefixdb # None
  /\ LET cidrs == prefixdb[ScopeOf[b]] IN
     /\ FALSE \in GuardVerdicts(b, cidrs)
     /\ Allowed(cidrs)
     /\ Begin(w, "reserve", b, Cardinality(cidrs), cidrs)
  /\ UNCHANGED <<table, dispatch, ladder, protected, prefixdb, used, decideMu,
                 executor, maps>>

\* Variant: Check has found room, the tracker does not look again.
ReserveQuotaTrusting(w) ==
  /\ pc[w] = "reserve"
  /\ Reserve(Pool(job[w]), num[w])
  /\ Goto(w, "create")
  /\ UNCHANGED <<table, dispatch, ladder, protected, prefixdb, decideMu, executor, maps>>

ReserveQuota(w) ==
  /\ pc[w] = "reserve"
  /\ LET pool == Pool(job[w]) IN
     \/ Fits(pool, num[w]) /\ Reserve(pool, num[w]) /\ Goto(w, "create")
     \/ ~Fits(pool, num[w]) /\ Return(w) /\ UNCHANGED used
  /\ UNCHANGED <<table, dispatch, ladder, protected, prefixdb, decideMu, executor, maps>>

InsertBan(w) ==
  /\ pc[w] = "create"
  /\ \/ /\ SetState(job[w], "pending")
        /\ count' = [count EXCEPT ![job[w]] = num[w]]
        /\ Return(w)
     \/ MayFail /\ Goto(w, "release") /\ UNCHANGED <<state, count>>
  /\ UNCHANGED <<effective, dispatch, ladder, protected, prefixdb, used, decideMu,
                 executor, maps>>

\* Variant: every reservation is given back to the scoped pool.
ReleaseQuotaScopedOnly(w) ==
  /\ \/ pc[w] = "release" /\ UNCHANGED decideMu
     \/ pc[w] = "rj_release" /\ Unlock(w)
  /\ Release("scoped", num[w])
  /\ Return(w)
  /\ UNCHANGED <<table, dispatch, ladder, protected, prefixdb, executor, maps>>

\* The last step of every handler that gives its reservation back.
ReleaseQuota(w) ==
  /\ \/ pc[w] = "release" /\ UNCHANGED decideMu
     \/ pc[w] = "rj_release" /\ Unlock(w)
  /\ Release(Pool(job[w]), num[w])
  /\ Return(w)
  /\ UNCHANGED <<table, dispatch, ladder, protected, prefixdb, executor, maps>>

------------------------------------------------------------------------------
(* scopedBanApprove, under decideMu *)

ScopedBanApprove(w, b) ==
  /\ Begin(w, "approve", b, count[b], {})
  /\ Lock(w)
  /\ IsPending(b)
  /\ UNCHANGED <<table, dispatch, ladder, protected, prefixdb, used, executor, maps>>

\* Variant: the handler forgets to return when the transaction fails.
ApproveTxIgnoringError(w) ==
  /\ pc[w] = "approve"
  /\ \/ /\ IsPending(job[w])
        /\ SetState(job[w], "active")
        /\ effective' = effective \cup {job[w]}
     \/ ~IsPending(job[w]) /\ UNCHANGED <<state, effective>>
  /\ Goto(w, "expand")
  /\ UNCHANGED <<count, dispatch, ladder, protected, prefixdb, used, decideMu,
                 executor, maps>>

ApproveTx(w) ==
  /\ pc[w] = "approve"
  /\ \/ /\ IsPending(job[w])
        /\ SetState(job[w], "active")
        /\ effective' = effective \cup {job[w]}
        /\ Goto(w, "expand")
        /\ UNCHANGED decideMu
     \/ /\ ~IsPending(job[w]) \/ MayFail
        /\ Return(w) /\ Unlock(w)
        /\ UNCHANGED <<state, effective>>
  /\ UNCHANGED <<count, dispatch, ladder, protected, prefixdb, used, executor, maps>>

\* The selector is resolved again; from here on nothing undoes the approval.
Expand(w) ==
  /\ pc[w] = "expand"
  /\ \/ /\ prefixdb # None
        /\ LET cidrs == prefixdb[ScopeOf[job[w]]] IN
           /\ todo' = [todo EXCEPT ![w] = cidrs]
           /\ pc' = [pc EXCEPT ![w] =
                       IF Cardinality(cidrs) = num[w] THEN "guard" ELSE "drift_release"]
        /\ UNCHANGED <<job, num, decideMu>>
     \/ prefixdb = None /\ Return(w) /\ Unlock(w)
  /\ UNCHANGED <<table, dispatch, ladder, protected, prefixdb, used, executor, maps>>

\* The ban drifted: exchange its reservation, in two calls of the tracker.
DriftRelease(w) ==
  /\ pc[w] = "drift_release"
  /\ Release(Pool(job[w]), num[w])
  /\ Goto(w, "drift_reserve")
  /\ UNCHANGED <<table, dispatch, ladder, protected, prefixdb, decideMu, executor, maps>>

DriftReserve(w) ==
  /\ pc[w] = "drift_reserve"
  /\ LET pool == Pool(job[w])
         n == Cardinality(todo[w]) IN
     \/ Fits(pool, n) /\ Reserve(pool, n) /\ Goto(w, "drift_save")
     \/ ~Fits(pool, n) /\ Goto(w, "drift_back") /\ UNCHANGED used
  /\ UNCHANGED <<table, dispatch, ladder, protected, prefixdb, decideMu, executor, maps>>

\* Take the old reservation back, if it still fits: the error is ignored.
DriftBack(w) ==
  /\ pc[w] = "drift_back"
  /\ LET pool == Pool(job[w]) IN
     \/ Fits(pool, num[w]) /\ Reserve(pool, num[w])
     \/ ~Fits(pool, num[w]) /\ UNCHANGED used
  /\ Return(w) /\ Unlock(w)
  /\ UNCHANGED <<table, dispatch, ladder, protected, prefixdb, executor, maps>>

DriftSave(w) ==
  /\ pc[w] = "drift_save"
  /\ \/ count' = [count EXCEPT ![job[w]] = Cardinality(todo[w])]
     \/ MayFail /\ UNCHANGED count
  /\ Goto(w, "guard")
  /\ UNCHANGED <<state, effective, dispatch, ladder, protected, prefixdb, used,
                 decideMu, executor, maps>>

------------------------------------------------------------------------------
(* CreateScopedDispatch, CreateGlobalScopedDispatch and recordLadder *)

\* Variant: the prefixes were checked at submission, they are not checked again.
DispatchGuardTrusting(w) ==
  /\ pc[w] = "guard"
  /\ Goto(w, "insert")
  /\ UNCHANGED <<table, dispatch, ladder, protected, prefixdb, used, decideMu,
                 executor, maps>>

DispatchGuard(w) ==
  /\ pc[w] = "guard"
  /\ \E vetoed \in GuardVerdicts(job[w], todo[w]) :
       Goto(w, IF vetoed THEN "veto" ELSE "insert")
  /\ UNCHANGED <<table, dispatch, ladder, protected, prefixdb, used, decideMu,
                 executor, maps>>

\* A vetoed ban keeps its reservation.
DispatchVeto(w) ==
  /\ pc[w] = "veto"
  /\ \/ SetState(job[w], "safety_blocked")
     \/ MayFail /\ UNCHANGED state
  /\ Return(w) /\ Unlock(w)
  /\ UNCHANGED <<count, effective, dispatch, ladder, protected, prefixdb, used,
                 executor, maps>>

\* ban_id names the ban and, without a host, the prefix; an existing row is kept.
InsertRow(b, ps) ==
  dispatch' = IF \E d \in dispatch : d.ban = b /\ d.prefixes = ps THEN dispatch
              ELSE dispatch \cup {[ban |-> b, prefixes |-> ps, state |-> "pending"]}

\* With a host one row carries all prefixes; without, each prefix has a row.
DispatchInsert(w) ==
  /\ pc[w] = "insert"
  /\ \/ /\ ~Global(job[w])
        /\ InsertRow(job[w], todo[w])
        /\ Goto(w, "record")
        /\ UNCHANGED decideMu
     \/ /\ Global(job[w])
        /\ \E p \in todo[w] :
             /\ InsertRow(job[w], {p})
             /\ todo' = [todo EXCEPT ![w] = @ \ {p}]
        /\ UNCHANGED <<pc, job, num, decideMu>>
     \/ /\ MayFail \/ (Global(job[w]) /\ todo[w] = {})
        /\ Return(w) /\ Unlock(w)
        /\ UNCHANGED dispatch
  /\ UNCHANGED <<table, ladder, protected, prefixdb, used, executor, maps>>

RecordLadder(w) ==
  /\ pc[w] = "record"
  /\ LET t == TargetOf[job[w]] IN
     \/ \E level \in NextLevels(ladder[t]) : ladder' = [ladder EXCEPT ![t] = level]
     \/ MayFail /\ UNCHANGED ladder
  /\ Return(w) /\ Unlock(w)
  /\ UNCHANGED <<table, dispatch, protected, prefixdb, used, executor, maps>>

------------------------------------------------------------------------------
(* scopedBanReject, under decideMu *)

ScopedBanReject(w, b) ==
  /\ Begin(w, "reject", b, count[b], {})
  /\ Lock(w)
  /\ IsPending(b)
  /\ UNCHANGED <<table, dispatch, ladder, protected, prefixdb, used, executor, maps>>

RejectUpdate(w) ==
  /\ pc[w] = "reject"
  /\ \/ /\ IsPending(job[w])
        /\ SetState(job[w], "rejected")
        /\ Goto(w, "rj_release")
        /\ UNCHANGED decideMu
     \/ /\ ~IsPending(job[w]) \/ MayFail
        /\ Return(w) /\ Unlock(w)
        /\ UNCHANGED state
  /\ UNCHANGED <<count, effective, dispatch, ladder, protected, prefixdb, used,
                 executor, maps>>

------------------------------------------------------------------------------
(* scopedBanRevoke and lookupRollback, without the lock *)

RowPrefixes(b) == UNION {d.prefixes : d \in {r \in dispatch : r.ban = b}}

\* The branch of an active ban, common to both handlers.
ScopedBanRevoke(w, b) ==
  /\ state[b] = "active"
  /\ Begin(w, "rv_query", b, count[b], {})
  /\ UNCHANGED <<table, dispatch, ladder, protected, prefixdb, used, decideMu,
                 executor, maps>>

\* A failing query is an error for a ban without a host; for a host it is taken for
\* a ban that has no row, which is then revoked with its entries in the map.
RevokeQuery(w) ==
  /\ pc[w] = "rv_query"
  /\ \/ /\ pc' = [pc EXCEPT ![w] = "rv_delete"]
        /\ todo' = [todo EXCEPT ![w] = RowPrefixes(job[w])]
        /\ UNCHANGED <<job, num>>
     \/ MayFail /\ ~Global(job[w]) /\ Goto(w, "rv_delete")
     \/ MayFail /\ Global(job[w]) /\ Return(w)
  /\ UNCHANGED <<table, dispatch, ladder, protected, prefixdb, used, decideMu,
                 executor, maps>>

\* RevokeScoped returns at once for a host without a target id.
RevokePrefix(w) ==
  /\ pc[w] = "rv_delete"
  /\ LET b == job[w]
         done == todo[w] = {} \/ TargetOf[b] \notin known \cup {Everywhere} IN
     \/ done /\ Goto(w, "rv_write") /\ UNCHANGED kernel
     \/ /\ ~done
        /\ \E p \in todo[w] :
             /\ kernel' = [kernel EXCEPT ![Key(b, p)] = None]
             /\ todo' = [todo EXCEPT ![w] = @ \ {p}]
        /\ UNCHANGED <<pc, job, num>>
     \/ ~done /\ MayFail /\ Return(w) /\ UNCHANGED kernel
  /\ UNCHANGED <<table, dispatch, ladder, protected, prefixdb, used, decideMu,
                 executor, known>>

\* The update names the row by id only, and its error is ignored.
RevokeWrite(w) ==
  /\ pc[w] = "rv_write"
  /\ SetState(job[w], "revoked") \/ (MayFail /\ UNCHANGED state)
  /\ Goto(w, "release")
  /\ UNCHANGED <<count, effective, dispatch, ladder, protected, prefixdb, used,
                 decideMu, executor, maps>>

LookupRollbackPending(w, b) ==
  /\ IsPending(b)
  /\ Begin(w, "rb_reject", b, count[b], {})
  /\ UNCHANGED <<table, dispatch, ladder, protected, prefixdb, used, decideMu,
                 executor, maps>>

RollbackReject(w) ==
  /\ pc[w] = "rb_reject"
  /\ SetState(job[w], "rejected") \/ (MayFail /\ UNCHANGED state)
  /\ Goto(w, "release")
  /\ UNCHANGED <<count, effective, dispatch, ladder, protected, prefixdb, used,
                 decideMu, executor, maps>>

------------------------------------------------------------------------------
(* pollAndExecute *)

Waiting == {d \in dispatch : d.state = "pending"}

Poll ==
  /\ batch = {}
  /\ \E page \in SUBSET Waiting :
       /\ page # {}
       /\ \/ page = Waiting /\ Cardinality(page) <= BatchLimit
          \/ Cardinality(page) = BatchLimit
       /\ batch' = page
  /\ UNCHANGED <<table, dispatch, ladder, protected, prefixdb, used, handlers,
                 cur, left, failed, maps>>

\* ensureTarget: the host's target id is in target_hosts before any of its keys.
Apply(d) ==
  /\ cur = None
  /\ d \in batch
  /\ cur' = d
  /\ \/ /\ left' = d.prefixes /\ failed' = FALSE
        /\ known' = known \cup ({TargetOf[d.ban]} \ {Everywhere})
     \/ /\ MayFail /\ ~Global(d.ban) /\ TargetOf[d.ban] \notin known
        /\ left' = {} /\ failed' = TRUE
        /\ UNCHANGED known
  /\ UNCHANGED <<table, dispatch, ladder, protected, prefixdb, used, handlers,
                 batch, kernel>>

Occupied(pool) ==
  {k \in Keys : kernel[k] # None /\ (k[1] = Everywhere <=> pool = "global")}

Full(b, p) ==
  kernel[Key(b, p)] = None /\ Cardinality(Occupied(Pool(b))) >= Capacity[Pool(b)]

\* Variant: a prefix that cannot be written is skipped.
PutPrefixSkipping(p) ==
  /\ cur # None
  /\ p \in left
  /\ left' = left \ {p}
  /\ LET b == cur.ban IN
     \/ ~Full(b, p) /\ kernel' = [kernel EXCEPT ![Key(b, p)] = b]
     \/ (MayFail \/ Full(b, p)) /\ UNCHANGED kernel
  /\ UNCHANGED <<table, dispatch, ladder, protected, prefixdb, used, handlers,
                 batch, cur, failed, known>>

\* The first prefix that cannot be written ends the row; those before it stay.
PutPrefix(p) ==
  /\ cur # None
  /\ p \in left
  /\ LET b == cur.ban IN
     \/ /\ ~Full(b, p)
        /\ kernel' = [kernel EXCEPT ![Key(b, p)] = b]
        /\ left' = left \ {p}
        /\ UNCHANGED failed
     \/ /\ MayFail \/ Full(b, p)
        /\ left' = {} /\ failed' = TRUE
        /\ UNCHANGED kernel
  /\ UNCHANGED <<table, dispatch, ladder, protected, prefixdb, used, handlers,
                 batch, cur, known>>

Mark ==
  /\ cur # None
  /\ left = {}
  /\ \/ dispatch' = (dispatch \ {cur}) \cup
                      {[cur EXCEPT !.state = IF failed THEN "failed" ELSE "acked"]}
     \/ MayFail /\ UNCHANGED dispatch
  /\ batch' = batch \ {cur}
  /\ cur' = None /\ failed' = FALSE
  /\ UNCHANGED <<table, ladder, protected, prefixdb, used, handlers, left, maps>>

------------------------------------------------------------------------------
(* The environment *)

\* A sync, an upload or new overrides.
Reload ==
  /\ Reloads
  /\ prefixdb' \in [Selectors -> SUBSET Prefixes]
  /\ UNCHANGED <<table, dispatch, ladder, protected, used, handlers, executor, maps>>

EditProtected(x) ==
  /\ Edits
  /\ protected' = IF x \in protected THEN protected \ {x} ELSE protected \cup {x}
  /\ UNCHANGED <<table, dispatch, ladder, prefixdb, used, handlers, executor, maps>>

\* restoreQuota rebuilds the tracker from the table, the maps start empty.
Restart ==
  /\ Restarts
  /\ used' = [pool \in Pools |-> Held(pool)]
  /\ \/ Reloads /\ prefixdb' \in [Selectors -> SUBSET Prefixes] \cup {None}
     \/ ~Reloads /\ UNCHANGED prefixdb
  /\ decideMu' = None
  /\ pc' = [w \in Workers |-> "idle"]
  /\ job' = [w \in Workers |-> None]
  /\ num' = [w \in Workers |-> 0]
  /\ todo' = [w \in Workers |-> {}]
  /\ batch' = {} /\ cur' = None /\ left' = {} /\ failed' = FALSE
  /\ known' = {}
  /\ kernel' = [k \in Keys |-> None]
  /\ UNCHANGED <<table, dispatch, ladder, protected>>

------------------------------------------------------------------------------
Proceed(w) ==
  \/ ReserveQuota(w) \/ InsertBan(w) \/ ReleaseQuota(w)
  \/ ApproveTx(w) \/ Expand(w)
  \/ DriftRelease(w) \/ DriftReserve(w) \/ DriftBack(w) \/ DriftSave(w)
  \/ DispatchGuard(w) \/ DispatchVeto(w) \/ DispatchInsert(w) \/ RecordLadder(w)
  \/ RejectUpdate(w)
  \/ RevokeQuery(w) \/ RevokePrefix(w) \/ RevokeWrite(w) \/ RollbackReject(w)

Serve(w, b) ==
  \/ ScopedBanCreate(w, b)
  \/ ScopedBanApprove(w, b)
  \/ ScopedBanReject(w, b)
  \/ ScopedBanRevoke(w, b)
  \/ LookupRollbackPending(w, b)

Execute ==
  \/ Poll
  \/ \E d \in batch : Apply(d)
  \/ \E p \in left : PutPrefix(p)
  \/ Mark

Next ==
  \/ \E w \in Workers : Proceed(w)
  \/ \E w \in Workers, b \in Bans : Serve(w, b)
  \/ Execute
  \/ Reload
  \/ \E x \in Hosts \cup Prefixes : EditProtected(x)
  \/ Restart

Spec == Init /\ [][Next]_vars

\* The accounting does not survive two interleavings of requests: two that are about
\* the same ban, whose reservation each of them gives back, and a submission that
\* reserves what the exchange of a drifted ban has just released and not yet
\* written off in the table.
DriftPCs == {"drift_reserve", "drift_back", "drift_save"}

Collide ==
  \/ \E v, w \in Workers : v # w /\ job'[v] = job'[w] /\ job'[v] # None
  \/ \E v, w \in Workers : /\ pc[v] \in DriftPCs
                           /\ pc[w] = "reserve" /\ pc'[w] = "create"
                           /\ Pool(job[v]) = Pool(job[w])

\* Any number of requests at once, none of which collide.
ApartSpec == Init /\ [][Next /\ ~Collide]_vars

------------------------------------------------------------------------------
(* Properties *)

Idle == \A w \in Workers : pc[w] = "idle"

\* What the vetoed bans of a pool had reserved.
Kept(pool) == Cardinality(Claims({b \in Bans : state[b] = "safety_blocked" /\ Pool(b) = pool}, count))

\* What is counted is what is held.  Whatever submissions, decisions and rollbacks
\* that do not collide, the executor, the prefix library and restarts do, a
\* reservation is never lost, and no more is counted than what open bans hold and
\* vetoed bans had reserved.
QuotaIsExact ==
  Idle => \A pool \in Pools :
    Held(pool) <= used[pool] /\ used[pool] <= Held(pool) + Kept(pool)

\* "已用 ... / 水位线 ... 预留 ... 条" (templates_scoped.go): the open bans claim no
\* more entries than the high-water mark, the room above it is kept free.  It takes
\* two requests that collide to break it.
WithinHighWater == Idle => \A pool \in Pools : Held(pool) <= HighWater[pool]

\* The prefixes checked against the protected set are those dispatched, although
\* the prefix library may have changed since submission.
ProtectedNeverDispatched == \A d \in dispatch : ~Vetoed(d.ban, d.prefixes)

\* An acknowledged row is in the map to its last prefix, although each prefix is a
\* write of its own and the map may be full: a key that is missing when the row is
\* acknowledged was taken out again, by a rollback of a ban that shares it.
TakenOut(k) ==
  \E d \in dispatch : /\ k \in {Key(d.ban, p) : p \in d.prefixes}
                     /\ \/ state[d.ban] = "revoked"
                        \/ \E w \in Workers : job[w] = d.ban /\ pc[w] \in {"rv_delete", "rv_write"}

AckedIsComplete ==
  [][\A d \in dispatch' \ dispatch : d.state = "acked" =>
       \A p \in d.prefixes : kernel[Key(d.ban, p)] # None \/ TakenOut(Key(d.ban, p))]_vars

\* Scoped bans keep the promise of ApprovalGate as well; a slot is a key.
GateOf(b) ==
  CASE b \in effective -> "granted"
    [] b \notin effective /\ state[b] = "none" -> "absent"
    [] b \notin effective /\ state[b] = "pending" -> "open"
    [] OTHER -> "refused"

Gate == INSTANCE ApprovalGate
          WITH Requests <- Bans, Slots <- Keys,
               gate <- [b \in Bans |-> GateOf(b)], live <- kernel

ImplementsApprovalGate == Gate!Spec

==============================================================================
