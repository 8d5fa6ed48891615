-------------------------- MODULE ScopedBansProofs --------------------------
(***************************************************************************)
(* Theorems about ScopedBans for any number of bans, prefixes and workers. *)
(* The invariant below leaves the quota tracker aside: what it counts is a *)
(* sum over the bans, about which ScopedQuotaProofs has its own lemmas.    *)
(***************************************************************************)
EXTENDS ScopedBans, TLAPS

------------------------------------------------------------------------------
(* The inductive invariant *)

\* The types the approval depends on.
BTypes ==
  /\ state \in [Bans -> BanStates]
  /\ effective \in SUBSET Bans
  /\ dispatch \in SUBSET Rows
  /\ prefixdb \in [Selectors -> SUBSET Prefixes] \cup {None}
  /\ pc \in [Workers -> PCs]
  /\ job \in [Workers -> Bans \cup {None}]
  /\ todo \in [Workers -> SUBSET Prefixes]
  /\ batch \in SUBSET Rows
  /\ cur \in Rows \cup {None}
  /\ left \in SUBSET Prefixes
  /\ kernel \in [Keys -> Bans \cup {None}]

\* Steps of a submission, and those that follow a grant.
SubmitPCs == {"reserve", "create"}
GrantedPCs == {"expand", "drift_release", "drift_reserve", "drift_back", "drift_save",
               "guard", "veto", "insert", "record", "rv_query", "rv_delete", "rv_write"}
DecidePCs == {"approve", "reject", "rb_reject"}

\* A ban is submitted by one worker, and only granted bans get further.
JobInv ==
  \A w \in Workers :
    /\ pc[w] # "idle" => job[w] \in Bans
    /\ pc[w] \in SubmitPCs =>
         state[job[w]] = "none" /\ \A v \in Workers : v # w => job[v] # job[w]
    /\ pc[w] \in DecidePCs => state[job[w]] # "none"
    /\ pc[w] \in GrantedPCs => job[w] \in effective

\* A ban takes effect once, and only then has rows.
StatesInv ==
  /\ \A b \in effective : state[b] \notin {"none", "pending"}
  /\ \A b \in Bans : state[b] = "active" => b \in effective

GrantInv ==
  /\ StatesInv
  /\ \A d \in dispatch : d.ban \in effective

\* The executor works on rows of bans that took effect.
PageInv ==
  /\ \A d \in batch : d.ban \in effective
  /\ cur # None => cur \in batch

BInv == BTypes /\ JobInv /\ GrantInv /\ PageInv

LEMMA BInit == Init => BInv
<1> SUFFICES ASSUME Init PROVE BInv
  OBVIOUS
<1>1. BTypes
  BY DEF Init, BTypes, BanStates, PCs
<1> QED
  BY <1>1 DEF Init, BInv, JobInv, GrantInv, StatesInv, PageInv, SubmitPCs, DecidePCs, GrantedPCs

\* The keys of a ban are keys of the maps.
LEMMA KeyInKeys ==
  ASSUME NEW b \in Bans, NEW p \in Prefixes
  PROVE  Key(b, p) \in Keys
BY ScopedAssumption DEF ScopedAssumption, Key, Keys

LEMMA BTypesStep ==
  ASSUME BInv, [Next]_vars
  PROVE  BTypes'
<1> USE DEF BInv, BTypes, BanStates, PCs, LockPCs, FreePCs, table, handlers, executor, maps
<1>1. ASSUME NEW w \in Workers, Proceed(w)
      PROVE  BTypes'
  <2>1. CASE ReserveQuota(w)
    BY <2>1 DEF ReserveQuota, Goto, Return
  <2>2. CASE InsertBan(w)
    BY <2>2 DEF InsertBan, SetState, Goto, Return
  <2>3. CASE ReleaseQuota(w)
    BY <2>3 DEF ReleaseQuota, Return
  <2>4. CASE ApproveTx(w)
    BY <2>4 DEF ApproveTx, SetState, Goto, Return, JobInv
  <2>5. CASE Expand(w)
    <3>1. job[w] \in Bans
      BY <2>5 DEF Expand, JobInv
    <3>2. prefixdb # None => prefixdb[ScopeOf[job[w]]] \in SUBSET Prefixes
      BY <3>1, ScopedAssumption DEF ScopedAssumption
    <3>3. CASE prefixdb # None
      <4> DEFINE cidrs == prefixdb[ScopeOf[job[w]]]
                 at == IF Cardinality(cidrs) = num[w] THEN "guard" ELSE "drift_release"
      <4>1. todo' = [todo EXCEPT ![w] = cidrs] /\ pc' = [pc EXCEPT ![w] = at]
        BY <2>5, <3>3 DEF Expand
      <4>2. at \in PCs
        OBVIOUS
      <4> HIDE DEF cidrs, at
      <4> QED
        BY <2>5, <3>2, <3>3, <4>1, <4>2 DEF Expand, cidrs
    <3>4. CASE prefixdb = None
      BY <2>5, <3>4 DEF Expand, Return
    <3> QED
      BY <3>3, <3>4
  <2>6. CASE DriftRelease(w) \/ DriftReserve(w) \/ DriftSave(w)
    BY <2>6 DEF DriftRelease, DriftReserve, DriftSave, Goto
  <2>7. CASE DriftBack(w)
    BY <2>7 DEF DriftBack, Return
  <2>8. CASE DispatchGuard(w)
    BY <2>8 DEF DispatchGuard, Goto
  <2>9. CASE DispatchVeto(w)
    BY <2>9 DEF DispatchVeto, SetState, Return
  <2>10. CASE DispatchInsert(w)
    <3>1. job[w] \in Bans /\ todo[w] \in SUBSET Prefixes
      BY <2>10 DEF DispatchInsert, JobInv
    <3>2. ASSUME NEW ps \in SUBSET Prefixes, InsertRow(job[w], ps)
          PROVE  dispatch' \in SUBSET Rows
      BY <3>1, <3>2 DEF InsertRow, Rows
    <3>3. dispatch' \in SUBSET Rows
      <4>1. CASE InsertRow(job[w], todo[w])
        BY <3>1, <3>2, <4>1
      <4>2. ASSUME NEW p \in todo[w], InsertRow(job[w], {p})
            PROVE  dispatch' \in SUBSET Rows
        BY <3>1, <3>2, <4>2
      <4>3. CASE UNCHANGED dispatch
        BY <4>3
      <4> QED
        BY <2>10, <4>1, <4>2, <4>3 DEF DispatchInsert
    <3> QED
      BY <2>10, <3>3 DEF DispatchInsert, Goto, Return
  <2>11. CASE RecordLadder(w)
    BY <2>11 DEF RecordLadder, Return
  <2>12. CASE RejectUpdate(w)
    BY <2>12 DEF RejectUpdate, SetState, Goto, Return
  <2>13. CASE RevokeQuery(w) \/ RevokePrefix(w)
    <3>1. RowPrefixes(job[w]) \in SUBSET Prefixes
      BY DEF RowPrefixes, Rows
    <3> QED
      BY <2>13, <3>1 DEF RevokeQuery, RevokePrefix, Goto, Return
  <2>14. CASE RevokeWrite(w)
    BY <2>14 DEF RevokeWrite, SetState, Goto
  <2>15. CASE RollbackReject(w)
    BY <2>15 DEF RollbackReject, SetState, Goto
  <2> QED
    BY <1>1, <2>1, <2>2, <2>3, <2>4, <2>5, <2>6, <2>7, <2>8, <2>9, <2>10, <2>11, <2>12, <2>13,
       <2>14, <2>15 DEF Proceed
<1>2. ASSUME NEW w \in Workers, NEW b \in Bans, Serve(w, b)
      PROVE  BTypes'
  <2>1. CASE ScopedBanCreate(w, b)
    <3>1. prefixdb[ScopeOf[b]] \in SUBSET Prefixes
      BY <2>1, ScopedAssumption DEF ScopedAssumption, ScopedBanCreate
    <3> QED
      BY <2>1, <3>1 DEF ScopedBanCreate, Begin
  <2>2. CASE ~ScopedBanCreate(w, b)
    BY <1>2, <2>2
    DEF Serve, ScopedBanApprove, ScopedBanReject, ScopedBanRevoke, LookupRollbackPending, Begin
  <2> QED
    BY <2>1, <2>2
<1>3. CASE Poll
  BY <1>3 DEF Poll, Waiting
<1>4. ASSUME NEW d \in batch, Apply(d)
      PROVE  BTypes'
  BY <1>4 DEF Apply, Rows
<1>5. ASSUME NEW p \in left, PutPrefix(p)
      PROVE  BTypes'
  <2>1. cur.ban \in Bans
    BY <1>5 DEF PutPrefix, PageInv, Rows
  <2> QED
    BY <1>5, <2>1 DEF PutPrefix
<1>6. CASE Mark
  <2>1. cur \in Rows
    BY <1>6 DEF Mark
  <2>2. [cur EXCEPT !.state = IF failed THEN "failed" ELSE "acked"] \in Rows
    BY <2>1 DEF Rows
  <2> QED
    BY <1>6, <2>2 DEF Mark
<1>7. CASE Reload
  BY <1>7 DEF Reload
<1>8. ASSUME NEW x, EditProtected(x)
      PROVE  BTypes'
  BY <1>8 DEF EditProtected
<1>9. CASE Restart
  BY <1>9 DEF Restart
<1>10. CASE UNCHANGED vars
  BY <1>10 DEF vars
<1> QED
  BY <1>1, <1>2, <1>3, <1>4, <1>5, <1>6, <1>7, <1>8, <1>9, <1>10 DEF Next, Execute

------------------------------------------------------------------------------
(* The steps of the handlers *)

\* A worker changes its own variables only.
Alone(w) ==
  \A v \in Workers : v # w => pc'[v] = pc[v] /\ job'[v] = job[v]

\* A step that leaves the bans alone and submits nothing keeps the invariant.
LEMMA JobFrame ==
  ASSUME BInv, NEW w \in Workers, Alone(w), UNCHANGED <<state, effective>>,
         pc'[w] \notin SubmitPCs,
         pc'[w] # "idle" => job'[w] \in Bans,
         pc'[w] \in DecidePCs => state[job'[w]] # "none",
         pc'[w] \in GrantedPCs => job'[w] \in effective,
         job'[w] = job[w] \/ job'[w] = None \/ state[job'[w]] # "none"
  PROVE  JobInv'
<1> SUFFICES ASSUME NEW v \in Workers
             PROVE  /\ pc'[v] # "idle" => job'[v] \in Bans
                    /\ pc'[v] \in SubmitPCs =>
                         state[job'[v]] = "none" /\ \A u \in Workers : u # v => job'[u] # job'[v]
                    /\ pc'[v] \in DecidePCs => state[job'[v]] # "none"
                    /\ pc'[v] \in GrantedPCs => job'[v] \in effective
  BY DEF JobInv
<1>1. CASE v = w
  BY <1>1
<1>2. CASE v # w
  <2>1. pc'[v] = pc[v] /\ job'[v] = job[v]
    BY <1>2 DEF Alone
  <2>2. pc[v] \in SubmitPCs => job[v] \in Bans /\ job[v] # None
    BY ScopedAssumption DEF ScopedAssumption, BInv, JobInv, SubmitPCs
  <2> QED
    BY <1>2, <2>1, <2>2 DEF BInv, JobInv, Alone
<1> QED
  BY <1>1, <1>2

\* A step that moves a ban out of "pending" or later keeps the invariant.
LEMMA DecidedFrame ==
  ASSUME BInv, NEW w \in Workers, Alone(w), NEW b \in Bans, NEW s \in BanStates \ {"none"},
         state[b] # "none", state' = [state EXCEPT ![b] = s],
         effective \subseteq effective',
         pc'[w] \notin SubmitPCs \cup DecidePCs,
         pc'[w] # "idle" => job'[w] \in Bans,
         pc'[w] \in GrantedPCs => job'[w] \in effective',
         job'[w] \in {job[w], None}
  PROVE  JobInv'
<1> SUFFICES ASSUME NEW v \in Workers
             PROVE  /\ pc'[v] # "idle" => job'[v] \in Bans
                    /\ pc'[v] \in SubmitPCs =>
                         state'[job'[v]] = "none" /\ \A u \in Workers : u # v => job'[u] # job'[v]
                    /\ pc'[v] \in DecidePCs => state'[job'[v]] # "none"
                    /\ pc'[v] \in GrantedPCs => job'[v] \in effective'
  BY DEF JobInv
<1>1. CASE v = w
  BY <1>1
<1>2. CASE v # w
  <2>1. pc'[v] = pc[v] /\ job'[v] = job[v]
    BY <1>2 DEF Alone
  <2>2. pc[v] # "idle" => job[v] \in Bans /\ job[v] # None
    BY ScopedAssumption DEF ScopedAssumption, BInv, JobInv
  <2>3. pc[v] \in SubmitPCs \cup DecidePCs => state'[job[v]] = state[job[v]] \/ job[v] = b
    BY <2>2 DEF BInv, BTypes, SubmitPCs, DecidePCs
  <2> QED
    BY <1>2, <2>1, <2>2, <2>3 DEF BInv, BTypes, JobInv, Alone, SubmitPCs, DecidePCs
<1> QED
  BY <1>1, <1>2

LEMMA JobStep ==
  ASSUME BInv, [Next]_vars
  PROVE  JobInv'
<1> USE DEF BInv, BTypes, SubmitPCs, DecidePCs, GrantedPCs, table, handlers, executor, maps
<1>1. ASSUME NEW w \in Workers, Proceed(w)
      PROVE  JobInv'
  <2>0. pc[w] # "idle" /\ job[w] \in Bans
    BY <1>1 DEF Proceed, ReserveQuota, InsertBan, ReleaseQuota, ApproveTx, Expand, DriftRelease,
      DriftReserve, DriftBack, DriftSave, DispatchGuard, DispatchVeto, DispatchInsert,
      RecordLadder, RejectUpdate, RevokeQuery, RevokePrefix, RevokeWrite, RollbackReject, JobInv
  <2>1. CASE ReserveQuota(w)
    <3>1. /\ pc[w] = "reserve" /\ UNCHANGED <<state, effective>>
          /\ Goto(w, "create") \/ Return(w)
      BY <2>1 DEF ReserveQuota
    <3>2. CASE Goto(w, "create")
      BY <2>0, <3>1, <3>2 DEF Goto, JobInv
    <3>3. CASE Return(w)
      BY <2>0, <3>1, <3>3, JobFrame DEF Return, Alone
    <3> QED
      BY <3>1, <3>2, <3>3
  <2>2. CASE InsertBan(w)
    <3>1. CASE UNCHANGED state
      BY <2>0, <2>2, <3>1, JobFrame DEF InsertBan, Goto, Return, Alone, JobInv
    <3>2. CASE SetState(job[w], "pending") /\ Return(w)
      BY <2>0, <2>2, <3>2, ScopedAssumption
      DEF ScopedAssumption, InsertBan, Return, SetState, JobInv
    <3> QED
      BY <2>2, <3>1, <3>2 DEF InsertBan
  <2>3. CASE ReleaseQuota(w)
    BY <2>0, <2>3, JobFrame DEF ReleaseQuota, Return, Alone
  <2>4. CASE ApproveTx(w)
    <3>1. CASE UNCHANGED <<state, effective>>
      BY <2>0, <2>4, <3>1, JobFrame DEF ApproveTx, Return, Alone, IsPending, SetState, GrantInv, StatesInv
    <3>2. CASE IsPending(job[w]) /\ SetState(job[w], "active") /\ Goto(w, "expand")
               /\ effective' = effective \cup {job[w]}
      BY <2>0, <2>4, <3>2, DecidedFrame DEF ApproveTx, Goto, Alone, IsPending, SetState, BanStates
    <3> QED
      BY <2>4, <3>1, <3>2 DEF ApproveTx
  <2>5. CASE Expand(w)
    BY <2>0, <2>5, JobFrame DEF Expand, Return, Alone, JobInv
  <2>6. CASE DriftRelease(w) \/ DriftReserve(w) \/ DriftSave(w) \/ DriftBack(w) \/ DispatchGuard(w)
    BY <2>0, <2>6, JobFrame
    DEF DriftRelease, DriftReserve, DriftSave, DriftBack, DispatchGuard, Goto, Return, Alone, JobInv
  <2>7. CASE DispatchVeto(w)
    <3>1. CASE UNCHANGED state
      BY <2>0, <2>7, <3>1, JobFrame DEF DispatchVeto, Return, Alone
    <3>2. CASE SetState(job[w], "safety_blocked")
      <4>1. state[job[w]] # "none"
        BY <2>0, <2>7 DEF DispatchVeto, JobInv, GrantInv, StatesInv
      <4> QED
        BY <2>0, <2>7, <3>2, <4>1, DecidedFrame DEF DispatchVeto, Return, Alone, SetState, BanStates
    <3> QED
      BY <2>7, <3>1, <3>2 DEF DispatchVeto
  <2>8. CASE DispatchInsert(w) \/ RecordLadder(w)
    BY <2>0, <2>8, JobFrame DEF DispatchInsert, RecordLadder, Goto, Return, Alone, JobInv
  <2>9. CASE RejectUpdate(w)
    <3>1. CASE UNCHANGED state
      BY <2>0, <2>9, <3>1, JobFrame DEF RejectUpdate, Goto, Return, Alone
    <3>2. CASE SetState(job[w], "rejected") /\ IsPending(job[w]) /\ Goto(w, "rj_release")
      BY <2>0, <2>9, <3>2, DecidedFrame
      DEF RejectUpdate, Goto, Alone, IsPending, SetState, BanStates
    <3> QED
      BY <2>9, <3>1, <3>2 DEF RejectUpdate
  <2>10. CASE RevokeQuery(w) \/ RevokePrefix(w)
    BY <2>0, <2>10, JobFrame DEF RevokeQuery, RevokePrefix, Goto, Return, Alone, JobInv
  <2>11. CASE RevokeWrite(w) \/ RollbackReject(w)
    <3>1. state[job[w]] # "none"
      BY <2>0, <2>11 DEF RevokeWrite, RollbackReject, JobInv, GrantInv, StatesInv
    <3>2. CASE UNCHANGED state
      BY <2>0, <2>11, <3>2, JobFrame DEF RevokeWrite, RollbackReject, Goto, Alone
    <3>3. CASE SetState(job[w], "revoked") \/ SetState(job[w], "rejected")
      BY <2>0, <2>11, <3>1, <3>3, DecidedFrame
      DEF RevokeWrite, RollbackReject, Goto, Alone, SetState, BanStates
    <3> QED
      BY <2>11, <3>2, <3>3 DEF RevokeWrite, RollbackReject
  <2> QED
    BY <1>1, <2>1, <2>2, <2>3, <2>4, <2>5, <2>6, <2>7, <2>8, <2>9, <2>10, <2>11 DEF Proceed
<1>2. ASSUME NEW w \in Workers, NEW b \in Bans, Serve(w, b)
      PROVE  JobInv'
  <2>1. CASE ScopedBanCreate(w, b)
    BY <2>1 DEF ScopedBanCreate, Begin, Submitted, JobInv
  <2>2. CASE ScopedBanApprove(w, b) \/ ScopedBanReject(w, b) \/ LookupRollbackPending(w, b)
    BY <2>2, JobFrame
    DEF ScopedBanApprove, ScopedBanReject, LookupRollbackPending, Begin, Alone, IsPending
  <2>3. CASE ScopedBanRevoke(w, b)
    BY <2>3, JobFrame DEF ScopedBanRevoke, Begin, Alone, GrantInv, StatesInv
  <2> QED
    BY <1>2, <2>1, <2>2, <2>3 DEF Serve
<1>3. CASE Restart
  BY <1>3 DEF Restart, JobInv
<1>4. CASE UNCHANGED <<state, effective, pc, job>>
  BY <1>4 DEF JobInv
<1> QED
  BY <1>1, <1>2, <1>3, <1>4
  DEF Next, Execute, Poll, Apply, PutPrefix, Mark, Reload, EditProtected, vars

------------------------------------------------------------------------------
(* Grants and the executor *)

\* An approved ban stays approved.
LEMMA EffectiveGrows ==
  ASSUME BInv, [Next]_vars
  PROVE  effective \subseteq effective'
<1> USE DEF table, handlers, executor, maps
<1>1. ASSUME NEW w \in Workers, Proceed(w)
      PROVE  effective \subseteq effective'
  BY <1>1 DEF Proceed, ReserveQuota, InsertBan, ReleaseQuota, ApproveTx, Expand, DriftRelease,
    DriftReserve, DriftBack, DriftSave, DispatchGuard, DispatchVeto, DispatchInsert,
    RecordLadder, RejectUpdate, RevokeQuery, RevokePrefix, RevokeWrite, RollbackReject
<1>2. ASSUME NEW w \in Workers, NEW b \in Bans, Serve(w, b)
      PROVE  effective \subseteq effective'
  BY <1>2 DEF Serve, ScopedBanCreate, ScopedBanApprove, ScopedBanReject, ScopedBanRevoke,
    LookupRollbackPending
<1> QED
  BY <1>1, <1>2
  DEF Next, Execute, Poll, Apply, PutPrefix, Mark, Reload, EditProtected, Restart, vars

\* New rows are rows of the ban a worker dispatches, or rows that were marked.
LEMMA RowsGrow ==
  ASSUME BInv, [Next]_vars, NEW d \in dispatch'
  PROVE  d.ban \in effective
<1> USE DEF BInv, GrantInv, table, handlers, executor, maps
<1>1. ASSUME NEW w \in Workers, DispatchInsert(w)
      PROVE  d.ban \in effective
  <2>1. job[w] \in effective
    BY <1>1 DEF DispatchInsert, JobInv, GrantedPCs
  <2>2. ASSUME NEW ps, InsertRow(job[w], ps)
        PROVE  d.ban \in effective
    BY <2>1, <2>2 DEF InsertRow
  <2> QED
    BY <1>1, <2>2 DEF DispatchInsert
<1>2. CASE Mark
  <2>1. cur \in Rows /\ cur.ban \in effective
    BY <1>2 DEF Mark, PageInv, BTypes
  <2> QED
    BY <1>2, <2>1 DEF Mark, Rows
<1>3. CASE UNCHANGED dispatch
  BY <1>3
<1> QED
  BY <1>1, <1>2, <1>3
  DEF Next, Proceed, ReserveQuota, InsertBan, ReleaseQuota, ApproveTx, Expand, DriftRelease,
    DriftReserve, DriftBack, DriftSave, DispatchGuard, DispatchVeto,
    RecordLadder, RejectUpdate, RevokeQuery, RevokePrefix, RevokeWrite, RollbackReject, Serve,
    ScopedBanCreate, ScopedBanApprove, ScopedBanReject, ScopedBanRevoke,
    LookupRollbackPending, Execute, Poll, Apply, PutPrefix, Reload, EditProtected, Restart, vars

LEMMA GrantStep ==
  ASSUME BInv, [Next]_vars
  PROVE  GrantInv'
<1> USE DEF BInv, BTypes, StatesInv, table, handlers, executor, maps
<1>0. \A d \in dispatch' : d.ban \in effective'
  BY RowsGrow, EffectiveGrows
<1>1. StatesInv
  BY DEF GrantInv, StatesInv
<1>2. ASSUME NEW w \in Workers, Proceed(w)
      PROVE  StatesInv'
  <2>1. CASE InsertBan(w)
    BY <1>1, <2>1 DEF InsertBan, SetState, JobInv, SubmitPCs
  <2>2. CASE ApproveTx(w)
    <3>1. job[w] \in Bans
      BY <2>2 DEF ApproveTx, JobInv
    <3> QED
      BY <1>1, <2>2, <3>1 DEF ApproveTx, SetState
  <2>3. CASE DispatchVeto(w) \/ RejectUpdate(w) \/ RevokeWrite(w) \/ RollbackReject(w)
    BY <1>1, <2>3 DEF DispatchVeto, RejectUpdate, RevokeWrite, RollbackReject, SetState
  <2>4. CASE UNCHANGED <<state, effective>>
    BY <1>1, <2>4
  <2> QED
    BY <1>2, <2>1, <2>2, <2>3, <2>4
    DEF Proceed, ReserveQuota, ReleaseQuota, Expand, DriftRelease, DriftReserve, DriftBack,
      DriftSave, DispatchGuard, DispatchInsert, RecordLadder, RevokeQuery, RevokePrefix
<1>3. ASSUME UNCHANGED <<state, effective>>
      PROVE  StatesInv'
  BY <1>1, <1>3
<1>4. StatesInv'
  BY <1>2, <1>3
  DEF Next, Serve, ScopedBanCreate, ScopedBanApprove, ScopedBanReject, ScopedBanRevoke,
    LookupRollbackPending, Execute, Poll, Apply, PutPrefix, Mark, Reload, EditProtected,
    Restart, vars
<1> QED
  BY <1>0, <1>4 DEF GrantInv

LEMMA PageStep ==
  ASSUME BInv, [Next]_vars
  PROVE  PageInv'
<1> USE DEF BInv, PageInv, table, handlers, executor, maps
<1>0. effective \subseteq effective'
  BY EffectiveGrows
<1>1. CASE Poll
  BY <1>0, <1>1 DEF Poll, Waiting, GrantInv
<1>2. ASSUME NEW d \in batch, Apply(d)
      PROVE  PageInv'
  BY <1>0, <1>2 DEF Apply
<1>3. CASE Mark
  BY <1>0, <1>3 DEF Mark
<1>4. CASE Restart
  BY <1>4 DEF Restart
<1>5. CASE UNCHANGED <<batch, cur>>
  BY <1>0, <1>5
<1> QED
  BY <1>1, <1>2, <1>3, <1>4, <1>5
  DEF Next, Proceed, ReserveQuota, InsertBan, ReleaseQuota, ApproveTx, Expand, DriftRelease,
    DriftReserve, DriftBack, DriftSave, DispatchGuard, DispatchVeto, DispatchInsert,
    RecordLadder, RejectUpdate, RevokeQuery, RevokePrefix, RevokeWrite, RollbackReject, Serve,
    ScopedBanCreate, ScopedBanApprove, ScopedBanReject, ScopedBanRevoke,
    LookupRollbackPending, Execute, PutPrefix, Reload, EditProtected, vars

THEOREM ScopedInvariantCorrect == Spec => []BInv
<1>1. BInv /\ [Next]_vars => BInv'
  BY BTypesStep, JobStep, GrantStep, PageStep DEF BInv
<1> QED
  BY BInit, <1>1, PTL DEF Spec

------------------------------------------------------------------------------
(* ScopedBans implements ApprovalGate *)

gate == [b \in Bans |-> GateOf(b)]

LEMMA GateUnchanged ==
  ASSUME UNCHANGED <<state, effective>>
  PROVE  gate' = gate
BY DEF gate, GateOf

\* Whatever becomes of a ban that took effect, the gate has been passed.
LEMMA GateOfEffective ==
  ASSUME BInv, NEW b \in effective, NEW s \in BanStates,
         UNCHANGED effective, SetState(b, s)
  PROVE  gate' = gate
BY DEF BInv, BTypes, gate, GateOf, SetState

\* Rejecting a pending ban is the abstract decision to refuse it.
LEMMA GateRefuse ==
  ASSUME BInv, NEW b \in Bans, IsPending(b), SetState(b, "rejected"),
         UNCHANGED <<effective, kernel>>
  PROVE  Gate!Decide(b)
<1>1. b \notin effective
  BY DEF BInv, GrantInv, StatesInv, IsPending
<1>2. gate' = [gate EXCEPT ![b] = "refused"]
  BY <1>1 DEF gate, GateOf, BInv, BTypes, IsPending, SetState
<1>3. gate[b] = "open"
  BY <1>1 DEF gate, GateOf, IsPending
<1> QED
  BY <1>2, <1>3 DEF gate, Gate!Decide, Gate!Verdicts

\* The approving transaction is the abstract decision to grant.
LEMMA GateGrant ==
  ASSUME BInv, NEW b \in Bans, IsPending(b), SetState(b, "active"),
         effective' = effective \cup {b}, UNCHANGED kernel
  PROVE  Gate!Decide(b)
<1>1. b \notin effective
  BY DEF BInv, GrantInv, StatesInv, IsPending
<1>2. gate' = [gate EXCEPT ![b] = "granted"]
  BY <1>1 DEF gate, GateOf, BInv, BTypes, IsPending, SetState
<1>3. gate[b] = "open"
  BY <1>1 DEF gate, GateOf, IsPending
<1> QED
  BY <1>2, <1>3 DEF gate, Gate!Decide, Gate!Verdicts

LEMMA GateInit == Init => Gate!Init
BY DEF Init, Gate!Init, GateOf

\* Every step is a step of the gate or leaves it unchanged.
LEMMA GateStep == BInv /\ [Next]_vars => [Gate!Next]_(Gate!vars)
<1> SUFFICES ASSUME BInv, [Next]_vars PROVE Gate!Next \/ UNCHANGED Gate!vars
  OBVIOUS
<1>0. BTypes /\ JobInv /\ GrantInv /\ PageInv
  BY DEF BInv
<1>1. ASSUME UNCHANGED <<state, effective, kernel>>
      PROVE  UNCHANGED Gate!vars
  BY <1>1, GateUnchanged DEF Gate!vars, gate
<1>2. ASSUME NEW b \in Bans, Gate!Decide(b)
      PROVE  Gate!Next
  BY <1>2 DEF Gate!Next
<1>3. ASSUME NEW S \in SUBSET Keys, Gate!Clear(S)
      PROVE  Gate!Next
  BY <1>3 DEF Gate!Next
<1>4. ASSUME NEW w \in Workers, Proceed(w)
      PROVE  Gate!Next \/ UNCHANGED Gate!vars
  <2>1. CASE InsertBan(w)
    <3>1. job[w] \in Bans /\ state[job[w]] = "none" /\ job[w] \notin effective
      BY <1>0, <2>1 DEF InsertBan, JobInv, SubmitPCs, GrantInv, StatesInv
    <3>2. CASE UNCHANGED state
      BY <1>1, <2>1, <3>2 DEF InsertBan, maps
    <3>3. CASE SetState(job[w], "pending")
      <4>1. gate' = [gate EXCEPT ![job[w]] = "open"] /\ gate[job[w]] = "absent"
        BY <1>0, <2>1, <3>1, <3>3 DEF InsertBan, SetState, gate, GateOf, BTypes
      <4>2. Gate!Submit(job[w])
        BY <2>1, <4>1 DEF InsertBan, maps, Gate!Submit, gate
      <4> QED
        BY <3>1, <4>2 DEF Gate!Next
    <3> QED
      BY <2>1, <3>2, <3>3 DEF InsertBan
  <2>2. CASE ApproveTx(w)
    <3>1. job[w] \in Bans /\ UNCHANGED kernel
      BY <1>0, <2>2 DEF ApproveTx, JobInv, maps
    <3>2. CASE UNCHANGED <<state, effective>>
      BY <1>1, <3>1, <3>2
    <3>3. CASE IsPending(job[w]) /\ SetState(job[w], "active")
               /\ effective' = effective \cup {job[w]}
      BY <1>2, <3>1, <3>3, GateGrant
    <3> QED
      BY <2>2, <3>2, <3>3 DEF ApproveTx
  <2>3. CASE RejectUpdate(w) \/ RollbackReject(w)
    <3>1. job[w] \in Bans /\ state[job[w]] # "none" /\ UNCHANGED <<effective, kernel>>
      BY <1>0, <2>3 DEF RejectUpdate, RollbackReject, JobInv, DecidePCs, maps
    <3>2. CASE UNCHANGED state
      BY <1>1, <3>1, <3>2
    <3>3. CASE IsPending(job[w]) /\ SetState(job[w], "rejected")
      BY <1>2, <3>1, <3>3, GateRefuse
    <3>4. CASE ~IsPending(job[w]) /\ SetState(job[w], "rejected")
      <4>1. gate' = gate
        BY <1>0, <3>1, <3>4 DEF gate, GateOf, IsPending, SetState, BTypes
      <4> QED
        BY <3>1, <4>1 DEF Gate!vars, gate
    <3> QED
      BY <2>3, <3>2, <3>3, <3>4 DEF RejectUpdate, RollbackReject
  <2>4. CASE DispatchVeto(w) \/ RevokeWrite(w)
    <3>1. job[w] \in effective /\ UNCHANGED <<effective, kernel>>
      BY <1>0, <2>4 DEF DispatchVeto, RevokeWrite, JobInv, GrantedPCs, maps
    <3>2. gate' = gate
      BY <2>4, <3>1, GateOfEffective, GateUnchanged DEF DispatchVeto, RevokeWrite, BanStates
    <3> QED
      BY <3>1, <3>2 DEF Gate!vars, gate
  <2>5. CASE RevokePrefix(w)
    <3>1. gate' = gate
      BY <2>5, GateUnchanged DEF RevokePrefix, table
    <3>2. CASE UNCHANGED kernel
      BY <3>1, <3>2 DEF Gate!vars, gate
    <3>3. ASSUME NEW p \in todo[w], kernel' = [kernel EXCEPT ![Key(job[w], p)] = None]
          PROVE  Gate!Next
      <4> DEFINE k == Key(job[w], p)
      <4>1. k \in Keys
        BY <1>0, <2>5, KeyInKeys DEF RevokePrefix, JobInv, BTypes
      <4> HIDE DEF k
      <4>2. kernel' = [j \in Keys |-> IF j \in {k} THEN None ELSE kernel[j]]
        BY <1>0, <3>3, <4>1 DEF BTypes, k
      <4>3. Gate!Clear({k})
        BY <3>1, <4>2 DEF Gate!Clear, gate
      <4> QED
        BY <1>3, <4>1, <4>3
    <3> QED
      BY <2>5, <3>2, <3>3 DEF RevokePrefix
  <2>6. CASE UNCHANGED <<state, effective, kernel>>
    BY <1>1, <2>6
  <2> QED
    BY <1>4, <2>1, <2>2, <2>3, <2>4, <2>5, <2>6
    DEF Proceed, ReserveQuota, ReleaseQuota, Expand, DriftRelease, DriftReserve, DriftBack,
      DriftSave, DispatchGuard, DispatchInsert, RecordLadder, RevokeQuery, table, maps
<1>5. ASSUME NEW p \in left, PutPrefix(p)
      PROVE  Gate!Next \/ UNCHANGED Gate!vars
  <2>1. cur \in Rows /\ cur.ban \in effective /\ cur.ban \in Bans
    BY <1>0, <1>5 DEF PutPrefix, BTypes, PageInv, Rows
  <2>2. gate' = gate /\ gate[cur.ban] = "granted"
    BY <1>5, <2>1, GateUnchanged DEF PutPrefix, table, gate, GateOf
  <2>3. CASE UNCHANGED kernel
    BY <2>2, <2>3 DEF Gate!vars, gate
  <2>4. CASE kernel' = [kernel EXCEPT ![Key(cur.ban, p)] = cur.ban]
    <3>1. Key(cur.ban, p) \in Keys
      BY <1>0, <2>1, KeyInKeys DEF BTypes
    <3>2. Gate!Install(cur.ban, Key(cur.ban, p))
      BY <2>2, <2>4 DEF Gate!Install, gate
    <3> QED
      BY <2>1, <3>1, <3>2 DEF Gate!Next
  <2> QED
    BY <1>5, <2>3, <2>4 DEF PutPrefix
<1>6. CASE Restart
  <2>1. gate' = gate
    BY <1>6, GateUnchanged DEF Restart, table
  <2>2. Gate!Clear(Keys)
    BY <1>6, <2>1 DEF Restart, Gate!Clear, gate
  <2> QED
    BY <1>3, <2>2
<1> QED
  BY <1>1, <1>4, <1>5, <1>6
  DEF Next, Serve, ScopedBanCreate, ScopedBanApprove, ScopedBanReject, ScopedBanRevoke,
    LookupRollbackPending, Execute, Poll, Apply, Mark, Reload, EditProtected, vars, table, maps

\* Scoped bans keep the promise of ApprovalGate, whatever fails, however often the
\* process restarts and whatever the prefix library turns into: an entry is only
\* written for a ban an operator approved, and a ban is decided once.
THEOREM ScopedImplementsGate == Spec => ImplementsApprovalGate
BY ScopedInvariantCorrect, GateInit, GateStep, PTL DEF Spec, ImplementsApprovalGate, Gate!Spec

------------------------------------------------------------------------------
(* Nothing protected is dispatched *)

\* What passed the guard is what is inserted, row by row.
VetoInv ==
  /\ \A w \in Workers : pc[w] = "insert" => ~Vetoed(job[w], todo[w])
  /\ \A d \in dispatch \cup batch : ~Vetoed(d.ban, d.prefixes)

LEMMA VetoedFewer ==
  ASSUME NEW b, NEW ps, NEW qs \in SUBSET ps, ~Vetoed(b, ps)
  PROVE  ~Vetoed(b, qs)
BY DEF Vetoed

\* Only the guard lets a worker insert, the prefixes then only get fewer.
LEMMA InsertingStep ==
  ASSUME ~Faults, BInv, VetoInv, UNCHANGED protected,
         NEW w \in Workers, Proceed(w), NEW v \in Workers, pc'[v] = "insert"
  PROVE  ~Vetoed(job'[v], todo'[v])
<1> USE DEF BInv, BTypes
<1>1. CASE DispatchGuard(w)
  <2>1. job' = job /\ todo' = todo /\ (v # w => pc'[v] = pc[v])
    BY <1>1 DEF DispatchGuard, Goto
  <2>2. v = w => ~Vetoed(job[w], todo[w])
    BY <1>1 DEF DispatchGuard, Goto, GuardVerdicts
  <2> QED
    BY <2>1, <2>2 DEF VetoInv
<1>2. CASE DispatchInsert(w)
  <2>1. /\ pc[v] = "insert" /\ job'[v] = job[v] /\ todo'[v] \subseteq todo[v]
    BY <1>2 DEF DispatchInsert, Goto, Return
  <2> QED
    BY <2>1, VetoedFewer DEF VetoInv
<1>3. CASE ~DispatchGuard(w) /\ ~DispatchInsert(w)
  <2>1. pc[v] = "insert" /\ job'[v] = job[v] /\ todo'[v] = todo[v]
    BY <1>3 DEF Proceed, ReserveQuota, InsertBan, ReleaseQuota, ApproveTx, Expand, DriftRelease,
      DriftReserve, DriftBack, DriftSave, DispatchVeto, RecordLadder, RejectUpdate,
      RevokeQuery, RevokePrefix, RevokeWrite, RollbackReject, Goto, Return
  <2> QED
    BY <2>1 DEF VetoInv
<1> QED
  BY <1>1, <1>2, <1>3

\* A row is what a worker inserts, or the row the executor marks.
LEMMA RowsStep ==
  ASSUME BInv, VetoInv, [Next]_vars, NEW d \in dispatch'
  PROVE  ~Vetoed(d.ban, d.prefixes)
<1> USE DEF BInv, BTypes, table, handlers, executor, maps
<1>1. ASSUME NEW w \in Workers, DispatchInsert(w)
      PROVE  ~Vetoed(d.ban, d.prefixes)
  <2>1. ~Vetoed(job[w], todo[w])
    BY <1>1 DEF DispatchInsert, VetoInv
  <2>2. ASSUME NEW ps \in SUBSET todo[w], InsertRow(job[w], ps)
        PROVE  ~Vetoed(d.ban, d.prefixes)
    <3>1. ~Vetoed(job[w], ps)
      BY <2>1, VetoedFewer
    <3>2. d \in dispatch \/ (d.ban = job[w] /\ d.prefixes = ps)
      BY <2>2 DEF InsertRow
    <3> QED
      BY <3>1, <3>2 DEF VetoInv
  <2>3. CASE UNCHANGED dispatch
    BY <2>3 DEF VetoInv
  <2> QED
    BY <1>1, <2>2, <2>3 DEF DispatchInsert
<1>2. CASE Mark
  <2>1. cur \in Rows /\ ~Vetoed(cur.ban, cur.prefixes)
    BY <1>2 DEF Mark, PageInv, VetoInv
  <2>2. d \in dispatch \/ (d.ban = cur.ban /\ d.prefixes = cur.prefixes)
    BY <1>2, <2>1 DEF Mark, Rows
  <2> QED
    BY <2>1, <2>2 DEF VetoInv
<1>3. CASE UNCHANGED dispatch
  BY <1>3 DEF VetoInv
<1> QED
  BY <1>1, <1>2, <1>3
  DEF Next, Proceed, ReserveQuota, InsertBan, ReleaseQuota, ApproveTx, Expand, DriftRelease,
    DriftReserve, DriftBack, DriftSave, DispatchGuard, DispatchVeto,
    RecordLadder, RejectUpdate, RevokeQuery, RevokePrefix, RevokeWrite, RollbackReject, Serve,
    ScopedBanCreate, ScopedBanApprove, ScopedBanReject, ScopedBanRevoke,
    LookupRollbackPending, Execute, Poll, Apply, PutPrefix, Reload, EditProtected, Restart, vars

\* Requests, the executor and restarts put no worker before the insertion.
LEMMA OthersStep ==
  ASSUME BInv, [Next]_vars, \A w \in Workers : ~Proceed(w)
  PROVE  \A v \in Workers :
           pc'[v] = "insert" => pc[v] = "insert" /\ job'[v] = job[v] /\ todo'[v] = todo[v]
<1> USE DEF BInv, BTypes, handlers
<1>1. ASSUME NEW w \in Workers, NEW b \in Bans, Serve(w, b), NEW v \in Workers, pc'[v] = "insert"
      PROVE  pc[v] = "insert" /\ job'[v] = job[v] /\ todo'[v] = todo[v]
  BY <1>1 DEF Serve, ScopedBanCreate, ScopedBanApprove, ScopedBanReject, ScopedBanRevoke,
    LookupRollbackPending, Begin
<1>2. CASE Restart
  BY <1>2 DEF Restart
<1>3. CASE UNCHANGED handlers
  BY <1>3
<1> QED
  BY <1>1, <1>2, <1>3
  DEF Next, Execute, Poll, Apply, PutPrefix, Mark, Reload, EditProtected, vars

LEMMA VetoStep ==
  ASSUME ~Faults, ~Edits, BInv, VetoInv, [Next]_vars
  PROVE  VetoInv'
<1>1. UNCHANGED protected
  BY DEF Next, Proceed, ReserveQuota, InsertBan, ReleaseQuota, ApproveTx, Expand, DriftRelease,
    DriftReserve, DriftBack, DriftSave, DispatchGuard, DispatchVeto, DispatchInsert,
    RecordLadder, RejectUpdate, RevokeQuery, RevokePrefix, RevokeWrite, RollbackReject, Serve,
    ScopedBanCreate, ScopedBanApprove, ScopedBanReject, ScopedBanRevoke,
    LookupRollbackPending, Execute, Poll, Apply, PutPrefix, Mark, Reload, EditProtected,
    Restart, vars
<1>2. ASSUME NEW v \in Workers, pc'[v] = "insert"
      PROVE  ~Vetoed(job'[v], todo'[v])
  <2>1. CASE \E w \in Workers : Proceed(w)
    BY <1>1, <1>2, <2>1, InsertingStep
  <2>2. CASE \A w \in Workers : ~Proceed(w)
    BY <1>2, <2>2, OthersStep DEF VetoInv
  <2> QED
    BY <2>1, <2>2
<1>3. \A d \in batch' : d \in dispatch \cup batch
  BY DEF Next, Proceed, ReserveQuota, InsertBan, ReleaseQuota, ApproveTx, Expand, DriftRelease,
    DriftReserve, DriftBack, DriftSave, DispatchGuard, DispatchVeto, DispatchInsert,
    RecordLadder, RejectUpdate, RevokeQuery, RevokePrefix, RevokeWrite, RollbackReject, Serve,
    ScopedBanCreate, ScopedBanApprove, ScopedBanReject, ScopedBanRevoke,
    LookupRollbackPending, Execute, Poll, Waiting, Apply, PutPrefix, Mark, Reload, EditProtected,
    Restart, vars, executor
<1>4. \A d \in dispatch' \cup batch' : ~Vetoed(d.ban, d.prefixes)
  BY <1>3, RowsStep DEF VetoInv
<1> QED
  BY <1>1, <1>2, <1>4 DEF VetoInv, Vetoed

\* Without faults, and while nobody edits protected_targets, no row names a
\* protected host or prefix, although the selector is resolved again, perhaps by
\* another library, between the check of the submission and the dispatch.
THEOREM ProtectedIsKept ==
  ASSUME ~Faults, ~Edits
  PROVE  Spec => []ProtectedNeverDispatched
<1>1. Init => VetoInv
  BY DEF Init, VetoInv
<1>2. BInv /\ VetoInv /\ [Next]_vars => VetoInv'
  BY VetoStep
<1>3. VetoInv => ProtectedNeverDispatched
  BY DEF VetoInv, ProtectedNeverDispatched
<1> QED
  BY ScopedInvariantCorrect, <1>1, <1>2, <1>3, PTL DEF Spec

------------------------------------------------------------------------------
(* An acknowledged row is complete *)

\* No two requests are about the same ban.
Apart == \A v, w \in Workers : v # w /\ job[v] = job[w] => job[v] = None

\* Nobody overtakes a decision or a rollback then.
AloneInv ==
  \A w \in Workers :
    /\ pc[w] = "rb_reject" => state[job[w]] = "pending"
    /\ pc[w] \in GrantedPCs => state[job[w]] = "active"
    /\ pc[w] = "rv_delete" => todo[w] \subseteq RowPrefixes(job[w])

\* What the executor has written of a row is there, or was taken out.
WrittenInv ==
  cur # None /\ ~failed =>
    \A p \in cur.prefixes \ left :
      kernel[Key(cur.ban, p)] # None \/ TakenOut(Key(cur.ban, p))

\* Rows change their state, never what they carry.
LEMMA RowsStay ==
  ASSUME BInv, [Next]_vars, NEW d \in dispatch
  PROVE  \E e \in dispatch' : e.ban = d.ban /\ e.prefixes = d.prefixes
<1> USE DEF BInv, BTypes, table, handlers, executor, maps
<1>1. CASE Mark
  <2>1. cur \in Rows
    BY <1>1 DEF Mark
  <2>2. dispatch' = dispatch
        \/ dispatch' = (dispatch \ {cur}) \cup
                         {[cur EXCEPT !.state = IF failed THEN "failed" ELSE "acked"]}
    BY <1>1 DEF Mark
  <2> DEFINE r == [cur EXCEPT !.state = IF failed THEN "failed" ELSE "acked"]
  <2>3. r.ban = cur.ban /\ r.prefixes = cur.prefixes
    BY <2>1 DEF Rows
  <2> HIDE DEF r
  <2>4. CASE dispatch' = (dispatch \ {cur}) \cup {r}
    BY <2>3, <2>4
  <2> QED
    BY <2>2, <2>4 DEF r
<1>2. ASSUME NEW w \in Workers, DispatchInsert(w)
      PROVE  dispatch \subseteq dispatch'
  BY <1>2 DEF DispatchInsert, InsertRow
<1>3. CASE dispatch \subseteq dispatch'
  BY <1>3
<1> QED
  BY <1>1, <1>2, <1>3
  DEF Next, Proceed, ReserveQuota, InsertBan, ReleaseQuota, ApproveTx, Expand, DriftRelease,
    DriftReserve, DriftBack, DriftSave, DispatchGuard, DispatchVeto,
    RecordLadder, RejectUpdate, RevokeQuery, RevokePrefix, RevokeWrite, RollbackReject, Serve,
    ScopedBanCreate, ScopedBanApprove, ScopedBanReject, ScopedBanRevoke,
    LookupRollbackPending, Execute, Poll, Apply, PutPrefix, Reload, EditProtected, Restart, vars

\* A step of one worker touches its own ban only.
LEMMA StepOfOne ==
  ASSUME BInv, NEW w \in Workers, Proceed(w)
  PROVE  /\ pc[w] # "idle" /\ job[w] \in Bans
         /\ \A v \in Workers \ {w} : pc'[v] = pc[v] /\ job'[v] = job[v] /\ todo'[v] = todo[v]
         /\ \A b \in Bans \ {job[w]} : state'[b] = state[b]
<1> USE DEF BInv, BTypes, table, handlers
<1>1. pc[w] # "idle" /\ job[w] \in Bans
  BY DEF Proceed, ReserveQuota, InsertBan, ReleaseQuota, ApproveTx, Expand, DriftRelease,
    DriftReserve, DriftBack, DriftSave, DispatchGuard, DispatchVeto, DispatchInsert,
    RecordLadder, RejectUpdate, RevokeQuery, RevokePrefix, RevokeWrite, RollbackReject, JobInv
<1>2. \A v \in Workers \ {w} : pc'[v] = pc[v] /\ job'[v] = job[v] /\ todo'[v] = todo[v]
  BY DEF Proceed, ReserveQuota, InsertBan, ReleaseQuota, ApproveTx, Expand, DriftRelease,
    DriftReserve, DriftBack, DriftSave, DispatchGuard, DispatchVeto, DispatchInsert,
    RecordLadder, RejectUpdate, RevokeQuery, RevokePrefix, RevokeWrite, RollbackReject,
    Goto, Return
<1>3. \A b \in Bans \ {job[w]} : state'[b] = state[b]
  BY DEF Proceed, ReserveQuota, InsertBan, ReleaseQuota, ApproveTx, Expand, DriftRelease,
    DriftReserve, DriftBack, DriftSave, DispatchGuard, DispatchVeto, DispatchInsert,
    RecordLadder, RejectUpdate, RevokeQuery, RevokePrefix, RevokeWrite, RollbackReject, SetState
<1> QED
  BY <1>1, <1>2, <1>3

LEMMA OtherBans ==
  ASSUME BInv, Apart, NEW v \in Workers, NEW w \in Workers, v # w, pc[v] # "idle"
  PROVE  job[v] \in Bans \ {job[w]}
BY ScopedAssumption DEF ScopedAssumption, Apart, BInv, JobInv

LEMMA AloneStep ==
  ASSUME ~Faults, Apart, BInv, AloneInv, [Next]_vars
  PROVE  AloneInv'
<1> USE DEF BInv, BTypes, GrantedPCs, DecidePCs, table, handlers, executor, maps
<1>0. \A b : RowPrefixes(b) \subseteq RowPrefixes(b)'
  BY RowsStay DEF RowPrefixes
<1>1. ASSUME NEW w \in Workers, Proceed(w)
      PROVE  AloneInv'
  <2>1. /\ pc'[w] # "rb_reject"
        /\ pc'[w] \in GrantedPCs => state'[job'[w]] = "active"
    <3>1. CASE ApproveTx(w)
      BY <3>1 DEF ApproveTx, JobInv, SetState, Goto, Return
    <3> QED
      BY <1>1, <3>1
      DEF Proceed, ReserveQuota, InsertBan, ReleaseQuota, Expand, DriftRelease,
        DriftReserve, DriftBack, DriftSave, DispatchGuard, DispatchVeto, DispatchInsert,
        RecordLadder, RejectUpdate, RevokeQuery, RevokePrefix, RevokeWrite, RollbackReject,
        Goto, Return, AloneInv
  <2>2. pc'[w] = "rv_delete" =>
          /\ job'[w] = job[w]
          /\ todo'[w] \subseteq RowPrefixes(job[w]) \/ (todo'[w] \subseteq todo[w] /\ pc[w] = "rv_delete")
    BY <1>1
    DEF Proceed, ReserveQuota, InsertBan, ReleaseQuota, ApproveTx, Expand, DriftRelease,
      DriftReserve, DriftBack, DriftSave, DispatchGuard, DispatchVeto, DispatchInsert,
      RecordLadder, RejectUpdate, RevokeQuery, RevokePrefix, RevokeWrite, RollbackReject,
      Goto, Return, MayFail
  <2>3. ASSUME NEW v \in Workers \ {w}, pc[v] # "idle"
        PROVE  /\ pc'[v] = pc[v] /\ job'[v] = job[v] /\ todo'[v] = todo[v]
               /\ state'[job[v]] = state[job[v]]
    BY <1>1, <2>3, StepOfOne, OtherBans
  <2>4. \A v \in Workers \ {w} : pc'[v] = pc[v]
    BY <1>1, StepOfOne
  <2> QED
    BY <1>0, <2>1, <2>2, <2>3, <2>4 DEF AloneInv
<1>2. ASSUME NEW w \in Workers, NEW b \in Bans, Serve(w, b)
      PROVE  AloneInv'
  <2>1. /\ UNCHANGED state
        /\ \A v \in Workers \ {w} : pc'[v] = pc[v] /\ job'[v] = job[v] /\ todo'[v] = todo[v]
    BY <1>2
    DEF Serve, ScopedBanCreate, ScopedBanApprove, ScopedBanReject, ScopedBanRevoke,
      LookupRollbackPending, Begin
  <2>2. /\ pc'[w] = "rb_reject" => state[job'[w]] = "pending"
        /\ pc'[w] \in GrantedPCs => state[job'[w]] = "active"
        /\ pc'[w] # "rv_delete"
    BY <1>2
    DEF Serve, ScopedBanCreate, ScopedBanApprove, ScopedBanReject, ScopedBanRevoke,
      LookupRollbackPending, Begin, IsPending
  <2> QED
    BY <1>0, <2>1, <2>2 DEF AloneInv
<1>3. CASE Restart
  BY <1>3 DEF Restart, AloneInv
<1>4. CASE UNCHANGED <<state, pc, job, todo>>
  BY <1>0, <1>4 DEF AloneInv
<1> QED
  BY <1>1, <1>2, <1>3, <1>4
  DEF Next, Execute, Poll, Apply, PutPrefix, Mark, Reload, EditProtected, vars

\* A key that was taken out stays accounted for until the process ends.
LEMMA TakenOutStays ==
  ASSUME ~Faults, Apart, BInv, AloneInv, [Next]_vars, ~Restart,
         NEW k, TakenOut(k)
  PROVE  TakenOut(k)'
<1> USE DEF BInv, BTypes, table, handlers, executor, maps
<1>1. PICK d \in dispatch :
        /\ k \in {Key(d.ban, p) : p \in d.prefixes}
        /\ state[d.ban] = "revoked"
           \/ \E w \in Workers : job[w] = d.ban /\ pc[w] \in {"rv_delete", "rv_write"}
  BY DEF TakenOut
<1>2. PICK e \in dispatch' : e.ban = d.ban /\ e.prefixes = d.prefixes
  BY RowsStay
<1>3. d.ban \in Bans /\ state[d.ban] # "none"
  BY DEF GrantInv, StatesInv, Rows
<1>4. state'[d.ban] = "revoked"
      \/ \E w \in Workers : job'[w] = d.ban /\ pc'[w] \in {"rv_delete", "rv_write"}
  <2>1. ASSUME NEW w \in Workers, Proceed(w)
        PROVE  \/ state'[d.ban] = "revoked"
               \/ \E v \in Workers : job'[v] = d.ban /\ pc'[v] \in {"rv_delete", "rv_write"}
    <3>1. CASE pc[w] \in {"rv_delete", "rv_write"} /\ job[w] = d.ban
      BY <1>3, <2>1, <3>1
      DEF Proceed, ReserveQuota, InsertBan, ReleaseQuota, ApproveTx, Expand, DriftRelease,
        DriftReserve, DriftBack, DriftSave, DispatchGuard, DispatchVeto, DispatchInsert,
        RecordLadder, RejectUpdate, RevokeQuery, RevokePrefix, RevokeWrite, RollbackReject, Goto, Return,
        SetState, MayFail
    <3>2. CASE state[d.ban] = "revoked"
      BY <1>3, <2>1, <3>2
      DEF Proceed, ReserveQuota, InsertBan, ReleaseQuota, ApproveTx, Expand, DriftRelease,
        DriftReserve, DriftBack, DriftSave, DispatchGuard, DispatchVeto, DispatchInsert,
        RecordLadder, RejectUpdate, RevokeQuery, RevokePrefix, RevokeWrite, RollbackReject,
        SetState, IsPending, AloneInv, GrantedPCs, JobInv, SubmitPCs
    <3>3. ASSUME NEW v \in Workers \ {w}, job[v] = d.ban, pc[v] \in {"rv_delete", "rv_write"}
          PROVE  job'[v] = d.ban /\ pc'[v] \in {"rv_delete", "rv_write"}
      BY <2>1, <3>3, StepOfOne
    <3> QED
      BY <1>1, <3>1, <3>2, <3>3
  <2>2. ASSUME NEW w \in Workers, NEW b \in Bans, Serve(w, b)
        PROVE  \/ state'[d.ban] = "revoked"
               \/ \E v \in Workers : job'[v] = d.ban /\ pc'[v] \in {"rv_delete", "rv_write"}
    BY <1>1, <2>2
    DEF Serve, ScopedBanCreate, ScopedBanApprove, ScopedBanReject, ScopedBanRevoke,
      LookupRollbackPending, Begin
  <2>3. CASE UNCHANGED <<state, pc, job>>
    BY <1>1, <2>3
  <2> QED
    BY <2>1, <2>2, <2>3
    DEF Next, Execute, Poll, Apply, PutPrefix, Mark, Reload, EditProtected, vars
<1> QED
  BY <1>1, <1>2, <1>4 DEF TakenOut, Key

LEMMA WrittenStep ==
  ASSUME ~Faults, Apart, BInv, AloneInv, WrittenInv, [Next]_vars
  PROVE  WrittenInv'
<1> USE DEF BInv, BTypes, table, handlers, executor, maps
<1>1. CASE Restart
  BY <1>1 DEF Restart, WrittenInv
<1> SUFFICES ASSUME ~Restart PROVE WrittenInv'
  BY <1>1
<1>2. \A k : TakenOut(k) => TakenOut(k)'
  BY TakenOutStays
<1>3. ASSUME NEW w \in Workers, RevokePrefix(w)
      PROVE  WrittenInv'
  <2>1. CASE UNCHANGED kernel
    BY <1>2, <1>3, <2>1 DEF RevokePrefix, WrittenInv, Key
  <2>2. ASSUME NEW p \in todo[w], kernel' = [kernel EXCEPT ![Key(job[w], p)] = None],
               UNCHANGED <<pc, job>>
        PROVE  WrittenInv'
    <3>1. PICK d \in dispatch : d.ban = job[w] /\ p \in d.prefixes
      BY <1>3, <2>2 DEF RevokePrefix, AloneInv, RowPrefixes
    <3>2. TakenOut(Key(job[w], p))'
      BY <1>3, <2>2, <3>1 DEF RevokePrefix, TakenOut
    <3>3. \A k \in Keys : kernel'[k] = kernel[k] \/ k = Key(job[w], p)
      BY <2>2
    <3>4. \A q \in cur.prefixes : cur # None => Key(cur.ban, q) \in Keys
      BY KeyInKeys DEF Rows
    <3> QED
      BY <1>2, <1>3, <3>2, <3>3, <3>4 DEF RevokePrefix, WrittenInv, Key
  <2> QED
    BY <1>3, <2>1, <2>2 DEF RevokePrefix, MayFail
<1>4. ASSUME NEW d \in batch, Apply(d)
      PROVE  WrittenInv'
  BY <1>4 DEF Apply, MayFail, WrittenInv
<1>5. ASSUME NEW p \in left, PutPrefix(p)
      PROVE  WrittenInv'
  <2>1. cur \in Rows /\ Key(cur.ban, p) \in Keys /\ cur.ban \in Bans
    BY <1>5, KeyInKeys DEF PutPrefix, Rows
  <2>2. CASE kernel' = [kernel EXCEPT ![Key(cur.ban, p)] = cur.ban] /\ left' = left \ {p}
    <3>1. \A k \in Keys : kernel'[k] = kernel[k] \/ kernel'[k] = cur.ban
      BY <2>2
    <3>2. kernel'[Key(cur.ban, p)] # None
      BY <2>1, <2>2, ScopedAssumption DEF ScopedAssumption
    <3>3. \A q \in cur.prefixes : Key(cur.ban, q) \in Keys
      BY <2>1, KeyInKeys DEF Rows
    <3>4. cur.ban # None
      BY <2>1, ScopedAssumption DEF ScopedAssumption
    <3>5. UNCHANGED <<cur, failed>>
      BY <1>5, <2>1, <2>2, <3>2 DEF PutPrefix, MayFail, Full
    <3>6. \A q \in cur.prefixes \ left' : q = p \/ q \in cur.prefixes \ left
      BY <2>2
    <3> QED
      BY <1>2, <3>1, <3>2, <3>3, <3>4, <3>5, <3>6 DEF WrittenInv, Key
  <2>3. CASE failed' = TRUE
    BY <2>3 DEF WrittenInv
  <2> QED
    BY <1>5, <2>2, <2>3 DEF PutPrefix
<1>6. CASE Mark
  BY <1>6 DEF Mark, WrittenInv
<1>7. CASE UNCHANGED <<cur, left, failed, kernel>>
  BY <1>2, <1>7 DEF WrittenInv, Key
<1> QED
  BY <1>3, <1>4, <1>5, <1>6, <1>7
  DEF Next, Proceed, ReserveQuota, InsertBan, ReleaseQuota, ApproveTx, Expand, DriftRelease,
    DriftReserve, DriftBack, DriftSave, DispatchGuard, DispatchVeto, DispatchInsert,
    RecordLadder, RejectUpdate, RevokeQuery, RevokeWrite, RollbackReject, Serve,
    ScopedBanCreate, ScopedBanApprove, ScopedBanReject, ScopedBanRevoke,
    LookupRollbackPending, Execute, Poll, Reload, EditProtected, vars

LEMMA ApartIsKept == ApartSpec => Spec /\ []Apart
<1>1. Init => Apart
  BY DEF Init, Apart
<1>2. Apart /\ [Next /\ ~Collide]_vars => Apart'
  BY DEF Apart, Collide, vars, handlers
<1> QED
  BY <1>1, <1>2, PTL DEF ApartSpec, Spec

\* Without faults, and while no two requests are about the same ban, an acknowledged
\* row is in the map to its last prefix, unless a rollback took a key out again: a
\* map that is full, or becomes full in the middle of a row, never ends in an
\* acknowledgement.
THEOREM AcknowledgedIsComplete ==
  ASSUME ~Faults
  PROVE  ApartSpec => AckedIsComplete
<1> DEFINE AckedStep ==
      \A d \in dispatch' \ dispatch : d.state = "acked" =>
        \A p \in d.prefixes : kernel[Key(d.ban, p)] # None \/ TakenOut(Key(d.ban, p))
<1>1. Init => AloneInv /\ WrittenInv
  BY DEF Init, AloneInv, WrittenInv, GrantedPCs
<1>2. BInv /\ Apart /\ AloneInv /\ WrittenInv /\ [Next]_vars => AloneInv' /\ WrittenInv'
  BY AloneStep, WrittenStep
<1>3. BInv /\ WrittenInv /\ [Next]_vars => [AckedStep]_vars
  <2> SUFFICES ASSUME BInv, WrittenInv, Next, NEW d \in dispatch' \ dispatch, d.state = "acked"
               PROVE  \A p \in d.prefixes :
                        kernel[Key(d.ban, p)] # None \/ TakenOut(Key(d.ban, p))
    OBVIOUS
  <2>1. Mark
    <3>1. ASSUME NEW w \in Workers, DispatchInsert(w)
          PROVE  FALSE
      BY <3>1 DEF DispatchInsert, InsertRow
    <3> QED
      BY <3>1
      DEF Next, Proceed, ReserveQuota, InsertBan, ReleaseQuota, ApproveTx, Expand, DriftRelease,
        DriftReserve, DriftBack, DriftSave, DispatchGuard, DispatchVeto,
        RecordLadder, RejectUpdate, RevokeQuery, RevokePrefix, RevokeWrite, RollbackReject, Serve,
        ScopedBanCreate, ScopedBanApprove, ScopedBanReject, ScopedBanRevoke,
        LookupRollbackPending, Execute, Poll, Apply, PutPrefix, Reload, EditProtected, Restart
  <2>2. /\ cur \in Rows /\ left = {} /\ cur # None
        /\ d = [cur EXCEPT !.state = IF failed THEN "failed" ELSE "acked"]
    BY <2>1 DEF Mark, BInv, BTypes
  <2>3. ~failed /\ d.ban = cur.ban /\ d.prefixes = cur.prefixes
    BY <2>2 DEF Rows
  <2> QED
    BY <2>2, <2>3 DEF WrittenInv
<1> QED
  BY ScopedInvariantCorrect, ApartIsKept, <1>1, <1>2, <1>3, PTL DEF Spec, AckedIsComplete
=============================================================================
