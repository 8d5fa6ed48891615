-------------------------- MODULE BanPipelineProofs --------------------------
(***************************************************************************)
(* Theorems about BanPipeline for every value of its constants.  The       *)
(* inductive invariant IInv says what the handlers rely on but no single   *)
(* check in the code establishes: who holds decideMu, what the worker that *)
(* holds it has already done to its row, and that the executor's batch is  *)
(* a subset of the rows still pending.                                     *)
(***************************************************************************)
EXTENDS BanPipeline, FiniteSetTheorems, TLAPS

------------------------------------------------------------------------------
(* The inductive invariant *)

\* decideMu is held exactly by the worker between Lock and Unlock.
MutexInv == \A w \in Workers : pc[w] \in LockPCs <=> decideMu = w

\* A row's state, effective_at and dispatch agree with each other.
RowInv ==
  \A r \in Requests :
    /\ effective[r] => reqState[r] \notin {"none", "pending"}
    /\ reqState[r] = "active" => effective[r]
    /\ dispatch[r] # "none" => effective[r]
    /\ reqState[r] = "safety_blocked" => dispatch[r] = "none"
    /\ reqState[r] # "none" => reqTarget[r] \in Targets

\* What a worker at a program point knows about its row.
WorkerInv ==
  \A w \in Workers : pc[w] # "idle" =>
    /\ job[w] \in Requests
    /\ reqState[job[w]] # "none"
    /\ pc[w] \in PostTxPCs \cup {"rb_delete", "rb_revoke"} => effective[job[w]]
    /\ pc[w] \in {"guard", "veto", "insert"} =>
         dispatch[job[w]] = "none" /\ reqState[job[w]] # "safety_blocked"

\* The executor's snapshot cannot go stale: only the executor leaves "pending".
ExecutorInv ==
  /\ \A r \in batch : dispatch[r] = "pending"
  /\ cur # None => cur \in batch

IInv == TypeOK /\ MutexInv /\ RowInv /\ WorkerInv /\ ExecutorInv /\ EnforcedOnlyIfApproved
------------------------------------------------------------------------------
(* Type correctness *)

\* A rung climbed from a level of the ladder is a level of the ladder.
LEMMA RungIsLevel ==
  ASSUME NEW level \in Levels, NEW escalate \in BOOLEAN
  PROVE  Rung(level, escalate) \in Levels
BY PipelineAssumption DEF PipelineAssumption, Rung, Levels

\* Every TTL nextTTL may return, and every level RegisterBan may reach, is on
\* the ladder, for an existing row and for a missing one.
LEMMA NextLevelsAreLevels ==
  ASSUME NEW row \in Levels \cup {None}
  PROVE  NextLevels(row) \subseteq Levels
<1>1. Observing(row) \subseteq BOOLEAN
  BY DEF Observing
<1>2. LevelOf(row) \in Levels
  BY PipelineAssumption DEF PipelineAssumption, LevelOf, Levels
<1> QED
  BY <1>1, <1>2, RungIsLevel DEF NextLevels

\* The same with the level 0 a failed query falls back to.
LEMMA SubmissionLevelsAreLevels ==
  ASSUME TypeOK, NEW t \in Targets
  PROVE  LevelsAtSubmission(t) \subseteq Levels
<1>1. ladder[t] \in Levels \cup {None}
  BY DEF TypeOK
<1>2. 0 \in Levels
  BY PipelineAssumption DEF PipelineAssumption, Levels
<1> QED
  BY <1>1, <1>2, NextLevelsAreLevels DEF LevelsAtSubmission

\* The initial tables have their types.
LEMMA TypeInit == Init => TypeOK
<1>1. 0 \in Levels
  BY PipelineAssumption DEF PipelineAssumption, Levels
<1>2. Init => effective \in [Requests -> BOOLEAN]
  BY DEF Init
<1>5. Init => applied \in BOOLEAN
  BY DEF Init
<1>3. Init => /\ reqState \in [Requests -> ReqStates]
              /\ reqTarget \in [Requests -> Targets \cup {None}]
              /\ reqLevel \in [Requests -> Levels]
              /\ token \in [Requests -> TokenStates]
              /\ dispatch \in [Requests -> DispatchStates]
              /\ ladder \in [Targets -> Levels \cup {None}]
  BY <1>1 DEF Init, ReqStates, TokenStates, DispatchStates
<1>4. Init => /\ protected \in SUBSET Targets
              /\ decideMu \in Workers \cup {None}
              /\ pc \in [Workers -> PCs]
              /\ job \in [Workers -> Requests \cup {None}]
              /\ batch \in SUBSET Requests
              /\ cur \in Requests \cup {None}
              /\ kernel \in [Targets -> Requests \cup {None}]
  BY DEF Init, PCs
<1> QED
  BY <1>2, <1>3, <1>4, <1>5 DEF TypeOK

\* Every action keeps the types.
LEMMA TypeStep == TypeOK /\ [Next]_vars => TypeOK'
<1> SUFFICES ASSUME TypeOK, [Next]_vars PROVE TypeOK'
  OBVIOUS
<1> USE DEF TypeOK, table, handlers, executor, ReqStates, TokenStates, DispatchStates,
            PCs, LockPCs, PreTxPCs, PostTxPCs, RollbackPCs
<1>1. ASSUME NEW w \in Workers, Proceed(w), TypeOK
      PROVE  TypeOK'
  <2>1. CASE GenTokensAndSend(w)
    BY <2>1 DEF GenTokensAndSend, Return
  <2>2. CASE BanApproveTx(w)
    BY <2>2 DEF BanApproveTx, Grant, Goto, Return, Unlock
  <2>3. CASE BanRejectUpdate(w)
    BY <2>3 DEF BanRejectUpdate, Refuse, Return, Unlock
  <2>4. CASE DispatchGuard(w)
    BY <2>4 DEF DispatchGuard, Goto
  <2>5. CASE DispatchVeto(w)
    BY <2>5 DEF DispatchVeto, Return, Unlock
  <2>6. CASE DispatchInsert(w)
    BY <2>6 DEF DispatchInsert, Goto, Return, Unlock
  <2>7. CASE RecordLadder(w)
    <3> DEFINE t == reqTarget[job[w]]
    <3>1. ladder' \in [Targets -> Levels \cup {None}]
      <4>1. CASE UNCHANGED ladder
        BY <4>1
      <4>2. ASSUME NEW level \in NextLevels(ladder[t]), t \in Targets,
                   ladder' = [ladder EXCEPT ![t] = level]
            PROVE  ladder' \in [Targets -> Levels \cup {None}]
        <5>1. level \in Levels
          BY <4>2, NextLevelsAreLevels
        <5> QED
          BY <4>2, <5>1
      <4>3. ASSUME NEW level \in NextLevels(ladder[t]), t \notin Targets,
                   ladder' = [ladder EXCEPT ![t] = level]
            PROVE  ladder' \in [Targets -> Levels \cup {None}]
        BY <4>3
      <4> QED
        BY <2>7, <4>1, <4>2, <4>3 DEF RecordLadder
    <3> QED
      BY <2>7, <3>1 DEF RecordLadder, Return, Unlock
  <2>8. CASE RollbackReject(w)
    BY <2>8 DEF RollbackReject, Return
  <2>9. CASE RevokeGlobal(w)
    BY <2>9 DEF RevokeGlobal, Goto, Return
  <2>10. CASE RollbackRevoke(w)
    BY <2>10 DEF RollbackRevoke, Return
  <2> QED
    BY <1>1, <2>1, <2>2, <2>3, <2>4, <2>5, <2>6, <2>7, <2>8, <2>9, <2>10 DEF Proceed
<1>2. ASSUME NEW w \in Workers, NEW r \in Requests, Serve(w, r), TypeOK
      PROVE  TypeOK'
  <2>1. ASSUME NEW t \in Targets, BanCreate(w, r, t)
        PROVE  TypeOK'
    BY <2>1, SubmissionLevelsAreLevels DEF BanCreate, Begin
  <2>2. CASE BanApprove(w, r)
    BY <2>2 DEF BanApprove, Begin, Lock
  <2>3. CASE BanReject(w, r)
    BY <2>3 DEF BanReject, Begin, Lock
  <2>4. CASE ApproveDoApprove(w, r)
    BY <2>4 DEF ApproveDoApprove, Begin, Lock, UseToken, Grant
  <2>5. CASE ApproveDoReject(w, r)
    BY <2>5 DEF ApproveDoReject, UseToken, Refuse
  <2>6. CASE LookupRollback(w, r)
    BY <2>6 DEF LookupRollback, Begin
  <2> QED
    BY <1>2, <2>1, <2>2, <2>3, <2>4, <2>5, <2>6 DEF Serve
<1>3. CASE Poll
  BY <1>3 DEF Poll, Waiting
<1>4. ASSUME NEW r \in Requests, Apply(r)
      PROVE  TypeOK'
  BY <1>4 DEF Apply
<1>5. CASE Mark
  BY <1>5 DEF Mark, NextInBatch
<1>6. ASSUME NEW r \in Requests, ExpireToken(r)
      PROVE  TypeOK'
  BY <1>6 DEF ExpireToken
<1>7. ASSUME NEW t \in Targets, EditProtected(t)
      PROVE  TypeOK'
  BY <1>7 DEF EditProtected
<1>8. CASE Restart
  BY <1>8 DEF Restart
<1>9. CASE UNCHANGED vars
  BY <1>9 DEF vars
<1> QED
  BY <1>1, <1>2, <1>3, <1>4, <1>5, <1>6, <1>7, <1>8, <1>9 DEF Next, Run, Execute

\* The tables, the handlers and the executor hold only values of their types.
THEOREM TypeCorrect == Spec => []TypeOK
BY TypeInit, TypeStep, PTL DEF Spec

------------------------------------------------------------------------------
(* The inductive invariant is inductive *)

\* Nothing is locked, decided, dispatched or enforced at first.
LEMMA InvariantInit == Init => IInv
<1> SUFFICES ASSUME Init PROVE IInv
  OBVIOUS
<1>1. TypeOK
  BY TypeInit
<1> QED
  BY <1>1, PipelineAssumption
  DEF Init, IInv, MutexInv, RowInv, WorkerInv, ExecutorInv, EnforcedOnlyIfApproved,
      PipelineAssumption, LockPCs, PreTxPCs, PostTxPCs

\* Every action keeps the inductive invariant.
LEMMA InvariantStep == IInv /\ [Next]_vars => IInv'
<1> SUFFICES ASSUME IInv, [Next]_vars PROVE IInv'
  OBVIOUS
<1>0. TypeOK /\ TypeOK'
  BY TypeStep DEF IInv
<1> USE PipelineAssumption
    DEF PipelineAssumption, IInv, TypeOK, MutexInv, RowInv, WorkerInv, ExecutorInv,
        EnforcedOnlyIfApproved, table, handlers, executor, ReqStates, DispatchStates,
        PCs, LockPCs, PreTxPCs, PostTxPCs, RollbackPCs
<1>1. ASSUME NEW w \in Workers, Proceed(w) PROVE IInv'
  <2>1. CASE GenTokensAndSend(w)
    BY <1>0, <2>1 DEF GenTokensAndSend, Return
  <2>2. CASE BanApproveTx(w)
    BY <1>0, <2>2 DEF BanApproveTx, IsPending, Grant, Goto, Return, Unlock
  <2>3. CASE BanRejectUpdate(w)
    BY <1>0, <2>3 DEF BanRejectUpdate, IsPending, Refuse, Return, Unlock
  <2>4. CASE DispatchGuard(w)
    BY <1>0, <2>4 DEF DispatchGuard, Goto
  <2>5. CASE DispatchVeto(w)
    BY <1>0, <2>5 DEF DispatchVeto, Return, Unlock
  <2>6. CASE DispatchInsert(w)
    BY <1>0, <2>6 DEF DispatchInsert, Goto, Return, Unlock
  <2>7. CASE RecordLadder(w)
    BY <1>0, <2>7 DEF RecordLadder, Return, Unlock
  <2>8. CASE RollbackReject(w)
    BY <1>0, <2>8 DEF RollbackReject, Return
  <2>9. CASE RevokeGlobal(w)
    BY <1>0, <2>9 DEF RevokeGlobal, Goto, Return
  <2>10. CASE RollbackRevoke(w)
    BY <1>0, <2>10 DEF RollbackRevoke, Return
  <2> QED
    BY <1>1, <2>1, <2>2, <2>3, <2>4, <2>5, <2>6, <2>7, <2>8, <2>9, <2>10 DEF Proceed
<1>2. ASSUME NEW w \in Workers, NEW r \in Requests, Serve(w, r) PROVE IInv'
  <2>1. ASSUME NEW t \in Targets, BanCreate(w, r, t) PROVE IInv'
    BY <1>0, <2>1 DEF BanCreate, Begin
  <2>2. CASE BanApprove(w, r)
    BY <1>0, <2>2 DEF BanApprove, Begin, Lock, IsPending
  <2>3. CASE BanReject(w, r)
    BY <1>0, <2>3 DEF BanReject, Begin, Lock, IsPending
  <2>4. CASE ApproveDoApprove(w, r)
    BY <1>0, <2>4 DEF ApproveDoApprove, Begin, Lock, UseToken, IsPending, Grant
  <2>5. CASE ApproveDoReject(w, r)
    BY <1>0, <2>5 DEF ApproveDoReject, UseToken, IsPending, Refuse
  <2>6. CASE LookupRollback(w, r)
    BY <1>0, <2>6 DEF LookupRollback, Begin
  <2> QED
    BY <1>2, <2>1, <2>2, <2>3, <2>4, <2>5, <2>6 DEF Serve
<1>3. CASE Poll
  BY <1>0, <1>3 DEF Poll, Waiting
<1>4. ASSUME NEW r \in Requests, Apply(r) PROVE IInv'
  BY <1>0, <1>4 DEF Apply
<1>5. CASE Mark
  BY <1>0, <1>5 DEF Mark, NextInBatch
<1>6. ASSUME NEW r \in Requests, ExpireToken(r) PROVE IInv'
  BY <1>0, <1>6 DEF ExpireToken
<1>7. ASSUME NEW t \in Targets, EditProtected(t) PROVE IInv'
  BY <1>0, <1>7 DEF EditProtected
<1>8. CASE Restart
  BY <1>0, <1>8 DEF Restart
<1>9. CASE UNCHANGED vars
  BY <1>0, <1>9 DEF vars
<1> QED
  BY <1>1, <1>2, <1>3, <1>4, <1>5, <1>6, <1>7, <1>8, <1>9 DEF Next, Run, Execute
------------------------------------------------------------------------------
(* Safety *)

\* IInv holds in every reachable state.
THEOREM InvariantCorrect == Spec => []IInv
BY InvariantInit, InvariantStep, PTL DEF Spec

\* A rule in the kernel always belongs to an approved and dispatched request
\* for the target it is stored under (README: approval is the only way a ban
\* comes into existence).
THEOREM EnforcementIsApproved == Spec => []EnforcedOnlyIfApproved
<1>1. IInv => EnforcedOnlyIfApproved
  BY DEF IInv
<1> QED
  BY <1>1, InvariantCorrect, PTL

\* A request vetoed at dispatch time is never handed to the executor.
THEOREM VetoIsFinal == Spec => []VetoedNeverDispatched
<1>1. IInv => VetoedNeverDispatched
  BY DEF IInv, RowInv, VetoedNeverDispatched
<1> QED
  BY <1>1, InvariantCorrect, PTL

\* A request once rejected, revoked or vetoed is never pending or active again,
\* however many handlers hold an older copy of its row.
THEOREM ClosedStaysClosed == Spec => NoResurrection
<1>1. IInv /\ [Next]_vars =>
        [\A r \in Requests : Closed(reqState[r]) => reqState'[r] \notin {"pending", "active"}]_vars
  <2> SUFFICES ASSUME IInv, Next, NEW r \in Requests, Closed(reqState[r])
               PROVE  reqState'[r] \notin {"pending", "active"}
    OBVIOUS
  <2> USE DEF IInv, TypeOK, WorkerInv, Closed, table, IsPending
  <2>1. ASSUME NEW w \in Workers, Proceed(w)
        PROVE  reqState'[r] \notin {"pending", "active"}
    BY <2>1 DEF Proceed, GenTokensAndSend, BanApproveTx, BanRejectUpdate, DispatchGuard,
                DispatchVeto, DispatchInsert, RecordLadder, RollbackReject, RevokeGlobal,
                RollbackRevoke, Grant, Refuse
  <2>2. ASSUME NEW w \in Workers, NEW s \in Requests, Serve(w, s)
        PROVE  reqState'[r] \notin {"pending", "active"}
    BY <2>2 DEF Serve, BanCreate, BanApprove, BanReject, ApproveDoApprove, ApproveDoReject,
                LookupRollback, UseToken, Grant, Refuse
  <2>3. ASSUME UNCHANGED reqState
        PROVE  reqState'[r] \notin {"pending", "active"}
    BY <2>3
  <2> QED
    BY <2>1, <2>2, <2>3
    DEF Next, Run, Execute, Poll, Apply, Mark, ExpireToken, EditProtected, Restart
<1> QED
  BY <1>1, InvariantCorrect, PTL DEF Spec, NoResurrection

\* The executor writes a rule only while its dispatch is still pending, so the
\* rule of an acknowledged dispatch is never written a second time.
THEOREM AcknowledgedOnce == Spec => NoPutAfterAck
<1>1. IInv /\ [Next]_vars =>
        [\A t \in Targets : kernel'[t] \notin {kernel[t], None} =>
           dispatch[kernel'[t]] = "pending"]_vars
  <2> SUFFICES ASSUME IInv, Next, NEW t \in Targets, kernel'[t] \notin {kernel[t], None}
               PROVE  dispatch[kernel'[t]] = "pending"
    OBVIOUS
  <2> USE DEF IInv, TypeOK
  <2>1. ASSUME NEW r \in Requests, Apply(r)
        PROVE  dispatch[kernel'[t]] = "pending"
    BY <2>1 DEF Apply, ExecutorInv
  <2>2. ASSUME NEW w \in Workers, Proceed(w)
        PROVE  FALSE
    BY <2>2 DEF Proceed, GenTokensAndSend, BanApproveTx, BanRejectUpdate, DispatchGuard,
                DispatchVeto, DispatchInsert, RecordLadder, RollbackReject, RevokeGlobal,
                RollbackRevoke
  <2>3. CASE Restart
    BY <2>3 DEF Restart
  <2>4. CASE UNCHANGED kernel
    BY <2>4
  <2> QED
    BY <2>1, <2>2, <2>3, <2>4
    DEF Next, Run, Execute, Poll, Mark, ExpireToken, EditProtected, Serve, BanCreate, BanApprove,
        BanReject, ApproveDoApprove, ApproveDoReject, LookupRollback
<1> QED
  BY <1>1, InvariantCorrect, PTL DEF Spec, NoPutAfterAck

------------------------------------------------------------------------------
(* The penalty ladder *)

\* Requests between their grant and the end of the handler that granted them.
InFlight == {job[w] : w \in {v \in Workers : pc[v] \in PostTxPCs}}

\* The approved bans of a target whose handler has ended.
Counted(t) == Approved(t) \ InFlight

\* A row of the ladder stands one rung lower than the bans it has counted, and a
\* request no higher than the bans that were approved.
LadderInv == \A t \in Targets : ladder[t] # None => ladder[t] < Cardinality(Counted(t))
LevelInv ==
  \A r \in Requests : reqState[r] # "none" => reqLevel[r] <= Cardinality(Approved(reqTarget[r]))

SInv == IInv /\ LadderInv /\ LevelInv

LEMMA Counting ==
  ASSUME NEW S \in SUBSET Requests
  PROVE  IsFiniteSet(S) /\ Cardinality(S) \in Nat
BY PipelineAssumption, FS_Subset, FS_CardinalityType DEF PipelineAssumption

\* A larger set of requests counts for at least as much.
LEMMA CountGrows ==
  ASSUME NEW S \in SUBSET Requests, NEW T \in SUBSET S
  PROVE  Cardinality(T) <= Cardinality(S)
BY Counting, FS_Subset

\* An approved ban stays approved, for the same target, and a counted one counted.
LEMMA ApprovedGrows ==
  ASSUME IInv, [Next]_vars, NEW t
  PROVE  Approved(t) \subseteq Approved(t)' /\ Counted(t) \subseteq Counted(t)'
<1> SUFFICES ASSUME NEW r \in Approved(t)
             PROVE  r \in Approved(t)' /\ (r \notin InFlight => r \notin InFlight')
  BY DEF Counted
<1>0. r \in Requests /\ effective[r] /\ reqTarget[r] = t /\ reqState[r] \notin {"none", "pending"}
  BY DEF Approved, IInv, RowInv
<1> SUFFICES /\ effective'[r] /\ reqTarget'[r] = t
             /\ \A w \in Workers : pc'[w] \in PostTxPCs /\ job'[w] = r =>
                                     pc[w] \in PostTxPCs /\ job[w] = r
  BY <1>0 DEF Approved, InFlight
<1> USE DEF IInv, TypeOK, WorkerInv, IsPending, table, handlers, PostTxPCs
<1>1. ASSUME NEW w \in Workers, Proceed(w)
      PROVE  /\ effective'[r] /\ reqTarget'[r] = t
             /\ \A v \in Workers : pc'[v] \in PostTxPCs /\ job'[v] = r =>
                                     pc[v] \in PostTxPCs /\ job[v] = r
  <2>1. CASE GenTokensAndSend(w)
    BY <1>0, <2>1 DEF GenTokensAndSend, Return
  <2>2. CASE BanApproveTx(w)
    BY <1>0, <2>2 DEF BanApproveTx, Grant, Goto, Return
  <2>3. CASE BanRejectUpdate(w)
    BY <1>0, <2>3 DEF BanRejectUpdate, Refuse, Return
  <2>4. CASE DispatchGuard(w)
    BY <1>0, <2>4 DEF DispatchGuard, Goto
  <2>5. CASE DispatchVeto(w)
    BY <1>0, <2>5 DEF DispatchVeto, Return
  <2>6. CASE DispatchInsert(w)
    BY <1>0, <2>6 DEF DispatchInsert, Goto, Return
  <2>7. CASE RecordLadder(w)
    BY <1>0, <2>7 DEF RecordLadder, Return
  <2>8. CASE RollbackReject(w)
    BY <1>0, <2>8 DEF RollbackReject, Return
  <2>9. CASE RevokeGlobal(w)
    BY <1>0, <2>9 DEF RevokeGlobal, Goto, Return
  <2>10. CASE RollbackRevoke(w)
    BY <1>0, <2>10 DEF RollbackRevoke, Return
  <2> QED
    BY <1>1, <2>1, <2>2, <2>3, <2>4, <2>5, <2>6, <2>7, <2>8, <2>9, <2>10 DEF Proceed
<1>2. ASSUME NEW w \in Workers, NEW q \in Requests, Serve(w, q)
      PROVE  /\ effective'[r] /\ reqTarget'[r] = t
             /\ \A v \in Workers : pc'[v] \in PostTxPCs /\ job'[v] = r =>
                                     pc[v] \in PostTxPCs /\ job[v] = r
  <2>1. ASSUME NEW u \in Targets, BanCreate(w, q, u)
        PROVE  effective'[r] /\ reqTarget'[r] = t
    BY <1>0, <2>1 DEF BanCreate
  <2>2. CASE ApproveDoApprove(w, q)
    BY <1>0, <2>2 DEF ApproveDoApprove, Begin, UseToken, Grant
  <2>3. CASE ApproveDoReject(w, q)
    BY <1>0, <2>3 DEF ApproveDoReject, Refuse
  <2>4. CASE \E at \in {"mail", "approve", "reject", "rb_reject", "rb_delete"} : Begin(w, at, q)
    <3>1. \A v \in Workers : pc'[v] \in PostTxPCs /\ job'[v] = r =>
                                pc[v] \in PostTxPCs /\ job[v] = r
      BY <2>4 DEF Begin
    <3>2. effective'[r] /\ reqTarget'[r] = t
      BY <1>0, <1>2, <2>1, <2>2, <2>3 DEF Serve, BanApprove, BanReject, LookupRollback
    <3> QED
      BY <3>1, <3>2
  <2> QED
    BY <1>2, <2>2, <2>3, <2>4 DEF Serve, BanCreate, BanApprove, BanReject, LookupRollback
<1>3. CASE Restart
  BY <1>0, <1>3 DEF Restart
<1>4. CASE UNCHANGED <<effective, reqTarget, pc, job>>
  BY <1>0, <1>4
<1> QED
  BY <1>1, <1>2, <1>3, <1>4
  DEF Next, Run, Execute, Poll, Apply, Mark, ExpireToken, EditProtected, vars

\* The rung above a row is at most the number of bans the row has counted.
LEMMA NextRung ==
  ASSUME NEW row \in Levels \cup {None}, NEW level \in NextLevels(row),
         NEW n \in Nat, row # None => row < n
  PROVE  level <= n
<1>1. TopLevel \in Nat /\ None \notin Nat
  BY PipelineAssumption DEF PipelineAssumption
<1>2. PICK escalate \in Observing(row) : level = Rung(LevelOf(row), escalate)
  BY DEF NextLevels
<1>3. CASE row = None
  <2>1. level = 0
    BY <1>2, <1>3 DEF Observing, LevelOf, Rung
  <2> QED
    BY <2>1
<1>4. CASE row # None
  <2>1. row \in Nat /\ level \in {row, row + 1}
    BY <1>1, <1>2, <1>4 DEF LevelOf, Rung, Levels
  <2> QED
    BY <1>4, <2>1
<1> QED
  BY <1>3, <1>4

\* Recording a ban moves its target up one rung at most and counts the ban.
LEMMA RecordCounts ==
  ASSUME IInv, LadderInv, NEW w \in Workers, RecordLadder(w)
  PROVE  LadderInv'
<1>0. pc[w] = "record" /\ job[w] \in Requests /\ effective[job[w]]
  BY DEF RecordLadder, IInv, WorkerInv, PostTxPCs
<1> PICK r \in Requests : r = job[w]
  BY <1>0
<1> PICK t \in Targets : t = reqTarget[r]
  BY <1>0 DEF IInv, RowInv
<1>1. /\ pc[w] = "record" /\ r \in Requests /\ effective[r] /\ t \in Targets
      /\ reqTarget' = reqTarget /\ effective' = effective
      /\ pc' = [pc EXCEPT ![w] = "idle"]
  BY <1>0 DEF RecordLadder, Return, table
<1>2. \A v \in Workers : pc[v] \in PostTxPCs => v = w
  BY <1>1 DEF IInv, MutexInv, LockPCs, PostTxPCs
<1>3. InFlight = {r} /\ InFlight' = {}
  BY <1>1, <1>2 DEF InFlight, IInv, TypeOK, PostTxPCs
<1>4. \A u : Approved(u)' = Approved(u)
  BY <1>1 DEF Approved
<1>5. r \in Approved(t) /\ Counted(t) = Approved(t) \ {r} /\ Counted(t)' = Approved(t)
  BY <1>1, <1>3, <1>4 DEF Approved, Counted
<1>6. Cardinality(Counted(t)') = Cardinality(Counted(t)) + 1
  <2>1. Counted(t) \in SUBSET Requests /\ r \notin Counted(t)
    BY <1>5 DEF Approved
  <2>2. Counted(t)' = Counted(t) \cup {r}
    BY <1>5
  <2> QED
    BY <2>1, <2>2, Counting, FS_AddElement
<1>7. ASSUME NEW u \in Targets, u # t, ladder'[u] # None
      PROVE  ladder'[u] < Cardinality(Counted(u)')
  <2>1. ladder'[u] = ladder[u]
    BY <1>7 DEF RecordLadder, IInv, TypeOK
  <2>2. Counted(u)' = Counted(u)
    BY <1>3, <1>4, <1>7 DEF Counted, Approved
  <2> QED
    BY <1>7, <2>1, <2>2 DEF LadderInv
<1>8. ASSUME ladder'[t] # None
      PROVE  ladder'[t] < Cardinality(Counted(t)')
  <2>1. Cardinality(Counted(t)) \in Nat /\ ladder[t] \in Levels \cup {None}
    BY <1>1, Counting DEF Counted, Approved, IInv, TypeOK
  <2>2. ladder[t] # None => ladder[t] < Cardinality(Counted(t))
    BY <1>1 DEF LadderInv
  <2>3. CASE UNCHANGED ladder
    BY <1>6, <1>8, <2>1, <2>2, <2>3, PipelineAssumption DEF PipelineAssumption, Levels
  <2>4. ASSUME NEW level \in NextLevels(ladder[t]), ladder' = [ladder EXCEPT ![t] = level]
        PROVE  ladder'[t] < Cardinality(Counted(t)')
    <3>1. ladder'[t] = level
      BY <1>1, <2>4 DEF IInv, TypeOK
    <3>2. level <= Cardinality(Counted(t))
      BY <2>1, <2>2, NextRung
    <3>3. level \in Levels
      BY <2>1, <2>4, NextLevelsAreLevels
    <3>4. level \in Nat
      BY <3>3, PipelineAssumption DEF PipelineAssumption, Levels
    <3> QED
      BY <1>6, <2>1, <3>1, <3>2, <3>4
  <2> QED
    BY <2>3, <2>4 DEF RecordLadder
<1> QED
  BY <1>7, <1>8 DEF LadderInv

LEMMA LadderStep == SInv /\ [Next]_vars => LadderInv'
<1> SUFFICES ASSUME SInv, [Next]_vars PROVE LadderInv'
  OBVIOUS
<1>1. CASE UNCHANGED ladder
  <2> SUFFICES ASSUME NEW t \in Targets, ladder[t] # None
               PROVE  ladder[t] < Cardinality(Counted(t)')
    BY <1>1 DEF LadderInv
  <2>1. Counted(t) \in SUBSET Counted(t)' /\ Counted(t)' \in SUBSET Requests
    BY ApprovedGrows DEF SInv, Counted, Approved
  <2>2. Cardinality(Counted(t)) <= Cardinality(Counted(t)')
    BY <2>1, CountGrows
  <2>3. Cardinality(Counted(t)) \in Nat /\ Cardinality(Counted(t)') \in Nat /\ ladder[t] \in Nat
    BY <2>1, Counting, PipelineAssumption DEF PipelineAssumption, SInv, IInv, TypeOK, Levels
  <2> QED
    BY <2>2, <2>3 DEF SInv, LadderInv
<1>2. ASSUME NEW w \in Workers, RecordLadder(w) PROVE LadderInv'
  BY <1>2, RecordCounts DEF SInv
<1> QED
  BY <1>1, <1>2
  DEF Next, Run, Execute, Proceed, Serve, GenTokensAndSend, BanApproveTx, BanRejectUpdate,
      DispatchGuard, DispatchVeto, DispatchInsert, RollbackReject, RevokeGlobal, RollbackRevoke,
      BanCreate, BanApprove, BanReject, ApproveDoApprove, ApproveDoReject, LookupRollback,
      Poll, Apply, Mark, ExpireToken, EditProtected, Restart, vars

LEMMA LevelStep == SInv /\ [Next]_vars => LevelInv'
<1> SUFFICES ASSUME SInv, [Next]_vars, NEW r \in Requests, reqState'[r] # "none"
             PROVE  \E t : reqTarget'[r] = t /\ reqLevel'[r] <= Cardinality(Approved(t)')
  BY DEF LevelInv, Approved
<1> DEFINE Fits == \E t : reqTarget'[r] = t /\ reqLevel'[r] <= Cardinality(Approved(t)')
<1>1. ASSUME reqState[r] # "none", reqLevel'[r] = reqLevel[r], reqTarget'[r] = reqTarget[r]
      PROVE  Fits
  <2> PICK t : t = reqTarget[r]
    OBVIOUS
  <2>1. Approved(t) \in SUBSET Approved(t)' /\ Approved(t)' \in SUBSET Requests
    BY ApprovedGrows DEF SInv, Approved
  <2>2. /\ Cardinality(Approved(t)) <= Cardinality(Approved(t)')
        /\ Cardinality(Approved(t)) \in Nat /\ Cardinality(Approved(t)') \in Nat
    BY <2>1, CountGrows, Counting
  <2>3. reqLevel[r] <= Cardinality(Approved(t)) /\ reqLevel[r] \in Nat
    BY <1>1, PipelineAssumption DEF PipelineAssumption, SInv, LevelInv, IInv, TypeOK, Levels
  <2>4. reqLevel'[r] <= Cardinality(Approved(t)')
    BY <1>1, <2>2, <2>3
  <2> QED
    BY <1>1, <2>4
<1>2. ASSUME NEW w \in Workers, NEW q \in Requests, NEW t \in Targets, BanCreate(w, q, t)
      PROVE  Fits
  <2>1. CASE r # q
    <3>1. reqState[r] # "none" /\ reqLevel'[r] = reqLevel[r] /\ reqTarget'[r] = reqTarget[r]
      BY <1>2, <2>1 DEF BanCreate, SInv, IInv, TypeOK
    <3> QED
      BY <1>1, <3>1
  <2>2. CASE r = q
    <3>1. PICK level \in LevelsAtSubmission(t) : reqLevel' = [reqLevel EXCEPT ![r] = level]
      BY <1>2, <2>2 DEF BanCreate
    <3>2. reqLevel'[r] = level /\ reqTarget'[r] = t
      BY <1>2, <2>2, <3>1 DEF BanCreate, SInv, IInv, TypeOK
    <3>3. /\ Counted(t) \in SUBSET Approved(t)' /\ Approved(t)' \in SUBSET Requests
      BY ApprovedGrows DEF SInv, Counted, Approved
    <3>4. /\ Cardinality(Counted(t)) <= Cardinality(Approved(t)')
          /\ Cardinality(Counted(t)) \in Nat /\ Cardinality(Approved(t)') \in Nat
      BY <3>3, CountGrows, Counting
    <3>5. level <= Cardinality(Counted(t)) /\ level \in Nat
      <4>1. ladder[t] \in Levels \cup {None}
            /\ (ladder[t] # None => ladder[t] < Cardinality(Counted(t)))
        BY DEF SInv, LadderInv, IInv, TypeOK
      <4>2. CASE level \in NextLevels(ladder[t])
        <5>1. level <= Cardinality(Counted(t))
          BY <3>4, <4>1, <4>2, NextRung
        <5>2. level \in Levels
          BY <4>1, <4>2, NextLevelsAreLevels
        <5> QED
          BY <5>1, <5>2 DEF Levels
      <4>3. CASE level = 0
        BY <3>4, <4>3
      <4> QED
        BY <3>1, <4>2, <4>3 DEF LevelsAtSubmission
    <3>6. reqLevel'[r] <= Cardinality(Approved(t)')
      BY <3>2, <3>4, <3>5
    <3> QED
      BY <3>2, <3>6
  <2> QED
    BY <2>1, <2>2
<1>3. ASSUME UNCHANGED <<reqLevel, reqTarget>>, reqState'[r] # "none" => reqState[r] # "none"
      PROVE  Fits
  BY <1>1, <1>3
<1>4. ASSUME NEW w \in Workers, Proceed(w)
      PROVE  UNCHANGED <<reqLevel, reqTarget>> /\ (reqState'[r] # "none" => reqState[r] # "none")
  BY <1>4 DEF Proceed, GenTokensAndSend, BanApproveTx, BanRejectUpdate, DispatchGuard,
              DispatchVeto, DispatchInsert, RecordLadder, RollbackReject, RevokeGlobal,
              RollbackRevoke, Grant, Refuse, IsPending, table, SInv, IInv, TypeOK, WorkerInv
<1>5. ASSUME NEW w \in Workers, NEW q \in Requests, Serve(w, q), ~ \E t \in Targets : BanCreate(w, q, t)
      PROVE  UNCHANGED <<reqLevel, reqTarget>> /\ (reqState'[r] # "none" => reqState[r] # "none")
  BY <1>5 DEF Serve, BanApprove, BanReject, ApproveDoApprove, ApproveDoReject, LookupRollback,
              UseToken, Grant, Refuse, IsPending, table, SInv, IInv, TypeOK
<1>6. CASE UNCHANGED <<reqState, reqLevel, reqTarget>>
  BY <1>3, <1>6
<1> QED
  BY <1>2, <1>3, <1>4, <1>5, <1>6
  DEF Next, Run, Execute, Poll, Apply, Mark, ExpireToken, EditProtected, Restart, vars, table

\* Each rung of the ladder above the first takes one approved ban of that target,
\* for any number of requests that are submitted and approved concurrently.
THEOREM SeverityEarned == Spec => []SeverityIsEarned
<1>1. Init => SInv
  <2> SUFFICES ASSUME Init PROVE LadderInv /\ LevelInv
    BY InvariantInit DEF SInv
  <2> QED
    BY DEF Init, LadderInv, LevelInv
<1>2. SInv /\ [Next]_vars => SInv'
  BY InvariantStep, LadderStep, LevelStep DEF SInv
<1>3. SInv => SeverityIsEarned
  <2> SUFFICES ASSUME SInv, NEW t \in Targets, ladder[t] # None
               PROVE  ladder[t] < Cardinality(Approved(t))
    BY DEF SInv, LevelInv, SeverityIsEarned
  <2>1. Counted(t) \in SUBSET Approved(t) /\ Approved(t) \in SUBSET Requests
    BY DEF Counted, Approved
  <2>2. /\ Cardinality(Counted(t)) <= Cardinality(Approved(t))
        /\ Cardinality(Counted(t)) \in Nat /\ Cardinality(Approved(t)) \in Nat
    BY <2>1, CountGrows, Counting
  <2>3. ladder[t] \in Nat
    BY PipelineAssumption DEF PipelineAssumption, SInv, IInv, TypeOK, Levels
  <2> QED
    BY <2>2, <2>3 DEF SInv, LadderInv
<1> QED
  BY <1>1, <1>2, <1>3, PTL DEF Spec

------------------------------------------------------------------------------
(* BanPipeline implements ApprovalGate *)

gate == [r \in Requests |-> GateOf(r)]

\* The abstract verdict of a request depends on its state and effective_at only.
LEMMA GateUnchanged ==
  ASSUME UNCHANGED <<reqState, effective>>
  PROVE  gate' = gate
BY DEF gate, GateOf

\* Closing a granted request leaves it granted: the gate has been passed.
LEMMA GateOfEffective ==
  ASSUME TypeOK, NEW r \in Requests, NEW v \in ReqStates,
         effective[r], UNCHANGED effective,
         reqState' = [reqState EXCEPT ![r] = v]
  PROVE  gate' = gate
BY DEF gate, GateOf, TypeOK

\* Rejecting a pending request is the abstract decision to refuse it.
LEMMA GateRefuse ==
  ASSUME IInv, NEW r \in Requests, IsPending(r), UNCHANGED <<effective, kernel>>,
         reqState' = [reqState EXCEPT ![r] = "rejected"]
  PROVE  Gate!Decide(r)
<1>1. ~effective[r]
  BY DEF IInv, RowInv, IsPending
<1>2. gate' = [gate EXCEPT ![r] = "refused"]
  BY <1>1 DEF gate, GateOf, IInv, TypeOK, IsPending
<1>3. gate[r] = "open"
  BY <1>1 DEF gate, GateOf, IsPending
<1> QED
  BY <1>2, <1>3 DEF gate, Gate!Decide, Gate!Verdicts

\* The approving transaction is the abstract decision to grant.
LEMMA GateGrant ==
  ASSUME IInv, NEW r \in Requests, IsPending(r), Grant(r), UNCHANGED kernel
  PROVE  Gate!Decide(r)
<1>1. ~effective[r]
  BY DEF IInv, RowInv, IsPending
<1>2. gate' = [gate EXCEPT ![r] = "granted"]
  BY <1>1 DEF gate, GateOf, IInv, TypeOK, IsPending, Grant
<1>3. gate[r] = "open"
  BY <1>1 DEF gate, GateOf, IsPending
<1> QED
  BY <1>2, <1>3 DEF gate, Gate!Decide, Gate!Verdicts

\* Nothing is submitted and no slot is taken at first.
LEMMA GateInit == Init => Gate!Init
BY DEF Init, Gate!Init, GateOf

\* Every step of the pipeline is a step of the gate or leaves it unchanged.
LEMMA GateStep == IInv /\ [Next]_vars => [Gate!Next]_(Gate!vars)
<1> SUFFICES ASSUME IInv, [Next]_vars PROVE Gate!Next \/ UNCHANGED Gate!vars
  OBVIOUS
<1>0. TypeOK
  BY DEF IInv
<1>1. ASSUME UNCHANGED <<reqState, effective, kernel>>
      PROVE  UNCHANGED Gate!vars
  BY <1>1, GateUnchanged DEF Gate!vars, gate
<1>2. ASSUME NEW r \in Requests, Gate!Decide(r)
      PROVE  Gate!Next
  BY <1>2 DEF Gate!Next
<1>3. ASSUME NEW S \in SUBSET Targets, Gate!Clear(S)
      PROVE  Gate!Next
  BY <1>3 DEF Gate!Next
<1>4. ASSUME NEW w \in Workers, Proceed(w)
      PROVE  Gate!Next \/ UNCHANGED Gate!vars
  <2>1. CASE BanApproveTx(w)
    <3>1. CASE UNCHANGED <<reqState, effective>>
      BY <1>1, <2>1, <3>1 DEF BanApproveTx
    <3>2. CASE IsPending(job[w]) /\ Grant(job[w])
      BY <1>2, <2>1, <3>2, GateGrant DEF BanApproveTx, IInv, WorkerInv
    <3> QED
      BY <2>1, <3>1, <3>2 DEF BanApproveTx
  <2>2. CASE BanRejectUpdate(w)
    <3>1. CASE UNCHANGED <<reqState, effective>>
      BY <1>1, <2>2, <3>1 DEF BanRejectUpdate
    <3>2. CASE IsPending(job[w]) /\ Refuse(job[w])
      BY <1>2, <2>2, <3>2, GateRefuse DEF BanRejectUpdate, Refuse, IInv, WorkerInv
    <3> QED
      BY <2>2, <3>1, <3>2 DEF BanRejectUpdate
  <2>3. CASE DispatchVeto(w) \/ RollbackRevoke(w)
    <3>1. job[w] \in Requests /\ effective[job[w]]
      BY <2>3 DEF DispatchVeto, RollbackRevoke, IInv, WorkerInv, PostTxPCs
    <3>2. UNCHANGED kernel
      BY <2>3 DEF DispatchVeto, RollbackRevoke
    <3>3. gate' = gate
      BY <1>0, <2>3, <3>1, GateOfEffective, GateUnchanged
      DEF DispatchVeto, RollbackRevoke, ReqStates
    <3> QED
      BY <3>2, <3>3 DEF Gate!vars, gate
  <2>4. CASE RollbackReject(w)
    <3> DEFINE r == job[w]
    <3>1. r \in Requests /\ reqState[r] # "none"
      BY <2>4 DEF RollbackReject, IInv, WorkerInv
    <3>2. CASE UNCHANGED reqState
      BY <1>1, <2>4, <3>2 DEF RollbackReject
    <3>3. CASE reqState' = [reqState EXCEPT ![r] = "rejected"] /\ IsPending(r)
      BY <1>2, <2>4, <3>1, <3>3, GateRefuse DEF RollbackReject
    <3>4. CASE reqState' = [reqState EXCEPT ![r] = "rejected"] /\ ~IsPending(r)
      <4>1. gate' = gate
        BY <1>0, <2>4, <3>1, <3>4 DEF RollbackReject, gate, GateOf, IsPending, TypeOK
      <4> QED
        BY <2>4, <4>1 DEF RollbackReject, Gate!vars, gate
    <3> QED
      BY <2>4, <3>2, <3>3, <3>4 DEF RollbackReject
  <2>5. CASE RevokeGlobal(w)
    <3>1. CASE UNCHANGED kernel
      BY <1>1, <2>5, <3>1 DEF RevokeGlobal, table
    <3>2. CASE kernel' = [kernel EXCEPT ![reqTarget[job[w]]] = None]
      <4> DEFINE t == reqTarget[job[w]]
      <4>1. t \in Targets
        BY <2>5 DEF RevokeGlobal, IInv, WorkerInv, RowInv
      <4>2. kernel' = [u \in Targets |-> IF u \in {t} THEN None ELSE kernel[u]]
        BY <1>0, <3>2, <4>1 DEF TypeOK
      <4>3. gate' = gate
        BY <2>5, GateUnchanged DEF RevokeGlobal, table
      <4>4. Gate!Clear({t})
        BY <4>2, <4>3 DEF Gate!Clear, gate
      <4> QED
        BY <1>3, <4>1, <4>4
    <3> QED
      BY <2>5, <3>1, <3>2 DEF RevokeGlobal
  <2>6. CASE GenTokensAndSend(w) \/ DispatchGuard(w) \/ DispatchInsert(w) \/ RecordLadder(w)
    BY <1>1, <2>6 DEF GenTokensAndSend, DispatchGuard, DispatchInsert, RecordLadder, table
  <2> QED
    BY <1>4, <2>1, <2>2, <2>3, <2>4, <2>5, <2>6 DEF Proceed
<1>5. ASSUME NEW w \in Workers, NEW r \in Requests, Serve(w, r)
      PROVE  Gate!Next \/ UNCHANGED Gate!vars
  <2>1. ASSUME NEW t \in Targets, BanCreate(w, r, t)
        PROVE  Gate!Next
    <3>1. ~effective[r] /\ reqState[r] = "none"
      BY <2>1 DEF BanCreate, IInv, RowInv
    <3>2. gate' = [gate EXCEPT ![r] = "open"] /\ gate[r] = "absent"
      BY <1>0, <2>1, <3>1 DEF BanCreate, gate, GateOf, TypeOK
    <3>3. Gate!Submit(r)
      BY <2>1, <3>2 DEF BanCreate, Gate!Submit, gate
    <3> QED
      BY <3>3 DEF Gate!Next
  <2>2. CASE ApproveDoApprove(w, r)
    BY <1>2, <2>2, GateGrant DEF ApproveDoApprove, UseToken
  <2>3. CASE ApproveDoReject(w, r)
    BY <1>2, <2>3, GateRefuse DEF ApproveDoReject, UseToken, Refuse
  <2>4. CASE BanApprove(w, r) \/ BanReject(w, r) \/ LookupRollback(w, r)
    BY <1>1, <2>4 DEF BanApprove, BanReject, LookupRollback, table
  <2> QED
    BY <1>5, <2>1, <2>2, <2>3, <2>4 DEF Serve
<1>6. ASSUME NEW r \in Requests, Apply(r)
      PROVE  Gate!Next \/ UNCHANGED Gate!vars
  <2> DEFINE t == reqTarget[r]
  <2>1. effective[r] /\ t \in Targets
    BY <1>6 DEF Apply, IInv, ExecutorInv, RowInv
  <2>2. gate' = gate /\ gate[r] = "granted"
    BY <1>6, <2>1, GateUnchanged DEF Apply, table, gate, GateOf
  <2>3. CASE UNCHANGED kernel
    BY <1>1, <1>6, <2>3 DEF Apply, table
  <2>4. CASE kernel' = [kernel EXCEPT ![t] = r]
    BY <2>1, <2>2, <2>4 DEF Gate!Next, Gate!Install, gate
  <2> QED
    BY <1>6, <2>3, <2>4 DEF Apply
<1>7. CASE Restart
  <2>1. gate' = gate
    BY <1>7, GateUnchanged DEF Restart, table
  <2>2. Gate!Clear(Targets)
    BY <1>7, <2>1 DEF Restart, Gate!Clear, gate
  <2> QED
    BY <1>3, <2>2
<1> QED
  BY <1>1, <1>4, <1>5, <1>6, <1>7
  DEF Next, Run, Execute, Poll, Mark, ExpireToken, EditProtected, vars, table

\* The pipeline keeps the promise of ApprovalGate: a request is decided once,
\* and only a granted one is ever given a slot of the kernel map.
THEOREM PipelineImplementsGate == Spec => ImplementsApprovalGate
BY InvariantCorrect, GateInit, GateStep, PTL DEF Spec, ImplementsApprovalGate, Gate!Spec
==============================================================================
