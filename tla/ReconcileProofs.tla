--------------------------- MODULE ReconcileProofs ---------------------------
(***************************************************************************)
(* Theorems about ReconcileLoop for every value of the constants.  The     *)
(* pipeline's invariant is taken over from BanPipelineProofs.  That a loss *)
(* is reported (LossIsReported) is liveness and stays with TLC.            *)
(***************************************************************************)
EXTENDS ReconcileLoop, BanPipelineProofs

------------------------------------------------------------------------------
(* The inductive invariant *)

\* The executor has put the key of r, whether or not it has marked r yet.
WasPut(r) == dispatch[r] = "acked" \/ (cur = r /\ applied)

\* A key that was put is in the map unless it was removed since.
PutInv ==
  \A r \in Requests : WasPut(r) =>
    /\ reqTarget[r] \in Targets
    /\ kernel[reqTarget[r]] # None \/ reqTarget[r] \in cleared

\* What the loop works on: the key of an acknowledged ban is still to be listed,
\* or was seen, or was removed before it could be.  A listing that ends early
\* reports with the first of the three.
ListInv ==
  \A r \in acked :
    /\ dispatch[r] = "acked"
    /\ phase = "list" => reqTarget[r] \in toList \cup live \cup cleared

CInv == IInv /\ ReconcileTypeOK /\ PutInv /\ ListInv

LEMMA CInit == ReconcileInit => CInv
<1> SUFFICES ASSUME ReconcileInit PROVE CInv
  OBVIOUS
<1>1. IInv
  BY InvariantInit DEF ReconcileInit
<1>2. ReconcileTypeOK
  BY <1>1 DEF ReconcileInit, ReconcileTypeOK, IInv
<1>3. PutInv
  BY DEF ReconcileInit, Init, PutInv, WasPut
<1> QED
  BY <1>1, <1>2, <1>3 DEF ReconcileInit, CInv, ListInv

------------------------------------------------------------------------------
(* What the pipeline does to an acknowledged ban *)

\* A row that was dispatched keeps its target.
LEMMA TargetIsKept ==
  ASSUME IInv, Next, NEW r \in Requests, dispatch[r] # "none"
  PROVE  reqTarget'[r] = reqTarget[r]
<1>1. reqState[r] # "none"
  BY DEF IInv, RowInv
<1>2. ASSUME NEW w \in Workers, NEW q \in Requests, Serve(w, q)
      PROVE  reqTarget'[r] = reqTarget[r]
  <2>1. ASSUME NEW t \in Targets, BanCreate(w, q, t)
        PROVE  reqTarget'[r] = reqTarget[r]
    BY <1>1, <2>1 DEF BanCreate, IInv, TypeOK
  <2> QED
    BY <1>2, <2>1 DEF Serve, BanApprove, BanReject, ApproveDoApprove, ApproveDoReject,
                      LookupRollback, table
<1>3. ASSUME NEW w \in Workers, Proceed(w)
      PROVE  UNCHANGED reqTarget
  BY <1>3 DEF Proceed, GenTokensAndSend, BanApproveTx, BanRejectUpdate, DispatchGuard,
              DispatchVeto, DispatchInsert, RecordLadder, RollbackReject, RevokeGlobal,
              RollbackRevoke, table
<1>4. CASE Execute
  BY <1>4 DEF Execute, Poll, Apply, Mark, table
<1>5. ASSUME NEW q \in Requests, ExpireToken(q) PROVE UNCHANGED reqTarget
  BY <1>5 DEF ExpireToken
<1>6. ASSUME NEW t \in Targets, EditProtected(t) PROVE UNCHANGED reqTarget
  BY <1>6 DEF EditProtected, table
<1>7. CASE Restart
  BY <1>7 DEF Restart, table
<1> QED
  BY <1>2, <1>3, <1>4, <1>5, <1>6, <1>7 DEF Next, Run

\* An acknowledgement is final, and only a key that was put is acknowledged.
LEMMA PutIsKept ==
  ASSUME IInv, Next, NEW r \in Requests
  PROVE  /\ dispatch[r] = "acked" => dispatch'[r] = "acked"
         /\ WasPut(r)' => WasPut(r) \/ (dispatch[r] # "none" /\ kernel'[reqTarget[r]] # None
                                          /\ reqTarget[r] \in Targets)
<1>1. /\ dispatch \in [Requests -> DispatchStates] /\ cur \in Requests \cup {None}
      /\ kernel \in [Targets -> Requests \cup {None}] /\ None \notin Requests
      /\ \A q \in batch : q \in Requests /\ dispatch[q] = "pending"
      /\ cur # None => dispatch[cur] = "pending"
  BY PipelineAssumption DEF PipelineAssumption, IInv, TypeOK, ExecutorInv
<1>2. ASSUME NEW w \in Workers, Proceed(w)
      PROVE  /\ UNCHANGED <<cur, applied>>
             /\ \A q \in Requests : dispatch'[q] = dispatch[q]
                                     \/ (dispatch[q] = "none" /\ dispatch'[q] = "pending")
  <2>1. CASE DispatchInsert(w)
    BY <1>1, <2>1 DEF DispatchInsert, executor
  <2>2. CASE ~DispatchInsert(w)
    BY <1>2, <2>2 DEF Proceed, GenTokensAndSend, BanApproveTx, BanRejectUpdate, DispatchGuard,
              DispatchVeto, RecordLadder, RollbackReject, RevokeGlobal, RollbackRevoke, executor
  <2> QED
    BY <2>1, <2>2
<1>3. ASSUME NEW w \in Workers, NEW q \in Requests, Serve(w, q)
      PROVE  UNCHANGED <<dispatch, cur, applied>>
  BY <1>3 DEF Serve, BanCreate, BanApprove, BanReject, ApproveDoApprove, ApproveDoReject,
              LookupRollback, executor
<1>4. CASE Poll
  <2>1. UNCHANGED <<dispatch, cur, applied>>
    BY <1>4 DEF Poll
  <2> QED
    BY <2>1 DEF WasPut
<1>5. ASSUME NEW q \in Requests, Apply(q)
      PROVE  /\ dispatch[r] = "acked" => dispatch'[r] = "acked"
             /\ WasPut(r)' => WasPut(r) \/ (dispatch[r] # "none" /\ kernel'[reqTarget[r]] # None
                                              /\ reqTarget[r] \in Targets)
  <2>1. dispatch' = dispatch /\ cur' = q /\ q \in batch
    BY <1>5 DEF Apply
  <2>2. reqTarget[q] \in Targets
    BY <1>1, <2>1 DEF IInv, RowInv
  <2>3. applied' => kernel' = [kernel EXCEPT ![reqTarget[q]] = q]
    BY <1>5 DEF Apply
  <2> QED
    BY <1>1, <2>1, <2>2, <2>3 DEF WasPut
<1>6. CASE Mark
  <2>1. /\ cur # None /\ cur' = None
        /\ \/ dispatch' = [dispatch EXCEPT ![cur] = IF applied THEN "acked" ELSE "failed"]
           \/ dispatch' = dispatch
    BY <1>6 DEF Mark, NextInBatch
  <2> QED
    BY <1>1, <2>1 DEF WasPut
<1>7. ASSUME NEW q \in Requests, ExpireToken(q) PROVE UNCHANGED <<dispatch, cur, applied>>
  BY <1>7 DEF ExpireToken, executor
<1>8. ASSUME NEW t \in Targets, EditProtected(t) PROVE UNCHANGED <<dispatch, cur, applied>>
  BY <1>8 DEF EditProtected, executor
<1>9. CASE Restart
  <2>1. dispatch' = dispatch /\ applied' = FALSE
    BY <1>9 DEF Restart
  <2> QED
    BY <2>1 DEF WasPut
<1>10. CASE UNCHANGED <<dispatch, cur, applied>>
  BY <1>10 DEF WasPut
<1>11. CASE \E w \in Workers : Proceed(w)
  BY <1>2, <1>11 DEF WasPut
<1> QED
  BY <1>3, <1>4, <1>5, <1>6, <1>7, <1>8, <1>9, <1>10, <1>11 DEF Next, Run, Execute

------------------------------------------------------------------------------
(* The inductive invariant is inductive *)

LEMMA PipelineStepInv ==
  ASSUME CInv, PipelineStep
  PROVE  CInv'
<1>1. Next /\ cleared' = cleared \cup Removed
  BY DEF PipelineStep, Next
<1>2. IInv'
  BY <1>1, InvariantStep DEF CInv
<1>3. \/ UNCHANGED <<acked, toList, live, phase, drifts>>
      \/ acked' = {} /\ toList' = {} /\ live' = {} /\ phase' = "wait" /\ drifts' = {}
  BY DEF PipelineStep, reconciler
<1>4. ReconcileTypeOK'
  BY <1>1, <1>2, <1>3 DEF CInv, ReconcileTypeOK, IInv, Removed
<1>5. \A r \in Requests : dispatch[r] = "acked" =>
        dispatch'[r] = "acked" /\ reqTarget'[r] = reqTarget[r]
  BY <1>1, PutIsKept, TargetIsKept DEF CInv
<1>6. PutInv'
  <2> SUFFICES ASSUME NEW r \in Requests, WasPut(r)'
               PROVE  /\ reqTarget'[r] \in Targets
                      /\ kernel'[reqTarget'[r]] # None \/ reqTarget'[r] \in cleared'
    BY DEF PutInv
  <2>1. dispatch[r] # "none"
    BY <1>1, PutIsKept, PipelineAssumption
       DEF PipelineAssumption, CInv, IInv, ExecutorInv, WasPut
  <2>2. reqTarget'[r] = reqTarget[r]
    BY <1>1, <2>1, TargetIsKept DEF CInv
  <2>3. CASE WasPut(r)
    BY <1>1, <2>2, <2>3 DEF CInv, PutInv, Removed
  <2>4. CASE ~WasPut(r)
    BY <1>1, <2>2, <2>4, PutIsKept DEF CInv
  <2> QED
    BY <2>3, <2>4
<1>7. ListInv'
  BY <1>1, <1>3, <1>5 DEF CInv, ReconcileTypeOK, ListInv
<1> QED
  BY <1>2, <1>4, <1>6, <1>7 DEF CInv

\* The loop's own steps leave the pipeline as it is.
LEMMA ReconcileKeeps ==
  ASSUME CInv, UNCHANGED <<vars, cleared>>
  PROVE  IInv' /\ TypeOK' /\ PutInv'
<1>1. IInv'
  BY InvariantStep DEF CInv
<1> QED
  BY <1>1 DEF CInv, IInv, PutInv, WasPut, vars, table, executor

LEMMA ReadAckedInv ==
  ASSUME CInv, ReadAcked
  PROVE  CInv'
<1>1. IInv' /\ TypeOK' /\ PutInv'
  BY ReconcileKeeps DEF ReadAcked
<1>2. /\ UNCHANGED <<dispatch, reqTarget, cleared>>
      /\ acked' = {r \in Requests : dispatch[r] = "acked"}
      /\ toList' = Targets /\ live' = {} /\ drifts' = {} /\ phase' = "list"
  BY DEF ReadAcked, vars, table
<1>3. ReconcileTypeOK'
  BY <1>1, <1>2 DEF CInv, ReconcileTypeOK
<1>4. ListInv'
  BY <1>2 DEF CInv, PutInv, WasPut, ListInv
<1> QED
  BY <1>1, <1>3, <1>4 DEF CInv

\* A key that is not found belongs to no acknowledged ban, or was removed.
LEMMA ListGlobalBansInv ==
  ASSUME CInv, NEW t \in Targets, ListGlobalBans(t)
  PROVE  CInv'
<1>1. IInv' /\ TypeOK' /\ PutInv'
  BY ReconcileKeeps DEF ListGlobalBans
<1>2. /\ UNCHANGED <<dispatch, reqTarget, kernel, cleared, acked, phase, drifts>>
      /\ toList' = toList \ {t}
      /\ live' = IF kernel[t] # None THEN live \cup {t} ELSE live
      /\ phase = "list"
  BY DEF ListGlobalBans, vars, table
<1>3. ReconcileTypeOK'
  BY <1>1, <1>2 DEF CInv, ReconcileTypeOK
<1>4. ListInv'
  BY <1>2 DEF CInv, ReconcileTypeOK, PutInv, WasPut, ListInv
<1> QED
  BY <1>1, <1>3, <1>4 DEF CInv

LEMMA ReportInv ==
  ASSUME CInv, Report
  PROVE  CInv'
<1>1. IInv' /\ TypeOK' /\ PutInv'
  BY ReconcileKeeps DEF Report
<1>2. /\ UNCHANGED cleared
      /\ phase' = "wait" /\ acked' = {} /\ toList' = {} /\ live' = {}
      /\ drifts' \subseteq Missing
  BY DEF Report, vars, table
<1>3. ReconcileTypeOK' /\ ListInv'
  BY <1>1, <1>2 DEF CInv, ReconcileTypeOK, ListInv, Missing
<1> QED
  BY <1>1, <1>3 DEF CInv

LEMMA CNext == CInv /\ [ReconcileNext]_rvars => CInv'
<1> SUFFICES ASSUME CInv, [ReconcileNext]_rvars PROVE CInv'
  OBVIOUS
<1>1. CASE PipelineStep
  BY <1>1, PipelineStepInv
<1>2. CASE Reconcile
  BY <1>2, ReadAckedInv, ListGlobalBansInv, ReportInv DEF Reconcile
<1>3. CASE UNCHANGED rvars
  <2>1. UNCHANGED <<vars, cleared>> /\ UNCHANGED <<acked, toList, live, phase, drifts>>
    BY <1>3 DEF rvars, reconciler
  <2>2. IInv' /\ TypeOK' /\ PutInv'
    BY <2>1, ReconcileKeeps
  <2> QED
    BY <2>1, <2>2 DEF CInv, ReconcileTypeOK, ListInv, vars, table
<1> QED
  BY <1>1, <1>2, <1>3 DEF ReconcileNext

LEMMA CInvariant == ReconcileSpec => []CInv
<1> QED
  BY CInit, CNext, PTL DEF ReconcileSpec

------------------------------------------------------------------------------
(* Theorems *)

\* The variables of the loop keep their types next to those of the pipeline.
THEOREM ReconcileTypeCorrect == ReconcileSpec => []ReconcileTypeOK
<1>1. CInv => ReconcileTypeOK
  BY DEF CInv
<1> QED
  BY <1>1, CInvariant, PTL

\* Whatever fell in between the reads of the loop, a reported ban lost its key by
\* a removal, or its key was not reached by the listing.
THEOREM EveryDriftHasCause == ReconcileSpec => DriftHasCause
<1> DEFINE Cause == \A r \in drifts' \ drifts : reqTarget[r] \in cleared \cup toList
<1>1. CInv /\ [ReconcileNext]_rvars => [Cause]_rvars
  <2> SUFFICES ASSUME CInv, ReconcileNext PROVE Cause
    OBVIOUS
  <2>1. CASE Report
    <3>1. phase = "list" /\ drifts' \subseteq Missing
      BY <2>1 DEF Report
    <3> QED
      BY <3>1 DEF CInv, ListInv, Missing
  <2>2. CASE ~Report
    <3>1. drifts' \subseteq drifts
      BY <2>2 DEF ReconcileNext, PipelineStep, Reconcile, reconciler, ReadAcked,
                  ListGlobalBans
    <3> QED
      BY <3>1
  <2> QED
    BY <2>1, <2>2
<1> QED
  BY <1>1, CInvariant, PTL DEF ReconcileSpec, DriftHasCause
=============================================================================
