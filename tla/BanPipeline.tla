----------------------------- MODULE BanPipeline -----------------------------
(***************************************************************************)
(* The life of a global ban of one target, from submission to the kernel   *)
(* map and back: the web handlers banCreate, banApprove, banReject,        *)
(* approveDo and the "ban" branch of lookupRollback (internal/web), the    *)
(* approval mailer (internal/approval), the dispatch service               *)
(* (internal/dispatch), the penalty ladder as those handlers use it        *)
(* (internal/escalation) and the executor loop of cmd/xdpban with its eBPF *)
(* map src_ban_global.                                                     *)
(*                                                                         *)
(* A worker is a goroutine serving one HTTP request.  One action is one    *)
(* database statement, transaction or map operation together with the pure *)
(* code around it; everything a handler remembers between two of them is   *)
(* its program counter and the id of the row it works on.  The database    *)
(* tables survive a restart; workers, the mutex, the executor's batch and  *)
(* the kernel map do not (the map is not pinned, it dies with the process).*)
(***************************************************************************)
EXTENDS Naturals, FiniteSets

CONSTANTS
  Requests,     \* primary keys of ban_requests, the bound on submissions
  Targets,      \* addresses and prefixes users ask to ban
  Unparsable,   \* targets the guard accepts but ParseIPv4Prefix refuses (IPv6)
  Workers,      \* goroutines serving HTTP requests
  TopLevel,     \* last index of escalation.Ladder, the permanent level
  BatchLimit,   \* Limit(..) of the executor's query
  Faults,       \* whether single database statements and map writes may fail
  Restarts,     \* whether the process may stop and start again
  None          \* no request, no target, no worker, no ladder row

ASSUME PipelineAssumption ==
  /\ IsFiniteSet(Requests)
  /\ Unparsable \subseteq Targets
  /\ None \notin Requests \cup Targets \cup Workers \cup Nat
  /\ TopLevel \in Nat \ {0}
  /\ BatchLimit \in Nat \ {0}
  /\ Faults \in BOOLEAN
  /\ Restarts \in BOOLEAN

VARIABLES
  reqState,   \* ban_requests.state, "none" before the row is inserted
  reqTarget,  \* ban_requests.target
  reqLevel,   \* the rung of the ladder whose TTL ban_requests.ttl_seconds holds
  effective,  \* whether ban_requests.effective_at is set
  token,      \* the approval token mailed for the request
  dispatch,   \* dispatches.state of the row "ban-<id>-<target>"
  ladder,     \* ban_ladders.level of a target, None without a row
  protected,  \* active protected_targets
  decideMu,   \* Handler.decideMu: the worker that holds it
  pc, job,    \* what each worker does next, and for which request
  batch, cur, applied, \* pollAndExecute: its snapshot, the row it is at, Apply's result
  kernel      \* src_ban_global: the rule id stored under a target's key

table == <<reqState, reqTarget, reqLevel, effective, token>>
handlers == <<decideMu, pc, job>>
executor == <<batch, cur, applied>>
vars == <<table, dispatch, ladder, protected, handlers, executor, kernel>>

ReqStates == {"none", "pending", "active", "rejected", "revoked", "safety_blocked"}
DispatchStates == {"none", "pending", "acked", "failed"}
TokenStates == {"none", "live", "used", "expired"}

\* The rungs of escalation.Ladder and the rows of ban_ladders.
INSTANCE PenaltyLadder

\* Between its Lock and its Unlock a decision handler is at one of these.
PreTxPCs == {"approve", "reject"}
PostTxPCs == {"guard", "veto", "insert", "record"}
LockPCs == PreTxPCs \cup PostTxPCs
RollbackPCs == {"rb_reject", "rb_delete", "rb_revoke"}
PCs == {"idle", "mail"} \cup LockPCs \cup RollbackPCs

TypeOK ==
  /\ reqState \in [Requests -> ReqStates]
  /\ reqTarget \in [Requests -> Targets \cup {None}]
  /\ reqLevel \in [Requests -> Levels]
  /\ effective \in [Requests -> BOOLEAN]
  /\ token \in [Requests -> TokenStates]
  /\ dispatch \in [Requests -> DispatchStates]
  /\ ladder \in [Targets -> Levels \cup {None}]
  /\ protected \in SUBSET Targets
  /\ decideMu \in Workers \cup {None}
  /\ pc \in [Workers -> PCs]
  /\ job \in [Workers -> Requests \cup {None}]
  /\ batch \in SUBSET Requests
  /\ cur \in Requests \cup {None}
  /\ applied \in BOOLEAN
  /\ kernel \in [Targets -> Requests \cup {None}]

Init ==
  /\ reqState = [r \in Requests |-> "none"]
  /\ reqTarget = [r \in Requests |-> None]
  /\ reqLevel = [r \in Requests |-> 0]
  /\ effective = [r \in Requests |-> FALSE]
  /\ token = [r \in Requests |-> "none"]
  /\ dispatch = [r \in Requests |-> "none"]
  /\ ladder = [t \in Targets |-> None]
  /\ protected \in SUBSET Targets
  /\ decideMu = None
  /\ pc = [w \in Workers |-> "idle"]
  /\ job = [w \in Workers |-> None]
  /\ batch = {} /\ cur = None /\ applied = FALSE
  /\ kernel = [t \in Targets |-> None]

------------------------------------------------------------------------------
(* Worker steps *)

Begin(w, at, r) ==
  /\ pc[w] = "idle"
  /\ pc' = [pc EXCEPT ![w] = at]
  /\ job' = [job EXCEPT ![w] = r]

Goto(w, at) == pc' = [pc EXCEPT ![w] = at] /\ UNCHANGED job

Return(w) ==
  /\ pc' = [pc EXCEPT ![w] = "idle"]
  /\ job' = [job EXCEPT ![w] = None]

Lock(w) == decideMu = None /\ decideMu' = w
Unlock(w) == decideMu' = None

IsPending(r) == reqState[r] = "pending"

\* The outcome of a database write: it may only fail under Faults.
MayFail == Faults

(* safety.Guard, rebuilt from protected_targets at every use.  When that query *)
(* fails the handler goes on with the built-in prefixes alone.                *)
GuardVerdicts(t) == {(t \in protected)} \cup (IF Faults THEN {FALSE} ELSE {})

(* escalation.Penalty over a ban_ladders row; a query that fails counts as    *)
(* no row.                                                                    *)
LevelsAtSubmission(t) == NextLevels(ladder[t]) \cup (IF Faults THEN {0} ELSE {})

------------------------------------------------------------------------------
(* banCreate and the mail it sends *)

BanCreate(w, r, t) ==
  /\ Begin(w, "mail", r)
  /\ reqState[r] = "none"
  /\ FALSE \in GuardVerdicts(t)
  /\ \E level \in LevelsAtSubmission(t) : reqLevel' = [reqLevel EXCEPT ![r] = level]
  /\ reqState' = [reqState EXCEPT ![r] = "pending"]
  /\ reqTarget' = [reqTarget EXCEPT ![r] = t]
  /\ UNCHANGED <<effective, token, dispatch, ladder, protected, decideMu,
                 executor, kernel>>

\* No approver, or a failed insert, leaves the request without a link.
GenTokensAndSend(w) ==
  /\ pc[w] = "mail"
  /\ \E sent \in BOOLEAN :
       token' = IF sent THEN [token EXCEPT ![job[w]] = "live"] ELSE token
  /\ Return(w)
  /\ UNCHANGED <<reqState, reqTarget, reqLevel, effective, dispatch, ladder,
                 protected, decideMu, executor, kernel>>

\* expires_at passes: the link no longer matches approveDo's query.
ExpireToken(r) ==
  /\ token[r] = "live"
  /\ token' = [token EXCEPT ![r] = "expired"]
  /\ UNCHANGED <<reqState, reqTarget, reqLevel, effective, dispatch, ladder,
                 protected, handlers, executor, kernel>>

------------------------------------------------------------------------------
(* Decisions, serialised by decideMu *)

\* The write all approvals share: state, approver and effective_at.
Grant(r) ==
  /\ reqState' = [reqState EXCEPT ![r] = "active"]
  /\ effective' = [effective EXCEPT ![r] = TRUE]

Refuse(r) ==
  /\ reqState' = [reqState EXCEPT ![r] = "rejected"]
  /\ UNCHANGED effective

BanApprove(w, r) ==
  /\ Begin(w, "approve", r)
  /\ Lock(w)
  /\ IsPending(r)
  /\ UNCHANGED <<table, dispatch, ladder, protected, executor, kernel>>

\* Variant: the transaction trusts the read made before it.
BanApproveTxUnchecked(w) ==
  /\ pc[w] = "approve"
  /\ Grant(job[w])
  /\ Goto(w, "guard")
  /\ UNCHANGED <<reqTarget, reqLevel, token, dispatch, ladder, protected, decideMu,
                 executor, kernel>>

\* Variant: the handler forgets to return when the transaction fails.
BanApproveTxIgnoringError(w) ==
  /\ pc[w] = "approve"
  /\ \/ IsPending(job[w]) /\ Grant(job[w])
     \/ ~IsPending(job[w]) /\ UNCHANGED <<reqState, effective>>
  /\ Goto(w, "guard")
  /\ UNCHANGED <<reqTarget, reqLevel, token, dispatch, ladder, protected, decideMu,
                 executor, kernel>>

\* The transaction re-reads the row and updates it WHERE state = 'pending'.
BanApproveTx(w) ==
  /\ pc[w] = "approve"
  /\ \/ /\ IsPending(job[w])
        /\ Grant(job[w])
        /\ Goto(w, "guard")
        /\ UNCHANGED decideMu
     \/ /\ ~IsPending(job[w]) \/ MayFail
        /\ Return(w) /\ Unlock(w)
        /\ UNCHANGED <<reqState, effective>>
  /\ UNCHANGED <<reqTarget, reqLevel, token, dispatch, ladder, protected,
                 executor, kernel>>

BanReject(w, r) ==
  /\ Begin(w, "reject", r)
  /\ Lock(w)
  /\ IsPending(r)
  /\ UNCHANGED <<table, dispatch, ladder, protected, executor, kernel>>

BanRejectUpdate(w) ==
  /\ pc[w] = "reject"
  /\ \/ IsPending(job[w]) /\ Refuse(job[w])
     \/ ~IsPending(job[w]) /\ UNCHANGED <<reqState, effective>>
     \/ MayFail /\ UNCHANGED <<reqState, effective>>
  /\ Return(w) /\ Unlock(w)
  /\ UNCHANGED <<reqTarget, reqLevel, token, dispatch, ladder, protected,
                 executor, kernel>>

\* The link: token check, row check and both updates are one transaction.
UseToken(r) ==
  /\ token[r] = "live"
  /\ IsPending(r)
  /\ token' = [token EXCEPT ![r] = "used"]

ApproveDoApprove(w, r) ==
  /\ Begin(w, "guard", r)
  /\ Lock(w)
  /\ UseToken(r)
  /\ Grant(r)
  /\ UNCHANGED <<reqTarget, reqLevel, dispatch, ladder, protected, executor, kernel>>

ApproveDoReject(w, r) ==
  /\ pc[w] = "idle"
  /\ decideMu = None
  /\ UseToken(r)
  /\ Refuse(r)
  /\ UNCHANGED <<reqTarget, reqLevel, dispatch, ladder, protected, handlers,
                 executor, kernel>>

------------------------------------------------------------------------------
(* CreateDispatch and recordLadder, still under decideMu *)

DispatchGuard(w) ==
  /\ pc[w] = "guard"
  /\ \E vetoed \in GuardVerdicts(reqTarget[job[w]]) :
       Goto(w, IF vetoed THEN "veto" ELSE "insert")
  /\ UNCHANGED <<table, dispatch, ladder, protected, decideMu, executor, kernel>>

\* Variant: the veto is recorded but the insert goes ahead.
DispatchVetoFallingThrough(w) ==
  /\ pc[w] = "veto"
  /\ reqState' = [reqState EXCEPT ![job[w]] = "safety_blocked"]
  /\ Goto(w, "insert")
  /\ UNCHANGED <<reqTarget, reqLevel, effective, token, dispatch, ladder, protected,
                 decideMu, executor, kernel>>

\* Update("state", "safety_blocked") has no condition on the state.
DispatchVeto(w) ==
  /\ pc[w] = "veto"
  /\ \/ reqState' = [reqState EXCEPT ![job[w]] = "safety_blocked"]
     \/ MayFail /\ UNCHANGED reqState
  /\ Return(w) /\ Unlock(w)
  /\ UNCHANGED <<reqTarget, reqLevel, effective, token, dispatch, ladder,
                 protected, executor, kernel>>

\* A row with this ban_id is returned as it is; a failed insert ends the handler.
DispatchInsert(w) ==
  /\ pc[w] = "insert"
  /\ \/ /\ dispatch' = IF dispatch[job[w]] = "none"
                       THEN [dispatch EXCEPT ![job[w]] = "pending"]
                       ELSE dispatch
        /\ Goto(w, "record")
        /\ UNCHANGED decideMu
     \/ MayFail /\ Return(w) /\ Unlock(w) /\ UNCHANGED dispatch
  /\ UNCHANGED <<table, ladder, protected, executor, kernel>>

RecordLadder(w) ==
  /\ pc[w] = "record"
  /\ LET t == reqTarget[job[w]] IN
     \/ \E level \in NextLevels(ladder[t]) : ladder' = [ladder EXCEPT ![t] = level]
     \/ MayFail /\ UNCHANGED ladder
  /\ Return(w) /\ Unlock(w)
  /\ UNCHANGED <<table, dispatch, protected, executor, kernel>>

------------------------------------------------------------------------------
(* lookupRollback, branch "ban": it takes no lock *)

LookupRollback(w, r) ==
  /\ \/ reqState[r] = "pending" /\ Begin(w, "rb_reject", r)
     \/ reqState[r] = "active" /\ Begin(w, "rb_delete", r)
  /\ UNCHANGED <<table, dispatch, ladder, protected, decideMu, executor, kernel>>

\* Both rollback updates name the row by id only and ignore their error.
RollbackReject(w) ==
  /\ pc[w] = "rb_reject"
  /\ \/ reqState' = [reqState EXCEPT ![job[w]] = "rejected"]
     \/ MayFail /\ UNCHANGED reqState
  /\ Return(w)
  /\ UNCHANGED <<reqTarget, reqLevel, effective, token, dispatch, ladder,
                 protected, decideMu, executor, kernel>>

\* RevokeGlobal deletes by key, whichever request wrote the entry.
RevokeGlobal(w) ==
  /\ pc[w] = "rb_delete"
  /\ LET t == reqTarget[job[w]] IN
     \/ /\ t \notin Unparsable
        /\ kernel' = [kernel EXCEPT ![t] = None]
        /\ Goto(w, "rb_revoke")
     \/ /\ t \in Unparsable \/ MayFail
        /\ Return(w)
        /\ UNCHANGED kernel
  /\ UNCHANGED <<table, dispatch, ladder, protected, decideMu, executor>>

RollbackRevoke(w) ==
  /\ pc[w] = "rb_revoke"
  /\ \/ reqState' = [reqState EXCEPT ![job[w]] = "revoked"]
     \/ MayFail /\ UNCHANGED reqState
  /\ Return(w)
  /\ UNCHANGED <<reqTarget, reqLevel, effective, token, dispatch, ladder,
                 protected, decideMu, executor, kernel>>

------------------------------------------------------------------------------
(* pollAndExecute *)

\* Variant: the query forgets WHERE state = 'pending'.
WaitingInAnyState == {r \in Requests : dispatch[r] # "none"}

Waiting == {r \in Requests : dispatch[r] = "pending"}

\* The query has no ORDER BY: any full page of the waiting rows.
Poll ==
  /\ batch = {}
  /\ \E page \in SUBSET Waiting :
       /\ page # {}
       /\ \/ page = Waiting /\ Cardinality(page) <= BatchLimit
          \/ Cardinality(page) = BatchLimit
       /\ batch' = page
  /\ UNCHANGED <<table, dispatch, ladder, protected, handlers, cur, applied, kernel>>

\* Put overwrites whatever rule the key held; the request is not looked at again.
Apply(r) ==
  /\ cur = None
  /\ r \in batch
  /\ cur' = r
  /\ LET t == reqTarget[r] IN
     \/ /\ t \notin Unparsable
        /\ applied' = TRUE
        /\ kernel' = [kernel EXCEPT ![t] = r]
     \/ /\ t \in Unparsable \/ MayFail
        /\ applied' = FALSE
        /\ UNCHANGED kernel
  /\ UNCHANGED <<table, dispatch, ladder, protected, handlers, batch>>

NextInBatch ==
  /\ batch' = batch \ {cur}
  /\ cur' = None
  /\ applied' = FALSE

\* Variant: the failure branch continues without markFailed.
MarkAckedOnly ==
  /\ cur # None
  /\ dispatch' = IF applied THEN [dispatch EXCEPT ![cur] = "acked"] ELSE dispatch
  /\ NextInBatch
  /\ UNCHANGED <<table, ladder, protected, handlers, kernel>>

\* Variant: markFailed writes a state no reader of the table knows.
MarkError ==
  /\ cur # None
  /\ dispatch' = [dispatch EXCEPT ![cur] = IF applied THEN "acked" ELSE "error"]
  /\ NextInBatch
  /\ UNCHANGED <<table, ladder, protected, handlers, kernel>>

\* markAcked or markFailed; a failed update leaves the row for the next poll.
Mark ==
  /\ cur # None
  /\ \/ dispatch' = [dispatch EXCEPT ![cur] = IF applied THEN "acked" ELSE "failed"]
     \/ MayFail /\ UNCHANGED dispatch
  /\ NextInBatch
  /\ UNCHANGED <<table, ladder, protected, handlers, kernel>>

------------------------------------------------------------------------------
(* The environment *)

\* protected_targets has no handler: the operator edits the table.
EditProtected(t) ==
  /\ protected' = IF t \in protected THEN protected \ {t} ELSE protected \cup {t}
  /\ UNCHANGED <<table, dispatch, ladder, handlers, executor, kernel>>

\* The process stops at any point and main runs again on the same database.
Restart ==
  /\ Restarts
  /\ decideMu' = None
  /\ pc' = [w \in Workers |-> "idle"]
  /\ job' = [w \in Workers |-> None]
  /\ batch' = {} /\ cur' = None /\ applied' = FALSE
  /\ kernel' = [t \in Targets |-> None]
  /\ UNCHANGED <<table, dispatch, ladder, protected>>

------------------------------------------------------------------------------
\* What a worker does once a client's request made it leave "idle".
Proceed(w) ==
  \/ GenTokensAndSend(w)
  \/ BanApproveTx(w)
  \/ BanRejectUpdate(w)
  \/ DispatchGuard(w)
  \/ DispatchVeto(w)
  \/ DispatchInsert(w)
  \/ RecordLadder(w)
  \/ RollbackReject(w)
  \/ RevokeGlobal(w)
  \/ RollbackRevoke(w)

Serve(w, r) ==
  \/ \E t \in Targets : BanCreate(w, r, t)
  \/ BanApprove(w, r)
  \/ BanReject(w, r)
  \/ ApproveDoApprove(w, r)
  \/ ApproveDoReject(w, r)
  \/ LookupRollback(w, r)

Execute ==
  \/ Poll
  \/ \E r \in Requests : Apply(r)
  \/ Mark

\* One process serving requests, executing dispatches and watching the clock.
Run ==
  \/ \E w \in Workers : Proceed(w)
  \/ \E w \in Workers, r \in Requests : Serve(w, r)
  \/ Execute
  \/ \E r \in Requests : ExpireToken(r)
  \/ \E t \in Targets : EditProtected(t)

Next == Run \/ Restart

Spec == Init /\ [][Next]_vars
\* Goroutines run until they return, and the poll ticker keeps firing.  Users,
\* the clock and the operator promise nothing.
Fairness ==
  /\ \A w \in Workers : WF_vars(Proceed(w))
  /\ WF_vars(Execute)

FairSpec == Spec /\ Fairness

------------------------------------------------------------------------------
(* Properties *)

\* "Approval is the only way a ban comes into existence" (README): a rule in
\* the kernel map belongs to a request for that very target which went through
\* an approving transaction and was dispatched, whatever raced with it.
EnforcedOnlyIfApproved ==
  \A t \in Targets : kernel[t] # None =>
    /\ effective[kernel[t]]
    /\ reqTarget[kernel[t]] = t
    /\ dispatch[kernel[t]] # "none"

\* The second guard check of CreateDispatch is final: a row that reads
\* safety_blocked has no dispatch for the executor to pick up.
VetoedNeverDispatched ==
  \A r \in Requests : reqState[r] = "safety_blocked" => dispatch[r] = "none"

\* A ban is as severe as the target's history of approved bans allows: each
\* rung of the ladder above the first takes one approved ban of that target,
\* although submission reads the ladder row without decideMu.
Approved(t) == {r \in Requests : effective[r] /\ reqTarget[r] = t}

SeverityIsEarned ==
  /\ \A t \in Targets : ladder[t] # None => ladder[t] < Cardinality(Approved(t))
  /\ \A r \in Requests : reqState[r] # "none" =>
        reqLevel[r] <= Cardinality(Approved(reqTarget[r]))

\* The re-check inside the approving transaction: a request that a rejection, a
\* rollback or a veto has closed is never pending or active again.
Closed(s) == s \in {"rejected", "revoked", "safety_blocked"}

NoResurrection ==
  [][\A r \in Requests : Closed(reqState[r]) => reqState'[r] \notin {"pending", "active"}]_vars

\* Once markAcked has recorded a dispatch the executor never writes its rule
\* again, so a rollback that follows the acknowledgement is not undone by it.
NoPutAfterAck ==
  [][\A t \in Targets : kernel'[t] \notin {kernel[t], None} =>
        dispatch[kernel'[t]] = "pending"]_vars

\* The promise of ApprovalGate.  A grant is the approving transaction; a request
\* that ended without one, by rejection or rollback, was refused.
GateOf(r) ==
  CASE effective[r] -> "granted"
    [] ~effective[r] /\ reqState[r] = "none" -> "absent"
    [] ~effective[r] /\ reqState[r] = "pending" -> "open"
    [] OTHER -> "refused"

Gate == INSTANCE ApprovalGate
          WITH Slots <- Targets, gate <- [r \in Requests |-> GateOf(r)], live <- kernel

ImplementsApprovalGate == Gate!Spec

\* Without database faults and restarts every approved ban leaves its approver
\* with an outcome: applied, failed, vetoed or rolled back.
ApprovedEventuallyExecuted ==
  \A r \in Requests :
    reqState[r] = "active" ~>
      (dispatch[r] \in {"acked", "failed"} \/ reqState[r] # "active")

------------------------------------------------------------------------------
(* Statements of the user interface that the code does not keep *)

\* approve_done: "the ban request has been rejected" - and lookup_test.go says
\* of the pending branch of lookupRollback that nothing has been dispatched yet.
RejectedNeverDispatched ==
  \A r \in Requests : reqState[r] = "rejected" => dispatch[r] = "none"
==============================================================================
