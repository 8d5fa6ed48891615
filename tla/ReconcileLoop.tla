---------------------------- MODULE ReconcileLoop ----------------------------
(***************************************************************************)
(* The reconcile loop of cmd/xdpban next to the ban pipeline it observes:  *)
(* it reads the acknowledged dispatches, then lists the kernel map key by  *)
(* key, then reports every acknowledged ban whose key it did not see and   *)
(* whose TTL has not run out.  It holds no lock; every step of the         *)
(* pipeline may fall between any two of its own.                           *)
(***************************************************************************)
EXTENDS BanPipeline

VARIABLES
  acked,    \* reconcile's result of the query state = 'acked'
  toList,   \* keys the map iterator has not reached
  live,     \* keys it has seen
  phase,    \* "wait" for the ticker, or "list" the map
  drifts,   \* requests reported by the last pass
  cleared   \* history: targets whose key was ever removed from the map

reconciler == <<acked, toList, live, phase, drifts>>
rvars == <<vars, reconciler, cleared>>

ReconcileTypeOK ==
  /\ TypeOK
  /\ acked \in SUBSET Requests
  /\ toList \in SUBSET Targets
  /\ live \in SUBSET Targets
  /\ phase \in {"wait", "list"}
  /\ drifts \in SUBSET Requests
  /\ cleared \in SUBSET Targets

ReconcileInit ==
  /\ Init
  /\ acked = {} /\ toList = {} /\ live = {} /\ phase = "wait"
  /\ drifts = {} /\ cleared = {}

Permanent(r) == reqLevel[r] = TopLevel

\* Variant: the query forgets WHERE state = 'acked'.
ReadEveryDispatch ==
  /\ phase = "wait"
  /\ phase' = "list"
  /\ acked' = {r \in Requests : dispatch[r] # "none"}
  /\ toList' = Targets /\ live' = {} /\ drifts' = {}
  /\ UNCHANGED <<vars, cleared>>

\* The database first ...
ReadAcked ==
  /\ phase = "wait"
  /\ phase' = "list"
  /\ acked' = {r \in Requests : dispatch[r] = "acked"}
  /\ toList' = Targets /\ live' = {} /\ drifts' = {}
  /\ UNCHANGED <<vars, cleared>>

\* ... then the map, one key at a time, until a Next fails: at the end of the map,
\* but as well when the kernel aborts the iteration because keys are deleted under
\* it, or when main has closed the map at shutdown.  What was read so far is
\* returned without an error, so Report may come while toList is not empty.
ListGlobalBans(t) ==
  /\ phase = "list"
  /\ t \in toList
  /\ toList' = toList \ {t}
  /\ live' = IF kernel[t] # None THEN live \cup {t} ELSE live
  /\ UNCHANGED <<vars, acked, phase, drifts, cleared>>

Missing == {r \in acked : reqTarget[r] \notin live \cup Unparsable}

\* Variant: permanent bans, whose TTL is 0, are taken for expired ones.
ReportTimedOnly ==
  /\ phase = "list"
  /\ \E expired \in SUBSET {r \in Missing : ~Permanent(r)} :
       drifts' = {r \in Missing : ~Permanent(r)} \ expired
  /\ phase' = "wait"
  /\ acked' = {} /\ toList' = {} /\ live' = {}
  /\ UNCHANGED <<vars, cleared>>

\* Variant: the loop returns after its first pass.
ReportAndExit ==
  /\ phase = "list"
  /\ drifts' = Missing
  /\ phase' = "exited"
  /\ acked' = {} /\ toList' = {} /\ live' = {}
  /\ UNCHANGED <<vars, cleared>>

\* A ban with a TTL is not reported when acked_at + TTL has passed; the clock
\* decides that, so any of the timed bans may be skipped.
Report ==
  /\ phase = "list"
  /\ \E expired \in SUBSET {r \in Missing : ~Permanent(r)} :
       drifts' = Missing \ expired
  /\ phase' = "wait"
  /\ acked' = {} /\ toList' = {} /\ live' = {}
  /\ UNCHANGED <<vars, cleared>>

Removed == {t \in Targets : kernel[t] # None /\ kernel'[t] = None}

\* The loop dies with the process and starts over with the next one.
PipelineStep ==
  /\ \/ Run /\ UNCHANGED reconciler
     \/ /\ Restart
        /\ acked' = {} /\ toList' = {} /\ live' = {} /\ phase' = "wait" /\ drifts' = {}
  /\ cleared' = cleared \cup Removed

Reconcile ==
  \/ ReadAcked
  \/ \E t \in Targets : ListGlobalBans(t)
  \/ Report

ReconcileNext == PipelineStep \/ Reconcile

ReconcileSpec == ReconcileInit /\ [][ReconcileNext]_rvars

\* The loop has its own ticker and runs while the process does.
FairReconcileSpec ==
  /\ ReconcileSpec
  /\ WF_rvars(Reconcile)

------------------------------------------------------------------------------
(* Properties *)

\* A drift report is never an artefact of the two reads being apart: whatever
\* the executor and the handlers did in between, the key of the reported ban was
\* removed, by a rollback or by a restart, or the listing ended before it came to
\* that key.
DriftHasCause ==
  [][\A r \in drifts' \ drifts : reqTarget[r] \in cleared \cup toList]_rvars

Lost(r) == dispatch[r] = "acked" /\ Permanent(r) /\ kernel[reqTarget[r]] = None

StaysUp == <>[][~Restart]_rvars

\* "The DB-map divergence is what the reconcile loop exists to detect": once the
\* process stays up, an acknowledged permanent ban whose key stays missing, be it
\* since a rollback or since a restart, is eventually reported.
LossIsReported ==
  StaysUp => \A r \in Requests : Lost(r) ~> (r \in drifts \/ ~Lost(r))
==============================================================================
