----------------------------- MODULE ApprovalGate -----------------------------
(***************************************************************************)
(* What the ban pipeline promises its operator, without saying how:        *)
(* "Approval is the only way a ban comes into existence, and the XDP fast  *)
(* path is the only place a ban has any effect" (README).  A request is    *)
(* submitted, decided at most once and never reconsidered; a slot of the   *)
(* kernel map may at any time be given to a granted request, and cleared.  *)
(***************************************************************************)
CONSTANTS
  Requests,   \* everything that may be submitted
  Slots,      \* keys of the kernel map
  None        \* the content of an empty slot

VARIABLES
  gate,       \* how far the decision about each request has come
  live        \* the request each slot enforces

vars == <<gate, live>>

Verdicts == {"granted", "refused"}

TypeOK ==
  /\ gate \in [Requests -> {"absent", "open"} \cup Verdicts]
  /\ live \in [Slots -> Requests \cup {None}]

Init ==
  /\ gate = [r \in Requests |-> "absent"]
  /\ live = [s \in Slots |-> None]

Submit(r) ==
  /\ gate[r] = "absent"
  /\ gate' = [gate EXCEPT ![r] = "open"]
  /\ UNCHANGED live

Decide(r) ==
  /\ gate[r] = "open"
  /\ \E v \in Verdicts : gate' = [gate EXCEPT ![r] = v]
  /\ UNCHANGED live

Install(r, s) ==
  /\ gate[r] = "granted"
  /\ live' = [live EXCEPT ![s] = r]
  /\ UNCHANGED gate

\* One slot when a ban is lifted, all of them when the process ends.
Clear(S) ==
  /\ live' = [s \in Slots |-> IF s \in S THEN None ELSE live[s]]
  /\ UNCHANGED gate

Next ==
  \/ \E r \in Requests : Submit(r) \/ Decide(r)
  \/ \E r \in Requests, s \in Slots : Install(r, s)
  \/ \E S \in SUBSET Slots : Clear(S)

Spec == Init /\ [][Next]_vars
==============================================================================
