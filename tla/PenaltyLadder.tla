---------------------------- MODULE PenaltyLadder ----------------------------
(***************************************************************************)
(* One row of ban_ladders as the handlers read and write it                *)
(* (internal/escalation, nextTTL and recordLadder of internal/web).  A row *)
(* is the index of its rung in escalation.Ladder, None when there is none. *)
(* Whether its observation window is still open is up to the clock; the    *)
(* permanent rung, the last one, has no window.                            *)
(***************************************************************************)
EXTENDS Naturals

CONSTANTS
  TopLevel,   \* last index of escalation.Ladder
  None        \* no row

Levels == 0..TopLevel

\* Variant: a target without a row starts one rung up.
LevelOfStartingHigh(row) == IF row = None THEN 1 ELSE row

LevelOf(row) == IF row = None THEN 0 ELSE row

Observing(row) == IF row # None /\ row < TopLevel THEN BOOLEAN ELSE {FALSE}

Rung(level, escalate) == IF escalate /\ level < TopLevel THEN level + 1 ELSE level

\* The rung a new ban is given by nextTTL, and the one RegisterBan moves to.
NextLevels(row) == {Rung(LevelOf(row), escalate) : escalate \in Observing(row)}
==============================================================================
