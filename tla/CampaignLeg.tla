---------------------------- MODULE CampaignLeg ----------------------------
(***************************************************************************)
(* What HookBlocks promises its keeper: a record of three fields and the   *)
(* steps it may take.  HookBlocks is shown to take no other (its property  *)
(* KeepsToLeg), the keeper relies on nothing else.                         *)
(***************************************************************************)
EXTENDS Integers

CONSTANT END_AT

ASSUME LegSetting == END_AT \in Nat

LegAtStart == [blockCount |-> 0, finalized |-> FALSE, buybackPaused |-> FALSE]

Burnt(leg) == IF leg.buybackPaused THEN {} ELSE {[leg EXCEPT !.blockCount = @ + 1]}
PauseSet(leg) == {[leg EXCEPT !.buybackPaused = paused] : paused \in BOOLEAN}
Finalized(leg, at) == IF at > END_AT /\ ~leg.finalized THEN {[leg EXCEPT !.finalized = TRUE]} ELSE {}

LegSteps(leg, at) == Burnt(leg) \cup PauseSet(leg) \cup Finalized(leg, at)
=============================================================================
