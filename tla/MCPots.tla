------------------------------- MODULE MCPots -------------------------------
(***************************************************************************)
(* The two contracts that pool 0xZAPS and pay it out by rounds, each on    *)
(* its own: `contract` names the one a behaviour is about.  The lottery    *)
(* has two players, one clone, one fee asset and the prize token; the      *)
(* overdraw table has three players whose tiebreaks turn with the round.   *)
(***************************************************************************)
EXTENDS LotteryPotProperties

CONSTANTS
    gov, gov2, fac, alice, bob, carol, clone, pot, venue, weth, zaps, none,
    Table, entryFee, commitWindow, revealWindow, rakeBps, keeperBps, BPS, MAX_SEATS, MIN_REVEALS,
    Tiebreak, Draws, MaxRounds

VARIABLES contract, now, round, credit, carryPool, held

TurningTies ==
    [r \in 1..MaxRounds |->
        [p \in Table |-> CASE p = alice -> 1 + 2 * (r % 2) [] p = bob -> 2 [] OTHER -> 3 - 2 * (r % 2)]]

Overdraw == INSTANCE ZapOverdraw WITH Players <- Table, Unopenable <- none

ASSUME Settings == Overdraw!OverdrawSetting

overdrawVars == <<now, round, credit, carryPool, held>>

InitAll == contract \in {"lottery", "overdraw"} /\ Init /\ Overdraw!Init

NextAll ==
    /\ \/ contract = "lottery" /\ Next /\ UNCHANGED overdrawVars
       \/ contract = "overdraw" /\ Overdraw!Next /\ UNCHANGED vars
    /\ UNCHANGED contract

SpecAll == InitAll /\ [][NextAll]_<<contract, vars, overdrawVars>>

(* The table always holds, to the wei, what it owes. *)
Solvent == Overdraw!Solvent

(* Taking every seat never pays, and a reveal is served exactly when it and *)
(* all the more modest ones fit the capacity.                               *)
TableFair == [][round'.id # round.id => Overdraw!NoSweepProfit /\ Overdraw!ModestFirst]_overdrawVars
=============================================================================
