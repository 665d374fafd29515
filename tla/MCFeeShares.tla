---------------------------- MODULE MCFeeShares ----------------------------
(***************************************************************************)
(* The three contracts that hold fee shares, each on its own: `contract`   *)
(* names the one a behaviour is about, the others stay as they began.      *)
(***************************************************************************)
EXTENDS FeeShareTermWrapProperties

CONSTANTS
    alice, bob, wrap, this,
    This, MIN_OUT_BPS, BPS, Q96, MAX_ROUTE_WEI, MIN_ROUTE_WEI, Yields, Prices, MaxBlock,
    START_AT, END_AT, SWEEP_AFTER, MAX_BUY_WEI, MIN_BUY_WEI, Principals, MaxBought, MaxDonated

VARIABLES
    contract,
    block, deposits, totalDeposits, cumulativeWethPerShare, wethReserve, wethDebt, wethOwed,
    autoRouteAllowed, lastRouteBlock, sharesOf, weth, priceX96, zaps, wethArrived, taken, routedNow,
    price, hb, held, pool, everHeld, returned

TwoPurses == [a \in Accounts |-> IF a = alice THEN 2 ELSE 1]

Compounder == INSTANCE FeeShareAutoCompounder WITH shares <- sharesOf, arrived <- wethArrived
Hook == INSTANCE HookBlocks WITH arrived <- everHeld, paid <- returned,
                                 MaxWeth <- MaxReward, MaxNow <- MaxTime

ASSUME Settings == Compounder!CompounderSetting /\ Hook!HookBlocksSetting

compounderVars ==
    <<block, deposits, totalDeposits, cumulativeWethPerShare, wethReserve, wethDebt, wethOwed,
      autoRouteAllowed, lastRouteBlock, sharesOf, weth, priceX96, zaps, wethArrived, taken, routedNow>>
hookVars == <<price, hb, held, pool, everHeld, returned>>
wrapVars == <<coupon, post, units, principal, sweeps, reward, arrived, paid>>

InitAll ==
    /\ contract \in {"wrap", "compounder", "hook"}
    /\ Init /\ Compounder!Init /\ Hook!Init
    /\ contract # "compounder" => priceX96 = 1
    /\ contract # "hook" => price = 1

NextAll ==
    /\ \/ contract = "wrap" /\ Next /\ UNCHANGED <<compounderVars, hookVars>>
       \/ contract = "compounder" /\ Compounder!Next /\ UNCHANGED <<now, wrapVars, hookVars>>
       \/ contract = "hook" /\ Hook!Next /\ UNCHANGED <<wrapVars, compounderVars>>
    /\ UNCHANGED contract

SpecAll == InitAll /\ [][NextAll]_<<contract, now, wrapVars, compounderVars, hookVars>>

----------------------------------------------------------------------------
(* "Withdrawable at any time", of the compounder's principal. *)
WithdrawOpen == contract = "compounder" => Compounder!WithdrawOpen

(* "No depositor is ever diluted, no latecomer captures an earlier          *)
(* depositor's yield", of the compounder's WETH; routes are bounded and     *)
(* honour their floor.                                                      *)
YieldsApart == [][contract = "compounder" => Compounder!YieldsKept]_compounderVars

(* The campaign's published record tells its own trades, donations or not,  *)
(* and no block puts more than MAX_BUY_WEI into the pool.                   *)
LedgerHonest == contract = "hook" => Hook!LedgerHonest

(* The campaign's principal goes back whole, once, after the term, whatever *)
(* happened before.                                                         *)
PrincipalReturns == contract = "hook" => Hook!PrincipalReturns

(* HookBlocks takes no step but those its keeper counts on.                 *)
KeepsToLeg ==
    Hook!Leg = Hook!LegAtStart /\ [][contract = "hook" => Hook!KeptToLeg]_hookVars
=============================================================================
