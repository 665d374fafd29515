----------------------------- MODULE HookBlocks -----------------------------
(***************************************************************************)
(* contracts/src/campaign/HookBlocks.sol: the buy-and-burn leg of the      *)
(* second fee campaign.  It holds fee shares for one term, turns the WETH  *)
(* they earn into HOOKR through one pinned pool and burns it.              *)
(*                                                                         *)
(* A transaction is one action: everything that moves assets takes the     *)
(* lock, and the callback runs only inside a buy.  The share vault is not  *)
(* trusted: it pays what it pays, and nothing when it is down.  The pool   *)
(* takes 1..ethIn and delivers what it likes, or the buy reverts.          *)
(***************************************************************************)
EXTENDS CampaignLeg

CONSTANTS
    START_AT, SWEEP_AFTER,
    MIN_OUT_BPS, BPS, MAX_BUY_WEI, MIN_BUY_WEI,
    \* bounds of the instance
    Principals, Prices, MaxWeth, MaxBought, MaxDonated, MaxNow

HookBlocksSetting ==
    /\ START_AT \in Nat /\ SWEEP_AFTER \in Nat
    /\ 0 < START_AT /\ START_AT < END_AT /\ END_AT < SWEEP_AFTER
    /\ BPS \in Nat \ {0} /\ MIN_OUT_BPS \in 1..BPS
    /\ MAX_BUY_WEI \in Nat /\ MIN_BUY_WEI \in 1..MAX_BUY_WEI
    /\ Principals \subseteq Nat \ {0} /\ Prices \subseteq Nat \ {0}
    /\ {MaxWeth, MaxBought, MaxDonated, MaxNow} \subseteq Nat

VARIABLES
    now,        \* block.timestamp
    price,      \* HOOKR for one wei in the pinned pool
    hb,         \* the contract's storage
    held,       \* its balances: fee shares, WETH, native, HOOKR
    arrived,    \* history: what ever reached it, in the same four assets
    pool,       \* history: native the pool took and HOOKR it delivered
    paid        \* history: fee shares and WETH or native paid to the sponsor

leg == <<hb, held, arrived, pool, paid>>
vars == <<now, price, leg>>

Nothing == [shares |-> 0, weth |-> 0, native |-> 0, hookr |-> 0]

Init ==
    /\ now = 0 /\ price \in Prices
    /\ hb = [feeSharesFunded |-> FALSE, finalized |-> FALSE, buybackPaused |-> FALSE,
             feeSharePrincipal |-> 0, boughtThisBlock |-> FALSE, blockCount |-> 0,
             totalEthSpent |-> 0, totalHookrBought |-> 0, totalHookrBurned |-> 0]
    /\ held = Nothing /\ arrived = Nothing
    /\ pool = [native |-> 0, hookr |-> 0, nativeNow |-> 0]
    /\ paid = [shares |-> 0, eth |-> 0]

----------------------------------------------------------------------------
(* Anyone may send any of the four: native only by force or by an unwrap.   *)
Gift(asset) ==
    /\ IF asset = "hookr" THEN arrived.hookr < MaxDonated
       ELSE IF asset = "shares" THEN arrived.shares < MaxDonated + hb.feeSharePrincipal
       ELSE arrived.weth + arrived.native < MaxWeth
    /\ held' = [held EXCEPT ![asset] = @ + 1]
    /\ arrived' = [arrived EXCEPT ![asset] = @ + 1]
    /\ UNCHANGED <<now, price, hb, pool, paid>>

(* What the vault pays on a claim while the shares are held.                *)
Pull(pulled) ==
    /\ pulled # 0 => held.shares # 0
    /\ arrived.weth + arrived.native + pulled <= MaxWeth

NewBlock(t, p) ==
    /\ now + t <= MaxNow
    /\ now' = now + t /\ price' = p
    /\ hb' = [hb EXCEPT !.boughtThisBlock = FALSE]
    /\ pool' = [pool EXCEPT !.nativeNow = 0]
    /\ UNCHANGED <<held, arrived, paid>>

----------------------------------------------------------------------------
FundFeeShares(amount) ==
    /\ ~hb.feeSharesFunded /\ now < START_AT /\ amount # 0
    /\ hb' = [hb EXCEPT !.feeSharesFunded = TRUE, !.feeSharePrincipal = amount]
    /\ held' = [held EXCEPT !.shares = @ + amount]
    /\ arrived' = [arrived EXCEPT !.shares = @ + amount]
    /\ UNCHANGED <<now, price, pool, paid>>

SetBuybackPaused(paused) ==
    /\ hb' = [hb EXCEPT !.buybackPaused = paused]
    /\ UNCHANGED <<now, price, held, arrived, pool, paid>>

Least(a, b) == IF a < b THEN a ELSE b
Most(a, b) == IF a < b THEN b ELSE a

(* Unwrap at most what the cap leaves beside the native already held.       *)
Draw(weth) == Least(weth, Most(0, MAX_BUY_WEI - held.native))

EthIn(weth) == Least(held.native + Draw(weth), MAX_BUY_WEI)

Floor(ethIn, spot, minHookrOut) == Most((ethIn * spot * MIN_OUT_BPS) \div BPS, minHookrOut)

(* Slip: the pause is for the term only.                                    *)
UnpausedInTerm == hb.feeSharesFunded /\ (~hb.buybackPaused \/ now > END_AT)
Unpaused == hb.feeSharesFunded /\ ~hb.buybackPaused
(* Slip: a donated balance counts as bought.                                *)
BoughtOfBalance(bought) == held.hookr + bought
BoughtOfDelta(bought) == bought

(* buyAndBurn and its unlockCallback.                                       *)
BuyAndBurn(minHookrOut, pulled, spent, bought) ==
    LET weth == held.weth + pulled
        ethIn == EthIn(weth)
        floor == Floor(ethIn, price, minHookrOut)
    IN  /\ Unpaused /\ ~hb.boughtThisBlock
        /\ Pull(pulled)
        /\ ethIn >= MIN_BUY_WEI /\ floor # 0
        /\ spent \in 1..ethIn /\ bought # 0 /\ bought >= floor
        /\ held' = [held EXCEPT !.weth = weth - Draw(weth),
                                !.native = held.native + Draw(weth) - spent, !.hookr = 0]
        /\ hb' = [hb EXCEPT !.boughtThisBlock = TRUE, !.blockCount = @ + 1,
                            !.totalEthSpent = @ + spent,
                            !.totalHookrBought = @ + BoughtOfDelta(bought),
                            !.totalHookrBurned = @ + held.hookr + bought]
        /\ arrived' = [arrived EXCEPT !.weth = @ + pulled]
        /\ pool' = [native |-> pool.native + spent, hookr |-> pool.hookr + bought,
                    nativeNow |-> pool.nativeNow + spent]
        /\ UNCHANGED <<now, price, paid>>

(* Slip: the whole share balance goes back, donations with it.              *)
ReturnAll == held.shares
ReturnPrincipal == hb.feeSharePrincipal

Finalize(pulled) ==
    /\ hb.feeSharesFunded /\ now > END_AT /\ ~hb.finalized
    /\ Pull(pulled)
    /\ ReturnPrincipal <= held.shares
    /\ hb' = [hb EXCEPT !.finalized = TRUE, !.feeSharePrincipal = 0]
    /\ held' = [held EXCEPT !.shares = @ - ReturnPrincipal, !.weth = @ + pulled]
    /\ arrived' = [arrived EXCEPT !.weth = @ + pulled]
    /\ paid' = [paid EXCEPT !.shares = @ + ReturnPrincipal]
    /\ UNCHANGED <<now, price, pool>>

SweepUnspent(sponsor) ==
    /\ now > IF sponsor THEN END_AT ELSE SWEEP_AFTER
    /\ held.weth # 0 \/ held.native # 0 \/ held.hookr # 0
    /\ hb' = [hb EXCEPT !.totalHookrBurned = @ + held.hookr]
    /\ paid' = [paid EXCEPT !.eth = @ + held.weth + held.native]
    /\ held' = [held EXCEPT !.weth = 0, !.native = 0, !.hookr = 0]
    /\ UNCHANGED <<now, price, arrived, pool>>

Assets == {"shares", "weth", "native", "hookr"}

Next ==
    \/ \E asset \in Assets : Gift(asset)
    \/ \E t \in 0..1, p \in Prices : NewBlock(t, p)
    \/ \E amount \in Principals : FundFeeShares(amount)
    \/ \E paused \in BOOLEAN : SetBuybackPaused(paused)
    \/ \E pulled \in 0..MaxWeth :
          \/ Finalize(pulled)
          \/ \E minHookrOut, bought \in 0..MaxBought, spent \in 1..MaxWeth :
                BuyAndBurn(minHookrOut, pulled, spent, bought)
    \/ \E sponsor \in BOOLEAN : SweepUnspent(sponsor)

Spec == Init /\ [][Next]_vars

Leg == [blockCount |-> hb.blockCount, finalized |-> hb.finalized, buybackPaused |-> hb.buybackPaused]

----------------------------------------------------------------------------
(* The published record tells the campaign's own trades and nothing else:   *)
(* what it says was spent and bought is what the pool took and delivered,   *)
(* whatever anyone donates, all HOOKR that ever reached the contract is     *)
(* burned or still to be burned, and "at most MAX_BUY_WEI converted per     *)
(* call, at most one buy per block".                                        *)
LedgerHonest ==
    /\ hb.totalEthSpent = pool.native /\ hb.totalHookrBought = pool.hookr
    /\ hb.totalHookrBurned + held.hookr = pool.hookr + arrived.hookr
    /\ pool.nativeNow <= MAX_BUY_WEI

(* What the keeper is promised: an entry only while unpaused, the end only  *)
(* after the term, nothing ever taken back.                                 *)
KeptToLeg == Leg' = Leg \/ Leg' \in LegSteps(Leg, now)

(* The principal goes back whole, once, after the term, and nothing done    *)
(* before (a pause, a sweep, a vault that is down) can stand in its way.    *)
PrincipalReturns ==
    /\ held.shares + paid.shares = arrived.shares
    /\ hb.feeSharesFunded /\ now > END_AT => (hb.finalized \/ ENABLED Finalize(0))
    /\ hb.finalized => paid.shares \in Principals /\ hb.feeSharePrincipal = 0
=============================================================================
