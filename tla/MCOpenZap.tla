----------------------------- MODULE MCOpenZap -----------------------------
(***************************************************************************)
(* Small clones for TLC: their policies, their signed intents and the      *)
(* bounds.  Fees are scaled (20% of the output, half of it to the          *)
(* submitter) so that a handful of token units exercises every rounding.   *)
(***************************************************************************)
EXTENDS OpenZapProperties

CONSTANTS a1, za, weth, zaps, out, feed, stackFeed, zapsFeed, e1, e2, zap, owner, recipient, pot, venue, none

(* The terms every intent shares; each below changes what makes it          *)
(* interesting, and the clone it was signed for.                            *)
Signed ==
    [kind |-> "oneShot", key |-> 1, validAfter |-> 0, deadline |-> 9, interval |-> 0, maxRuns |-> 0,
     domain |-> "scheduled", recipient |-> recipient, signer |-> owner, executor |-> none,
     maxGas |-> 1, maxFeePerGas |-> 1, maxRelayerFee |-> 0, outAsset |-> out, minOut |-> 1,
     source |-> none, maxSlippageBps |-> 0, stackSource |-> none, stackBps |-> 0,
     above |-> TRUE, baseline |-> 0, thresholdBps |-> 0]

OneShot == [Signed EXCEPT !.executor = e1, !.maxRelayerFee = 1]
Series == [Signed EXCEPT !.kind = "recurring", !.key = 2, !.validAfter = 1,
                         !.interval = 2, !.maxRuns = 2, !.minOut = 3]
ReSigned == [Series EXCEPT !.interval = 1, !.executor = e2]
Longer == [Series EXCEPT !.validAfter = 0, !.interval = 1, !.maxRuns = 3]
Trigger == [Signed EXCEPT !.kind = "trigger", !.key = 1, !.source = feed, !.deadline = 1,
                          !.baseline = 5, !.thresholdBps = 2]
Relative == [Signed EXCEPT !.domain = "market", !.kind = "relative", !.key = 2, !.interval = 1,
                           !.maxRuns = 2, !.source = feed, !.maxSlippageBps = 3]
Stack == [Relative EXCEPT !.kind = "stack", !.maxSlippageBps = 5, !.stackSource = stackFeed,
                          !.stackBps = 4]
Dip == [Trigger EXCEPT !.domain = "inKind", !.above = FALSE, !.outAsset = zaps,
                       !.source = zapsFeed]
StackInKind == [Stack EXCEPT !.domain = "inKind", !.key = 1, !.maxRuns = 1, !.source = zapsFeed,
                             !.stackSource = none, !.outAsset = zaps]

Swap(adapter, tokenIn, amountIn, tokenOut) ==
    [adapter |-> adapter, tokenIn |-> tokenIn, amountIn |-> amountIn, tokenOut |-> tokenOut]

Holding(h, t) ==
    CASE h = venue -> 20
      [] h = owner /\ t = weth -> 2
      [] h = zap -> IF t = weth THEN 2 ELSE 1
      [] OTHER -> 0

MCInitialBalance == [h \in Holders |-> [t \in Tokens |-> Holding(h, t)]]
FundedForTwo == [MCInitialBalance EXCEPT ![Zap][weth] = 4]
FundedForThree == [MCInitialBalance EXCEPT ![Zap][weth] = 6]

MCSubmissions == {[sender |-> e1, gasPrice |-> 1, gas |-> 1], [sender |-> e2, gasPrice |-> 1, gas |-> 1]}
MCDelistable == {[class |-> "adapters", member |-> za]}
MCExitLists == {Tokens, {out}}
ExitEverything == {Tokens}

(* weth to out directly, or through zaps with whatever the first step got. *)
OneStep == <<Swap(a1, weth, 2, out)>>
ToZaps == <<Swap(a1, weth, 2, zaps)>>
TwoSteps == <<Swap(a1, weth, 2, zaps), Swap(za, zaps, BALANCE_RELATIVE, out)>>

(* The pools: weth/out, out/zaps and weth/zaps.                             *)
MCCurrency0 == [s \in Sources |-> IF s = stackFeed THEN out ELSE weth]
MCCurrency1 == [s \in Sources |-> IF s = feed THEN out ELSE zaps]

SignedIntents == {OneShot, Series, ReSigned, Trigger, Relative, Stack, StackInKind, Dip}
ClashingIntents == {ReSigned, Longer}
=============================================================================
