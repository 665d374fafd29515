------------------------------ MODULE OpenZap ------------------------------
(***************************************************************************)
(* One capsule: a clone of contracts/src/v3_2/OpenZapV3_2.sol, the newest  *)
(* runtime, whose five execution entry points contain those of v2, v3 and  *)
(* v3.1.  A transaction is a run of the clone that calls out to adapters:  *)
(* it is modelled as a frame (pc, frame) that the clone's own steps and    *)
(* the adapters' answers advance, that a revert rolls back, and during     *)
(* whose external calls the entry points without `nonReentrant` may be     *)
(* called back.  Gas and fee-price numbers only decide which submissions   *)
(* are admitted, so they are the fields of the submitted transaction.      *)
(***************************************************************************)
EXTENDS Integers, Sequences, FiniteSets

CONSTANTS
    Intents,        \* the authorizations a submitter may present
    Steps,          \* the frozen policy: a sequence of [adapter, tokenIn, amountIn, tokenOut]
    Adapters, Tokens, Sources, Executors,
    Zap, Owner, Recipient, Pot, Venue,      \* the other token holders
    NoOne,                                  \* address(0)
    ZAPS, ZAPSAdapter,                      \* the protocol token and the pinned adapter that buys it
    Currency0, Currency1,                   \* the two pool currencies of each price source
    ThisDomain,                             \* (zap, assetsId, policyHash) of this clone
    maxRelayerFeeCap, BPS, EXEC_FEE_BPS, EXECUTOR_SHARE_BPS, MAX_THRESHOLD_BPS, Q96,
    BALANCE_RELATIVE,                       \* the sentinel amountIn
    OwnerTakesNative,                       \* does the owner account accept plain native transfers
    \* bounds of the instance
    MaxTime, Prices, Pulls, Yields, Deposits, ExitLists, Submissions, Delistable, InitialBalance

Holders == {Zap, Owner, Recipient, Pot, Venue} \cup Executors
Kinds == {"oneShot", "recurring", "relative", "stack", "trigger"}
SeriesKinds == {"recurring", "relative", "stack"}
Keys == {i.key : i \in Intents}
NoIntent == [kind |-> "none"]

(* The code's types: times and run counts are unsigned integers. *)
ASSUME IntentsTyped ==
    /\ MaxTime \in Nat
    /\ \A i \in Intents : /\ i.kind \in Kinds
                          /\ i.maxRuns \in Nat /\ i.interval \in Nat
                          /\ i.validAfter \in Nat /\ i.deadline \in Nat

(* The clone, the market and the pot are contracts of their own, and the    *)
(* pot is nobody's recipient (the code would let an owner name it).         *)
ASSUME PartiesApart == Zap \notin {Venue, Pot} /\ Pot # Recipient

(* Amounts are unsigned, fee rates are fractions, and what an intent, a     *)
(* step or a price source names exists.                                     *)
ASSUME AmountsTyped ==
    /\ InitialBalance \in [Holders -> [Tokens -> Nat]]
    /\ Prices \cup Pulls \cup Yields \cup Deposits \subseteq Nat
    /\ {BPS, Q96} \subseteq Nat \ {0} /\ EXEC_FEE_BPS \in 0..BPS /\ EXECUTOR_SHARE_BPS \in 0..BPS
    /\ Steps \in Seq([adapter : Adapters, tokenIn : Tokens, amountIn : Nat, tokenOut : Tokens])
    /\ Steps # <<>>
    /\ ZAPS \in Tokens /\ ZAPSAdapter \in Adapters
    /\ Currency0 \in [Sources -> Tokens] /\ Currency1 \in [Sources -> Tokens]
    /\ \A i \in Intents : /\ i.outAsset \in Tokens
                          /\ i.executor \in Executors \cup {NoOne} /\ i.source \in Sources \cup {NoOne}
                          /\ i.maxRelayerFee \in Nat /\ i.minOut \in Nat
                          /\ i.maxSlippageBps \in Nat /\ i.stackBps \in Nat
    /\ \A tx \in Submissions : tx.sender \in Executors
    /\ \A d \in Delistable : \/ d.class = "adapters" /\ d.member \in Adapters
                             \/ d.class = "tokens" /\ d.member \in Tokens
                             \/ d.class = "sources" /\ d.member \in Sources

VARIABLES
    now,        \* block.timestamp
    price,      \* the spot each price source reports; 0 when its market is unreadable
    registry,   \* what AdapterRegistry (adapters, sources) and TokenAllowlist (tokens) admit
    auth,       \* the clone's storage: consumed nonces, series progress, the halt flag
    assets,     \* token balances, approvals and native units, and what the pot credited the owner
    pc,         \* where the transaction in progress is; "idle" between transactions
    frame,      \* its intent, submitter, measurements and the state it started from
    uses,       \* history: completed payouts of each intent
    lastUse     \* history: when the last of them happened

vars == <<now, price, registry, auth, assets, pc, frame, uses, lastUse>>

----------------------------------------------------------------------------
(* Token arithmetic *)

Move(bal, from, to, t, n) ==
    LET debited == [bal EXCEPT ![from][t] = @ - n]
    IN  [debited EXCEPT ![to][t] = @ + n]

BalanceOf(h, t) == assets.bal[h][t]
MulDiv(a, b, c) == (a * b) \div c
ProtocolFee(out) == MulDiv(out, EXEC_FEE_BPS, BPS)
(* Slip: the share divided the wrong way round. *)
ExecutorShareInverted(fee) == MulDiv(fee, BPS, EXECUTOR_SHARE_BPS)
ExecutorShare(fee) == MulDiv(fee, EXECUTOR_SHARE_BPS, BPS)

(* The fair output of `spent` at `spot`, less the signed slippage band. *)
FairOutput(want, currency1, spot, spent) ==
    IF want = currency1 THEN MulDiv(spent, spot, Q96) ELSE MulDiv(spent, Q96, spot)
RelativeFloor(fair, slippage) == MulDiv(fair, BPS - slippage, BPS)

(* The pool currency that pays for `want` on a source, and whether the      *)
(* source can value it now.                                                 *)
Funding(source, want) ==
    IF want = Currency1[source] THEN Currency0[source] ELSE Currency1[source]
Valuable(source, want) ==
    /\ want \in {Currency0[source], Currency1[source]}
    /\ price[source] > 0

----------------------------------------------------------------------------
NoFrame == [intent |-> NoIntent]

Init ==
    /\ now = 0
    /\ price \in [Sources -> Prices]
    /\ registry = [adapters |-> Adapters, tokens |-> Tokens, sources |-> Sources]
    /\ auth = [nonceUsed |-> {},
               series    |-> [k \in Keys |-> [runs |-> 0, lastRun |-> 0]],
               halted    |-> FALSE]
    /\ assets = [bal       |-> InitialBalance,
                 native    |-> 0,
                 allowance |-> [a \in Adapters |-> [t \in Tokens |-> 0]],
                 credited  |-> [t \in Tokens |-> 0]]
    /\ pc = "idle"
    /\ frame = NoFrame
    /\ uses = [i \in Intents |-> 0]
    /\ lastUse = [i \in Intents |-> 0]

----------------------------------------------------------------------------
(* Entry: the checks every execution function repeats, in the code's terms. *)

Admissible(i, tx) ==
    /\ ~auth.halted
    /\ pc = "idle"
    /\ i.domain = ThisDomain
    /\ now <= i.deadline
    /\ now >= i.validAfter
    /\ tx.gasPrice <= i.maxFeePerGas
    /\ tx.gas <= i.maxGas
    /\ i.recipient = Recipient
    /\ i.outAsset \in registry.tokens
    /\ i.key \notin auth.nonceUsed
    /\ i.signer = Owner

PinnedTo(i, tx) == i.executor \in {NoOne, tx.sender}

Scheduled(i) == i.interval > 0 /\ i.maxRuns > 0

(* Slip: the cadence gate skips the second run too. *)
DueFromThirdRun(i) ==
    auth.series[i.key].runs > 1 => now >= auth.series[i.key].lastRun + i.interval

Due(i) ==
    auth.series[i.key].runs # 0 => now >= auth.series[i.key].lastRun + i.interval

(* The storage once a nonce, or one run of a series, has been consumed. *)
ConsumeNonce(i) == [auth EXCEPT !.nonceUsed = @ \cup {i.key}]
(* Slip: exhaustion noticed one run late. *)
ConsumeRunLate(i) ==
    LET run == auth.series[i.key].runs + 1
    IN  [auth EXCEPT
            !.series[i.key] = [runs |-> run, lastRun |-> now],
            !.nonceUsed = IF run > i.maxRuns THEN @ \cup {i.key} ELSE @]
ConsumeRun(i) ==
    LET run == auth.series[i.key].runs + 1
    IN  [auth EXCEPT
            !.series[i.key] = [runs |-> run, lastRun |-> now],
            !.nonceUsed = IF run = i.maxRuns THEN @ \cup {i.key} ELSE @]

InAsset(i) == IF i.source = NoOne THEN i.outAsset ELSE Funding(i.source, i.outAsset)

(* Authorization is consumed and the measurements are taken before any     *)
(* external call; the frame also keeps what a revert would restore.         *)
Enter(i, tx, consumed, spot, stackSpot) ==
    /\ auth' = consumed
    /\ frame' = [intent    |-> i,
                 sender    |-> tx.sender,
                 step      |-> 1,
                 preIn     |-> BalanceOf(Zap, InAsset(i)),
                 preOut    |-> BalanceOf(Zap, i.outAsset),
                 spot      |-> spot,
                 stackSpot |-> stackSpot,
                 net       |-> 0,
                 stackIn   |-> 0,
                 preZaps   |-> 0,
                 before    |-> [auth |-> auth, assets |-> assets, price |-> price]]
    /\ pc' = "step"
    /\ UNCHANGED <<now, price, registry, assets, uses, lastUse>>

Execute(i, tx) ==
    /\ i.kind = "oneShot"
    /\ Admissible(i, tx)
    /\ i.maxRelayerFee <= maxRelayerFeeCap
    /\ Enter(i, tx, ConsumeNonce(i), 0, 0)

ExecuteRecurring(i, tx) ==
    /\ i.kind = "recurring"
    /\ Admissible(i, tx)
    /\ Scheduled(i)
    /\ PinnedTo(i, tx)
    /\ Due(i)
    /\ Enter(i, tx, ConsumeRun(i), 0, 0)

ExecuteRecurringRelative(i, tx) ==
    /\ i.kind = "relative"
    /\ Admissible(i, tx)
    /\ Scheduled(i)
    /\ PinnedTo(i, tx)
    /\ i.source \in registry.sources
    /\ i.maxSlippageBps < BPS
    /\ Len(Steps) = 1
    /\ Due(i)
    /\ Valuable(i.source, i.outAsset)
    /\ Enter(i, tx, ConsumeRun(i), price[i.source], 0)

(* The gates only the stacking path has: the band must exceed the fee, the *)
(* slice must be a real fraction, and a conversion source is present       *)
(* exactly when there is something to convert.                              *)
ValidStack(i) ==
    /\ i.maxSlippageBps < BPS
    /\ i.maxSlippageBps > EXEC_FEE_BPS
    /\ i.stackBps > 0 /\ i.stackBps < BPS
    /\ (i.outAsset = ZAPS) <=> (i.stackSource = NoOne)
    /\ i.stackSource # NoOne =>
          /\ i.stackSource \in registry.sources
          /\ Valuable(i.stackSource, ZAPS)
          /\ Funding(i.stackSource, ZAPS) = i.outAsset

ExecuteRecurringStack(i, tx) ==
    /\ i.kind = "stack"
    /\ Admissible(i, tx)
    /\ Scheduled(i)
    /\ PinnedTo(i, tx)
    /\ i.source \in registry.sources
    /\ ValidStack(i)
    /\ Len(Steps) = 1
    /\ Due(i)
    /\ Valuable(i.source, i.outAsset)
    /\ Enter(i, tx, ConsumeRun(i), price[i.source],
             IF i.stackSource = NoOne THEN 0 ELSE price[i.stackSource])

(* The market, not the submitter, arms a trigger. *)
ThresholdCrossed(i) ==
    IF i.above
    THEN price[i.source] >= MulDiv(i.baseline, BPS + i.thresholdBps, BPS)
    ELSE price[i.source] <= MulDiv(i.baseline, BPS - i.thresholdBps, BPS)

ExecuteTrigger(i, tx) ==
    /\ i.kind = "trigger"
    /\ Admissible(i, tx)
    /\ PinnedTo(i, tx)
    /\ i.source \in registry.sources
    /\ i.baseline > 0 /\ i.thresholdBps > 0 /\ i.thresholdBps <= MAX_THRESHOLD_BPS
    /\ i.above \/ i.thresholdBps < BPS
    /\ price[i.source] > 0
    /\ ThresholdCrossed(i)
    /\ Enter(i, tx, ConsumeNonce(i), 0, 0)

----------------------------------------------------------------------------
(* The frozen step loop. *)

StepAmount(s) ==
    IF s.amountIn = BALANCE_RELATIVE THEN BalanceOf(Zap, s.tokenIn) ELSE s.amountIn

CallAdapter ==
    /\ pc = "step"
    /\ LET s == Steps[frame.step]
       IN  /\ s.adapter \in registry.adapters
           /\ StepAmount(s) > 0
           /\ assets' = [assets EXCEPT !.allowance[s.adapter][s.tokenIn] = StepAmount(s)]
    /\ pc' = "adapter"
    /\ UNCHANGED <<now, price, registry, auth, frame, uses, lastUse>>

(* The adapter may pull up to its approval, deliver any output (even none,  *)
(* whatever number it reports) and move the market; of what it claims the   *)
(* clone only requires that the token is admitted.                          *)
(* Slip: the approval is left standing. *)
ExchangeKeepingApproval(a, tokenIn, spent, tokenOut, got) ==
    [assets EXCEPT !.bal = Move(Move(@, Zap, Venue, tokenIn, spent), Venue, Zap, tokenOut, got)]
Exchange(a, tokenIn, spent, tokenOut, got) ==
    [assets EXCEPT
        !.bal = Move(Move(@, Zap, Venue, tokenIn, spent), Venue, Zap, tokenOut, got),
        !.allowance[a][tokenIn] = 0]

AdapterReturns(spent, got, p) ==
    /\ pc = "adapter"
    /\ LET s == Steps[frame.step]
       IN  /\ spent <= assets.allowance[s.adapter][s.tokenIn]
           /\ spent <= BalanceOf(Zap, s.tokenIn)
           /\ got <= BalanceOf(Venue, s.tokenOut)
           /\ s.tokenOut \in registry.tokens
           /\ assets' = Exchange(s.adapter, s.tokenIn, spent, s.tokenOut, got)
    /\ price' = p
    /\ frame' = [frame EXCEPT !.step = @ + 1]
    /\ pc' = IF frame.step = Len(Steps) THEN "settle" ELSE "step"
    /\ UNCHANGED <<now, registry, auth, uses, lastUse>>

----------------------------------------------------------------------------
(* Settlement. *)

Out == BalanceOf(Zap, frame.intent.outAsset) - frame.preOut
Spent == frame.preIn - BalanceOf(Zap, InAsset(frame.intent))

(* The floor the recipient's net amount must clear, by kind. *)
(* Slip: the spot the run itself produced. *)
RunFairAtSpotAfter ==
    FairOutput(frame.intent.outAsset, Currency1[frame.intent.source], price[frame.intent.source], Spent)
RunFair == FairOutput(frame.intent.outAsset, Currency1[frame.intent.source], frame.spot, Spent)
NetFloor(i) ==
    CASE i.kind = "relative" -> RelativeFloor(RunFair, i.maxSlippageBps)
      [] i.kind = "stack"    -> MulDiv(RelativeFloor(RunFair, i.maxSlippageBps), BPS - i.stackBps, BPS)
      [] OTHER               -> i.minOut
Valued(i) == i.kind \in {"relative", "stack"} => (Spent > 0 /\ RunFair > 0)

(* A transaction that returns leaves no frame behind. *)
Return(i) ==
    /\ pc' = "idle"
    /\ frame' = NoFrame
    /\ uses' = [uses EXCEPT ![i] = @ + 1]
    /\ lastUse' = [lastUse EXCEPT ![i] = now]
    /\ UNCHANGED <<now, registry, auth>>

(* Pay the pot and have it credit the owner's tickets, as one ledger change. *)
ContributeTo(c, t, n) ==
    [c EXCEPT !.bal = Move(@, Zap, Pot, t, n), !.credited[t] = @ + n]

PayFee(c, t, sender, fee) ==
    LET executorFee == ExecutorShare(fee)
    IN  ContributeTo([c EXCEPT !.bal = Move(@, Zap, sender, t, executorFee)], t, fee - executorFee)

PayRecipient(c, t, n) == [c EXCEPT !.bal = Move(@, Zap, Recipient, t, n)]

(* One-shot: the signed relayer fee, capped by the output, then the rest. *)
RelayerFee(i) ==
    IF i.maxRelayerFee = 0 \/ i.executor = NoOne THEN 0
    ELSE IF i.maxRelayerFee > Out THEN Out ELSE i.maxRelayerFee

SettleOneShot ==
    LET i == frame.intent
        fee == RelayerFee(i)
        paid == IF i.executor = NoOne THEN assets
                ELSE [assets EXCEPT !.bal = Move(@, Zap, i.executor, i.outAsset, fee)]
    IN  /\ pc = "settle" /\ i.kind = "oneShot"
        /\ Out >= 0
        /\ Out - fee >= i.minOut
        /\ assets' = PayRecipient(paid, i.outAsset, Out - fee)
        /\ Return(i)
        /\ UNCHANGED price

SettleWithExecutorFee ==
    LET i == frame.intent
        fee == ProtocolFee(Out)
    IN  /\ pc = "settle" /\ i.kind \in {"recurring", "relative", "trigger"}
        /\ Out >= 0
        /\ Valued(i)
        /\ Out - fee >= NetFloor(i)
        /\ assets' = PayRecipient(PayFee(assets, i.outAsset, frame.sender, fee), i.outAsset, Out - fee)
        /\ Return(i)
        /\ UNCHANGED price

NetOfSlice(fee, stackIn) == Out - fee - stackIn

(* Stacking: fee first, then the slice goes to be staked, the recipient last. *)
SettleStack ==
    LET i == frame.intent
        fee == ProtocolFee(Out)
        stackIn == MulDiv(Out - fee, i.stackBps, BPS)
        net == NetOfSlice(fee, stackIn)
    IN  /\ pc = "settle" /\ i.kind = "stack"
        /\ Out >= 0
        /\ Valued(i)
        /\ stackIn > 0
        /\ net >= NetFloor(i)
        /\ ZAPSAdapter \in registry.adapters
        /\ assets' = PayFee(assets, i.outAsset, frame.sender, fee)
        /\ frame' = [frame EXCEPT !.net = net, !.stackIn = stackIn]
        /\ pc' = "stake"
        /\ UNCHANGED <<now, price, registry, auth, uses, lastUse>>

(* The output is already 0xZAPS: the slice is staked as it is. *)
(* Slip: whatever 0xZAPS the clone holds beyond the net amount. *)
StakeWholeBalance ==
    LET i == frame.intent
    IN  /\ pc = "stake" /\ i.outAsset = ZAPS
        /\ assets' = PayRecipient(ContributeTo(assets, ZAPS, BalanceOf(Zap, ZAPS) - frame.net),
                                  i.outAsset, frame.net)
        /\ Return(i)
        /\ UNCHANGED price
StakeDirectly ==
    LET i == frame.intent
    IN  /\ pc = "stake" /\ i.outAsset = ZAPS
        /\ assets' = PayRecipient(ContributeTo(assets, ZAPS, frame.stackIn), i.outAsset, frame.net)
        /\ Return(i)
        /\ UNCHANGED price

CallZAPSAdapter ==
    /\ pc = "stake" /\ frame.intent.outAsset # ZAPS
    /\ assets' = [assets EXCEPT !.allowance[ZAPSAdapter][frame.intent.outAsset] = frame.stackIn]
    /\ frame' = [frame EXCEPT !.preZaps = BalanceOf(Zap, ZAPS)]
    /\ pc' = "staking"
    /\ UNCHANGED <<now, price, registry, auth, uses, lastUse>>

(* The slice's own floor, at the spot read before the run moved any pool.   *)
StackFair(i) == FairOutput(ZAPS, Currency1[i.stackSource], frame.stackSpot, frame.stackIn)

ZAPSAdapterReturns(spent, got, p) ==
    LET i == frame.intent
        exchanged == Exchange(ZAPSAdapter, i.outAsset, spent, ZAPS, got)
        zapsOut == exchanged.bal[Zap][ZAPS] - frame.preZaps
    IN  /\ pc = "staking"
        /\ spent <= assets.allowance[ZAPSAdapter][i.outAsset]
        /\ spent <= BalanceOf(Zap, i.outAsset)
        /\ got <= BalanceOf(Venue, ZAPS)
        /\ StackFair(i) > 0
        /\ zapsOut > 0
        /\ zapsOut >= RelativeFloor(StackFair(i), i.maxSlippageBps)
        /\ exchanged.bal[Zap][i.outAsset] >= frame.net
        /\ assets' = PayRecipient(ContributeTo(exchanged, ZAPS, zapsOut), i.outAsset, frame.net)
        /\ price' = p
        /\ Return(i)

(* Any failed check, failed call or shortage of gas undoes the transaction. *)
Revert ==
    /\ pc # "idle"
    /\ auth' = frame.before.auth
    /\ assets' = frame.before.assets
    /\ price' = frame.before.price
    /\ pc' = "idle"
    /\ frame' = NoFrame
    /\ UNCHANGED <<now, registry, uses, lastUse>>

----------------------------------------------------------------------------
(* The owner's entry points carry no reentrancy lock: they run between      *)
(* transactions, and inside one when an adapter's call reaches the owner.   *)
OwnerReachable == pc \in {"idle", "adapter", "staking"}

HaltPolicy ==
    /\ OwnerReachable
    /\ ~auth.halted
    /\ auth' = [auth EXCEPT !.halted = TRUE]
    /\ UNCHANGED <<now, price, registry, assets, pc, frame, uses, lastUse>>

InvalidateNonce(k) ==
    /\ OwnerReachable
    /\ auth' = [auth EXCEPT !.nonceUsed = @ \cup {k}]
    /\ UNCHANGED <<now, price, registry, assets, pc, frame, uses, lastUse>>

Drained(bal, list) ==
    [bal EXCEPT
        ![Zap] = [t \in Tokens |-> IF t \in list THEN 0 ELSE @[t]],
        ![Owner] = [t \in Tokens |-> IF t \in list THEN @[t] + bal[Zap][t] ELSE @[t]]]

EmergencyExit(list) ==
    /\ OwnerReachable
    /\ assets.native > 0 => OwnerTakesNative
    /\ assets' = [assets EXCEPT !.bal = Drained(@, list), !.native = 0]
    /\ UNCHANGED <<now, price, registry, auth, pc, frame, uses, lastUse>>

----------------------------------------------------------------------------
(* The rest of the world, between transactions. *)

Fund(t, n) ==
    /\ pc = "idle"
    /\ n <= BalanceOf(Owner, t)
    /\ assets' = [assets EXCEPT !.bal = Move(@, Owner, Zap, t, n)]
    /\ UNCHANGED <<now, price, registry, auth, pc, frame, uses, lastUse>>

ReceiveNative ==
    /\ pc = "idle"
    /\ assets.native = 0
    /\ assets' = [assets EXCEPT !.native = 1]
    /\ UNCHANGED <<now, price, registry, auth, pc, frame, uses, lastUse>>

SetAllowed(class, x, allowed) ==
    /\ pc = "idle"
    /\ registry' = [registry EXCEPT ![class] = IF allowed THEN @ \cup {x} ELSE @ \ {x}]
    /\ UNCHANGED <<now, price, auth, assets, pc, frame, uses, lastUse>>

MarketMoves(p) ==
    /\ pc = "idle"
    /\ price' = p
    /\ UNCHANGED <<now, registry, auth, assets, pc, frame, uses, lastUse>>

Tick ==
    /\ pc = "idle"
    /\ now < MaxTime
    /\ now' = now + 1
    /\ UNCHANGED <<price, registry, auth, assets, pc, frame, uses, lastUse>>

Submit ==
    \E i \in Intents, tx \in Submissions :
        \/ Execute(i, tx)
        \/ ExecuteRecurring(i, tx)
        \/ ExecuteRecurringRelative(i, tx)
        \/ ExecuteRecurringStack(i, tx)
        \/ ExecuteTrigger(i, tx)

Run ==
    \/ CallAdapter
    \/ \E spent \in Pulls, got \in Yields, p \in [Sources -> Prices] : AdapterReturns(spent, got, p)
    \/ SettleOneShot
    \/ SettleWithExecutorFee
    \/ SettleStack
    \/ StakeDirectly
    \/ CallZAPSAdapter
    \/ \E spent \in Pulls, got \in Yields, p \in [Sources -> Prices] : ZAPSAdapterReturns(spent, got, p)
    \/ Revert

OwnerCalls ==
    \/ HaltPolicy
    \/ \E k \in Keys : InvalidateNonce(k)
    \/ \E list \in ExitLists : EmergencyExit(list)

Environment ==
    \/ \E t \in Tokens, n \in Deposits : Fund(t, n)
    \/ ReceiveNative
    \/ \E d \in Delistable, allowed \in BOOLEAN : SetAllowed(d.class, d.member, allowed)
    \/ \E p \in [Sources -> Prices] : MarketMoves(p)
    \/ Tick

Next == Submit \/ Run \/ OwnerCalls \/ Environment

Spec == Init /\ [][Next]_vars
=============================================================================
