------------------------- MODULE OpenZapProperties -------------------------
(***************************************************************************)
(* What one capsule promises its owner, and the refinement of the standing *)
(* authority its owner signed.                                             *)
(***************************************************************************)
EXTENDS OpenZap

(* How many payouts one signature authorizes: maxRuns for a series, one for *)
(* a one-shot intent or a trigger.                                          *)
Budget(i) == IF i.kind \in SeriesKinds THEN i.maxRuns ELSE 1

(* Series that share an identifier agree on its length.  The clone keeps    *)
(* one run counter per identifier and compares it for equality with the     *)
(* maxRuns of whichever intent is presented, so budgets hold only then.     *)
SeriesAgree ==
    \A i, j \in Intents :
        (i.kind \in SeriesKinds /\ j.kind \in SeriesKinds /\ i.key = j.key) => i.maxRuns = j.maxRuns

Balances == [Holders -> [Tokens -> Nat]]
Assets ==
    [bal : Balances, native : 0..1, allowance : [Adapters -> [Tokens -> Nat]], credited : [Tokens -> Nat]]
Auths ==
    [nonceUsed : SUBSET Keys, series : [Keys -> [runs : Nat, lastRun : Nat]], halted : BOOLEAN]
Spots == [Sources -> Nat]
Frames ==
    [intent : Intents, sender : Executors, step : 1..(Len(Steps) + 1),
     preIn : Nat, preOut : Nat, spot : Nat, stackSpot : Nat,
     net : Nat, stackIn : Nat, preZaps : Nat,
     before : [auth : Auths, assets : Assets, price : Spots]]

(* Every balance, allowance, counter and measurement is a natural number    *)
(* and every frame is complete: a settlement that paid out more than the    *)
(* clone holds would break it (the transfers of _settleWithExecutorFee).    *)
TypeOK ==
    /\ now \in 0..MaxTime
    /\ price \in Spots
    /\ registry \in [adapters : SUBSET Adapters, tokens : SUBSET Tokens, sources : SUBSET Sources]
    /\ auth \in Auths
    /\ assets \in Assets
    /\ pc \in {"idle", "step", "adapter", "settle", "stake", "staking"}
    /\ IF pc = "idle" THEN frame = NoFrame ELSE frame \in Frames
    /\ uses \in [Intents -> Nat]
    /\ lastUse \in [Intents -> Nat]

(* No signature pays out more often than it says, however submissions,      *)
(* reverts, cancellations and other intents on the same identifier          *)
(* interleave (the consume-first lines of every execute function).          *)
RunsWithinBudget == \A i \in Intents : uses[i] <= Budget(i)

(* I-APPR-1: between transactions no adapter holds an approval, and inside  *)
(* one only the adapter being called does (_runSteps, _stakeStack).         *)
NoResidualApproval ==
    \A a \in Adapters, t \in Tokens :
        assets.allowance[a][t] # 0 =>
            \/ pc = "adapter" /\ a = Steps[frame.step].adapter /\ t = Steps[frame.step].tokenIn
            \/ pc = "staking" /\ a = ZAPSAdapter /\ t = frame.intent.outAsset

----------------------------------------------------------------------------
Pays(i) == uses'[i] = uses[i] + 1
Received(h, t) == assets'.bal[h][t] - assets.bal[h][t]

(* What the intent's owner signed as the least acceptable net output, at    *)
(* the market as it stood before the transaction began.                     *)
SpotBefore(i) == frame.before.price[i.source]
SignedFloor(i) ==
    IF i.kind \in {"relative", "stack"}
    THEN LET kept == IF i.kind = "stack" THEN BPS - i.stackBps ELSE BPS
         IN  MulDiv(RelativeFloor(FairOutput(i.outAsset, Currency1[i.source], SpotBefore(i), Spent),
                                  i.maxSlippageBps), kept, BPS)
    ELSE i.minOut

(* I-FLOW-2: the recipient's own balance grows by at least the signed floor *)
(* net of every fee and slice, valued before the run moved any pool; a      *)
(* stacking run sets that amount aside first and still pays it in full      *)
(* after the slice has been converted.                                      *)
FloorHonoured ==
    /\ pc = "settle" /\ pc' = "stake" => frame'.net >= SignedFloor(frame.intent)
    /\ \A i \in Intents : Pays(i) =>
          Received(Recipient, i.outAsset) >= IF pc = "settle" THEN SignedFloor(i) ELSE frame.net

PayoutHonoursFloor == [][FloorHonoured]_vars

(* I-FLOW-4: what the clone held before the run is never paid out as if it  *)
(* were this run's output, and nothing of the output is left behind unless  *)
(* the pinned adapter declined to pull the whole slice.                     *)
DustKept ==
    \A i \in Intents : Pays(i) =>
        /\ assets'.bal[Zap][i.outAsset] >= frame.preOut
        /\ pc # "staking" => assets'.bal[Zap][i.outAsset] = frame.preOut
        /\ pc = "staking" => assets'.bal[Zap][ZAPS] = frame.preZaps

DustStays == [][DustKept]_vars

----------------------------------------------------------------------------
(* Refinement.  A transaction takes effect when it returns, so the grants   *)
(* that are live are those of the storage it would roll back to.            *)
Committed == IF pc = "idle" THEN auth ELSE frame.before.auth
LiveGrants == {i \in Intents : ~Committed.halted /\ i.key \notin Committed.nonceUsed}

Authority == INSTANCE StandingAuthority
    WITH Grants <- Intents, Limit <- Budget,
         now <- now, used <- uses, last <- lastUse, live <- LiveGrants

(* The clone implements the standing authority its owner signed: every      *)
(* payout is one use of a live grant in its window and on its cadence, and  *)
(* nothing revives a grant (haltPolicy, invalidateNonce and exhaustion).    *)
ImplementsAuthority == Authority!GrantsSpec

----------------------------------------------------------------------------
(* The inductive invariant behind RunsWithinBudget and ImplementsAuthority. *)
(* It relates the clone's storage to the history of payouts, both in the    *)
(* storage now and in the storage a revert would restore.                   *)

AuthorityTyped ==
    /\ now \in 0..MaxTime
    /\ auth \in Auths
    /\ pc \in {"idle", "step", "adapter", "settle", "stake", "staking"}
    /\ uses \in [Intents -> Nat]
    /\ lastUse \in [Intents -> Nat]
    /\ pc # "idle" => /\ {"intent", "before"} \subseteq DOMAIN frame
                      /\ frame.intent \in Intents
                      /\ frame.before.auth \in Auths

(* Storage a accounts for n payouts of i, the last of them at time t.        *)
AccountsFor(a, i, n, t) ==
    IF i.kind \in SeriesKinds
    THEN LET s == a.series[i.key]
         IN  /\ n <= s.runs
             /\ s.runs <= i.maxRuns
             /\ n > 0 => t <= s.lastRun
             /\ s.runs > 0 /\ s.runs = i.maxRuns => i.key \in a.nonceUsed
    ELSE /\ n <= 1
         /\ n > 0 => i.key \in a.nonceUsed

History(a) == \A i \in Intents : AccountsFor(a, i, uses[i], lastUse[i])

NoneInFuture == \A i \in Intents : lastUse[i] <= now

(* Inside a transaction the storage already accounts for the payout to come. *)
Pending ==
    LET i == frame.intent
        b == frame.before.auth
    IN  /\ AccountsFor(auth, i, uses[i] + 1, now)
        /\ History(b)
        /\ i.key \notin b.nonceUsed /\ ~b.halted
        /\ i.validAfter <= now /\ now <= i.deadline
        /\ uses[i] > 0 => now >= lastUse[i] + i.interval
        /\ b.nonceUsed \subseteq auth.nonceUsed

AuthorityInv ==
    /\ AuthorityTyped
    /\ History(auth)
    /\ NoneInFuture
    /\ pc # "idle" => Pending

----------------------------------------------------------------------------
NoApprovals(a) == \A adapter \in Adapters, t \in Tokens : a.allowance[adapter][t] = 0

(* The inductive invariant behind TypeOK and NoResidualApproval: what a     *)
(* revert restores grants no approval either, a slice was validated before  *)
(* it is cut, and between the fee and the payment the clone still holds the *)
(* slice and the net amount it owes.                                        *)
LedgerInv ==
    /\ TypeOK
    /\ NoResidualApproval
    /\ pc # "idle" =>
          /\ NoApprovals(frame.before.assets)
          /\ frame.intent.kind = "stack" => frame.intent.stackBps <= BPS
    /\ pc \in {"step", "adapter"} => frame.step <= Len(Steps)
    /\ pc = "stake" => frame.net + frame.stackIn <= BalanceOf(Zap, frame.intent.outAsset)
    /\ pc = "staking" => frame.intent.outAsset # ZAPS
----------------------------------------------------------------------------
(* The inductive invariant behind PayoutHonoursFloor and DustStays: the     *)
(* floor is valued at the spot a revert would restore, and between the fee  *)
(* and the payment the clone holds what it held before the run, the net     *)
(* amount and the slice, unless its owner has taken that token away.        *)
Owed == frame.preOut + frame.net + frame.stackIn
FloorInv ==
    LET i == frame.intent
        held == BalanceOf(Zap, i.outAsset)
    IN  pc # "idle" =>
          /\ i.kind \in {"relative", "stack"} => frame.spot = SpotBefore(i) /\ frame.spot > 0
          /\ i.kind = "stack" => i.stackBps < BPS
          /\ pc \in {"stake", "staking"} => frame.net > 0
          /\ pc = "stake" => held = Owed
          /\ pc = "staking" => held \in {0, Owed} /\ assets.allowance[ZAPSAdapter][i.outAsset] = frame.stackIn
=============================================================================
