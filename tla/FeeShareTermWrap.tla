-------------------------- MODULE FeeShareTermWrap --------------------------
(***************************************************************************)
(* contracts/src/feeshare/FeeShareTermWrap.sol: fee shares locked for a    *)
(* term.  The reward they earn in-term belongs to the transferable wrapped *)
(* units (bucket 1, "coupon"), the reward they earn after maturity to the  *)
(* principal still locked (bucket 2, "post"), and coupons nobody claimed   *)
(* in time return to the original depositors.                              *)
(*                                                                         *)
(* Every entry point holds one mutex and the vault's failures are caught,  *)
(* so a transaction is one action; the vault pays any amount it is asked   *)
(* for, nothing when it is down.                                           *)
(***************************************************************************)
EXTENDS Integers, FiniteSets, Functions

CONSTANTS
    Accounts, Wrap,                         \* holders, and the wrapper itself
    DEPOSIT_UNTIL, MATURITY, CLAIM_DEADLINE,
    ACC_SCALE,                              \* the accumulators' fixed point
    Purse,                                  \* fee shares each account starts with
    \* bounds of the instance
    Payments, MaxReward, MaxTime

ASSUME TermSetting ==
    /\ IsFiniteSet(Accounts) /\ Wrap \notin Accounts /\ Purse \in [Accounts -> Nat]
    /\ DEPOSIT_UNTIL \in Nat /\ MATURITY \in Nat /\ CLAIM_DEADLINE \in Nat
    /\ DEPOSIT_UNTIL < MATURITY /\ MATURITY < CLAIM_DEADLINE
    /\ ACC_SCALE \in Nat \ {0} /\ Payments \subseteq Nat /\ 0 \in Payments
    /\ MaxReward \in Nat /\ MaxTime \in Nat

VARIABLES
    now,
    coupon, post,       \* the two buckets: cumulative rate, reserve, debts, accruals
    balanceOf, totalSupply,                             \* wrapped units
    depositedShares, redeemedShares, totalDeposited, totalLocked,
    sweptOf, forfeitPaid,
    shares,             \* FEE_SHARES balances
    reward,             \* the wrapper's REWARD balance
    arrived,            \* history: all reward that ever reached the wrapper
    paid                \* history: what each account was paid from each bucket

vars == <<now, coupon, post, balanceOf, totalSupply, depositedShares, redeemedShares,
          totalDeposited, totalLocked, sweptOf, forfeitPaid, shares, reward, arrived, paid>>
units == <<balanceOf, totalSupply>>
principal == <<depositedShares, redeemedShares, totalDeposited, totalLocked, shares>>
sweeps == <<sweptOf, forfeitPaid>>

Nobody == [a \in Accounts |-> 0]
EmptyBucket == [cum |-> 0, reserve |-> 0, debt |-> Nobody, accrued |-> Nobody]

Init ==
    /\ now = 0
    /\ coupon = EmptyBucket /\ post = EmptyBucket
    /\ balanceOf = Nobody /\ totalSupply = 0
    /\ depositedShares = Nobody /\ redeemedShares = Nobody
    /\ totalDeposited = 0 /\ totalLocked = 0
    /\ sweptOf = Nobody /\ forfeitPaid = 0
    /\ shares = [h \in Accounts \cup {Wrap} |-> IF h = Wrap THEN 0 ELSE Purse[h]]
    /\ reward = 0 /\ arrived = 0
    /\ paid = [coupon |-> Nobody, post |-> Nobody]

----------------------------------------------------------------------------
(* One bucket: reward per unit, checkpointed per account.                   *)

Floor(n, cum) == (n * cum) \div ACC_SCALE
Pending(b, held, a) == Floor(held[a], b.cum) - b.debt[a]
Owed(b, held, a) == b.accrued[a] + Pending(b, held, a)

(* The checked subtraction of a checkpoint. *)
Settles(b, held, a) == b.debt[a] <= Floor(held[a], b.cum)

Checkpoint(b, held, a) ==
    [b EXCEPT !.accrued[a] = Owed(b, held, a), !.debt[a] = Floor(held[a], b.cum)]

Rebase(b, held, a) == [b EXCEPT !.debt[a] = Floor(held[a], b.cum)]

Accrue(b, n, total) == [b EXCEPT !.cum = @ + (n * ACC_SCALE) \div total, !.reserve = @ + n]

(* Slip: a paid account keeps its accrual.                                  *)
PayOutKeeping(b, a) == [b EXCEPT !.reserve = @ - b.accrued[a]]
PayOut(b, a) == [b EXCEPT !.reserve = @ - b.accrued[a], !.accrued[a] = 0]

----------------------------------------------------------------------------
(* Arrivals.  The vault pays when asked, unless it is down; what is beyond  *)
(* the amounts already spoken for is new.                                   *)

Earmarked == (IF coupon.reserve > forfeitPaid THEN coupon.reserve - forfeitPaid ELSE 0) + post.reserve

Received(pulled) == IF reward + pulled > Earmarked THEN reward + pulled - Earmarked ELSE 0

Pull(pulled) == arrived + pulled <= MaxReward /\ arrived' = arrived + pulled

HarvestAndSync(pulled) ==
    IF totalSupply = 0 THEN coupon ELSE Accrue(coupon, Received(pulled), totalSupply)

SyncPost(pulled) ==
    [coupon |-> IF totalLocked = 0 THEN [coupon EXCEPT !.reserve = @ + Received(pulled)] ELSE coupon,
     post |-> IF totalLocked = 0 THEN post ELSE Accrue(post, Received(pulled), totalLocked)]

(* Reward sent to the wrapper directly, or claimed for it by a stranger. *)
RewardArrives(n) ==
    /\ n > 0 /\ Pull(n)
    /\ reward' = reward + n
    /\ UNCHANGED <<now, coupon, post, units, principal, sweeps, paid>>

----------------------------------------------------------------------------
(* In-term. *)

Deposit(a, n, pulled) ==
    LET before == HarvestAndSync(pulled)
    IN  /\ now < DEPOSIT_UNTIL
        /\ n # 0 /\ n <= shares[a]
        /\ Settles(before, balanceOf, a) /\ Settles(post, depositedShares, a)
        /\ Pull(pulled) /\ reward' = reward + pulled
        /\ balanceOf' = [balanceOf EXCEPT ![a] = @ + n] /\ totalSupply' = totalSupply + n
        /\ depositedShares' = [depositedShares EXCEPT ![a] = @ + n]
        /\ totalDeposited' = totalDeposited + n /\ totalLocked' = totalLocked + n
        /\ coupon' = Rebase(Checkpoint(before, balanceOf, a), balanceOf', a)
        /\ post' = Rebase(Checkpoint(post, depositedShares, a), depositedShares', a)
        /\ shares' = [shares EXCEPT ![a] = @ - n, ![Wrap] = @ + n]
        /\ UNCHANGED <<now, redeemedShares, sweeps, paid>>

Harvest(pulled) ==
    /\ now <= MATURITY
    /\ Pull(pulled) /\ reward' = reward + pulled
    /\ coupon' = HarvestAndSync(pulled)
    /\ UNCHANGED <<now, post, units, principal, sweeps, paid>>

(* Slip: units change hands before the reward they earned is folded in.     *)
AccrualAfterTransfer(pulled) == coupon
AccrualOnTransfer(pulled) == IF now <= MATURITY THEN HarvestAndSync(pulled) ELSE coupon

(* transfer and transferFrom; the spender's allowance is the holder's own affair. *)
Transfer(from, to, n, pulled) ==
    LET before == AccrualOnTransfer(pulled)
        sold == Checkpoint(before, balanceOf, from)
        moved == [[balanceOf EXCEPT ![from] = @ - n] EXCEPT ![to] = @ + n]
    IN  /\ n <= balanceOf[from]
        /\ now > MATURITY => pulled = 0
        /\ Settles(before, balanceOf, from) /\ Settles(before, balanceOf, to)
        /\ Pull(pulled) /\ reward' = reward + pulled
        /\ balanceOf' = moved
        /\ coupon' = Rebase(Rebase(Checkpoint(sold, balanceOf, to), moved, from), moved, to)
        /\ UNCHANGED <<now, post, totalSupply, principal, sweeps, paid>>

Claim(a) ==
    LET settled == Checkpoint(coupon, balanceOf, a)
        amount == settled.accrued[a]
    IN  /\ now <= CLAIM_DEADLINE
        /\ Settles(coupon, balanceOf, a)
        /\ amount <= coupon.reserve /\ amount <= reward
        /\ coupon' = PayOut(settled, a)
        /\ reward' = reward - amount
        /\ paid' = [paid EXCEPT !.coupon[a] = @ + amount]
        /\ UNCHANGED <<now, post, units, principal, sweeps, arrived>>

----------------------------------------------------------------------------
(* After the term. *)

(* Slip: an exiting depositor is not settled up to now first. *)
ExitUnsettled(b, a) == [b EXCEPT !.debt[a] = 0]
ExitSettled(b, a) == [Checkpoint(b, depositedShares, a) EXCEPT !.debt[a] = 0]

(* Slip: the principal record survives the redemption. *)
RedeemedTwice(a) == UNCHANGED depositedShares
ClearsPrincipal(a) == depositedShares' = [depositedShares EXCEPT ![a] = 0]

(* Slip: redemption asks for the wrapped units back. *)
MayRedeemWithUnits(a) == depositedShares[a] # 0 /\ balanceOf[a] >= depositedShares[a]
MayRedeem(a) == depositedShares[a] # 0

RedeemShares(a, pulled) ==
    LET synced == SyncPost(pulled)
        n == depositedShares[a]
    IN  /\ now > MATURITY
        /\ MayRedeem(a)
        /\ Settles(synced.post, depositedShares, a)
        /\ n <= totalLocked /\ n <= shares[Wrap]
        /\ Pull(pulled) /\ reward' = reward + pulled
        /\ coupon' = synced.coupon /\ post' = ExitSettled(synced.post, a)
        /\ totalLocked' = totalLocked - n
        /\ ClearsPrincipal(a)
        /\ redeemedShares' = [redeemedShares EXCEPT ![a] = n]
        /\ shares' = [shares EXCEPT ![a] = @ + n, ![Wrap] = @ - n]
        /\ UNCHANGED <<now, units, totalDeposited, sweeps, paid>>

ClaimLockedReward(a, pulled) ==
    LET synced == SyncPost(pulled)
        settled == Checkpoint(synced.post, depositedShares, a)
        amount == settled.accrued[a]
    IN  /\ now > MATURITY
        /\ Settles(synced.post, depositedShares, a)
        /\ amount <= settled.reserve /\ amount <= reward + pulled
        /\ Pull(pulled) /\ reward' = reward + pulled - amount
        /\ coupon' = synced.coupon /\ post' = PayOut(settled, a)
        /\ paid' = [paid EXCEPT !.post[a] = @ + amount]
        /\ UNCHANGED <<now, units, principal, sweeps>>

Sweepable(a, entitled) == entitled - sweptOf[a]

SweepExpired(a, pulled) ==
    LET synced == SyncPost(pulled)
        original == depositedShares[a] + redeemedShares[a]
        entitled == (synced.coupon.reserve * original) \div totalDeposited
        amount == Sweepable(a, entitled)
    IN  /\ now > CLAIM_DEADLINE
        /\ original # 0
        /\ amount > 0 /\ amount <= reward + pulled
        /\ Pull(pulled) /\ reward' = reward + pulled - amount
        /\ coupon' = synced.coupon /\ post' = synced.post
        /\ sweptOf' = [sweptOf EXCEPT ![a] = entitled]
        /\ forfeitPaid' = forfeitPaid + amount
        /\ UNCHANGED <<now, units, principal, paid>>

Tick == now < MaxTime /\ now' = now + 1
        /\ UNCHANGED <<coupon, post, units, principal, sweeps, reward, arrived, paid>>

Next ==
    \/ \E n \in Payments : RewardArrives(n) \/ Harvest(n)
    \/ \E a \in Accounts, p \in Payments : \E n \in 1..shares[a] : Deposit(a, n, p)
    \/ \E from, to \in Accounts, p \in Payments :
          \E n \in 0..balanceOf[from] : Transfer(from, to, n, p)
    \/ \E a \in Accounts : Claim(a)
    \/ \E a \in Accounts, p \in Payments :
          RedeemShares(a, p) \/ ClaimLockedReward(a, p) \/ SweepExpired(a, p)
    \/ Tick

Spec == Init /\ [][Next]_vars
=============================================================================
