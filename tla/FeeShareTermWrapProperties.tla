--------------------- MODULE FeeShareTermWrapProperties ---------------------
(* What the wrapper promises coupon holders and depositors. *)
EXTENDS FeeShareTermWrap, Totals

(* "The principal does not leave its depositor": the fee shares held, the   *)
(* locked principal and the redemption records agree, whatever units did.   *)
PrincipalHeld ==
    /\ shares[Wrap] = totalLocked /\ totalLocked = Total(depositedShares)
    /\ totalDeposited = Total([a \in Accounts |-> depositedShares[a] + redeemedShares[a]])
    /\ totalSupply = Total(balanceOf) /\ totalSupply = totalDeposited

(* Redemption is "gated only on the clock": no history of rewards, sweeps   *)
(* and vault outages leaves a depositor unable to redeem after the term.    *)
RedemptionOpen ==
    \A a \in Accounts :
        now > MATURITY /\ depositedShares[a] # 0 => ENABLED RedeemShares(a, 0)

(* No reward is promised twice: the wrapper holds what its two reserves     *)
(* promise, what all depositors may still claim after maturity is in the    *)
(* second (claimLockedReward cannot underflow), and once claims are closed  *)
(* the original depositors get no more of the forfeited coupons than there  *)
(* are (sweepExpired).                                                      *)
RewardsCovered ==
    /\ forfeitPaid <= coupon.reserve /\ Earmarked <= reward
    /\ Total([a \in Accounts |-> Owed(post, depositedShares, a)]) <= post.reserve
    /\ Total(sweptOf) = forfeitPaid
    /\ \A a \in Accounts : sweptOf[a] * totalDeposited <=
          coupon.reserve * (depositedShares[a] + redeemedShares[a])

----------------------------------------------------------------------------
CouponEarned(a) == Owed(coupon, balanceOf, a) + paid.coupon[a]
PostEarned(a) == Owed(post, depositedShares, a) + paid.post[a]

(* "The seller keeps everything earned while they held": no deposit, sale,  *)
(* harvest, redemption or claim of anyone lowers what an account has earned. *)
EarningsKept ==
    [][\A a \in Accounts : /\ CouponEarned(a)' >= CouponEarned(a)
                           /\ PostEarned(a)' >= PostEarned(a)]_vars

SharedOut == reward = Earmarked

(* "Fold any reward already owed to the CURRENT holders before minting": a  *)
(* step that moves units in term, or that pays, sweeps or redeems after it, *)
(* first shares out everything the wrapper holds, and at the holdings of    *)
(* before the step, so that neither a late depositor nor a buyer dilutes    *)
(* what came before them and no exit strands what the wrapper has.  Coupons *)
(* gain nothing after maturity, locked principal nothing before.  The       *)
(* epoch is that of the step that shares, not of the reward's arrival, and  *)
(* what arrives while there is no unit waits for the first depositor.       *)
SharedBeforeMoved ==
    [][/\ \A a \in Accounts :
             /\ CouponEarned(a)' - CouponEarned(a) =
                   Floor(balanceOf[a], coupon.cum') - Floor(balanceOf[a], coupon.cum)
             /\ PostEarned(a)' - PostEarned(a) =
                   Floor(depositedShares[a], post.cum') - Floor(depositedShares[a], post.cum)
       /\ IF now > MATURITY
          THEN /\ coupon.cum' = coupon.cum
               /\ paid.post' # paid.post \/ forfeitPaid' # forfeitPaid
                     \/ redeemedShares' # redeemedShares => SharedOut'
          ELSE /\ post.cum' = post.cum
               /\ balanceOf' # balanceOf /\ totalSupply # 0 => SharedOut']_vars

----------------------------------------------------------------------------
(* The inductive invariant behind the four.                                 *)
Buckets == [cum : Nat, reserve : Nat, debt : [Accounts -> Nat], accrued : [Accounts -> Nat]]

WrapTyped ==
    /\ now \in Nat /\ coupon \in Buckets /\ post \in Buckets
    /\ balanceOf \in [Accounts -> Nat] /\ totalSupply \in Nat
    /\ depositedShares \in [Accounts -> Nat] /\ redeemedShares \in [Accounts -> Nat]
    /\ totalDeposited \in Nat /\ totalLocked \in Nat
    /\ sweptOf \in [Accounts -> Nat] /\ forfeitPaid \in Nat
    /\ shares \in [Accounts \cup {Wrap} -> Nat]
    /\ reward \in Nat /\ arrived \in Nat
    /\ paid \in [coupon : [Accounts -> Nat], post : [Accounts -> Nat]]

(* What only happens once the clock allows it. *)
Seasons ==
    /\ now <= MATURITY => post = EmptyBucket /\ paid.post = Nobody /\ redeemedShares = Nobody
    /\ now <= CLAIM_DEADLINE => sweptOf = Nobody /\ forfeitPaid = 0
    /\ \A a \in Accounts : redeemedShares[a] # 0 => depositedShares[a] = 0

(* Who is still locked has earned its stake times the rate, floored once    *)
(* over its whole history; who left has earned what it had then.  The       *)
(* unfloored earnings of all are covered by what the bucket took in.        *)
Exited == [a \in Accounts |-> IF depositedShares[a] = 0 THEN post.accrued[a] + paid.post[a] ELSE 0]

PostBacked ==
    /\ \A a \in Accounts :
          post.debt[a] = IF depositedShares[a] = 0 THEN 0 ELSE post.accrued[a] + paid.post[a]
    /\ post.cum * totalLocked + ACC_SCALE * Total(Exited) <=
          ACC_SCALE * (post.reserve + Total(paid.post))

WrapInv == WrapTyped /\ Seasons /\ PrincipalHeld /\ PostBacked /\ RewardsCovered
=============================================================================
