----------------------- MODULE FeeShareAutoCompounder -----------------------
(***************************************************************************)
(* contracts/src/feeshare/FeeShareAutoCompounder.sol: fee shares that can  *)
(* be withdrawn at any time, whose WETH reward accrues per depositor and   *)
(* is claimed as it is or routed into 0xZAPS through one pinned adapter.   *)
(*                                                                         *)
(* A transaction is one action.  There is no lock, but the vault is called *)
(* before anything is read (a call back from it is a transaction that came *)
(* first), and the pinned adapter pulls exactly the amount it is given     *)
(* (IAdapter.sol) and is taken not to call back.                           *)
(***************************************************************************)
EXTENDS Totals

CONSTANTS
    Accounts, This,                     \* depositors and keepers; the contract
    MIN_OUT_BPS, BPS, Q96, MAX_ROUTE_WEI, MIN_ROUTE_WEI, ACC_SCALE,
    Purse,                              \* fee shares each account starts with
    \* bounds of the instance
    Payments, Yields, Prices, MaxReward, MaxBlock

CompounderSetting ==
    /\ This \notin Accounts /\ Purse \in [Accounts -> Nat]
    /\ BPS \in Nat \ {0} /\ MIN_OUT_BPS \in 1..BPS /\ Q96 \in Nat \ {0} /\ ACC_SCALE \in Nat \ {0}
    /\ MIN_ROUTE_WEI \in Nat \ {0} /\ MAX_ROUTE_WEI \in Nat /\ MIN_ROUTE_WEI <= MAX_ROUTE_WEI
    /\ Payments \cup Yields \cup Prices \subseteq Nat /\ 0 \in Payments
    /\ MaxReward \in Nat /\ MaxBlock \in Nat

VARIABLES
    block,
    deposits, totalDeposits,
    cumulativeWethPerShare, wethReserve, wethDebt, wethOwed,
    autoRouteAllowed, lastRouteBlock,
    shares,         \* FEE_SHARES balances
    weth,           \* the contract's WETH balance
    priceX96,       \* what the pinned source reads
    zaps,           \* 0xZAPS each account was paid
    arrived,        \* history: all WETH that ever reached the contract
    taken,          \* history: WETH each account claimed or had routed
    routedNow       \* history: WETH routed for each account in this block

rewards == <<cumulativeWethPerShare, wethReserve, wethDebt, wethOwed>>
stake == <<deposits, totalDeposits, shares>>
routing == <<autoRouteAllowed, lastRouteBlock>>
vars == <<block, stake, rewards, routing, weth, priceX96, zaps, arrived, taken, routedNow>>

Nobody == [a \in Accounts |-> 0]

Init ==
    /\ block = 1
    /\ deposits = Nobody /\ totalDeposits = 0
    /\ cumulativeWethPerShare = 0 /\ wethReserve = 0 /\ wethDebt = Nobody /\ wethOwed = Nobody
    /\ autoRouteAllowed = {} /\ lastRouteBlock = Nobody
    /\ shares = [h \in Accounts \cup {This} |-> IF h = This THEN 0 ELSE Purse[h]]
    /\ weth = 0 /\ arrived = 0 /\ priceX96 \in Prices
    /\ zaps = Nobody /\ taken = Nobody /\ routedNow = Nobody

----------------------------------------------------------------------------
(* _sync: the vault pays what it pays (nothing when it is down), and what   *)
(* is beyond the reserve is shared out at the present holdings.             *)
Synced(pulled) == IF totalDeposits = 0 THEN cumulativeWethPerShare
                  ELSE cumulativeWethPerShare + ((weth + pulled - wethReserve) * ACC_SCALE) \div totalDeposits

ReserveSynced(pulled) == IF totalDeposits = 0 THEN wethReserve ELSE weth + pulled

Pull(pulled) ==
    /\ wethReserve <= weth + pulled
    /\ arrived + pulled <= MaxReward
    /\ arrived' = arrived + pulled

Floor(n, cum) == (n * cum) \div ACC_SCALE
Pending(a, cum) == Floor(deposits[a], cum) - wethDebt[a]
Settles(a, cum) == wethDebt[a] <= Floor(deposits[a], cum)

(* Slip: settled at the rate before the sync. *)
SettledBeforeSync(a, cum) == wethOwed[a] + Pending(a, cumulativeWethPerShare)
Settled(a, cum) == wethOwed[a] + Pending(a, cum)

(* What every depositor's transaction does first. *)
Checkpoint(a, pulled) ==
    /\ Pull(pulled)
    /\ Settles(a, Synced(pulled))
    /\ cumulativeWethPerShare' = Synced(pulled)

WethArrives(n) ==
    /\ n > 0 /\ arrived + n <= MaxReward
    /\ arrived' = arrived + n
    /\ weth' = weth + n
    /\ UNCHANGED <<block, stake, rewards, routing, priceX96, zaps, taken, routedNow>>

----------------------------------------------------------------------------
DebtAfter(a, held, cum) == Floor(held, cum)

ChangeStake(a, held, pulled) ==
    /\ Checkpoint(a, pulled)
    /\ wethOwed' = [wethOwed EXCEPT ![a] = Settled(a, Synced(pulled))]
    /\ wethReserve' = ReserveSynced(pulled)
    /\ deposits' = [deposits EXCEPT ![a] = held]
    /\ wethDebt' = [wethDebt EXCEPT ![a] = DebtAfter(a, held, Synced(pulled))]
    /\ weth' = weth + pulled
    /\ UNCHANGED <<block, routing, priceX96, zaps, taken, routedNow>>

Deposit(a, n, pulled) ==
    /\ n # 0 /\ n <= shares[a]
    /\ ChangeStake(a, deposits[a] + n, pulled)
    /\ totalDeposits' = totalDeposits + n
    /\ shares' = [shares EXCEPT ![a] = @ - n, ![This] = @ + n]

(* Slip: a withdrawal leaves the total as it was. *)
TotalKept(n) == totalDeposits
TotalAfter(n) == totalDeposits - n

Withdraw(a, n, pulled) ==
    /\ n # 0 /\ n <= deposits[a] /\ n <= shares[This]
    /\ ChangeStake(a, deposits[a] - n, pulled)
    /\ totalDeposits' = TotalAfter(n)
    /\ shares' = [shares EXCEPT ![a] = @ + n, ![This] = @ - n]

ReservePaid(pulled, amount) == ReserveSynced(pulled) - amount

(* What a claim and a route have in common: the amount leaves as WETH. *)
Spend(a, amount, pulled) ==
    /\ Checkpoint(a, pulled)
    /\ amount <= ReserveSynced(pulled) /\ amount <= weth + pulled
    /\ wethOwed' = [wethOwed EXCEPT ![a] = Settled(a, Synced(pulled)) - amount]
    /\ wethDebt' = [wethDebt EXCEPT ![a] = Floor(deposits[a], Synced(pulled))]
    /\ wethReserve' = ReservePaid(pulled, amount)
    /\ weth' = weth + pulled - amount
    /\ taken' = [taken EXCEPT ![a] = @ + amount]
    /\ UNCHANGED <<block, stake, autoRouteAllowed>>

ClaimWeth(a, pulled) ==
    /\ Spend(a, Settled(a, Synced(pulled)), pulled)
    /\ UNCHANGED <<lastRouteBlock, priceX96, zaps, routedNow>>

SetAutoRoute(a, allowed) ==
    /\ autoRouteAllowed' = IF allowed THEN autoRouteAllowed \cup {a} ELSE autoRouteAllowed \ {a}
    /\ UNCHANGED <<block, stake, rewards, lastRouteBlock, weth, priceX96, zaps, arrived, taken, routedNow>>

RouteAmount(owed) == IF owed > MAX_ROUTE_WEI THEN MAX_ROUTE_WEI ELSE owed

Spot == priceX96
RouteFloor(amount, spot) == (((amount * spot) \div Q96) * MIN_OUT_BPS) \div BPS

Unrouted(caller, a) == lastRouteBlock[a] # block

(* route and routeFor: the swap may leave the pool at any price. *)
Route(caller, a, got, p, pulled) ==
    LET amount == RouteAmount(Settled(a, Synced(pulled)))
    IN  /\ caller = a \/ a \in autoRouteAllowed
        /\ Unrouted(caller, a)
        /\ amount # 0 /\ amount >= MIN_ROUTE_WEI
        /\ priceX96' = p
        /\ got >= RouteFloor(amount, Spot) /\ got # 0
        /\ Spend(a, amount, pulled)
        /\ lastRouteBlock' = [lastRouteBlock EXCEPT ![a] = block]
        /\ zaps' = [zaps EXCEPT ![a] = @ + got]
        /\ routedNow' = [routedNow EXCEPT ![a] = @ + amount]

NewBlock(p) ==
    /\ block < MaxBlock
    /\ block' = block + 1
    /\ priceX96' = p
    /\ routedNow' = Nobody
    /\ UNCHANGED <<stake, rewards, routing, weth, zaps, arrived, taken>>

Next ==
    \/ \E n \in Payments : WethArrives(n)
    \/ \E a \in Accounts, pulled \in Payments :
          \/ \E n \in 1..shares[a] : Deposit(a, n, pulled)
          \/ \E n \in 1..deposits[a] : Withdraw(a, n, pulled)
          \/ ClaimWeth(a, pulled)
    \/ \E a \in Accounts, allowed \in BOOLEAN : SetAutoRoute(a, allowed)
    \/ \E caller, a \in Accounts, got \in Yields, p \in Prices, pulled \in Payments :
          Route(caller, a, got, p, pulled)
    \/ \E p \in Prices : NewBlock(p)

Spec == Init /\ [][Next]_vars

----------------------------------------------------------------------------
Owed(a) == Settled(a, cumulativeWethPerShare)

(* "Withdrawable at any time": the shares held are the deposits, neither    *)
(* checked subtraction of _sync and _checkpoint can ever fail, and every    *)
(* depositor can take all of theirs even from a vault that pays nothing.    *)
WithdrawOpen ==
    /\ shares[This] = totalDeposits /\ totalDeposits = Total(deposits)
    /\ wethReserve <= weth
    /\ \A a \in Accounts : deposits[a] # 0 => ENABLED Withdraw(a, deposits[a], 0)

(* "No depositor is ever diluted, no latecomer captures an earlier          *)
(* depositor's yield": whatever anyone does, an account's lifetime reward   *)
(* grows by exactly what the deposit it held when a reward was shared out   *)
(* earned at the rate of that sharing, and by nothing else.  What is routed *)
(* of it stays below the ceiling of a block and is paid the floor of the    *)
(* price before the swap.                                                   *)
YieldsKept ==
    \A a \in Accounts :
        /\ Owed(a)' + taken'[a] = Owed(a) + taken[a] + Floor(deposits[a], cumulativeWethPerShare')
                                       - Floor(deposits[a], cumulativeWethPerShare)
        /\ routedNow'[a] <= MAX_ROUTE_WEI
        /\ routedNow'[a] > routedNow[a] =>
              zaps'[a] - zaps[a] >= RouteFloor(routedNow'[a] - routedNow[a], priceX96)
=============================================================================
