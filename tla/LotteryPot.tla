---------------------------- MODULE LotteryPot -----------------------------
(***************************************************************************)
(* contracts/src/v3/ZapLotteryPot.sol: the pot that collects the protocol  *)
(* share of every executor-driven run, turns it into 0xZAPS through one    *)
(* pinned adapter and pays it out, round by round, to a ticket holder.     *)
(* Each transaction is one action: nothing the pinned adapter calls is     *)
(* taken to call back into a capsule or the pot.                           *)
(***************************************************************************)
EXTENDS Integers, FiniteSets

CONSTANTS
    Players, Clones,    \* zap owners, and the accounts that run capsule code
    Governors,          \* accounts that own the pot at some time
    Factories,          \* accounts an owner may name as the factory
    Pot, Venue,         \* the pot itself, and the market the adapter trades with
    Tokens, ZAPS,
    NoOne,              \* address(0)
    Governor,           \* owner_ at deployment
    \* bounds of the instance
    MaxRound, Amounts, Supply

Accounts == Players \cup Clones \cup Governors \cup Factories
Holders == Accounts \cup {Pot, Venue}
Rounds == 1..MaxRound

(* The pot, its adapter's market and the players are different accounts;    *)
(* the constructor rejects a zero prize token.                              *)
ASSUME PotSetting ==
    /\ Pot \notin Accounts /\ Venue \notin Accounts /\ Pot # Venue
    /\ ZAPS \in Tokens /\ NoOne \notin Accounts /\ Governor \in Governors
    /\ MaxRound \in Nat \ {0} /\ Supply \in Nat /\ Amounts \subseteq Nat

VARIABLES
    owner, pendingOwner, factory, isZap,
    currentRound, tickets, totalTickets, roundPrize,
    bal,        \* the token contracts' balances
    accrued,    \* history: 0xZAPS that ever entered a prize
    awards      \* history: what each closed round paid, and to whom

vars == <<owner, pendingOwner, factory, isZap, currentRound, tickets, totalTickets,
          roundPrize, bal, accrued, awards>>
wiring == <<owner, pendingOwner, factory, isZap>>

NoAward == [winner |-> NoOne, prize |-> 0]

Init ==
    /\ owner = Governor
    /\ pendingOwner = NoOne
    /\ factory = NoOne
    /\ isZap = {}
    /\ currentRound = 1
    /\ tickets = [r \in Rounds |-> [p \in Players |-> 0]]
    /\ totalTickets = [r \in Rounds |-> 0]
    /\ roundPrize = [r \in Rounds |-> 0]
    /\ bal = [h \in Holders |-> [t \in Tokens |-> IF h \in Clones \cup {Venue} THEN Supply ELSE 0]]
    /\ accrued = 0
    /\ awards = [r \in Rounds |-> NoAward]

Transfer(b, from, to, t, n) ==
    LET debited == [b EXCEPT ![from][t] = @ - n]
    IN  [debited EXCEPT ![to][t] = @ + n]

----------------------------------------------------------------------------
(* Wiring: the owner binds one factory for good, the factory names clones. *)

SetFactory(caller, f) ==
    /\ caller = owner
    /\ factory = NoOne
    /\ factory' = f
    /\ UNCHANGED <<owner, pendingOwner, isZap, currentRound, tickets, totalTickets,
                   roundPrize, bal, accrued, awards>>

RegisterZap(caller, z) ==
    /\ factory # NoOne
    /\ caller = factory
    /\ isZap' = isZap \cup {z}
    /\ UNCHANGED <<owner, pendingOwner, factory, currentRound, tickets, totalTickets,
                   roundPrize, bal, accrued, awards>>

TransferOwnership(caller, to) ==
    /\ caller = owner
    /\ pendingOwner' = to
    /\ UNCHANGED <<owner, factory, isZap, currentRound, tickets, totalTickets,
                   roundPrize, bal, accrued, awards>>

AcceptOwnership(caller) ==
    /\ caller = pendingOwner
    /\ owner' = pendingOwner
    /\ pendingOwner' = NoOne
    /\ UNCHANGED <<factory, isZap, currentRound, tickets, totalTickets,
                   roundPrize, bal, accrued, awards>>

----------------------------------------------------------------------------
(* A capsule settles: it transfers its share and has it recorded.  Where    *)
(* the pot refuses the record the whole run reverts, transfer included.     *)

Credit(asset, n) == IF asset = ZAPS THEN n ELSE 0

(* Slip: every asset counted into the prize, converted or not. *)
CreditAnyAsset(asset, n) == n
PrizeCredit(asset, n) == Credit(asset, n)

TicketsAfter(r, player, n) == [tickets EXCEPT ![r][player] = @ + n]

(* Slip: the round read once and kept across its turn. *)
StaleRound == IF currentRound > 1 THEN currentRound - 1 ELSE currentRound
ContributionRound == currentRound

NotifyContribution(z, player, asset, n) ==
    /\ z \in isZap
    /\ n > 0
    /\ tickets' = TicketsAfter(ContributionRound, player, n)
    /\ totalTickets' = [totalTickets EXCEPT ![ContributionRound] = @ + n]
    /\ roundPrize' = [roundPrize EXCEPT ![currentRound] = @ + PrizeCredit(asset, n)]
    /\ accrued' = accrued + Credit(asset, n)

Contribute(z, player, asset, n) ==
    /\ n <= bal[z][asset]
    /\ bal' = Transfer(bal, z, Pot, asset, n)
    /\ NotifyContribution(z, player, asset, n)
    /\ UNCHANGED <<wiring, currentRound, awards>>

(* An unsolicited transfer: no ticket, no prize. *)
Donate(from, asset, n) ==
    /\ n <= bal[from][asset]
    /\ bal' = Transfer(bal, from, Pot, asset, n)
    /\ UNCHANGED <<wiring, currentRound, tickets, totalTickets, roundPrize, accrued, awards>>

(* Slip: the requested minimum credited, not the measured delivery. *)
MinimumCredit(got, minZapsOut) == minZapsOut
PurchaseCredit(got, minZapsOut) == got

(* Anyone may convert a fee asset; the adapter pulls up to its approval and *)
(* what it delivered is measured.                                           *)
BuyZaps(assetIn, amountIn, minZapsOut, spent, got) ==
    /\ assetIn # ZAPS
    /\ amountIn > 0
    /\ amountIn <= bal[Pot][assetIn]
    /\ spent <= amountIn
    /\ got <= bal[Venue][ZAPS]
    /\ got > 0 /\ got >= minZapsOut
    /\ bal' = Transfer(Transfer(bal, Pot, Venue, assetIn, spent), Venue, Pot, ZAPS, got)
    /\ roundPrize' = [roundPrize EXCEPT ![currentRound] = @ + PurchaseCredit(got, minZapsOut)]
    /\ accrued' = accrued + got
    /\ UNCHANGED <<wiring, currentRound, tickets, totalTickets, awards>>

----------------------------------------------------------------------------
(* Slip: the round advances but the paid prize is left on the books. *)
BooksAfterUncleared(r) == roundPrize
BooksAfter(r) == [roundPrize EXCEPT ![r] = 0]

(* Slip: the ticket gate reads any round the winner ever played in. *)
EligibleEver(winner) == \E r \in Rounds : tickets[r][winner] > 0
Eligible(winner) == tickets[currentRound][winner] > 0

Payout == roundPrize[currentRound]

AwardRound(caller, winner) ==
    /\ caller = owner
    /\ currentRound < MaxRound
    /\ roundPrize[currentRound] > 0
    /\ Eligible(winner)
    /\ roundPrize' = BooksAfter(currentRound)
    /\ currentRound' = currentRound + 1
    /\ bal' = Transfer(bal, Pot, winner, ZAPS, Payout)
    /\ awards' = [awards EXCEPT ![currentRound] = [winner |-> winner, prize |-> Payout]]
    /\ UNCHANGED <<wiring, tickets, totalTickets, accrued>>

Next ==
    \/ \E c \in Accounts, f \in Factories : SetFactory(c, f)
    \/ \E c \in Accounts, z \in Clones : RegisterZap(c, z)
    \/ \E c \in Accounts, g \in Governors : TransferOwnership(c, g)
    \/ \E c \in Accounts : AcceptOwnership(c)
    \/ \E z \in Clones, player \in Players, t \in Tokens, n \in Amounts : Contribute(z, player, t, n)
    \/ \E from \in Players \cup Clones, t \in Tokens, n \in Amounts : Donate(from, t, n)
    \/ \E t \in Tokens, n, least, spent, got \in Amounts : BuyZaps(t, n, least, spent, got)
    \/ \E c \in Accounts, winner \in Players : AwardRound(c, winner)

Spec == Init /\ [][Next]_vars
=============================================================================
