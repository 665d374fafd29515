------------------------ MODULE LotteryPotProperties ------------------------
(* What the pot promises its players. *)
EXTENDS LotteryPot, Totals

(* Every field of the pot has its type; no balance goes negative, so every  *)
(* transfer the pot makes succeeds (safeTransfer in awardRound).            *)
TypeOK ==
    /\ owner \in Accounts /\ pendingOwner \in Accounts \cup {NoOne}
    /\ factory \in Accounts \cup {NoOne} /\ isZap \subseteq Accounts
    /\ currentRound \in Rounds
    /\ tickets \in [Rounds -> [Players -> Nat]]
    /\ totalTickets \in [Rounds -> Nat]
    /\ roundPrize \in [Rounds -> Nat]
    /\ bal \in [Holders -> [Tokens -> Nat]]
    /\ accrued \in Nat
    /\ awards \in [Rounds -> [winner : Players \cup {NoOne}, prize : Nat]]

(* I-FEE-6, stated for this pot: the 0xZAPS promised as a prize is always   *)
(* really there, and only the open round promises any (notifyContribution,  *)
(* buyZaps, awardRound).                                                    *)
PrizeBacked ==
    /\ roundPrize[currentRound] <= bal[Pot][ZAPS]
    /\ \A r \in Rounds : r # currentRound => roundPrize[r] = 0

(* What all awards paid, plus the open prize, is exactly what contributions *)
(* and conversions brought in: nothing is paid twice, lost at a round's     *)
(* turn, or minted by a donation.                                           *)
PrizesAccountedFor ==
    Total([r \in Rounds |-> awards[r].prize]) + roundPrize[currentRound] = accrued

(* Every closed round paid one account that had contributed in that very    *)
(* round, whoever governed the pot at the time (WinnerHasNoTickets).        *)
WinnersPlayed ==
    \A r \in Rounds : r < currentRound =>
        awards[r].prize > 0 /\ tickets[r][awards[r].winner] > 0

(* A closed round is closed: its tickets and its award never change again.  *)
ClosedRoundsAreFinal ==
    [][\A r \in Rounds : r < currentRound =>
          tickets'[r] = tickets[r] /\ awards'[r] = awards[r] /\ roundPrize'[r] = roundPrize[r]]_vars
=============================================================================
