------------------------------ MODULE PotProofs ------------------------------
(***************************************************************************)
(* Machine-checked of the two pots.                                        *)
(*                                                                         *)
(* The lottery, for any players, clones, governors, tokens and amounts: its *)
(* types, its prize is always backed, every closed round paid one of its   *)
(* own players, a closed round never changes, and every prize ever taken   *)
(* in is accounted for.                                                    *)
(*                                                                         *)
(* The overdraw table, for any players, fees, shares, draws and tiebreaks: *)
(* it holds what it owes, a settlement credits no more than the entries,   *)
(* and it serves the modest first.  The service is a fold along a line-up, *)
(* so the argument first builds the line-up from the ranks, then unrolls   *)
(* the fold seat by seat.                                                  *)
(***************************************************************************)
EXTENDS MCPots, TotalsProofs, Sequences

(* The part of the typing the prize depends on. *)
PotTyped ==
    /\ currentRound \in Rounds
    /\ roundPrize \in [Rounds -> Nat]
    /\ bal \in [Holders -> [Tokens -> Nat]]

PotInv == PotTyped /\ PrizeBacked

(* A transfer the sender can afford moves exactly that amount.              *)
LEMMA TransferTyped ==
    ASSUME NEW b \in [Holders -> [Tokens -> Nat]],
           NEW from \in Holders, NEW to \in Holders, from # to,
           NEW t \in Tokens, NEW n \in Nat, n <= b[from][t]
    PROVE  /\ Transfer(b, from, to, t, n) \in [Holders -> [Tokens -> Nat]]
           /\ Transfer(b, from, to, t, n)[from][t] = b[from][t] - n
           /\ Transfer(b, from, to, t, n)[to][t] = b[to][t] + n
           /\ \A u \in Tokens : u # t => \A h \in Holders : Transfer(b, from, to, t, n)[h][u] = b[h][u]
           /\ \A h \in Holders : h # from /\ h # to => Transfer(b, from, to, t, n)[h] = b[h]
  <1> DEFINE debited == [b EXCEPT ![from][t] = @ - n]
  <1>1. b[from] \in [Tokens -> Nat] /\ b[from][t] - n \in Nat
    BY SMT
  <1>2. debited = [b EXCEPT ![from] = [b[from] EXCEPT ![t] = b[from][t] - n]]
    OBVIOUS
  <1>3. debited \in [Holders -> [Tokens -> Nat]]
    BY <1>1, <1>2
  <1>4. /\ debited[from][t] = b[from][t] - n
        /\ \A h \in Holders : h # from => debited[h] = b[h]
        /\ \A u \in Tokens : u # t => debited[from][u] = b[from][u]
    BY <1>2
  <1> DEFINE after == Transfer(b, from, to, t, n)
  <1>5. after = [debited EXCEPT ![to] = [debited[to] EXCEPT ![t] = debited[to][t] + n]]
    BY DEF Transfer
  <1> HIDE DEF debited, after
  <1>6. debited[to] \in [Tokens -> Nat] /\ debited[to][t] + n \in Nat
    BY <1>3
  <1>7. after \in [Holders -> [Tokens -> Nat]]
    BY <1>3, <1>5, <1>6
  <1>8. after[to][t] = b[to][t] + n /\ after[from] = debited[from]
    BY <1>3, <1>4, <1>5
  <1>9. \A h \in Holders : h # from /\ h # to => after[h] = b[h]
    BY <1>3, <1>4, <1>5
  <1>10. \A u \in Tokens : u # t => \A h \in Holders : after[h][u] = b[h][u]
    BY <1>3, <1>4, <1>5
  <1>11. QED  BY <1>4, <1>7, <1>8, <1>9, <1>10 DEF after

(* A new pot owes no prize.                                                 *)
LEMMA PotInit == Init => PotInv
BY PotSetting DEF Init, PotInv, PotTyped, PrizeBacked, Rounds, Holders

(* Each transaction keeps the open prize covered (one step per action).     *)
LEMMA PotStep ==
    ASSUME PotInv, [Next]_vars
    PROVE  PotInv'
  <1> USE DEF PotInv
  <1>0. /\ Pot \in Holders /\ Venue \in Holders /\ Pot # Venue /\ ZAPS \in Tokens
        /\ \A a \in Accounts : a \in Holders /\ a # Pot /\ a # Venue
    BY PotSetting DEF Holders
  <1>1. ASSUME NEW z \in Clones, NEW player \in Players, NEW t \in Tokens, NEW n \in Amounts,
               Contribute(z, player, t, n)
        PROVE  PotInv'
    <2> DEFINE after == Transfer(bal, z, Pot, t, n)
    <2>1. n \in Nat /\ z \in Accounts /\ n <= bal[z][t] /\ bal' = after
      BY <1>1, PotSetting DEF Contribute, Accounts
    <2>2. /\ after \in [Holders -> [Tokens -> Nat]]
          /\ after[Pot][ZAPS] = bal[Pot][ZAPS] + Credit(t, n)
      <3>1. bal \in [Holders -> [Tokens -> Nat]] /\ z \in Holders /\ Pot \in Holders /\ z # Pot
        BY <1>0, <2>1 DEF PotTyped
      <3>2. /\ after \in [Holders -> [Tokens -> Nat]] /\ after[Pot][t] = bal[Pot][t] + n
            /\ t # ZAPS => after[Pot][ZAPS] = bal[Pot][ZAPS]
        BY <1>0, <2>1, <3>1, TransferTyped
      <3> HIDE DEF after
      <3>3. bal[Pot][ZAPS] \in Nat
        BY <1>0, <3>1
      <3>4. QED
        BY <2>1, <3>2, <3>3 DEF Credit
    <2> HIDE DEF after
    <2>3. /\ roundPrize' = [roundPrize EXCEPT ![currentRound] = @ + Credit(t, n)]
          /\ currentRound' = currentRound /\ Credit(t, n) \in Nat
      BY <1>1, <2>1 DEF Contribute, NotifyContribution, ContributionRound, PrizeCredit, Credit
    <2>4. bal[Pot][ZAPS] \in Nat /\ roundPrize[currentRound] \in Nat
      BY <1>0 DEF PotTyped
    <2>5. QED  BY <2>1, <2>2, <2>3, <2>4 DEF PotTyped, PrizeBacked
  <1>2. ASSUME NEW from \in Players \cup Clones, NEW t \in Tokens, NEW n \in Amounts, Donate(from, t, n)
        PROVE  PotInv'
    <2> DEFINE after == Transfer(bal, from, Pot, t, n)
    <2>1. n \in Nat /\ from \in Accounts /\ n <= bal[from][t] /\ bal' = after
      BY <1>2, PotSetting DEF Donate, Accounts
    <2>2. /\ after \in [Holders -> [Tokens -> Nat]]
          /\ after[Pot][ZAPS] = bal[Pot][ZAPS] + Credit(t, n)
      <3>1. bal \in [Holders -> [Tokens -> Nat]] /\ from \in Holders /\ from # Pot
        BY <1>0, <2>1 DEF PotTyped
      <3>2. /\ after \in [Holders -> [Tokens -> Nat]] /\ after[Pot][t] = bal[Pot][t] + n
            /\ t # ZAPS => after[Pot][ZAPS] = bal[Pot][ZAPS]
        BY <1>0, <2>1, <3>1, TransferTyped
      <3>3. bal[Pot][ZAPS] \in Nat
        BY <1>0, <3>1
      <3> HIDE DEF after
      <3>4. QED  BY <3>2, <3>3 DEF Credit
    <2> HIDE DEF after
    <2>3. UNCHANGED <<roundPrize, currentRound>>
      BY <1>2 DEF Donate
    <2>4. bal[Pot][ZAPS] \in Nat /\ roundPrize[currentRound] \in Nat /\ Credit(t, n) \in Nat
      BY <1>0, <2>1 DEF PotTyped, Credit
    <2>5. QED  BY <2>1, <2>2, <2>3, <2>4 DEF PotTyped, PrizeBacked
  <1>3. ASSUME NEW t \in Tokens, NEW n \in Amounts, NEW least \in Amounts,
               NEW spent \in Amounts, NEW got \in Amounts, BuyZaps(t, n, least, spent, got)
        PROVE  PotInv'
    <2> DEFINE paid == Transfer(bal, Pot, Venue, t, spent)
    <2> DEFINE after == Transfer(paid, Venue, Pot, ZAPS, got)
    <2>1. /\ spent \in Nat /\ got \in Nat /\ t # ZAPS /\ bal[Pot][t] \in Nat /\ n \in Nat
          /\ spent <= n /\ n <= bal[Pot][t] /\ got <= bal[Venue][ZAPS] /\ bal' = after
      BY <1>0, <1>3, PotSetting DEF BuyZaps, PotTyped
    <2>2. /\ paid \in [Holders -> [Tokens -> Nat]]
          /\ \A h \in Holders : paid[h][ZAPS] = bal[h][ZAPS]
      BY <1>0, <2>1, TransferTyped DEF PotTyped
    <2> HIDE DEF paid
    <2>3. /\ after \in [Holders -> [Tokens -> Nat]]
          /\ after[Pot][ZAPS] = bal[Pot][ZAPS] + got
      BY <1>0, <2>1, <2>2, TransferTyped
    <2> HIDE DEF after
    <2>4. roundPrize' = [roundPrize EXCEPT ![currentRound] = @ + got] /\ currentRound' = currentRound
      BY <1>3 DEF BuyZaps, PurchaseCredit
    <2>5. bal[Pot][ZAPS] \in Nat /\ roundPrize[currentRound] \in Nat
      BY <1>0 DEF PotTyped
    <2>6. QED  BY <2>1, <2>3, <2>4, <2>5 DEF PotTyped, PrizeBacked
  <1>4. ASSUME NEW c \in Accounts, NEW winner \in Players, AwardRound(c, winner)
        PROVE  PotInv'
    <2> DEFINE prize == roundPrize[currentRound]
    <2> DEFINE after == Transfer(bal, Pot, winner, ZAPS, prize)
    <2>1. /\ prize \in Nat /\ prize <= bal[Pot][ZAPS] /\ winner \in Accounts /\ bal' = after
      BY <1>4 DEF AwardRound, Payout, PotTyped, PrizeBacked, Accounts
    <2>2. after \in [Holders -> [Tokens -> Nat]]
      BY <1>0, <2>1, TransferTyped DEF PotTyped
    <2> HIDE DEF after
    <2>3. /\ currentRound' = currentRound + 1 /\ currentRound' \in Rounds
          /\ roundPrize' = [roundPrize EXCEPT ![currentRound] = 0]
      BY <1>4, PotSetting DEF AwardRound, BooksAfter, Rounds, PotTyped
    <2>4. currentRound # currentRound + 1
      BY PotSetting DEF Rounds, PotTyped
    <2>5. \A r \in Rounds : roundPrize'[r] = 0
      BY <2>3 DEF PotTyped, PrizeBacked
    <2>6. bal'[Pot][ZAPS] \in Nat
      BY <1>0, <2>1, <2>2
    <2>7. QED  BY <2>1, <2>2, <2>3, <2>5, <2>6 DEF PotTyped, PrizeBacked
  <1>5. CASE UNCHANGED <<currentRound, roundPrize, bal>>
    BY <1>5 DEF PotTyped, PrizeBacked
  <1>6. QED
    BY <1>1, <1>2, <1>3, <1>4, <1>5
       DEF Next, vars, SetFactory, RegisterZap, TransferOwnership, AcceptOwnership

(* I-FEE-6: in every reachable state the open round's prize is covered by   *)
(* the pot's own 0xZAPS and no closed round has any claim on it, whatever   *)
(* amounts are contributed, donated, converted or awarded.                  *)
THEOREM PrizeBackedTheorem == Spec => []PrizeBacked
  <1>1. PotInv => PrizeBacked
    BY DEF PotInv
  <1>2. PotInv /\ [Next]_vars => PotInv'
    BY PotStep
  <1>3. QED  BY PotInit, <1>1, <1>2, PTL DEF Spec

----------------------------------------------------------------------------
(* The rest of the typing: wiring, tickets and the history. *)
TicketsTyped ==
    /\ owner \in Accounts /\ pendingOwner \in Accounts \cup {NoOne}
    /\ factory \in Accounts \cup {NoOne} /\ isZap \subseteq Accounts
    /\ tickets \in [Rounds -> [Players -> Nat]]
    /\ totalTickets \in [Rounds -> Nat]
    /\ accrued \in Nat
    /\ awards \in [Rounds -> [winner : Players \cup {NoOne}, prize : Nat]]

(* A new pot is well typed.                                                 *)
LEMMA TicketsInit == Init => TicketsTyped
BY PotSetting DEF Init, TicketsTyped, Accounts, NoAward

(* A contribution touches the open round's tickets only.                    *)
LEMMA ContributionTyped ==
    ASSUME TicketsTyped, PotInv, NEW z \in Clones, NEW player \in Players, NEW t \in Tokens,
           NEW n \in Amounts, Contribute(z, player, t, n)
    PROVE  /\ tickets' \in [Rounds -> [Players -> Nat]]
           /\ totalTickets' \in [Rounds -> Nat] /\ accrued' \in Nat
           /\ \A r \in Rounds : r # currentRound => tickets'[r] = tickets[r]
  <1>1. /\ tickets' = [tickets EXCEPT ![currentRound][player] = @ + n]
        /\ totalTickets' = [totalTickets EXCEPT ![currentRound] = @ + n]
        /\ accrued' = accrued + Credit(t, n)
    BY DEF Contribute, NotifyContribution, TicketsAfter, ContributionRound
  <1>2. n \in Nat /\ Credit(t, n) \in Nat /\ currentRound \in Rounds
    BY PotSetting DEF Credit, PotInv, PotTyped
  <1> DEFINE row == [tickets[currentRound] EXCEPT ![player] = tickets[currentRound][player] + n]
  <1>3. tickets \in [Rounds -> [Players -> Nat]] /\ row \in [Players -> Nat]
    BY <1>2 DEF TicketsTyped
  <1>4. tickets' = [tickets EXCEPT ![currentRound] = row]
    BY <1>1
  <1> HIDE DEF row
  <1>5. tickets' \in [Rounds -> [Players -> Nat]] /\ \A r \in Rounds : r # currentRound => tickets'[r] = tickets[r]
    BY <1>2, <1>3, <1>4
  <1>6. QED  BY <1>1, <1>2, <1>5 DEF TicketsTyped

(* Each transaction keeps wiring, tickets and history typed.                *)
LEMMA TicketsStep ==
    ASSUME TicketsTyped, PotInv, [Next]_vars
    PROVE  TicketsTyped'
  <1>1. ASSUME NEW z \in Clones, NEW player \in Players, NEW t \in Tokens, NEW n \in Amounts,
               Contribute(z, player, t, n)
        PROVE  TicketsTyped'
    BY <1>1, ContributionTyped DEF Contribute, TicketsTyped, wiring
  <1>2. ASSUME NEW t \in Tokens, NEW n \in Amounts, NEW least \in Amounts,
               NEW spent \in Amounts, NEW got \in Amounts, BuyZaps(t, n, least, spent, got)
        PROVE  TicketsTyped'
    BY <1>2, PotSetting DEF BuyZaps, TicketsTyped, wiring
  <1>3. ASSUME NEW c \in Accounts, NEW winner \in Players, AwardRound(c, winner)
        PROVE  TicketsTyped'
    <2>1. roundPrize[currentRound] \in Nat
      BY DEF PotInv, PotTyped
    <2>2. awards' \in [Rounds -> [winner : Players \cup {NoOne}, prize : Nat]]
      BY <1>3, <2>1 DEF AwardRound, Payout, TicketsTyped
    <2>3. QED  BY <1>3, <2>2 DEF AwardRound, TicketsTyped, wiring
  <1>4. ASSUME NEW from \in Players \cup Clones, NEW t \in Tokens, NEW n \in Amounts, Donate(from, t, n)
        PROVE  TicketsTyped'
    BY <1>4 DEF Donate, TicketsTyped, wiring
  <1>5. ASSUME NEW c \in Accounts, NEW x \in Factories \cup Clones \cup Governors,
               SetFactory(c, x) \/ RegisterZap(c, x) \/ TransferOwnership(c, x)
        PROVE  TicketsTyped'
    BY <1>5 DEF SetFactory, RegisterZap, TransferOwnership, TicketsTyped, Accounts
  <1>6. ASSUME NEW c \in Accounts, AcceptOwnership(c) PROVE TicketsTyped'
    BY <1>6 DEF AcceptOwnership, TicketsTyped
  <1>7. CASE UNCHANGED vars
    BY <1>7 DEF vars, TicketsTyped
  <1>8. QED  BY <1>1, <1>2, <1>3, <1>4, <1>5, <1>6, <1>7 DEF Next

(* Nothing but an award turns the round, and nothing reaches a closed one.  *)
LEMMA ClosedStep ==
    ASSUME TicketsTyped, PotInv, [Next]_vars
    PROVE  \A r \in Rounds : r < currentRound =>
              tickets'[r] = tickets[r] /\ awards'[r] = awards[r] /\ roundPrize'[r] = roundPrize[r]
  <1> TAKE r \in Rounds
  <1> HAVE r < currentRound
  <1>1. r # currentRound
    BY DEF Rounds, PotInv, PotTyped
  <1>2. ASSUME NEW z \in Clones, NEW player \in Players, NEW t \in Tokens, NEW n \in Amounts,
               Contribute(z, player, t, n)
        PROVE  tickets'[r] = tickets[r] /\ awards'[r] = awards[r] /\ roundPrize'[r] = roundPrize[r]
    <2>1. tickets'[r] = tickets[r]
      BY <1>1, <1>2, ContributionTyped
    <2>2. QED  BY <1>1, <1>2, <2>1 DEF Contribute, NotifyContribution, PotInv, PotTyped
  <1>3. ASSUME NEW t \in Tokens, NEW n \in Amounts, NEW least \in Amounts,
               NEW spent \in Amounts, NEW got \in Amounts, BuyZaps(t, n, least, spent, got)
        PROVE  tickets'[r] = tickets[r] /\ awards'[r] = awards[r] /\ roundPrize'[r] = roundPrize[r]
    BY <1>1, <1>3 DEF BuyZaps, PotInv, PotTyped
  <1>4. ASSUME NEW c \in Accounts, NEW winner \in Players, AwardRound(c, winner)
        PROVE  tickets'[r] = tickets[r] /\ awards'[r] = awards[r] /\ roundPrize'[r] = roundPrize[r]
    BY <1>1, <1>4 DEF AwardRound, BooksAfter, PotInv, PotTyped, TicketsTyped
  <1>5. CASE UNCHANGED <<tickets, awards, roundPrize>>
    BY <1>5
  <1>6. QED
    BY <1>2, <1>3, <1>4, <1>5
       DEF Next, vars, SetFactory, RegisterZap, TransferOwnership, AcceptOwnership, Donate

(* Only an award closes a round, and it pays a player of that round.        *)
LEMMA WinnersStep ==
    ASSUME TicketsTyped, PotInv, WinnersPlayed, [Next]_vars
    PROVE  WinnersPlayed'
  <1>1. currentRound \in Nat /\ currentRound \in Rounds /\ Rounds \subseteq Nat
    BY PotSetting DEF Rounds, PotInv, PotTyped
  <1>2. \A r \in Rounds : r < currentRound => (awards[r].prize > 0 /\ tickets[r][awards[r].winner] > 0)'
    BY ClosedStep DEF WinnersPlayed
  <1>3. CASE \E c \in Accounts, winner \in Players : AwardRound(c, winner)
    <2>1. PICK c \in Accounts, winner \in Players : AwardRound(c, winner)
      BY <1>3
    <2>2. /\ currentRound' = currentRound + 1 /\ tickets' = tickets
          /\ awards'[currentRound] = [winner |-> winner, prize |-> roundPrize[currentRound]]
          /\ roundPrize[currentRound] > 0 /\ tickets[currentRound][winner] > 0
      BY <1>1, <2>1 DEF AwardRound, Eligible, Payout, TicketsTyped
    <2>3. /\ awards'[currentRound].prize > 0
          /\ tickets'[currentRound][awards'[currentRound].winner] > 0
      BY <2>2
    <2>4. ASSUME NEW r \in Rounds, r < currentRound'
          PROVE  awards'[r].prize > 0 /\ tickets'[r][awards'[r].winner] > 0
      <3>1. r < currentRound \/ r = currentRound
        BY <1>1, <2>2, <2>4
      <3>2. QED  BY <1>2, <2>3, <3>1
    <2>5. QED  BY <2>4 DEF WinnersPlayed
  <1>4. CASE currentRound' = currentRound
    BY <1>2, <1>4 DEF WinnersPlayed
  <1>5. QED
    BY <1>3, <1>4
       DEF Next, vars, SetFactory, RegisterZap, TransferOwnership, AcceptOwnership, Contribute, Donate, BuyZaps

PotHistory == TicketsTyped /\ PotInv /\ WinnersPlayed

(* Typing, books and past awards hold together in every state.              *)
LEMMA HistoryInvariant == Spec => []PotHistory
  <1>1. Init => PotHistory
    <2>1. Init => WinnersPlayed
      BY PotSetting DEF Init, WinnersPlayed, Rounds
    <2>2. QED  BY <2>1, TicketsInit, PotInit DEF PotHistory
  <1>2. PotHistory /\ [Next]_vars => PotHistory'
    BY TicketsStep, PotStep, WinnersStep DEF PotHistory
  <1>3. QED  BY <1>1, <1>2, PTL DEF Spec

(* Every field of the pot keeps its type: no balance is overdrawn by an     *)
(* award or a conversion, and no round or ticket counter leaves its range   *)
(* (notifyContribution, buyZaps, awardRound).                               *)
THEOREM PotTypeTheorem == Spec => []TypeOK
  <1>1. PotHistory => TypeOK
    BY DEF PotHistory, TicketsTyped, PotInv, PotTyped, TypeOK
  <1>2. QED  BY <1>1, HistoryInvariant, PTL

(* Every closed round paid a positive prize to an account that had          *)
(* contributed in that round, over any number of rounds and changes of      *)
(* governance (awardRound's WinnerHasNoTickets).                            *)
THEOREM WinnersPlayedTheorem == Spec => []WinnersPlayed
  <1>1. PotHistory => WinnersPlayed
    BY DEF PotHistory
  <1>2. QED  BY <1>1, HistoryInvariant, PTL

(* No transaction changes the tickets, the award or the books of a round    *)
(* that has been awarded (awardRound, notifyContribution).                  *)
THEOREM ClosedRoundsTheorem == Spec => ClosedRoundsAreFinal
  <1> DEFINE Final == \A r \in Rounds : r < currentRound =>
          tickets'[r] = tickets[r] /\ awards'[r] = awards[r] /\ roundPrize'[r] = roundPrize[r]
  <1>1. PotHistory /\ [Next]_vars => [Final]_vars
    BY ClosedStep DEF PotHistory
  <1>2. QED  BY <1>1, HistoryInvariant, PTL DEF Spec, ClosedRoundsAreFinal

----------------------------------------------------------------------------
(* The history of prizes: rounds not yet closed have awarded nothing.       *)
OpenUnawarded == \A r \in Rounds : r >= currentRound => awards[r].prize = 0
PrizeHistory == OpenUnawarded /\ PrizesAccountedFor
Prizes == [r \in Rounds |-> awards[r].prize]

(* The awards made are a finite list of amounts.                            *)
LEMMA PrizesTyped ==
    ASSUME TicketsTyped
    PROVE  IsFiniteSet(Rounds) /\ Prizes \in [Rounds -> Int] /\ Total(Prizes) \in Int
  <1>1. IsFiniteSet(Rounds)
    BY PotSetting, FS_Interval DEF Rounds
  <1>2. Prizes \in [Rounds -> Int]
    BY DEF Prizes, TicketsTyped
  <1> HIDE DEF Prizes
  <1>3. QED  BY <1>1, <1>2, TotalType

(* What enters the open prize enters the history, what an award pays moves  *)
(* from the open prize to the awards.                                       *)
LEMMA PrizeHistoryStep ==
    ASSUME TicketsTyped, PotInv, PrizeHistory, [Next]_vars
    PROVE  PrizeHistory'
  <1>0. /\ currentRound \in Rounds /\ roundPrize[currentRound] \in Nat /\ accrued \in Nat
        /\ roundPrize \in [Rounds -> Nat] /\ Rounds \subseteq Int
    BY DEF PotInv, PotTyped, TicketsTyped, Rounds
  <1>1. IsFiniteSet(Rounds) /\ Prizes \in [Rounds -> Int] /\ Total(Prizes) \in Int
    BY PrizesTyped
  <1>2. Total(Prizes) + roundPrize[currentRound] = accrued
    BY DEF PrizeHistory, PrizesAccountedFor, Prizes
  <1>3. ASSUME NEW n \in Nat, roundPrize' = [roundPrize EXCEPT ![currentRound] = @ + n],
               accrued' = accrued + n, UNCHANGED <<currentRound, awards>>
        PROVE  PrizeHistory'
    <2>1. Prizes' = Prizes /\ OpenUnawarded'
      BY <1>3 DEF Prizes, OpenUnawarded, PrizeHistory
    <2>2. roundPrize'[currentRound'] = roundPrize[currentRound] + n
      BY <1>0, <1>3
    <2>3. Total(Prizes') + roundPrize'[currentRound'] = accrued'
      BY <1>0, <1>1, <1>2, <1>3, <2>1, <2>2
    <2>4. QED  BY <2>1, <2>3 DEF PrizeHistory, PrizesAccountedFor, Prizes
  <1>4. ASSUME NEW z \in Clones, NEW player \in Players, NEW t \in Tokens, NEW n \in Amounts,
               Contribute(z, player, t, n)
        PROVE  PrizeHistory'
    <2>1. Credit(t, n) \in Nat
      BY PotSetting DEF Credit
    <2>2. /\ roundPrize' = [roundPrize EXCEPT ![currentRound] = @ + Credit(t, n)]
          /\ accrued' = accrued + Credit(t, n) /\ UNCHANGED <<currentRound, awards>>
      BY <1>4 DEF Contribute, NotifyContribution, PrizeCredit
    <2>3. QED  BY <1>3, <2>1, <2>2
  <1>5. ASSUME NEW t \in Tokens, NEW n \in Amounts, NEW least \in Amounts,
               NEW spent \in Amounts, NEW got \in Amounts, BuyZaps(t, n, least, spent, got)
        PROVE  PrizeHistory'
    <2>1. /\ got \in Nat /\ roundPrize' = [roundPrize EXCEPT ![currentRound] = @ + got]
          /\ accrued' = accrued + got /\ UNCHANGED <<currentRound, awards>>
      BY <1>5, PotSetting DEF BuyZaps, PurchaseCredit
    <2>2. QED  BY <1>3, <2>1
  <1>6. ASSUME NEW c \in Accounts, NEW winner \in Players, AwardRound(c, winner)
        PROVE  PrizeHistory'
    <2> DEFINE prize == roundPrize[currentRound]
    <2>1. /\ currentRound' = currentRound + 1 /\ accrued' = accrued
          /\ roundPrize' = [roundPrize EXCEPT ![currentRound] = 0]
          /\ awards' = [awards EXCEPT ![currentRound] = [winner |-> winner, prize |-> prize]]
          /\ currentRound + 1 \in Rounds
      BY <1>0, <1>6, PotSetting DEF AwardRound, BooksAfter, Payout, Rounds
    <2>2. Prizes' = [Prizes EXCEPT ![currentRound] = prize]
      BY <1>0, <2>1 DEF Prizes, TicketsTyped
    <2>3. Prizes[currentRound] = 0
      BY <1>0 DEF Prizes, PrizeHistory, OpenUnawarded
    <2>4. Total(Prizes') = Total(Prizes) + prize
      <3> HIDE DEF Prizes, prize
      <3>1. prize \in Int
        BY <1>0 DEF prize
      <3>2. Total([Prizes EXCEPT ![currentRound] = prize]) = Total(Prizes) - Prizes[currentRound] + prize
        BY <1>0, <1>1, <3>1, TotalExcept
      <3>3. QED  BY <1>1, <2>2, <2>3, <3>1, <3>2
    <2>5. roundPrize'[currentRound'] = 0
      BY <1>0, <2>1 DEF PotInv, PrizeBacked
    <2>6. OpenUnawarded'
      BY <1>0, <2>1 DEF OpenUnawarded, PrizeHistory, TicketsTyped
    <2>7. Total(Prizes') + roundPrize'[currentRound'] = accrued'
      BY <1>0, <1>1, <1>2, <2>1, <2>4, <2>5
    <2>8. QED  BY <2>6, <2>7 DEF PrizeHistory, PrizesAccountedFor, Prizes
  <1>7. CASE UNCHANGED <<currentRound, roundPrize, accrued, awards>>
    BY <1>7 DEF PrizeHistory, OpenUnawarded, PrizesAccountedFor
  <1>8. QED
    BY <1>4, <1>5, <1>6, <1>7
       DEF Next, vars, SetFactory, RegisterZap, TransferOwnership, AcceptOwnership, Donate

(* What all awards paid and the open prize together are exactly what        *)
(* contributions and conversions brought in, over any number of rounds:     *)
(* nothing is paid twice, lost at a round's turn or minted by a donation.   *)
THEOREM PrizesAccountedTheorem == Spec => []PrizesAccountedFor
  <1>1. Init => PrizeHistory
    <2>1. SUFFICES ASSUME Init PROVE PrizeHistory
      OBVIOUS
    <2>2. /\ Prizes = [r \in Rounds |-> 0] /\ OpenUnawarded
          /\ roundPrize[currentRound] = 0 /\ accrued = 0
      BY <2>1, PotSetting DEF Init, Prizes, NoAward, OpenUnawarded, Rounds
    <2>3. IsFiniteSet(Rounds)
      BY PotSetting, FS_Interval DEF Rounds
    <2>4. Total(Prizes) = 0
      BY <2>2, <2>3, TotalZero
    <2>5. QED  BY <2>2, <2>4 DEF PrizeHistory, PrizesAccountedFor, Prizes
  <1>2. PotHistory /\ PrizeHistory /\ [Next]_vars => PrizeHistory'
    BY PrizeHistoryStep DEF PotHistory
  <1>3. PrizeHistory => PrizesAccountedFor
    BY DEF PrizeHistory
  <1>4. QED  BY <1>1, <1>2, <1>3, HistoryInvariant, PTL DEF Spec

----------------------------------------------------------------------------
(* The overdraw table. *)

(* A strict order of the first n numbers can be lined up.                   *)
LEMMA LineUp ==
    ASSUME NEW n \in Nat, NEW R,
           \A i \in 1..n : <<i, i>> \notin R,
           \A i, j \in 1..n : i = j \/ <<i, j>> \in R \/ <<j, i>> \in R,
           \A i, j, k \in 1..n : <<i, j>> \in R /\ <<j, k>> \in R => <<i, k>> \in R
    PROVE  \E s \in [1..n -> 1..n] :
              /\ \A i, j \in 1..n : i # j => s[i] # s[j]
              /\ \A k \in 1..n : \E i \in 1..n : s[i] = k
              /\ \A i, j \in 1..n : i < j => <<s[i], s[j]>> \in R
<1> DEFINE N == 1..n
           Less(i) == {j \in N : <<j, i>> \in R}
           rank == [i \in N |-> Cardinality(Less(i)) + 1]
<1>1. IsFiniteSet(N) /\ Cardinality(N) = n
  BY FS_Interval
<1>2. ASSUME NEW i \in N PROVE IsFiniteSet(Less(i)) /\ Cardinality(Less(i)) \in 0..(n - 1)
  <2>1. Less(i) \in SUBSET (N \ {i})
    OBVIOUS
  <2>2. IsFiniteSet(N \ {i}) /\ Cardinality(N \ {i}) = n - 1
    BY <1>1, FS_RemoveElement
  <2> HIDE DEF Less, N
  <2>3. IsFiniteSet(Less(i)) /\ Cardinality(Less(i)) <= n - 1
    BY <2>1, <2>2, FS_Subset
  <2>4. Cardinality(Less(i)) \in Nat
    BY <2>3, FS_CardinalityType
  <2>5. QED
    BY <2>3, <2>4
<1>3. rank \in [N -> N]
  BY <1>2
<1>4. ASSUME NEW i \in N, NEW j \in N, <<i, j>> \in R PROVE rank[i] < rank[j]
  <2>1. Less(i) \in SUBSET Less(j) /\ Less(i) # Less(j)
    BY <1>4
  <2> HIDE DEF Less
  <2>2. Cardinality(Less(i)) <= Cardinality(Less(j)) /\ Cardinality(Less(i)) # Cardinality(Less(j))
    BY <1>2, <2>1, FS_Subset
  <2>3. QED
    BY <1>2, <2>2
<1> HIDE DEF rank
<1>5. \A i, j \in N : i # j => rank[i] # rank[j]
  <2>1. \A i \in N : rank[i] \in Int
    BY <1>3
  <2>2. \A i, j \in N : <<i, j>> \in R => rank[i] < rank[j]
    BY <1>4
  <2>3. \A i, j \in N : i = j \/ rank[i] < rank[j] \/ rank[j] < rank[i]
    BY <2>2
  <2>4. QED
    BY <2>1, <2>3
<1>6. rank \in Injection(N, N)
  BY <1>3, <1>5 DEF Injection, IsInjective
<1>7. \A k \in N : \E i \in N : rank[i] = k
  BY <1>1, <1>6, FS_Injection DEF Surjection
<1> DEFINE s == [k \in N |-> CHOOSE i \in N : rank[i] = k]
<1>8. \A k \in N : s[k] \in N /\ rank[s[k]] = k
  BY <1>7
<1>9. \A k \in N : s[rank[k]] = k
  BY <1>3, <1>5, <1>8
<1> HIDE DEF s, N
<1>10. \A i, j \in N : i < j => <<s[i], s[j]>> \in R
  <2>1. SUFFICES ASSUME NEW i \in N, NEW j \in N, i < j PROVE <<s[i], s[j]>> \in R
    OBVIOUS
  <2>2. i \in Nat /\ j \in Nat /\ s[i] \in N /\ s[j] \in N /\ rank[s[i]] = i /\ rank[s[j]] = j
    BY <1>8 DEF N
  <2>3. ~ (rank[s[j]] < rank[s[i]]) /\ s[i] # s[j]
    BY <2>1, <2>2
  <2>4. QED
    BY <1>4, <2>2, <2>3 DEF N
<1>11. s \in [N -> N] /\ \A i, j \in N : i # j => s[i] # s[j]
  <2>1. s = [k \in N |-> s[k]]
    BY DEF s
  <2>2. QED
    BY <1>8, <2>1
<1>12. QED
  BY <1>3, <1>9, <1>10, <1>11 DEF N

(* The recursion of the walk along the queue.                               *)
Top(T) == CHOOSE x \in T : \A y \in T : x >= y
AtRest(c) == [remaining |-> c, cut |-> FALSE, served |-> [p \in Table |-> 0]]
IsWalk(s, c, q, D) ==
    s = [T \in D |-> IF T = {} THEN AtRest(c) ELSE Overdraw!Serve(c, s[T \ {Top(T)}], q[Top(T)])]
Walks(c, q) == CHOOSE s : IsWalk(s, c, q, SUBSET DOMAIN q)

(* The walk is the fold's recursion along the queue, from its end.          *)
LEMMA WalkIsFold ==
    ASSUME NEW c, ~ (Len(round.revealed) < MIN_REVEALS \/ c = 0)
    PROVE  Overdraw!Discharge(c) = Walks(c, Overdraw!Queue)[DOMAIN Overdraw!Queue]
  BY DEF Overdraw!Discharge, Overdraw!FoldLeft, Overdraw!MapThenFoldSet, Overdraw!Max,
         Walks, IsWalk, AtRest, Top

(* The largest of the first k numbers is k.                                 *)
LEMMA TopIs ==
    ASSUME NEW k \in Nat, NEW T \in SUBSET (1..k), k \in T
    PROVE  Top(T) = k
<1>1. k \in T /\ \A y \in T : k >= y /\ y \in Int
  OBVIOUS
<1>2. Top(T) \in T /\ \A y \in T : Top(T) >= y
  BY <1>1 DEF Top
<1>3. Top(T) \in Int /\ Top(T) >= k /\ k >= Top(T)
  BY <1>1, <1>2
<1>4. QED
  BY <1>3

(* The recursion defines the walk, seat by seat.                            *)
LEMMA WalkExists ==
    ASSUME NEW c, NEW n \in Nat, NEW q, DOMAIN q = 1..n
    PROVE  IsWalk(Walks(c, q), c, q, SUBSET (1..n))
<1> DEFINE Level(k) == SUBSET (1..k)
           Failing == {k \in Nat : ~ \E s : IsWalk(s, c, q, Level(k))}
<1>1. Failing = {}
  <2>1. SUFFICES ASSUME Failing # {} PROVE FALSE
    OBVIOUS
  <2>2. PICK k \in Failing : \A m \in Failing : k <= m
    BY <2>1, SmallestNumber
  <2>3. CASE k = 0
    <3>1. \A T \in Level(0) : T = {}
      OBVIOUS
    <3>2. IsWalk([T \in Level(0) |-> AtRest(c)], c, q, Level(0))
      BY <3>1 DEF IsWalk
    <3>3. QED
      BY <3>2, <2>2, <2>3
  <2>4. CASE k # 0
    <3>1. k \in Nat /\ k - 1 \in Nat /\ k - 1 \notin Failing
      <4>1. k \in Nat /\ k - 1 \in Nat /\ ~ (k <= k - 1)
        BY <2>2, <2>4
      <4> HIDE DEF Failing
      <4>2. QED
        BY <4>1, <2>2
    <3>2. PICK s : IsWalk(s, c, q, Level(k - 1))
      BY <3>1
    <3> DEFINE t == [T \in Level(k) |-> IF k \in T THEN Overdraw!Serve(c, s[T \ {k}], q[k]) ELSE s[T]]
    <3>3. \A T \in Level(k) : k \notin T => T \in Level(k - 1)
      BY <3>1
    <3>4. \A T \in Level(k) : T \ {k} \in Level(k - 1)
      BY <3>1
    <3>5. \A T \in Level(k - 1) : T \in Level(k) /\ k \notin T
      BY <3>1
    <3>6. \A T \in Level(k - 1) : t[T] = s[T]
      BY <3>5
    <3>7. \A T \in Level(k) : k \in T => Top(T) = k
      BY <3>1, TopIs
    <3>8. \A T \in Level(k - 1) : T \ {Top(T)} \in Level(k - 1)
      OBVIOUS
    <3>9. \A T \in Level(k - 1) :
             s[T] = IF T = {} THEN AtRest(c) ELSE Overdraw!Serve(c, s[T \ {Top(T)}], q[Top(T)])
      BY <3>2 DEF IsWalk
    <3> HIDE DEF Level
    <3>10. ASSUME NEW T \in Level(k)
           PROVE t[T] = IF T = {} THEN AtRest(c) ELSE Overdraw!Serve(c, t[T \ {Top(T)}], q[Top(T)])
      <4>1. CASE k \in T
        <5>1. t[T] = Overdraw!Serve(c, s[T \ {k}], q[k]) /\ T # {}
          BY <4>1
        <5>2. t[T \ {k}] = s[T \ {k}]
          BY <3>4, <3>6
        <5> HIDE DEF t
        <5>3. QED
          BY <4>1, <5>1, <5>2, <3>7
      <4>2. CASE k \notin T
        <5>1. T \in Level(k - 1)
          BY <4>2, <3>3
        <5>2. t[T] = s[T] /\ t[T \ {Top(T)}] = s[T \ {Top(T)}]
          BY <5>1, <3>6, <3>8
        <5> HIDE DEF t
        <5>3. QED
          BY <5>1, <5>2, <3>9
      <4>3. QED
        BY <4>1, <4>2
    <3>11. IsWalk(t, c, q, Level(k))
      BY <3>10 DEF IsWalk
    <3>12. QED
      BY <3>11, <2>2
  <2>5. QED
    BY <2>3, <2>4
<1>2. \E s : IsWalk(s, c, q, SUBSET (1..n))
  BY <1>1
<1>3. QED
  BY <1>2 DEF Walks

Stage(c, q, k) == Walks(c, q)[1..k]

(* The walk, one seat after the other.                                      *)
LEMMA WalkStages ==
    ASSUME NEW c, NEW n \in Nat, NEW q, DOMAIN q = 1..n
    PROVE  /\ Stage(c, q, 0) = AtRest(c)
           /\ \A k \in 1..n : Stage(c, q, k) = Overdraw!Serve(c, Stage(c, q, k - 1), q[k])
<1>1. \A T \in SUBSET (1..n) :
        Walks(c, q)[T] = IF T = {} THEN AtRest(c)
                         ELSE Overdraw!Serve(c, Walks(c, q)[T \ {Top(T)}], q[Top(T)])
  <2> DEFINE s == Walks(c, q)
  <2>1. s = [T \in SUBSET (1..n) |-> IF T = {} THEN AtRest(c)
                                     ELSE Overdraw!Serve(c, s[T \ {Top(T)}], q[Top(T)])]
    <3>1. IsWalk(s, c, q, SUBSET (1..n))
      BY WalkExists
    <3>2. QED
      BY <3>1 DEF IsWalk
  <2> HIDE DEF s
  <2>2. \A T \in SUBSET (1..n) :
          s[T] = IF T = {} THEN AtRest(c) ELSE Overdraw!Serve(c, s[T \ {Top(T)}], q[Top(T)])
    BY <2>1
  <2>3. QED
    BY <2>2 DEF s
<1>2. 1..0 = {}
  OBVIOUS
<1>3. ASSUME NEW k \in 1..n PROVE Stage(c, q, k) = Overdraw!Serve(c, Stage(c, q, k - 1), q[k])
  <2>1. 1..k \in SUBSET (1..n) /\ 1..k # {} /\ k \in 1..k /\ (1..k) \ {k} = 1..(k - 1)
    OBVIOUS
  <2>2. Top(1..k) = k
    BY <2>1, TopIs
  <2>3. QED
    BY <1>1, <2>1, <2>2 DEF Stage
<1>4. QED
  BY <1>1, <1>2, <1>3 DEF Stage

(* The table counts and sums as everybody does.                             *)
LEMMA TableCounts ==
    ASSUME NEW S
    PROVE  /\ Overdraw!Cardinality(S) = Cardinality(S) /\ Overdraw!IsFiniteSet(S) = IsFiniteSet(S)
           /\ Overdraw!Total(S) = Total(S)
<1>1. Overdraw!IsFiniteSet(S) = IsFiniteSet(S)
  BY DEF Overdraw!IsFiniteSet, IsFiniteSet
<1>2. Overdraw!Cardinality(S) = Cardinality(S)
  BY <1>1 DEF Overdraw!Cardinality, Cardinality
<1>3. Overdraw!Total(S) = Total(S)
  BY DEF Overdraw!Total, Overdraw!FoldFunction, Overdraw!FoldFunctionOnSet, Overdraw!MapThenFoldSet,
         Total, FoldFunction, FoldFunctionOnSet, MapThenFoldSet
<1>4. QED
  BY <1>1, <1>2, <1>3

(* What the first k of the queue ask for together.                          *)
Claims(c, q, k) == Total([p \in {q[i] : i \in 1..k} |-> Overdraw!Want(c, p)])
Line(q, n) == q \in [1..n -> Table] /\ \A i, j \in 1..n : q[i] = q[j] => i = j
Asking(c, q, n) == \A k \in 1..n : Overdraw!Want(c, q[k]) \in Nat

(* Each seat adds what it asks for to the claims before it.                 *)
LEMMA ClaimsGrow ==
    ASSUME NEW c, NEW n \in Nat, NEW q, Line(q, n), Asking(c, q, n), IsFiniteSet(Table)
    PROVE  /\ Claims(c, q, 0) = 0
           /\ \A k \in 0..n : Claims(c, q, k) \in Nat
           /\ \A k \in 1..n : Claims(c, q, k) = Claims(c, q, k - 1) + Overdraw!Want(c, q[k])
<1> DEFINE First(k) == {q[i] : i \in 1..k}
           asked(k) == [p \in First(k) |-> Overdraw!Want(c, p)]
<1>1. \A k \in 0..n : First(k) \in SUBSET Table /\ IsFiniteSet(First(k)) /\ asked(k) \in [First(k) -> Nat]
  <2>1. SUFFICES ASSUME NEW k \in 0..n
                 PROVE First(k) \in SUBSET Table /\ asked(k) \in [First(k) -> Nat]
    BY FS_Subset
  <2>2. \A i \in 1..k : i \in 1..n
    OBVIOUS
  <2>3. QED
    BY <2>2 DEF Line, Asking
<1>2. \A k \in 0..n : Claims(c, q, k) = Total(asked(k))
  BY DEF Claims
<1>3. First(0) = {}
  OBVIOUS
<1>4. Total(asked(0)) = 0
  <2>1. asked(0) = [p \in {} |-> 0]
    BY <1>3
  <2>2. QED
    BY <2>1, TotalZero, FS_EmptySet
<1>5. ASSUME NEW k \in 1..n PROVE Total(asked(k)) = Total(asked(k - 1)) + Overdraw!Want(c, q[k])
  <2>1. q[k] \notin First(k - 1) /\ First(k) = First(k - 1) \cup {q[k]}
    <3>1. \A i \in 1..(k - 1) : i \in 1..n /\ i # k
      OBVIOUS
    <3>2. \A i \in 1..k : i \in 1..(k - 1) \/ i = k
      OBVIOUS
    <3>3. k \in 1..k /\ \A i \in 1..(k - 1) : i \in 1..k
      OBVIOUS
    <3>4. QED
      BY <3>1, <3>2, <3>3 DEF Line
  <2>2. k \in 0..n /\ k - 1 \in 0..n
    OBVIOUS
  <2>3. asked(k)[q[k]] = Overdraw!Want(c, q[k]) /\ \A p \in First(k - 1) : asked(k - 1)[p] = asked(k)[p]
    BY <2>1
  <2> HIDE DEF asked, First
  <2>4. asked(k) \in [First(k) -> Int] /\ asked(k - 1) \in [First(k - 1) -> Int]
    <3>1. asked(k) \in [First(k) -> Nat] /\ asked(k - 1) \in [First(k - 1) -> Nat]
      BY <1>1, <2>2
    <3>2. QED
      BY <3>1
  <2>5. QED
    BY <1>1, <2>1, <2>2, <2>3, <2>4, TotalWith
<1>6. \A k \in 0..n : Total(asked(k)) \in Nat
  <2> HIDE DEF asked, First
  <2>1. QED
    BY <1>1, TotalNatural
<1>7. QED
  <2> HIDE DEF asked
  <2>1. \A k \in 1..n : k \in 0..n /\ k - 1 \in 0..n
    OBVIOUS
  <2>2. QED
    BY <1>2, <1>4, <1>5, <1>6, <2>1

(* After k seats: what was served and what remains are the capacity; the    *)
(* walk was cut when the claims outgrew it; who was served asked in time.   *)
Walking == [remaining : Nat, cut : BOOLEAN, served : [Table -> Nat]]
StageOK(w, c, q, k) ==
    /\ w \in Walking
    /\ Total(w.served) + w.remaining = c
    /\ ~ w.cut => w.remaining = c - Claims(c, q, k)
    /\ w.cut <=> Claims(c, q, k) > c
    /\ \A j \in 1..k : w.served[q[j]] = IF Claims(c, q, j) <= c THEN Overdraw!Want(c, q[j]) ELSE 0
    /\ \A p \in Table : (\A j \in 1..k : q[j] # p) => w.served[p] = 0

(* Serving one more seat keeps to the rule.                                 *)
LEMMA ServeOK ==
    ASSUME NEW c \in Nat, NEW n \in Nat, NEW q, Line(q, n), Asking(c, q, n), IsFiniteSet(Table),
           NEW k \in 1..n, NEW w, StageOK(w, c, q, k - 1)
    PROVE  StageOK(Overdraw!Serve(c, w, q[k]), c, q, k)
<1> DEFINE x == Overdraw!Want(c, q[k])
           v == Overdraw!Serve(c, w, q[k])
           before == Claims(c, q, k - 1)
           after == Claims(c, q, k)
<1>1. /\ x \in Nat /\ before \in Nat /\ after = before + x /\ k \in Nat
      /\ q[k] \in Table
  <2>1. k \in Nat /\ k - 1 \in 0..n
    OBVIOUS
  <2>2. x \in Nat /\ q[k] \in Table
    BY DEF Asking, Line
  <2>3. before \in Nat /\ after = before + x
    BY <2>1, ClaimsGrow
  <2>4. QED
    BY <2>1, <2>2, <2>3
<1>2. /\ w = [remaining |-> w.remaining, cut |-> w.cut, served |-> w.served]
      /\ w.remaining \in Nat /\ w.cut \in BOOLEAN /\ w.served \in [Table -> Nat]
  BY DEF StageOK, Walking
<1>3. \A j \in 1..(k - 1) : j \in 1..k /\ j \in 1..n /\ q[j] # q[k]
  BY DEF Line
<1>4. \A j \in 1..k : j \in 1..(k - 1) \/ j = k
  OBVIOUS
<1>5. w.served[q[k]] = 0
  BY <1>1, <1>3 DEF StageOK
<1>6. /\ Total(w.served) + w.remaining = c /\ (~ w.cut => w.remaining = c - before)
      /\ (w.cut <=> before > c)
      /\ \A j \in 1..(k - 1) : w.served[q[j]] = IF Claims(c, q, j) <= c THEN Overdraw!Want(c, q[j]) ELSE 0
      /\ \A p \in Table : (\A j \in 1..(k - 1) : q[j] # p) => w.served[p] = 0
  BY DEF StageOK
<1>7. CASE w.cut \/ x > w.remaining
  <2>1. v = [remaining |-> w.remaining, cut |-> TRUE, served |-> w.served]
    BY <1>2, <1>7 DEF Overdraw!Serve
  <2>2. v \in Walking /\ v.cut /\ v.remaining = w.remaining /\ v.served = w.served
    BY <1>2, <2>1 DEF Walking
  <2> HIDE DEF v, x, before, after
  <2>3. after > c
    BY <1>1, <1>2, <1>6, <1>7
  <2>4. \A j \in 1..k : v.served[q[j]] = IF Claims(c, q, j) <= c THEN Overdraw!Want(c, q[j]) ELSE 0
    <3>1. ~ (after <= c)
      BY <1>1, <2>3
    <3>2. QED
      BY <1>4, <1>5, <1>6, <2>2, <3>1 DEF after
  <2>5. QED
    BY <1>3, <1>6, <2>2, <2>3, <2>4 DEF StageOK, v, after
<1>8. CASE ~ (w.cut \/ x > w.remaining)
  <2>1. v = [remaining |-> w.remaining - x, cut |-> FALSE, served |-> [w.served EXCEPT ![q[k]] = x]]
    BY <1>2, <1>8 DEF Overdraw!Serve
  <2>2. /\ ~ v.cut /\ v.cut = FALSE /\ v.remaining = w.remaining - x /\ v.served = [w.served EXCEPT ![q[k]] = x]
    BY <2>1
  <2> HIDE DEF v, x, before, after
  <2>3. w.remaining - x \in Nat /\ after <= c /\ w.remaining - x = c - after
    BY <1>1, <1>2, <1>6, <1>8
  <2>4. v \in Walking
    BY <1>1, <1>2, <2>1, <2>3 DEF Walking
  <2>5. Total(v.served) = Total(w.served) - w.served[q[k]] + x
    <3>1. w.served \in [Table -> Int]
      BY <1>2
    <3>2. QED
      BY <1>1, <2>2, <3>1, TotalExcept
  <2>6. Total(v.served) + v.remaining = c
    <3>1. Total(w.served) \in Int
      BY <1>2, TotalNatural
    <3>2. QED
      BY <1>1, <1>2, <1>5, <1>6, <2>2, <2>5, <3>1
  <2>7. v.served[q[k]] = x /\ \A p \in Table : p # q[k] => v.served[p] = w.served[p]
    BY <1>1, <1>2, <2>2
  <2>8. \A j \in 1..k : v.served[q[j]] = IF Claims(c, q, j) <= c THEN Overdraw!Want(c, q[j]) ELSE 0
    <3>1. v.served[q[k]] = IF Claims(c, q, k) <= c THEN Overdraw!Want(c, q[k]) ELSE 0
      BY <2>3, <2>7 DEF after, x
    <3>2. \A j \in 1..(k - 1) : v.served[q[j]] = w.served[q[j]]
      BY <1>3, <2>7 DEF Line
    <3>3. QED
      BY <1>4, <1>6, <3>1, <3>2
  <2>9. \A p \in Table : (\A j \in 1..k : q[j] # p) => v.served[p] = 0
    <3>1. k \in 1..k
      OBVIOUS
    <3>2. QED
      BY <1>3, <1>6, <2>7, <3>1
  <2>10. ~ (after > c)
    BY <1>1, <2>3
  <2>11. QED
    BY <2>2, <2>3, <2>4, <2>6, <2>8, <2>9, <2>10 DEF StageOK, v, after
<1>9. QED
  BY <1>7, <1>8

(* The rule holds after every seat.                                         *)
LEMMA StagesOK ==
    ASSUME NEW c \in Nat, NEW n \in Nat, NEW q, Line(q, n), Asking(c, q, n), IsFiniteSet(Table)
    PROVE  \A k \in 0..n : StageOK(Stage(c, q, k), c, q, k)
<1> DEFINE Failing == {k \in 0..n : ~ StageOK(Stage(c, q, k), c, q, k)}
<1>1. SUFFICES ASSUME Failing # {} PROVE FALSE
  OBVIOUS
<1>2. PICK k \in Failing : \A m \in Failing : k <= m
  <2>1. Failing \in SUBSET Nat
    OBVIOUS
  <2> HIDE DEF Failing
  <2>2. QED
    BY <1>1, <2>1, SmallestNumber
<1>3. /\ k \in 0..n /\ ~ StageOK(Stage(c, q, k), c, q, k)
      /\ \A m \in 0..n : m < k => StageOK(Stage(c, q, m), c, q, m)
  BY <1>2
<1>4. DOMAIN q = 1..n
  BY DEF Line
<1>5. CASE k = 0
  <2>1. Stage(c, q, 0) = AtRest(c)
    BY <1>4, WalkStages
  <2>2. Claims(c, q, 0) = 0
    BY ClaimsGrow
  <2>3. Total(AtRest(c).served) = 0
    BY TotalZero DEF AtRest
  <2>4. StageOK(AtRest(c), c, q, 0)
    BY <2>2, <2>3 DEF StageOK, Walking, AtRest
  <2>5. QED
    BY <1>3, <1>5, <2>1, <2>4
<1>6. CASE k # 0
  <2>1. k \in 1..n /\ k - 1 \in 0..n /\ k - 1 < k
    BY <1>3, <1>6
  <2>2. StageOK(Stage(c, q, k - 1), c, q, k - 1)
    BY <1>3, <2>1
  <2>3. Stage(c, q, k) = Overdraw!Serve(c, Stage(c, q, k - 1), q[k])
    BY <1>4, <2>1, WalkStages
  <2>4. QED
    BY <1>3, <2>1, <2>2, <2>3, ServeOK
<1>7. QED
  BY <1>5, <1>6

(* What the setting says of the constants.                                  *)
LEMMA TableNumbers ==
    /\ IsFiniteSet(Table) /\ entryFee \in Nat \ {0} /\ BPS \in Nat \ {0}
    /\ rakeBps \in Nat \ {0} /\ keeperBps \in Nat /\ rakeBps + keeperBps <= BPS
    /\ MIN_REVEALS \in Nat /\ MaxRounds \in Nat
    /\ Draws \subseteq 1..BPS /\ none \notin Draws
    /\ \A r \in 1..MaxRounds : /\ Tiebreak[r] \in [Table -> Nat]
                               /\ \A p, q \in Table : Tiebreak[r][p] = Tiebreak[r][q] => p = q
<1>1. Overdraw!OverdrawSetting
  BY Settings
<1>2. Tiebreak \in [1..MaxRounds -> Overdraw!Injection(Table, Nat)]
  BY <1>1 DEF Overdraw!OverdrawSetting
<1>3. \A r \in 1..MaxRounds : Tiebreak[r] \in Overdraw!Injection(Table, Nat)
  BY <1>2
<1>4. \A f \in Overdraw!Injection(Table, Nat) :
         f \in [Table -> Nat] /\ \A p, q \in Table : f[p] = f[q] => p = q
  BY DEF Overdraw!Injection, Overdraw!IsInjective
<1>5. IsFiniteSet(Table)
  BY <1>1, TableCounts DEF Overdraw!OverdrawSetting
<1>6. QED
  BY <1>1, <1>3, <1>4, <1>5 DEF Overdraw!OverdrawSetting

(* The open round: its seats hold draws, its reveals are of distinct seats. *)
RoundOK ==
    /\ round = [id |-> round.id, commitEnd |-> round.commitEnd, revealEnd |-> round.revealEnd,
                sealed |-> round.sealed, revealed |-> round.revealed]
    /\ round.id \in Nat \ {0}
    /\ Overdraw!Seated \subseteq Table
    /\ \A p \in Overdraw!Seated : round.sealed[p] \in Draws \cup {none}
    /\ round.revealed \in Seq(Table)
    /\ \A i \in 1..Len(round.revealed) :
          /\ round.revealed[i] \in Overdraw!Seated /\ round.sealed[round.revealed[i]] \in Draws
          /\ \A j \in 1..Len(round.revealed) : round.revealed[i] = round.revealed[j] => i = j

(* The queue is everybody who revealed, each once, the modest first.        *)
Before(p, q) ==
    \/ round.sealed[p] < round.sealed[q]
    \/ round.sealed[p] = round.sealed[q] /\ Tiebreak[round.id][p] < Tiebreak[round.id][q]

(* The packed keys are a strict order of the reveals, so they line up.      *)
LEMMA QueueInOrder ==
    ASSUME RoundOK, round.id < MaxRounds, NEW n, n = Len(round.revealed)
    PROVE  /\ n \in Nat /\ Line(Overdraw!Queue, n)
           /\ Overdraw!Range(round.revealed) = {Overdraw!Queue[k] : k \in 1..n}
           /\ \A k \in 1..n : round.sealed[Overdraw!Queue[k]] \in Draws
           /\ \A i, j \in 1..n : i < j => Before(Overdraw!Queue[i], Overdraw!Queue[j])
<1> DEFINE N == 1..n
           R == {x \in N \X N : Overdraw!Ahead(x[1], x[2])}
           who(i) == round.revealed[i]
           draw(i) == round.sealed[who(i)]
           tie(i) == Tiebreak[round.id][who(i)]
<1>1. n \in Nat /\ DOMAIN round.revealed = N /\ round.id \in 1..MaxRounds
  BY TableNumbers DEF RoundOK
<1>2. \A i \in N : who(i) \in Table /\ draw(i) \in Int /\ tie(i) \in Int
  <2>1. SUFFICES ASSUME NEW i \in N PROVE who(i) \in Table /\ draw(i) \in Int /\ tie(i) \in Int
    OBVIOUS
  <2>2. who(i) \in Table /\ draw(i) \in Draws
    BY DEF RoundOK
  <2>3. Tiebreak[round.id] \in [Table -> Nat]
    BY <1>1, TableNumbers
  <2>4. \A d \in Draws : d \in Int
    BY TableNumbers
  <2> HIDE DEF who
  <2>5. QED
    BY <2>2, <2>3, <2>4
<1>3. \A i, j \in N : i # j => tie(i) # tie(j)
  <2>1. \A i, j \in N : who(i) = who(j) => i = j
    BY DEF RoundOK
  <2> HIDE DEF who
  <2>2. QED
    BY <1>1, <1>2, <2>1, TableNumbers
<1>4. \A i, j \in N : <<i, j>> \in R <=> (draw(i) < draw(j) \/ (draw(i) = draw(j) /\ tie(i) < tie(j)))
  <2>1. SUFFICES ASSUME NEW i \in N, NEW j \in N
                 PROVE <<i, j>> \in R <=> (draw(i) < draw(j) \/ (draw(i) = draw(j) /\ tie(i) < tie(j)))
    OBVIOUS
  <2>2. <<i, j>> \in R <=> Overdraw!Ahead(i, j)
    OBVIOUS
  <2>3. tie(i) = tie(j) => ~ (i < j)
    BY <1>3
  <2>4. QED
    BY <2>2, <2>3 DEF Overdraw!Ahead
<1> HIDE DEF R, draw, tie, who
<1>5. PICK s \in [N -> N] : /\ \A i, j \in N : i # j => s[i] # s[j]
                            /\ \A k \in N : \E i \in N : s[i] = k
                            /\ \A i, j \in N : i < j => <<s[i], s[j]>> \in R
  <2>1. \A i \in N : <<i, i>> \notin R
    BY <1>2, <1>4
  <2>2. ASSUME NEW i \in N, NEW j \in N PROVE i = j \/ <<i, j>> \in R \/ <<j, i>> \in R
    <3>1. draw(i) \in Int /\ draw(j) \in Int /\ tie(i) \in Int /\ tie(j) \in Int
      BY <1>2
    <3>2. <<i, j>> \in R <=> (draw(i) < draw(j) \/ (draw(i) = draw(j) /\ tie(i) < tie(j)))
      BY <1>4
    <3>3. <<j, i>> \in R <=> (draw(j) < draw(i) \/ (draw(j) = draw(i) /\ tie(j) < tie(i)))
      BY <1>4
    <3>4. i = j \/ tie(i) # tie(j)
      BY <1>3
    <3>5. QED
      BY <3>1, <3>2, <3>3, <3>4
  <2>3. ASSUME NEW i \in N, NEW j \in N, NEW k \in N, <<i, j>> \in R, <<j, k>> \in R
        PROVE  <<i, k>> \in R
    <3>1. /\ draw(i) \in Int /\ draw(j) \in Int /\ draw(k) \in Int
          /\ tie(i) \in Int /\ tie(j) \in Int /\ tie(k) \in Int
      BY <1>2
    <3>2. draw(i) < draw(j) \/ (draw(i) = draw(j) /\ tie(i) < tie(j))
      BY <1>4, <2>3
    <3>3. draw(j) < draw(k) \/ (draw(j) = draw(k) /\ tie(j) < tie(k))
      BY <1>4, <2>3
    <3>4. draw(i) < draw(k) \/ (draw(i) = draw(k) /\ tie(i) < tie(k))
      BY <3>1, <3>2, <3>3
    <3>5. QED
      BY <1>4, <3>4
  <2>4. \A i, j \in N : i = j \/ <<i, j>> \in R \/ <<j, i>> \in R
    BY <2>2
  <2>5. QED
    BY <1>1, <2>1, <2>3, <2>4, LineUp
<1> DEFINE Sorted(t) == \A i, j \in DOMAIN t : i < j => Overdraw!Ahead(t[i], t[j])
           keys == CHOOSE t \in Overdraw!SetToSeqs(DOMAIN round.revealed) : Sorted(t)
<1>6. \A i, j \in N : <<i, j>> \in R <=> Overdraw!Ahead(i, j)
  BY DEF R
<1>7. \A t : t \in Overdraw!SetToSeqs(DOMAIN round.revealed)
                <=> t \in [N -> N] /\ \A i, j \in N : i # j => t[i] # t[j]
  <2>1. Cardinality(N) = n
    BY <1>1, FS_Interval
  <2>2. Overdraw!SetToSeqs(N) = {t \in [1..Cardinality(N) -> N] :
                                    \A i, j \in 1..Cardinality(N) : i # j => t[i] # t[j]}
    BY TableCounts DEF Overdraw!SetToSeqs
  <2> HIDE DEF N
  <2>3. Overdraw!SetToSeqs(N) = {t \in [N -> N] : \A i, j \in N : i # j => t[i] # t[j]}
    BY <2>1, <2>2 DEF N
  <2>4. QED
    BY <1>1, <2>3
<1>8. s \in Overdraw!SetToSeqs(DOMAIN round.revealed) /\ Sorted(s)
  BY <1>5, <1>6, <1>7
<1>9. keys \in Overdraw!SetToSeqs(DOMAIN round.revealed) /\ Sorted(keys)
  <2> HIDE DEF Sorted
  <2>1. QED
    BY <1>8
<1>10. /\ keys \in [N -> N] /\ \A i, j \in N : i # j => keys[i] # keys[j]
       /\ \A i, j \in N : i < j => <<keys[i], keys[j]>> \in R
  <2>1. keys \in [N -> N] /\ \A i, j \in N : i # j => keys[i] # keys[j]
    BY <1>7, <1>9
  <2>2. Sorted(keys)
    BY <1>9
  <2> HIDE DEF keys
  <2>3. QED
    BY <1>6, <2>1, <2>2
<1>11. Overdraw!Queue = [k \in N |-> who(keys[k])]
  <2>1. DOMAIN keys = N
    BY <1>10
  <2>2. QED
    BY <2>1 DEF Overdraw!Queue, who
<1> HIDE DEF keys
<1>12. \A i \in N : \E k \in N : keys[k] = i
  <2>1. IsFiniteSet(N)
    BY <1>1, FS_Interval
  <2>2. keys \in Injection(N, N)
    <3>1. keys \in [N -> N] /\ \A i, j \in N : i # j => keys[i] # keys[j]
      BY <1>10
    <3>2. IsInjective(keys)
      BY <3>1 DEF IsInjective
    <3>3. QED
      BY <3>1, <3>2 DEF Injection
  <2>3. keys \in Surjection(N, N)
    BY <2>1, <2>2, FS_Injection
  <2>4. QED
    BY <2>3 DEF Surjection
<1>13. \A i, j \in N : who(i) = who(j) => i = j
  BY DEF RoundOK, who
<1>14. Line(Overdraw!Queue, n)
  <2>1. Overdraw!Queue \in [N -> Table]
    BY <1>2, <1>10, <1>11
  <2>2. ASSUME NEW i \in N, NEW j \in N, i # j PROVE Overdraw!Queue[i] # Overdraw!Queue[j]
    <3>1. keys[i] \in N /\ keys[j] \in N /\ keys[i] # keys[j]
      BY <1>10, <2>2
    <3>2. Overdraw!Queue[i] = who(keys[i]) /\ Overdraw!Queue[j] = who(keys[j])
      BY <1>11
    <3>3. QED
      BY <1>13, <3>1, <3>2
  <2>3. QED
    BY <2>1, <2>2 DEF Line
<1>15. \A i, j \in N : i < j => Before(Overdraw!Queue[i], Overdraw!Queue[j])
  <2>1. SUFFICES ASSUME NEW i \in N, NEW j \in N, i < j
                 PROVE Before(Overdraw!Queue[i], Overdraw!Queue[j])
    OBVIOUS
  <2>2. keys[i] \in N /\ keys[j] \in N /\ <<keys[i], keys[j]>> \in R
    BY <1>10, <2>1
  <2>3. Overdraw!Queue[i] = who(keys[i]) /\ Overdraw!Queue[j] = who(keys[j])
    BY <1>11
  <2>4. QED
    BY <1>4, <2>2, <2>3 DEF Before, draw, tie
<1>16. Overdraw!Range(round.revealed) = {Overdraw!Queue[k] : k \in N}
  <2>1. \A k \in N : keys[k] \in N
    BY <1>10
  <2>2. {who(i) : i \in N} = {who(keys[k]) : k \in N}
    BY <1>12, <2>1
  <2>3. Overdraw!Range(round.revealed) = {who(i) : i \in N}
    BY <1>1 DEF Overdraw!Range, who
  <2>4. {Overdraw!Queue[k] : k \in N} = {who(keys[k]) : k \in N}
    BY <1>11
  <2>5. QED
    BY <2>2, <2>3, <2>4
<1>17. \A k \in N : round.sealed[Overdraw!Queue[k]] \in Draws
  <2>1. \A i \in N : round.sealed[who(i)] \in Draws
    BY DEF RoundOK, who
  <2>2. QED
    BY <1>10, <1>11, <2>1
<1>18. QED
  BY <1>1, <1>14, <1>15, <1>16, <1>17

(* Nobody is behind the k-th in line but those after it.                    *)
LEMMA FrontOfQueue ==
    ASSUME RoundOK, round.id < MaxRounds, NEW k \in 1..Len(round.revealed)
    PROVE  Overdraw!NotBehind(Overdraw!Queue[k]) = {Overdraw!Queue[i] : i \in 1..k}
<1> DEFINE n == Len(round.revealed)
           q == Overdraw!Queue
           tie(p) == Tiebreak[round.id][p]
<1>1. /\ n \in Nat /\ Line(q, n) /\ \A i, j \in 1..n : i < j => Before(q[i], q[j])
      /\ Overdraw!Range(round.revealed) = {q[i] : i \in 1..n}
      /\ \A i \in 1..n : round.sealed[q[i]] \in Draws
  BY QueueInOrder
<1> HIDE DEF q
<1>2. \A i \in 1..n : q[i] \in Table /\ round.sealed[q[i]] \in Int /\ tie(q[i]) \in Int
  <2>1. SUFFICES ASSUME NEW i \in 1..n
                 PROVE q[i] \in Table /\ round.sealed[q[i]] \in Int /\ tie(q[i]) \in Int
    OBVIOUS
  <2>2. q[i] \in Table
    BY <1>1 DEF Line
  <2>3. round.sealed[q[i]] \in Draws /\ \A d \in Draws : d \in Int
    BY <1>1, TableNumbers DEF RoundOK
  <2>4. Tiebreak[round.id] \in [Table -> Nat]
    BY TableNumbers DEF RoundOK
  <2>5. QED
    BY <2>2, <2>3, <2>4
<1>3. Overdraw!Range(round.revealed) = {q[i] : i \in 1..n}
  BY <1>1
<1>4. ASSUME NEW i \in 1..n
      PROVE q[i] \in Overdraw!NotBehind(q[k]) <=> i \in 1..k
  <2>1. q[i] \in Overdraw!NotBehind(q[k]) <=>
          \/ round.sealed[q[i]] < round.sealed[q[k]]
          \/ round.sealed[q[i]] = round.sealed[q[k]] /\ tie(q[i]) <= tie(q[k])
    BY <1>3 DEF Overdraw!NotBehind, Overdraw!Weight
  <2>2. i < k => Before(q[i], q[k])
    BY <1>1
  <2>3. k < i => Before(q[k], q[i])
    BY <1>1
  <2>4. i = k \/ i < k \/ k < i
    OBVIOUS
  <2>5. i \in 1..k <=> ~ (k < i)
    OBVIOUS
  <2>6. /\ round.sealed[q[i]] \in Int /\ round.sealed[q[k]] \in Int
        /\ tie(q[i]) \in Int /\ tie(q[k]) \in Int
    BY <1>2
  <2>7. QED
    BY <2>1, <2>2, <2>3, <2>4, <2>5, <2>6 DEF Before
<1>5. Overdraw!NotBehind(q[k]) \subseteq {q[i] : i \in 1..n}
  BY <1>3 DEF Overdraw!NotBehind
<1>6. \A i \in 1..k : i \in 1..n
  OBVIOUS
<1>7. QED
  BY <1>4, <1>5, <1>6 DEF q

(* What is served and what remains are the capacity, to the wei, and        *)
(* everybody is served exactly what is due.                                 *)
LEMMA DischargeOK ==
    ASSUME RoundOK, round.id < MaxRounds, NEW c \in Nat, c = Overdraw!Capacity
    PROVE  /\ Overdraw!Discharge(c).remaining \in Nat
           /\ Overdraw!Discharge(c).served \in [Table -> Nat]
           /\ Total(Overdraw!Discharge(c).served) + Overdraw!Discharge(c).remaining = c
           /\ \A p \in Table : Overdraw!Discharge(c).served[p] = Overdraw!Due(p)
<1> DEFINE n == Len(round.revealed)
           q == Overdraw!Queue
           w == Overdraw!Discharge(c)
<1>1. /\ n \in Nat /\ Line(q, n)
      /\ Overdraw!Range(round.revealed) = {q[i] : i \in 1..n}
      /\ \A i \in 1..n : round.sealed[q[i]] \in Draws
  BY QueueInOrder
<1>2. IsFiniteSet(Table) /\ BPS \in Nat \ {0} /\ MIN_REVEALS \in Nat /\ \A d \in Draws : d \in Nat
  BY TableNumbers
<1> HIDE DEF q
<1>3. Overdraw!Range(round.revealed) = {q[i] : i \in 1..n}
  BY <1>1
<1>4. \A i \in 1..n : q[i] \in Table /\ round.sealed[q[i]] \in Nat
  BY <1>1, <1>2 DEF RoundOK, Line
<1>5. ASSUME NEW x \in Nat, NEW d \in Nat PROVE (x * d) \div BPS \in Nat
  <2>1. x * d \in Nat
    OBVIOUS
  <2>2. QED
    BY <1>2, <2>1
<1>6. Asking(c, q, n)
  BY <1>4, <1>5 DEF Asking, Overdraw!Want
<1>7. CASE n < MIN_REVEALS \/ c = 0
  <2>1. w = AtRest(c)
    BY <1>7 DEF Overdraw!Discharge, AtRest
  <2>2. ASSUME NEW p \in Table PROVE Overdraw!Due(p) = 0
    <3>1. CASE n < MIN_REVEALS
      BY <1>1, <1>2, <3>1 DEF Overdraw!Due
    <3>2. CASE c = 0
      <4>1. ASSUME p \in Overdraw!Range(round.revealed) PROVE Overdraw!Want(c, p) = 0
        <5>1. round.sealed[p] \in Nat
          BY <1>3, <1>4, <4>1
        <5>2. c * round.sealed[p] = 0 /\ 0 \div BPS = 0
          BY <1>2, <3>2, <5>1
        <5>3. QED
          BY <5>2 DEF Overdraw!Want
      <4>2. QED
        BY <4>1 DEF Overdraw!Due
    <3>3. QED
      BY <1>7, <3>1, <3>2
  <2>3. Total(AtRest(c).served) = 0
    BY <1>2, TotalZero DEF AtRest
  <2>4. QED
    BY <2>1, <2>2, <2>3 DEF AtRest
<1>8. CASE ~ (n < MIN_REVEALS \/ c = 0)
  <2>1. w = Stage(c, q, n)
    BY <1>1, <1>8, WalkIsFold DEF Stage, Line, q
  <2>2. StageOK(w, c, q, n)
    <3>1. \A k \in 0..n : StageOK(Stage(c, q, k), c, q, k)
      BY <1>1, <1>2, <1>6, StagesOK
    <3>2. n \in 0..n
      BY <1>1
    <3> HIDE DEF w, n
    <3>3. QED
      BY <2>1, <3>1, <3>2
  <2>3. ASSUME NEW p \in Table PROVE w.served[p] = Overdraw!Due(p)
    <3>1. CASE p \notin Overdraw!Range(round.revealed)
      <4>1. \A i \in 1..n : q[i] # p
        BY <1>3, <3>1
      <4>2. w.served[p] = 0
        BY <2>2, <4>1 DEF StageOK
      <4>3. QED
        BY <3>1, <4>2 DEF Overdraw!Due
    <3>2. CASE p \in Overdraw!Range(round.revealed)
      <4>1. PICK k \in 1..n : p = q[k]
        BY <1>3, <3>2
      <4>2. Overdraw!NotBehind(p) = {q[i] : i \in 1..k}
        BY <4>1, FrontOfQueue DEF q
      <4>3. Overdraw!Total([x \in Overdraw!NotBehind(p) |-> Overdraw!Want(c, x)]) = Claims(c, q, k)
        BY <4>2, TableCounts DEF Claims
      <4>4. Overdraw!Due(p) = IF Claims(c, q, k) <= c THEN Overdraw!Want(c, p) ELSE 0
        <5>1. n >= MIN_REVEALS
          BY <1>1, <1>2, <1>8
        <5>2. Overdraw!Total([x \in Overdraw!NotBehind(p) |-> Overdraw!Want(Overdraw!Capacity, x)])
                = Claims(c, q, k)
          BY <4>3
        <5>3. QED
          BY <3>2, <5>1, <5>2 DEF Overdraw!Due
      <4>5. w.served[q[k]] = IF Claims(c, q, k) <= c THEN Overdraw!Want(c, q[k]) ELSE 0
        BY <2>2 DEF StageOK
      <4>6. QED
        BY <4>1, <4>4, <4>5
    <3>3. QED
      BY <3>1, <3>2
  <2>4. QED
    BY <2>2, <2>3 DEF StageOK, Walking
<1>9. QED
  BY <1>7, <1>8

(* Two floored shares of an amount fit it.                                  *)
LEMMA SharesFit ==
    ASSUME NEW f \in Nat, NEW r \in Nat, NEW k \in Nat, NEW b \in Nat \ {0}, r + k <= b
    PROVE  (f * r) \div b \in Nat /\ (f * k) \div b \in Nat /\ (f * r) \div b + (f * k) \div b <= f
<1> DEFINE x == (f * r) \div b
           y == (f * k) \div b
<1>1. f * r \in Nat /\ f * k \in Nat /\ f * (b - (r + k)) \in Nat
  OBVIOUS
<1>2. x \in Nat /\ b * x <= f * r
  BY <1>1
<1>3. y \in Nat /\ b * y <= f * k
  BY <1>1
<1> HIDE DEF x, y
<1>4. f * b = f * r + f * k + f * (b - (r + k))
  OBVIOUS
<1>5. b * (x + y) = b * x + b * y /\ b * f = f * b
  BY <1>2, <1>3
<1>6. b * (x + y) <= b * f
  BY <1>1, <1>2, <1>3, <1>4, <1>5
<1>7. ASSUME x + y > f PROVE FALSE
  <2>1. b * (x + y) = b * f + b * (x + y - f) /\ b * (x + y - f) > 0
    BY <1>2, <1>3, <1>7
  <2>2. QED
    BY <1>6, <2>1, <1>2, <1>3
<1>8. QED
  BY <1>2, <1>3, <1>7 DEF x, y

(* The open round's money: the entries, and how they are shared.            *)
LEMMA RoundMoney ==
    ASSUME RoundOK, carryPool \in Nat
    PROVE  /\ IsFiniteSet(Overdraw!Seated) /\ Overdraw!Seats \in Nat /\ Overdraw!Fees \in Nat
           /\ Overdraw!Rake \in Nat /\ Overdraw!KeeperReward \in Nat
           /\ Overdraw!Rake + Overdraw!KeeperReward <= Overdraw!Fees
           /\ Overdraw!Releasable(Overdraw!Rake) \in Nat
           /\ Overdraw!Releasable(Overdraw!Rake) <= Overdraw!Rake
           /\ Overdraw!Releasable(Overdraw!Rake) <= carryPool
           /\ Overdraw!Capacity = Overdraw!Fees - Overdraw!Rake - Overdraw!KeeperReward
                                    + Overdraw!Releasable(Overdraw!Rake)
           /\ Overdraw!Capacity \in Nat
<1>1. IsFiniteSet(Overdraw!Seated)
  BY TableNumbers, FS_Subset DEF RoundOK
<1>2. Overdraw!Seats = Cardinality(Overdraw!Seated)
  BY TableCounts DEF Overdraw!Seats
<1>3. Overdraw!Seats \in Nat
  BY <1>1, <1>2, FS_CardinalityType
<1>4. Overdraw!Fees \in Nat
  BY <1>3, TableNumbers DEF Overdraw!Fees
<1>5. /\ Overdraw!Rake \in Nat /\ Overdraw!KeeperReward \in Nat
      /\ Overdraw!Rake + Overdraw!KeeperReward <= Overdraw!Fees
  BY <1>4, TableNumbers, SharesFit DEF Overdraw!Rake, Overdraw!KeeperReward
<1>6. /\ Overdraw!Releasable(Overdraw!Rake) \in Nat
      /\ Overdraw!Releasable(Overdraw!Rake) <= Overdraw!Rake
      /\ Overdraw!Releasable(Overdraw!Rake) <= carryPool
  BY <1>5 DEF Overdraw!Releasable
<1>7. Overdraw!Capacity = Overdraw!Fees - Overdraw!Rake - Overdraw!KeeperReward
                            + Overdraw!Releasable(Overdraw!Rake)
  BY DEF Overdraw!Capacity
<1>8. QED
  BY <1>1, <1>3, <1>4, <1>5, <1>6, <1>7

(* The table's books: the round, the amounts, and that they cover the debts. *)
TableSafe ==
    /\ RoundOK
    /\ credit \in [Table -> Nat] /\ carryPool \in Nat /\ held \in Int
    /\ Solvent

(* A round opens without seats and without entries.                         *)
LEMMA FreshRound ==
    ASSUME NEW i \in Nat \ {0}, NEW t, round' = Overdraw!Opened(i, t)
    PROVE  RoundOK' /\ Overdraw!Fees' = 0
<1>1. /\ round' = [id |-> i, commitEnd |-> t + commitWindow,
                   revealEnd |-> t + commitWindow + revealWindow, sealed |-> <<>>, revealed |-> <<>>]
  BY DEF Overdraw!Opened
<1>2. round'.id = i /\ round'.sealed = <<>> /\ round'.revealed = <<>>
  BY <1>1
<1>3. Overdraw!Seated' = {}
  BY <1>2 DEF Overdraw!Seated
<1>4. Overdraw!Fees' = 0
  <2>1. Overdraw!Cardinality({}) = 0
    BY TableCounts, FS_EmptySet
  <2>2. QED
    BY <1>3, <2>1, TableNumbers DEF Overdraw!Fees, Overdraw!Seats
<1>5. RoundOK'
  BY <1>1, <1>2, <1>3 DEF RoundOK
<1>6. QED
  BY <1>4, <1>5

(* The table opens with nothing owed.                                       *)
LEMMA TableInit == Overdraw!Init => TableSafe
<1> SUFFICES ASSUME Overdraw!Init PROVE TableSafe
  OBVIOUS
<1>1. round = Overdraw!Opened(1, 0)
  BY DEF Overdraw!Init
<1>2. round.sealed = <<>> /\ round.revealed = <<>> /\ round.id = 1
  BY <1>1 DEF Overdraw!Opened
<1>3. Overdraw!Seated = {}
  BY <1>2 DEF Overdraw!Seated
<1>4. RoundOK
  BY <1>1, <1>2, <1>3 DEF RoundOK, Overdraw!Opened
<1>5. Overdraw!Fees = 0
  <2>1. Overdraw!Cardinality({}) = 0
    BY TableCounts, FS_EmptySet
  <2>2. QED
    BY <1>3, <2>1, TableNumbers DEF Overdraw!Fees, Overdraw!Seats
<1>6. credit = [p \in Table |-> 0] /\ carryPool = 0 /\ held = 0
  BY DEF Overdraw!Init
<1>7. Overdraw!Total(credit) = 0
  <2>1. Total([p \in Table |-> 0]) = 0
    BY TableNumbers, TotalZero
  <2>2. QED
    BY <1>6, <2>1, TableCounts
<1>8. QED
  BY <1>4, <1>5, <1>6, <1>7 DEF TableSafe, Solvent, Overdraw!Solvent

(* What the settlement credits, and to whom.                                *)
Reward(keeper) == [p \in Table |-> IF p = keeper THEN Overdraw!KeeperReward ELSE 0]

(* A settlement credits each what is due, and the keeper its reward.        *)
LEMMA Settled ==
    ASSUME TableSafe, NEW keeper \in Table, Overdraw!Settle(keeper),
           NEW w, w = Overdraw!Discharge(Overdraw!Capacity)
    PROVE  /\ w.remaining \in Nat
           /\ credit' \in [Table -> Nat]
           /\ Total(credit') = Total(credit) + Overdraw!Capacity - w.remaining + Overdraw!KeeperReward
           /\ \A p \in Table : credit'[p] - credit[p] - Overdraw!Due(p) \in {0, Overdraw!KeeperReward}
<1> DEFINE paid == [p \in Table |-> w.served[p] + Reward(keeper)[p]]
<1>1. Overdraw!Capacity \in Nat /\ Overdraw!KeeperReward \in Nat /\ round.id < MaxRounds
  BY RoundMoney DEF TableSafe, Overdraw!Settle
<1>2. /\ w.remaining \in Nat /\ w.served \in [Table -> Nat]
      /\ Total(w.served) + w.remaining = Overdraw!Capacity
      /\ \A p \in Table : w.served[p] = Overdraw!Due(p)
  BY <1>1, DischargeOK DEF TableSafe
<1>3. Reward(keeper) \in [Table -> Nat]
  BY <1>1 DEF Reward
<1>4. Total(Reward(keeper)) = Overdraw!KeeperReward
  <2> DEFINE zero == [p \in Table |-> 0]
  <2>1. Reward(keeper) = [zero EXCEPT ![keeper] = Overdraw!KeeperReward]
    BY DEF Reward
  <2>2. zero \in [Table -> Int] /\ zero[keeper] = 0
    OBVIOUS
  <2>3. IsFiniteSet(Table) /\ Total(zero) = 0 /\ Overdraw!KeeperReward \in Int
    BY <1>1, TableNumbers, TotalZero
  <2> HIDE DEF zero
  <2>4. Total([zero EXCEPT ![keeper] = Overdraw!KeeperReward])
          = Total(zero) - zero[keeper] + Overdraw!KeeperReward
    BY <2>2, <2>3, TotalExcept
  <2>5. QED
    BY <2>1, <2>2, <2>3, <2>4
<1>5. credit' = [p \in Table |-> credit[p] + w.served[p]
                                   + IF p = keeper THEN Overdraw!KeeperReward ELSE 0]
  BY DEF Overdraw!Settle
<1>6. credit \in [Table -> Nat]
  BY DEF TableSafe
<1>7. \A p \in Table : /\ credit[p] \in Nat /\ w.served[p] \in Nat
                       /\ Reward(keeper)[p] = IF p = keeper THEN Overdraw!KeeperReward ELSE 0
  BY <1>2, <1>6 DEF Reward
<1>8. credit' \in [Table -> Nat] /\ \A p \in Table : credit'[p] = credit[p] + paid[p]
  BY <1>1, <1>5, <1>7
<1>9. paid \in [Table -> Nat] /\ \A p \in Table : paid[p] = w.served[p] + Reward(keeper)[p]
  BY <1>2, <1>3
<1> HIDE DEF paid
<1>10. \A f \in [Table -> Nat] : f \in [Table -> Int] /\ Total(f) \in Nat
  BY TableNumbers, TotalNatural
<1>11. Total(paid) = Total(w.served) + Total(Reward(keeper))
  BY <1>2, <1>3, <1>9, <1>10, TableNumbers, TotalPlus
<1>12. Total(credit') = Total(credit) + Total(paid)
  BY <1>6, <1>8, <1>9, <1>10, TableNumbers, TotalPlus
<1>13. Total(credit') = Total(credit) + Overdraw!Capacity - w.remaining + Overdraw!KeeperReward
  BY <1>1, <1>2, <1>4, <1>6, <1>10, <1>11, <1>12
<1>14. \A p \in Table : credit'[p] - credit[p] - Overdraw!Due(p) \in {0, Overdraw!KeeperReward}
  BY <1>1, <1>2, <1>7, <1>8, <1>9
<1>15. QED
  BY <1>2, <1>8, <1>13, <1>14

(* A seat brings its entry.                                                 *)
LEMMA CommitKeeps ==
    ASSUME TableSafe, NEW p \in Table, NEW draw \in Draws \cup {none}, Overdraw!Commit(p, draw)
    PROVE  TableSafe'
<1>1. RoundOK /\ p \notin Overdraw!Seated
  BY DEF TableSafe, Overdraw!Commit
<1>2. round' = [round EXCEPT !.sealed = [q \in Overdraw!Seated \cup {p} |->
                                            IF q = p THEN draw ELSE round.sealed[q]]]
  BY DEF Overdraw!Commit
<1>3. round' = [id |-> round.id, commitEnd |-> round.commitEnd, revealEnd |-> round.revealEnd,
                sealed |-> [q \in Overdraw!Seated \cup {p} |-> IF q = p THEN draw ELSE round.sealed[q]],
                revealed |-> round.revealed]
  BY <1>1, <1>2 DEF RoundOK
<1>4. /\ round'.id = round.id /\ round'.revealed = round.revealed
      /\ round'.sealed = [q \in Overdraw!Seated \cup {p} |-> IF q = p THEN draw ELSE round.sealed[q]]
  BY <1>3
<1>5. Overdraw!Seated' = Overdraw!Seated \cup {p}
  BY <1>4 DEF Overdraw!Seated
<1>6. RoundOK'
  <2>1. \A q \in Overdraw!Seated : round'.sealed[q] = round.sealed[q]
    BY <1>1, <1>4
  <2>2. round'.sealed[p] = draw
    BY <1>4
  <2>3. \A i \in 1..Len(round.revealed) :
          /\ round.revealed[i] \in Overdraw!Seated'
          /\ round'.sealed[round.revealed[i]] = round.sealed[round.revealed[i]]
    BY <1>1, <1>5, <2>1 DEF RoundOK
  <2>4. Overdraw!Seated' \subseteq Table /\ \A q \in Overdraw!Seated' : round'.sealed[q] \in Draws \cup {none}
    BY <1>1, <1>5, <2>1, <2>2 DEF RoundOK
  <2>5. round' = [id |-> round'.id, commitEnd |-> round'.commitEnd, revealEnd |-> round'.revealEnd,
                  sealed |-> round'.sealed, revealed |-> round'.revealed]
    BY <1>3
  <2>6. QED
    BY <1>1, <1>4, <2>3, <2>4, <2>5 DEF RoundOK
<1>7. Overdraw!Fees' = Overdraw!Fees + entryFee
  <2>1. IsFiniteSet(Overdraw!Seated) /\ Cardinality(Overdraw!Seated) \in Nat
    BY <1>1, RoundMoney, FS_CardinalityType DEF TableSafe
  <2>2. Cardinality(Overdraw!Seated \cup {p}) = Cardinality(Overdraw!Seated) + 1
    BY <1>1, <2>1, FS_AddElement
  <2>3. Overdraw!Fees = Cardinality(Overdraw!Seated) * entryFee
    BY TableCounts DEF Overdraw!Fees, Overdraw!Seats
  <2>4. Overdraw!Fees' = Cardinality(Overdraw!Seated \cup {p}) * entryFee
    BY <1>5, TableCounts DEF Overdraw!Fees, Overdraw!Seats
  <2>5. entryFee \in Nat
    BY TableNumbers
  <2>6. QED
    BY <2>1, <2>2, <2>3, <2>4, <2>5
<1>8. held' = held + entryFee /\ UNCHANGED <<credit, carryPool>>
  BY DEF Overdraw!Commit
<1>9. Overdraw!Total(credit) = Total(credit) /\ Overdraw!Total(credit') = Total(credit')
  BY TableCounts
<1>10. Total(credit) \in Nat /\ Overdraw!Fees \in Nat
  BY RoundMoney, TableNumbers, TotalNatural DEF TableSafe
<1>11. held' = Overdraw!Total(credit') + carryPool' + Overdraw!Fees'
  BY <1>7, <1>8, <1>9, <1>10, TableNumbers DEF TableSafe, Solvent, Overdraw!Solvent
<1>12. held' \in Int
  BY <1>8, TableNumbers DEF TableSafe
<1>13. QED
  BY <1>6, <1>8, <1>11, <1>12 DEF TableSafe, Solvent, Overdraw!Solvent

(* A reveal moves nothing, and nobody reveals twice.                        *)
LEMMA RevealKeeps ==
    ASSUME TableSafe, NEW p \in Table, Overdraw!Reveal(p)
    PROVE  TableSafe'
<1> DEFINE n == Len(round.revealed)
<1>1. RoundOK /\ p \in Overdraw!Seated /\ round.sealed[p] # none
      /\ p \notin Overdraw!Range(round.revealed)
  BY DEF TableSafe, Overdraw!Reveal
<1>2. round' = [round EXCEPT !.revealed = Append(round.revealed, p)]
  BY DEF Overdraw!Reveal
<1>3. round' = [id |-> round.id, commitEnd |-> round.commitEnd, revealEnd |-> round.revealEnd,
                sealed |-> round.sealed, revealed |-> Append(round.revealed, p)]
  BY <1>1, <1>2 DEF RoundOK
<1>4. round'.id = round.id /\ round'.sealed = round.sealed /\ round'.revealed = Append(round.revealed, p)
  BY <1>3
<1>5. Overdraw!Seated' = Overdraw!Seated /\ Overdraw!Fees' = Overdraw!Fees
  BY <1>4 DEF Overdraw!Seated, Overdraw!Fees, Overdraw!Seats
<1>6. round.revealed \in Seq(Table) /\ n \in Nat
  BY <1>1 DEF RoundOK
<1>7. /\ round'.revealed \in Seq(Table) /\ Len(round'.revealed) = n + 1
      /\ round'.revealed[n + 1] = p
      /\ \A i \in 1..n : round'.revealed[i] = round.revealed[i]
  BY <1>4, <1>6
<1>8. \A i \in 1..n : round.revealed[i] # p
  BY <1>1, <1>6 DEF Overdraw!Range
<1>9. round.sealed[p] \in Draws
  BY <1>1 DEF RoundOK
<1>10. \A i \in 1..n : /\ round.revealed[i] \in Overdraw!Seated /\ round.sealed[round.revealed[i]] \in Draws
                        /\ \A j \in 1..n : round.revealed[i] = round.revealed[j] => i = j
  BY <1>1 DEF RoundOK
<1>11. \A i \in 1..(n + 1) : i \in 1..n \/ i = n + 1
  BY <1>6
<1> HIDE DEF n
<1>12. \A i \in 1..(n + 1) :
         /\ round'.revealed[i] \in Overdraw!Seated /\ round'.sealed[round'.revealed[i]] \in Draws
         /\ \A j \in 1..(n + 1) : round'.revealed[i] = round'.revealed[j] => i = j
  BY <1>1, <1>4, <1>7, <1>8, <1>9, <1>10, <1>11
<1>13. round' = [id |-> round'.id, commitEnd |-> round'.commitEnd, revealEnd |-> round'.revealEnd,
                 sealed |-> round'.sealed, revealed |-> round'.revealed]
  BY <1>3
<1>14. RoundOK'
  BY <1>1, <1>4, <1>5, <1>7, <1>12, <1>13 DEF RoundOK
<1>15. UNCHANGED <<credit, carryPool, held>>
  BY DEF Overdraw!Reveal
<1>16. QED
  BY <1>5, <1>14, <1>15, TableCounts DEF TableSafe, Solvent, Overdraw!Solvent

(* A settlement turns entries and carry into credits and carry.             *)
LEMMA SettleKeeps ==
    ASSUME TableSafe, NEW keeper \in Table, Overdraw!Settle(keeper)
    PROVE  TableSafe' /\ Overdraw!NoSweepProfit /\ Overdraw!ModestFirst
<1> DEFINE w == Overdraw!Discharge(Overdraw!Capacity)
           released == Overdraw!Releasable(Overdraw!Rake)
<1>1. /\ w.remaining \in Nat /\ credit' \in [Table -> Nat]
      /\ Total(credit') = Total(credit) + Overdraw!Capacity - w.remaining + Overdraw!KeeperReward
      /\ \A p \in Table : credit'[p] - credit[p] - Overdraw!Due(p) \in {0, Overdraw!KeeperReward}
  BY Settled
<1>2. /\ carryPool' = carryPool - released + w.remaining
      /\ round' = Overdraw!Opened(round.id + 1, now)
      /\ held' = held - Overdraw!Rake
  BY DEF Overdraw!Settle, Overdraw!CarryAfter
<1>3. RoundOK' /\ Overdraw!Fees' = 0
  <2>1. round.id + 1 \in Nat \ {0}
    BY DEF TableSafe, RoundOK
  <2>2. QED
    BY <1>2, <2>1, FreshRound
<1> HIDE DEF w
<1>4. /\ Overdraw!Fees \in Nat /\ Overdraw!Rake \in Nat /\ Overdraw!KeeperReward \in Nat
      /\ released \in Nat /\ released <= Overdraw!Rake /\ released <= carryPool
      /\ Overdraw!Capacity = Overdraw!Fees - Overdraw!Rake - Overdraw!KeeperReward + released
  BY RoundMoney DEF TableSafe
<1>5. Total(credit) \in Nat /\ carryPool \in Nat /\ held \in Int
      /\ held = Total(credit) + carryPool + Overdraw!Fees
  BY TableNumbers, TotalNatural, TableCounts DEF TableSafe, Solvent, Overdraw!Solvent
<1> HIDE DEF released
<1>6. carryPool' \in Nat /\ held' \in Int /\ held' = Total(credit') + carryPool' + 0
  BY <1>1, <1>2, <1>4, <1>5
<1>7. Total(credit') - Total(credit) <= Overdraw!Fees
  BY <1>1, <1>4, <1>5
<1>8. Overdraw!Total(credit') = Total(credit') /\ Overdraw!Total(credit) = Total(credit)
  BY TableCounts
<1>9. TableSafe'
  BY <1>1, <1>3, <1>6, <1>8 DEF TableSafe, Solvent, Overdraw!Solvent
<1>10. Overdraw!NoSweepProfit
  BY <1>7, <1>8 DEF Overdraw!NoSweepProfit
<1>11. Overdraw!ModestFirst
  BY <1>1 DEF Overdraw!ModestFirst
<1>12. QED
  BY <1>9, <1>10, <1>11

(* A claim pays out one credit.                                             *)
LEMMA ClaimKeeps ==
    ASSUME TableSafe, NEW p \in Table, Overdraw!Claim(p)
    PROVE  TableSafe'
<1>1. /\ credit' = [credit EXCEPT ![p] = 0] /\ held' = held - credit[p]
      /\ UNCHANGED <<round, carryPool>>
  BY DEF Overdraw!Claim
<1>2. credit \in [Table -> Nat] /\ credit \in [Table -> Int] /\ credit[p] \in Nat
  BY DEF TableSafe
<1>3. credit' \in [Table -> Nat]
  BY <1>1, <1>2
<1>4. Total(credit') = Total(credit) - credit[p] + 0
  <2>1. IsFiniteSet(Table) /\ 0 \in Int
    BY TableNumbers
  <2>2. Total([credit EXCEPT ![p] = 0]) = Total(credit) - credit[p] + 0
    BY <1>2, <2>1, TotalExcept
  <2>3. QED
    BY <1>1, <2>2
<1>5. RoundOK' /\ Overdraw!Fees' = Overdraw!Fees
  BY <1>1 DEF TableSafe, RoundOK, Overdraw!Fees, Overdraw!Seats, Overdraw!Seated
<1>6. Total(credit) \in Nat /\ Overdraw!Fees \in Nat /\ carryPool \in Nat /\ held \in Int
      /\ held = Total(credit) + carryPool + Overdraw!Fees
  BY <1>2, RoundMoney, TableNumbers, TotalNatural, TableCounts DEF TableSafe, Solvent, Overdraw!Solvent
<1>7. held' \in Int /\ held' = Total(credit') + carryPool' + Overdraw!Fees'
  BY <1>1, <1>2, <1>4, <1>5, <1>6
<1>8. Overdraw!Total(credit') = Total(credit')
  BY TableCounts
<1>9. QED
  BY <1>1, <1>3, <1>5, <1>6, <1>7, <1>8 DEF TableSafe, Solvent, Overdraw!Solvent

(* Time and the other contract touch nothing here.                          *)
LEMMA TableRests ==
    ASSUME TableSafe, UNCHANGED <<round, credit, carryPool, held>>
    PROVE  TableSafe'
  BY TableCounts DEF TableSafe, RoundOK, Solvent, Overdraw!Solvent, Overdraw!Fees, Overdraw!Seats,
                     Overdraw!Seated

(* The open round is closed by its settlement and by nothing else.          *)
LEMMA TableStep ==
    ASSUME TableSafe, [NextAll]_<<contract, vars, overdrawVars>>
    PROVE  /\ TableSafe'
           /\ round'.id # round.id => Overdraw!NoSweepProfit /\ Overdraw!ModestFirst
<1>1. CASE UNCHANGED overdrawVars
  BY <1>1, TableRests DEF overdrawVars
<1>2. CASE Overdraw!Next
  <2>1. CASE Overdraw!Tick
    BY <2>1, TableRests DEF Overdraw!Tick
  <2>2. ASSUME NEW p \in Table, NEW draw \in Draws \cup {none}, Overdraw!Commit(p, draw)
        PROVE  TableSafe' /\ round'.id = round.id
    <3>1. round'.id = round.id
      BY <2>2 DEF Overdraw!Commit, TableSafe, RoundOK
    <3>2. QED
      BY <2>2, <3>1, CommitKeeps
  <2>3. ASSUME NEW p \in Table, Overdraw!Reveal(p)
        PROVE  TableSafe' /\ round'.id = round.id
    <3>1. round'.id = round.id
      BY <2>3 DEF Overdraw!Reveal, TableSafe, RoundOK
    <3>2. QED
      BY <2>3, <3>1, RevealKeeps
  <2>4. ASSUME NEW p \in Table, Overdraw!Settle(p)
        PROVE  TableSafe' /\ Overdraw!NoSweepProfit /\ Overdraw!ModestFirst
    BY <2>4, SettleKeeps
  <2>5. ASSUME NEW p \in Table, Overdraw!Claim(p)
        PROVE  TableSafe' /\ round'.id = round.id
    <3>1. round'.id = round.id
      BY <2>5 DEF Overdraw!Claim
    <3>2. QED
      BY <2>5, <3>1, ClaimKeeps
  <2>6. QED
    BY <1>2, <2>1, <2>2, <2>3, <2>4, <2>5 DEF Overdraw!Next, Overdraw!Tick
<1>3. QED
  BY <1>1, <1>2 DEF NextAll

(* The table's books are in order in every behaviour.                       *)
LEMMA TableInvariant == SpecAll => []TableSafe
<1>1. InitAll => TableSafe
  BY TableInit DEF InitAll
<1>2. TableSafe /\ [NextAll]_<<contract, vars, overdrawVars>> => TableSafe'
  BY TableStep
<1>3. QED
  BY <1>1, <1>2, PTL DEF SpecAll

(* The overdraw table always holds, to the wei, every credit, the carry and *)
(* the open round's entries, for any players, draws, tiebreaks and shares.  *)
THEOREM SolventTheorem == SpecAll => []Solvent
<1>1. TableSafe => Solvent
  BY DEF TableSafe
<1>2. QED
  BY <1>1, TableInvariant, PTL

(* A settlement never credits more than the round's entries, and serves a   *)
(* reveal exactly when it and all the more modest ones fit the capacity:    *)
(* for any line-up, whatever the order of the reveals.                      *)
THEOREM FairTheorem == SpecAll => TableFair
<1>1. TableSafe /\ [NextAll]_<<contract, vars, overdrawVars>> =>
        [round'.id # round.id => Overdraw!NoSweepProfit /\ Overdraw!ModestFirst]_overdrawVars
  BY TableStep
<1>2. QED
  BY <1>1, TableInvariant, PTL DEF SpecAll, TableFair
=============================================================================
