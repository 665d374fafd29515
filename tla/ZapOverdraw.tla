---------------------------- MODULE ZapOverdraw ----------------------------
(***************************************************************************)
(* contracts/src/game/ZapOverdraw.sol: every player pays one entry and     *)
(* seals a draw; after the reveals the round's capacity serves the modest  *)
(* draws first, and what it does not deliver is carried into later rounds. *)
(*                                                                         *)
(* A transaction is one action (the stake token moves exactly or reverts,  *)
(* behind a lock).  A commitment is the draw it opens to, or Unopenable: a *)
(* salt nobody kept, a blob copied from another player or another round, a *)
(* draw out of range.  The tiebreak is a fixed function of round and       *)
(* player.  Only the open round's seats are ever read.                     *)
(***************************************************************************)
EXTENDS Totals, SequencesExt

CONSTANTS
    Players,                            \* who may play, and settle
    entryFee, commitWindow, revealWindow, rakeBps, keeperBps,
    BPS, MAX_SEATS, MIN_REVEALS,
    Tiebreak,                           \* round -> player -> hash
    Unopenable,
    \* bounds of the instance
    Draws, MaxRounds

OverdrawSetting ==
    /\ IsFiniteSet(Players) /\ entryFee \in Nat \ {0} /\ BPS \in Nat \ {0}
    /\ rakeBps \in Nat \ {0} /\ keeperBps \in Nat /\ rakeBps + keeperBps <= BPS
    /\ {commitWindow, revealWindow, MAX_SEATS, MIN_REVEALS} \subseteq Nat \ {0}
    /\ Draws \subseteq 1..BPS /\ Unopenable \notin Draws /\ MaxRounds \in Nat
    \* two tiebreaks of a round do not collide
    /\ Tiebreak \in [1..MaxRounds -> Injection(Players, Nat)]

VARIABLES
    now,
    round,      \* the open round: its number, windows, sealed draws, reveals in order
    credit, carryPool,
    held        \* the contract's stake balance

table == <<now, round, credit, carryPool, held>>

Opened(id, at) ==
    [id |-> id, commitEnd |-> at + commitWindow, revealEnd |-> at + commitWindow + revealWindow,
     sealed |-> <<>>, revealed |-> <<>>]

Init ==
    /\ now = 0
    /\ round = Opened(1, 0)
    /\ credit = [p \in Players |-> 0] /\ carryPool = 0 /\ held = 0

(* Time matters once it passes a window's end. *)
Tick ==
    /\ now <= round.revealEnd
    /\ now' = now + 1
    /\ UNCHANGED <<round, credit, carryPool, held>>

----------------------------------------------------------------------------
Seated == DOMAIN round.sealed
Seats == Cardinality(Seated)
Fees == Seats * entryFee

Commit(p, draw) ==
    /\ now <= round.commitEnd /\ round.id < MaxRounds
    /\ Seats < MAX_SEATS /\ p \notin Seated
    /\ round' = [round EXCEPT !.sealed = [q \in Seated \cup {p} |-> IF q = p THEN draw ELSE @[q]]]
    /\ held' = held + entryFee
    /\ UNCHANGED <<now, credit, carryPool>>

Reveal(p) ==
    /\ round.commitEnd < now /\ now <= round.revealEnd
    /\ p \in Seated /\ round.sealed[p] # Unopenable
    /\ p \notin Range(round.revealed)
    /\ round' = [round EXCEPT !.revealed = Append(@, p)]
    /\ UNCHANGED <<now, credit, carryPool, held>>

----------------------------------------------------------------------------
(* Slip: ties go to whoever revealed first. *)
AheadByReveal(i, j) ==
    LET draw(k) == round.sealed[round.revealed[k]]
    IN  draw(i) < draw(j) \/ (draw(i) = draw(j) /\ i < j)

(* The packed key of _sortedKeys: draw, then tiebreak, then reveal index. *)
Ahead(i, j) ==
    LET draw(k) == round.sealed[round.revealed[k]]
        tie(k) == Tiebreak[round.id][round.revealed[k]]
    IN  \/ draw(i) < draw(j)
        \/ draw(i) = draw(j) /\ (tie(i) < tie(j) \/ (tie(i) = tie(j) /\ i < j))

Queue == LET keys == CHOOSE s \in SetToSeqs(DOMAIN round.revealed) :
                         \A i, j \in DOMAIN s : i < j => Ahead(s[i], s[j])
         IN  [k \in DOMAIN keys |-> round.revealed[keys[k]]]

Want(capacity, p) == (capacity * round.sealed[p]) \div BPS

Serve(capacity, walk, p) ==
    IF walk.cut \/ Want(capacity, p) > walk.remaining
    THEN [walk EXCEPT !.cut = TRUE]
    ELSE [walk EXCEPT !.remaining = @ - Want(capacity, p), !.served[p] = Want(capacity, p)]

(* _discharge: who is credited what, and what remains. *)
Discharge(capacity) ==
    LET atRest == [remaining |-> capacity, cut |-> FALSE, served |-> [p \in Players |-> 0]]
    IN  IF Len(round.revealed) < MIN_REVEALS \/ capacity = 0 THEN atRest
        ELSE FoldLeft(LAMBDA walk, p : Serve(capacity, walk, p), atRest, Queue)

Releasable(rake) == IF carryPool < rake THEN carryPool ELSE rake

(* Slip: what the round released stays in the pool as well. *)
CarryUndebited(released, undelivered) == carryPool + undelivered
CarryAfter(released, undelivered) == carryPool - released + undelivered

Rake == (Fees * rakeBps) \div BPS
KeeperReward == (Fees * keeperBps) \div BPS
Capacity == Fees - Rake - KeeperReward + Releasable(Rake)

Settle(keeper) ==
    LET walk == Discharge(Capacity)
    IN  /\ now > round.revealEnd /\ round.id < MaxRounds
        /\ carryPool' = CarryAfter(Releasable(Rake), walk.remaining)
        /\ credit' = [p \in Players |-> credit[p] + walk.served[p]
                                         + IF p = keeper THEN KeeperReward ELSE 0]
        /\ round' = Opened(round.id + 1, now)
        /\ held' = held - Rake
        /\ UNCHANGED now

Claim(p) ==
    /\ credit[p] # 0
    /\ credit' = [credit EXCEPT ![p] = 0]
    /\ held' = held - credit[p]
    /\ UNCHANGED <<now, round, carryPool>>

Next ==
    \/ Tick
    \/ \E p \in Players :
          \/ \E draw \in Draws \cup {Unopenable} : Commit(p, draw)
          \/ Reveal(p) \/ Settle(p) \/ Claim(p)

Spec == Init /\ [][Next]_table

----------------------------------------------------------------------------
(* The contract always holds, to the wei, what it owes: every credit, the   *)
(* carry and the open round's entries.                                      *)
Solvent == held = Total(credit) + carryPool + Fees

(* "The sweep is never better than break-even": whoever holds all the seats *)
(* and settles gets no more than the entries back, however much is carried. *)
NoSweepProfit == Total(credit') - Total(credit) <= Fees

(* The modest are served first: a reveal is paid if and only if it and all  *)
(* reveals ahead of it, by draw and then by the fixed tiebreak, fit the     *)
(* capacity.  When it was revealed changes nothing.                         *)
Weight(p) == <<round.sealed[p], Tiebreak[round.id][p]>>
NotBehind(p) == {q \in Range(round.revealed) :
                    \/ Weight(q)[1] < Weight(p)[1]
                    \/ Weight(q)[1] = Weight(p)[1] /\ Weight(q)[2] <= Weight(p)[2]}
Due(p) ==
    LET claims == Total([q \in NotBehind(p) |-> Want(Capacity, q)])
    IN  IF p \in Range(round.revealed) /\ Len(round.revealed) >= MIN_REVEALS /\ claims <= Capacity
        THEN Want(Capacity, p) ELSE 0

ModestFirst == \A p \in Players : credit'[p] - credit[p] - Due(p) \in {0, KeeperReward}
=============================================================================
