------------------------ MODULE CampaignKeeperProofs ------------------------
(***************************************************************************)
(* Machine-checked, for a daemon beside which no other process writes the  *)
(* state file: whatever is reorganised, lost or crashed, one transaction   *)
(* at a time is unresolved, a day's broadcasts stay within the budget, the *)
(* journal can always be cleared, and no work is paid for twice.           *)
(***************************************************************************)
EXTENDS CampaignKeeper, FiniteSetTheorems, TLAPS

(* "status" is not run beside the daemon: it writes the state file too.     *)
Alone == Processes = {"daemon"}

(* Days do not go backwards with time.                                      *)
LEMMA DaysGrow ==
    ASSUME NEW n \in Nat, NEW m \in Nat, n <= m, NEW d \in Nat \ {0}
    PROVE  n \div d \in Nat /\ m \div d \in Nat /\ n \div d <= m \div d
<1> DEFINE q == n \div d
           r == m \div d
<1>1. q \in Nat /\ d * q <= n
  OBVIOUS
<1>2. r \in Nat /\ m < d * r + d
  OBVIOUS
<1> HIDE DEF q, r
<1>3. ASSUME q > r PROVE FALSE
  <2>1. q >= r + 1 /\ q - (r + 1) \in Nat
    BY <1>1, <1>2, <1>3
  <2>2. d * q = d * (r + 1) + d * (q - (r + 1)) /\ d * (q - (r + 1)) \in Nat
    BY <1>1, <1>2, <2>1
  <2>3. d * (r + 1) = d * r + d /\ d * r \in Nat /\ d * q \in Nat
    BY <1>1, <1>2
  <2>4. QED  BY <1>1, <1>2, <2>2, <2>3
<1>4. q <= r
  BY <1>1, <1>2, <1>3
<1>5. QED  BY <1>1, <1>2, <1>4 DEF q, r

(* A receipt of a transaction is an entry of the chain that bears it.       *)
LEMMA ReceiptPlaces ==
    ASSUME NEW tx, NEW c
    PROVE  /\ \A i \in DOMAIN c.mined : c.mined[i].tx = tx => c.mined[i] \in Receipts(tx, c)
           /\ \A r \in Receipts(tx, c) : \E i \in DOMAIN c.mined : c.mined[i].tx = tx /\ r = c.mined[i]
BY DEF Receipts

(* A nonce is a place on the chain: a transaction is mined once, and what   *)
(* is confirmed of it is all there is at the head.                          *)
LEMMA MinedOnce ==
    ASSUME ChainInv
    PROVE  /\ \A i, j \in DOMAIN head.mined : head.mined[i].tx = head.mined[j].tx => i = j
           /\ DOMAIN safe.mined \subseteq DOMAIN head.mined
           /\ \A tx : Receipts(tx, safe) # {} => Receipts(tx, head) = Receipts(tx, safe)
<1>1. /\ DOMAIN head.mined = 1..Len(head.mined) /\ Len(head.mined) \in Nat
      /\ DOMAIN safe.mined = 1..Len(safe.mined) /\ Len(safe.mined) \in Nat
  BY DEF ChainInv, Chains
<1>2. \A i, j \in DOMAIN head.mined : head.mined[i].tx = head.mined[j].tx => i = j
  BY <1>1 DEF ChainInv, Recorded
<1>3. DOMAIN safe.mined \subseteq DOMAIN head.mined
  BY <1>1 DEF ChainInv
<1>4. ASSUME NEW tx, Receipts(tx, safe) # {}
      PROVE  Receipts(tx, head) = Receipts(tx, safe)
  <2>1. PICK k \in DOMAIN safe.mined : safe.mined[k].tx = tx
    BY <1>4, ReceiptPlaces
  <2>2. \A i \in DOMAIN head.mined : head.mined[i].tx = tx => i = k
    BY <1>2, <1>3, <2>1 DEF ChainInv
  <2>3. \A i \in DOMAIN safe.mined : safe.mined[i] = head.mined[i]
    BY DEF ChainInv
  <2>4. \A r : r \in Receipts(tx, head) <=> r = head.mined[k]
    BY <1>3, <2>1, <2>2, <2>3, ReceiptPlaces
  <2>5. \A r : r \in Receipts(tx, safe) <=> r = head.mined[k]
    BY <1>3, <2>1, <2>2, <2>3, ReceiptPlaces
  <2>6. QED  BY <2>4, <2>5
<1>5. QED  BY <1>2, <1>3, <1>4

(* The first pass begins on an empty journal and an empty chain.            *)
LEMMA KeeperInit ==
    ASSUME Alone, Init PROVE KeeperInv
<1> USE KeeperSetting, LegSetting
<1>1. head.mined = <<>> /\ DOMAIN head.mined = {} /\ Len(head.mined) = 0
  BY DEF Init
<1>2. ChainInv
  BY <1>1 DEF Init, ChainInv, Chains, Legs, LegAtStart, Recorded
<1>3. JournalInv
  BY DEF Init, JournalInv, States, OneUnresolved, Done
<1>4. Today = 0
  BY DEF Init, Today
<1>5. Counted = {} /\ \A day : CountedOn(day) = {}
  BY DEF Init, CountedOn, Counted
<1>6. BudgetInv
  <2>1. \A day : Cardinality(CountedOn(day)) = 0
    BY <1>5, FS_EmptySet
  <2>2. IsFiniteSet(published) /\ disk.broadcasts = 0 /\ disk.day = 0 /\ maxBroadcastsPerDay \in Nat
    BY FS_EmptySet DEF Init
  <2>3. QED  BY <1>4, <1>5, <2>1, <2>2 DEF BudgetInv
<1>7. PassInv
  BY DEF Init, PassInv, NoPass
<1>8. QED  BY <1>2, <1>3, <1>6, <1>7 DEF KeeperInv

(* A pass that is anywhere holds a copy of the state, and plans hold work.  *)
LEMMA JobTyped ==
    ASSUME PassInv
    PROVE  LET job == pass["daemon"]
           IN  /\ job.at \in {"plan", "admit", "sign", "reconcile", "publish", "write"} => job.state \in States
               /\ job.at \in {"admit", "sign"} => job.kind \in Kinds /\ job.window \in Nat /\ job.before \in Nat
<1> DEFINE job == pass["daemon"]
           Held == [at : {"plan", "reconcile", "publish", "write"}, state : States]
<1>1. job \in {NoPass} \cup Planning \cup Held
  BY KeeperSetting DEF PassInv
<1>2. CASE job = NoPass
  BY <1>2 DEF NoPass
<1>3. CASE job \in Planning
  BY <1>3 DEF Planning
<1>4. CASE job \in Held
  BY <1>4
<1>5. QED  BY <1>1, <1>2, <1>3, <1>4

(* A step of the chain alone: time and the ledger go on, nothing confirmed  *)
(* is lost, and the journal's transaction may be mined.                     *)
LEMMA ChainGoesOn ==
    ASSUME KeeperInv, ChainInv', UNCHANGED <<disk, pass, published>>,
           head.now <= head'.now, safe.leg.blockCount <= safe'.leg.blockCount,
           safe' = safe \/ safe' = head,
           disk.pending # None =>
              \A i \in DOMAIN head'.mined :
                 head'.mined[i].tx = disk.pending.tx => requiredPostcondition(disk.pending, head'.mined[i])
    PROVE  KeeperInv'
<1> USE DEF KeeperInv
<1>1. /\ \A tx : Receipts(tx, safe) # {} => Receipts(tx, safe') = Receipts(tx, safe)
      /\ DOMAIN safe.mined \subseteq DOMAIN safe'.mined
      /\ \A i \in DOMAIN safe.mined : safe'.mined[i] = safe.mined[i]
  BY MinedOnce DEF ChainInv
<1>2. ASSUME NEW done \in published, Done(done)', ~Open(done)
      PROVE  Done(done)
  <2>1. Receipts(done.tx, safe) # {}
    BY <1>2 DEF JournalInv, OneUnresolved, Open
  <2>2. QED  BY <1>1, <1>2, <2>1 DEF Done
<1>3. \A record : Open(record)' <=> Open(record)
  BY DEF Open
<1>4. OneUnresolved'
  BY <1>1 DEF JournalInv, OneUnresolved
<1>5. PendingRecord' = PendingRecord
  BY DEF PendingRecord
<1>6. disk \in States /\ safe \in Chains /\ safe' \in Chains
  BY DEF JournalInv, ChainInv
<1>7. disk.pending # None =>
        /\ disk.pending.before <= safe'.leg.blockCount
        /\ \A record \in published : Open(record) => record = PendingRecord
        /\ disk.pending.tx.kind = "staker-harvest" => disk.pending.window > disk.lastHarvestWindow
  BY <1>6 DEF JournalInv, States, Pendings, Chains, Legs
<1>8. JournalInv'
  BY <1>2, <1>3, <1>4, <1>5, <1>7 DEF JournalInv, requiredPostcondition
<1>9. Today \in Nat /\ Today' \in Nat /\ Today <= Today'
  BY DaysGrow, KeeperSetting DEF Today, ChainInv, Chains
<1>10. BudgetInv'
  <2>1. disk.day <= Today'
    BY <1>6, <1>9 DEF BudgetInv, States
  <2>2. Counted' = Counted /\ \A day : CountedOn(day)' = CountedOn(day)
    BY <1>5 DEF Counted, CountedOn
  <2>3. QED  BY <2>1, <2>2 DEF BudgetInv
<1>11. PassInv'
  <2> DEFINE job == pass["daemon"]
  <2>1. job.at \in {"admit", "sign"} => job.before <= safe'.leg.blockCount
    <3>1. job.at \in {"admit", "sign"} => job.before \in Nat
      BY JobTyped
    <3>2. job.at \in {"admit", "sign"} => job.before <= safe.leg.blockCount
      BY DEF PassInv
    <3>3. QED  BY <1>6, <3>1, <3>2 DEF Chains, Legs
  <2>2. job.at = "sign" => job.state.day <= Today'
    <3>1. job.at = "sign" => job.state.day \in Nat /\ job.state.day <= Today
      BY JobTyped DEF PassInv, States
    <3>2. QED  BY <1>9, <3>1
  <2>3. job.at = "write" =>
          \E i \in DOMAIN safe'.mined :
             /\ safe'.mined[i].tx = disk.pending.tx
             /\ job.state = [disk EXCEPT !.pending = None,
                                         !.lastHarvestWindow = WindowAfter(disk, safe'.mined[i])]
    BY <1>1 DEF PassInv
  <2>4. QED  BY <2>1, <2>2, <2>3 DEF PassInv, WindowAfter
<1>12. QED  BY <1>8, <1>10, <1>11

(* What a ledger and a finalization have reached stays, and each kind of    *)
(* work leaves its mark.                                                    *)
LEMMA WorkLeavesMark ==
    ASSUME NEW c \in Chains
    PROVE  /\ \A m \in LegSteps(c.leg, c.now) :
                 m \in Legs /\ c.leg.blockCount <= m.blockCount /\ (c.leg.finalized => m.finalized)
           /\ \A kind \in Kinds : \A d \in Succeeds(kind, c) :
                 /\ d \in Chains /\ d.now = c.now /\ d.mined = c.mined
                 /\ c.leg.blockCount <= d.leg.blockCount
                 /\ c.campaignFinalized => d.campaignFinalized
                 /\ c.leg.finalized => d.leg.finalized
                 /\ kind = "campaign-finalize" => d.campaignFinalized
                 /\ kind = "hook-blocks-finalize" => d.leg.finalized
                 /\ kind = "hookr-buy-and-burn" => d.leg.blockCount > c.leg.blockCount
<1>1. c.leg \in Legs
  BY DEF Chains
<1>2. \A m \in LegSteps(c.leg, c.now) :
        m \in Legs /\ c.leg.blockCount <= m.blockCount /\ (c.leg.finalized => m.finalized)
  <2>1. \A m \in Burnt(c.leg) :
          m \in Legs /\ c.leg.blockCount <= m.blockCount /\ (c.leg.finalized => m.finalized)
    BY <1>1 DEF Legs, Burnt
  <2>2. ASSUME NEW m \in PauseSet(c.leg)
        PROVE  m \in Legs /\ c.leg.blockCount <= m.blockCount /\ (c.leg.finalized => m.finalized)
    <3>1. PICK paused \in BOOLEAN : m = [c.leg EXCEPT !.buybackPaused = paused]
      BY DEF PauseSet
    <3>2. QED  BY <1>1, <3>1 DEF Legs
  <2>3. ASSUME NEW m \in Finalized(c.leg, c.now)
        PROVE  m \in Legs /\ c.leg.blockCount <= m.blockCount /\ (c.leg.finalized => m.finalized)
    <3>1. m = [c.leg EXCEPT !.finalized = TRUE]
      BY DEF Finalized
    <3>2. m \in Legs
      BY <1>1, <3>1 DEF Legs
    <3>3. m.blockCount = c.leg.blockCount /\ c.leg.blockCount \in Nat /\ m.finalized = TRUE
      BY <1>1, <3>1 DEF Legs
    <3>4. QED  BY <3>2, <3>3
  <2>4. QED  BY <2>1, <2>2, <2>3 DEF LegSteps
<1>3. \A m \in Burnt(c.leg) : m.blockCount > c.leg.blockCount
  BY <1>1 DEF Legs, Burnt
<1>4. \A m \in Finalized(c.leg, c.now) : m.finalized
  BY <1>1 DEF Legs, Finalized
<1>5. ASSUME NEW m \in Legs
      PROVE  LET d == [c EXCEPT !.leg = m]
             IN  d \in Chains /\ d.leg = m /\ d.now = c.now /\ d.mined = c.mined
                    /\ d.campaignFinalized = c.campaignFinalized
  BY DEF Chains
<1>6. LET d == [c EXCEPT !.campaignFinalized = TRUE]
      IN  d \in Chains /\ d.leg = c.leg /\ d.now = c.now /\ d.mined = c.mined /\ d.campaignFinalized
  BY DEF Chains
<1>7. ASSUME NEW kind \in Kinds, NEW d \in Succeeds(kind, c)
      PROVE  /\ d \in Chains /\ d.now = c.now /\ d.mined = c.mined
             /\ c.leg.blockCount <= d.leg.blockCount
             /\ c.campaignFinalized => d.campaignFinalized
             /\ c.leg.finalized => d.leg.finalized
             /\ kind = "campaign-finalize" => d.campaignFinalized
             /\ kind = "hook-blocks-finalize" => d.leg.finalized
             /\ kind = "hookr-buy-and-burn" => d.leg.blockCount > c.leg.blockCount
  <2>1. c.leg.blockCount \in Nat
    BY <1>1 DEF Legs
  <2>2. CASE kind = "staker-harvest"
    BY <1>7, <2>1, <2>2 DEF Succeeds
  <2>3. CASE kind = "campaign-finalize"
    <3>1. d = [c EXCEPT !.campaignFinalized = TRUE]
      BY <1>7, <2>3 DEF Succeeds
    <3>2. d \in Chains /\ d.leg = c.leg /\ d.now = c.now /\ d.mined = c.mined /\ d.campaignFinalized
      BY <1>6, <3>1
    <3>3. QED  BY <2>1, <2>3, <3>2
  <2>4. CASE kind = "hook-blocks-finalize"
    <3>1. PICK m \in Finalized(c.leg, c.now) : d = [c EXCEPT !.leg = m]
      BY <1>7, <2>4 DEF Succeeds
    <3>2. m \in LegSteps(c.leg, c.now)
      BY DEF LegSteps
    <3>3. QED  BY <1>2, <1>4, <1>5, <2>4, <3>1, <3>2
  <2>5. CASE kind = "hookr-buy-and-burn"
    <3>1. PICK m \in Burnt(c.leg) : d = [c EXCEPT !.leg = m]
      BY <1>7, <2>5 DEF Succeeds
    <3>2. m \in LegSteps(c.leg, c.now)
      BY DEF LegSteps
    <3>3. QED  BY <1>2, <1>3, <1>5, <2>5, <3>1, <3>2
  <2>6. QED  BY <2>2, <2>3, <2>4, <2>5 DEF Kinds
<1>8. QED  BY <1>2, <1>7

(* A head that goes on over what is mined keeps the chain's part.           *)
LEMMA HeadGoesOn ==
    ASSUME KeeperInv, UNCHANGED <<safe, lagged, disk, pass, published>>, head' \in Chains,
           head.now <= head'.now, head'.mined = head.mined, head.leg.blockCount <= head'.leg.blockCount,
           head.campaignFinalized => head'.campaignFinalized, head.leg.finalized => head'.leg.finalized
    PROVE  KeeperInv'
<1>1. ChainInv'
  <2>1. Recorded(head)'
    BY DEF KeeperInv, ChainInv, Recorded, LeavesMark
  <2>2. safe.leg.blockCount <= head'.leg.blockCount
    BY DEF KeeperInv, ChainInv, Chains, Legs
  <2>3. Recorded(safe)'
    BY DEF KeeperInv, ChainInv, Recorded, LeavesMark
  <2>4. QED  BY <2>1, <2>2, <2>3 DEF KeeperInv, ChainInv
<1>2. safe.leg.blockCount <= safe.leg.blockCount
  BY DEF KeeperInv, ChainInv, Chains, Legs
<1>3. disk.pending # None =>
        \A i \in DOMAIN head'.mined :
           head'.mined[i].tx = disk.pending.tx => requiredPostcondition(disk.pending, head'.mined[i])
  BY DEF KeeperInv, JournalInv
<1>4. QED  BY <1>1, <1>2, <1>3, ChainGoesOn

(* A transaction is mined at the next nonce, once, and a burn that succeeds *)
(* is seen on the ledger that was noted before it.                          *)
LEMMA MineStep ==
    ASSUME KeeperInv, NEW record \in published, NEW ok \in BOOLEAN, Mine(record.tx, ok)
    PROVE  KeeperInv'
<1> DEFINE tx == record.tx
<1>1. record \in Records /\ tx \in Txs /\ tx.kind \in Kinds
  BY DEF KeeperInv, JournalInv, Records, Txs
<1>2. PICK c \in IF ok THEN Succeeds(tx.kind, head) ELSE {head} :
        head' = [c EXCEPT !.mined = Append(@, [tx |-> tx, ok |-> ok, blockCount |-> c.leg.blockCount])]
  BY DEF Mine
<1> DEFINE receipt == [tx |-> tx, ok |-> ok, blockCount |-> c.leg.blockCount]
<1>3. head \in Chains /\ safe \in Chains
  BY DEF KeeperInv, ChainInv
<1>4. /\ c \in Chains /\ c.now = head.now /\ c.mined = head.mined
      /\ head.leg.blockCount <= c.leg.blockCount
      /\ head.campaignFinalized => c.campaignFinalized
      /\ head.leg.finalized => c.leg.finalized
      /\ ok /\ tx.kind = "campaign-finalize" => c.campaignFinalized
      /\ ok /\ tx.kind = "hook-blocks-finalize" => c.leg.finalized
      /\ ok /\ tx.kind = "hookr-buy-and-burn" => c.leg.blockCount > head.leg.blockCount
  <2>1. CASE ok
    BY <1>1, <1>2, <1>3, <2>1, WorkLeavesMark
  <2>2. CASE ~ok
    <3>1. c = head
      BY <1>2, <2>2
    <3>2. QED  BY <1>3, <2>2, <3>1 DEF Chains, Legs
  <2>3. QED  BY <2>1, <2>2
<1>5. c.leg.blockCount \in Nat /\ head.leg.blockCount \in Nat /\ safe.leg.blockCount \in Nat
  BY <1>3, <1>4 DEF Chains, Legs
<1>6. receipt \in Mined
  BY <1>1, <1>5 DEF Mined
<1>7. c.mined \in Seq(Mined) /\ Append(c.mined, receipt) \in Seq(Mined)
  BY <1>4, <1>6 DEF Chains
<1>8. /\ head' \in Chains /\ head'.now = head.now /\ head'.leg = c.leg
      /\ head'.campaignFinalized = c.campaignFinalized
      /\ head'.mined = Append(head.mined, receipt)
  BY <1>2, <1>4, <1>7 DEF Chains
<1>9. /\ head.mined \in Seq(Mined) /\ tx.nonce = Len(head.mined) /\ Len(head.mined) \in Nat
      /\ DOMAIN head.mined = 1..Len(head.mined)
      /\ DOMAIN safe.mined = 1..Len(safe.mined) /\ Len(safe.mined) \in Nat
  BY <1>3 DEF Mine, Chains
<1>10. /\ Len(head'.mined) = Len(head.mined) + 1
       /\ DOMAIN head'.mined = 1..(Len(head.mined) + 1)
       /\ \A i \in DOMAIN head.mined : head'.mined[i] = head.mined[i]
       /\ head'.mined[Len(head.mined) + 1] = receipt
  BY <1>6, <1>8, <1>9
<1>11. \A i \in DOMAIN head'.mined : i \in DOMAIN head.mined \/ (i = Len(head.mined) + 1 /\ head'.mined[i] = receipt)
  BY <1>9, <1>10
<1>12. UNCHANGED <<safe, lagged, disk, pass, published>>
  BY DEF Mine
<1>13. Recorded(head)'
  <2>1. ASSUME NEW i \in DOMAIN head.mined
        PROVE  /\ head'.mined[i].tx.nonce = i - 1
               /\ \E r \in published : r.tx = head'.mined[i].tx
               /\ LeavesMark(head', head'.mined[i])
    BY <1>4, <1>8, <1>10 DEF KeeperInv, ChainInv, Recorded, LeavesMark
  <2>2. LeavesMark(head', receipt)
    BY <1>4, <1>8 DEF LeavesMark
  <2>3. receipt.tx.nonce = (Len(head.mined) + 1) - 1
    BY <1>9
  <2>4. QED  BY <1>11, <1>12, <2>1, <2>2, <2>3 DEF Recorded
<1>14. ChainInv'
  <2>1. Recorded(safe)'
    BY <1>12 DEF KeeperInv, ChainInv, Recorded, LeavesMark
  <2>2. Len(safe.mined) <= Len(head'.mined)
    BY <1>9, <1>10 DEF KeeperInv, ChainInv
  <2>3. \A i \in DOMAIN safe.mined : safe.mined[i] = head'.mined[i]
    BY <1>3, <1>10, MinedOnce DEF KeeperInv, ChainInv
  <2>4. safe.leg.blockCount <= head'.leg.blockCount
    BY <1>4, <1>5, <1>8 DEF KeeperInv, ChainInv
  <2>5. QED  BY <1>8, <1>12, <1>13, <2>1, <2>2, <2>3, <2>4 DEF KeeperInv, ChainInv
<1>15. ASSUME disk.pending # None, NEW i \in DOMAIN head'.mined, head'.mined[i].tx = disk.pending.tx
       PROVE  requiredPostcondition(disk.pending, head'.mined[i])
  <2>1. CASE i \in DOMAIN head.mined
    BY <1>10, <1>15, <2>1 DEF KeeperInv, JournalInv
  <2>2. CASE head'.mined[i] = receipt
    <3>1. disk.pending.before \in Nat /\ disk.pending.before <= safe.leg.blockCount
      BY <1>15 DEF KeeperInv, JournalInv, States, Pendings
    <3>2. safe.leg.blockCount <= head.leg.blockCount
      BY DEF KeeperInv, ChainInv
    <3>3. QED  BY <1>4, <1>5, <1>15, <2>2, <3>1, <3>2 DEF requiredPostcondition
  <2>3. QED  BY <1>11, <2>1, <2>2
<1>16. head.now \in Nat /\ head.now <= head'.now
  BY <1>3, <1>8 DEF Chains
<1>17. QED  BY <1>5, <1>12, <1>14, <1>15, <1>16, ChainGoesOn

(* The chain's own steps, and everyone else's on it.                        *)
LEMMA ChainStep ==
    ASSUME KeeperInv, Tick \/ OthersAct \/ Confirm \/ Age \/ Reorg
    PROVE  KeeperInv'
<1>1. head \in Chains /\ safe \in Chains /\ lagged \in Chains
  BY DEF KeeperInv, ChainInv
<1>2. /\ head.now \in Nat /\ safe.leg.blockCount \in Nat
      /\ head.leg.blockCount \in Nat /\ lagged.leg.blockCount \in Nat
  BY <1>1 DEF Chains, Legs
<1>3. CASE Tick
  <2>1. /\ head' = [head EXCEPT !.now = @ + 1] /\ UNCHANGED <<safe, lagged, disk, pass, published>>
    BY <1>3 DEF Tick
  <2>2. /\ head' \in Chains /\ head'.now = head.now + 1 /\ head'.leg = head.leg
        /\ head'.mined = head.mined /\ head'.campaignFinalized = head.campaignFinalized
    <3>1. head.now + 1 \in Nat /\ head' = [head EXCEPT !.now = head.now + 1]
      BY <1>2, <2>1
    <3>2. QED  BY <1>1, <3>1 DEF Chains
  <2>3. head.now <= head'.now /\ head.leg.blockCount <= head'.leg.blockCount
    BY <1>2, <2>2
  <2>4. QED  BY <2>1, <2>2, <2>3, HeadGoesOn
<1>4. CASE OthersAct
  <2>1. CASE head' \in {[head EXCEPT !.leg = m] : m \in LegSteps(head.leg, head.now)}
    <3>1. PICK m \in LegSteps(head.leg, head.now) : head' = [head EXCEPT !.leg = m]
      BY <2>1
    <3>2. m \in Legs /\ head.leg.blockCount <= m.blockCount /\ (head.leg.finalized => m.finalized)
      BY <1>1, WorkLeavesMark
    <3>3. /\ head' \in Chains /\ head'.leg = m /\ head'.now = head.now /\ head'.mined = head.mined
          /\ head'.campaignFinalized = head.campaignFinalized
      BY <1>1, <3>1, <3>2 DEF Chains
    <3>4. QED  BY <1>2, <1>4, <3>2, <3>3, HeadGoesOn DEF OthersAct
  <2>2. CASE head' \in Succeeds("campaign-finalize", head)
    <3>1. /\ head' \in Chains /\ head'.now = head.now /\ head'.mined = head.mined
          /\ head.leg.blockCount <= head'.leg.blockCount
          /\ head.campaignFinalized => head'.campaignFinalized
          /\ head.leg.finalized => head'.leg.finalized
      BY <1>1, <2>2, WorkLeavesMark DEF Kinds
    <3>2. QED  BY <1>2, <1>4, <3>1, HeadGoesOn DEF OthersAct
  <2>3. QED  BY <1>4, <2>1, <2>2 DEF OthersAct
<1>5. CASE Confirm
  <2>1. ChainInv'
    <3>1. Recorded(head)' /\ Recorded(safe)'
      BY <1>5 DEF Confirm, KeeperInv, ChainInv, Recorded, LeavesMark
    <3>2. lagged.leg.blockCount <= head.leg.blockCount /\ Len(head.mined) <= Len(head.mined)
      BY <1>1, <1>2 DEF KeeperInv, ChainInv, Chains
    <3>3. QED  BY <1>1, <1>2, <1>5, <3>1, <3>2 DEF Confirm, ChainInv
  <2>2. disk.pending # None =>
          \A i \in DOMAIN head'.mined :
             head'.mined[i].tx = disk.pending.tx => requiredPostcondition(disk.pending, head'.mined[i])
    BY <1>5 DEF Confirm, KeeperInv, JournalInv
  <2>3. safe.leg.blockCount <= head.leg.blockCount
    BY DEF KeeperInv, ChainInv
  <2>4. QED  BY <1>2, <1>5, <2>1, <2>2, <2>3, ChainGoesOn DEF Confirm
<1>6. CASE Age
  <2>1. lagged' \in Chains /\ lagged'.leg = safe.leg
    <3>1. <<>> \in Seq(Mined)
      OBVIOUS
    <3>2. QED  BY <1>1, <1>6, <3>1 DEF Age, Chains
  <2>2. ChainInv'
    <3>1. Recorded(head)' /\ Recorded(safe)'
      BY <1>6 DEF Age, KeeperInv, ChainInv, Recorded, LeavesMark
    <3>2. QED  BY <1>2, <1>6, <2>1, <3>1 DEF Age, KeeperInv, ChainInv
  <2>3. disk.pending # None =>
          \A i \in DOMAIN head'.mined :
             head'.mined[i].tx = disk.pending.tx => requiredPostcondition(disk.pending, head'.mined[i])
    BY <1>6 DEF Age, KeeperInv, JournalInv
  <2>4. QED  BY <1>2, <1>6, <2>2, <2>3, ChainGoesOn DEF Age
<1>7. CASE Reorg
  <2>1. /\ head' \in Chains /\ head'.now = head.now /\ head'.leg = safe.leg /\ head'.mined = safe.mined
        /\ head'.campaignFinalized = safe.campaignFinalized
    BY <1>1, <1>7 DEF Reorg, Chains
  <2>2. ChainInv'
    <3>1. Recorded(head)' /\ Recorded(safe)'
      BY <1>7, <2>1 DEF Reorg, KeeperInv, ChainInv, Recorded, LeavesMark
    <3>2. Len(safe.mined) <= Len(safe.mined)
      BY <1>1 DEF Chains
    <3>3. QED  BY <1>2, <1>7, <2>1, <3>1, <3>2 DEF Reorg, KeeperInv, ChainInv
  <2>3. disk.pending # None =>
          \A i \in DOMAIN head'.mined :
             head'.mined[i].tx = disk.pending.tx => requiredPostcondition(disk.pending, head'.mined[i])
    BY <2>1, MinedOnce DEF KeeperInv, JournalInv, ChainInv
  <2>4. QED  BY <1>2, <1>7, <2>1, <2>2, <2>3, ChainGoesOn DEF Reorg
<1>8. QED  BY <1>3, <1>4, <1>5, <1>6, <1>7

(* A step of a pass that writes nothing and publishes nothing.              *)
LEMMA PassGoesOn ==
    ASSUME KeeperInv, UNCHANGED <<chain, disk, published>>, PassInv'
    PROVE  KeeperInv'
<1> USE DEF KeeperInv, chain
<1>1. ChainInv'
  BY DEF ChainInv, Recorded, LeavesMark
<1>2. (\A tx : Receipts(tx, safe)' = Receipts(tx, safe)) /\ (\A record : Done(record)' <=> Done(record))
  BY DEF Done, Receipts
<1>3. JournalInv'
  BY <1>2 DEF JournalInv, OneUnresolved, Open, PendingRecord, requiredPostcondition
<1>4. Counted' = Counted /\ \A day : CountedOn(day)' = CountedOn(day)
  BY DEF Counted, CountedOn, PendingRecord
<1>5. BudgetInv'
  BY <1>4 DEF BudgetInv, Today
<1>6. QED  BY <1>1, <1>3, <1>5

(* A pass begins on the state file as it is, and may end anywhere.          *)
LEMMA BeginStep ==
    ASSUME Alone, KeeperInv, BeginPass("daemon") \/ Abort("daemon")
    PROVE  KeeperInv'
<1> DEFINE began == [at |-> IF disk.pending = None THEN "plan" ELSE "reconcile", state |-> disk]
<1>1. disk \in States
  BY DEF KeeperInv, JournalInv
<1>2. CASE BeginPass("daemon")
  <2>1. pass' = [pass EXCEPT !["daemon"] = began]
    BY <1>2 DEF BeginPass, Goes
  <2>2. pass'["daemon"] = began
    BY <2>1, KeeperSetting DEF KeeperInv, PassInv
  <2>3. PassInv'
    BY <1>1, <1>2, <2>1, <2>2, KeeperSetting DEF KeeperInv, PassInv, BeginPass
  <2>4. QED  BY <1>2, <2>3, PassGoesOn DEF BeginPass
<1>3. CASE Abort("daemon")
  <2>1. pass' = [pass EXCEPT !["daemon"] = NoPass] /\ pass'["daemon"] = NoPass
    BY <1>3, KeeperSetting DEF Abort, Goes, KeeperInv, PassInv
  <2>2. PassInv'
    BY <1>3, <2>1, KeeperSetting DEF KeeperInv, PassInv, Abort, NoPass
  <2>3. QED  BY <1>3, <2>2, PassGoesOn DEF Abort
<1>4. QED  BY <1>2, <1>3

(* A settled copy is the state file with its receipt taken in.              *)
LEMMA SettleStep ==
    ASSUME Alone, KeeperInv, Settle("daemon")
    PROVE  KeeperInv'
<1>1. PICK receipt \in Receipts(disk.pending.tx, safe) :
        pass' = [pass EXCEPT !["daemon"] =
                   [at |-> "write",
                    state |-> [disk EXCEPT !.pending = None, !.lastHarvestWindow = WindowAfter(disk, receipt)]]]
  BY DEF Settle, Reconciling, Goes, SettledIn, KeeperInv, PassInv
<1>2. PICK i \in DOMAIN safe.mined : safe.mined[i].tx = disk.pending.tx /\ receipt = safe.mined[i]
  BY ReceiptPlaces
<1> DEFINE settled == [disk EXCEPT !.pending = None, !.lastHarvestWindow = WindowAfter(disk, safe.mined[i])]
<1>3. disk \in States /\ disk.pending \in Pendings
  BY DEF Settle, Reconciling, KeeperInv, JournalInv, PassInv, States
<1>4. settled \in States
  BY <1>3 DEF States, Pendings, WindowAfter
<1>5. pass' = [pass EXCEPT !["daemon"] = [at |-> "write", state |-> settled]]
  BY <1>1, <1>2
<1>6. pass'["daemon"] = [at |-> "write", state |-> settled]
  BY <1>5, KeeperSetting DEF KeeperInv, PassInv
<1>7. UNCHANGED <<chain, disk, published>> /\ disk.pending # None
  BY DEF Settle, Reconciling, KeeperInv, PassInv
<1>8. PassInv'
  <2>1. pass' \in [Processes -> {NoPass} \cup Planning
                                  \cup [at : {"plan", "reconcile", "publish", "write"}, state : States]]
    BY <1>4, <1>5, KeeperSetting DEF KeeperInv, PassInv
  <2>2. /\ pass'["daemon"].at = "write" /\ pass'["daemon"].state = settled
        /\ disk' = disk /\ safe' = safe
    BY <1>6, <1>7 DEF chain
  <2>3. \E j \in DOMAIN safe'.mined :
           /\ safe'.mined[j].tx = disk'.pending.tx
           /\ pass'["daemon"].state =
                 [disk' EXCEPT !.pending = None, !.lastHarvestWindow = WindowAfter(disk', safe'.mined[j])]
    BY <1>2, <2>2
  <2> HIDE DEF settled
  <2>4. QED  BY <1>7, <2>1, <2>2, <2>3 DEF PassInv
<1>9. QED  BY <1>7, <1>8, PassGoesOn

(* What is planned was due by the state file, on a ledger noted no later    *)
(* than the confirmed one.                                                  *)
LEMMA PlanStep ==
    ASSUME Alone, KeeperInv, Plan
    PROVE  KeeperInv'
<1> DEFINE kind == Planned(lagged, disk.lastHarvestWindow)
           job == [at |-> "admit", state |-> disk, kind |-> kind,
                   window |-> HarvestWindow(lagged), before |-> LedgerBefore]
<1>1. pass["daemon"].at = "plan" /\ pass["daemon"].state = disk /\ disk.pending = None
  BY DEF Plan, KeeperInv, PassInv
<1>2. pass' = [pass EXCEPT !["daemon"] = job] /\ UNCHANGED <<chain, disk, published>>
  BY <1>1 DEF Plan, Goes
<1>3. lagged \in Chains /\ disk \in States
  BY DEF KeeperInv, ChainInv, JournalInv
<1>4. kind \in Kinds /\ (kind = "staker-harvest" => HarvestWindow(lagged) > disk.lastHarvestWindow)
  <2>1. CASE HarvestDue(lagged, disk.lastHarvestWindow)
    BY <1>3, <2>1, LegSetting DEF Planned, HarvestDue, Kinds, Chains
  <2>2. CASE ~HarvestDue(lagged, disk.lastHarvestWindow)
    BY <2>2 DEF Planned, Kinds
  <2>3. QED  BY <2>1, <2>2
<1>5. HarvestWindow(lagged) \in Nat
  BY <1>3, DaysGrow, KeeperSetting DEF HarvestWindow, Chains
<1>6. LedgerBefore \in Nat /\ LedgerBefore <= safe.leg.blockCount
  BY DEF LedgerBefore, KeeperInv, ChainInv, Chains, Legs
<1> HIDE DEF kind
<1>7. job \in Planning
  BY <1>3, <1>4, <1>5, <1>6 DEF Planning
<1>8. pass'["daemon"] = job
  BY <1>2, KeeperSetting DEF KeeperInv, PassInv
<1>9. PassInv'
  <2>1. pass' \in [Processes -> {NoPass} \cup Planning
                                  \cup [at : {"plan", "reconcile", "publish", "write"}, state : States]]
    BY <1>2, <1>7 DEF KeeperInv, PassInv
  <2>2. disk' = disk /\ safe' = safe
    BY <1>2 DEF chain
  <2>3. QED  BY <1>1, <1>4, <1>6, <1>8, <2>1, <2>2 DEF PassInv
<1>10. QED  BY <1>2, <1>9, PassGoesOn

(* The day is entered in the copy, and its count begins again where the day *)
(* is another.                                                              *)
LEMMA AdmitStep ==
    ASSUME Alone, KeeperInv, Admit
    PROVE  KeeperInv'
<1> DEFINE job == pass["daemon"]
           state == [disk EXCEPT !.day = Today, !.broadcasts = Used(disk)]
           admitted == [job EXCEPT !.at = "sign", !.state = state]
<1>1. job.at = "admit" /\ job.state = disk /\ disk.pending = None /\ Used(disk) < maxBroadcastsPerDay
  BY DEF Admit, KeeperInv, PassInv
<1>2. disk \in States /\ head \in Chains
  BY DEF KeeperInv, ChainInv, JournalInv
<1>3. Today \in Nat /\ disk.day <= Today
  BY <1>2, DaysGrow, KeeperSetting DEF Today, Chains, KeeperInv, BudgetInv
<1>4. Used(disk) \in Nat /\ Used(disk) = IF Today = disk.day THEN disk.broadcasts ELSE 0
  BY <1>2 DEF Used, States
<1>5. job \in Planning
  <2>1. job \in {NoPass} \cup Planning \cup [at : {"plan", "reconcile", "publish", "write"}, state : States]
    BY KeeperSetting DEF KeeperInv, PassInv
  <2>2. QED  BY <1>1, <2>1 DEF NoPass
<1>6. state \in States /\ state.pending = None /\ state.lastHarvestWindow = disk.lastHarvestWindow
      /\ state.day = Today /\ state.broadcasts = Used(disk)
  BY <1>1, <1>2, <1>3, <1>4 DEF States
<1>7. admitted \in Planning /\ admitted.at = "sign" /\ admitted.state = state
      /\ admitted.kind = job.kind /\ admitted.window = job.window /\ admitted.before = job.before
  BY <1>5, <1>6 DEF Planning
<1>8. pass' = [pass EXCEPT !["daemon"] = admitted] /\ UNCHANGED <<chain, disk, published>>
  BY <1>1 DEF Admit
<1>9. pass'["daemon"] = admitted
  BY <1>8, KeeperSetting DEF KeeperInv, PassInv
<1>10. Today' = Today /\ disk' = disk /\ safe' = safe
  BY <1>8 DEF Today, chain
<1> HIDE DEF state, admitted
<1>11. PassInv'
  <2>1. pass' \in [Processes -> {NoPass} \cup Planning
                                  \cup [at : {"plan", "reconcile", "publish", "write"}, state : States]]
    BY <1>7, <1>8 DEF KeeperInv, PassInv
  <2>2. /\ job.before <= safe.leg.blockCount
        /\ job.kind = "staker-harvest" => job.window > disk.lastHarvestWindow
    BY <1>1 DEF KeeperInv, PassInv
  <2>3. disk.day <= state.day /\ state.day <= Today
    BY <1>3, <1>6
  <2>4. state.broadcasts = IF state.day = disk.day THEN disk.broadcasts ELSE 0
    BY <1>4, <1>6
  <2>5. QED  BY <1>1, <1>6, <1>7, <1>9, <1>10, <2>1, <2>2, <2>3, <2>4 DEF PassInv
<1>12. QED  BY <1>8, <1>11, PassGoesOn

(* What has succeeded, past the journal's own transaction, is the same      *)
(* while the chain stays.                                                   *)
LEMMA ChainStays ==
    ASSUME KeeperInv, UNCHANGED chain, published \subseteq published'
    PROVE  /\ ChainInv'
           /\ Today' = Today /\ head' = head /\ safe' = safe
           /\ \A tx : Receipts(tx, safe') = Receipts(tx, safe)
           /\ \A record : Done(record)' <=> Done(record)
<1>1. head' = head /\ safe' = safe /\ lagged' = lagged
  BY DEF chain
<1>2. Recorded(head)' /\ Recorded(safe)'
  BY <1>1 DEF KeeperInv, ChainInv, Recorded, LeavesMark
<1>3. ChainInv'
  BY <1>1, <1>2 DEF KeeperInv, ChainInv
<1>4. Today' = Today
  BY <1>1 DEF Today
<1>5. \A record : Done(record)' <=> Done(record)
  BY <1>1 DEF Done
<1>6. QED  BY <1>1, <1>3, <1>4, <1>5

(* A pass that is over holds nothing.                                       *)
LEMMA PassOver ==
    ASSUME KeeperInv, pass' = [pass EXCEPT !["daemon"] = NoPass]
    PROVE  PassInv'
<1>1. pass'["daemon"].at = "idle"
  BY KeeperSetting DEF KeeperInv, PassInv, NoPass
<1>2. pass' \in [Processes -> {NoPass} \cup Planning
                                \cup [at : {"plan", "reconcile", "publish", "write"}, state : States]]
  BY DEF KeeperInv, PassInv
<1>3. QED  BY <1>1, <1>2 DEF PassInv

(* The journal is cleared of a transaction that has its confirmations.      *)
LEMMA WriteStep ==
    ASSUME Alone, KeeperInv, WriteSettled("daemon")
    PROVE  KeeperInv'
<1>1. disk.pending # None /\ disk \in States /\ disk.pending \in Pendings /\ pass["daemon"].at = "write"
  BY DEF WriteSettled, KeeperInv, PassInv, JournalInv, States
<1>2. PICK i \in DOMAIN safe.mined :
        /\ safe.mined[i].tx = disk.pending.tx
        /\ disk' = [disk EXCEPT !.pending = None, !.lastHarvestWindow = WindowAfter(disk, safe.mined[i])]
  BY DEF WriteSettled, KeeperInv, PassInv
<1>3. UNCHANGED <<chain, published>> /\ pass' = [pass EXCEPT !["daemon"] = NoPass]
  BY DEF WriteSettled, Goes
<1>4. /\ disk' \in States /\ disk'.pending = None /\ disk'.day = disk.day
      /\ disk'.broadcasts = disk.broadcasts
      /\ disk'.lastHarvestWindow = WindowAfter(disk, safe.mined[i])
  BY <1>1, <1>2 DEF States, Pendings, WindowAfter
<1>5. ChainInv' /\ Today' = Today /\ head' = head /\ safe' = safe
  BY <1>3, ChainStays
<1>6. disk.lastHarvestWindow <= disk'.lastHarvestWindow
  BY <1>1, <1>4 DEF WindowAfter, KeeperInv, JournalInv, States, Pendings
<1>7. JournalInv'
  <2>1. Receipts(disk.pending.tx, safe') # {}
    BY <1>2, <1>5, ReceiptPlaces
  <2>2. OneUnresolved'
    BY <1>3, <1>5, <2>1, ChainStays DEF KeeperInv, JournalInv, OneUnresolved
  <2>3. ASSUME NEW done \in published, Done(done), done.tx.kind = "staker-harvest"
        PROVE  done.window <= disk'.lastHarvestWindow
    <3>1. CASE Open(done)
      <4>1. PICK receipt \in Receipts(done.tx, safe) : receipt.ok
        BY <2>3 DEF Done
      <4>2. receipt = safe.mined[i]
        BY <1>2, <3>1, ReceiptPlaces, MinedOnce DEF Open, KeeperInv, ChainInv
      <4>3. done.window = disk.pending.window
        BY <3>1 DEF KeeperInv, JournalInv, PendingRecord, Open
      <4>4. disk.pending.tx.kind = "staker-harvest" /\ disk.pending.window \in Nat
        BY <1>1, <2>3, <3>1 DEF Open, Pendings
      <4>5. QED  BY <1>4, <4>1, <4>2, <4>3, <4>4 DEF WindowAfter
    <3>2. CASE ~Open(done)
      <4>1. done.window <= disk.lastHarvestWindow
        BY <2>3, <3>2 DEF KeeperInv, JournalInv
      <4>2. done.window \in Nat /\ disk.lastHarvestWindow \in Nat /\ disk'.lastHarvestWindow \in Nat
        BY <1>1, <1>4 DEF KeeperInv, JournalInv, Records, States
      <4>3. QED  BY <1>6, <4>1, <4>2
    <3>3. QED  BY <3>1, <3>2
  <2>4. \A done \in published :
          Done(done)' /\ ~Open(done)' /\ done.tx.kind = "staker-harvest" => done.window <= disk'.lastHarvestWindow
    BY <1>3, <2>3, ChainStays
  <2>5. QED  BY <1>3, <1>4, <2>2, <2>4 DEF KeeperInv, JournalInv
<1>8. BudgetInv'
  <2>1. Counted' \subseteq Counted /\ published' = published
    BY <1>3, <1>4 DEF Counted
  <2>2. IsFiniteSet(Counted)
    BY FS_AddElement DEF KeeperInv, BudgetInv, Counted
  <2> DEFINE Left(day) == {record \in Counted' : record.day = day}
  <2>3. ASSUME NEW day
        PROVE  /\ Cardinality(Left(day)) \in Nat /\ Cardinality(CountedOn(day)) \in Nat
               /\ Cardinality(Left(day)) <= Cardinality(CountedOn(day))
    <3>1. Left(day) \subseteq CountedOn(day) /\ CountedOn(day) \subseteq Counted
      BY <2>1 DEF CountedOn
    <3>2. IsFiniteSet(CountedOn(day)) /\ IsFiniteSet(Left(day))
      BY <2>2, <3>1, FS_Subset
    <3>3. QED  BY <3>1, <3>2, FS_Subset, FS_CardinalityType
  <2>4. (\A day : CountedOn(day)' = Left(day')) /\ CountedOn(disk.day)' = Left(disk.day)
    BY <1>4 DEF CountedOn
  <2> HIDE DEF Left
  <2>5. disk.day \in Nat /\ disk.broadcasts \in Nat /\ maxBroadcastsPerDay \in Nat
    BY <1>1, KeeperSetting DEF States
  <2>6. \A day \in Nat : Cardinality(Left(day)) <= maxBroadcastsPerDay
    BY <2>3, <2>5 DEF KeeperInv, BudgetInv
  <2>7. Cardinality(Left(disk.day)) <= disk.broadcasts
    BY <2>3, <2>5 DEF KeeperInv, BudgetInv
  <2>8. QED  BY <1>4, <1>5, <2>1, <2>4, <2>6, <2>7 DEF KeeperInv, BudgetInv
<1>9. PassInv'
  BY <1>3, PassOver
<1>10. QED  BY <1>5, <1>7, <1>8, <1>9 DEF KeeperInv

(* What is published is what the journal holds.                             *)
LEMMA PublishStep ==
    ASSUME Alone, KeeperInv, Publish
    PROVE  /\ KeeperInv'
           /\ published' = published \cup {PendingRecord} /\ disk.pending # None
<1>1. /\ pass["daemon"].at \in {"publish", "reconcile"}
      /\ disk.pending # None /\ pass["daemon"].state = disk
  BY DEF Publish, Reconciling, KeeperInv, PassInv
<1>2. /\ published' = published \cup {PendingRecord}
      /\ UNCHANGED <<chain, disk>> /\ pass' = [pass EXCEPT !["daemon"] = NoPass]
  BY <1>1 DEF Publish, Goes, PendingRecord
<1>3. ChainInv' /\ Today' = Today /\ head' = head /\ safe' = safe
  BY <1>2, ChainStays
<1>4. disk \in States /\ disk.pending \in Pendings
  BY <1>1 DEF KeeperInv, JournalInv, States
<1>5. PendingRecord \in Records /\ Open(PendingRecord) /\ PendingRecord' = PendingRecord
      /\ \A record : Open(record)' <=> Open(record)
  BY <1>1, <1>2, <1>4 DEF PendingRecord, Records, Pendings, Open, States
<1>6. JournalInv'
  <2>1. OneUnresolved'
    BY <1>2, <1>3, <1>5, ChainStays DEF KeeperInv, JournalInv, OneUnresolved, Open
  <2>2. \A done \in published' : ~Open(done) => done \in published
    BY <1>2, <1>5
  <2>3. \A record \in published' : Open(record) => record = PendingRecord
    BY <1>1, <1>2, <1>5 DEF KeeperInv, JournalInv
  <2>4. \A done \in published' : Done(done)' => Done(done)
    BY <1>2, ChainStays
  <2>5. QED  BY <1>1, <1>2, <1>3, <1>5, <2>1, <2>2, <2>3, <2>4
             DEF KeeperInv, JournalInv, requiredPostcondition
<1>7. BudgetInv'
  <2>1. Counted' = Counted
    BY <1>1, <1>2, <1>5 DEF Counted
  <2>2. \A day : CountedOn(day)' = CountedOn(day)
    BY <2>1 DEF CountedOn
  <2>3. IsFiniteSet(published')
    BY <1>2, FS_AddElement DEF KeeperInv, BudgetInv
  <2>4. QED  BY <1>2, <1>3, <2>1, <2>2, <2>3 DEF KeeperInv, BudgetInv
<1>8. PassInv'
  BY <1>2, PassOver
<1>9. QED  BY <1>1, <1>2, <1>3, <1>6, <1>7, <1>8 DEF KeeperInv

(* A transaction is signed when all that was published is confirmed, so its *)
(* nonce is new; it is in the day's count before any node has it; and a     *)
(* finalization already mined would not have simulated.                     *)
LEMMA SignStep ==
    ASSUME Alone, KeeperInv, Sign
    PROVE  KeeperInv'
<1> DEFINE job == pass["daemon"]
           entry == [tx |-> [kind |-> job.kind, nonce |-> Len(head.mined)],
                     window |-> job.window, signedAt |-> head.now, before |-> job.before]
           signed == [job.state EXCEPT !.broadcasts = job.state.broadcasts + 1, !.pending = entry]
           added == [tx |-> entry.tx, day |-> job.state.day, window |-> job.window]
<1>1. /\ job.at = "sign" /\ disk.pending = None /\ Succeeds(job.kind, head) # {}
      /\ disk' = signed /\ pass' = [pass EXCEPT !["daemon"] = [at |-> "publish", state |-> signed]]
      /\ UNCHANGED <<chain, published>>
  BY DEF Sign, Goes, CountWritten, Resimulated, KeeperInv, PassInv
<1>2. /\ job.state \in States /\ job.kind \in Kinds /\ job.window \in Nat /\ job.before \in Nat
      /\ head \in Chains /\ safe \in Chains /\ disk \in States
  BY <1>1, JobTyped DEF KeeperInv, ChainInv, JournalInv
<1>3. /\ job.before <= safe.leg.blockCount
      /\ job.kind = "staker-harvest" => job.window > disk.lastHarvestWindow
      /\ job.state.lastHarvestWindow = disk.lastHarvestWindow
      /\ disk.day <= job.state.day /\ job.state.day <= Today
      /\ job.state.broadcasts = IF job.state.day = disk.day THEN disk.broadcasts ELSE 0
      /\ job.state.broadcasts < maxBroadcastsPerDay
  BY <1>1 DEF KeeperInv, PassInv
<1>4. head.now \in Nat /\ Len(head.mined) \in Nat
  BY <1>2 DEF Chains
<1>5. entry \in Pendings /\ entry # None
  BY <1>2, <1>4, KeeperSetting DEF Pendings, Txs
<1>6. /\ entry.tx.kind = job.kind /\ entry.tx.nonce = Len(head.mined) /\ entry.window = job.window
      /\ entry.before = job.before
  OBVIOUS
<1> HIDE DEF entry
<1>7. /\ signed \in States /\ signed.pending = entry /\ signed.day = job.state.day
      /\ signed.broadcasts = job.state.broadcasts + 1
      /\ signed.lastHarvestWindow = disk.lastHarvestWindow
  <2>1. job.state.broadcasts + 1 \in Nat
    BY <1>2 DEF States
  <2>2. QED  BY <1>2, <1>3, <1>5, <2>1 DEF States
<1>8. /\ ChainInv' /\ Today' = Today /\ head' = head /\ safe' = safe
      /\ \A tx : Receipts(tx, safe') = Receipts(tx, safe)
      /\ \A record : Done(record)' <=> Done(record)
  BY <1>1, ChainStays
<1>9. \A i \in DOMAIN head.mined : head.mined[i].tx # entry.tx
  <2>1. DOMAIN head.mined = 1..Len(head.mined)
    BY <1>2 DEF Chains
  <2>2. QED  BY <1>4, <1>6, <2>1 DEF KeeperInv, ChainInv, Recorded
<1>10. ASSUME NEW record \in published
       PROVE  Receipts(record.tx, safe) # {} /\ record.tx # entry.tx
  <2>1. Receipts(record.tx, safe) # {}
    BY <1>1 DEF KeeperInv, JournalInv, OneUnresolved
  <2>2. PICK i \in DOMAIN safe.mined : safe.mined[i].tx = record.tx
    BY <2>1, ReceiptPlaces
  <2>3. i \in DOMAIN head.mined /\ head.mined[i].tx = record.tx
    BY <2>2, MinedOnce DEF KeeperInv, ChainInv
  <2>4. QED  BY <1>9, <2>1, <2>3
<1> HIDE DEF signed
<1>11. \A record \in published : ~Open(record) /\ ~Open(record)'
  BY <1>1, <1>7, <1>10 DEF Open
<1>12. ASSUME NEW done \in published, Done(done), done.tx.kind = job.kind
       PROVE  job.kind \in {"staker-harvest", "hookr-buy-and-burn"}
  <2>1. PICK receipt \in Receipts(done.tx, safe) : receipt.ok
    BY <1>12 DEF Done
  <2>2. PICK i \in DOMAIN safe.mined : safe.mined[i].tx = done.tx /\ receipt = safe.mined[i]
    BY ReceiptPlaces
  <2>3. i \in DOMAIN head.mined /\ head.mined[i] = receipt
    BY <2>2, MinedOnce DEF KeeperInv, ChainInv
  <2>4. LeavesMark(head, receipt) /\ receipt.tx.kind = job.kind
    BY <1>12, <2>2, <2>3 DEF KeeperInv, ChainInv, Recorded
  <2>5. job.kind = "campaign-finalize" => FALSE
    BY <1>1, <2>1, <2>4 DEF Succeeds, LeavesMark
  <2>6. job.kind = "hook-blocks-finalize" => FALSE
    BY <1>1, <2>1, <2>4 DEF Succeeds, LeavesMark, Finalized
  <2>7. QED  BY <1>2, <2>5, <2>6 DEF Kinds
<1>13. JournalInv'
  <2>1. OneUnresolved'
    BY <1>1, <1>8, <1>10 DEF OneUnresolved
  <2>2. \A done \in published : Done(done) /\ done.tx.kind = "staker-harvest" => done.window <= disk.lastHarvestWindow
    BY <1>11 DEF KeeperInv, JournalInv
  <2>3. disk'.pending = entry /\ disk'.lastHarvestWindow = disk.lastHarvestWindow /\ disk' \in States
    BY <1>1, <1>7
  <2>4. published' = published
    BY <1>1
  <2>5. (disk.pending # None =>
          /\ disk.pending.before <= safe.leg.blockCount
          /\ \A i \in DOMAIN head.mined :
                head.mined[i].tx = disk.pending.tx => requiredPostcondition(disk.pending, head.mined[i])
          /\ disk.pending.tx.kind = "staker-harvest" => disk.pending.window > disk.lastHarvestWindow
          /\ \A record \in published : Open(record) => record = PendingRecord
          /\ \A done \in published :
                Done(done) /\ ~Open(done) /\ done.tx.kind = disk.pending.tx.kind =>
                    disk.pending.tx.kind \in {"staker-harvest", "hookr-buy-and-burn"})'
    BY <1>3, <1>6, <1>8, <1>9, <1>11, <1>12, <2>3, <2>4
  <2>6. QED  BY <1>8, <2>1, <2>2, <2>3, <2>4, <2>5 DEF KeeperInv, JournalInv
<1>14. Counted = published /\ Counted' = published \cup {added}
  BY <1>1, <1>5, <1>6, <1>7 DEF Counted, PendingRecord
<1>15. BudgetInv'
  <2> DEFINE Before(day) == {record \in published : record.day = day}
             After(day) == {record \in published \cup {added} : record.day = day}
  <2>1. /\ \A day : CountedOn(day) = Before(day)
        /\ \A day : CountedOn(day)' = After(day')
    BY <1>14 DEF CountedOn
  <2>2. added.day = job.state.day /\ job.state.day \in Nat /\ disk.day \in Nat
        /\ job.state.broadcasts \in Nat /\ disk.broadcasts \in Nat /\ maxBroadcastsPerDay \in Nat
    BY <1>2, KeeperSetting DEF States
  <2>3. /\ \A day : day # job.state.day => After(day) = Before(day)
        /\ After(job.state.day) = Before(job.state.day) \cup {added}
    BY <2>2
  <2>4. \A day : IsFiniteSet(Before(day)) /\ Cardinality(Before(day)) \in Nat
    BY FS_Subset, FS_CardinalityType DEF KeeperInv, BudgetInv
  <2>5. added \notin published
    BY <1>10
  <2>6. job.state.day # disk.day => Before(job.state.day) = {}
    BY <1>3, <1>14, <2>2 DEF KeeperInv, BudgetInv, JournalInv, Records
  <2>7. Cardinality(After(job.state.day)) = Cardinality(Before(job.state.day)) + 1
    <3>1. Before(job.state.day) \subseteq published
      OBVIOUS
    <3> DEFINE counted == Before(job.state.day)
    <3>2. added \notin counted /\ IsFiniteSet(counted) /\ After(job.state.day) = counted \cup {added}
      BY <2>3, <2>4, <2>5, <3>1
    <3> HIDE DEF counted, added
    <3>3. Cardinality(counted \cup {added}) = Cardinality(counted) + 1
      BY <3>2, FS_AddElement
    <3>4. QED  BY <3>2, <3>3 DEF counted
  <2> HIDE DEF Before, After
  <2>8. Cardinality(Before(job.state.day)) <= job.state.broadcasts
    <3>1. CASE job.state.day = disk.day
      BY <1>3, <2>1, <3>1 DEF KeeperInv, BudgetInv
    <3>2. CASE job.state.day # disk.day
      BY <2>2, <2>6, <3>2, FS_EmptySet
    <3>3. QED  BY <3>1, <3>2
  <2>9. Cardinality(After(job.state.day)) <= job.state.broadcasts + 1
    BY <2>2, <2>4, <2>7, <2>8
  <2>10. \A day \in Nat : Cardinality(After(day)) <= maxBroadcastsPerDay
    <3>1. ASSUME NEW day \in Nat PROVE Cardinality(After(day)) <= maxBroadcastsPerDay
      <4>1. CASE day = job.state.day
        BY <1>3, <2>2, <2>4, <2>7, <2>8, <4>1
      <4>2. CASE day # job.state.day
        BY <2>1, <2>3, <4>2 DEF KeeperInv, BudgetInv
      <4>3. QED  BY <4>1, <4>2
    <3>2. QED  BY <3>1
  <2>11. disk'.day = job.state.day /\ disk'.broadcasts = job.state.broadcasts + 1
    BY <1>1, <1>7
  <2>12. CountedOn(disk.day)' = After(job.state.day)
    BY <2>1, <2>11
  <2>13. \A record \in published \cup {added} : record.day <= job.state.day
    BY <1>2, <1>3, <1>14, <2>2 DEF KeeperInv, BudgetInv, JournalInv, Records
  <2>14. disk'.broadcasts <= maxBroadcastsPerDay /\ disk'.day <= Today'
    BY <1>3, <1>8, <2>2, <2>11
  <2>15. QED  BY <1>1, <1>14, <2>1, <2>9, <2>10, <2>11, <2>12, <2>13, <2>14 DEF KeeperInv, BudgetInv
<1>16. PassInv'
  <2>1. pass'["daemon"] = [at |-> "publish", state |-> signed]
    BY <1>1, KeeperSetting DEF KeeperInv, PassInv
  <2>2. pass' \in [Processes -> {NoPass} \cup Planning
                                  \cup [at : {"plan", "reconcile", "publish", "write"}, state : States]]
    BY <1>1, <1>7 DEF KeeperInv, PassInv
  <2>3. QED  BY <1>1, <1>5, <1>7, <2>1, <2>2 DEF PassInv
<1>17. QED  BY <1>8, <1>13, <1>15, <1>16 DEF KeeperInv

(* A pass, a reorganisation, a crash or a restart keeps the invariant.      *)
LEMMA KeeperStep ==
    ASSUME Alone, KeeperInv, [Next]_vars PROVE KeeperInv'
<1>1. CASE Tick \/ OthersAct \/ Confirm \/ Age \/ Reorg
  BY <1>1, ChainStep
<1>2. ASSUME NEW record \in published, NEW ok \in BOOLEAN, Mine(record.tx, ok)
      PROVE  KeeperInv'
  BY <1>2, MineStep
<1>3. ASSUME NEW p \in Processes, BeginPass(p) \/ Settle(p) \/ WriteSettled(p) \/ Abort(p)
      PROVE  KeeperInv'
  <2>1. p = "daemon"
    BY DEF Alone
  <2>2. QED  BY <1>3, <2>1, BeginStep, SettleStep, WriteStep
<1>4. CASE Publish
  BY <1>4, PublishStep
<1>5. CASE Plan
  BY <1>5, PlanStep
<1>6. CASE Admit
  BY <1>6, AdmitStep
<1>7. CASE Sign
  BY <1>7, SignStep
<1>8. CASE UNCHANGED vars
  <2>1. UNCHANGED <<chain, disk, published>> /\ pass' = pass
    BY <1>8 DEF vars
  <2>2. PassInv'
    BY <2>1 DEF KeeperInv, PassInv, Today, WindowAfter, chain
  <2>3. QED  BY <2>1, <2>2, PassGoesOn
<1>9. QED  BY <1>1, <1>2, <1>3, <1>4, <1>5, <1>6, <1>7, <1>8 DEF Next

(* What journal, file, chain and pass may rely on of each other always holds. *)
THEOREM KeeperInvariant ==
    ASSUME Alone PROVE Spec => []KeeperInv
<1>1. Init => KeeperInv
  BY KeeperInit
<1>2. KeeperInv /\ [Next]_vars => KeeperInv'
  BY KeeperStep
<1>3. QED  BY <1>1, <1>2, PTL DEF Spec

(* reconcilePending: a transaction that a node may still mine is the        *)
(* journal's, or has its confirmations.                                     *)
THEOREM OneUnresolvedTheorem ==
    ASSUME Alone PROVE Spec => []OneUnresolved
<1>1. KeeperInv => OneUnresolved
  BY DEF KeeperInv, JournalInv
<1>2. QED  BY <1>1, KeeperInvariant, PTL

(* admitDailyBudget: no day has more broadcasts than its budget, whatever   *)
(* was restarted or reorganised on it.                                      *)
THEOREM DailyBudgetTheorem ==
    ASSUME Alone PROVE Spec => []DailyBudgetKept
<1>1. ASSUME KeeperInv, NEW record \in published
      PROVE  Cardinality({other \in published : other.day = record.day}) <= maxBroadcastsPerDay
  <2> DEFINE same == {other \in published : other.day = record.day}
  <2>1. record.day \in Nat
    BY <1>1 DEF KeeperInv, JournalInv, Records
  <2>2. same \subseteq CountedOn(record.day) /\ CountedOn(record.day) \subseteq Counted
    BY DEF CountedOn, Counted
  <2>3. IsFiniteSet(Counted)
    BY <1>1, FS_AddElement DEF KeeperInv, BudgetInv, Counted
  <2> HIDE DEF same
  <2>4. IsFiniteSet(CountedOn(record.day))
    BY <2>2, <2>3, FS_Subset
  <2>5. /\ Cardinality(same) \in Nat /\ Cardinality(CountedOn(record.day)) \in Nat
        /\ Cardinality(same) <= Cardinality(CountedOn(record.day))
    BY <2>2, <2>4, FS_Subset, FS_CardinalityType
  <2>6. Cardinality(CountedOn(record.day)) <= maxBroadcastsPerDay
    BY <1>1, <2>1 DEF KeeperInv, BudgetInv
  <2>7. Cardinality(same) <= maxBroadcastsPerDay
    BY <2>5, <2>6, KeeperSetting
  <2>8. QED  BY <2>7 DEF same
<1>2. KeeperInv => DailyBudgetKept
  BY <1>1 DEF DailyBudgetKept
<1>3. QED  BY <1>2, KeeperInvariant, PTL

(* A confirmed burn is always seen on the ledger that was noted before it,  *)
(* so the journal can always be cleared.                                    *)
THEOREM SettlementTheorem ==
    ASSUME Alone PROVE Spec => []SettlementNeverRefuses
<1>1. ASSUME KeeperInv, disk.pending # None, NEW receipt \in Receipts(disk.pending.tx, safe)
      PROVE  requiredPostcondition(disk.pending, receipt)
  <2>1. PICK i \in DOMAIN safe.mined : safe.mined[i].tx = disk.pending.tx /\ receipt = safe.mined[i]
    BY ReceiptPlaces
  <2>2. i \in DOMAIN head.mined /\ head.mined[i] = receipt
    BY <1>1, <2>1, MinedOnce DEF KeeperInv, ChainInv
  <2>3. QED  BY <1>1, <2>1, <2>2 DEF KeeperInv, JournalInv
<1>2. KeeperInv => SettlementNeverRefuses
  BY <1>1 DEF SettlementNeverRefuses
<1>3. QED  BY <1>2, KeeperInvariant, PTL

(* A harvest window that was harvested is not harvested again, and neither  *)
(* leg is finalized twice.                                                  *)
THEOREM NoWorkTwiceTheorem ==
    ASSUME Alone PROVE Spec => NoWorkTwice
<1> DEFINE Repeats(record, done) ==
              Done(done) /\ done.tx.kind = record.tx.kind =>
                  \/ record.tx.kind = "hookr-buy-and-burn"
                  \/ record.tx.kind = "staker-harvest" /\ record.window # done.window
<1>1. ASSUME KeeperInv, Publish, NEW record \in published' \ published, NEW done \in published
      PROVE  Repeats(record, done)
  <2>1. record = PendingRecord /\ disk.pending # None
    BY <1>1, PublishStep
  <2>2. ~Open(done)
    BY <1>1, <2>1 DEF KeeperInv, JournalInv
  <2>3. record.tx = disk.pending.tx /\ record.window = disk.pending.window
    BY <2>1 DEF PendingRecord
  <2>4. ASSUME Done(done), done.tx.kind = record.tx.kind
        PROVE  \/ record.tx.kind = "hookr-buy-and-burn"
               \/ record.tx.kind = "staker-harvest" /\ record.window # done.window
    <3>1. record.tx.kind \in {"staker-harvest", "hookr-buy-and-burn"}
      BY <1>1, <2>1, <2>2, <2>3, <2>4 DEF KeeperInv, JournalInv
    <3>2. CASE record.tx.kind = "staker-harvest"
      <4>1. done.window <= disk.lastHarvestWindow /\ disk.pending.window > disk.lastHarvestWindow
        BY <1>1, <2>1, <2>2, <2>3, <2>4, <3>2 DEF KeeperInv, JournalInv
      <4>2. done.window \in Nat /\ disk.lastHarvestWindow \in Nat /\ disk.pending.window \in Nat
        BY <1>1, <2>1 DEF KeeperInv, JournalInv, Records, States, Pendings
      <4>3. QED  BY <2>3, <3>2, <4>1, <4>2
    <3>3. QED  BY <3>1, <3>2
  <2>5. QED  BY <2>4
<1>2. ASSUME [Next]_vars, ~Publish
      PROVE  published' = published
  <2>1. CASE UNCHANGED vars
    BY <2>1 DEF vars
  <2>2. CASE Tick \/ OthersAct \/ Confirm \/ Age \/ Reorg
    BY <2>2 DEF Tick, OthersAct, Confirm, Age, Reorg
  <2>3. CASE Plan \/ Admit \/ Sign
    BY <2>3 DEF Plan, Admit, Sign
  <2>4. CASE \E record \in published, ok \in BOOLEAN : Mine(record.tx, ok)
    BY <2>4 DEF Mine
  <2>5. CASE \E p \in Processes : BeginPass(p) \/ Settle(p) \/ WriteSettled(p) \/ Abort(p)
    BY <2>5 DEF BeginPass, Settle, WriteSettled, Abort
  <2>6. QED  BY <1>2, <2>1, <2>2, <2>3, <2>4, <2>5 DEF Next
<1>3. ASSUME KeeperInv, [Next]_vars, NEW record \in published' \ published, NEW done \in published
      PROVE  Repeats(record, done)
  BY <1>1, <1>2, <1>3
<1>4. KeeperInv /\ [Next]_vars =>
        [\A record \in published' \ published, done \in published : Repeats(record, done)]_vars
  BY <1>3
<1>5. QED  BY <1>4, KeeperInvariant, PTL DEF Spec, NoWorkTwice
=============================================================================
