--------------------------- MODULE ExecutorProofs ---------------------------
(***************************************************************************)
(* The signer lane, for every number of authorizations, conversions,       *)
(* nonces, crashes and faults.  Whichever way a write of the state file    *)
(* fails, nothing is signed behind an open circuit, and first bytes leave  *)
(* only of a journaled transaction or by a redispatch behind one.          *)
(*                                                                         *)
(* The rest is proved under WritesLand (a write that reports a failure has *)
(* still replaced the file): at most one transaction is unresolved, no     *)
(* authorization is sent twice and no run is counted twice.                *)
(***************************************************************************)
EXTENDS ExecutorProperties, FiniteSetTheorems, TLAPS

(* The types without the lane, and the lane with who is at its head.        *)
BooksTyped ==
    /\ chain \in Seq([tx : Txs, ok : BOOLEAN]) /\ final \in 0..Len(chain)
    /\ relays \subseteq Txs /\ dispatched \subseteq Txs
    /\ mem \in [outbox : Outboxes, earned : Nat, halted : BOOLEAN]
    /\ disk \in [outbox : Outboxes, earned : Nat]
    /\ up \in BOOLEAN /\ faults \in 0..MaxFaults /\ crashes \in 0..MaxCrashes

LoopsTyped == pc \in [Loops -> Places] /\ job \in [Loops -> Jobs]

Critical == LanePlaces \ {"known", "admit"}

LaneOK ==
    /\ lane \in Seq(Loops)
    /\ {lane[i] : i \in DOMAIN lane} = {l \in Loops : pc[l] \in LanePlaces}
    /\ \A i, j \in DOMAIN lane : lane[i] = lane[j] => i = j
    /\ \A l \in Loops : pc[l] \in Critical => HoldsLane(l)

(* What a loop past its admission may rely on, and what a redispatch holds. *)
LoopOK(l) ==
    /\ pc[l] \in {"sign", "prepare"} => ~mem.halted /\ Outstanding = {}
    /\ pc[l] = "prepare" =>
          job[l].tx \in Txs /\ job[l].tx.nonce = final /\ DueAt(job[l].tx.work, final)
    /\ pc[l] = "dispatch" => job[l].tx \in Outstanding \ dispatched
    /\ pc[l] = "mark" => job[l].tx \in dispatched /\ ~Final(job[l].tx)

Redispatching == pc["pass"] \in {"known", "resend", "resent", "refused"}
RedispatchOK == Redispatching => job["pass"].tx \in Outstanding

Books == BooksTyped /\ NetworkInv /\ JournalInv /\ EarnedInv

(* The invariant, as the parts the steps are proved from.                   *)
LEMMA LaneInvParts ==
    LaneInv <=> (Books /\ LoopsTyped /\ LaneOK /\ (\A l \in Loops : LoopOK(l)) /\ RedispatchOK)
BY DEF LaneInv, Books, TypeOK, BooksTyped, LoopsTyped, LaneOK, PlaceInv, LoopOK, RedispatchOK,
       Redispatching, Critical

----------------------------------------------------------------------------
(* The lane. *)

(* A loop that stays on its side of the lane. *)
LEMMA LaneStays ==
    ASSUME LaneOK, LoopsTyped, NEW l \in Loops, NEW p, UNCHANGED lane,
           pc' = [pc EXCEPT ![l] = p],
           p \in LanePlaces <=> pc[l] \in LanePlaces, p \in Critical => HoldsLane(l)
    PROVE  LaneOK'
BY DEF LaneOK, LoopsTyped, HoldsLane

(* A loop that queues up. *)
LEMMA LaneEnters ==
    ASSUME LaneOK, LoopsTyped, NEW l \in Loops, NEW p \in {"known", "admit"},
           lane' = Append(lane, l), pc' = [pc EXCEPT ![l] = p], pc[l] \notin LanePlaces
    PROVE  LaneOK'
<1> DEFINE n == Len(lane)
<1>0. n \in Nat /\ DOMAIN lane = 1..n /\ lane \in [1..n -> Loops]
  BY DEF LaneOK
<1>1. lane' \in Seq(Loops) /\ Len(lane') = n + 1 /\ DOMAIN lane' = 1..(n + 1)
      /\ lane'[n + 1] = l /\ \A i \in 1..n : lane'[i] = lane[i]
  BY <1>0 DEF LaneOK
<1>2. \A i \in 1..n : lane[i] # l
  BY <1>0 DEF LaneOK
<1>3. {lane'[i] : i \in DOMAIN lane'} = {lane[i] : i \in DOMAIN lane} \cup {l}
  BY <1>0, <1>1
<1>4. {k \in Loops : pc'[k] \in LanePlaces} = {k \in Loops : pc[k] \in LanePlaces} \cup {l}
  BY DEF LoopsTyped, LanePlaces
<1>5. \A i, j \in DOMAIN lane' : lane'[i] = lane'[j] => i = j
  BY <1>0, <1>1, <1>2 DEF LaneOK
<1>6. \A k \in Loops : pc'[k] \in Critical => pc[k] \in Critical
  BY DEF LoopsTyped, Critical
<1>7. \A k \in Loops : HoldsLane(k) => HoldsLane(k)'
  BY <1>0, <1>1 DEF HoldsLane, LaneOK
<1> QED
  BY <1>1, <1>3, <1>4, <1>5, <1>6, <1>7 DEF LaneOK

(* A loop that leaves it: nobody else was past its admission. *)
LEMMA Exclusive ==
    ASSUME LaneOK, NEW l \in Loops, HoldsLane(l), NEW k \in Loops, k # l
    PROVE  pc[k] \notin Critical
BY DEF LaneOK, HoldsLane

(* The head of the lane leaves it, and the next in line may enter.          *)
LEMMA LaneLeaves ==
    ASSUME LaneOK, LoopsTyped, NEW l \in Loops, NEW p, HoldsLane(l),
           lane' = Released, pc' = [pc EXCEPT ![l] = p], p \notin LanePlaces
    PROVE  LaneOK'
<1> DEFINE n == Len(lane)
<1>0. n \in Nat /\ n > 0 /\ DOMAIN lane = 1..n /\ lane \in [1..n -> Loops] /\ lane[1] = l
  BY DEF LaneOK, HoldsLane
<1>1. lane' \in Seq(Loops) /\ Len(lane') = n - 1 /\ DOMAIN lane' = 1..(n - 1)
      /\ \A i \in 1..(n - 1) : lane'[i] = lane[i + 1]
  BY <1>0 DEF LaneOK, Released
<1>2. \A i \in 2..n : lane[i] # l
  BY <1>0 DEF LaneOK
<1>3. {lane'[i] : i \in DOMAIN lane'} = {lane[i] : i \in DOMAIN lane} \ {l}
  <2>1. ASSUME NEW i \in DOMAIN lane' PROVE lane'[i] \in {lane[j] : j \in DOMAIN lane} \ {l}
    BY <1>0, <1>1, <1>2
  <2>2. ASSUME NEW j \in DOMAIN lane, lane[j] # l PROVE \E i \in DOMAIN lane' : lane'[i] = lane[j]
    <3>1. j - 1 \in DOMAIN lane' /\ (j - 1) + 1 = j
      BY <1>0, <1>1, <2>2
    <3> QED
      BY <3>1, <1>1
  <2> QED
    BY <2>1, <2>2
<1>4. {k \in Loops : pc'[k] \in LanePlaces} = {k \in Loops : pc[k] \in LanePlaces} \ {l}
  <2>1. \A k \in Loops : pc'[k] = IF k = l THEN p ELSE pc[k]
    BY DEF LoopsTyped
  <2> QED
    BY <2>1
<1>5. \A i, j \in DOMAIN lane' : lane'[i] = lane'[j] => i = j
  <2> SUFFICES ASSUME NEW i \in DOMAIN lane', NEW j \in DOMAIN lane', lane'[i] = lane'[j]
               PROVE  i = j
    OBVIOUS
  <2>1. i + 1 \in DOMAIN lane /\ j + 1 \in DOMAIN lane /\ lane[i + 1] = lane[j + 1]
    BY <1>0, <1>1
  <2>2. i + 1 = j + 1
    BY <2>1 DEF LaneOK
  <2> QED
    BY <2>2, <1>0, <1>1
<1>6. \A k \in Loops : pc'[k] \notin Critical
  BY Exclusive DEF LoopsTyped, Critical
<1> QED
  BY <1>1, <1>3, <1>4, <1>5, <1>6 DEF LaneOK

----------------------------------------------------------------------------
(* What is final, and what the chain may still take. *)

(* A final transaction has used its nonce.                                  *)
LEMMA FinalNonce ==
    ASSUME Books, NEW tx, Final(tx)
    PROVE  /\ tx.nonce < final
           /\ \E k \in 1..final : chain[k].tx = tx /\ k = tx.nonce + 1
<1>1. PICK k \in 1..final : chain[k].tx = tx
  BY DEF Final, MinedAt
<1>2. final \in Nat /\ Len(chain) \in Nat /\ k \in 1..Len(chain)
  BY DEF Books, BooksTyped
<1>3. tx.nonce = k - 1
  BY <1>1, <1>2 DEF Books, NetworkInv
<1> QED
  BY <1>1, <1>2, <1>3

(* When everything that left is final, the chain has nothing above it.      *)
LEMMA NothingPending ==
    ASSUME Books, \A tx \in dispatched : Final(tx)
    PROVE  final = Len(chain) /\ \A tx \in relays : tx.nonce # Len(chain)
<1>0. final \in Nat /\ Len(chain) \in Nat /\ final <= Len(chain)
  BY DEF Books, BooksTyped
<1>1. final = Len(chain)
  <2> SUFFICES ASSUME final < Len(chain) PROVE FALSE
    BY <1>0
  <2>1. chain[final + 1].tx \in dispatched /\ chain[final + 1].tx.nonce = final
    BY <1>0 DEF Books, NetworkInv
  <2>2. chain[final + 1].tx.nonce < final
    BY <2>1, FinalNonce
  <2> QED
    BY <2>1, <2>2, <1>0
<1>2. ASSUME NEW tx \in relays PROVE tx.nonce < final
  <2>1. Final(tx)
    BY DEF Books, NetworkInv
  <2> QED
    BY <2>1, FinalNonce
<1> QED
  BY <1>0, <1>1, <1>2

(* While an entry waits that never left, everything that did is final.      *)
LEMMA Waiting ==
    ASSUME Books, NEW u \in Outstanding, u \notin dispatched
    PROVE  \A tx \in dispatched : Final(tx)
BY DEF Books, JournalInv

(* An empty outbox says the same. *)
LEMMA Vacant ==
    ASSUME Books, Outstanding = {}
    PROVE  \A tx \in dispatched : Final(tx)
BY DEF Books, JournalInv

(* The finalized boundary decides what is final and what is due.            *)
LEMMA BoundaryStays ==
    ASSUME final \in Nat, final' = final, \A k \in 1..final : chain'[k] = chain[k]
    PROVE  /\ \A tx : Final(tx)' <=> Final(tx)
           /\ \A w : DueAt(w, final)' <=> DueAt(w, final)
BY DEF Final, MinedAt, DueAt, SucceededBy

----------------------------------------------------------------------------
(* Earnings: whatever fewer are waiting to be settled, no fewer successes   *)
(* are counted.                                                             *)

(* Of two sets of blocks the larger counts no fewer.                        *)
LEMMA MoreCounted ==
    ASSUME NEW S, NEW T, NEW m \in Nat, S \subseteq T, T \subseteq 1..m
    PROVE  /\ Cardinality(S) \in Nat /\ Cardinality(T) \in Nat
           /\ Cardinality(S) <= Cardinality(T)
<1>1. IsFiniteSet(1..m)
  BY FS_Interval
<1>2. IsFiniteSet(T) /\ IsFiniteSet(S)
  BY <1>1, FS_Subset
<1> QED
  BY <1>2, FS_Subset, FS_CardinalityType

(* The memory side of a step that pays nobody.                              *)
LEMMA MemoryCount ==
    ASSUME Books, final' \in Nat, final <= final', \A k \in 1..final : chain'[k] = chain[k],
           mem'.earned = mem.earned,
           \A k \in 1..final : chain[k].tx \in Outstanding' \cup job'["pass"].settled
                                  => chain[k].tx \in Outstanding \cup job["pass"].settled
    PROVE  mem'.earned <= Cardinality(Counted(Outstanding \cup job["pass"].settled)')
<1> DEFINE S == Counted(Outstanding \cup job["pass"].settled)
           T == Counted(Outstanding \cup job["pass"].settled)'
<1>0. final \in Nat /\ final' \in Nat /\ mem.earned \in Nat
  BY DEF Books, BooksTyped
<1>1. S \subseteq T /\ T \subseteq 1..final'
  BY <1>0 DEF Counted
<1>2. mem.earned <= Cardinality(S)
  BY DEF Books, EarnedInv
<1> HIDE DEF S, T
<1>3. Cardinality(S) \in Nat /\ Cardinality(T) \in Nat /\ Cardinality(S) <= Cardinality(T)
  BY <1>0, <1>1, MoreCounted
<1>4. mem'.earned <= Cardinality(T)
  BY <1>0, <1>2, <1>3
<1> QED
  BY <1>4 DEF T

(* The file side: it keeps its figure, or takes the memory's.               *)
LEMMA FileCount ==
    ASSUME Books, final' \in Nat, final <= final', \A k \in 1..final : chain'[k] = chain[k],
           \/ /\ disk'.earned = disk.earned
              /\ \A k \in 1..final : chain[k].tx \in Journaled' => chain[k].tx \in Journaled
           \/ /\ disk'.earned = mem.earned
              /\ \A k \in 1..final : chain[k].tx \in Journaled' =>
                                        chain[k].tx \in Outstanding \cup job["pass"].settled
    PROVE  disk'.earned <= Cardinality(Counted(Journaled)')
<1> DEFINE S == Counted(Outstanding \cup job["pass"].settled)
           D == Counted(Journaled)
           T == Counted(Journaled)'
<1>0. final \in Nat /\ final' \in Nat /\ mem.earned \in Nat /\ disk.earned \in Nat
  BY DEF Books, BooksTyped
<1>1. T \subseteq 1..final'
  BY <1>0 DEF Counted
<1>2. mem.earned <= Cardinality(S) /\ disk.earned <= Cardinality(D)
  BY DEF Books, EarnedInv
<1>3. (disk'.earned = disk.earned /\ D \subseteq T) \/ (disk'.earned = mem.earned /\ S \subseteq T)
  BY <1>0 DEF Counted
<1> HIDE DEF S, D, T
<1>4. CASE disk'.earned = disk.earned /\ D \subseteq T
  <2>1. Cardinality(D) \in Nat /\ Cardinality(T) \in Nat /\ Cardinality(D) <= Cardinality(T)
    BY <1>0, <1>1, <1>4, MoreCounted
  <2> QED
    BY <1>0, <1>2, <1>4, <2>1 DEF T
<1>5. CASE disk'.earned = mem.earned /\ S \subseteq T
  <2>1. Cardinality(S) \in Nat /\ Cardinality(T) \in Nat /\ Cardinality(S) <= Cardinality(T)
    BY <1>0, <1>1, <1>5, MoreCounted
  <2> QED
    BY <1>0, <1>2, <1>5, <2>1 DEF T
<1> QED
  BY <1>3, <1>4, <1>5

----------------------------------------------------------------------------
(* What the steps do to the books, whichever loop takes them.               *)

Settling == job["pass"].settled
FewerSettling == job'["pass"].settled \subseteq Settling

(* A transaction is of one work, at one nonce.                              *)
LEMMA TxShape == \A tx \in Txs : tx.work \in Work /\ tx.nonce \in Nat
BY ExecutorSetting DEF Txs

(* A step of a loop alone.                                                  *)
LEMMA BooksStay ==
    ASSUME Books, FewerSettling, UNCHANGED <<network, mem, disk, dispatched>>,
           up' \in BOOLEAN, faults' \in 0..MaxFaults, crashes' \in 0..MaxCrashes
    PROVE  Books'
<1>0. final \in Nat
  BY DEF Books, BooksTyped
<1>1. BooksTyped'
  BY DEF Books, BooksTyped, network
<1>2. NetworkInv'
  BY DEF Books, NetworkInv, network
<1>3. /\ Outstanding' = Outstanding /\ Journaled' = Journaled
      /\ \A tx : Final(tx)' <=> Final(tx)
      /\ \A w : DueAt(w, final)' <=> DueAt(w, final)
  BY <1>0, BoundaryStays DEF network, Outstanding, Journaled
<1>4. JournalInv'
  BY <1>3 DEF Books, JournalInv, network
<1>5. mem'.earned <= Cardinality(Counted(Outstanding \cup job["pass"].settled)')
  <2>1. \A k \in 1..final : chain[k].tx \in Outstanding' \cup job'["pass"].settled
                               => chain[k].tx \in Outstanding \cup job["pass"].settled
    BY <1>3 DEF FewerSettling, Settling
  <2> QED
    BY <1>0, <2>1, MemoryCount DEF network
<1>6. disk'.earned <= Cardinality(Counted(Journaled)')
  BY <1>0, <1>3, FileCount DEF network
<1>7. EarnedInv'
  BY <1>3, <1>5, <1>6 DEF Books, EarnedInv, FewerSettling, Settling
<1> QED
  BY <1>1, <1>2, <1>4, <1>7 DEF Books

(* A write that lands: the file takes the memory's outbox and earnings.     *)
LEMMA WriteFacts ==
    ASSUME WritesLand, Books, NEW m \in [outbox : Outboxes, earned : Nat, halted : BOOLEAN],
           NEW fate \in Fates, WriteState(m, fate)
    PROVE  /\ disk' = [outbox |-> m.outbox, earned |-> m.earned]
           /\ faults' \in 0..MaxFaults
<1>1. fate # "unwritten" /\ (fate = "ok" \/ faults < MaxFaults)
  BY ExecutorSetting DEF Fates, WritesLand
<1>2. faults \in Nat /\ faults <= MaxFaults
  BY ExecutorSetting DEF Books, BooksTyped
<1> QED
  BY <1>1, <1>2, ExecutorSetting DEF WriteState, FileAfter

(* An entry is journaled: one already there, or one the chain can take next *)
(* while nothing else is.                                                   *)
LEMMA EntryWritten ==
    ASSUME WritesLand, Books, FewerSettling, UNCHANGED <<network, dispatched>>,
           up' \in BOOLEAN, crashes' \in 0..MaxCrashes,
           NEW tx \in Txs, NEW s \in {"prepared", "submitted"}, NEW fate \in Fates,
           PersistOrOpenCircuit(SetEntry(tx, s), fate),
           Outstanding \subseteq {tx},
           tx \in Outstanding \/ (tx.nonce = final /\ DueAt(tx.work, final))
    PROVE  Books' /\ Outstanding' = {tx} /\ (fate = "ok" => mem'.halted = mem.halted)
<1> DEFINE m == [mem EXCEPT !.outbox = SetEntry(tx, s)]
<1>0. final \in Nat /\ mem \in [outbox : Outboxes, earned : Nat, halted : BOOLEAN]
  BY DEF Books, BooksTyped
<1>1. /\ SetEntry(tx, s) \in Outboxes /\ SetEntry(tx, s)[tx] # "absent"
      /\ \A u \in Txs : u # tx => SetEntry(tx, s)[u] = "absent"
  BY <1>0 DEF SetEntry, Outboxes, Outstanding
<1>2. m \in [outbox : Outboxes, earned : Nat, halted : BOOLEAN]
  BY <1>0, <1>1
<1>3. /\ mem' \in [outbox : Outboxes, earned : Nat, halted : BOOLEAN]
      /\ mem'.outbox = SetEntry(tx, s) /\ mem'.earned = mem.earned
      /\ fate = "ok" => mem'.halted = mem.halted
  BY <1>0, <1>2 DEF PersistOrOpenCircuit
<1>4. /\ disk' = [outbox |-> SetEntry(tx, s), earned |-> mem.earned]
      /\ faults' \in 0..MaxFaults
  <2>1. WriteState(m, fate)
    BY DEF PersistOrOpenCircuit
  <2>2. m.outbox = SetEntry(tx, s) /\ m.earned = mem.earned
    BY <1>0
  <2> HIDE DEF m
  <2> QED
    BY <1>2, <2>1, <2>2, WriteFacts
<1>5. Outstanding' = {tx} /\ Journaled' = {tx}
  BY <1>1, <1>3, <1>4 DEF Outstanding, Journaled
<1>6. /\ \A u : Final(u)' <=> Final(u)
      /\ \A w : DueAt(w, final)' <=> DueAt(w, final)
  BY <1>0, BoundaryStays DEF network
<1>7. BooksTyped'
  BY <1>0, <1>1, <1>3, <1>4 DEF Books, BooksTyped, network
<1>8. NetworkInv'
  BY DEF Books, NetworkInv, network
<1>9. JournalInv'
  BY <1>5, <1>6 DEF Books, JournalInv, network
<1>10. Final(tx) => tx \in Outstanding
  BY <1>0, FinalNonce, TxShape
<1>11. mem'.earned <= Cardinality(Counted(Outstanding \cup job["pass"].settled)')
  <2>1. ASSUME NEW k \in 1..final, chain[k].tx \in Outstanding' \cup job'["pass"].settled
        PROVE  chain[k].tx \in Outstanding \cup job["pass"].settled
    <3>1. Final(chain[k].tx)
      BY DEF Final, MinedAt
    <3> QED
      BY <1>5, <1>10, <2>1, <3>1 DEF FewerSettling, Settling
  <2> QED
    BY <1>0, <1>3, <2>1, MemoryCount DEF network
<1>12. disk'.earned <= Cardinality(Counted(Journaled)')
  <2>1. ASSUME NEW k \in 1..final, chain[k].tx \in Journaled'
        PROVE  chain[k].tx \in Outstanding \cup job["pass"].settled
    <3>1. Final(chain[k].tx)
      BY DEF Final, MinedAt
    <3> QED
      BY <1>5, <1>10, <2>1, <3>1
  <2> QED
    BY <1>0, <1>4, <2>1, FileCount DEF network
<1>13. \A u \in job'["pass"].settled : u \notin Outstanding'
  <2>1. \A u \in Settling : Final(u) /\ u \notin Outstanding
    BY DEF Books, EarnedInv, Settling
  <2> QED
    BY <1>5, <1>10, <2>1 DEF FewerSettling
<1>14. EarnedInv'
  <2>1. disk'.earned <= mem'.earned
    BY <1>0, <1>3, <1>4
  <2> QED
    BY <1>6, <1>11, <1>12, <1>13, <2>1 DEF Books, EarnedInv, FewerSettling, Settling
<1> QED
  BY <1>3, <1>5, <1>7, <1>8, <1>9, <1>14 DEF Books

(* Bytes of the entry leave the process, received or not.                   *)
LEMMA BytesLeave ==
    ASSUME Books, FewerSettling, UNCHANGED <<mem, disk, faults, crashes, up>>,
           NEW tx \in Outstanding, NEW received,
           Deliver(tx, received) \/ RejectedByAll(tx)
    PROVE  /\ Books' /\ UNCHANGED <<chain, final>> /\ dispatched' = dispatched \cup {tx}
           /\ relays' \subseteq relays \cup {tx}
<1>0. final \in Nat
  BY DEF Books, BooksTyped
<1>1. /\ UNCHANGED <<chain, final>> /\ dispatched' = dispatched \cup {tx}
      /\ relays' \subseteq relays \cup {tx}
  BY DEF Deliver, RejectedByAll, network
<1>2. Outstanding' = Outstanding /\ Journaled' = Journaled /\ Outstanding \subseteq Txs
  BY DEF Outstanding, Journaled
<1>3. /\ \A u : Final(u)' <=> Final(u)
      /\ \A w : DueAt(w, final)' <=> DueAt(w, final)
  BY <1>0, <1>1, BoundaryStays
<1>4. BooksTyped'
  BY <1>1, <1>2 DEF Books, BooksTyped
<1>5. NetworkInv'
  BY <1>1 DEF Books, NetworkInv
<1>6. JournalInv'
  BY <1>1, <1>2, <1>3 DEF Books, JournalInv
<1>7. mem'.earned <= Cardinality(Counted(Outstanding \cup job["pass"].settled)')
  <2>1. \A k \in 1..final : chain[k].tx \in Outstanding' \cup job'["pass"].settled
                               => chain[k].tx \in Outstanding \cup job["pass"].settled
    BY <1>2 DEF FewerSettling, Settling
  <2> QED
    BY <1>0, <1>1, <2>1, MemoryCount
<1>8. disk'.earned <= Cardinality(Counted(Journaled)')
  BY <1>0, <1>1, <1>2, FileCount
<1>9. EarnedInv'
  BY <1>2, <1>3, <1>7, <1>8 DEF Books, EarnedInv, FewerSettling, Settling
<1> QED
  BY <1>1, <1>4, <1>5, <1>6, <1>9 DEF Books

(* What was mined is no secret: it once left the process.                   *)
LEMMA FinalLeft == ASSUME Books, NEW tx, Final(tx) PROVE tx \in dispatched
BY DEF Books, BooksTyped, NetworkInv, Final, MinedAt

(* Settling takes what is final out of memory, and out of memory only.      *)
LEMMA SettleFacts ==
    ASSUME Books, LoopsTyped, NEW settled \in SUBSET Outstanding, Settle(settled)
    PROVE  /\ mem' \in [outbox : Outboxes, earned : Nat, halted : BOOLEAN]
           /\ mem'.earned = mem.earned /\ mem'.halted = mem.halted
           /\ Outstanding' = Outstanding \ settled /\ Journaled' = Journaled
           /\ job'["pass"].settled = settled /\ settled \subseteq Txs
           /\ \A tx \in settled : Final(tx)
<1>1. mem \in [outbox : Outboxes, earned : Nat, halted : BOOLEAN]
  BY DEF Books, BooksTyped
<1>2. OutboxWithout(settled) \in Outboxes
  BY <1>1 DEF OutboxWithout, Outboxes
<1>3. /\ mem' = [mem EXCEPT !.outbox = OutboxWithout(settled)] /\ UNCHANGED disk
      /\ job' = [job EXCEPT !["pass"].settled = settled]
      /\ settled \subseteq {tx \in Outstanding : Settleable(tx)}
  BY DEF Settle
<1>4. /\ mem' \in [outbox : Outboxes, earned : Nat, halted : BOOLEAN]
      /\ mem'.earned = mem.earned /\ mem'.halted = mem.halted
      /\ mem'.outbox = OutboxWithout(settled)
  BY <1>1, <1>2, <1>3
<1>5. Outstanding' = Outstanding \ settled
  BY <1>4 DEF Outstanding, OutboxWithout
<1>6. Journaled' = Journaled
  BY <1>3 DEF Journaled
<1>7. job'["pass"].settled = settled
  BY <1>3 DEF LoopsTyped, Loops, Jobs
<1>8. settled \subseteq Txs /\ \A tx \in settled : Final(tx)
  BY <1>3 DEF Outstanding, Settleable, Final
<1> QED
  BY <1>4, <1>5, <1>6, <1>7, <1>8

(* Settling only forgets entries that are final.                            *)
LEMMA SettleBooks ==
    ASSUME Books, LoopsTyped, NEW settled \in SUBSET Outstanding, Settle(settled)
    PROVE  Books'
<1>0. final \in Nat /\ UNCHANGED <<network, disk, up, dispatched, faults, crashes>>
  BY DEF Books, BooksTyped, Settle
<1>1. BooksTyped'
  BY <1>0, SettleFacts DEF Books, BooksTyped, network
<1>2. NetworkInv'
  BY <1>0 DEF Books, NetworkInv, network
<1>3. /\ \A u : Final(u)' <=> Final(u)
      /\ \A w : DueAt(w, final)' <=> DueAt(w, final)
  BY <1>0, BoundaryStays DEF network
<1>4. JournalInv'
  BY <1>0, <1>3, SettleFacts DEF Books, JournalInv, network
<1>5. mem'.earned <= Cardinality(Counted(Outstanding \cup job["pass"].settled)')
  <2>1. \A k \in 1..final : chain[k].tx \in Outstanding' \cup job'["pass"].settled
                               => chain[k].tx \in Outstanding \cup job["pass"].settled
    BY SettleFacts
  <2> QED
    BY <1>0, <2>1, SettleFacts, MemoryCount DEF network
<1>6. disk'.earned <= Cardinality(Counted(Journaled)')
  BY <1>0, SettleFacts, FileCount DEF network
<1>7. EarnedInv'
  <2>1. \A t, u \in settled : t = u
    BY DEF Books, JournalInv
  <2>2. disk'.earned <= mem'.earned
    BY <1>0, SettleFacts DEF Books, EarnedInv
  <2> QED
    BY <1>3, <1>5, <1>6, <2>1, <2>2, SettleFacts DEF EarnedInv
<1> QED
  BY <1>1, <1>2, <1>4, <1>7 DEF Books

(* Accounting adds at most the one success that was just settled, and that  *)
(* one was not counted before.                                              *)
LEMMA AccountBooks ==
    ASSUME Books, LoopsTyped, AccountSettledReceipts
    PROVE  Books' /\ Outstanding' = Outstanding /\ mem'.halted = mem.halted
<1> DEFINE wins == {tx \in Settling : Succeeded(tx)}
           S == Counted(Outstanding \cup job["pass"].settled)
           T == Counted(Outstanding \cup job["pass"].settled)'
<1>0. /\ final \in Nat /\ Len(chain) \in Nat /\ final <= Len(chain)
      /\ mem \in [outbox : Outboxes, earned : Nat, halted : BOOLEAN]
      /\ UNCHANGED <<network, disk, up, dispatched, faults, crashes>>
  BY DEF Books, BooksTyped, AccountSettledReceipts
<1>1. mem' = [mem EXCEPT !.earned = mem.earned + Cardinality(wins)] /\ job'["pass"].settled = {}
  BY DEF AccountSettledReceipts, Settling, LoopsTyped, Loops, Jobs
<1>2. Outstanding' = Outstanding /\ Journaled' = Journaled /\ mem'.halted = mem.halted
  BY <1>0, <1>1 DEF Outstanding, Journaled
<1>3. /\ \A u : Final(u)' <=> Final(u)
      /\ \A w : DueAt(w, final)' <=> DueAt(w, final)
  BY <1>0, BoundaryStays DEF network
<1>4. T = Counted(Outstanding)
  BY <1>0, <1>1, <1>2 DEF Counted, network
<1>5. S \subseteq T /\ S \subseteq 1..final /\ T \subseteq 1..final
  BY <1>4 DEF Counted
<1>6. mem.earned <= Cardinality(S) /\ mem.earned \in Nat
  BY <1>0 DEF Books, EarnedInv
<1>7. \/ wins = {}
      \/ \E t \in Settling : wins = {t} /\ Succeeded(t)
  <2>1. \A t, u \in Settling : t = u
    BY DEF Books, EarnedInv, Settling
  <2> QED
    BY <2>1
<1>8. Cardinality(wins) \in Nat /\ mem.earned + Cardinality(wins) <= Cardinality(T)
  <2>1. CASE wins = {}
    <3>1. Cardinality(wins) = 0
      BY <2>1, FS_EmptySet
    <3>2. Cardinality(S) \in Nat /\ Cardinality(T) \in Nat /\ Cardinality(S) <= Cardinality(T)
      <4> HIDE DEF S, T
      <4> QED
        BY <1>0, <1>5, MoreCounted
    <3> QED
      BY <3>1, <3>2, <1>6
  <2>2. ASSUME NEW t \in Settling, wins = {t}, Succeeded(t)
        PROVE  Cardinality(wins) \in Nat /\ mem.earned + Cardinality(wins) <= Cardinality(T)
    <3>1. Cardinality(wins) = 1
      BY <2>2, FS_Singleton
    <3>2. Final(t) /\ t \notin Outstanding
      BY DEF Books, EarnedInv, Settling
    <3>3. PICK k \in 1..Len(chain) : chain[k].tx = t /\ chain[k].ok
      BY <2>2 DEF Succeeded
    <3>4. k \in 1..final
      <4>1. t.nonce < final /\ t.nonce = k - 1
        BY <3>2, <3>3, FinalNonce DEF Books, NetworkInv
      <4> QED
        BY <4>1, <1>0
    <3>5. k \notin S /\ k \in T
      BY <1>4, <3>2, <3>3, <3>4 DEF Counted, Settling
    <3>6. S \cup {k} \subseteq T
      BY <1>5, <3>5
    <3>7. Cardinality(S \cup {k}) = Cardinality(S) + 1 /\ Cardinality(S) \in Nat
      <4> HIDE DEF S, T
      <4>1. IsFiniteSet(1..final)
        BY <1>0, FS_Interval
      <4>2. IsFiniteSet(S)
        BY <1>5, <4>1, FS_Subset
      <4> QED
        BY <4>2, <3>5, FS_AddElement, FS_CardinalityType
    <3>8. Cardinality(S \cup {k}) <= Cardinality(T) /\ Cardinality(T) \in Nat
      <4> DEFINE U == S \cup {k}
      <4> HIDE DEF U, T
      <4>1. U \subseteq T
        BY <3>6 DEF U
      <4>2. Cardinality(U) <= Cardinality(T) /\ Cardinality(T) \in Nat
        BY <1>0, <1>5, <4>1, MoreCounted
      <4> QED
        BY <4>2 DEF U
    <3> HIDE DEF S, T, wins
    <3> QED
      BY <3>1, <3>7, <3>8, <1>6
  <2> QED
    BY <1>7, <2>1, <2>2
<1> HIDE DEF wins
<1>9. /\ mem' \in [outbox : Outboxes, earned : Nat, halted : BOOLEAN]
      /\ mem'.earned = mem.earned + Cardinality(wins)
  BY <1>0, <1>1, <1>8
<1>10. BooksTyped'
  BY <1>0, <1>9 DEF Books, BooksTyped, network
<1>11. NetworkInv'
  BY <1>0 DEF Books, NetworkInv, network
<1>12. JournalInv'
  BY <1>0, <1>2, <1>3 DEF Books, JournalInv, network
<1>13. disk'.earned <= Cardinality(Counted(Journaled)')
  BY <1>0, <1>2, FileCount DEF network
<1>14. disk'.earned <= mem'.earned
  <2>1. disk.earned <= mem.earned /\ disk.earned \in Nat
    BY DEF Books, BooksTyped, EarnedInv
  <2> QED
    BY <1>0, <1>8, <1>9, <2>1
<1>15. EarnedInv'
  BY <1>1, <1>8, <1>9, <1>13, <1>14 DEF EarnedInv
<1> QED
  BY <1>2, <1>10, <1>11, <1>12, <1>15 DEF Books

(* The closing write brings the file level with memory.                     *)
LEMMA CloseBooks ==
    ASSUME WritesLand, Books, NEW l \in Loops, NEW fate \in Fates, CloseLoop(l, fate)
    PROVE  Books' /\ Outstanding' = Outstanding
<1>0. /\ final \in Nat /\ mem \in [outbox : Outboxes, earned : Nat, halted : BOOLEAN]
      /\ UNCHANGED <<network, mem, lane, job, up, dispatched, crashes>>
  BY DEF Books, BooksTyped, CloseLoop
<1>1. disk' = [outbox |-> mem.outbox, earned |-> mem.earned] /\ faults' \in 0..MaxFaults
  BY <1>0, WriteFacts DEF CloseLoop
<1>2. Outstanding' = Outstanding /\ Journaled' = Outstanding
  BY <1>0, <1>1 DEF Outstanding, Journaled
<1>3. /\ \A u : Final(u)' <=> Final(u)
      /\ \A w : DueAt(w, final)' <=> DueAt(w, final)
  BY <1>0, BoundaryStays DEF network
<1>4. BooksTyped'
  BY <1>0, <1>1 DEF Books, BooksTyped, network
<1>5. NetworkInv'
  BY <1>0 DEF Books, NetworkInv, network
<1>6. JournalInv'
  BY <1>0, <1>2, <1>3 DEF Books, JournalInv, network
<1>7. mem'.earned <= Cardinality(Counted(Outstanding \cup job["pass"].settled)')
  BY <1>0, <1>2, MemoryCount DEF network
<1>8. disk'.earned <= Cardinality(Counted(Journaled)')
  BY <1>0, <1>1, <1>2, FileCount DEF network
<1>9. EarnedInv'
  <2>1. disk'.earned <= mem'.earned
    BY <1>0, <1>1
  <2> QED
    BY <1>0, <1>2, <1>3, <1>7, <1>8, <2>1 DEF Books, EarnedInv
<1> QED
  BY <1>2, <1>4, <1>5, <1>6, <1>9 DEF Books

(* After a crash memory is what the file held: an entry settled but not yet *)
(* written is back, and so is the account before it.                        *)
LEMMA CrashBooks ==
    ASSUME Books, Crash
    PROVE  Books' /\ ~mem'.halted
<1>0. /\ final \in Nat /\ disk \in [outbox : Outboxes, earned : Nat]
      /\ UNCHANGED <<network, disk, dispatched, faults>>
      /\ mem' = [outbox |-> disk.outbox, earned |-> disk.earned, halted |-> FALSE]
      /\ job'["pass"].settled = {} /\ up' = FALSE
  BY DEF Books, BooksTyped, Crash, Loops, NoJob
<1>1. crashes' \in 0..MaxCrashes
  BY ExecutorSetting DEF Books, BooksTyped, Crash
<1>2. Outstanding' = Journaled /\ Journaled' = Journaled
  BY <1>0 DEF Outstanding, Journaled
<1>3. /\ \A u : Final(u)' <=> Final(u)
      /\ \A w : DueAt(w, final)' <=> DueAt(w, final)
  BY <1>0, BoundaryStays DEF network
<1>4. BooksTyped'
  BY <1>0, <1>1 DEF Books, BooksTyped, network
<1>5. NetworkInv'
  BY <1>0 DEF Books, NetworkInv, network
<1>6. JournalInv'
  <2>1. \A tx \in Journaled \ dispatched : tx \in Outstanding
    BY FinalLeft DEF Books, JournalInv
  <2>2. \A tx \in Journaled \ dispatched : tx.nonce = final /\ DueAt(tx.work, final)
    BY <2>1 DEF Books, JournalInv
  <2>3. /\ \A t, u \in Journaled : t = u
        /\ \A tx \in dispatched : Final(tx) \/ tx \in Journaled
    BY DEF Books, JournalInv
  <2> QED
    BY <1>0, <1>2, <1>3, <2>2, <2>3 DEF JournalInv, network
<1>7. disk'.earned <= Cardinality(Counted(Journaled)')
  BY <1>0, <1>2, FileCount DEF network
<1>8. Outstanding' \cup job'["pass"].settled = Journaled'
  BY <1>0, <1>2
<1>9. mem'.earned <= Cardinality(Counted(Outstanding \cup job["pass"].settled)')
  <2>1. Counted(Outstanding \cup job["pass"].settled)' = Counted(Journaled)'
    BY <1>8 DEF Counted
  <2> QED
    BY <1>0, <1>7, <2>1
<1>10. EarnedInv'
  BY <1>0, <1>7, <1>9 DEF Books, BooksTyped, EarnedInv
<1> QED
  BY <1>0, <1>4, <1>5, <1>6, <1>10 DEF Books

(* The chain above the boundary moves; nothing the loops rely on does.      *)
LEMMA ChainMoves ==
    ASSUME Books,
           \/ \E tx \in Txs, ok \in BOOLEAN : Mine(tx, ok)
           \/ Reorg
           \/ \E tx \in Txs : Lose(tx)
    PROVE  /\ Books' /\ Outstanding' = Outstanding
           /\ \A u : Final(u)' <=> Final(u)
           /\ \A w : DueAt(w, final)' <=> DueAt(w, final)
<1>0. /\ final \in Nat /\ Len(chain) \in Nat /\ final <= Len(chain)
      /\ chain \in Seq([tx : Txs, ok : BOOLEAN])
      /\ UNCHANGED <<final, mem, disk, lane, pc, job, up, dispatched, faults, crashes>>
  <2>1. UNCHANGED <<final, mem, disk, lane, pc, job, up, dispatched, faults, crashes>>
    <3>1. CASE \E tx \in Txs, ok \in BOOLEAN : Mine(tx, ok)
      BY <3>1 DEF Mine
    <3>2. CASE Reorg
      BY <3>2 DEF Reorg
    <3>3. CASE \E tx \in Txs : Lose(tx)
      BY <3>3 DEF Lose
    <3> QED
      BY <3>1, <3>2, <3>3
  <2> QED
    BY <2>1 DEF Books, BooksTyped
<1>1. /\ chain' \in Seq([tx : Txs, ok : BOOLEAN]) /\ final <= Len(chain')
      /\ \A k \in 1..final : chain'[k] = chain[k]
      /\ NetworkInv'
  <2>1. ASSUME NEW tx \in Txs, NEW ok \in BOOLEAN, Mine(tx, ok)
        PROVE  /\ chain' \in Seq([tx : Txs, ok : BOOLEAN]) /\ final <= Len(chain')
               /\ \A k \in 1..final : chain'[k] = chain[k]
               /\ NetworkInv'
    <3>1. /\ chain' = Append(chain, [tx |-> tx, ok |-> ok]) /\ relays' \subseteq relays
          /\ tx \in relays /\ tx.nonce = Len(chain)
      BY <2>1 DEF Mine
    <3>2. /\ chain' \in Seq([tx : Txs, ok : BOOLEAN]) /\ Len(chain') = Len(chain) + 1
          /\ \A k \in 1..Len(chain) : chain'[k] = chain[k]
          /\ chain'[Len(chain) + 1].tx = tx
      BY <1>0, <3>1
    <3>3. NetworkInv'
      BY <1>0, <3>1, <3>2 DEF Books, NetworkInv
    <3> QED
      BY <1>0, <3>2, <3>3
  <2>2. CASE Reorg
    <3>1. /\ Len(chain) > final
          /\ relays' = relays \cup {chain[Len(chain)].tx}
          /\ chain' = SubSeq(chain, 1, Len(chain) - 1)
      BY <2>2 DEF Reorg
    <3>2. /\ chain' \in Seq([tx : Txs, ok : BOOLEAN]) /\ Len(chain') = Len(chain) - 1
          /\ \A k \in 1..(Len(chain) - 1) : chain'[k] = chain[k]
      <4> DEFINE n == Len(chain) - 1
      <4>1. n \in Nat /\ n <= Len(chain)
        BY <1>0, <3>1
      <4>2. SubSeq(chain, 1, n) = [k \in 1..n |-> chain[k]]
        BY <1>0, <4>1
      <4>3. \A k \in 1..n : k \in 1..Len(chain)
        BY <1>0
      <4> HIDE DEF n
      <4> DEFINE Block == [tx : Txs, ok : BOOLEAN]
                 cut == [k \in 1..n |-> chain[k]]
      <4>4. \A k \in 1..n : chain[k] \in Block
        <5> HIDE DEF Block
        <5>1. chain \in Seq(Block)
          BY <1>0 DEF Block
        <5> QED
          BY <4>3, <5>1
      <4>5. cut \in Seq(Block) /\ Len(cut) = n /\ \A k \in 1..n : cut[k] = chain[k]
        <5> HIDE DEF Block
        <5> QED
          BY <4>1, <4>4
      <4>6. chain' = cut
        BY <3>1, <4>2 DEF n
      <4> QED
        BY <4>5, <4>6 DEF n
    <3>3. NetworkInv'
      BY <1>0, <3>1, <3>2 DEF Books, NetworkInv
    <3> QED
      BY <1>0, <3>1, <3>2, <3>3
  <2>3. CASE \E tx \in Txs : Lose(tx)
    <3>1. UNCHANGED chain /\ relays' \subseteq relays
      BY <2>3 DEF Lose
    <3> QED
      BY <1>0, <3>1 DEF Books, NetworkInv
  <2> QED
    BY <2>1, <2>2, <2>3
<1>2. Outstanding' = Outstanding /\ Journaled' = Journaled
  BY <1>0 DEF Outstanding, Journaled
<1>3. /\ \A u : Final(u)' <=> Final(u)
      /\ \A w : DueAt(w, final)' <=> DueAt(w, final)
  BY <1>0, <1>1, BoundaryStays
<1>4. BooksTyped'
  <2>1. relays' \subseteq Txs /\ Len(chain') \in Nat
    BY <1>0, <1>1 DEF Books, BooksTyped, NetworkInv
  <2> QED
    BY <1>0, <1>1, <2>1 DEF Books, BooksTyped
<1>5. JournalInv'
  BY <1>0, <1>2, <1>3 DEF Books, JournalInv
<1>6. mem'.earned <= Cardinality(Counted(Outstanding \cup job["pass"].settled)')
  BY <1>0, <1>1, <1>2, MemoryCount
<1>7. disk'.earned <= Cardinality(Counted(Journaled)')
  BY <1>0, <1>1, <1>2, FileCount
<1>8. EarnedInv'
  BY <1>0, <1>2, <1>3, <1>6, <1>7 DEF Books, EarnedInv
<1> QED
  BY <1>1, <1>2, <1>3, <1>4, <1>5, <1>8 DEF Books

(* The boundary advances only over something that left.                     *)
LEMMA BoundaryMoves ==
    ASSUME Books, Finalize
    PROVE  /\ Books' /\ Outstanding' = Outstanding
           /\ Outstanding # {} /\ Outstanding \subseteq dispatched
           /\ \A u : Final(u)' => Final(u) \/ u = chain[final + 1].tx
<1>0. /\ final \in Nat /\ Len(chain) \in Nat /\ final < Len(chain) /\ final' = final + 1
      /\ UNCHANGED <<chain, relays, mem, disk, lane, pc, job, up, dispatched, faults, crashes>>
  BY DEF Books, BooksTyped, Finalize
<1>1. Outstanding' = Outstanding /\ Journaled' = Journaled
  BY <1>0 DEF Outstanding, Journaled
<1>2. Outstanding # {} /\ Outstanding \subseteq dispatched
  BY <1>0, Vacant, Waiting, NothingPending
<1>3. \A u : Final(u) => Final(u)'
  BY <1>0 DEF Final, MinedAt
<1>4. \A u : Final(u)' => Final(u) \/ u = chain[final + 1].tx
  BY <1>0 DEF Final, MinedAt
<1>5. BooksTyped'
  BY <1>0 DEF Books, BooksTyped
<1>6. NetworkInv'
  BY <1>0 DEF Books, NetworkInv
<1>7. JournalInv'
  BY <1>0, <1>1, <1>2, <1>3 DEF Books, JournalInv
<1>8. mem'.earned <= Cardinality(Counted(Outstanding \cup job["pass"].settled)')
  BY <1>0, <1>1, MemoryCount
<1>9. disk'.earned <= Cardinality(Counted(Journaled)')
  BY <1>0, <1>1, FileCount
<1>10. EarnedInv'
  BY <1>0, <1>1, <1>3, <1>8, <1>9 DEF Books, EarnedInv
<1> QED
  BY <1>1, <1>2, <1>4, <1>5, <1>6, <1>7, <1>10 DEF Books

----------------------------------------------------------------------------
(* One step of a loop: what it must show, and what it may rely on.          *)

Before == Books /\ LoopsTyped /\ LaneOK /\ (\A l \in Loops : LoopOK(l)) /\ RedispatchOK

Sending == {"sign", "prepare", "dispatch", "mark"}

(* The parts of the next state together.                                    *)
LEMMA AfterParts ==
    ASSUME Books', LoopsTyped', LaneOK', \A l \in Loops : LoopOK(l)', RedispatchOK'
    PROVE  Before'
BY DEF Before

(* A loop goes on to its next piece of work, or to write its result.        *)
LEMMA ContinueFacts ==
    ASSUME LoopsTyped, NEW l \in Loops, NEW rest \in SUBSET Work, Continue(l, rest)
    PROVE  /\ LoopsTyped' /\ FewerSettling
           /\ \A k \in Loops : k # l => job'[k] = job[k]
           /\ \E p \in {"queue", "settleAgain", "write"} : pc' = [pc EXCEPT ![l] = p]
<1>1. [NoJob EXCEPT !.todo = rest] \in Jobs /\ [NoJob EXCEPT !.todo = rest].settled = {}
  BY DEF NoJob, Jobs
<1>2. job' = [job EXCEPT ![l] = [NoJob EXCEPT !.todo = rest]]
  BY DEF Continue
<1>3. \E p \in {"queue", "settleAgain", "write"} : pc' = [pc EXCEPT ![l] = p]
  BY DEF Continue, Goto
<1>4. LoopsTyped'
  BY <1>1, <1>2, <1>3 DEF LoopsTyped, Places
<1>5. FewerSettling
  BY <1>1, <1>2 DEF LoopsTyped, FewerSettling, Settling, Loops
<1> QED
  BY <1>2, <1>3, <1>4, <1>5 DEF LoopsTyped

(* What a loop relies on survives a step that leaves all that alone ...     *)
LEMMA LoopUndisturbed ==
    ASSUME Books, NEW k \in Loops, LoopOK(k), pc'[k] = pc[k], job'[k] = job[k],
           UNCHANGED <<chain, final, dispatched>>, Outstanding' = Outstanding,
           mem'.halted = mem.halted
    PROVE  LoopOK(k)'
<1>1. /\ \A u : Final(u)' <=> Final(u)
      /\ \A w : DueAt(w, final)' <=> DueAt(w, final)
  BY BoundaryStays DEF Books, BooksTyped
<1> QED
  BY <1>1 DEF LoopOK

(* ... and while another loop holds the lane there is nothing to rely on.   *)
LEMMA HolderAlone ==
    ASSUME LaneOK, LoopsTyped, NEW l \in Loops, NEW p, HoldsLane(l),
           pc' = [pc EXCEPT ![l] = p], NEW k \in Loops, k # l
    PROVE  LoopOK(k)'
<1>1. pc'[k] \notin Sending
  BY Exclusive DEF LoopsTyped, Critical, LanePlaces, Sending
<1> QED
  BY <1>1 DEF LoopOK, Sending

(* A loop that is not sending relies on nothing.                            *)
LEMMA NotSending ==
    ASSUME NEW l \in Loops, pc'[l] \notin Sending
    PROVE  LoopOK(l)'
BY DEF LoopOK, Sending

(* What is being sent again stays outstanding if no entry leaves.           *)
LEMMA RedispatchKept ==
    ASSUME RedispatchOK, pc'["pass"] = pc["pass"], job'["pass"] = job["pass"],
           Outstanding \subseteq Outstanding'
    PROVE  RedispatchOK'
BY DEF RedispatchOK, Redispatching

(* A step outside the lane that leaves outbox and network alone.            *)
LEMMA OutsideStep ==
    ASSUME Before, NEW l \in Loops, NEW p \in Places, pc' = [pc EXCEPT ![l] = p],
           p \notin Sending, l = "pass" => p \notin {"known", "resend", "resent", "refused"},
           \A k \in Loops : k # l => job'[k] = job[k],
           UNCHANGED <<chain, final, dispatched>>, Outstanding' = Outstanding,
           mem'.halted = mem.halted
    PROVE  (\A k \in Loops : LoopOK(k)') /\ RedispatchOK'
<1>1. pc'[l] = p /\ \A k \in Loops : k # l => pc'[k] = pc[k]
  BY DEF Before, LoopsTyped
<1>2. ASSUME NEW k \in Loops PROVE LoopOK(k)'
  <2>1. CASE k = l
    BY <1>1, <2>1, NotSending
  <2>2. CASE k # l
    BY <1>1, <2>2, LoopUndisturbed DEF Before
  <2> QED
    BY <2>1, <2>2
<1>3. RedispatchOK'
  <2>1. CASE l = "pass"
    BY <1>1, <2>1 DEF RedispatchOK, Redispatching
  <2>2. CASE l # "pass"
    BY <1>1, <2>2, RedispatchKept DEF Before, Loops
  <2> QED
    BY <2>1, <2>2
<1> QED
  BY <1>2, <1>3

----------------------------------------------------------------------------
(* The steps of the pass outside the lane. *)

LEMMA BeginPassStep == ASSUME Before, BeginPass PROVE Before'
<1>1. /\ pc' = [pc EXCEPT !["pass"] = "settle"] /\ pc["pass"] = "idle"
      /\ UNCHANGED <<network, mem, disk, lane, job, up, dispatched, faults, crashes>>
  BY DEF BeginPass, At, Goto
<1>2. Books'
  BY <1>1, BooksStay DEF Before, Books, BooksTyped, FewerSettling, Settling
<1>3. LoopsTyped'
  BY <1>1 DEF Before, LoopsTyped, Places
<1>4. LaneOK'
  BY <1>1, LaneStays DEF Before, Loops, LanePlaces, Critical
<1>5. (\A l \in Loops : LoopOK(l)') /\ RedispatchOK'
  BY <1>1, OutsideStep DEF Loops, Places, Sending, network, Outstanding
<1> QED
  BY <1>2, <1>3, <1>4, <1>5, AfterParts

LEMMA SettleStep ==
    ASSUME Before, NEW settled \in SUBSET Outstanding, Settle(settled)
    PROVE  Before'
<1>0. Books /\ LoopsTyped
  BY DEF Before
<1>1. PICK p \in {"account", "accountAgain"} :
          pc' = [pc EXCEPT !["pass"] = p] /\ pc["pass"] \in {"settle", "settleAgain"}
  BY DEF Settle, Goto
<1>2. /\ job' = [job EXCEPT !["pass"].settled = settled]
      /\ UNCHANGED <<network, disk, lane, up, dispatched, faults, crashes>>
  BY DEF Settle
<1>3. Books'
  BY <1>0, SettleBooks
<1>4. LoopsTyped'
  <2>1. settled \subseteq Txs
    BY <1>0, SettleFacts
  <2>2. job' \in [Loops -> Jobs]
    BY <1>0, <1>2, <2>1 DEF LoopsTyped, Jobs, Loops
  <2> QED
    BY <1>0, <1>1, <2>2 DEF LoopsTyped, Places
<1>5. LaneOK'
  BY <1>1, <1>2, LaneStays DEF Before, Loops, LanePlaces, Critical
<1>6. pc'["pass"] = p /\ pc'["maintenance"] = pc["maintenance"]
      /\ job'["maintenance"] = job["maintenance"]
  BY <1>0, <1>1, <1>2 DEF LoopsTyped, Loops
<1>7. LoopOK("pass")'
  BY <1>6, NotSending DEF Loops, Sending
<1>8. LoopOK("maintenance")'
  <2> DEFINE tx == job["maintenance"].tx
  <2>1. LoopOK("maintenance")
    BY DEF Before, Loops
  <2>2. Outstanding' = Outstanding \ settled /\ mem'.halted = mem.halted
    BY <1>0, SettleFacts
  <2>3. /\ \A u : Final(u)' <=> Final(u)
        /\ \A w : DueAt(w, final)' <=> DueAt(w, final)
    BY <1>0, <1>2, BoundaryStays DEF Books, BooksTyped, network
  <2>4. pc["maintenance"] = "dispatch" => tx \notin settled
    BY <1>0, <2>1, SettleFacts, FinalLeft DEF LoopOK
  <2> QED
    BY <1>2, <1>6, <2>1, <2>2, <2>3, <2>4 DEF LoopOK, network
<1>9. RedispatchOK'
  BY <1>6 DEF RedispatchOK, Redispatching
<1> QED
  BY <1>3, <1>4, <1>5, <1>7, <1>8, <1>9, AfterParts DEF Loops

LEMMA AccountStep == ASSUME Before, AccountSettledReceipts PROVE Before'
<1>0. Books /\ LoopsTyped
  BY DEF Before
<1>1. PICK p \in {"redispatch", "write"} :
          pc' = [pc EXCEPT !["pass"] = p] /\ pc["pass"] \in {"account", "accountAgain"}
  BY DEF AccountSettledReceipts, Goto
<1>2. /\ job' = [job EXCEPT !["pass"].settled = {}]
      /\ UNCHANGED <<network, disk, lane, up, dispatched, faults, crashes>>
  BY DEF AccountSettledReceipts
<1>3. Books' /\ Outstanding' = Outstanding /\ mem'.halted = mem.halted
  BY <1>0, AccountBooks
<1>4. LoopsTyped'
  <2>1. job' \in [Loops -> Jobs]
    BY <1>0, <1>2 DEF LoopsTyped, Jobs, Loops
  <2> QED
    BY <1>0, <1>1, <2>1 DEF LoopsTyped, Places
<1>5. LaneOK'
  BY <1>1, <1>2, LaneStays DEF Before, Loops, LanePlaces, Critical
<1>6. \A k \in Loops : k # "pass" => job'[k] = job[k]
  BY <1>0, <1>2 DEF LoopsTyped
<1>7. (\A l \in Loops : LoopOK(l)') /\ RedispatchOK'
  BY <1>1, <1>2, <1>3, <1>6, OutsideStep DEF Loops, Places, Sending, network
<1> QED
  BY <1>3, <1>4, <1>5, <1>7, AfterParts

LEMMA RedispatchPreparedStep ==
    ASSUME Before, NEW tx \in Txs, RedispatchPrepared(tx)
    PROVE  Before'
<1>0. Books /\ LoopsTyped /\ LaneOK
  BY DEF Before
<1>1. /\ pc' = [pc EXCEPT !["pass"] = "known"] /\ pc["pass"] = "redispatch" /\ Prepared = {tx}
      /\ job' = [job EXCEPT !["pass"].tx = tx] /\ lane' = Append(lane, "pass")
      /\ UNCHANGED <<network, mem, disk, up, dispatched, faults, crashes>>
  BY DEF RedispatchPrepared, At, Goto
<1>2. /\ job' \in [Loops -> Jobs] /\ job'["pass"].settled = job["pass"].settled
      /\ job'["pass"].tx = tx
      /\ job'["maintenance"] = job["maintenance"]
  BY <1>0, <1>1 DEF LoopsTyped, Jobs, Loops
<1>3. Books'
  BY <1>0, <1>1, <1>2, BooksStay DEF Books, BooksTyped, FewerSettling, Settling
<1>4. LoopsTyped'
  BY <1>0, <1>1, <1>2 DEF LoopsTyped, Places
<1>5. LaneOK'
  BY <1>0, <1>1, LaneEnters DEF Loops, LanePlaces
<1>6. pc'["pass"] = "known" /\ pc'["maintenance"] = pc["maintenance"]
  BY <1>0, <1>1 DEF LoopsTyped, Loops
<1>7. Outstanding' = Outstanding /\ tx \in Outstanding
  BY <1>1 DEF Outstanding, Prepared
<1>8. LoopOK("pass")'
  BY <1>6, NotSending DEF Loops, Sending
<1>9. LoopOK("maintenance")'
  BY <1>0, <1>1, <1>2, <1>6, <1>7, LoopUndisturbed DEF Before, Loops, network
<1>10. RedispatchOK'
  BY <1>2, <1>7 DEF RedispatchOK
<1> QED
  BY <1>3, <1>4, <1>5, <1>8, <1>9, <1>10, AfterParts DEF Loops

LEMMA SkipRedispatchStep == ASSUME Before, SkipRedispatch PROVE Before'
<1>1. /\ pc' = [pc EXCEPT !["pass"] = "evaluate"] /\ pc["pass"] = "redispatch"
      /\ UNCHANGED <<network, mem, disk, lane, job, up, dispatched, faults, crashes>>
  BY DEF SkipRedispatch, At, Goto
<1>2. Books'
  BY <1>1, BooksStay DEF Before, Books, BooksTyped, FewerSettling, Settling
<1>3. LoopsTyped'
  BY <1>1 DEF Before, LoopsTyped, Places
<1>4. LaneOK'
  BY <1>1, LaneStays DEF Before, Loops, LanePlaces, Critical
<1>5. (\A l \in Loops : LoopOK(l)') /\ RedispatchOK'
  BY <1>1, OutsideStep DEF Loops, Places, Sending, network, Outstanding
<1> QED
  BY <1>2, <1>3, <1>4, <1>5, AfterParts

(* Looking for work, in either loop.                                        *)
LEMMA FindStep ==
    ASSUME Before, NEW l \in Loops, NEW rest \in SUBSET Work, Continue(l, rest),
           pc[l] \in {"evaluate", "idle"},
           UNCHANGED <<network, mem, disk, lane, up, dispatched, faults, crashes>>
    PROVE  Before'
<1>0. Books /\ LoopsTyped
  BY DEF Before
<1>1. PICK p \in {"queue", "settleAgain", "write"} : pc' = [pc EXCEPT ![l] = p]
  BY <1>0, ContinueFacts
<1>2. LoopsTyped' /\ FewerSettling /\ \A k \in Loops : k # l => job'[k] = job[k]
  BY <1>0, ContinueFacts
<1>3. Books'
  BY <1>0, <1>2, BooksStay DEF Books, BooksTyped
<1>4. LaneOK'
  BY <1>1, LaneStays DEF Before, LanePlaces, Critical
<1>5. (\A k \in Loops : LoopOK(k)') /\ RedispatchOK'
  BY <1>1, <1>2, OutsideStep DEF Places, Sending, network, Outstanding
<1> QED
  BY <1>2, <1>3, <1>4, <1>5, AfterParts

LEMMA TakeTurnStep == ASSUME Before, NEW l \in Loops, TakeTurn(l) PROVE Before'
<1>1. /\ pc' = [pc EXCEPT ![l] = "admit"] /\ pc[l] = "queue" /\ lane' = Append(lane, l)
      /\ UNCHANGED <<network, mem, disk, job, up, dispatched, faults, crashes>>
  BY DEF TakeTurn, At, Goto
<1>2. Books'
  BY <1>1, BooksStay DEF Before, Books, BooksTyped, FewerSettling, Settling
<1>3. LoopsTyped'
  BY <1>1 DEF Before, LoopsTyped, Places
<1>4. LaneOK'
  BY <1>1, LaneEnters DEF Before, LanePlaces
<1>5. (\A k \in Loops : LoopOK(k)') /\ RedispatchOK'
  BY <1>1, OutsideStep DEF Places, Sending, network, Outstanding
<1> QED
  BY <1>2, <1>3, <1>4, <1>5, AfterParts

LEMMA CloseStep ==
    ASSUME WritesLand, Before, NEW l \in Loops, NEW fate \in Fates, CloseLoop(l, fate)
    PROVE  Before'
<1>1. /\ pc' = [pc EXCEPT ![l] = "idle"] /\ pc[l] = "write"
      /\ UNCHANGED <<network, mem, lane, job, up, dispatched, crashes>>
  BY DEF CloseLoop, At, Goto
<1>2. Books' /\ Outstanding' = Outstanding
  BY CloseBooks DEF Before
<1>3. LoopsTyped'
  BY <1>1 DEF Before, LoopsTyped, Places
<1>4. LaneOK'
  BY <1>1, LaneStays DEF Before, LanePlaces, Critical
<1>5. (\A k \in Loops : LoopOK(k)') /\ RedispatchOK'
  BY <1>1, <1>2, OutsideStep DEF Places, Sending, network
<1> QED
  BY <1>2, <1>3, <1>4, <1>5, AfterParts

----------------------------------------------------------------------------
(* The steps of the loop that holds the lane. *)

LEMMA HolderStep ==
    ASSUME Before, NEW l \in Loops, NEW p \in Places, pc' = [pc EXCEPT ![l] = p],
           HoldsLane(l), LoopOK(l)', \A k \in Loops : k # l => job'[k] = job[k],
           Outstanding \subseteq Outstanding',
           (l = "pass" /\ p \in {"known", "resend", "resent", "refused"})
               => job'["pass"].tx \in Outstanding'
    PROVE  (\A k \in Loops : LoopOK(k)') /\ RedispatchOK'
<1>1. pc'[l] = p /\ \A k \in Loops : k # l => pc'[k] = pc[k]
  BY DEF Before, LoopsTyped
<1>2. \A k \in Loops : LoopOK(k)'
  BY HolderAlone DEF Before
<1>3. RedispatchOK'
  <2>1. CASE l = "pass"
    BY <1>1, <2>1 DEF RedispatchOK, Redispatching
  <2>2. CASE l # "pass"
    BY <1>1, <2>2, RedispatchKept DEF Before, Loops
  <2> QED
    BY <2>1, <2>2
<1> QED
  BY <1>2, <1>3

(* The pass gives up the lane after a redispatch.                           *)
LEMMA EndRedispatchFacts ==
    ASSUME LoopsTyped, LaneOK, HoldsLane("pass"), NEW place \in {"evaluate", "idle"}, EndRedispatch(place)
    PROVE  /\ LoopsTyped' /\ LaneOK' /\ FewerSettling
           /\ pc' = [pc EXCEPT !["pass"] = place] /\ LoopOK("pass")'
           /\ \A k \in Loops : k # "pass" => job'[k] = job[k]
<1>1. /\ pc' = [pc EXCEPT !["pass"] = place] /\ lane' = Released
      /\ job' = [job EXCEPT !["pass"] = NoJob]
  BY DEF EndRedispatch, Goto
<1>2. NoJob \in Jobs /\ NoJob.settled = {}
  BY DEF NoJob, Jobs
<1>3. LoopsTyped' /\ FewerSettling /\ pc'["pass"] = place
      /\ \A k \in Loops : k # "pass" => job'[k] = job[k]
  BY <1>1, <1>2 DEF LoopsTyped, Places, Loops, FewerSettling, Settling
<1>4. LaneOK'
  BY <1>1, LaneLeaves DEF Loops, LanePlaces
<1>5. LoopOK("pass")'
  BY <1>3, NotSending DEF Loops, Sending
<1> QED
  BY <1>1, <1>3, <1>4, <1>5

(* A loop gives up the lane and goes on.                                    *)
LEMMA LeaveFacts ==
    ASSUME LoopsTyped, LaneOK, NEW l \in Loops, HoldsLane(l), NEW rest \in SUBSET Work,
           lane' = Released, Continue(l, rest)
    PROVE  /\ LoopsTyped' /\ LaneOK' /\ FewerSettling /\ LoopOK(l)'
           /\ \E p \in {"queue", "settleAgain", "write"} : pc' = [pc EXCEPT ![l] = p]
           /\ \A k \in Loops : k # l => job'[k] = job[k]
<1>1. PICK p \in {"queue", "settleAgain", "write"} : pc' = [pc EXCEPT ![l] = p]
  BY ContinueFacts
<1>2. LaneOK'
  BY <1>1, LaneLeaves DEF LanePlaces
<1>3. LoopOK(l)'
  BY <1>1, NotSending DEF LoopsTyped, Sending
<1> QED
  BY <1>1, <1>2, <1>3, ContinueFacts

(* A redispatch that reads or gives up.                                     *)
LEMMA NotKnownStep == ASSUME Before, NotKnown PROVE Before'
<1>1. /\ pc' = [pc EXCEPT !["pass"] = "resend"] /\ pc["pass"] = "known" /\ HoldsLane("pass")
      /\ UNCHANGED <<network, mem, disk, lane, job, up, dispatched, faults, crashes>>
  BY DEF NotKnown, At, Goto
<1>2. Books' /\ Outstanding' = Outstanding
  BY <1>1, BooksStay DEF Before, Books, BooksTyped, FewerSettling, Settling, Outstanding
<1>3. LoopsTyped' /\ pc'["pass"] = "resend"
  BY <1>1 DEF Before, LoopsTyped, Places, Loops
<1>4. LaneOK'
  BY <1>1, LaneStays DEF Before, Loops, LanePlaces
<1>5. LoopOK("pass")'
  BY <1>3, NotSending DEF Loops, Sending
<1>6. job'["pass"].tx \in Outstanding'
  BY <1>1, <1>2 DEF Before, RedispatchOK, Redispatching
<1>7. (\A l \in Loops : LoopOK(l)') /\ RedispatchOK'
  BY <1>1, <1>2, <1>5, <1>6, HolderStep DEF Loops, Places
<1> QED
  BY <1>2, <1>3, <1>4, <1>7, AfterParts

LEMMA BlockedStep == ASSUME Before, RedispatchBlocked PROVE Before'
<1>1. /\ HoldsLane("pass") /\ EndRedispatch("evaluate")
      /\ UNCHANGED <<network, mem, disk, up, dispatched, faults, crashes>>
  BY DEF RedispatchBlocked
<1>2. /\ LoopsTyped' /\ LaneOK' /\ FewerSettling
      /\ pc' = [pc EXCEPT !["pass"] = "evaluate"] /\ LoopOK("pass")'
      /\ \A k \in Loops : k # "pass" => job'[k] = job[k]
  BY <1>1, EndRedispatchFacts DEF Before
<1>3. Books' /\ Outstanding' = Outstanding
  BY <1>1, <1>2, BooksStay DEF Before, Books, BooksTyped, Outstanding
<1>4. (\A l \in Loops : LoopOK(l)') /\ RedispatchOK'
  BY <1>1, <1>2, <1>3, HolderStep DEF Loops, Places
<1> QED
  BY <1>2, <1>3, <1>4, AfterParts

(* A redispatch works on the one entry there is.                            *)
LEMMA RedispatchEntry ==
    ASSUME Before, Redispatching
    PROVE  /\ job["pass"].tx \in Outstanding /\ job["pass"].tx \in Txs
           /\ Outstanding \subseteq {job["pass"].tx}
<1>1. job["pass"].tx \in Outstanding
  BY DEF Before, RedispatchOK
<1> QED
  BY <1>1 DEF Before, Books, JournalInv, Outstanding

LEMMA FindKnownStep ==
    ASSUME WritesLand, Before, NEW fate \in Fates, FindKnown(fate)
    PROVE  Before'
<1> DEFINE tx == job["pass"].tx
<1>1. /\ pc["pass"] = "known" /\ HoldsLane("pass")
      /\ PersistOrOpenCircuit(SetEntry(tx, "submitted"), fate)
      /\ UNCHANGED <<network, up, dispatched, crashes>>
      /\ IF fate = "ok" THEN EndRedispatch("evaluate")
         ELSE Goto("pass", "resend") /\ UNCHANGED <<lane, job>>
  BY DEF FindKnown, At
<1>2. tx \in Outstanding /\ tx \in Txs /\ Outstanding \subseteq {tx}
  BY <1>1, RedispatchEntry DEF Redispatching
<1>3. PICK p \in {"evaluate", "resend"} :
        /\ LoopsTyped' /\ LaneOK' /\ FewerSettling
        /\ pc' = [pc EXCEPT !["pass"] = p] /\ LoopOK("pass")'
        /\ \A k \in Loops : k # "pass" => job'[k] = job[k]
        /\ p = "resend" => job'["pass"].tx = tx
  <2>1. CASE fate = "ok"
    BY <1>1, <2>1, EndRedispatchFacts DEF Before
  <2>2. CASE fate # "ok"
    <3>1. pc' = [pc EXCEPT !["pass"] = "resend"] /\ UNCHANGED <<lane, job>>
      BY <1>1, <2>2 DEF Goto
    <3>2. LoopsTyped' /\ pc'["pass"] = "resend" /\ FewerSettling
      BY <3>1 DEF Before, LoopsTyped, Places, Loops, FewerSettling, Settling
    <3>3. LaneOK'
      BY <1>1, <3>1, LaneStays DEF Before, Loops, LanePlaces
    <3>4. LoopOK("pass")'
      BY <3>2, NotSending DEF Loops, Sending
    <3> QED
      BY <3>1, <3>2, <3>3, <3>4
  <2> QED
    BY <2>1, <2>2
<1>4. Books' /\ Outstanding' = {tx}
  <2>1. Books /\ up' \in BOOLEAN /\ crashes' \in 0..MaxCrashes
    BY <1>1 DEF Before, Books, BooksTyped
  <2> QED
    BY <1>1, <1>2, <1>3, <2>1, EntryWritten
<1>5. (\A l \in Loops : LoopOK(l)') /\ RedispatchOK'
  BY <1>1, <1>2, <1>3, <1>4, HolderStep DEF Loops, Places
<1> QED
  BY <1>3, <1>4, <1>5, AfterParts

LEMMA MarkResentStep ==
    ASSUME WritesLand, Before, NEW fate \in Fates, MarkResent(fate)
    PROVE  Before'
<1> DEFINE tx == job["pass"].tx
<1>1. /\ pc["pass"] = "resent" /\ HoldsLane("pass")
      /\ PersistOrOpenCircuit(SetEntry(tx, "submitted"), fate)
      /\ UNCHANGED <<network, up, dispatched, crashes>>
      /\ IF fate = "ok" THEN EndRedispatch("evaluate")
         ELSE Goto("pass", "refused") /\ UNCHANGED <<lane, job>>
  BY DEF MarkResent, At
<1>2. tx \in Outstanding /\ tx \in Txs /\ Outstanding \subseteq {tx}
  BY <1>1, RedispatchEntry DEF Redispatching
<1>3. PICK p \in {"evaluate", "refused"} :
        /\ LoopsTyped' /\ LaneOK' /\ FewerSettling
        /\ pc' = [pc EXCEPT !["pass"] = p] /\ LoopOK("pass")'
        /\ \A k \in Loops : k # "pass" => job'[k] = job[k]
        /\ p = "refused" => job'["pass"].tx = tx
  <2>1. CASE fate = "ok"
    BY <1>1, <2>1, EndRedispatchFacts DEF Before
  <2>2. CASE fate # "ok"
    <3>1. pc' = [pc EXCEPT !["pass"] = "refused"] /\ UNCHANGED <<lane, job>>
      BY <1>1, <2>2 DEF Goto
    <3>2. LoopsTyped' /\ pc'["pass"] = "refused" /\ FewerSettling
      BY <3>1 DEF Before, LoopsTyped, Places, Loops, FewerSettling, Settling
    <3>3. LaneOK'
      BY <1>1, <3>1, LaneStays DEF Before, Loops, LanePlaces
    <3>4. LoopOK("pass")'
      BY <3>2, NotSending DEF Loops, Sending
    <3> QED
      BY <3>1, <3>2, <3>3, <3>4
  <2> QED
    BY <2>1, <2>2
<1>4. Books' /\ Outstanding' = {tx}
  <2>1. Books /\ up' \in BOOLEAN /\ crashes' \in 0..MaxCrashes
    BY <1>1 DEF Before, Books, BooksTyped
  <2> QED
    BY <1>1, <1>2, <1>3, <2>1, EntryWritten
<1>5. (\A l \in Loops : LoopOK(l)') /\ RedispatchOK'
  BY <1>1, <1>2, <1>3, <1>4, HolderStep DEF Loops, Places
<1> QED
  BY <1>3, <1>4, <1>5, AfterParts

LEMMA RecordFailureStep ==
    ASSUME WritesLand, Before, NEW fate \in Fates, RecordDispatchFailure(fate)
    PROVE  Before'
<1> DEFINE tx == job["pass"].tx
<1>1. /\ pc["pass"] = "refused" /\ HoldsLane("pass")
      /\ PersistOrOpenCircuit(SetEntry(tx, "prepared"), fate)
      /\ UNCHANGED <<network, up, dispatched, crashes>>
  BY DEF RecordDispatchFailure, At
<1>2. tx \in Outstanding /\ tx \in Txs /\ Outstanding \subseteq {tx}
  BY <1>1, RedispatchEntry DEF Redispatching
<1>3. PICK p \in {"evaluate", "idle"} : EndRedispatch(p)
  BY DEF RecordDispatchFailure
<1>4. /\ LoopsTyped' /\ LaneOK' /\ FewerSettling
      /\ pc' = [pc EXCEPT !["pass"] = p] /\ LoopOK("pass")'
      /\ \A k \in Loops : k # "pass" => job'[k] = job[k]
  BY <1>1, <1>3, EndRedispatchFacts DEF Before
<1>5. Books' /\ Outstanding' = {tx}
  <2>1. Books /\ up' \in BOOLEAN /\ crashes' \in 0..MaxCrashes
    BY <1>1 DEF Before, Books, BooksTyped
  <2> QED
    BY <1>1, <1>2, <1>4, <2>1, EntryWritten
<1>6. (\A l \in Loops : LoopOK(l)') /\ RedispatchOK'
  BY <1>1, <1>2, <1>4, <1>5, HolderStep DEF Loops, Places
<1> QED
  BY <1>4, <1>5, <1>6, AfterParts

(* Bytes offered again. *)
LEMMA ResendStep ==
    ASSUME Before, (\E received \in BOOLEAN : Resend(received)) \/ ResendRejected
    PROVE  Before'
<1> DEFINE tx == job["pass"].tx
<1>1. PICK p \in {"resent", "refused"}, received \in BOOLEAN :
        /\ pc["pass"] = "resend" /\ HoldsLane("pass")
        /\ Deliver(tx, received) \/ RejectedByAll(tx)
        /\ pc' = [pc EXCEPT !["pass"] = p]
        /\ UNCHANGED <<mem, disk, lane, job, up, faults, crashes>>
  <2>1. CASE ResendRejected
    BY <2>1 DEF ResendRejected, At, Goto
  <2>2. ASSUME NEW received \in BOOLEAN, Resend(received)
        PROVE  /\ pc["pass"] = "resend" /\ HoldsLane("pass") /\ Deliver(tx, received)
               /\ pc' = [pc EXCEPT !["pass"] = "resent"]
               /\ UNCHANGED <<mem, disk, lane, job, up, faults, crashes>>
    BY <2>2 DEF Resend, At, Goto
  <2> QED
    BY <2>1, <2>2
<1>2. tx \in Outstanding
  BY <1>1, RedispatchEntry DEF Redispatching
<1>3. Books' /\ Outstanding' = Outstanding
  <2>1. Books /\ FewerSettling
    BY <1>1 DEF Before, FewerSettling, Settling
  <2> QED
    BY <1>1, <1>2, <2>1, BytesLeave DEF Outstanding
<1>4. LoopsTyped' /\ pc'["pass"] = p
  BY <1>1 DEF Before, LoopsTyped, Places, Loops
<1>5. LaneOK'
  BY <1>1, LaneStays DEF Before, Loops, LanePlaces
<1>6. LoopOK("pass")'
  BY <1>4, NotSending DEF Loops, Sending
<1>7. (\A l \in Loops : LoopOK(l)') /\ RedispatchOK'
  BY <1>1, <1>2, <1>3, <1>6, HolderStep DEF Loops, Places
<1> QED
  BY <1>3, <1>4, <1>5, <1>7, AfterParts

(* A submission: admitted with the outbox empty ...                         *)
LEMMA AdmitStep == ASSUME Before, NEW l \in Loops, Admit(l) PROVE Before'
<1>1. /\ pc' = [pc EXCEPT ![l] = "sign"] /\ pc[l] = "admit" /\ HoldsLane(l)
      /\ ~mem.halted /\ Outstanding = {}
      /\ UNCHANGED <<network, mem, disk, lane, job, up, dispatched, faults, crashes>>
  BY DEF Admit, At, Goto, OutboxAdmission
<1>2. Books' /\ Outstanding' = Outstanding
  BY <1>1, BooksStay DEF Before, Books, BooksTyped, FewerSettling, Settling, Outstanding
<1>3. LoopsTyped' /\ pc'[l] = "sign"
  BY <1>1 DEF Before, LoopsTyped, Places
<1>4. LaneOK'
  BY <1>1, LaneStays DEF Before, LanePlaces
<1>5. LoopOK(l)'
  BY <1>1, <1>2, <1>3 DEF LoopOK
<1>6. (\A k \in Loops : LoopOK(k)') /\ RedispatchOK'
  BY <1>1, <1>2, <1>5, HolderStep DEF Places
<1> QED
  BY <1>2, <1>3, <1>4, <1>6, AfterParts

LEMMA DeferStep == ASSUME Before, NEW l \in Loops, NEW w \in Work, Defer(l, w) PROVE Before'
<1>1. /\ HoldsLane(l) /\ lane' = Released
      /\ UNCHANGED <<network, mem, disk, up, dispatched, faults, crashes>>
  BY DEF Defer
<1>2. PICK rest \in SUBSET Work : Continue(l, rest)
  BY DEF Defer, Before, LoopsTyped, Jobs
<1>3. PICK p \in {"queue", "settleAgain", "write"} :
        /\ LoopsTyped' /\ LaneOK' /\ FewerSettling /\ LoopOK(l)'
        /\ pc' = [pc EXCEPT ![l] = p] /\ \A k \in Loops : k # l => job'[k] = job[k]
  BY <1>1, <1>2, LeaveFacts DEF Before
<1>4. Books' /\ Outstanding' = Outstanding
  BY <1>1, <1>3, BooksStay DEF Before, Books, BooksTyped, Outstanding
<1>5. (\A k \in Loops : LoopOK(k)') /\ RedispatchOK'
  BY <1>1, <1>3, <1>4, HolderStep DEF Places
<1> QED
  BY <1>3, <1>4, <1>5, AfterParts

(* ... signed for the next nonce, there being only final blocks ...         *)
LEMMA SignStep ==
    ASSUME Before, NEW l \in Loops, NEW w \in Work, NEW nonce \in 0..MaxNonce,
           NEW block \in 0..MaxNonce, Sign(l, w, nonce, block)
    PROVE  Before'
<1> DEFINE tx == [work |-> w, nonce |-> nonce]
<1>0. Books /\ LoopsTyped
  BY DEF Before
<1>1. /\ pc' = [pc EXCEPT ![l] = "prepare"] /\ pc[l] = "sign" /\ HoldsLane(l)
      /\ nonce \in Views /\ block \in Views /\ nonce < MaxNonce /\ DueAt(w, block)
      /\ job' = [job EXCEPT ![l].tx = tx]
      /\ UNCHANGED <<network, mem, disk, lane, up, dispatched, faults, crashes>>
  BY DEF Sign, At, Goto
<1>2. ~mem.halted /\ Outstanding = {}
  BY <1>1 DEF Before, LoopOK
<1>3. nonce = final /\ block = final
  <2>1. final = Len(chain) /\ final \in Nat
    BY <1>0, <1>2, Vacant, NothingPending DEF Books, BooksTyped
  <2> QED
    BY <1>1, <2>1 DEF Views
<1>4. tx \in Txs
  BY <1>1, ExecutorSetting DEF Txs
<1>5. /\ LoopsTyped' /\ pc'[l] = "prepare" /\ job'[l].tx = tx
      /\ job'[l].settled = job[l].settled /\ \A k \in Loops : k # l => job'[k] = job[k]
  <2>1. job'[l] = [job[l] EXCEPT !.tx = tx] /\ job[l] \in Jobs
        /\ \A k \in Loops : k # l => job'[k] = job[k]
    BY <1>0, <1>1 DEF LoopsTyped
  <2>2. job'[l] \in Jobs /\ job'[l].tx = tx /\ job'[l].settled = job[l].settled
    BY <1>4, <2>1 DEF Jobs
  <2>3. job' \in [Loops -> Jobs]
    BY <1>0, <1>1, <2>1, <2>2 DEF LoopsTyped
  <2> QED
    BY <1>0, <1>1, <2>1, <2>2, <2>3 DEF LoopsTyped, Places
<1>6. Books' /\ Outstanding' = Outstanding
  <2>1. FewerSettling
    BY <1>5 DEF FewerSettling, Settling, Loops
  <2> QED
    BY <1>0, <1>1, <2>1, BooksStay DEF Books, BooksTyped, Outstanding
<1>7. LaneOK'
  BY <1>1, LaneStays DEF Before, LanePlaces
<1>8. LoopOK(l)'
  <2>1. tx.nonce = final' /\ tx.work = w /\ DueAt(w, final)'
    BY <1>0, <1>1, <1>3, BoundaryStays DEF Books, BooksTyped, network
  <2> HIDE DEF tx
  <2>2. DueAt(job[l].tx.work, final)'
    BY <1>5, <2>1 DEF DueAt, SucceededBy
  <2> QED
    BY <1>1, <1>2, <1>4, <1>5, <1>6, <2>1, <2>2 DEF LoopOK
<1>9. (\A k \in Loops : LoopOK(k)') /\ RedispatchOK'
  BY <1>1, <1>5, <1>6, <1>8, HolderStep DEF Places
<1> QED
  BY <1>5, <1>6, <1>7, <1>9, AfterParts

(* ... journaled before anything leaves ...                                 *)
LEMMA RecordPreparedStep ==
    ASSUME WritesLand, Before, NEW l \in Loops, NEW fate \in Fates, RecordPrepared(l, fate)
    PROVE  Before'
<1> DEFINE tx == job[l].tx
<1>0. Books /\ LoopsTyped
  BY DEF Before
<1>1. /\ pc[l] = "prepare" /\ HoldsLane(l)
      /\ PersistOrOpenCircuit(SetEntry(tx, "prepared"), fate)
      /\ UNCHANGED <<network, up, dispatched, crashes>>
  BY DEF RecordPrepared, At
<1>2. Outstanding = {} /\ tx \in Txs /\ tx.nonce = final /\ DueAt(tx.work, final)
  BY <1>1 DEF Before, LoopOK
<1>3. tx \notin dispatched
  <2>1. final \in Nat /\ \A u \in dispatched : u.nonce < final
    BY <1>0, <1>2, Vacant, FinalNonce DEF Books, BooksTyped
  <2> QED
    BY <1>2, <2>1
<1>4. PICK p \in {"dispatch", "queue", "settleAgain", "write"} :
        /\ LoopsTyped' /\ LaneOK' /\ FewerSettling
        /\ pc' = [pc EXCEPT ![l] = p] /\ \A k \in Loops : k # l => job'[k] = job[k]
        /\ p = "dispatch" => job'[l].tx = tx
  <2>1. CASE fate = "ok"
    <3>1. pc' = [pc EXCEPT ![l] = "dispatch"] /\ UNCHANGED <<lane, job>>
      BY <2>1 DEF RecordPrepared, Goto
    <3>2. LoopsTyped' /\ FewerSettling
      BY <1>0, <3>1 DEF LoopsTyped, Places, FewerSettling, Settling
    <3>3. LaneOK'
      BY <1>1, <3>1, LaneStays DEF Before, LanePlaces
    <3> QED
      BY <3>1, <3>2, <3>3
  <2>2. CASE fate # "ok"
    <3>1. lane' = Released /\ Continue(l, job[l].todo \ {job[l].tx.work})
      BY <2>2 DEF RecordPrepared
    <3>2. job[l].todo \ {job[l].tx.work} \in SUBSET Work
      BY <1>0 DEF LoopsTyped, Jobs
    <3> QED
      BY <1>1, <3>1, <3>2, LeaveFacts DEF Before
  <2> QED
    BY <2>1, <2>2
<1>5. Books' /\ Outstanding' = {tx}
  <2>1. up' \in BOOLEAN /\ crashes' \in 0..MaxCrashes /\ Outstanding \subseteq {tx}
    BY <1>0, <1>1, <1>2 DEF Books, BooksTyped
  <2> QED
    BY <1>0, <1>1, <1>2, <1>4, <2>1, EntryWritten
<1>6. LoopOK(l)'
  <2>1. pc'[l] = p
    BY <1>0, <1>4 DEF LoopsTyped
  <2> QED
    BY <1>1, <1>3, <1>4, <1>5, <2>1 DEF LoopOK
<1>7. (\A k \in Loops : LoopOK(k)') /\ RedispatchOK'
  BY <1>1, <1>2, <1>4, <1>5, <1>6, HolderStep DEF Places
<1> QED
  BY <1>4, <1>5, <1>7, AfterParts

(* ... dispatched, and not final while the request is open ...              *)
LEMMA DispatchStep ==
    ASSUME Before, NEW l \in Loops, NEW received \in BOOLEAN, Dispatch(l, received)
    PROVE  Before'
<1> DEFINE tx == job[l].tx
<1>0. Books /\ LoopsTyped
  BY DEF Before
<1>1. /\ pc' = [pc EXCEPT ![l] = "mark"] /\ pc[l] = "dispatch" /\ HoldsLane(l)
      /\ Deliver(tx, received)
      /\ UNCHANGED <<mem, disk, lane, job, up, faults, crashes>>
  BY DEF Dispatch, At, Goto
<1>2. tx \in Outstanding /\ tx \notin dispatched
  BY <1>1 DEF Before, LoopOK
<1>3. Books' /\ UNCHANGED <<chain, final>> /\ dispatched' = dispatched \cup {tx}
      /\ Outstanding' = Outstanding
  <2>1. FewerSettling
    BY <1>1 DEF FewerSettling, Settling
  <2> QED
    BY <1>0, <1>1, <1>2, <2>1, BytesLeave DEF Outstanding
<1>4. LoopsTyped' /\ pc'[l] = "mark"
  BY <1>0, <1>1 DEF LoopsTyped, Places
<1>5. LaneOK'
  BY <1>1, LaneStays DEF Before, LanePlaces
<1>6. LoopOK(l)'
  <2>1. ~Final(tx)
    BY <1>0, <1>2, FinalLeft
  <2>2. ~Final(job[l].tx)'
    BY <1>1, <1>3, <2>1 DEF Final, MinedAt
  <2> QED
    BY <1>1, <1>3, <1>4, <2>2 DEF LoopOK
<1>7. (\A k \in Loops : LoopOK(k)') /\ RedispatchOK'
  BY <1>1, <1>3, <1>6, HolderStep DEF Places
<1> QED
  BY <1>3, <1>4, <1>5, <1>7, AfterParts

LEMMA DispatchRejectedStep ==
    ASSUME Before, NEW l \in Loops, DispatchRejected(l)
    PROVE  Before'
<1> DEFINE tx == job[l].tx
<1>1. /\ pc[l] = "dispatch" /\ HoldsLane(l) /\ RejectedByAll(tx) /\ lane' = Released
      /\ Continue(l, job[l].todo \ {tx.work})
      /\ UNCHANGED <<mem, disk, up, faults, crashes>>
  BY DEF DispatchRejected, At
<1>2. tx \in Outstanding
  BY <1>1 DEF Before, LoopOK
<1>3. PICK p \in {"queue", "settleAgain", "write"} :
        /\ LoopsTyped' /\ LaneOK' /\ FewerSettling /\ LoopOK(l)'
        /\ pc' = [pc EXCEPT ![l] = p] /\ \A k \in Loops : k # l => job'[k] = job[k]
  <2>1. job[l].todo \ {tx.work} \in SUBSET Work
    BY DEF Before, LoopsTyped, Jobs
  <2> QED
    BY <1>1, <2>1, LeaveFacts DEF Before
<1>4. Books' /\ Outstanding' = Outstanding
  BY <1>1, <1>2, <1>3, BytesLeave DEF Before, Outstanding
<1>5. (\A k \in Loops : LoopOK(k)') /\ RedispatchOK'
  BY <1>1, <1>3, <1>4, HolderStep DEF Places
<1> QED
  BY <1>3, <1>4, <1>5, AfterParts

(* ... and recorded as sent, an entry that is still there.                  *)
LEMMA MarkSubmittedStep ==
    ASSUME WritesLand, Before, NEW l \in Loops, NEW fate \in Fates, MarkSubmitted(l, fate)
    PROVE  Before'
<1> DEFINE tx == job[l].tx
<1>0. Books /\ LoopsTyped
  BY DEF Before
<1>1. /\ pc[l] = "mark" /\ HoldsLane(l) /\ lane' = Released
      /\ PersistOrOpenCircuit(SetEntry(tx, "submitted"), fate)
      /\ UNCHANGED <<network, up, dispatched, crashes>>
  BY DEF MarkSubmitted, At
<1>2. tx \in Outstanding /\ tx \in Txs /\ Outstanding \subseteq {tx}
  <2>1. tx \in dispatched /\ ~Final(tx)
    BY <1>1 DEF Before, LoopOK
  <2>2. tx \in Outstanding
    BY <1>0, <2>1 DEF Books, JournalInv
  <2> QED
    BY <1>0, <2>2 DEF Books, JournalInv, Outstanding
<1>3. PICK rest \in SUBSET Work : Continue(l, rest)
  BY <1>0 DEF MarkSubmitted, LoopsTyped, Jobs
<1>4. PICK p \in {"queue", "settleAgain", "write"} :
        /\ LoopsTyped' /\ LaneOK' /\ FewerSettling /\ LoopOK(l)'
        /\ pc' = [pc EXCEPT ![l] = p] /\ \A k \in Loops : k # l => job'[k] = job[k]
  BY <1>1, <1>3, LeaveFacts DEF Before
<1>5. Books' /\ Outstanding' = {tx}
  <2>1. up' \in BOOLEAN /\ crashes' \in 0..MaxCrashes
    BY <1>0, <1>1 DEF Books, BooksTyped
  <2> QED
    BY <1>0, <1>1, <1>2, <1>4, <2>1, EntryWritten
<1>6. (\A k \in Loops : LoopOK(k)') /\ RedispatchOK'
  BY <1>1, <1>2, <1>4, <1>5, HolderStep DEF Places
<1> QED
  BY <1>4, <1>5, <1>6, AfterParts

----------------------------------------------------------------------------
(* Crashes, and what the network does. *)

LEMMA CrashStep == ASSUME Before, Crash PROVE Before'
<1>1. /\ pc' = [l \in Loops |-> "idle"] /\ job' = [l \in Loops |-> NoJob] /\ lane' = <<>>
  BY DEF Crash
<1>2. Books'
  BY CrashBooks DEF Before
<1>3. LoopsTyped' /\ \A l \in Loops : pc'[l] = "idle"
  <2>1. NoJob \in Jobs
    BY DEF NoJob, Jobs
  <2> QED
    BY <1>1, <2>1 DEF LoopsTyped, Places
<1>4. LaneOK'
  BY <1>1, <1>3 DEF LaneOK, LanePlaces, Critical
<1>5. (\A l \in Loops : LoopOK(l)') /\ RedispatchOK'
  BY <1>3, NotSending DEF Sending, RedispatchOK, Redispatching, Loops
<1> QED
  BY <1>2, <1>3, <1>4, <1>5, AfterParts

(* A step that moves no loop keeps the lane.                                *)
LEMMA LoopsWait ==
    ASSUME Before, UNCHANGED <<pc, job, lane>>
    PROVE  LoopsTyped' /\ LaneOK'
BY DEF Before, LoopsTyped, LaneOK, HoldsLane

LEMMA StartStep == ASSUME Before, Start PROVE Before'
<1>1. UNCHANGED <<network, mem, disk, lane, pc, job, dispatched, faults, crashes>> /\ up' = TRUE
  BY DEF Start
<1>2. Books' /\ Outstanding' = Outstanding
  BY <1>1, BooksStay DEF Before, Books, BooksTyped, FewerSettling, Settling, Outstanding
<1>3. LoopsTyped' /\ LaneOK'
  BY <1>1, LoopsWait
<1>4. \A l \in Loops : LoopOK(l)'
  BY <1>1, <1>2, LoopUndisturbed DEF Before, network
<1>5. RedispatchOK'
  BY <1>1, <1>2, RedispatchKept DEF Before
<1> QED
  BY <1>2, <1>3, <1>4, <1>5, AfterParts

LEMMA ChainStep ==
    ASSUME Before,
           \/ \E tx \in Txs, ok \in BOOLEAN : Mine(tx, ok)
           \/ Reorg
           \/ \E tx \in Txs : Lose(tx)
    PROVE  Before'
<1>1. UNCHANGED <<final, mem, disk, lane, pc, job, up, dispatched, faults, crashes>>
  <2>1. CASE \E tx \in Txs, ok \in BOOLEAN : Mine(tx, ok)
    BY <2>1 DEF Mine
  <2>2. CASE Reorg
    BY <2>2 DEF Reorg
  <2>3. CASE \E tx \in Txs : Lose(tx)
    BY <2>3 DEF Lose
  <2> QED
    BY <2>1, <2>2, <2>3
<1>2. /\ Books' /\ Outstanding' = Outstanding
      /\ \A u : Final(u)' <=> Final(u)
      /\ \A w : DueAt(w, final)' <=> DueAt(w, final)
  BY ChainMoves DEF Before
<1>3. LoopsTyped' /\ LaneOK'
  BY <1>1, LoopsWait
<1>4. \A l \in Loops : LoopOK(l)'
  BY <1>1, <1>2 DEF Before, LoopOK
<1>5. RedispatchOK'
  BY <1>1, <1>2, RedispatchKept DEF Before
<1> QED
  BY <1>2, <1>3, <1>4, <1>5, AfterParts

(* Nothing becomes final while its request is open.                         *)
LEMMA FinalizeStep == ASSUME Before, Finalize PROVE Before'
<1>1. /\ UNCHANGED <<chain, relays, mem, disk, lane, pc, job, up, dispatched, faults, crashes>>
      /\ chain[final + 1].tx \notin BeingSent
  BY DEF Finalize
<1>2. /\ Books' /\ Outstanding' = Outstanding
      /\ Outstanding # {} /\ Outstanding \subseteq dispatched
      /\ \A u : Final(u)' => Final(u) \/ u = chain[final + 1].tx
  BY BoundaryMoves DEF Before
<1>3. LoopsTyped' /\ LaneOK'
  BY <1>1, LoopsWait
<1>4. ASSUME NEW l \in Loops PROVE LoopOK(l)'
  <2>1. LoopOK(l)
    BY DEF Before
  <2>2. pc[l] \notin {"sign", "prepare", "dispatch"}
    BY <1>2, <2>1 DEF LoopOK
  <2>3. pc[l] = "mark" => job[l].tx \in dispatched /\ ~Final(job[l].tx)'
    <3>1. pc[l] = "mark" => job[l].tx # chain[final + 1].tx
      BY <1>1 DEF BeingSent
    <3>2. pc[l] = "mark" => job[l].tx \in dispatched /\ ~Final(job[l].tx)
      BY <2>1 DEF LoopOK
    <3>3. (Final(job[l].tx))' => Final(job[l].tx) \/ job[l].tx = chain[final + 1].tx
      BY <1>1, <1>2 DEF Final, MinedAt
    <3> QED
      BY <3>1, <3>2, <3>3
  <2> QED
    BY <1>1, <2>2, <2>3 DEF LoopOK
<1>5. RedispatchOK'
  BY <1>1, <1>2, RedispatchKept DEF Before
<1> QED
  BY <1>2, <1>3, <1>4, <1>5, AfterParts

----------------------------------------------------------------------------
(* The invariant. *)

(* The lane begins empty, with nothing journaled.                           *)
LEMMA LaneInit == Init => LaneInv
<1> SUFFICES ASSUME Init PROVE LaneInv
  OBVIOUS
<1> USE ExecutorSetting DEF Init
<1>1. Outstanding = {} /\ Journaled = {} /\ EmptyOutbox \in Outboxes
  BY DEF Outstanding, Journaled, EmptyOutbox, Outboxes
<1>2. NoJob \in Jobs /\ NoJob.settled = {}
  BY DEF NoJob, Jobs
<1>3. TypeOK
  BY <1>1, <1>2 DEF TypeOK, Places, LanePlaces
<1>4. NetworkInv
  BY DEF NetworkInv
<1>5. JournalInv
  BY <1>1 DEF JournalInv
<1>6. PlaceInv
  BY DEF PlaceInv, LanePlaces, Loops
<1>7. EarnedInv
  <2>1. Counted(Outstanding \cup job["pass"].settled) = {} /\ Counted(Journaled) = {}
    BY DEF Counted
  <2>2. job["pass"].settled = {} /\ mem.earned = 0 /\ disk.earned = 0
    BY <1>2 DEF Loops
  <2>3. Cardinality({}) = 0
    BY FS_EmptySet
  <2>4. /\ mem.earned <= Cardinality(Counted(Outstanding \cup job["pass"].settled))
        /\ disk.earned <= Cardinality(Counted(Journaled)) /\ disk.earned <= mem.earned
    <3> HIDE DEF Init
    <3> QED
      BY <2>1, <2>2, <2>3
  <2> HIDE DEF Init
  <2> QED
    BY <2>2, <2>4 DEF EarnedInv
<1> QED
  BY <1>3, <1>4, <1>5, <1>6, <1>7 DEF LaneInv

LEMMA SubmissionStep ==
    ASSUME WritesLand, Before, NEW l \in Loops, Submission(l)
    PROVE  Before'
BY TakeTurnStep, AdmitStep, DeferStep, SignStep, RecordPreparedStep, DispatchStep,
   DispatchRejectedStep, MarkSubmittedStep, CloseStep DEF Submission

LEMMA RedispatchStep == ASSUME WritesLand, Before, Redispatch PROVE Before'
BY RedispatchPreparedStep, SkipRedispatchStep, FindKnownStep, NotKnownStep, BlockedStep, ResendStep,
   MarkResentStep, RecordFailureStep DEF Redispatch

LEMMA EvaluateStep ==
    ASSUME Before, NEW view \in 0..MaxNonce, NEW due \in SUBSET Intents, Evaluate(view, due)
    PROVE  Before'
BY FindStep DEF Evaluate, At, Work, Loops

LEMMA PlanStep ==
    ASSUME Before, NEW due \in SUBSET Conversions, PlanConversions(due)
    PROVE  Before'
BY FindStep DEF PlanConversions, At, Work, Loops

(* Every step of the program and of the network keeps the invariant.        *)
LEMMA LaneStep == ASSUME WritesLand, LaneInv, [Next]_vars PROVE LaneInv'
<1>1. Before
  BY LaneInvParts DEF Before
<1>2. Before'
  <2>1. CASE PassStep
    BY <1>1, <2>1, BeginPassStep, SettleStep, AccountStep, RedispatchStep, EvaluateStep DEF PassStep
  <2>2. CASE \E due \in SUBSET Conversions : PlanConversions(due)
    BY <1>1, <2>2, PlanStep
  <2>3. CASE \E l \in Loops : Submission(l)
    BY <1>1, <2>3, SubmissionStep
  <2>4. CASE Crash
    BY <1>1, <2>4, CrashStep
  <2>5. CASE Start
    BY <1>1, <2>5, StartStep
  <2>6. CASE Network
    BY <1>1, <2>6, ChainStep, FinalizeStep DEF Network
  <2>7. CASE UNCHANGED vars
    <3>1. UNCHANGED <<chain, final, relays, mem, disk, lane, pc, job, up, dispatched, faults, crashes>>
      BY <2>7 DEF vars
    <3>2. Books' /\ Outstanding' = Outstanding
      BY <1>1, <3>1, BooksStay DEF Before, Books, BooksTyped, FewerSettling, Settling, Outstanding, network
    <3>3. LoopsTyped' /\ LaneOK'
      BY <1>1, <3>1, LoopsWait
    <3>4. \A l \in Loops : LoopOK(l)'
      BY <1>1, <3>1, <3>2, LoopUndisturbed DEF Before
    <3>5. RedispatchOK'
      BY <1>1, <3>1, <3>2, RedispatchKept DEF Before
    <3> QED
      BY <3>2, <3>3, <3>4, <3>5, AfterParts
  <2> QED
    BY <2>1, <2>2, <2>3, <2>4, <2>5, <2>6, <2>7 DEF Next
<1> QED
  BY <1>2 DEF Before, LaneInv, Books, TypeOK, BooksTyped, LoopsTyped, LaneOK, PlaceInv, LoopOK,
              RedispatchOK, Redispatching, Critical

(* What leaves the process was journaled, memory and file agree up to what  *)
(* is final, and whoever is past admission works on the one entry.          *)
THEOREM LaneInvariant == ASSUME WritesLand PROVE Spec => []LaneInv
<1>1. Init => LaneInv
  BY LaneInit
<1>2. LaneInv /\ [Next]_vars => LaneInv'
  BY LaneStep
<1> QED
  BY <1>1, <1>2, PTL DEF Spec

(* OneUnresolved: at most one transaction of the key is journaled or out    *)
(* and not final.                                                           *)
THEOREM OneUnresolvedTheorem == ASSUME WritesLand PROVE Spec => []OneUnresolved
<1>1. LaneInv => OneUnresolved
  <2> SUFFICES ASSUME LaneInv PROVE OneUnresolved
    OBVIOUS
  <2> DEFINE open == {tx \in Outstanding \cup dispatched : ~Final(tx)}
  <2>1. open = {} \/ \E tx \in open : open = {tx}
    BY DEF LaneInv, JournalInv
  <2>2. Cardinality(open) <= 1
    <3>1. CASE open = {}
      BY <3>1, FS_EmptySet
    <3>2. ASSUME NEW tx, open = {tx} PROVE Cardinality(open) <= 1
      <4>1. Cardinality({tx}) = 1
        BY FS_Singleton
      <4> QED
        BY <3>2, <4>1
    <3> QED
      BY <2>1, <3>1, <3>2
  <2> QED
    BY <2>2 DEF OneUnresolved
<1> QED
  BY <1>1, LaneInvariant, PTL

(* EarningsHonest: no success is counted twice, in memory or on disk.       *)
THEOREM EarningsTheorem == ASSUME WritesLand PROVE Spec => []EarningsHonest
<1>1. LaneInv => EarningsHonest
  <2> SUFFICES ASSUME LaneInv PROVE EarningsHonest
    OBVIOUS
  <2> DEFINE S == Counted(Outstanding \cup job["pass"].settled)
             T == {k \in 1..final : chain[k].ok}
  <2>1. final \in Nat /\ mem.earned \in Nat /\ disk.earned <= mem.earned
        /\ mem.earned <= Cardinality(S)
    BY DEF LaneInv, TypeOK, EarnedInv
  <2>2. S \subseteq T /\ T \subseteq 1..final
    BY DEF Counted
  <2>3. Cardinality(S) \in Nat /\ Cardinality(T) \in Nat /\ Cardinality(S) <= Cardinality(T)
    <3> HIDE DEF S, T
    <3> QED
      BY <2>1, <2>2, MoreCounted
  <2>4. mem.earned <= Cardinality(T)
    <3> HIDE DEF S, T
    <3> QED
      BY <2>1, <2>3
  <2> QED
    BY <2>1, <2>4 DEF EarningsHonest
<1> QED
  BY <1>1, LaneInvariant, PTL

----------------------------------------------------------------------------
(* What any step may do to the chain below the boundary, to what has left,  *)
(* and, once the circuit is open, to the outbox.                            *)

(* No step of the program changes the chain.                                *)
LEMMA LoopsLeaveChain ==
    ASSUME \/ PassStep \/ (\E due \in SUBSET Conversions : PlanConversions(due))
           \/ (\E l \in Loops : Submission(l)) \/ Crash \/ Start
    PROVE  UNCHANGED <<chain, final>>
<1> USE DEF network
<1>1. CASE PassStep
  <2>1. CASE Redispatch
    BY <2>1 DEF Redispatch, RedispatchPrepared, SkipRedispatch, FindKnown, NotKnown,
       RedispatchBlocked, Resend, ResendRejected, MarkResent, RecordDispatchFailure, Deliver,
       RejectedByAll
  <2>2. CASE PassStep /\ ~Redispatch
    BY <2>2 DEF PassStep, BeginPass, Settle, AccountSettledReceipts, Evaluate
  <2> QED
    BY <1>1, <2>1, <2>2
<1>2. CASE \E due \in SUBSET Conversions : PlanConversions(due)
  BY <1>2 DEF PlanConversions
<1>3. ASSUME NEW l \in Loops, Submission(l) PROVE UNCHANGED <<chain, final>>
  BY <1>3 DEF Submission, TakeTurn, Admit, Defer, Sign, RecordPrepared, Dispatch, DispatchRejected,
     MarkSubmitted, CloseLoop, Deliver, RejectedByAll
<1>4. CASE Crash \/ Start
  BY <1>4 DEF Crash, Start
<1> QED
  BY <1>1, <1>2, <1>3, <1>4

(* No reorganisation reaches below the boundary, and the boundary only rises. *)
LEMMA ChainKept ==
    ASSUME Before, [Next]_vars
    PROVE  final <= final' /\ \A k \in 1..final : chain'[k] = chain[k]
<1>0. /\ final \in Nat /\ Len(chain) \in Nat /\ final <= Len(chain)
      /\ chain \in Seq([tx : Txs, ok : BOOLEAN])
  BY DEF Before, Books, BooksTyped
<1>1. ASSUME NEW tx \in Txs, NEW ok \in BOOLEAN, Mine(tx, ok)
      PROVE  final <= final' /\ \A k \in 1..final : chain'[k] = chain[k]
  BY <1>0, <1>1 DEF Mine
<1>2. CASE Reorg
  BY <1>0, <1>2 DEF Reorg
<1>3. CASE Finalize
  BY <1>0, <1>3 DEF Finalize
<1>4. ASSUME NEW tx \in Txs, Lose(tx)
      PROVE  final <= final' /\ \A k \in 1..final : chain'[k] = chain[k]
  BY <1>0, <1>4 DEF Lose
<1>5. CASE UNCHANGED <<chain, final>>
  BY <1>0, <1>5
<1>6. CASE UNCHANGED vars
  BY <1>5, <1>6 DEF vars
<1> QED
  BY <1>1, <1>2, <1>3, <1>4, <1>5, <1>6, LoopsLeaveChain DEF Next, Network

(* Only the journaled entry leaves. *)
LEMMA OnlyEntriesLeave ==
    ASSUME Before, [Next]_vars
    PROVE  \/ UNCHANGED dispatched
           \/ \E tx \in Outstanding : dispatched' = dispatched \cup {tx} /\ UNCHANGED <<chain, final>>
<1> DEFINE Goal == \/ UNCHANGED dispatched
                   \/ \E tx \in Outstanding :
                        dispatched' = dispatched \cup {tx} /\ UNCHANGED <<chain, final>>
<1>1. ASSUME NEW tx \in Outstanding, NEW received, Deliver(tx, received) \/ RejectedByAll(tx)
      PROVE  Goal
  BY <1>1 DEF Deliver, RejectedByAll, network
<1>2. CASE Redispatch
  <2>1. CASE ResendRejected
    <3>1. job["pass"].tx \in Outstanding /\ RejectedByAll(job["pass"].tx)
      BY <2>1, RedispatchEntry DEF ResendRejected, At, Redispatching
    <3> QED
      BY <3>1, <1>1
  <2>2. ASSUME NEW received \in BOOLEAN, Resend(received) PROVE Goal
    <3>1. job["pass"].tx \in Outstanding /\ Deliver(job["pass"].tx, received)
      BY <2>2, RedispatchEntry DEF Resend, At, Redispatching
    <3> QED
      BY <3>1, <1>1
  <2>3. CASE ~ResendRejected /\ ~(\E received \in BOOLEAN : Resend(received))
    BY <1>2, <2>3 DEF Redispatch, RedispatchPrepared, SkipRedispatch, FindKnown, NotKnown,
       RedispatchBlocked, MarkResent, RecordDispatchFailure
  <2> QED
    BY <2>1, <2>2, <2>3
<1>3. CASE PassStep /\ ~Redispatch
  BY <1>3 DEF PassStep, BeginPass, Settle, AccountSettledReceipts, Evaluate
<1>4. ASSUME NEW l \in Loops, Submission(l) PROVE Goal
  <2>1. CASE DispatchRejected(l)
    <3>1. job[l].tx \in Outstanding /\ RejectedByAll(job[l].tx)
      BY <2>1 DEF DispatchRejected, At, Before, LoopOK
    <3> QED
      BY <3>1, <1>1
  <2>2. ASSUME NEW received \in BOOLEAN, Dispatch(l, received) PROVE Goal
    <3>1. job[l].tx \in Outstanding /\ Deliver(job[l].tx, received)
      BY <2>2 DEF Dispatch, At, Before, LoopOK
    <3> QED
      BY <3>1, <1>1
  <2>3. CASE ~DispatchRejected(l) /\ ~(\E received \in BOOLEAN : Dispatch(l, received))
    BY <1>4, <2>3 DEF Submission, TakeTurn, Admit, Defer, Sign, RecordPrepared, MarkSubmitted, CloseLoop
  <2> QED
    BY <2>1, <2>2, <2>3
<1>5. CASE (\E due \in SUBSET Conversions : PlanConversions(due)) \/ Crash \/ Start \/ Network
  BY <1>5 DEF PlanConversions, Crash, Start, Network, Mine, Lose, Reorg, Finalize
<1>6. CASE UNCHANGED vars
  BY <1>6 DEF vars
<1> QED
  BY <1>2, <1>3, <1>4, <1>5, <1>6 DEF Next, PassStep

----------------------------------------------------------------------------
(* The circuit.  This needs no file: only the loop at the head of the lane  *)
(* can open it, and nobody but the pass takes entries out of memory.        *)

MemoryShaped ==
    /\ mem \in [outbox : Outboxes, earned : {mem.earned}, halted : BOOLEAN]
    /\ disk.outbox \in Outboxes

ClosedWhileSending ==
    \A l \in Loops : pc[l] \in Sending => ~mem.halted /\ (pc[l] = "sign" \/ job[l].tx \in Txs)

CircuitInv == MemoryShaped /\ LoopsTyped /\ LaneOK /\ ClosedWhileSending /\ RedispatchOK

(* Memory may only change as the circuit allows.                            *)
CircuitKept == (mem.halted /\ mem'.halted) => Outstanding' \subseteq Outstanding

(* A step of a loop that touches neither outbox nor circuit.                *)
LEMMA CircuitAside ==
    ASSUME CircuitInv, NEW l \in Loops, NEW p \in Places, pc' = [pc EXCEPT ![l] = p],
           LoopsTyped', LaneOK', MemoryShaped',
           mem'.outbox = mem.outbox, mem'.halted = mem.halted,
           p \in Sending => ~mem.halted /\ (p = "sign" \/ job'[l].tx \in Txs),
           \A k \in Loops : k # l => job'[k] = job[k],
           l = "pass" /\ p \in {"known", "resend", "resent", "refused"}
               => job'["pass"].tx \in Outstanding
    PROVE  CircuitInv' /\ CircuitKept
<1>1. pc'[l] = p /\ \A k \in Loops : k # l => pc'[k] = pc[k]
  BY DEF CircuitInv, LoopsTyped
<1>2. Outstanding' = Outstanding
  BY DEF Outstanding
<1>3. ClosedWhileSending'
  BY <1>1 DEF CircuitInv, ClosedWhileSending
<1>4. RedispatchOK'
  BY <1>1, <1>2 DEF CircuitInv, RedispatchOK, Redispatching, Loops
<1> QED
  BY <1>2, <1>3, <1>4 DEF CircuitInv, CircuitKept

(* A journal write by the holder of the lane, whatever becomes of the file. *)
LEMMA CircuitWrite ==
    ASSUME CircuitInv, NEW l \in Loops, NEW p \in Places, pc' = [pc EXCEPT ![l] = p],
           LoopsTyped', LaneOK', HoldsLane(l), pc[l] \in Critical \cup {"known"},
           NEW tx \in Txs, NEW s \in {"prepared", "submitted"}, NEW fate,
           PersistOrOpenCircuit(SetEntry(tx, s), fate),
           pc[l] \in Sending \/ (l = "pass" /\ tx \in Outstanding),
           p \in Sending => fate = "ok" /\ pc[l] \in Sending /\ job'[l].tx = tx,
           \A k \in Loops : k # l => job'[k] = job[k],
           l = "pass" /\ p \in {"known", "resend", "resent", "refused"} => job'["pass"].tx = tx
    PROVE  CircuitInv' /\ CircuitKept
<1>1. pc'[l] = p /\ \A k \in Loops : k # l => pc'[k] = pc[k]
  BY DEF CircuitInv, LoopsTyped
<1>2. mem \in [outbox : Outboxes, earned : {mem.earned}, halted : BOOLEAN]
      /\ SetEntry(tx, s) \in Outboxes
  BY DEF CircuitInv, MemoryShaped, SetEntry, Outboxes
<1>3. /\ mem'.outbox = SetEntry(tx, s)
      /\ fate = "ok" => mem'.halted = mem.halted
      /\ mem' \in [outbox : Outboxes, earned : {mem'.earned}, halted : BOOLEAN]
  BY <1>2 DEF PersistOrOpenCircuit
<1>4. disk'.outbox \in Outboxes
  <2> DEFINE m == [mem EXCEPT !.outbox = SetEntry(tx, s)]
  <2>1. WriteState(m, fate) /\ m.outbox = SetEntry(tx, s)
    BY <1>2 DEF PersistOrOpenCircuit
  <2> HIDE DEF m
  <2>2. disk' = disk \/ disk' = [outbox |-> m.outbox, earned |-> m.earned]
    BY <2>1 DEF WriteState, FileAfter
  <2> QED
    BY <1>2, <2>1, <2>2 DEF CircuitInv, MemoryShaped
<1>5. Outstanding' = Outstanding \cup {tx}
  <2>1. \A u \in Txs : SetEntry(tx, s)[u] = IF u = tx THEN s ELSE mem.outbox[u]
    BY <1>2 DEF SetEntry, Outboxes
  <2> QED
    BY <1>3, <2>1 DEF Outstanding
<1>6. ClosedWhileSending'
  <2>1. \A k \in Loops : k # l => pc'[k] \notin Sending
    BY <1>1, Exclusive DEF CircuitInv, Sending, Critical, LanePlaces
  <2> QED
    BY <1>1, <1>3, <2>1 DEF CircuitInv, ClosedWhileSending
<1>7. RedispatchOK'
  BY <1>1, <1>5 DEF CircuitInv, RedispatchOK, Redispatching, Loops
<1>8. CircuitKept
  BY <1>5 DEF CircuitInv, ClosedWhileSending, CircuitKept
<1> QED
  BY <1>3, <1>4, <1>6, <1>7, <1>8 DEF CircuitInv, MemoryShaped

(* The pass outside the lane. *)
LEMMA CircuitPass ==
    ASSUME CircuitInv,
           \/ BeginPass \/ SkipRedispatch \/ AccountSettledReceipts
           \/ \E settled \in SUBSET Outstanding : Settle(settled)
           \/ \E tx \in Txs : RedispatchPrepared(tx)
           \/ \E view \in 0..MaxNonce, due \in SUBSET Intents : Evaluate(view, due)
    PROVE  CircuitInv' /\ CircuitKept
<1>0. /\ MemoryShaped /\ LoopsTyped /\ LaneOK /\ "pass" \in Loops
      /\ mem \in [outbox : Outboxes, earned : {mem.earned}, halted : BOOLEAN]
  BY DEF CircuitInv, MemoryShaped, Loops
<1>1. ASSUME BeginPass \/ SkipRedispatch PROVE CircuitInv' /\ CircuitKept
  <2>1. PICK p \in {"settle", "evaluate"} :
          /\ pc' = [pc EXCEPT !["pass"] = p] /\ pc["pass"] \in {"idle", "redispatch"}
          /\ UNCHANGED <<mem, disk, lane, job>>
    BY <1>1 DEF BeginPass, SkipRedispatch, At, Goto
  <2>2. LoopsTyped' /\ MemoryShaped'
    BY <1>0, <2>1 DEF LoopsTyped, Places, MemoryShaped
  <2>3. LaneOK'
    BY <1>0, <2>1, LaneStays DEF LanePlaces, Critical
  <2> QED
    BY <1>0, <2>1, <2>2, <2>3, CircuitAside DEF Places, Sending
<1>2. CASE AccountSettledReceipts
  <2>1. PICK p \in {"redispatch", "write"} :
          /\ pc' = [pc EXCEPT !["pass"] = p] /\ pc["pass"] \in {"account", "accountAgain"}
          /\ UNCHANGED <<disk, lane>> /\ job' = [job EXCEPT !["pass"].settled = {}]
    BY <1>2 DEF AccountSettledReceipts, Goto
  <2>2. PICK e : mem' = [mem EXCEPT !.earned = e]
    BY <1>2 DEF AccountSettledReceipts
  <2>3. /\ mem'.outbox = mem.outbox /\ mem'.halted = mem.halted /\ MemoryShaped'
    BY <1>0, <2>1, <2>2 DEF MemoryShaped
  <2>4. LoopsTyped' /\ \A k \in Loops : k # "pass" => job'[k] = job[k]
    <3>1. job' \in [Loops -> Jobs]
      BY <1>0, <2>1 DEF LoopsTyped, Jobs, Loops
    <3> QED
      BY <1>0, <2>1, <3>1 DEF LoopsTyped, Places
  <2>5. LaneOK'
    BY <1>0, <2>1, LaneStays DEF LanePlaces, Critical
  <2> QED
    BY <1>0, <2>1, <2>3, <2>4, <2>5, CircuitAside DEF Places, Sending
<1>3. ASSUME NEW settled \in SUBSET Outstanding, Settle(settled) PROVE CircuitInv' /\ CircuitKept
  <2>1. PICK p \in {"account", "accountAgain"} :
          /\ pc' = [pc EXCEPT !["pass"] = p] /\ pc["pass"] \in {"settle", "settleAgain"}
          /\ UNCHANGED <<disk, lane>> /\ job' = [job EXCEPT !["pass"].settled = settled]
          /\ mem' = [mem EXCEPT !.outbox = OutboxWithout(settled)]
    BY <1>3 DEF Settle, Goto
  <2>2. OutboxWithout(settled) \in Outboxes
    BY <1>0 DEF OutboxWithout, Outboxes
  <2>3. /\ mem'.outbox = OutboxWithout(settled) /\ mem'.halted = mem.halted /\ MemoryShaped'
    BY <1>0, <2>1, <2>2 DEF MemoryShaped
  <2>4. CircuitKept
    BY <2>3 DEF CircuitKept, Outstanding, OutboxWithout
  <2>5. /\ LoopsTyped' /\ pc'["pass"] = p
        /\ \A k \in Loops : k # "pass" => pc'[k] = pc[k] /\ job'[k] = job[k]
    <3>1. settled \subseteq Txs
      BY DEF Outstanding
    <3>2. job' \in [Loops -> Jobs]
      BY <1>0, <2>1, <3>1 DEF LoopsTyped, Jobs, Loops
    <3> QED
      BY <1>0, <2>1, <3>2 DEF LoopsTyped, Places
  <2>6. LaneOK'
    BY <1>0, <2>1, LaneStays DEF LanePlaces, Critical
  <2>7. ClosedWhileSending' /\ RedispatchOK'
    BY <2>3, <2>5 DEF CircuitInv, ClosedWhileSending, Sending, RedispatchOK, Redispatching
  <2> QED
    BY <2>3, <2>4, <2>5, <2>6, <2>7 DEF CircuitInv
<1>4. ASSUME NEW tx \in Txs, RedispatchPrepared(tx) PROVE CircuitInv' /\ CircuitKept
  <2>1. /\ pc' = [pc EXCEPT !["pass"] = "known"] /\ pc["pass"] = "redispatch" /\ Prepared = {tx}
        /\ job' = [job EXCEPT !["pass"].tx = tx] /\ lane' = Append(lane, "pass")
        /\ UNCHANGED <<mem, disk>>
    BY <1>4 DEF RedispatchPrepared, At, Goto
  <2>2. /\ LoopsTyped' /\ job'["pass"].tx = tx /\ \A k \in Loops : k # "pass" => job'[k] = job[k]
    <3>1. job' \in [Loops -> Jobs] /\ job'["pass"].tx = tx
      BY <1>0, <2>1 DEF LoopsTyped, Jobs, Loops
    <3> QED
      BY <1>0, <2>1, <3>1 DEF LoopsTyped, Places
  <2>3. LaneOK'
    BY <1>0, <2>1, LaneEnters DEF LanePlaces
  <2>4. tx \in Outstanding /\ MemoryShaped'
    BY <1>0, <2>1 DEF Outstanding, Prepared, MemoryShaped
  <2> QED
    BY <1>0, <2>1, <2>2, <2>3, <2>4, CircuitAside DEF Places, Sending
<1>5. ASSUME NEW view \in 0..MaxNonce, NEW due \in SUBSET Intents, Evaluate(view, due)
      PROVE  CircuitInv' /\ CircuitKept
  <2>1. /\ Continue("pass", due) /\ due \in SUBSET Work /\ pc["pass"] = "evaluate"
        /\ UNCHANGED <<mem, disk, lane>>
    BY <1>5 DEF Evaluate, At, Work
  <2>2. PICK p \in {"queue", "settleAgain", "write"} : pc' = [pc EXCEPT !["pass"] = p]
    BY <1>0, <2>1, ContinueFacts
  <2>3. LoopsTyped' /\ MemoryShaped' /\ \A k \in Loops : k # "pass" => job'[k] = job[k]
    BY <1>0, <2>1, ContinueFacts DEF MemoryShaped
  <2>4. LaneOK'
    BY <1>0, <2>1, <2>2, LaneStays DEF LanePlaces, Critical
  <2> QED
    BY <1>0, <2>1, <2>2, <2>3, <2>4, CircuitAside DEF Places, Sending
<1> QED
  BY <1>1, <1>2, <1>3, <1>4, <1>5

(* The redispatch. *)
LEMMA CircuitRedispatch ==
    ASSUME CircuitInv,
           \/ NotKnown \/ RedispatchBlocked \/ ResendRejected
           \/ \E received \in BOOLEAN : Resend(received)
           \/ \E fate \in Fates :
                FindKnown(fate) \/ MarkResent(fate) \/ RecordDispatchFailure(fate)
    PROVE  CircuitInv' /\ CircuitKept
<1> DEFINE tx == job["pass"].tx
<1>0. /\ MemoryShaped /\ LoopsTyped /\ LaneOK /\ "pass" \in Loops
      /\ pc["pass"] \in {"known", "resend", "resent", "refused"} => tx \in Outstanding /\ tx \in Txs
  BY DEF CircuitInv, RedispatchOK, Redispatching, Loops, Outstanding
<1>1. CASE RedispatchBlocked
  <2>1. HoldsLane("pass") /\ EndRedispatch("evaluate") /\ UNCHANGED <<mem, disk>>
    BY <1>1 DEF RedispatchBlocked
  <2>2. /\ LoopsTyped' /\ LaneOK' /\ pc' = [pc EXCEPT !["pass"] = "evaluate"]
        /\ \A k \in Loops : k # "pass" => job'[k] = job[k]
    BY <1>0, <2>1, EndRedispatchFacts
  <2>3. MemoryShaped'
    BY <1>0, <2>1 DEF MemoryShaped
  <2> QED
    BY <1>0, <2>1, <2>2, <2>3, CircuitAside DEF Places, Sending
<1>2. ASSUME NotKnown \/ ResendRejected \/ \E received \in BOOLEAN : Resend(received)
      PROVE  CircuitInv' /\ CircuitKept
  <2>1. PICK p \in {"resend", "resent", "refused"} :
          /\ pc' = [pc EXCEPT !["pass"] = p] /\ pc["pass"] \in {"known", "resend"}
          /\ HoldsLane("pass") /\ UNCHANGED <<mem, disk, lane, job>>
    BY <1>2 DEF NotKnown, ResendRejected, Resend, At, Goto
  <2>2. LoopsTyped' /\ MemoryShaped'
    BY <1>0, <2>1 DEF LoopsTyped, Places, MemoryShaped
  <2>3. LaneOK'
    BY <1>0, <2>1, LaneStays DEF LanePlaces
  <2> QED
    BY <1>0, <2>1, <2>2, <2>3, CircuitAside DEF Places, Sending
<1>3. ASSUME NEW fate \in Fates, FindKnown(fate) \/ MarkResent(fate)
      PROVE  CircuitInv' /\ CircuitKept
  <2>1. /\ pc["pass"] \in {"known", "resent"} /\ HoldsLane("pass")
        /\ PersistOrOpenCircuit(SetEntry(tx, "submitted"), fate)
    BY <1>3 DEF FindKnown, MarkResent, At
  <2>2. PICK p \in {"evaluate", "resend", "refused"} :
          /\ pc' = [pc EXCEPT !["pass"] = p] /\ LoopsTyped' /\ LaneOK'
          /\ \A k \in Loops : k # "pass" => job'[k] = job[k]
          /\ p # "evaluate" => job'["pass"].tx = tx
    <3>1. CASE fate = "ok"
      <4>1. EndRedispatch("evaluate")
        BY <1>3, <3>1 DEF FindKnown, MarkResent
      <4> QED
        BY <1>0, <2>1, <4>1, EndRedispatchFacts
    <3>2. CASE fate # "ok"
      <4>1. PICK p \in {"resend", "refused"} :
              pc' = [pc EXCEPT !["pass"] = p] /\ UNCHANGED <<lane, job>>
        BY <1>3, <3>2 DEF FindKnown, MarkResent, Goto
      <4>2. LoopsTyped'
        BY <1>0, <4>1 DEF LoopsTyped, Places
      <4>3. LaneOK'
        BY <1>0, <2>1, <4>1, LaneStays DEF LanePlaces
      <4> QED
        BY <4>1, <4>2, <4>3
    <3> QED
      BY <3>1, <3>2
  <2>3. pc["pass"] \in Critical \cup {"known"} /\ tx \in Outstanding /\ tx \in Txs
    BY <1>0, <2>1 DEF Critical, LanePlaces
  <2>4. PICK s \in {"prepared", "submitted"} : PersistOrOpenCircuit(SetEntry(tx, s), fate)
    BY <2>1
  <2>5. p \in Places /\ p \notin Sending
    BY <2>2 DEF Places, Sending
  <2>6. p \in {"known", "resend", "resent", "refused"} => job'["pass"].tx = tx
    BY <2>2
  <2>7. \A k \in Loops : k # "pass" => job'[k] = job[k]
    BY <2>2
  <2> QED
    BY <1>0, <2>1, <2>2, <2>3, <2>4, <2>5, <2>6, <2>7, CircuitWrite
<1>4. ASSUME NEW fate \in Fates, RecordDispatchFailure(fate) PROVE CircuitInv' /\ CircuitKept
  <2>1. /\ pc["pass"] = "refused" /\ HoldsLane("pass")
        /\ PersistOrOpenCircuit(SetEntry(tx, "prepared"), fate)
    BY <1>4 DEF RecordDispatchFailure, At
  <2>2. PICK p \in {"evaluate", "idle"} : EndRedispatch(p)
    BY <1>4 DEF RecordDispatchFailure
  <2>3. /\ LoopsTyped' /\ LaneOK' /\ pc' = [pc EXCEPT !["pass"] = p]
        /\ \A k \in Loops : k # "pass" => job'[k] = job[k]
    BY <1>0, <2>1, <2>2, EndRedispatchFacts
  <2>4. pc["pass"] \in Critical \cup {"known"} /\ tx \in Outstanding /\ tx \in Txs
    BY <1>0, <2>1 DEF Critical, LanePlaces
  <2>5. p \in Places /\ p \notin Sending /\ p \notin {"known", "resend", "resent", "refused"}
    BY <2>2 DEF Places, Sending
  <2> QED
    BY <1>0, <2>1, <2>3, <2>4, <2>5, CircuitWrite
<1> QED
  BY <1>1, <1>2, <1>3, <1>4

(* A submission, and the write that closes a loop.                          *)
LEMMA CircuitSubmission ==
    ASSUME CircuitInv, NEW l \in Loops, Submission(l)
    PROVE  CircuitInv' /\ CircuitKept
<1>0. /\ MemoryShaped /\ LoopsTyped /\ LaneOK /\ job[l] \in Jobs
      /\ \A w : job[l].todo \ {w} \in SUBSET Work
      /\ pc[l] \in {"sign", "prepare", "dispatch", "mark"} => ~mem.halted
      /\ pc[l] \in {"prepare", "dispatch", "mark"} => job[l].tx \in Txs
  BY DEF CircuitInv, LoopsTyped, Jobs, ClosedWhileSending, Sending
<1>1. CASE TakeTurn(l)
  <2>1. /\ pc' = [pc EXCEPT ![l] = "admit"] /\ pc[l] = "queue" /\ lane' = Append(lane, l)
        /\ UNCHANGED <<mem, disk, job>>
    BY <1>1 DEF TakeTurn, At, Goto
  <2>2. LoopsTyped' /\ MemoryShaped'
    BY <1>0, <2>1 DEF LoopsTyped, Places, MemoryShaped
  <2>3. LaneOK'
    BY <1>0, <2>1, LaneEnters DEF LanePlaces
  <2> QED
    BY <2>1, <2>2, <2>3, CircuitAside DEF Places, Sending
<1>2. CASE Admit(l) \/ \E received \in BOOLEAN : Dispatch(l, received)
  <2>1. PICK p \in {"sign", "mark"} :
          /\ pc' = [pc EXCEPT ![l] = p] /\ HoldsLane(l) /\ UNCHANGED <<mem, disk, lane, job>>
          /\ ~mem.halted /\ (p = "sign" \/ job[l].tx \in Txs) /\ pc[l] \in {"admit", "dispatch"}
    <3>1. CASE Admit(l)
      BY <3>1 DEF Admit, At, Goto, OutboxAdmission
    <3>2. ASSUME NEW received \in BOOLEAN, Dispatch(l, received)
          PROVE  /\ pc' = [pc EXCEPT ![l] = "mark"] /\ HoldsLane(l)
                 /\ UNCHANGED <<mem, disk, lane, job>>
                 /\ ~mem.halted /\ job[l].tx \in Txs /\ pc[l] = "dispatch"
      BY <1>0, <3>2 DEF Dispatch, At, Goto
    <3> QED
      BY <1>2, <3>1, <3>2
  <2>2. LoopsTyped' /\ MemoryShaped'
    BY <1>0, <2>1 DEF LoopsTyped, Places, MemoryShaped
  <2>3. LaneOK'
    BY <1>0, <2>1, LaneStays DEF LanePlaces
  <2> QED
    BY <2>1, <2>2, <2>3, CircuitAside DEF Places, Sending
<1>3. CASE DispatchRejected(l) \/ \E w \in Work : Defer(l, w)
  <2>1. PICK rest \in SUBSET Work :
          Continue(l, rest) /\ HoldsLane(l) /\ lane' = Released /\ UNCHANGED <<mem, disk>>
    BY <1>0, <1>3 DEF DispatchRejected, Defer
  <2>2. PICK p \in {"queue", "settleAgain", "write"} :
          /\ pc' = [pc EXCEPT ![l] = p] /\ LoopsTyped' /\ LaneOK'
          /\ \A k \in Loops : k # l => job'[k] = job[k]
    BY <1>0, <2>1, LeaveFacts
  <2>3. MemoryShaped'
    BY <1>0, <2>1 DEF MemoryShaped
  <2> QED
    BY <2>1, <2>2, <2>3, CircuitAside DEF Places, Sending
<1>4. ASSUME NEW w \in Work, NEW nonce \in 0..MaxNonce, NEW block \in 0..MaxNonce,
             Sign(l, w, nonce, block)
      PROVE  CircuitInv' /\ CircuitKept
  <2> DEFINE tx == [work |-> w, nonce |-> nonce]
  <2>1. /\ pc' = [pc EXCEPT ![l] = "prepare"] /\ pc[l] = "sign" /\ HoldsLane(l)
        /\ nonce < MaxNonce /\ job' = [job EXCEPT ![l].tx = tx] /\ UNCHANGED <<mem, disk, lane>>
    BY <1>4 DEF Sign, At, Goto
  <2>2. tx \in Txs
    BY <2>1, ExecutorSetting DEF Txs
  <2>3. LoopsTyped' /\ job'[l].tx = tx /\ \A k \in Loops : k # l => job'[k] = job[k]
    <3>1. [job[l] EXCEPT !.tx = tx] \in Jobs /\ [job[l] EXCEPT !.tx = tx].tx = tx
      BY <1>0, <2>2 DEF Jobs
    <3>2. job' \in [Loops -> Jobs] /\ job'[l].tx = tx /\ \A k \in Loops : k # l => job'[k] = job[k]
      BY <1>0, <2>1, <3>1 DEF LoopsTyped
    <3> QED
      BY <1>0, <2>1, <3>2 DEF LoopsTyped, Places
  <2>4. LaneOK' /\ MemoryShaped'
    BY <1>0, <2>1, LaneStays DEF LanePlaces, MemoryShaped
  <2> QED
    BY <1>0, <2>1, <2>2, <2>3, <2>4, CircuitAside DEF Places, Sending
<1>5. ASSUME NEW fate \in Fates, RecordPrepared(l, fate) \/ MarkSubmitted(l, fate)
      PROVE  CircuitInv' /\ CircuitKept
  <2>1. /\ pc[l] \in {"prepare", "mark"} /\ HoldsLane(l)
        /\ \E s \in {"prepared", "submitted"} : PersistOrOpenCircuit(SetEntry(job[l].tx, s), fate)
        /\ \/ /\ fate = "ok" /\ pc' = [pc EXCEPT ![l] = "dispatch"] /\ UNCHANGED <<lane, job>>
           \/ \E rest \in SUBSET Work : Continue(l, rest) /\ lane' = Released
    BY <1>0, <1>5 DEF RecordPrepared, MarkSubmitted, At, Goto
  <2>2. PICK p \in {"dispatch", "queue", "settleAgain", "write"} :
          /\ pc' = [pc EXCEPT ![l] = p] /\ LoopsTyped' /\ LaneOK'
          /\ \A k \in Loops : k # l => job'[k] = job[k]
          /\ p = "dispatch" => fate = "ok" /\ UNCHANGED job
    <3>1. CASE fate = "ok" /\ pc' = [pc EXCEPT ![l] = "dispatch"] /\ UNCHANGED <<lane, job>>
      <4>1. LoopsTyped'
        BY <1>0, <3>1 DEF LoopsTyped, Places
      <4>2. LaneOK'
        BY <1>0, <2>1, <3>1, LaneStays DEF LanePlaces
      <4> QED
        BY <3>1, <4>1, <4>2
    <3>2. CASE \E rest \in SUBSET Work : Continue(l, rest) /\ lane' = Released
      BY <1>0, <2>1, <3>2, LeaveFacts
    <3> QED
      BY <2>1, <3>1, <3>2
  <2>3. pc[l] \in Critical /\ pc[l] \in Sending /\ job[l].tx \in Txs
    BY <1>0, <2>1 DEF Critical, LanePlaces, Sending
  <2>4. PICK s \in {"prepared", "submitted"} : PersistOrOpenCircuit(SetEntry(job[l].tx, s), fate)
    BY <2>1
  <2>5. /\ p \in Places /\ p \notin {"known", "resend", "resent", "refused"}
        /\ p \in Sending => p = "dispatch"
    BY <2>2 DEF Places, Sending
  <2>6. p \in Sending => fate = "ok" /\ pc[l] \in Sending /\ job'[l].tx = job[l].tx
    BY <2>2, <2>3, <2>5
  <2> QED
    BY <2>1, <2>2, <2>3, <2>4, <2>5, <2>6, CircuitWrite
<1>6. ASSUME NEW fate \in Fates, CloseLoop(l, fate) PROVE CircuitInv' /\ CircuitKept
  <2>1. /\ pc' = [pc EXCEPT ![l] = "idle"] /\ pc[l] = "write" /\ WriteState(mem, fate)
        /\ UNCHANGED <<mem, lane, job>>
    BY <1>6 DEF CloseLoop, At, Goto
  <2>2. disk' = disk \/ disk' = [outbox |-> mem.outbox, earned |-> mem.earned]
    BY <2>1 DEF WriteState, FileAfter
  <2>3. LoopsTyped' /\ MemoryShaped'
    BY <1>0, <2>1, <2>2 DEF LoopsTyped, Places, MemoryShaped
  <2>4. LaneOK'
    BY <1>0, <2>1, LaneStays DEF LanePlaces, Critical
  <2> QED
    BY <2>1, <2>3, <2>4, CircuitAside DEF Places, Sending
<1> QED
  BY <1>1, <1>2, <1>3, <1>4, <1>5, <1>6 DEF Submission

(* Every step keeps the circuit's invariant, and signs nothing behind it.   *)
LEMMA CircuitStep == ASSUME CircuitInv, [Next]_vars PROVE CircuitInv' /\ CircuitKept
<1>0. /\ MemoryShaped /\ LoopsTyped /\ LaneOK
  BY DEF CircuitInv
<1>1. CASE PassStep
  BY <1>1, CircuitPass, CircuitRedispatch DEF PassStep, Redispatch
<1>2. ASSUME NEW due \in SUBSET Conversions, PlanConversions(due) PROVE CircuitInv' /\ CircuitKept
  <2>1. /\ Continue("maintenance", due) /\ due \in SUBSET Work /\ pc["maintenance"] = "idle"
        /\ "maintenance" \in Loops /\ UNCHANGED <<mem, disk, lane>>
    BY <1>2 DEF PlanConversions, At, Work, Loops
  <2>2. PICK p \in {"queue", "settleAgain", "write"} : pc' = [pc EXCEPT !["maintenance"] = p]
    BY <1>0, <2>1, ContinueFacts
  <2>3. LoopsTyped' /\ MemoryShaped' /\ \A k \in Loops : k # "maintenance" => job'[k] = job[k]
    BY <1>0, <2>1, ContinueFacts DEF MemoryShaped
  <2>4. LaneOK'
    BY <1>0, <2>1, <2>2, LaneStays DEF LanePlaces, Critical
  <2> QED
    BY <1>0, <2>1, <2>2, <2>3, <2>4, CircuitAside DEF Places, Sending
<1>3. CASE \E l \in Loops : Submission(l)
  BY <1>3, CircuitSubmission
<1>4. CASE Crash
  <2>1. /\ mem' = [outbox |-> disk.outbox, earned |-> disk.earned, halted |-> FALSE]
        /\ UNCHANGED disk /\ lane' = <<>>
        /\ pc' = [l \in Loops |-> "idle"] /\ job' = [l \in Loops |-> NoJob]
    BY <1>4 DEF Crash
  <2>2. NoJob \in Jobs
    BY DEF NoJob, Jobs
  <2>3. LoopsTyped' /\ \A l \in Loops : pc'[l] = "idle"
    BY <2>1, <2>2 DEF LoopsTyped, Places
  <2>4. LaneOK'
    BY <2>1, <2>3 DEF LaneOK, LanePlaces, Critical
  <2>5. MemoryShaped' /\ ~mem'.halted
    BY <1>0, <2>1 DEF MemoryShaped
  <2>6. ClosedWhileSending' /\ RedispatchOK'
    BY <2>3 DEF ClosedWhileSending, Sending, RedispatchOK, Redispatching, Loops
  <2> QED
    BY <2>3, <2>4, <2>5, <2>6 DEF CircuitInv, CircuitKept
<1>5. CASE Start \/ Network \/ UNCHANGED vars
  <2>1. UNCHANGED <<mem, disk, lane, pc, job>>
    BY <1>5 DEF Start, Network, Mine, Lose, Reorg, Finalize, vars
  <2>2. Outstanding' = Outstanding
    BY <2>1 DEF Outstanding
  <2> QED
    BY <2>1, <2>2 DEF CircuitInv, CircuitKept, MemoryShaped, LoopsTyped, LaneOK, HoldsLane,
                      ClosedWhileSending, RedispatchOK, Redispatching
<1> QED
  BY <1>1, <1>2, <1>3, <1>4, <1>5 DEF Next

LEMMA CircuitInit == Init => CircuitInv
<1> SUFFICES ASSUME Init PROVE CircuitInv
  OBVIOUS
<1>1. Books /\ LoopsTyped /\ LaneOK /\ RedispatchOK
  BY LaneInit, LaneInvParts
<1>2. MemoryShaped
  BY <1>1 DEF Books, BooksTyped, MemoryShaped
<1>3. ClosedWhileSending
  BY DEF Init, ClosedWhileSending, Sending, Loops
<1> QED
  BY <1>1, <1>2, <1>3 DEF CircuitInv

(* CircuitStopsSigning, whichever way a write may fail: after a failed      *)
(* write of the outbox the process journals nothing new, in whichever loop  *)
(* and however late.                                                        *)
THEOREM CircuitTheorem == Spec => CircuitStopsSigning
<1>1. Init => CircuitInv
  BY CircuitInit
<1>2. CircuitInv /\ [Next]_vars => CircuitInv'
  BY CircuitStep
<1>3. CircuitInv /\ [Next]_vars =>
        [mem.halted /\ mem'.halted =>
            \A tx \in Txs : mem.outbox[tx] = "absent" => mem'.outbox[tx] = "absent"]_vars
  BY CircuitStep DEF CircuitKept, Outstanding
<1> QED
  BY <1>1, <1>2, <1>3, PTL DEF Spec, CircuitStopsSigning

----------------------------------------------------------------------------
(* First bytes.  This needs no file that lands either: behind a closed      *)
(* circuit the file holds what memory holds, and a loop about to dispatch   *)
(* works on an entry that is in both, or on one that already left.          *)

(* What the chain and the relays have seen left the process.                *)
ChainLeft ==
    /\ chain \in Seq([tx : Txs, ok : BOOLEAN]) /\ final \in 0..Len(chain)
    /\ relays \subseteq dispatched
    /\ \A k \in 1..Len(chain) : chain[k].tx \in dispatched

ClosedIsFiled == ~mem.halted => Outstanding \subseteq Journaled
Covered(tx) == tx \in dispatched \/ tx \in Outstanding \cap Journaled
DispatchCovered == \A l \in Loops : pc[l] = "dispatch" => Covered(job[l].tx)

FirstInv == ChainLeft /\ ClosedIsFiled /\ DispatchCovered

FirstJournaled ==
    \A tx \in dispatched' \ dispatched :
        tx \in Journaled \/ (pc["pass"] = "resend" /\ mem.halted)

(* No loop arrives at its dispatch. *)
NoArrival == \A l \in Loops : pc'[l] = "dispatch" => pc[l] = "dispatch" /\ job'[l] = job[l]

(* Entries only ever join, in memory and in the file.                       *)
LEMMA CoverKept ==
    ASSUME DispatchCovered, NoArrival, dispatched \subseteq dispatched',
           \A tx : Covered(tx) => tx \in dispatched' \/ tx \in Outstanding' \cap Journaled'
    PROVE  DispatchCovered'
BY DEF DispatchCovered, NoArrival, Covered

(* Steps that leave memory, file and network as they are.                   *)
LEMMA FirstAside ==
    ASSUME FirstInv, NoArrival, UNCHANGED <<network, dispatched, disk>>,
           mem'.outbox = mem.outbox, mem'.halted = mem.halted
    PROVE  FirstInv' /\ FirstJournaled
<1>1. Outstanding' = Outstanding /\ Journaled' = Journaled
  BY DEF Outstanding, Journaled
<1>2. DispatchCovered'
  BY <1>1, CoverKept DEF FirstInv, Covered
<1> QED
  BY <1>1, <1>2 DEF FirstInv, ChainLeft, ClosedIsFiled, FirstJournaled, network

(* A write of the outbox, whatever becomes of the file.                     *)
LEMMA FirstWrite ==
    ASSUME CircuitInv, FirstInv, UNCHANGED <<network, dispatched>>,
           NEW tx \in Txs, NEW s \in {"prepared", "submitted"}, NEW fate,
           PersistOrOpenCircuit(SetEntry(tx, s), fate),
           \A l \in Loops : pc'[l] = "dispatch" =>
               \/ pc[l] = "dispatch" /\ job'[l] = job[l]
               \/ fate = "ok" /\ job'[l].tx = tx
    PROVE  FirstInv' /\ FirstJournaled
<1>1. mem \in [outbox : Outboxes, earned : {mem.earned}, halted : BOOLEAN]
      /\ \A u \in Txs : SetEntry(tx, s)[u] = IF u = tx THEN s ELSE mem.outbox[u]
  BY DEF CircuitInv, MemoryShaped, SetEntry, Outboxes
<1>2. /\ mem'.outbox = SetEntry(tx, s)
      /\ ~mem'.halted => fate = "ok" /\ ~mem.halted
      /\ disk'.outbox = SetEntry(tx, s) \/ (fate # "ok" /\ disk' = disk)
  <2> DEFINE m == [mem EXCEPT !.outbox = SetEntry(tx, s)]
  <2>1. /\ m.outbox = SetEntry(tx, s) /\ m.halted = mem.halted
        /\ disk' = FileAfter(m, fate)
        /\ mem' = IF fate = "ok" THEN m ELSE [m EXCEPT !.halted = TRUE]
    BY <1>1 DEF PersistOrOpenCircuit, WriteState
  <2>2. mem'.outbox = m.outbox /\ (fate # "ok" => mem'.halted)
    BY <1>1, <2>1
  <2> HIDE DEF m
  <2> QED
    BY <2>1, <2>2 DEF FileAfter
<1>3. Outstanding' = Outstanding \cup {tx}
  BY <1>1, <1>2 DEF Outstanding
<1>4. Journaled' = Outstanding' \/ (fate # "ok" /\ Journaled' = Journaled)
  BY <1>2 DEF Outstanding, Journaled
<1>5. ClosedIsFiled'
  BY <1>2, <1>4 DEF ClosedIsFiled
<1>6. DispatchCovered'
  BY <1>3, <1>4 DEF FirstInv, DispatchCovered, Covered
<1> QED
  BY <1>5, <1>6 DEF FirstInv, ChainLeft, FirstJournaled, network

(* Bytes leave: of an entry that is filed, or behind the open circuit.      *)
LEMMA FirstSend ==
    ASSUME FirstInv, NoArrival, UNCHANGED <<mem, disk>>,
           NEW tx, (\E received : Deliver(tx, received)) \/ RejectedByAll(tx),
           tx \in dispatched \cup Journaled \/ (pc["pass"] = "resend" /\ mem.halted)
    PROVE  FirstInv' /\ FirstJournaled
<1>1. /\ UNCHANGED <<chain, final>>
      /\ relays' \subseteq relays \cup {tx} /\ dispatched' = dispatched \cup {tx}
  BY DEF Deliver, RejectedByAll, network
<1>2. Outstanding' = Outstanding /\ Journaled' = Journaled
  BY DEF Outstanding, Journaled
<1>3. DispatchCovered'
  BY <1>1, <1>2, CoverKept DEF FirstInv, Covered
<1>4. ChainLeft'
  BY <1>1 DEF FirstInv, ChainLeft
<1> QED
  BY <1>1, <1>2, <1>3, <1>4 DEF FirstInv, ClosedIsFiled, FirstJournaled

(* Settling takes only what is mined, and that has left.                    *)
LEMMA FirstSettle ==
    ASSUME CircuitInv, FirstInv, NEW settled \in SUBSET Outstanding, Settle(settled)
    PROVE  FirstInv' /\ FirstJournaled
<1>1. settled \subseteq dispatched
  <2> SUFFICES ASSUME NEW tx \in settled PROVE tx \in dispatched
    OBVIOUS
  <2>1. PICK k \in 1..final : chain[k].tx = tx
    BY DEF Settle, Settleable, MinedAt
  <2>2. k \in 1..Len(chain)
    BY <2>1 DEF FirstInv, ChainLeft
  <2> QED
    BY <2>1, <2>2 DEF FirstInv, ChainLeft
<1>2. mem'.outbox = OutboxWithout(settled) /\ mem'.halted = mem.halted
  BY DEF Settle, CircuitInv, MemoryShaped
<1>3. Outstanding' = Outstanding \ settled /\ Journaled' = Journaled
  BY <1>2 DEF Settle, Outstanding, Journaled, OutboxWithout
<1>4. NoArrival
  <2>1. /\ \E p \in {"account", "accountAgain"} : pc' = [pc EXCEPT !["pass"] = p]
        /\ job' = [job EXCEPT !["pass"].settled = settled]
    BY DEF Settle, Goto
  <2> QED
    BY <2>1 DEF CircuitInv, LoopsTyped, NoArrival, Loops
<1>5. DispatchCovered'
  BY <1>1, <1>3, <1>4, CoverKept DEF FirstInv, Covered, Settle
<1> QED
  BY <1>2, <1>3, <1>5 DEF FirstInv, ChainLeft, ClosedIsFiled, FirstJournaled, Settle, network

(* The write that closes a loop files all of memory, or nothing.            *)
LEMMA FirstClose ==
    ASSUME CircuitInv, FirstInv, NEW l \in Loops, NEW fate, CloseLoop(l, fate)
    PROVE  FirstInv' /\ FirstJournaled
<1>1. disk' = disk \/ disk'.outbox = mem.outbox
  BY DEF CloseLoop, WriteState, FileAfter
<1>2. Outstanding' = Outstanding /\ (Journaled' = Journaled \/ Journaled' = Outstanding)
  BY <1>1 DEF Outstanding, Journaled, CloseLoop
<1>3. NoArrival
  BY DEF CloseLoop, Goto, CircuitInv, LoopsTyped, NoArrival
<1>4. DispatchCovered'
  BY <1>2, <1>3, CoverKept DEF FirstInv, Covered, CloseLoop
<1> QED
  BY <1>2, <1>4 DEF FirstInv, ChainLeft, ClosedIsFiled, FirstJournaled, CloseLoop, network

(* Blocks are made of what relays offer, and give back what they held.      *)
LEMMA FirstNetwork ==
    ASSUME FirstInv, Network
    PROVE  FirstInv' /\ FirstJournaled
<1>0. /\ UNCHANGED <<mem, disk, pc, job, dispatched>>
      /\ chain \in Seq([tx : Txs, ok : BOOLEAN]) /\ final \in Nat /\ Len(chain) \in Nat
      /\ final <= Len(chain) /\ relays \subseteq dispatched
      /\ \A k \in 1..Len(chain) : chain[k].tx \in dispatched
  <2>1. UNCHANGED <<mem, disk, pc, job, dispatched>>
    BY DEF Network, Mine, Lose, Reorg, Finalize
  <2>2. ChainLeft
    BY DEF FirstInv
  <2> QED
    BY <2>1, <2>2 DEF ChainLeft
<1>1. ChainLeft'
  <2>1. ASSUME NEW tx \in Txs, NEW ok \in BOOLEAN, Mine(tx, ok) PROVE ChainLeft'
    <3>1. /\ chain' = Append(chain, [tx |-> tx, ok |-> ok]) /\ relays' \subseteq relays
          /\ tx \in relays /\ UNCHANGED final
      BY <2>1 DEF Mine
    <3>2. /\ chain' \in Seq([tx : Txs, ok : BOOLEAN]) /\ Len(chain') = Len(chain) + 1
          /\ \A k \in 1..Len(chain) : chain'[k] = chain[k]
          /\ chain'[Len(chain) + 1].tx = tx
      BY <1>0, <3>1
    <3> QED
      BY <1>0, <3>1, <3>2 DEF ChainLeft
  <2>2. CASE Reorg
    <3> DEFINE n == Len(chain) - 1
               Block == [tx : Txs, ok : BOOLEAN]
               cut == [k \in 1..n |-> chain[k]]
    <3>1. /\ Len(chain) > final /\ UNCHANGED final
          /\ relays' = relays \cup {chain[Len(chain)].tx}
          /\ chain' = SubSeq(chain, 1, n)
      BY <2>2 DEF Reorg
    <3>2. n \in Nat /\ n <= Len(chain) /\ final <= n /\ Len(chain) \in 1..Len(chain)
      BY <1>0, <3>1
    <3>3. chain' = cut /\ \A k \in 1..n : k \in 1..Len(chain)
      BY <1>0, <3>1, <3>2
    <3> HIDE DEF n
    <3>4. \A k \in 1..n : chain[k] \in Block
      <4> HIDE DEF Block
      <4>1. chain \in Seq(Block)
        BY <1>0 DEF Block
      <4> QED
        BY <3>3, <4>1
    <3>5. cut \in Seq(Block) /\ Len(cut) = n /\ \A k \in 1..n : cut[k] = chain[k]
      <4> HIDE DEF Block
      <4> QED
        BY <3>2, <3>4
    <3> HIDE DEF cut
    <3>6. chain' \in Seq([tx : Txs, ok : BOOLEAN]) /\ Len(chain') = n
      BY <3>3, <3>5
    <3>7. relays' \subseteq dispatched'
      BY <1>0, <3>1, <3>2
    <3>8. \A k \in 1..n : chain'[k].tx \in dispatched'
      BY <1>0, <3>3, <3>5
    <3> QED
      BY <1>0, <3>1, <3>2, <3>6, <3>7, <3>8 DEF ChainLeft
  <2>3. CASE \E tx \in Txs : Lose(tx)
    BY <1>0, <2>3 DEF Lose, ChainLeft
  <2>4. CASE Finalize
    <3>1. final' = final + 1 /\ final < Len(chain) /\ UNCHANGED <<chain, relays>>
      BY <2>4 DEF Finalize
    <3> QED
      BY <1>0, <3>1 DEF ChainLeft
  <2> QED
    BY <2>1, <2>2, <2>3, <2>4 DEF Network
<1>2. Outstanding' = Outstanding /\ Journaled' = Journaled
  BY <1>0 DEF Outstanding, Journaled
<1>3. DispatchCovered'
  BY <1>0, <1>2, CoverKept DEF FirstInv, Covered, NoArrival
<1> QED
  BY <1>0, <1>1, <1>2, <1>3 DEF FirstInv, ClosedIsFiled, FirstJournaled

(* A loop that goes anywhere but to its dispatch. *)
LEMMA GoesElsewhere ==
    ASSUME LoopsTyped, NEW l \in Loops, NEW p, p # "dispatch", pc' = [pc EXCEPT ![l] = p],
           \A k \in Loops : k # l => job'[k] = job[k]
    PROVE  NoArrival
BY DEF LoopsTyped, NoArrival

(* The redispatch of a prepared entry. *)
LEMMA FirstRedispatch ==
    ASSUME CircuitInv, FirstInv, Redispatch
    PROVE  FirstInv' /\ FirstJournaled
<1> DEFINE tx == job["pass"].tx
<1>0. /\ LoopsTyped /\ "pass" \in Loops
      /\ pc["pass"] \in {"known", "resend", "resent", "refused"} => tx \in Outstanding /\ tx \in Txs
  BY DEF CircuitInv, RedispatchOK, Redispatching, Loops, Outstanding
<1>1. NoArrival
  <2>1. \E p \in Places \ {"dispatch"} : pc' = [pc EXCEPT !["pass"] = p]
    BY DEF Redispatch, RedispatchPrepared, SkipRedispatch, FindKnown, NotKnown, RedispatchBlocked, Resend,
           ResendRejected, MarkResent, RecordDispatchFailure, EndRedispatch, Goto, Places
  <2>2. \A k \in Loops : k # "pass" => job'[k] = job[k]
    BY <1>0 DEF Redispatch, RedispatchPrepared, SkipRedispatch, FindKnown, NotKnown, RedispatchBlocked,
       Resend, ResendRejected, MarkResent, RecordDispatchFailure, EndRedispatch, LoopsTyped
  <2> QED
    BY <1>0, <2>1, <2>2, GoesElsewhere
<1>2. CASE (\E t \in Txs : RedispatchPrepared(t)) \/ SkipRedispatch \/ NotKnown \/ RedispatchBlocked
  BY <1>1, <1>2, FirstAside DEF RedispatchPrepared, SkipRedispatch, NotKnown, RedispatchBlocked
<1>3. CASE \E fate \in Fates : FindKnown(fate) \/ MarkResent(fate) \/ RecordDispatchFailure(fate)
  <2>1. PICK fate \in Fates, s \in {"prepared", "submitted"} :
            /\ PersistOrOpenCircuit(SetEntry(tx, s), fate) /\ UNCHANGED <<network, dispatched>>
            /\ pc["pass"] \in {"known", "resend", "resent", "refused"}
    BY <1>3 DEF FindKnown, MarkResent, RecordDispatchFailure, At
  <2> QED
    BY <1>0, <1>1, <2>1, FirstWrite DEF NoArrival
<1>4. CASE ResendRejected \/ \E received \in BOOLEAN : Resend(received)
  <2>1. /\ pc["pass"] = "resend" /\ UNCHANGED <<mem, disk>>
        /\ (\E received : Deliver(tx, received)) \/ RejectedByAll(tx)
    BY <1>4 DEF ResendRejected, Resend, At
  <2>2. tx \in Journaled \/ mem.halted
    BY <1>0, <2>1 DEF FirstInv, ClosedIsFiled
  <2> HIDE DEF tx
  <2> QED
    BY <1>1, <2>1, <2>2, FirstSend
<1> QED
  BY <1>2, <1>3, <1>4 DEF Redispatch

(* A submission: its entry is filed before the loop comes to its dispatch.  *)
LEMMA FirstSubmission ==
    ASSUME CircuitInv, FirstInv, NEW l \in Loops, Submission(l)
    PROVE  FirstInv' /\ FirstJournaled
<1>0. LoopsTyped /\ (pc[l] \in Sending => job[l].tx \in Txs \/ pc[l] = "sign")
  BY DEF CircuitInv, ClosedWhileSending
<1>1. ASSUME NEW fate \in Fates, RecordPrepared(l, fate) PROVE FirstInv' /\ FirstJournaled
  <2>1. /\ PersistOrOpenCircuit(SetEntry(job[l].tx, "prepared"), fate)
        /\ pc[l] = "prepare" /\ UNCHANGED <<network, dispatched>>
    BY <1>1 DEF RecordPrepared, At
  <2>2. \A k \in Loops : pc'[k] = "dispatch" =>
            \/ pc[k] = "dispatch" /\ job'[k] = job[k]
            \/ fate = "ok" /\ job'[k].tx = job[l].tx
    BY <1>0, <1>1 DEF RecordPrepared, Goto, Continue, LoopsTyped
  <2> QED
    BY <1>0, <2>1, <2>2, FirstWrite DEF Sending
<1>2. ASSUME NEW fate \in Fates, MarkSubmitted(l, fate) PROVE FirstInv' /\ FirstJournaled
  <2>1. /\ PersistOrOpenCircuit(SetEntry(job[l].tx, "submitted"), fate)
        /\ pc[l] = "mark" /\ UNCHANGED <<network, dispatched>>
    BY <1>2 DEF MarkSubmitted, At
  <2>2. NoArrival
    BY <1>0, <1>2 DEF MarkSubmitted, Goto, Continue, LoopsTyped, NoArrival
  <2> QED
    BY <1>0, <2>1, <2>2, FirstWrite DEF NoArrival, Sending
<1>3. CASE DispatchRejected(l) \/ \E received \in BOOLEAN : Dispatch(l, received)
  <2>1. /\ pc[l] = "dispatch" /\ UNCHANGED <<mem, disk>>
        /\ (\E received : Deliver(job[l].tx, received)) \/ RejectedByAll(job[l].tx)
    BY <1>3 DEF DispatchRejected, Dispatch, At
  <2>2. job[l].tx \in dispatched \cup Journaled
    BY <2>1 DEF FirstInv, DispatchCovered, Covered
  <2>3. NoArrival
    BY <1>0, <1>3 DEF DispatchRejected, Dispatch, Goto, Continue, LoopsTyped, NoArrival
  <2> QED
    BY <2>1, <2>2, <2>3, FirstSend
<1>4. CASE \/ TakeTurn(l) \/ Admit(l) \/ \E w \in Work : Defer(l, w)
           \/ \E w \in Work, nonce, block \in 0..MaxNonce : Sign(l, w, nonce, block)
  <2>1. NoArrival
    BY <1>0, <1>4 DEF TakeTurn, Admit, Defer, Sign, Goto, Continue, LoopsTyped, NoArrival
  <2> QED
    BY <1>4, <2>1, FirstAside DEF TakeTurn, Admit, Defer, Sign
<1> QED
  BY <1>1, <1>2, <1>3, <1>4, FirstClose DEF Submission

(* Every step. *)
LEMMA FirstStep ==
    ASSUME CircuitInv, FirstInv, [Next]_vars
    PROVE  FirstInv' /\ FirstJournaled
<1>0. LoopsTyped
  BY DEF CircuitInv
<1>1. CASE PassStep
  <2>1. CASE BeginPass \/ AccountSettledReceipts
                \/ \E view \in 0..MaxNonce, due \in SUBSET Intents : Evaluate(view, due)
    <3>1. NoArrival
      BY <1>0, <2>1 DEF BeginPass, AccountSettledReceipts, Evaluate, Goto, Continue, LoopsTyped, NoArrival, Loops
    <3>2. mem'.outbox = mem.outbox /\ mem'.halted = mem.halted
      BY <2>1 DEF BeginPass, AccountSettledReceipts, Evaluate, CircuitInv, MemoryShaped
    <3> QED
      BY <2>1, <3>1, <3>2, FirstAside DEF BeginPass, AccountSettledReceipts, Evaluate
  <2> QED
    BY <1>1, <2>1, FirstSettle, FirstRedispatch DEF PassStep
<1>2. ASSUME NEW due \in SUBSET Conversions, PlanConversions(due) PROVE FirstInv' /\ FirstJournaled
  <2>1. NoArrival
    BY <1>0, <1>2 DEF PlanConversions, Goto, Continue, LoopsTyped, NoArrival, Loops
  <2> QED
    BY <1>2, <2>1, FirstAside DEF PlanConversions
<1>3. CASE Crash
  <2>1. /\ mem' = [outbox |-> disk.outbox, earned |-> disk.earned, halted |-> FALSE]
        /\ pc' = [l \in Loops |-> "idle"] /\ UNCHANGED <<network, disk, dispatched>>
    BY <1>3 DEF Crash
  <2>2. Outstanding' = Journaled /\ Journaled' = Journaled
    BY <2>1 DEF Outstanding, Journaled
  <2> QED
    BY <2>1, <2>2 DEF FirstInv, ChainLeft, ClosedIsFiled, DispatchCovered, FirstJournaled, network
<1>4. CASE Start \/ UNCHANGED vars
  BY <1>4, FirstAside DEF Start, vars, network, NoArrival
<1> QED
  BY <1>1, <1>2, <1>3, <1>4, FirstSubmission, FirstNetwork DEF Next

(* FirstDispatchJournaled, for every number of authorizations, nonces,      *)
(* crashes and faults, writes that are lost before their rename included.   *)
THEOREM JournalTheorem == Spec => FirstDispatchJournaled
<1>1. Init => CircuitInv /\ FirstInv
  <2> SUFFICES ASSUME Init PROVE FirstInv
    BY CircuitInit
  <2> QED
    BY DEF Init, FirstInv, ChainLeft, ClosedIsFiled, DispatchCovered, Outstanding, Journaled, EmptyOutbox, Loops
<1>2. CircuitInv /\ FirstInv /\ [Next]_vars => CircuitInv' /\ FirstInv'
  BY CircuitStep, FirstStep
<1>3. CircuitInv /\ FirstInv /\ [Next]_vars =>
        [\A tx \in dispatched' \ dispatched :
            \/ disk.outbox[tx] # "absent"
            \/ pc["pass"] = "resend" /\ mem.halted]_vars
  BY FirstStep DEF FirstJournaled, Journaled
<1> QED
  BY <1>1, <1>2, <1>3, PTL DEF Spec, FirstDispatchJournaled

(* NoSecondBroadcast: an authorization goes out under a second nonce only   *)
(* after the first one is final and reverted.                               *)
THEOREM NoSecondBroadcastTheorem == ASSUME WritesLand PROVE Spec => []NoSecondBroadcast
<1>1. Init => NoSecondBroadcast
  BY DEF Init, NoSecondBroadcast
<1>2. LaneInv /\ NoSecondBroadcast /\ [Next]_vars => NoSecondBroadcast'
  <2> SUFFICES ASSUME LaneInv, NoSecondBroadcast, [Next]_vars PROVE NoSecondBroadcast'
    OBVIOUS
  <2>0. /\ Before /\ final \in Nat
        /\ \A k \in 1..final : k \in 1..final' /\ chain'[k] = chain[k]
    <3>1. Before
      BY LaneInvParts DEF Before
    <3>2. LaneInv'
      BY LaneStep
    <3>3. Books'
      BY <3>2 DEF LaneInv, Books, TypeOK, BooksTyped
    <3>4. final \in Nat /\ final' \in Nat
      BY <3>1, <3>3 DEF Before, Books, BooksTyped
    <3>5. final <= final' /\ \A k \in 1..final : chain'[k] = chain[k]
      BY <3>1, ChainKept
    <3> QED
      BY <3>1, <3>4, <3>5
  <2>1. CASE UNCHANGED dispatched
    BY <2>0, <2>1 DEF NoSecondBroadcast
  <2>2. ASSUME NEW tx \in Outstanding, tx \notin dispatched, dispatched' = dispatched \cup {tx},
               UNCHANGED <<chain, final>>
        PROVE  NoSecondBroadcast'
    <3>1. Books
      BY <2>0 DEF Before
    <3>2. tx.nonce = final /\ DueAt(tx.work, final)
      BY <2>2, <3>1 DEF Books, JournalInv
    <3>3. \A t \in dispatched : t.nonce < final /\ \E k \in 1..final : chain[k].tx = t
      BY <2>2, <3>1, Waiting, FinalNonce
    <3>4. \A t \in dispatched : (t.work \in Intents /\ t.work = tx.work) =>
              \E k \in 1..final : chain[k].tx = t /\ ~chain[k].ok
      BY <3>2, <3>3 DEF DueAt, SucceededBy
    <3>5. \A t \in dispatched : ~(tx.nonce < t.nonce)
      <4>1. \A t \in dispatched : t.nonce \in Nat
        BY <3>1, TxShape DEF Books, BooksTyped
      <4> QED
        BY <2>0, <3>2, <3>3, <4>1
    <3>6. ~(tx.nonce < tx.nonce)
      BY <2>0, <3>2
    <3> QED
      BY <2>2, <3>4, <3>5, <3>6 DEF NoSecondBroadcast
  <2>3. CASE \E tx \in dispatched : dispatched' = dispatched \cup {tx}
    BY <2>1, <2>3
  <2> QED
    BY <2>0, <2>1, <2>2, <2>3, OnlyEntriesLeave
<1> QED
  BY <1>1, <1>2, LaneInvariant, PTL DEF Spec
=============================================================================
