------------------------------ MODULE Executor ------------------------------
(***************************************************************************)
(* The executor daemon's signer lane (executor/index.mjs, engine.mjs,      *)
(* keeper.mjs, receipt-source.mjs, private-submission.mjs, store.mjs): two *)
(* loops of one process, the intent pass and the pot maintenance, share    *)
(* one signing key, one FIFO lane and one state object that is persisted   *)
(* whole.  Each action is the code between two awaits.  A signed           *)
(* transaction is its work and its nonce: calldata and fee fields follow   *)
(* from them, and so do its bytes and its hash.  Hosted delivery,          *)
(* notifications, the relay cursor and the submission log share the state  *)
(* file but never gate a write, and are left out.                          *)
(***************************************************************************)
EXTENDS Integers, Sequences, FiniteSets

CONSTANTS
    Intents,            \* authorizations with a single successful execution
    Conversions,        \* pot conversions the keeper may plan
    \* bounds of the instance, and what its environment may do
    MaxNonce, MaxFaults, MaxCrashes,
    StorageFaults,      \* ways a write of the state file may fail
    RelaysMayLose,      \* may bytes vanish after a relay took them, or on the way
    MayReorg

Loops == {"pass", "maintenance"}
Work == Intents \cup Conversions
Txs == [work : Work, nonce : 0..(MaxNonce - 1)]
NoTx == [work |-> "none", nonce |-> MaxNonce]

(* "unwritten" leaves the old file, "unsynced" leaves the new one in place  *)
(* though writeState reports a failure.                                     *)
ASSUME ExecutorSetting ==
    /\ Intents \cap Conversions = {}
    /\ MaxNonce \in Nat /\ MaxFaults \in Nat /\ MaxCrashes \in Nat
    /\ StorageFaults \subseteq {"unwritten", "unsynced"}
    /\ RelaysMayLose \in BOOLEAN /\ MayReorg \in BOOLEAN

VARIABLES
    chain,      \* the key's mined transactions, in nonce order, with their status
    final,      \* how many of them the finality quorum attests
    relays,     \* the transactions a relay or a mempool may still offer to a block
    mem,        \* the process: receipt outbox, earnings, persistence circuit
    disk,       \* the state file
    lane,       \* the loops holding (head) or waiting for the signer lane
    pc, job,    \* each loop's place, and what it is working on
    up,         \* is a daemon running
    dispatched, \* history: transactions whose bytes ever left the process
    faults, crashes

vars == <<chain, final, relays, mem, disk, lane, pc, job, up, dispatched, faults, crashes>>
network == <<chain, final, relays>>

NoJob == [todo |-> {}, tx |-> NoTx, settled |-> {}]
EmptyOutbox == [tx \in Txs |-> "absent"]

Init ==
    /\ chain = <<>>
    /\ final = 0
    /\ relays = {}
    /\ mem = [outbox |-> EmptyOutbox, earned |-> 0, halted |-> FALSE]
    /\ disk = [outbox |-> EmptyOutbox, earned |-> 0]
    /\ lane = <<>>
    /\ pc = [l \in Loops |-> "idle"]
    /\ job = [l \in Loops |-> NoJob]
    /\ up = TRUE
    /\ dispatched = {}
    /\ faults = 0
    /\ crashes = 0

----------------------------------------------------------------------------
(* What the process can observe. *)

Outstanding == {tx \in Txs : mem.outbox[tx] # "absent"}
Prepared == {tx \in Txs : mem.outbox[tx] = "prepared"}

(* A read of the chain may lag, but not behind the finalized boundary. *)
Views == final..Len(chain)
SucceededBy(w, view) == \E k \in 1..view : chain[k].tx.work = w /\ chain[k].ok
DueAt(w, view) == w \in Intents => ~SucceededBy(w, view)

MinedAt(tx, height) == \E k \in 1..height : chain[k].tx = tx
(* Slip: settle on a mined receipt, before the finality quorum. *)
SettleableWhenMined(tx) == MinedAt(tx, Len(chain))
Settleable(tx) == MinedAt(tx, final)

----------------------------------------------------------------------------
(* The lane, the loops' places, and the state file. *)

HoldsLane(l) == lane # <<>> /\ Head(lane) = l
(* Slip: once the circuit is open, leaving the lane is forgotten. *)
ReleasedUnlessHalted == IF mem.halted THEN lane ELSE Tail(lane)
Released == Tail(lane)

At(l, place) == up /\ pc[l] = place
Goto(l, place) == pc' = [pc EXCEPT ![l] = place]

(* After one item of work: the next, or the loop's closing steps. *)
Continue(l, rest) ==
    /\ job' = [job EXCEPT ![l] = [NoJob EXCEPT !.todo = rest]]
    /\ Goto(l, IF rest # {} THEN "queue"
               ELSE IF l = "pass" THEN "settleAgain" ELSE "write")

Fates == {"ok"} \cup IF faults < MaxFaults THEN StorageFaults ELSE {}

(* Slip: journaled with the next write, not with this one. *)
FileAfterLazily(m, fate) ==
    IF fate = "unwritten" \/ \E tx \in Txs : m.outbox[tx] = "prepared" THEN disk
    ELSE [outbox |-> m.outbox, earned |-> m.earned]
FileAfter(m, fate) ==
    IF fate = "unwritten" THEN disk ELSE [outbox |-> m.outbox, earned |-> m.earned]

WriteState(m, fate) ==
    /\ fate \in Fates
    /\ disk' = FileAfter(m, fate)
    /\ faults' = IF fate = "ok" THEN faults ELSE faults + 1

(* A write of the outbox controller: any failure opens the circuit for good. *)
PersistOrOpenCircuit(outbox, fate) ==
    LET m == [mem EXCEPT !.outbox = outbox]
    IN  /\ WriteState(m, fate)
        /\ mem' = IF fate = "ok" THEN m ELSE [m EXCEPT !.halted = TRUE]

----------------------------------------------------------------------------
(* The intent pass: settle, redispatch, evaluate and submit, settle, write. *)

BeginPass ==
    /\ At("pass", "idle")
    /\ Goto("pass", "settle")
    /\ UNCHANGED <<network, mem, disk, lane, job, up, dispatched, faults, crashes>>

(* Evidence for any part of what is final may be at hand. *)
(* Slip: the settled entry stays queued. *)
OutboxKeeping(settled) == mem.outbox
OutboxWithout(settled) == [tx \in Txs |-> IF tx \in settled THEN "absent" ELSE mem.outbox[tx]]

Settle(settled) ==
    /\ up /\ pc["pass"] \in {"settle", "settleAgain"}
    /\ settled \subseteq {tx \in Outstanding : Settleable(tx)}
    /\ mem' = [mem EXCEPT !.outbox = OutboxWithout(settled)]
    /\ job' = [job EXCEPT !["pass"].settled = settled]
    /\ Goto("pass", IF pc["pass"] = "settle" THEN "account" ELSE "accountAgain")
    /\ UNCHANGED <<network, disk, lane, up, dispatched, faults, crashes>>

Succeeded(tx) == \E k \in 1..Len(chain) : chain[k].tx = tx /\ chain[k].ok

AccountSettledReceipts ==
    /\ up /\ pc["pass"] \in {"account", "accountAgain"}
    /\ mem' = [mem EXCEPT !.earned = @ + Cardinality({tx \in job["pass"].settled : Succeeded(tx)})]
    /\ job' = [job EXCEPT !["pass"].settled = {}]
    /\ Goto("pass", IF pc["pass"] = "account" THEN "redispatch" ELSE "write")
    /\ UNCHANGED <<network, disk, lane, up, dispatched, faults, crashes>>

(* A single prepared entry is captured here and used after the lane is won. *)
RedispatchPrepared(tx) ==
    /\ At("pass", "redispatch")
    /\ Prepared = {tx}
    /\ job' = [job EXCEPT !["pass"].tx = tx]
    /\ lane' = Append(lane, "pass")
    /\ Goto("pass", "known")
    /\ UNCHANGED <<network, mem, disk, up, dispatched, faults, crashes>>

(* Nothing prepared, more than one entry, relays not ready, or too soon. *)
SkipRedispatch ==
    /\ At("pass", "redispatch")
    /\ Goto("pass", "evaluate")
    /\ UNCHANGED <<network, mem, disk, lane, job, up, dispatched, faults, crashes>>

EndRedispatch(place) ==
    /\ lane' = Released
    /\ job' = [job EXCEPT !["pass"] = NoJob]
    /\ Goto("pass", place)

SetEntry(tx, s) == [mem.outbox EXCEPT ![tx] = s]

(* A node already knows the hash.  A failed write here is swallowed and the *)
(* redispatch goes on.                                                      *)
FindKnown(fate) ==
    LET tx == job["pass"].tx
    IN  /\ At("pass", "known") /\ HoldsLane("pass")
        /\ tx \in relays \/ MinedAt(tx, Len(chain))
        /\ PersistOrOpenCircuit(SetEntry(tx, "submitted"), fate)
        /\ IF fate = "ok" THEN EndRedispatch("evaluate")
           ELSE Goto("pass", "resend") /\ UNCHANGED <<lane, job>>
        /\ UNCHANGED <<network, up, dispatched, crashes>>

(* Nobody reports the hash: whether to replay is for the nonce views. *)
NotKnown ==
    /\ At("pass", "known") /\ HoldsLane("pass")
    /\ Goto("pass", "resend")
    /\ UNCHANGED <<network, mem, disk, lane, job, up, dispatched, faults, crashes>>

(* The nonce views disagree or cannot be read. *)
RedispatchBlocked ==
    /\ up /\ pc["pass"] \in {"known", "resend"} /\ HoldsLane("pass")
    /\ EndRedispatch("evaluate")
    /\ UNCHANGED <<network, mem, disk, up, dispatched, faults, crashes>>

----------------------------------------------------------------------------
(* The private fan-out.  An uncertain answer counts as sent. *)

Deliver(tx, received) ==
    /\ received \/ RelaysMayLose
    /\ relays' = IF received THEN relays \cup {tx} ELSE relays
    /\ dispatched' = dispatched \cup {tx}
    /\ UNCHANGED <<chain, final>>

RejectedByAll(tx) ==
    /\ dispatched' = dispatched \cup {tx}
    /\ UNCHANGED network

Resend(received) ==
    /\ At("pass", "resend") /\ HoldsLane("pass")
    /\ Deliver(job["pass"].tx, received)
    /\ Goto("pass", "resent")
    /\ UNCHANGED <<mem, disk, lane, job, up, faults, crashes>>

ResendRejected ==
    /\ At("pass", "resend") /\ HoldsLane("pass")
    /\ RejectedByAll(job["pass"].tx)
    /\ Goto("pass", "refused")
    /\ UNCHANGED <<mem, disk, lane, job, up, faults, crashes>>

MarkResent(fate) ==
    /\ At("pass", "resent") /\ HoldsLane("pass")
    /\ PersistOrOpenCircuit(SetEntry(job["pass"].tx, "submitted"), fate)
    /\ IF fate = "ok" THEN EndRedispatch("evaluate")
       ELSE Goto("pass", "refused") /\ UNCHANGED <<lane, job>>
    /\ UNCHANGED <<network, up, dispatched, crashes>>

(* The only path back to "prepared".  If it cannot be written the pass ends. *)
RecordDispatchFailure(fate) ==
    /\ At("pass", "refused") /\ HoldsLane("pass")
    /\ PersistOrOpenCircuit(SetEntry(job["pass"].tx, "prepared"), fate)
    /\ EndRedispatch(IF fate = "ok" THEN "evaluate" ELSE "idle")
    /\ UNCHANGED <<network, up, dispatched, crashes>>

----------------------------------------------------------------------------
(* Finding work. *)

Suppressed(w) == \E tx \in Outstanding : tx.work = w

Evaluate(view, due) ==
    /\ At("pass", "evaluate")
    /\ view \in Views
    /\ due \subseteq {w \in Intents : ~Suppressed(w) /\ DueAt(w, view)}
    /\ Continue("pass", due)
    /\ UNCHANGED <<network, mem, disk, lane, up, dispatched, faults, crashes>>

PlanConversions(due) ==
    /\ At("maintenance", "idle")
    /\ due \subseteq Conversions
    /\ Continue("maintenance", due)
    /\ UNCHANGED <<network, mem, disk, lane, up, dispatched, faults, crashes>>

----------------------------------------------------------------------------
(* One submission, under the lane: admission, nonce, journal, fan-out, mark. *)

TakeTurn(l) ==
    /\ At(l, "queue")
    /\ lane' = Append(lane, l)
    /\ Goto(l, "admit")
    /\ UNCHANGED <<network, mem, disk, job, up, dispatched, faults, crashes>>

(* Slip: the circuit is not consulted. *)
AdmissionWithoutCircuit == Outstanding = {}
(* Slip: an entry nobody has sent yet does not occupy the lane. *)
AdmissionBesidePrepared == ~mem.halted /\ Outstanding = Prepared
OutboxAdmission == ~mem.halted /\ Outstanding = {}

Admit(l) ==
    /\ At(l, "admit") /\ HoldsLane(l)
    /\ OutboxAdmission
    /\ Goto(l, "sign")
    /\ UNCHANGED <<network, mem, disk, lane, job, up, dispatched, faults, crashes>>

(* Any gate may close: outbox, relays, nonce views, late block, base fee.   *)
(* The pass tries its next intent; the keeper gives up until next time.     *)
Defer(l, w) ==
    /\ up /\ pc[l] \in {"admit", "sign"} /\ HoldsLane(l)
    /\ w \in job[l].todo
    /\ lane' = Released
    /\ Continue(l, IF l = "pass" THEN job[l].todo \ {w} ELSE {})
    /\ UNCHANGED <<network, mem, disk, up, dispatched, faults, crashes>>

(* The nonce views agree and the execution simulates at a late block. *)
Sign(l, w, nonce, block) ==
    /\ At(l, "sign") /\ HoldsLane(l)
    /\ w \in job[l].todo
    /\ nonce \in Views /\ block \in Views /\ nonce < MaxNonce
    /\ DueAt(w, block)
    /\ job' = [job EXCEPT ![l].tx = [work |-> w, nonce |-> nonce]]
    /\ Goto(l, "prepare")
    /\ UNCHANGED <<network, mem, disk, lane, up, dispatched, faults, crashes>>

(* The preparation hook: queue and write before the first relay request. *)
RecordPrepared(l, fate) ==
    /\ At(l, "prepare") /\ HoldsLane(l)
    /\ PersistOrOpenCircuit(SetEntry(job[l].tx, "prepared"), fate)
    /\ IF fate = "ok" THEN Goto(l, "dispatch") /\ UNCHANGED <<lane, job>>
       ELSE lane' = Released /\ Continue(l, job[l].todo \ {job[l].tx.work})
    /\ UNCHANGED <<network, up, dispatched, crashes>>

Dispatch(l, received) ==
    /\ At(l, "dispatch") /\ HoldsLane(l)
    /\ Deliver(job[l].tx, received)
    /\ Goto(l, "mark")
    /\ UNCHANGED <<mem, disk, lane, job, up, faults, crashes>>

(* A rejected first dispatch leaves the entry as it was journaled. *)
DispatchRejected(l) ==
    /\ At(l, "dispatch") /\ HoldsLane(l)
    /\ RejectedByAll(job[l].tx)
    /\ lane' = Released
    /\ Continue(l, job[l].todo \ {job[l].tx.work})
    /\ UNCHANGED <<mem, disk, up, faults, crashes>>

(* An entry that was settled meanwhile would be queued anew here. *)
MarkSubmitted(l, fate) ==
    /\ At(l, "mark") /\ HoldsLane(l)
    /\ PersistOrOpenCircuit(SetEntry(job[l].tx, "submitted"), fate)
    /\ lane' = Released
    /\ Continue(l, IF l = "pass" THEN job[l].todo \ {job[l].tx.work} ELSE {})
    /\ UNCHANGED <<network, up, dispatched, crashes>>

(* The write that closes a pass or a maintenance attempt: a failure is      *)
(* logged, and the circuit is not told.                                     *)
CloseLoop(l, fate) ==
    /\ At(l, "write")
    /\ WriteState(mem, fate)
    /\ Goto(l, "idle")
    /\ UNCHANGED <<network, mem, lane, job, up, dispatched, crashes>>

----------------------------------------------------------------------------
(* The process dies anywhere; the next one knows only the state file. *)

Crash ==
    /\ up /\ crashes < MaxCrashes
    /\ up' = FALSE
    /\ crashes' = crashes + 1
    /\ mem' = [outbox |-> disk.outbox, earned |-> disk.earned, halted |-> FALSE]
    /\ lane' = <<>>
    /\ pc' = [l \in Loops |-> "idle"]
    /\ job' = [l \in Loops |-> NoJob]
    /\ UNCHANGED <<network, disk, dispatched, faults>>

Start ==
    /\ ~up
    /\ up' = TRUE
    /\ UNCHANGED <<network, mem, disk, lane, pc, job, dispatched, faults, crashes>>

----------------------------------------------------------------------------
(* The network.  A capsule refuses an intent that already succeeded. *)

Mine(tx, ok) ==
    /\ tx \in relays
    /\ tx.nonce = Len(chain)
    /\ ok => DueAt(tx.work, Len(chain))
    /\ chain' = Append(chain, [tx |-> tx, ok |-> ok])
    /\ relays' = relays \ {tx}
    /\ UNCHANGED <<final, mem, disk, lane, pc, job, up, dispatched, faults, crashes>>

Reorg ==
    /\ MayReorg
    /\ Len(chain) > final
    /\ relays' = relays \cup {chain[Len(chain)].tx}
    /\ chain' = SubSeq(chain, 1, Len(chain) - 1)
    /\ UNCHANGED <<final, mem, disk, lane, pc, job, up, dispatched, faults, crashes>>

Lose(tx) ==
    /\ RelaysMayLose
    /\ tx \in relays
    /\ relays' = relays \ {tx}
    /\ UNCHANGED <<chain, final, mem, disk, lane, pc, job, up, dispatched, faults, crashes>>

(* Finality takes minutes, a relay request at most its timeout: nothing     *)
(* becomes final while the request that carried it is still open.           *)
BeingSent == {job[l].tx : l \in {k \in Loops : pc[k] \in {"mark", "resent"}}}

Finalize ==
    /\ final < Len(chain)
    /\ chain[final + 1].tx \notin BeingSent
    /\ final' = final + 1
    /\ UNCHANGED <<chain, relays, mem, disk, lane, pc, job, up, dispatched, faults, crashes>>

----------------------------------------------------------------------------
Submission(l) ==
    \/ TakeTurn(l)
    \/ Admit(l)
    \/ \E w \in Work : Defer(l, w)
    \/ \E w \in Work, nonce, block \in 0..MaxNonce : Sign(l, w, nonce, block)
    \/ \E fate \in Fates : RecordPrepared(l, fate)
    \/ \E received \in BOOLEAN : Dispatch(l, received)
    \/ DispatchRejected(l)
    \/ \E fate \in Fates : MarkSubmitted(l, fate)
    \/ \E fate \in Fates : CloseLoop(l, fate)

Redispatch ==
    \/ \E tx \in Txs : RedispatchPrepared(tx)
    \/ SkipRedispatch
    \/ \E fate \in Fates : FindKnown(fate)
    \/ NotKnown
    \/ RedispatchBlocked
    \/ \E received \in BOOLEAN : Resend(received)
    \/ ResendRejected
    \/ \E fate \in Fates : MarkResent(fate)
    \/ \E fate \in Fates : RecordDispatchFailure(fate)

PassStep ==
    \/ BeginPass
    \/ \E settled \in SUBSET Outstanding : Settle(settled)
    \/ AccountSettledReceipts
    \/ Redispatch
    \/ \E view \in 0..MaxNonce, due \in SUBSET Intents : Evaluate(view, due)

Network ==
    \/ \E tx \in Txs, ok \in BOOLEAN : Mine(tx, ok)
    \/ \E tx \in Txs : Lose(tx)
    \/ Reorg
    \/ Finalize

Next ==
    \/ PassStep
    \/ \E due \in SUBSET Conversions : PlanConversions(due)
    \/ \E l \in Loops : Submission(l)
    \/ Crash
    \/ Start
    \/ Network

Spec == Init /\ [][Next]_vars
=============================================================================
