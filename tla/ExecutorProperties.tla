------------------------- MODULE ExecutorProperties -------------------------
(* What the signer lane promises its operator and the owners it serves. *)
EXTENDS Executor

Places ==
    {"idle", "settle", "account", "redispatch", "known", "resend", "resent", "refused", "evaluate",
     "queue", "admit", "sign", "prepare", "dispatch", "mark", "settleAgain", "accountAgain", "write"}
LanePlaces ==
    {"known", "resend", "resent", "refused", "admit", "sign", "prepare", "dispatch", "mark"}
Outboxes == [Txs -> {"absent", "prepared", "submitted"}]
Jobs == [todo : SUBSET Work, tx : Txs \cup {NoTx}, settled : SUBSET Txs]

(* Types, and the FIFO lane of createAsyncMutex holding exactly the loops   *)
(* whose code is inside it, each once.                                      *)
TypeOK ==
    /\ chain \in Seq([tx : Txs, ok : BOOLEAN]) /\ final \in 0..Len(chain)
    /\ relays \subseteq Txs /\ dispatched \subseteq Txs
    /\ mem \in [outbox : Outboxes, earned : Nat, halted : BOOLEAN]
    /\ disk \in [outbox : Outboxes, earned : Nat]
    /\ pc \in [Loops -> Places] /\ job \in [Loops -> Jobs]
    /\ lane \in Seq(Loops)
    /\ {lane[i] : i \in DOMAIN lane} = {l \in Loops : pc[l] \in LanePlaces}
    /\ \A i, j \in DOMAIN lane : lane[i] = lane[j] => i = j
    /\ up \in BOOLEAN /\ faults \in 0..MaxFaults /\ crashes \in 0..MaxCrashes

Final(tx) == MinedAt(tx, final)

(* "If the prepared journal cannot be written, no relay request occurs":    *)
(* whatever left the process and is not final is in the state file, so the  *)
(* next process will know of it (executor/README.md:295-296).  The code     *)
(* does not keep this when a write is lost before its rename: the entry     *)
(* stays in memory and a redispatch sends it.                               *)
JournaledBeforeDispatch ==
    \A tx \in dispatched : Final(tx) \/ disk.outbox[tx] # "absent"

(* What the code does keep, whichever writes fail and however: the first    *)
(* bytes of a transaction leave only while the state file holds its entry,  *)
(* unless the pass redispatches it behind a circuit that a failed write has *)
(* already opened (recordPreparedOperation, redispatchPrepared).            *)
FirstDispatchJournaled ==
    [][\A tx \in dispatched' \ dispatched :
          \/ disk.outbox[tx] # "absent"
          \/ pc["pass"] = "resend" /\ mem.halted]_vars

(* "The daemon permits only one unresolved signer transaction at a time",   *)
(* counting the ones a crash made it forget (admission and the outbox).     *)
OneUnresolved ==
    Cardinality({tx \in Outstanding \cup dispatched : ~Final(tx)}) <= 1

(* No authorization is broadcast under two nonces unless the first one is   *)
(* final and reverted (pendingReceiptIdentitySet, admission, finality).     *)
NoSecondBroadcast ==
    \A t, u \in dispatched :
        (t.work \in Intents /\ t.work = u.work /\ t.nonce < u.nonce) =>
            \E k \in 1..final : chain[k].tx = t /\ ~chain[k].ok

(* No run is counted twice, in memory or on disk, across crashes between    *)
(* the settlement and the write (accountSettledReceipts).                   *)
EarningsHonest ==
    LET successes == Cardinality({k \in 1..final : chain[k].ok})
    IN  disk.earned <= mem.earned /\ mem.earned <= successes

(* Once a write of the outbox has failed this process signs nothing new,    *)
(* whichever loop asks and however long it waited for the lane.             *)
CircuitStopsSigning ==
    [][mem.halted /\ mem'.halted =>
          \A tx \in Txs : mem.outbox[tx] = "absent" => mem'.outbox[tx] = "absent"]_vars

----------------------------------------------------------------------------
(* The inductive invariant of the lane when every write lands: what leaves  *)
(* the process was journaled, the journal holds one transaction, and a loop *)
(* past its admission works on that one alone.                              *)

Journaled == {tx \in Txs : disk.outbox[tx] # "absent"}

(* No write of the state file leaves the old file in place. *)
WritesLand == "unwritten" \notin StorageFaults

(* Only what left the process is offered or mined, and nonces count blocks. *)
NetworkInv ==
    /\ relays \subseteq dispatched
    /\ \A k \in 1..Len(chain) : chain[k].tx \in dispatched /\ chain[k].tx.nonce = k - 1

(* One transaction in memory and one in the file; the file only lags by     *)
(* what is final; one that never left is the next the chain can take.       *)
JournalInv ==
    /\ \A t, u \in Outstanding : t = u
    /\ \A t, u \in Journaled : t = u
    /\ Outstanding \subseteq Journaled
    /\ \A tx \in Journaled : Final(tx) \/ tx \in Outstanding
    /\ \A tx \in dispatched : Final(tx) \/ tx \in Outstanding
    /\ \A tx \in Outstanding \ dispatched : tx.nonce = final /\ DueAt(tx.work, final)

(* What each place inside the lane may rely on. *)
PlaceInv ==
    /\ \A l \in Loops :
          /\ pc[l] \in LanePlaces \ {"known", "admit"} => HoldsLane(l)
          /\ pc[l] \in {"sign", "prepare"} => ~mem.halted /\ Outstanding = {}
          /\ pc[l] = "prepare" =>
                job[l].tx \in Txs /\ job[l].tx.nonce = final /\ DueAt(job[l].tx.work, final)
          /\ pc[l] = "dispatch" => job[l].tx \in Outstanding \ dispatched
          /\ pc[l] = "mark" => job[l].tx \in dispatched /\ ~Final(job[l].tx)
    /\ pc["pass"] \in {"known", "resend", "resent", "refused"} => job["pass"].tx \in Outstanding

(* The final successes already paid for: those nobody has yet to settle. *)
Counted(pending) == {k \in 1..final : chain[k].ok /\ chain[k].tx \notin pending}

EarnedInv ==
    LET settled == job["pass"].settled
    IN  /\ \A t, u \in settled : t = u
        /\ \A tx \in settled : Final(tx) /\ tx \notin Outstanding
        /\ disk.earned <= mem.earned
        /\ mem.earned <= Cardinality(Counted(Outstanding \cup settled))
        /\ disk.earned <= Cardinality(Counted(Journaled))

LaneInv == TypeOK /\ NetworkInv /\ JournalInv /\ PlaceInv /\ EarnedInv

----------------------------------------------------------------------------
(* Fairness.  The loops never stop by themselves and the event loop resumes *)
(* every await; of the outside world, only what the operator relies on: a   *)
(* supervisor restarts the process, relays accept a transaction they are    *)
(* offered again and again, and what is offered is mined and finalized.     *)
LoopsRun == WF_vars(PassStep) /\ \A l \in Loops : WF_vars(Submission(l))

OutsideHelps ==
    /\ WF_vars(Start)
    /\ SF_vars(\E tx \in Txs : Settleable(tx) /\ Settle({tx}))
    /\ SF_vars(\E tx \in Txs : RedispatchPrepared(tx))
    /\ SF_vars(NotKnown) /\ SF_vars(Resend(TRUE))
    /\ SF_vars(\E tx \in Txs, ok \in BOOLEAN : Mine(tx, ok))
    /\ SF_vars(Finalize)

FairSpec == Spec /\ LoopsRun /\ OutsideHelps

(* Every transaction that enters the outbox leaves it: the lane always      *)
(* frees again, after a crash between journal and dispatch too.             *)
LaneClears == \A tx \in Txs : (mem.outbox[tx] # "absent") ~> (mem.outbox[tx] = "absent")
=============================================================================
