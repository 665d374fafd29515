--------------------------- MODULE CampaignKeeper ---------------------------
(***************************************************************************)
(* executor/campaign2-daemon.mjs and campaign2-keeper.mjs: the daemon that *)
(* cranks the two legs of the second fee campaign, one journaled           *)
(* transaction at a time.                                                  *)
(*                                                                         *)
(* The chain is seen at three depths: the head, the blocks with enough     *)
(* confirmations (taken never to be reorganised) and the lagged snapshot   *)
(* that decisions are made from.  A pass begins by reading the state file  *)
(* again, so a crash, a provider that is down and every thrown error are   *)
(* one thing: the pass is over.  The nonce-lane check is left out: a node  *)
(* that dropped the transaction from its pool passes it.  Whether a full   *)
(* batch is claimable is the vault's word, so a choice.                    *)
(***************************************************************************)
EXTENDS CampaignLeg, Sequences, FiniteSets

CONSTANTS
    DAY, cadenceSeconds, maxBroadcastsPerDay, BURN_TTL,
    None,
    Processes,                          \* "daemon", and "status" where it is run beside
    \* bounds of the instance
    MaxNow, MaxBlockCount, MaxMined

Kinds == {"staker-harvest", "hookr-buy-and-burn", "campaign-finalize", "hook-blocks-finalize"}
Txs == [kind : Kinds, nonce : Nat]
Pendings == [tx : Txs, window : Nat, signedAt : Nat, before : Nat]

ASSUME KeeperSetting ==
    /\ {DAY, cadenceSeconds, maxBroadcastsPerDay} \subseteq Nat \ {0} /\ cadenceSeconds >= DAY
    /\ {BURN_TTL, MaxNow, MaxBlockCount, MaxMined} \subseteq Nat
    /\ "daemon" \in Processes /\ Processes \subseteq {"daemon", "status"}
    /\ None \notin Pendings

VARIABLES
    head, safe, lagged,     \* the chain: its head, confirmed, as the snapshot sees it
    disk,                   \* the state file
    pass,                   \* each process's pass: where it is, and its copy of the state
    published               \* history: what was ever handed to a node, with its day and window

chain == <<head, safe, lagged>>
vars == <<chain, disk, pass, published>>

NoPass == [at |-> "idle"]

Init ==
    /\ head = [now |-> 0, leg |-> LegAtStart, campaignFinalized |-> FALSE, mined |-> <<>>]
    /\ safe = head /\ lagged = head
    /\ disk = [pending |-> None, lastHarvestWindow |-> 0, day |-> 0, broadcasts |-> 0]
    /\ pass = [p \in Processes |-> NoPass]
    /\ published = {}

----------------------------------------------------------------------------
(* The chain, and everyone else on it: both legs' cranks are permissionless. *)
Tick ==
    /\ head.now < MaxNow
    /\ head' = [head EXCEPT !.now = @ + 1]
    /\ UNCHANGED <<safe, lagged, disk, pass, published>>

(* What a transaction of one kind does where it succeeds; nothing more is   *)
(* asked of OXZAPSFeeCampaignV1 than that it ends once, after the term.     *)
Succeeds(kind, c) ==
    CASE kind = "staker-harvest" -> IF c.campaignFinalized THEN {} ELSE {c}
      [] kind = "campaign-finalize" ->
            IF c.now > END_AT /\ ~c.campaignFinalized THEN {[c EXCEPT !.campaignFinalized = TRUE]} ELSE {}
      [] kind = "hook-blocks-finalize" -> {[c EXCEPT !.leg = m] : m \in Finalized(c.leg, c.now)}
      [] kind = "hookr-buy-and-burn" -> {[c EXCEPT !.leg = m] : m \in Burnt(c.leg)}

OthersAct ==
    /\ head' \in {[head EXCEPT !.leg = m] : m \in LegSteps(head.leg, head.now)}
                    \cup Succeeds("campaign-finalize", head)
    /\ head'.leg.blockCount <= MaxBlockCount
    /\ UNCHANGED <<safe, lagged, disk, pass, published>>

(* A burn may revert on its floor wherever it might have succeeded.         *)
Mine(tx, ok) ==
    /\ tx.nonce = Len(head.mined) /\ Len(head.mined) < MaxMined
    /\ \E c \in IF ok THEN Succeeds(tx.kind, head) ELSE {head} :
          /\ ok \/ tx.kind = "hookr-buy-and-burn" \/ Succeeds(tx.kind, head) = {}
          /\ c.leg.blockCount <= MaxBlockCount
          /\ head' = [c EXCEPT !.mined = Append(@, [tx |-> tx, ok |-> ok, blockCount |-> c.leg.blockCount])]
    /\ UNCHANGED <<safe, lagged, disk, pass, published>>

Confirm == safe' = head /\ UNCHANGED <<head, lagged, disk, pass, published>>
Age == lagged' = [safe EXCEPT !.mined = <<>>] /\ UNCHANGED <<head, safe, disk, pass, published>>
Reorg == head' = [safe EXCEPT !.now = head.now] /\ UNCHANGED <<safe, lagged, disk, pass, published>>

----------------------------------------------------------------------------
Goes(p, next) == pass' = [pass EXCEPT ![p] = next]
Reconciling(p) == pass[p].at = "reconcile"

(* runOnePass: the state is read, and an unresolved transaction comes first. *)
BeginPass(p) ==
    /\ pass[p] = NoPass
    /\ Goes(p, [at |-> IF disk.pending = None THEN "plan" ELSE "reconcile", state |-> disk])
    /\ UNCHANGED <<chain, disk, published>>

Abort(p) ==
    /\ pass[p] # NoPass
    /\ Goes(p, NoPass)
    /\ UNCHANGED <<chain, disk, published>>

Receipts(tx, c) == {c.mined[i] : i \in {j \in DOMAIN c.mined : c.mined[j].tx = tx}}

(* Slip: a receipt counts as soon as there is one.                          *)
SettledAtHead == head
SettledIn == safe

requiredPostcondition(pending, receipt) ==
    receipt.ok /\ pending.tx.kind = "hookr-buy-and-burn" => receipt.blockCount > pending.before

WindowAfter(state, receipt) ==
    IF receipt.ok /\ state.pending.tx.kind = "staker-harvest" THEN state.pending.window ELSE state.lastHarvestWindow

(* reconcilePending, down to the readback at the receipt's block.           *)
Settle(p) ==
    /\ Reconciling(p)
    /\ \E receipt \in Receipts(pass[p].state.pending.tx, SettledIn) :
          /\ requiredPostcondition(pass[p].state.pending, receipt)
          /\ Goes(p, [at |-> "write",
                      state |-> [pass[p].state EXCEPT !.pending = None,
                                                      !.lastHarvestWindow = WindowAfter(pass[p].state, receipt)]])
    /\ UNCHANGED <<chain, disk, published>>

WriteSettled(p) ==
    /\ pass[p].at = "write"
    /\ disk' = pass[p].state
    /\ Goes(p, NoPass)
    /\ UNCHANGED <<chain, published>>

(* rebroadcastSignedTransaction, for a pending whose receipt is missing or  *)
(* that was just journaled; a burn is published only while it is fresh.     *)
Publish ==
    /\ \/ pass["daemon"].at = "publish"
       \/ Reconciling("daemon") /\ Receipts(pass["daemon"].state.pending.tx, head) = {}
    /\ LET pending == pass["daemon"].state.pending
       IN  /\ pending.tx.kind = "hookr-buy-and-burn" =>
                 pending.signedAt <= head.now /\ head.now - pending.signedAt <= BURN_TTL
           /\ published' = published \cup
                 {[tx |-> pending.tx, day |-> pass["daemon"].state.day, window |-> pending.window]}
    /\ Goes("daemon", NoPass)
    /\ UNCHANGED <<chain, disk>>

----------------------------------------------------------------------------
HarvestWindow(c) == c.now \div cadenceSeconds

(* planCampaign2Maintenance on the lagged snapshot: at most one write.      *)
HarvestDue(c, last) == c.now <= END_AT /\ ~c.campaignFinalized /\ HarvestWindow(c) > last
Planned(c, last) ==
    CASE HarvestDue(c, last) -> "staker-harvest"
      [] c.now > END_AT /\ ~c.campaignFinalized -> "campaign-finalize"
      [] c.now > END_AT /\ c.campaignFinalized /\ ~c.leg.finalized -> "hook-blocks-finalize"
      [] OTHER -> "hookr-buy-and-burn"

(* Slip: the ledger is noted as it is at the head.                          *)
LedgerAtHead == head.leg.blockCount
LedgerBefore == lagged.leg.blockCount

Plan ==
    /\ pass["daemon"].at = "plan"
    /\ LET kind == Planned(lagged, pass["daemon"].state.lastHarvestWindow)
       IN  /\ kind = "hookr-buy-and-burn" => (lagged.now <= END_AT => ~lagged.leg.finalized)
           /\ Succeeds(kind, lagged) # {}
           /\ Goes("daemon", [at |-> "admit", state |-> pass["daemon"].state, kind |-> kind,
                              window |-> HarvestWindow(lagged), before |-> LedgerBefore])
    /\ UNCHANGED <<chain, disk, published>>

Today == head.now \div DAY

(* admitDailyBudget, at the block of feeAdmission: the day's count starts   *)
(* again when the day is another.                                           *)
Used(state) == IF state.day = Today THEN state.broadcasts ELSE 0

Admit ==
    /\ pass["daemon"].at = "admit" /\ Used(pass["daemon"].state) < maxBroadcastsPerDay
    /\ pass' = [pass EXCEPT !["daemon"].at = "sign",
                            !["daemon"].state.day = Today, !["daemon"].state.broadcasts = Used(pass["daemon"].state)]
    /\ UNCHANGED <<chain, disk, published>>

(* Slip: nothing is simulated again before signing.                         *)
NotResimulated(kind) == TRUE
Resimulated(kind) == Succeeds(kind, head) # {}

(* Slip: the count is kept in memory and not written.                       *)
CountUnwritten(state) == disk.broadcasts
CountWritten(state) == state.broadcasts + 1

(* The rest of runOnePass, at a later head, up to the write of the journal. *)
Sign ==
    /\ pass["daemon"].at = "sign"
    /\ LET job == pass["daemon"]
           signed == [job.state EXCEPT !.broadcasts = CountWritten(job.state),
                        !.pending = [tx |-> [kind |-> job.kind, nonce |-> Len(head.mined)],
                                     window |-> job.window, signedAt |-> head.now, before |-> job.before]]
       IN  /\ Resimulated(job.kind)
           /\ disk' = signed
           /\ Goes("daemon", [at |-> "publish", state |-> signed])
    /\ UNCHANGED <<chain, published>>

Next ==
    \/ Tick \/ OthersAct \/ Confirm \/ Age \/ Reorg
    \/ \E record \in published, ok \in BOOLEAN : Mine(record.tx, ok)
    \/ \E p \in Processes : BeginPass(p) \/ Settle(p) \/ WriteSettled(p)
    \/ \E p \in Processes : Abort(p)
    \/ Publish \/ Plan \/ Admit \/ Sign

Spec == Init /\ [][Next]_vars

----------------------------------------------------------------------------
(* "Allow only one unresolved transaction": whatever is reorganised, lost   *)
(* or crashed, a transaction a node may still mine is the journal's, or has *)
(* its confirmations.                                                       *)
OneUnresolved ==
    \A record \in published :
        \/ Receipts(record.tx, safe) # {}
        \/ disk.pending # None /\ disk.pending.tx = record.tx

(* "No more than four broadcasts per UTC day", across any restarts: by the  *)
(* day each was admitted, which the signing may overrun.                    *)
DailyBudgetKept ==
    \A record \in published :
        Cardinality({other \in published : other.day = record.day}) <= maxBroadcastsPerDay

(* A confirmed success always passes the readback: otherwise the journal    *)
(* could never be cleared and the keeper would stand still for good.        *)
SettlementNeverRefuses ==
    disk.pending # None =>
        \A receipt \in Receipts(disk.pending.tx, safe) : requiredPostcondition(disk.pending, receipt)

(* Work once done is not paid for again: a harvest window is harvested once *)
(* and neither leg is finalized twice, however far the snapshot lags.       *)
Done(record) == \E receipt \in Receipts(record.tx, safe) : receipt.ok
NoWorkTwice ==
    [][\A record \in published' \ published, done \in published :
          Done(done) /\ done.tx.kind = record.tx.kind =>
              \/ record.tx.kind = "hookr-buy-and-burn"
              \/ record.tx.kind = "staker-harvest" /\ record.window # done.window]_vars

----------------------------------------------------------------------------
(* The inductive invariant behind the four, of a daemon nobody runs beside. *)
States == [pending : Pendings \cup {None}, lastHarvestWindow : Nat, day : Nat, broadcasts : Nat]
Legs == [blockCount : Nat, finalized : BOOLEAN, buybackPaused : BOOLEAN]
Mined == [tx : Txs, ok : BOOLEAN, blockCount : Nat]
Chains == [now : Nat, leg : Legs, campaignFinalized : BOOLEAN, mined : Seq(Mined)]
Records == [tx : Txs, day : Nat, window : Nat]

(* Each nonce is used once, only by what was published, and what succeeded  *)
(* has left its mark; the three views of the chain are of one history.      *)
LeavesMark(c, receipt) ==
    receipt.ok => /\ receipt.tx.kind = "campaign-finalize" => c.campaignFinalized
                  /\ receipt.tx.kind = "hook-blocks-finalize" => c.leg.finalized
Recorded(c) ==
    \A i \in DOMAIN c.mined : /\ c.mined[i].tx.nonce = i - 1
                              /\ \E record \in published : record.tx = c.mined[i].tx
                              /\ LeavesMark(c, c.mined[i])
ChainInv ==
    /\ head \in Chains /\ safe \in Chains /\ lagged \in Chains
    /\ Recorded(head) /\ Recorded(safe)
    /\ Len(safe.mined) <= Len(head.mined)
    /\ \A i \in DOMAIN safe.mined : safe.mined[i] = head.mined[i]
    /\ lagged.leg.blockCount <= safe.leg.blockCount /\ safe.leg.blockCount <= head.leg.blockCount

Open(record) == disk.pending # None /\ disk.pending.tx = record.tx
PendingRecord == [tx |-> disk.pending.tx, day |-> disk.day, window |-> disk.pending.window]

(* The journal: its entry was planned on a ledger no newer than the         *)
(* confirmed one, is not the work of anything settled, and is the only      *)
(* published transaction without a confirmed receipt.                       *)
JournalInv ==
    /\ disk \in States /\ published \subseteq Records
    /\ OneUnresolved
    /\ \A done \in published :
          Done(done) /\ ~Open(done) /\ done.tx.kind = "staker-harvest" => done.window <= disk.lastHarvestWindow
    /\ disk.pending # None =>
          /\ disk.pending.before <= safe.leg.blockCount
          /\ \A i \in DOMAIN head.mined :
                head.mined[i].tx = disk.pending.tx => requiredPostcondition(disk.pending, head.mined[i])
          /\ disk.pending.tx.kind = "staker-harvest" => disk.pending.window > disk.lastHarvestWindow
          /\ \A record \in published : Open(record) => record = PendingRecord
          /\ \A done \in published :
                Done(done) /\ ~Open(done) /\ done.tx.kind = disk.pending.tx.kind =>
                    disk.pending.tx.kind \in {"staker-harvest", "hookr-buy-and-burn"}

(* Everything published, and the entry about to be, is in the day's count.  *)
Counted == published \cup (IF disk.pending = None THEN {} ELSE {PendingRecord})
CountedOn(day) == {record \in Counted : record.day = day}
BudgetInv ==
    /\ IsFiniteSet(published)
    /\ disk.broadcasts <= maxBroadcastsPerDay /\ disk.day <= Today
    /\ \A record \in Counted : record.day <= disk.day
    /\ \A day \in Nat : Cardinality(CountedOn(day)) <= maxBroadcastsPerDay
    /\ Cardinality(CountedOn(disk.day)) <= disk.broadcasts

(* What the daemon's copy of the state is worth at each place.              *)
Planning == [at : {"admit", "sign"}, state : States, kind : Kinds, window : Nat, before : Nat]
PassInv ==
    LET job == pass["daemon"]
    IN  /\ pass \in [Processes -> {NoPass} \cup Planning
                                    \cup [at : {"plan", "reconcile", "publish", "write"}, state : States]]
        /\ job.at \in {"plan", "admit", "sign"} => disk.pending = None
        /\ job.at \in {"reconcile", "publish", "write"} => disk.pending # None
        /\ job.at \in {"plan", "admit", "reconcile", "publish"} => job.state = disk
        /\ job.at \in {"admit", "sign"} =>
              /\ job.before <= safe.leg.blockCount
              /\ job.kind = "staker-harvest" => job.window > disk.lastHarvestWindow
        /\ job.at = "sign" =>
              /\ job.state.pending = None /\ job.state.lastHarvestWindow = disk.lastHarvestWindow
              /\ disk.day <= job.state.day /\ job.state.day <= Today
              /\ job.state.broadcasts = IF job.state.day = disk.day THEN disk.broadcasts ELSE 0
              /\ job.state.broadcasts < maxBroadcastsPerDay
        /\ job.at = "write" =>
              \E i \in DOMAIN safe.mined :
                 /\ safe.mined[i].tx = disk.pending.tx
                 /\ job.state = [disk EXCEPT !.pending = None,
                                             !.lastHarvestWindow = WindowAfter(disk, safe.mined[i])]

KeeperInv == ChainInv /\ JournalInv /\ BudgetInv /\ PassInv
=============================================================================
