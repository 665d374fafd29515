# OpenZaps: verification project

TLA+ models of the OpenZaps protocol and of the daemon that executes its
automations, their TLC configurations, and machine-checked proofs. Modules are
written from the Solidity and JavaScript sources; `PROJECT.json` maps every
definition to the lines it stands for.

## 1. The system

| Part | Sources | State | Operations | What makes it hard |
|---|---|---|---|---|
| Capsule (clone per owner) | `contracts/src/v3_2/OpenZapV3_2.sol` (contains the entry points of v2, v3, v3.1) | consumed nonces, series progress, halt flag, token balances, approvals | five execution functions, a frozen step loop, fee/floor/stacking settlement, halt, nonce invalidation, exit | external calls in the middle of a run, owner functions without the lock, rounding, several signatures on one identifier |
| Registry and allowlist | `AdapterRegistry.sol`, `TokenAllowlist.sol` | admitted adapters, sources, tokens | add and remove | changes between runs of a standing authority |
| Lottery pot | `contracts/src/v3/ZapLotteryPot.sol` | round, tickets, prize, wiring | contribution, conversion, award, governance | round turnover, donations, balance-delta accounting |
| Executor daemon | `executor/*.mjs` | outbox, earnings, cursor, circuit; `state.json`; lockfile | intent pass, maintenance, settlement, redispatch | two loops sharing a key and a state object across awaits, crashes, storage failures, uncertain relays, reorganisations |
| Campaign keeper | `executor/campaign2-daemon.mjs`, `campaign2-keeper.mjs` | pending journal, daily count, harvest window, price journal; lockfile | plan, admit, sign, journal, publish, reconcile; `status` | one transaction at a time across crashes and reorganisations, decisions on a lagged snapshot, permissionless cranks beside it |
| Intent relay | `supabase/migrations`, `src/lib/relay-*` | intents, receipts, rate counters | publish, list, consume, receipt upsert | concurrent transactions, quotas |
| Lead outbox | `supabase/migrations/20260730144125_*.sql`, `src/workflows/lead-notification`, `src/lib/leads/notification-*` | outbox rows with claim and lease; workflow runs; the provider's idempotency keys | enqueue, claim, send, complete, fail | overlapping drains, lapsed leases, lost answers, steps that run again, deployments in between |
| Marketing agent | `src/lib/marketing`, `src/workflows/marketing-agent` | delivery ledger | claim, deliver, retry | lease expiry racing a late worker |
| Fee shares: term wrapper, auto-compounder | `contracts/src/feeshare` | locked principal, wrapped units, per-unit accumulators and debts, reserves | deposit, transfer, harvest, claim, redeem, sweep; withdraw, route | flooring over long histories, an unreliable vault, two reward epochs, arrivals between stake changes |
| HookBlocks campaign | `contracts/src/campaign/HookBlocks.sol` | principal, pause and end flags, the record of burns | fund, buy and burn, pause, finalize, sweep | donations of every asset, partial fills, an unreliable vault |
| Overdraw game | `contracts/src/game/ZapOverdraw.sol` | round, seats, credits, carry | commit, reveal, settle, claim | everyone may hold several seats and order the reveals; floors and a carry |
| Vaults | `contracts/src/primitives` | shares | deposit, redeem | share rounding |
| Web app, SDK, MCP | `src/app`, `packages`, `mcp` | none of the protocol's | building and signing intents | out of scope |

The owner signs intents; the web app or the local intake publishes them; the
executor evaluates them against the chain, signs one transaction at a time and
offers it to private relays; the capsule runs its frozen steps through
adapters, pays the recipient, the submitter and the pot, and notifies the pot;
the executor's maintenance loop converts the pot's fee assets to 0xZAPS; pot
governance awards each round. The executor holds no authority: the capsule
verifies everything again. The second fee campaign has two legs, one of them
`HookBlocks`; the campaign keeper cranks both through permissionless calls. The
web application's lead intake inserts a request, a database trigger enqueues its
notification, and workflow runs drain that outbox.

`PROJECT.json` lists all components, with the ones not modelled and why, and
the hazards, each at its line.

## 2. The modules

| Module | What it is |
|---|---|
| `StandingAuthority` | abstract: what an owner's signatures authorize |
| `OpenZap` | the capsule, one action per entry point and per stretch between external calls |
| `OpenZapProperties` | its properties, the refinement, the inductive invariant |
| `OpenZapProofs` | proofs for every value of the constants: authority, money, floors |
| `MCOpenZap`, `MCClones` | a small capsule, and three of them side by side |
| `LotteryPot`, `LotteryPotProperties` | the lottery pot |
| `Totals`, `TotalsProofs` | sums of balances, and what sums do |
| `ZapOverdraw` | the overdraw table |
| `MCPots`, `PotProofs` | lottery and table side by side, and their proofs |
| `Executor`, `ExecutorProperties`, `ExecutorProofs`, `MCExecutor` | the daemon's signer lane and outbox |
| `ExecutorLock`, `ExecutorLockProofs` | the pid lockfile |
| `MCDaemon` | lockfile and lane side by side |
| `FeeShareTermWrap`, `FeeShareTermWrapProperties` | the term wrapper |
| `FeeShareAutoCompounder` | the auto-compounder |
| `CampaignLeg` | abstract: what a campaign leg promises its keeper |
| `HookBlocks` | the burn leg, shown to keep that promise |
| `MCFeeShares`, `FeeShareProofs` | the three holders of fee shares side by side, and their proofs |
| `MCFeeShareEpochs` | the wrapper with a record of what its units earned in term |
| `CampaignKeeper`, `CampaignKeeperProofs`, `MCCampaignKeeper` | the keeper, resting on `CampaignLeg` alone |
| `LeadOutbox`, `LeadOutboxProofs`, `MCLeadOutbox` | the notification outbox, its workflow, the provider |

Parts that share no state are checked side by side in one run: `contract` (in
`MCDaemon`, `part`; in `MCClones`, `clone`) is chosen at the start and names the
one a behaviour is about, the others stay as they began. It is a disjoint union
of state spaces, not a product, and loses nothing of either.

### OpenZap

A transaction is a frame: `pc` walks idle, step, adapter, settle, stake,
staking, idle. `Execute`, `ExecuteRecurring`, `ExecuteRecurringRelative`,
`ExecuteRecurringStack` and `ExecuteTrigger` are the checks and consumption of
the five functions; they store in the frame what a revert restores.
`CallAdapter` and `AdapterReturns` are one turn of `_runSteps`, split where the
adapter has control: it may pull any part of its approval, deliver anything
and move any pool, and the owner's own functions, which take no lock, may run
meanwhile. Halt and invalidation are allowed there; the settlement actions are
the rest of the function. `Revert` may end a transaction anywhere and restores
clone storage, tokens and prices. A failed `require` in the code is a
settlement action that is not enabled, leaving only `Revert`. Signature
verification, hashing and gas prices are admission facts of the presented
intent and transaction (`domain`, `signer`, `gasPrice`, `gas`).
Tokens move exactly or revert; `mulDiv` is exact floor division; the checked
`lastRun + interval` cannot wrap. An adapter's reported output
number is ignored, as it is in the code: only balances are measured.

### LotteryPot

Every transaction is one action. `Contribute` is a capsule's transfer and its
notification, which revert together. The pinned adapter of `buyZaps` pulls and
delivers any amounts that satisfy the checks. It is assumed not to call a
capsule or the pot back; the capsule's and the pot's models are not yet
composed.

### Executor

Each action is the code between two awaits. The two loops have a `pc`, the
lane is the FIFO of `createAsyncMutex`, `mem` is the shared state object and
`disk` the state file; `writeState` is synchronous, so a journal write is part
of the action that changes the outbox. A write fails before the rename
("unwritten") or after it ("unsynced"). A crash keeps `disk` only; one that
interrupts a write leaves an orphan temporary file and the daemon refuses to
start until an operator repairs it, so it is not a behaviour of the lane.
A transaction is the pair of its work and its nonce, the hash its identity.
Relays accept, answer uncertainly (received or not) or reject. Reads lag the
chain by any amount down to the finalized boundary. Assumed: the key is used
by this daemon alone, and no transaction becomes final while the relay request
that carried it is open (finality takes minutes, a request seconds). Without
the second, `recordExecutionSubmissionEvent` would queue a settled transaction
again. Waiting for a receipt, notifications, the relay cursor and hosted
delivery change nothing the lane reads.

### ExecutorLock

`acquireLock` and its release, one system call per step, for several
processes. A file is identified by its creator.

### FeeShareTermWrap and FeeShareAutoCompounder

A transaction is one action. The wrapper's entry points hold a mutex; the
compounder has none, but calls the vault before it reads anything, so a call
back from the vault is a transaction that came first, and its pinned adapter is
taken not to call back. The vault is untrusted: `pulled` is whatever it pays
when asked, nothing when it is down (both its calls are caught). Reward also
arrives unasked, from anyone. A bucket of the wrapper is the record of its
cumulative rate, reserve, debts and accruals, so that `_checkpoint` and
`_checkpointPost` are one operator; every floor of the code is a floor of the
model. The histories `arrived`, `paid`, `taken` and `routedNow` are read by
properties only. Left out: ERC-20 allowances of the units, and fee shares
sent to the contracts outside a deposit, which neither contract ever reads.

### HookBlocks, CampaignLeg and CampaignKeeper

A buy and its callback are one action: everything that moves assets holds the
lock, and the callback only runs inside a buy. The pool takes any amount up to
what it is offered and delivers anything above the floor; the vault pays
anything when claimed from, or nothing. Anyone may send any of the four
assets (native only by force). The sponsor is taken to accept native units.

`CampaignLeg` is the interface between contract and keeper: three fields and
the steps they may take. `KeepsToLeg` shows `HookBlocks` takes no other; the
keeper's chain takes exactly those, as its own transactions and as everyone
else's. The staker leg, whose contract is not in this repository, is modelled
as ending once after the term and accepting harvests until then.

The keeper sees the chain three times: its head, the blocks with the
configured confirmations, and the snapshot decisions are made on, which may be
any confirmed past. A pass starts by reading the state file, so a crash, an
unreachable provider and each of the many checks that throw are one action,
`Abort`. Assumed: blocks with the configured confirmations are never
reorganised, head time does not go back, the key is used by this daemon alone
and its lockfile admits one, both legs are funded and started, and
finalization is automated (the default). Left out: the check that the node's
latest and pending nonces agree, which passes on a node that forgot the
transaction; the price journal and the full-batch condition, which decide only
whether a burn is planned (a choice); and the writes of the price journal and
of the `broadcast` phase, which change nothing the model keeps. Budget
admission and signing read different heads, so the count is kept by the day of
admission and the signature may fall into the next.

### ZapOverdraw

A transaction is one action. A commitment is the draw it opens to, or
`Unopenable`: the hash binds player, round and contract, so a copied blob opens
to nothing. `Queue` is the insertion sort of packed keys, `Discharge` the walk
along it. Assumed: two tiebreaks of one round do not collide (the code breaks
that tie by reveal index). Stake sent outside `commit` is never read and left
out. The model's last round takes no commits.

### LeadOutbox

A database function is a transaction and one action; a row another transaction
may hold at the moment of a claim is passed over. Each workflow step runs at
least once: until its answer is recorded it may run again from the top, so every
action has a variant whose answer is lost. A run that is over leaves its row
claimed under a name nobody uses again. The provider keeps one answer per key;
the same key with another text is refused. It is taken to remember keys for as
long as a lead may be retried, and to give its refusals a status, as its client
does (one without status and with an unknown name would be recorded as
permanent without having been mailed). Attempt counts and error codes change
nothing and are left out; so is the back-off of `fail_lead_notification`, which
no caller asks for.

## 3. The runs

| Run | Checks | Shows |
|---|---|---|
| `clones` | `TypeOK RunsWithinBudget NoResidualApproval ImplementsAuthority PayoutHonoursFloor DustStays` | three clones: two steps, a one-shot and a trigger sharing a nonce, a series re-signed under its own id; relative and stacking runs against pools the run moves; output already 0xZAPS, next to dust of it; each with every interleaving of owner calls, top-ups between runs and reverts |
| `pots` | `TypeOK PrizeBacked PrizesAccountedFor WinnersPlayed Solvent ClosedRoundsAreFinal TableFair` | three lottery rounds in every order; two overdraw rounds with every seating, draw, reveal order and forfeit |
| `signer_lane` | `FirstDispatchJournaled OneUnresolved NoSecondBroadcast EarningsHonest CircuitStopsSigning` | both loops, a crash anywhere, unsynced writes, unreliable relays, reorganisations |
| `daemon` | `SingleInstance LaneClears` | one daemon, when starts do not overlap; the lane always frees again |
| `fee_shares` | `PrincipalHeld RedemptionOpen RewardsCovered WithdrawOpen LedgerHonest PrincipalReturns EarningsKept SharedBeforeMoved YieldsApart KeepsToLeg` | a whole term of the wrapper, two blocks of the compounder, a whole burn campaign |
| `keeper` | `OneUnresolved DailyBudgetKept SettlementNeverRefuses NoWorkTwice` | the keeper across crashes, reorganisations, lagging snapshots and others' cranks |
| `lead_outbox` | `OneMailPerLead SettledWasMailed OutcomesFinal MissedNudgeRecovered` | overlapping drains, lapsed leases, lost answers, deployments; and no lead is left behind |
| `series_clash` | `RunsWithinBudget`, violated | finding 1 |
| `lead_refused` | `MissedNudgeRecovered`, violated | finding 2 |
| `keeper_status` | `OneUnresolved`, violated | finding 3 |
| `journal_unwritten` | `JournaledBeforeDispatch`, violated | finding 4 |
| `epochs_mixed` | `StrictlyApart`, violated | finding 5 |

Bounds. Fees are scaled (20%, half to the submitter, slippage in tenths) so
that a few token units hit every rounding; two runs per series, plus a third
one attempted, decide exhaustion and cadence (the clone in kind has a series of
one run that shares its identifier with a trigger); two price levels are a market
that moves and one that does not; the scheduled clone holds enough for three
runs and the market clone for two, so that they also run out; two sources and
one adapter beside the pinned one are all a policy of one or two steps can tell
apart. The pot needs
three rounds for a closed, an open and a later one. The lane's interesting
histories have one transaction in flight and a second that might displace it:
two nonces, two authorizations, one conversion, one crash and two faults. Both
executor loops are always present. The fee-share instances scale the
accumulators by 2 and have holdings of 1 to 3 shares and 3 units of reward, so
that divisions leave a remainder at every step (with the real 1e18 the same
happens a wei at a time); the wrapper's clock has one instant of each phase.
the campaign's has one before, in and after the term and one after the backstop.
The overdraw table has three seats for three players, two draws (three and six
tenths of the capacity, so that two modest ones fit and a modest one with a
greedy one does not always) and an entry fee of 5, which floors rake, reward
and draws alike. The keeper has two-tick days and harvest windows, a budget of
two, a term that ends in the second day, a burn that is stale after one tick
and two mined transactions, so that a third is signed on top of settled ones.
The outbox has two leads (one behind the other) and two runs of one
notification each with one retry; `MaxStalls` allows one lease to lapse under a
live run. `pots`, `fee_shares` and the keeper stop at the bound of their
clocks or rounds, hence without a deadlock check. Nothing is symmetric enough, or large
enough, to need symmetry reduction.

Fairness. For the lane in `daemon`, weak fairness of the two loops, which never
stop by themselves; a supervisor restarts the daemon (`KeepAlive` in the
launchd template); and of the outside world strong fairness of one relay
accepting bytes offered again and again, of redispatch not being throttled for
ever, of mining and of finality. Relays keep what they take: an entry marked
submitted after an uncertain answer is never offered again, and if nobody kept
it the lane waits for an operator, as the runbook says. In `lead_outbox` and
`lead_refused`, weak fairness of the lease's clock, of starting a drain (the
daily cron) and of a run's own steps, and strong fairness of a claim, a send
and a completion being answered when they are asked again and again. A run may
still die or spend its retries at any moment, as often as it likes.

### Findings

1. **Series that share an identifier.** `run == maxRuns` (`OpenZapV3_2.sol:459`)
   compares the identifier's counter with the presented intent's own length.
   Two signatures with one `seriesId` and different lengths let the shorter
   outrun its `maxRuns`.
2. **A refused lead holds up the rest.** The claim order never changes and the
   back-off is never applied, so a lead whose mail the provider refuses for
   ever is first again for every drain (`20260730144125_*.sql:206`); the lead
   engine's doc has the daily drain recover a missed nudge.
3. **`status` writes without the lock.** It reconciles like a pass and rewrites
   the state from the copy it read (`campaign2-daemon.mjs:1096`, `1389-1392`),
   so a journal written meanwhile is lost; the runbook allows one unresolved
   transaction.
4. **Redispatch ignores the circuit.** When a journal write is lost before its
   rename the entry stays in memory as prepared and the circuit opens, but the
   next pass redispatches from memory without asking the circuit
   (`executor/index.mjs:348`): a relay gets bytes the state file has never held,
   where `executor/README.md:295-296` promises no relay request.
   `OneUnresolved`, `NoSecondBroadcast` and `EarningsHonest` fail with it, since
   a crash then forgets a live transaction; `signer_lane` therefore checks them
   for faults after the rename only (`StorageFaults = {"unsynced"}`). What does
   hold for both faults is `CircuitStopsSigning` and `FirstDispatchJournaled`:
   only that redispatch, behind an open circuit, sends what was never written.
   Both are proved for every fault (section 4).
5. **Two epochs, told apart by who settles first.** The wrapper takes a
   reward's epoch from the transaction that measures it. What came in term and
   was not harvested by `MATURITY` can no longer be, and the first settlement
   after it credits the locked principal (`FeeShareTermWrap.sol:353-361`),
   where the contract says its epochs are kept "strictly apart" (`:23-24`).
   The same goes for reward the vault owed and nobody pulled. Whoever holds
   units must see to a harvest at the end of the term. `SharedBeforeMoved` says
   what the accounting does keep apart. Reward that comes while there is no
   unit is nobody's in-term reward and not counted here: it waits for the first
   depositor.

Two older disagreements are kept here without a run of their own:

- **An exit that may fail.** `emergencyExit` reverts, tokens included, when
  native units sit on the clone and the owner account refuses them
  (`OpenZapV3_2.sol:923`), although `docs/invariant-spec.md:120` has it always
  succeed. A property of it would restate the guards of `EmergencyExit`, or
  the refusal that is one of them.
- **Overlapping starts.** Creating the lockfile and writing the pid are two
  system calls, and the unlink does not check that the path is still the file
  that was read (`executor/index.mjs:168`). `SingleInstance` fails with
  `Supervised = FALSE`.

### What is not claimed

- **Rounding.** The fee-share contracts floor an entitlement and subtract a
  debt floored when the balance last changed (`FeeShareTermWrap.sol:384-388`,
  `FeeShareAutoCompounder.sol:260-264`), and `floor(x + d) - floor(x)` can
  exceed `d`. With the real scale: 1e18 units, 1 wei harvested, half of them
  sold, 1 wei harvested, and 1 + 1 + 1 = 3 wei are owed of 2. The last
  `claim` or `claimWeth` then reverts on its checked subtraction until more
  reward arrives. So no property here says that the coupon reserve, or the
  compounder's WETH reserve, covers all claims; principal and withdrawals are
  unaffected (`RedemptionOpen`, `WithdrawOpen`), and the post-maturity bucket,
  whose stakes only ever leave whole, is covered (`RewardsCovered`).
- **Contributions and their notice.** A notification that fails reverts the
  transfer before it, so the model moves and credits in one step; that the two
  amounts agree is part of the model, not something it shows.
- **Progress of the keeper.** A burn that was journaled and not mined before
  its deadline is neither published again nor given up, and the journal's
  evidence is verified with an archive node before the receipt is looked up;
  both wait for an operator, so no liveness is claimed.
- **The provider's memory.** `OneMailPerLead` holds while the provider
  remembers the key of a mail it took.

## 4. The proofs

Each paragraph names the module, the hypotheses beyond the named `ASSUME`s of
the models, the inductive invariant and why the property needs it.

**`OpenZapProofs`: authority**, for all intents, policies, adapters, markets,
submitters and owner calls, under `IntentsTyped` (unsigned fields) and
`SeriesAgree` (series that share an identifier agree on `maxRuns`, which
finding 1 shows necessary):

- `AuthorityInvariant`: `Spec => []AuthorityInv`. `RunsWithinBudget` is not
  inductive: payouts are counted when a transaction returns, but consumption
  happens when it enters and may be rolled back. `AuthorityInv` therefore
  relates the history of payouts to the storage now and, within a
  transaction, to the storage a revert would restore, and says that the
  storage now already accounts for the payout to come.
- `BudgetTheorem`: no signature pays out more often than it says.
- `RefinementTheorem`: the capsule implements `StandingAuthority`. Grants are
  live by the committed storage, so a whole transaction is one step when it
  returns and stutters otherwise.

**`OpenZapProofs`: money**, under `PartiesApart` (the clone is
neither the venue nor the pot, and the pot is not the recipient) and `AmountsTyped`
(constants are amounts, the fee and the executor's share are fractions):

- `LedgerInvariant`: `Spec => []LedgerInv`. `TypeOK` and `NoResidualApproval`
  are not inductive: a revert restores the books of the entry, so those must
  have granted no approval; a slice must have been validated before it is cut;
  and while the net amount is held back, the clone must still hold it together
  with the slice.
- `TypeTheorem`: no settlement path pays out what the clone does not hold, for
  every fee, slice, rounding and adapter.
- `ApprovalTheorem`: no approval outlives the call it was given for.

**`OpenZapProofs`: floors**, under `CloneUnpaid` as well: a run pays neither
its own clone as recipient nor the clone as relayer. The code allows an owner
to name the clone, and such a run leaves the payment on the clone, so the sentence
"what it held before stays" would be about two things at once.

- `FloorInvariant`: `Spec => []FloorInv`. Both properties compare the end of a
  run with its beginning, so the invariant carries the beginning along: the
  price read before the first swap is the one the market had then, and between
  slice and payment the clone holds exactly what it held before, the net amount
  and the slice, or nothing when the owner's exit took that token.
- `FloorTheorem`, `DustTheorem`: the signed floor is paid at the earlier price,
  and earlier holdings are never paid out as output.

**`TotalsProofs`**: a sum of balances changes by what one account changes, is
additive, monotone and scales. `Total` is a fold, unrolled here into its
recursive function on subsets. The provers cannot instantiate an induction
theorem over an operator, so each law is proved by minimal counterexample: the
set of subsets at which it fails would have a smallest member. The one
hypothesis is that the set of accounts is finite.

**`PotProofs`, the lottery**, under `PotSetting`:

- `PrizeBackedTheorem`: the open prize is always covered and closed rounds
  claim nothing. The invariant adds the types of the counters and balances;
  one lemma says a transfer keeps balances natural.
- `PotTypeTheorem`, `WinnersPlayedTheorem`, `ClosedRoundsTheorem`: typing, a
  ticket-holding winner for every closed round, and closed rounds never
  change. Each is inductive once the books' invariant is there: what matters is
  that only an award turns the round and that everything else writes to the
  open one.
- `PrizesAccountedTheorem`: all awards and the open prize add up to what came
  in. `PrizeHistory` adds that no round from the open one on has an award, so
  that an award adds to the sum rather than replacing part of it.

**`PotProofs`, the table**, under the `Settings` of `MCPots` (finitely many
players, shares that fit the whole, draws within it, tiebreaks of a round that
do not collide), about `SpecAll`:

- `QueueInOrder`: the line-up exists, holds every reveal once and is in order.
  `LineUp` gives the reveal with i rivals ahead of it the place i + 1 and shows
  this is one-to-one, for any strict order.
- `WalkStages` and `StagesOK`: the walk is a fold along that line-up, unrolled
  as in `TotalsProofs`. After any number of seats, what was served and what
  remains are the capacity, the walk was cut exactly if the claims so far
  outgrew it, and who was served asked in time. `DischargeOK` concludes that
  everybody is served exactly what is `Due`, a definition without any walk.
- `SolventTheorem`, `FairTheorem`: the debts are covered to the wei; no
  settlement credits more than the entries; the modest come first, whatever the
  order of reveals. `TableSafe`, their invariant, adds that the round's reveals
  are of distinct seats with draws in range.

**`FeeShareProofs`**, under `TermSetting` and the `Settings` of `MCFeeShares`
(finitely many accounts, a positive scale, natural amounts, an ordered term).
The wrapper's theorems are about its own `Spec`, the others about `SpecAll`.

- `WrapInvariant`: `Spec => []WrapInv`. `PrincipalHeld` is close to inductive;
  `RewardsCovered` is not, because the sum of floored claims is bounded by the
  reserve only through the unfloored ones. `PostBacked` says that whoever is
  still locked has earned its stake times the rate, floored once over its whole
  history (stakes leave whole, so no second floor is ever taken), whoever left
  has what it had then, and the unfloored earnings of all are covered by what
  the bucket took in. `Seasons` says which records are still empty before
  maturity and before the claim deadline.
- `PrincipalTheorem`, `RewardsTheorem`: principal is held to the share; claims
  on the post-maturity reserve, and sweeps, are covered.
- `EarningsTheorem`, `SharedTheorem`: nobody's earnings shrink, and they grow
  by exactly what the rate gained on the stake held before the step, after all
  the wrapper holds was shared out if units move or anything leaves. Both rest
  on floors being monotone and on a checkpoint leaving what is owed unchanged;
  that a settlement leaves nothing unspoken for needs the coverage in `WrapInv`.
- `ChecksTheorem`, `RedemptionTheorem`: the checked subtraction of a checkpoint
  fails for nobody in either bucket (`ChecksHold`, inductive beside `WrapInv`: a
  debt is floored at the rate it was set at, rates only grow, and whoever's
  balance changes is settled first); so after maturity the redemption of all of
  a depositor's units passes every guard, with a vault that pays nothing.
- `WithdrawTheorem`: the compounder holds a share for each deposited, covers its
  reserve, and a depositor's withdrawal of everything passes every guard, with a
  vault that pays nothing. `CompounderOpen`, beside `CompounderSafe`, says that
  everybody settles at the present rate; a sync only raises it.
- `PrincipalReturnsTheorem`: the burn campaign's principal is held or returned,
  whole and once, and after the term `finalize` passes every guard.
  `PrincipalSafe` says where the principal is in each phase, and that it is
  never more than the shares held.
- `YieldsTheorem`: in the compounder an account's lifetime reward grows by its
  own deposit times the growth of the rate, floored, and by nothing else, and
  a route keeps to its ceiling and its floor. `CompounderSafe` adds that the
  total is the sum of the deposits and that what was routed in this block is
  within the ceiling.
- `LedgerTheorem`, `LegTheorem`: the burn contract's record tells its own
  trades and no donation, its block cap holds, and it takes no step the keeper's
  `CampaignLeg` does not promise. `HookSafe` adds that what the pool took in
  this block is one buy's.

**`ExecutorProofs`**, for any number of authorizations, conversions, nonces,
crashes and faults. `WritesLand` says no state write is lost before its rename
(finding 4 is what happens otherwise); the first two theorems do without it:

- `CircuitTheorem`: nothing is signed behind an open circuit. Its invariant,
  `CircuitInv`, keeps of `LaneInv` only what does not depend on the file.
- `JournalTheorem`: whatever fault a write meets, nothing is dispatched for the
  first time before its entry is in the file, except by the redispatch of a pass
  behind an open circuit (finding 4). Its invariant, `FirstInv`, says that with
  the circuit closed every entry in memory is in the file, and that whoever is
  about to dispatch works on an entry the file has or on one already sent.
- `LaneInvariant`: `Spec => []LaneInv`, under `WritesLand`. The properties are
  about disk, memory and network together, and each loop acts on views many
  awaits old, so `LaneInv` says what each place inside the lane may still rely
  on (whoever is past admission sees an empty outbox and a nonce the chain can
  take; whoever dispatches works on the one entry), that memory and file differ
  only by what is final, and that earnings count only successes already settled.
- `OneUnresolvedTheorem`, `NoSecondBroadcastTheorem`, `EarningsTheorem` follow,
  the last from a count of final successes.

**`ExecutorLockProofs`**, under `LockSetting` and `Supervised`:

- `SingleInstanceTheorem`, for any number of processes and crashes anywhere.
  `LockInv` adds that a holder created the file at the path and has its pid in
  it, and that the one process starting has read that pid, so it never
  unlinks. Overlapping starts are what happens to the last part without
  `Supervised`.

**`CampaignKeeperProofs`**, under `Alone` (no `status` beside the daemon, which
finding 3 shows necessary):

- `KeeperInvariant`: `Spec => []KeeperInv`. A crash forgets everything but the
  file, and a pass decides on a snapshot that lags; so the invariant says that
  what is confirmed is a prefix of the chain and the snapshot's ledger no newer,
  that a published transaction is the journal's or confirmed, that each day's
  count bounds that day's broadcasts, and what a pass holding a copy of the
  state may conclude from it.
- `OneUnresolvedTheorem`, `DailyBudgetTheorem`, `SettlementTheorem`,
  `NoWorkTwiceTheorem`.

**`LeadOutboxProofs`**, under `OutboxSetting`:

- `OneMailPerLeadTheorem`, `SettledWasMailedTheorem`, `OutcomesFinalTheorem`.
  Claims and leases do not keep two runs from mailing the same lead; the
  provider's key does. `OutboxInv` says just that: the key of a mail is its
  lead, keys are answered once, and a run about to complete or fail a row holds
  an answer that proves the mail was taken, even if its lease is gone.

Model-checked only: liveness (`LaneClears`, `MissedNudgeRecovered`) and what is
stated with `ENABLED` (`RedemptionOpen`, `WithdrawOpen`,
`PrincipalReturns`), both outside the prover. Of these three, what needs no
`ENABLED` is proved: the theorems above put the guards (`Redeemable`,
`Withdrawable`, `Finalizable`) in its place, and `RedemptionRuns`,
`WithdrawalRuns` and `FinalizationRuns` show that a state that passes them has a
step, by naming everything that step stores. Only the word `ENABLED` itself is
left to TLC. The five violated properties are false.

The inductive invariants have no run of their own now that they are proved
(`AuthorityInv`, `LedgerInv`, `FloorInv`, `PrizeHistory`, `WrapInv`, `LaneInv`,
`CircuitInv`, `LockInv`, `KeeperInv`, `OutboxInv`, `ChecksHold`,
`CompounderOpen`, `PrincipalSafe`; `CompounderSafe`, `HookSafe` and `TableSafe`
are only ever used by the provers). Those stated in a model's own modules were
checked first and can be added to a cfg of that module.

## 5. Plan

Done in this order: authority and budget, settlement and floors, pot, signer
lane, lockfile, fee shares; burn campaign and its keeper, overdraw table, lead
outbox. Next:

1. `HostedDelivery`: the receipt delivery queue, its back-off, limit and dead
   letters; the relay cursor.
2. `CapsulePot`: capsules and pot composed, with the conversion's external
   call open.
3. `FinalityQuorum`: the agreement counting of `late-block.mjs`, and the
   executor's settlement resting on it.
4. `ZapCreationFeePot`, `ZapVault`.
5. The marketing delivery ledger and relay admission, from the SQL functions.
6. v1.2's Permit2 owner pull; pool arithmetic over small widths.

Proofs planned: each of these modules with its own; of what is modelled now,
every invariant and action property that needs neither fairness nor `ENABLED`
is proved.

## 6. Not modelled

User interface, SDK and MCP servers (no protocol state); hashing, signatures
and address derivation; adapters and venues (arbitrary counterparties of the
capsule); fee-on-transfer tokens; deployment scripts and the one-shot seeder;
the executor's intake and configuration parsing; the price journal's median
and its archive verification. The parts planned above are listed as
`not_modelled` until their modules exist.

By lines most of the repository is user interface, page content, tests,
operations scripts and generated data, which keep no state worth a model; the
models map the contracts, the daemons and the database functions that do. A
share of the whole tree is therefore no measure of how much of the protocol is
modelled: section 1 is.
