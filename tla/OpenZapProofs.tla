--------------------------- MODULE OpenZapProofs ---------------------------
(***************************************************************************)
(* Machine-checked proofs about the capsule, for every set of intents,     *)
(* every policy and every bound: no signature pays out more often than it  *)
(* says, and the capsule implements the standing authority; no settlement  *)
(* pays out what the clone does not hold, no approval outlives its call    *)
(* and the recipient of a payout is paid its floor.                        *)
(*                                                                         *)
(* The first argument is about storage: every step of the clone is         *)
(* one of five kinds as far as the authorization storage is concerned      *)
(* (Opens, Continues, OwnerActs, Completes, Undone, or it leaves it        *)
(* alone), and AuthorityInv is preserved by each kind.                     *)
(***************************************************************************)
EXTENDS OpenZapProperties, TLAPS

(* A transaction starts: the intent was admissible and one use of it is     *)
(* consumed.                                                                *)
Opens(i) ==
    /\ pc = "idle" /\ pc' = "step"
    /\ frame'.intent = i /\ frame'.before.auth = auth
    /\ {"intent", "before"} \subseteq DOMAIN frame'
    /\ i.key \notin auth.nonceUsed /\ ~auth.halted
    /\ i.validAfter <= now /\ now <= i.deadline
    /\ \/ i.kind \in SeriesKinds /\ i.maxRuns > 0 /\ Due(i) /\ auth' = ConsumeRun(i)
       \/ i.kind \notin SeriesKinds /\ auth' = ConsumeNonce(i)
    /\ UNCHANGED <<now, uses, lastUse>>

(* It goes on: the frame keeps its intent and its starting point. *)
Continues ==
    /\ pc # "idle" /\ pc' \in {"step", "adapter", "settle", "stake", "staking"}
    /\ DOMAIN frame' = DOMAIN frame
    /\ frame'.intent = frame.intent /\ frame'.before = frame.before
    /\ UNCHANGED <<now, auth, uses, lastUse>>

Completes ==
    /\ pc # "idle" /\ pc' = "idle"
    /\ uses' = [uses EXCEPT ![frame.intent] = @ + 1]
    /\ lastUse' = [lastUse EXCEPT ![frame.intent] = now]
    /\ UNCHANGED <<now, auth>>

Undone ==
    /\ pc # "idle" /\ pc' = "idle"
    /\ auth' = frame.before.auth
    /\ UNCHANGED <<now, uses, lastUse>>

(* The owner only ever takes authority away. *)
OwnerActs ==
    /\ auth' \in Auths
    /\ auth'.series = auth.series
    /\ auth.nonceUsed \subseteq auth'.nonceUsed
    /\ auth.halted => auth'.halted
    /\ UNCHANGED <<now, pc, frame, uses, lastUse>>

TimeAdvances ==
    /\ pc = "idle" /\ pc' = "idle"
    /\ now < MaxTime /\ now' = now + 1
    /\ UNCHANGED <<auth, uses, lastUse>>

(* What the five entry points have in common.                               *)
LEMMA EnterOpens ==
    ASSUME NEW i \in Intents, NEW tx, NEW c, NEW spot, NEW stackSpot,
           Admissible(i, tx), Enter(i, tx, c, spot, stackSpot),
           \/ i.kind \in SeriesKinds /\ i.maxRuns > 0 /\ Due(i) /\ c = ConsumeRun(i)
           \/ i.kind \notin SeriesKinds /\ c = ConsumeNonce(i)
    PROVE  Opens(i)
BY DEF Enter, Admissible, Opens

(* Every step of the capsule is of one of these kinds. *)
LEMMA StepKinds ==
    ASSUME AuthorityTyped, [Next]_vars
    PROVE  \/ \E i \in Intents : Opens(i)
           \/ Continues
           \/ Completes
           \/ Undone
           \/ OwnerActs
           \/ TimeAdvances
<1>1. CASE Submit
  <2>1. PICK i \in Intents, tx \in Submissions :
            \/ Execute(i, tx) \/ ExecuteRecurring(i, tx) \/ ExecuteRecurringRelative(i, tx)
            \/ ExecuteRecurringStack(i, tx) \/ ExecuteTrigger(i, tx)
    BY <1>1 DEF Submit
  <2>2. CASE Execute(i, tx)
    BY <2>2, EnterOpens DEF Execute, SeriesKinds
  <2>3. CASE ExecuteRecurring(i, tx)
    BY <2>3, EnterOpens DEF ExecuteRecurring, Scheduled, SeriesKinds
  <2>4. CASE ExecuteRecurringRelative(i, tx)
    BY <2>4, EnterOpens DEF ExecuteRecurringRelative, Scheduled, SeriesKinds
  <2>5. CASE ExecuteRecurringStack(i, tx)
    BY <2>5, EnterOpens DEF ExecuteRecurringStack, Scheduled, SeriesKinds
  <2>6. CASE ExecuteTrigger(i, tx)
    BY <2>6, EnterOpens DEF ExecuteTrigger, SeriesKinds
  <2>7. QED  BY <2>1, <2>2, <2>3, <2>4, <2>5, <2>6
<1>2. CASE Run
  <2>1. CASE CallAdapter
    BY <2>1 DEF CallAdapter, Continues
  <2>2. CASE \E spent \in Pulls, got \in Yields, p \in [Sources -> Prices] : AdapterReturns(spent, got, p)
    BY <2>2 DEF AdapterReturns, Continues
  <2>3. CASE SettleOneShot
    BY <2>3 DEF SettleOneShot, Return, Completes
  <2>4. CASE SettleWithExecutorFee
    BY <2>4 DEF SettleWithExecutorFee, Return, Completes
  <2>5. CASE SettleStack
    BY <2>5 DEF SettleStack, Continues
  <2>6. CASE StakeDirectly
    BY <2>6 DEF StakeDirectly, Return, Completes
  <2>7. CASE CallZAPSAdapter
    BY <2>7 DEF CallZAPSAdapter, Continues
  <2>8. CASE \E spent \in Pulls, got \in Yields, p \in [Sources -> Prices] : ZAPSAdapterReturns(spent, got, p)
    BY <2>8 DEF ZAPSAdapterReturns, Return, Completes
  <2>9. CASE Revert
    BY <2>9 DEF Revert, Undone
  <2>10. QED  BY <1>2, <2>1, <2>2, <2>3, <2>4, <2>5, <2>6, <2>7, <2>8, <2>9 DEF Run
<1>3. CASE OwnerCalls
  <2>1. CASE HaltPolicy
    BY <2>1 DEF HaltPolicy, OwnerActs, AuthorityTyped, Auths
  <2>2. CASE \E k \in Keys : InvalidateNonce(k)
    BY <2>2 DEF InvalidateNonce, OwnerActs, AuthorityTyped, Auths
  <2>3. CASE \E list \in ExitLists : EmergencyExit(list)
    BY <2>3 DEF EmergencyExit, OwnerActs, AuthorityTyped
  <2>4. QED  BY <1>3, <2>1, <2>2, <2>3 DEF OwnerCalls
<1>4. CASE Environment
  <2>1. CASE Tick
    BY <2>1 DEF Tick, TimeAdvances
  <2>2. CASE ~Tick
    BY <1>4, <2>2 DEF Environment, Fund, ReceiveNative, SetAllowed, MarketMoves, OwnerActs, AuthorityTyped
  <2>3. QED  BY <2>1, <2>2
<1>5. CASE UNCHANGED vars
  BY <1>5 DEF vars, OwnerActs, AuthorityTyped
<1>6. QED  BY <1>1, <1>2, <1>3, <1>4, <1>5 DEF Next

----------------------------------------------------------------------------
(* Consuming a run or a nonce, in terms of the fields that matter. *)
LEMMA ConsumeRunFacts ==
    ASSUME AuthorityTyped, NEW i \in Intents
    PROVE  /\ ConsumeRun(i) \in Auths
           /\ ConsumeRun(i).series[i.key].runs = auth.series[i.key].runs + 1
           /\ ConsumeRun(i).series[i.key].lastRun = now
           /\ \A k \in Keys : k # i.key => ConsumeRun(i).series[k] = auth.series[k]
           /\ auth.nonceUsed \subseteq ConsumeRun(i).nonceUsed
           /\ auth.series[i.key].runs + 1 = i.maxRuns => i.key \in ConsumeRun(i).nonceUsed
           /\ ConsumeRun(i).halted = auth.halted
  <1>1. i.key \in Keys
    BY DEF Keys
  <1>2. auth.series[i.key].runs + 1 \in Nat /\ now \in Nat
    BY <1>1, IntentsTyped DEF AuthorityTyped, Auths
  <1>3. QED
    BY <1>1, <1>2 DEF ConsumeRun, AuthorityTyped, Auths

(* Consuming a nonce spends that nonce and nothing else.                    *)
LEMMA ConsumeNonceFacts ==
    ASSUME AuthorityTyped, NEW i \in Intents
    PROVE  /\ ConsumeNonce(i) \in Auths
           /\ ConsumeNonce(i).series = auth.series
           /\ ConsumeNonce(i).nonceUsed = auth.nonceUsed \cup {i.key}
           /\ ConsumeNonce(i).halted = auth.halted
BY DEF ConsumeNonce, AuthorityTyped, Auths, Keys

(* Every step keeps the clone's storage and the history typed.              *)
LEMMA TypedStep ==
    ASSUME AuthorityTyped, [Next]_vars
    PROVE  AuthorityTyped'
  <1>1. ASSUME NEW i \in Intents, Opens(i) PROVE AuthorityTyped'
    <2>1. auth' \in Auths
      BY <1>1, ConsumeRunFacts, ConsumeNonceFacts DEF Opens
    <2>2. QED  BY <1>1, <2>1 DEF Opens, AuthorityTyped
  <1>2. CASE Continues
    BY <1>2 DEF Continues, AuthorityTyped
  <1>3. CASE Completes
    BY <1>3, IntentsTyped DEF Completes, AuthorityTyped
  <1>4. CASE Undone
    BY <1>4 DEF Undone, AuthorityTyped
  <1>5. CASE OwnerActs
    BY <1>5 DEF OwnerActs, AuthorityTyped
  <1>6. CASE TimeAdvances
    BY <1>6, IntentsTyped DEF TimeAdvances, AuthorityTyped
  <1>7. QED  BY <1>1, <1>2, <1>3, <1>4, <1>5, <1>6, StepKinds

----------------------------------------------------------------------------
(* Taking authority away leaves every account in order. *)
LEMMA OwnerKeepsAccounts ==
    ASSUME NEW a, NEW b, NEW i \in Intents, NEW n, NEW t,
           AccountsFor(a, i, n, t), b.series = a.series, a.nonceUsed \subseteq b.nonceUsed
    PROVE  AccountsFor(b, i, n, t)
BY DEF AccountsFor

(* A nonce consumed for i: all accounts stay in order, and one more payout  *)
(* of i is accounted for.                                                   *)
LEMMA NonceAccounts ==
    ASSUME AuthorityTyped, History(auth), NEW i \in Intents,
           i.kind \notin SeriesKinds, i.key \notin auth.nonceUsed
    PROVE  /\ \A j \in Intents : AccountsFor(ConsumeNonce(i), j, uses[j], lastUse[j])
           /\ AccountsFor(ConsumeNonce(i), i, uses[i] + 1, now)
  <1>1. \A j \in Intents : AccountsFor(ConsumeNonce(i), j, uses[j], lastUse[j])
    BY ConsumeNonceFacts, OwnerKeepsAccounts DEF History
  <1>2. uses[i] = 0
    BY DEF History, AccountsFor, AuthorityTyped
  <1>3. QED  BY <1>1, <1>2, ConsumeNonceFacts DEF AccountsFor

(* The same for one run of a series.  This is where SeriesAgree is needed:  *)
(* the counter of i.key is also the counter of every j on that identifier,  *)
(* and the equality test against i.maxRuns must close the series for j too. *)
LEMMA RunAccounts ==
    ASSUME SeriesAgree, AuthorityTyped, History(auth), NoneInFuture, NEW i \in Intents,
           i.kind \in SeriesKinds, i.maxRuns > 0, i.key \notin auth.nonceUsed
    PROVE  /\ \A j \in Intents : AccountsFor(ConsumeRun(i), j, uses[j], lastUse[j])
           /\ AccountsFor(ConsumeRun(i), i, uses[i] + 1, now)
  <1> DEFINE runs == auth.series[i.key].runs
  <1>1. i.key \in Keys /\ runs \in Nat /\ i.maxRuns \in Nat /\ uses[i] \in Nat
    BY IntentsTyped DEF Keys, AuthorityTyped, Auths
  <1>2. uses[i] <= runs /\ runs <= i.maxRuns /\ runs # i.maxRuns
    <2>1. AccountsFor(auth, i, uses[i], lastUse[i])
      BY DEF History
    <2>2. QED  BY <1>1, <2>1 DEF AccountsFor
  <1>3. AccountsFor(ConsumeRun(i), i, uses[i] + 1, now)
    <2>1. /\ ConsumeRun(i).series[i.key].runs = runs + 1
          /\ ConsumeRun(i).series[i.key].lastRun = now
          /\ runs + 1 = i.maxRuns => i.key \in ConsumeRun(i).nonceUsed
      BY ConsumeRunFacts
    <2>2. now \in Nat /\ uses[i] + 1 <= runs + 1 /\ runs + 1 <= i.maxRuns
      BY <1>1, <1>2, IntentsTyped DEF AuthorityTyped
    <2>3. QED  BY <2>1, <2>2 DEF AccountsFor
  <1>4. ASSUME NEW j \in Intents
        PROVE  AccountsFor(ConsumeRun(i), j, uses[j], lastUse[j])
    <2>1. AccountsFor(auth, j, uses[j], lastUse[j]) /\ j.key \in Keys
      BY DEF History, Keys
    <2>2. CASE j.kind \notin SeriesKinds
      BY <2>1, <2>2, ConsumeRunFacts DEF AccountsFor
    <2>3. CASE j.kind \in SeriesKinds /\ j.key # i.key
      BY <2>1, <2>3, ConsumeRunFacts DEF AccountsFor
    <2>4. CASE j.kind \in SeriesKinds /\ j.key = i.key
      <3>1. j.maxRuns = i.maxRuns
        BY <2>4 DEF SeriesAgree
      <3>2. uses[j] \in Nat /\ lastUse[j] \in Nat /\ now \in Nat
        BY IntentsTyped DEF AuthorityTyped
      <3>3. uses[j] > 0 => lastUse[j] <= now
        BY DEF NoneInFuture
      <3>4. QED
        BY <1>1, <1>2, <2>1, <2>4, <3>1, <3>2, <3>3, ConsumeRunFacts DEF AccountsFor
    <2>5. QED  BY <2>2, <2>3, <2>4
  <1>5. QED  BY <1>3, <1>4

----------------------------------------------------------------------------
(* An empty history agrees with fresh storage.                              *)
LEMMA AuthorityInit == Init => AuthorityInv
  <1> SUFFICES ASSUME Init PROVE AuthorityInv
    OBVIOUS
  <1>1. AuthorityTyped
    BY IntentsTyped DEF Init, AuthorityTyped, Auths
  <1>2. History(auth)
    BY IntentsTyped DEF Init, History, AccountsFor, Keys
  <1>3. NoneInFuture
    BY DEF Init, NoneInFuture
  <1>4. QED  BY <1>1, <1>2, <1>3 DEF Init, AuthorityInv

(* Every kind of step keeps history and storage in agreement.               *)
LEMMA AuthorityStep ==
    ASSUME SeriesAgree, AuthorityInv, [Next]_vars
    PROVE  AuthorityInv'
  <1> USE DEF AuthorityInv
  <1>1. AuthorityTyped'
    BY TypedStep
  <1>2. ASSUME NEW i \in Intents, Opens(i) PROVE AuthorityInv'
    <2>1. /\ History(auth)'
          /\ AccountsFor(auth', i, uses[i] + 1, now)
      BY <1>2, NonceAccounts, RunAccounts DEF Opens, History
    <2>2. NoneInFuture'
      BY <1>2 DEF Opens, NoneInFuture
    <2>3. uses[i] > 0 => now >= lastUse[i] + i.interval
      <3>1. CASE i.kind \in SeriesKinds
        <4>1. AccountsFor(auth, i, uses[i], lastUse[i]) /\ i.key \in Keys
          BY DEF History, Keys
        <4>2. Due(i)
          BY <1>2, <3>1 DEF Opens
        <4>3. QED
          BY <3>1, <4>1, <4>2, IntentsTyped DEF AccountsFor, Due, AuthorityTyped, Auths
      <3>2. CASE i.kind \notin SeriesKinds
        BY <1>2, <3>2 DEF Opens, History, AccountsFor, AuthorityTyped
      <3>3. QED  BY <3>1, <3>2
    <2>4. auth.nonceUsed \subseteq auth'.nonceUsed
      BY <1>2, ConsumeRunFacts, ConsumeNonceFacts DEF Opens
    <2>5. Pending'
      BY <1>2, <2>1, <2>3, <2>4 DEF Opens, Pending, History
    <2>6. QED  BY <1>1, <2>1, <2>2, <2>5
  <1>3. CASE Continues
    BY <1>1, <1>3 DEF Continues, History, NoneInFuture, Pending
  <1>4. CASE Completes
    <2> DEFINE i == frame.intent
    <2>1. i \in Intents /\ AccountsFor(auth, i, uses[i] + 1, now)
      BY <1>4 DEF Completes, Pending, AuthorityTyped
    <2>2. History(auth)'
      BY <1>4, <2>1 DEF Completes, History, AuthorityTyped
    <2>3. NoneInFuture'
      BY <1>4, IntentsTyped DEF Completes, NoneInFuture, AuthorityTyped
    <2>4. QED  BY <1>1, <1>4, <2>2, <2>3 DEF Completes
  <1>5. CASE Undone
    BY <1>1, <1>5 DEF Undone, History, NoneInFuture, Pending
  <1>6. CASE OwnerActs
    <2>1. History(auth)'
      BY <1>6, OwnerKeepsAccounts DEF OwnerActs, History
    <2>2. NoneInFuture'
      BY <1>6 DEF OwnerActs, NoneInFuture
    <2>3. ASSUME pc # "idle" PROVE Pending'
      <3>1. Pending /\ frame.intent \in Intents
        BY <2>3 DEF AuthorityTyped
      <3>2. AccountsFor(auth', frame.intent, uses[frame.intent] + 1, now)
        BY <1>6, <3>1, OwnerKeepsAccounts DEF OwnerActs, Pending
      <3>3. QED  BY <1>6, <3>1, <3>2 DEF OwnerActs, Pending, History
    <2>4. QED  BY <1>1, <1>6, <2>1, <2>2, <2>3 DEF OwnerActs
  <1>7. CASE TimeAdvances
    BY <1>1, <1>7, IntentsTyped DEF TimeAdvances, History, NoneInFuture, AuthorityTyped
  <1>8. QED  BY <1>2, <1>3, <1>4, <1>5, <1>6, <1>7, StepKinds

(* The inductive invariant holds of every behaviour of the capsule. *)
THEOREM AuthorityInvariant ==
    ASSUME SeriesAgree
    PROVE  Spec => []AuthorityInv
  <1>1. Init => AuthorityInv
    BY AuthorityInit
  <1>2. AuthorityInv /\ [Next]_vars => AuthorityInv'
    BY AuthorityStep
  <1>3. QED  BY <1>1, <1>2, PTL DEF Spec

(* Whatever the submitters, adapters, reverts and cancellations do, an      *)
(* intent pays out at most maxRuns times, or once when it is not a series   *)
(* (the consume-first lines and the exhaustion test of the execute          *)
(* functions), provided series on one identifier agree on its length.       *)
THEOREM BudgetTheorem ==
    ASSUME SeriesAgree
    PROVE  Spec => []RunsWithinBudget
  <1>1. AuthorityInv => RunsWithinBudget
    BY IntentsTyped DEF AuthorityInv, AuthorityTyped, Auths, History, AccountsFor,
                        RunsWithinBudget, Budget, Keys
  <1>2. QED  BY <1>1, AuthorityInvariant, PTL

(* Every behaviour of the capsule, seen through the committed storage, is a *)
(* behaviour of the standing authority: windows, cadence and limits hold of *)
(* each payout, each transaction is one indivisible use, and no cancelled   *)
(* or halted grant is ever used again.                                      *)
THEOREM RefinementTheorem ==
    ASSUME SeriesAgree
    PROVE  Spec => ImplementsAuthority
  <1>1. Init => Authority!GrantsInit
    BY DEF Init, Authority!GrantsInit, LiveGrants, Committed
  <1>2. ASSUME AuthorityInv, AuthorityInv', [Next]_vars
        PROVE  [Authority!GrantsNext]_(Authority!grantVars)
    <2> USE DEF AuthorityInv
    <2>1. ASSUME NEW i \in Intents, Opens(i) PROVE Authority!Revoke
      BY <2>1 DEF Opens, Authority!Revoke, LiveGrants, Committed
    <2>2. ASSUME Continues PROVE Authority!Revoke
      BY <2>2 DEF Continues, Authority!Revoke, LiveGrants, Committed
    <2>3. ASSUME Completes PROVE \E g \in Intents : Authority!Use(g)
      <3> DEFINE i == frame.intent
      <3>0. Pending
        BY <1>2, <2>3 DEF Completes
      <3>1. i \in Intents /\ uses[i] \in Nat /\ AccountsFor(auth, i, uses[i] + 1, now)
        BY <1>2, <2>3, <3>0 DEF Completes, Pending, AuthorityTyped
      <3>2. i \in LiveGrants /\ LiveGrants' \subseteq LiveGrants
        BY <2>3, <3>0, <3>1 DEF Completes, Pending, LiveGrants, Committed
      <3>3. uses[i] < Budget(i)
        <4>1. i.key \in Keys /\ i.maxRuns \in Nat
          BY <3>1, IntentsTyped DEF Keys
        <4>2. auth.series[i.key].runs \in Nat
          BY <1>2, <4>1 DEF AuthorityTyped, Auths
        <4>3. QED  BY <3>1, <4>1, <4>2 DEF AccountsFor, Budget
      <3>4. Authority!Use(i)
        BY <2>3, <3>0, <3>1, <3>2, <3>3 DEF Completes, Pending, Authority!Use
      <3>5. QED  BY <3>1, <3>4
    <2>4. ASSUME Undone PROVE Authority!Revoke
      BY <2>4 DEF Undone, Authority!Revoke, LiveGrants, Committed
    <2>5. ASSUME OwnerActs PROVE Authority!Revoke
      BY <2>5 DEF OwnerActs, Authority!Revoke, LiveGrants, Committed
    <2>6. ASSUME TimeAdvances PROVE Authority!TimePasses
      BY <2>6 DEF TimeAdvances, Authority!TimePasses, LiveGrants, Committed
    <2>7. QED
      BY <1>2, <2>1, <2>2, <2>3, <2>4, <2>5, <2>6, StepKinds DEF Authority!GrantsNext
  <1>3. QED
    BY <1>1, <1>2, AuthorityInvariant, PTL DEF Spec, ImplementsAuthority, Authority!GrantsSpec

----------------------------------------------------------------------------
(* The money: what a transaction has moved, owes and approved.              *)

(* A fraction of an amount is an amount no greater than it: every fee,      *)
(* share and slice of the settlement.                                       *)
LEMMA FractionBounded ==
    ASSUME NEW a \in Nat, NEW b \in Nat, NEW c \in Nat \ {0}, b <= c
    PROVE  MulDiv(a, b, c) \in 0..a
<1> DEFINE q == (a * b) \div c
<1>1. a * b \in Nat /\ a * b <= a * c
  OBVIOUS
<1>2. q \in Nat /\ c * q <= a * b
  BY <1>1
<1>3. ASSUME q > a PROVE FALSE
  <2>1. q >= a + 1
    BY <1>2, <1>3
  <2>2. c * q >= c * (a + 1)
    BY <1>2, <2>1
  <2>3. c * (a + 1) = c * a + c /\ c * a = a * c
    OBVIOUS
  <2>4. QED  BY <1>1, <1>2, <2>2, <2>3
<1>4. q \in 0..a
  BY <1>2, <1>3
<1>5. QED  BY <1>4 DEF MulDiv

(* A transfer the sender can afford keeps every balance an amount, and      *)
(* lowers none but the sender's.                                            *)
LEMMA MoveTyped ==
    ASSUME NEW b \in Balances, NEW from \in Holders, NEW to \in Holders,
           NEW t \in Tokens, NEW n \in Nat, n <= b[from][t]
    PROVE  /\ Move(b, from, to, t, n) \in Balances
           /\ Move(b, from, to, t, n)[from][t] >= b[from][t] - n
           /\ \A h \in Holders, u \in Tokens :
                 h # from \/ u # t => Move(b, from, to, t, n)[h][u] >= b[h][u]
<1> DEFINE debited == [b EXCEPT ![from][t] = @ - n]
           after == Move(b, from, to, t, n)
<1>1. b \in [Holders -> [Tokens -> Nat]]
  BY DEF Balances
<1>2. b[from] \in [Tokens -> Nat] /\ b[from][t] - n \in Nat
  BY <1>1
<1>3. debited = [b EXCEPT ![from] = [b[from] EXCEPT ![t] = b[from][t] - n]]
  OBVIOUS
<1>4. debited \in [Holders -> [Tokens -> Nat]]
  BY <1>1, <1>2, <1>3
<1>5. /\ debited[from][t] = b[from][t] - n
      /\ \A h \in Holders, u \in Tokens : h # from \/ u # t => debited[h][u] = b[h][u]
  BY <1>1, <1>3
<1>6. after = [debited EXCEPT ![to] = [debited[to] EXCEPT ![t] = debited[to][t] + n]]
  BY DEF Move
<1> HIDE DEF debited, after
<1>7. debited[to] \in [Tokens -> Nat] /\ debited[to][t] + n \in Nat
  BY <1>4
<1>8. after \in [Holders -> [Tokens -> Nat]]
  BY <1>4, <1>6, <1>7
<1>9. after[to][t] = debited[to][t] + n
  BY <1>4, <1>6
<1>10. \A h \in Holders, u \in Tokens : h # to \/ u # t => after[h][u] = debited[h][u]
  BY <1>4, <1>6
<1>11. \A h \in Holders, u \in Tokens : after[h][u] >= debited[h][u]
  BY <1>4, <1>8, <1>9, <1>10
<1>12. QED  BY <1>2, <1>4, <1>5, <1>8, <1>11 DEF after, Balances

----------------------------------------------------------------------------
(* What the clone's own accounting operators do to the ledger. *)

(* Everyone a settlement pays holds a balance.                              *)
LEMMA Parties ==
    /\ Zap \in Holders /\ Owner \in Holders /\ Recipient \in Holders
    /\ Pot \in Holders /\ Venue \in Holders /\ Executors \subseteq Holders
BY DEF Holders

(* A transfer within the ledger.                                            *)
LEMMA Transferred ==
    ASSUME NEW c \in Assets, NEW from \in Holders, NEW to \in Holders,
           NEW t \in Tokens, NEW n \in Nat, n <= c.bal[from][t]
    PROVE  LET d == [c EXCEPT !.bal = Move(@, from, to, t, n)]
           IN  /\ d \in Assets
               /\ d.bal = Move(c.bal, from, to, t, n)
               /\ d.bal[from][t] >= c.bal[from][t] - n
               /\ \A h \in Holders, u \in Tokens : h # from \/ u # t => d.bal[h][u] >= c.bal[h][u]
               /\ d.allowance = c.allowance
<1>1. c.bal \in Balances
  BY DEF Assets
<1>2. Move(c.bal, from, to, t, n) \in Balances
  BY <1>1, MoveTyped
<1>3. QED  BY <1>1, <1>2, MoveTyped DEF Assets

(* The pot's leg takes no more than the contribution from the clone.        *)
LEMMA Contributed ==
    ASSUME NEW c \in Assets, NEW t \in Tokens, NEW n \in Nat, n <= c.bal[Zap][t]
    PROVE  LET d == ContributeTo(c, t, n)
           IN  /\ d \in Assets
               /\ d.bal[Zap][t] >= c.bal[Zap][t] - n
               /\ \A u \in Tokens : u # t => d.bal[Zap][u] >= c.bal[Zap][u]
               /\ d.allowance = c.allowance
<1> DEFINE m == Move(c.bal, Zap, Pot, t, n)
           credited == [c.credited EXCEPT ![t] = @ + n]
<1>1. /\ m \in Balances
      /\ m[Zap][t] >= c.bal[Zap][t] - n
      /\ \A u \in Tokens : u # t => m[Zap][u] >= c.bal[Zap][u]
  BY Parties, MoveTyped DEF Assets
<1>2. credited \in [Tokens -> Nat]
  BY DEF Assets
<1>3. /\ ContributeTo(c, t, n).bal = m /\ ContributeTo(c, t, n).allowance = c.allowance
      /\ ContributeTo(c, t, n) = [c EXCEPT !.bal = m, !.credited = credited]
  BY DEF ContributeTo, Assets
<1> HIDE DEF m, credited
<1>4. ContributeTo(c, t, n) \in Assets
  BY <1>1, <1>2, <1>3 DEF Assets
<1>5. QED  BY <1>1, <1>3, <1>4

(* Both legs of the fee together take no more than the fee.                 *)
LEMMA FeePaid ==
    ASSUME NEW c \in Assets, NEW t \in Tokens, NEW sender \in Executors,
           NEW fee \in Nat, fee <= c.bal[Zap][t]
    PROVE  LET d == PayFee(c, t, sender, fee)
           IN  /\ d \in Assets
               /\ d.bal[Zap][t] >= c.bal[Zap][t] - fee
               /\ \A u \in Tokens : u # t => d.bal[Zap][u] >= c.bal[Zap][u]
               /\ d.allowance = c.allowance
<1> DEFINE share == ExecutorShare(fee)
           paid == [c EXCEPT !.bal = Move(@, Zap, sender, t, share)]
<1>1. share \in 0..fee
  <2>1. EXECUTOR_SHARE_BPS \in Nat /\ EXECUTOR_SHARE_BPS <= BPS /\ BPS \in Nat \ {0}
    BY AmountsTyped
  <2>2. MulDiv(fee, EXECUTOR_SHARE_BPS, BPS) \in 0..fee
    BY <2>1, FractionBounded
  <2>3. QED  BY <2>2 DEF ExecutorShare
<1>2. c.bal[Zap][t] \in Nat
  BY Parties DEF Assets, Balances
<1>3. share <= c.bal[Zap][t] /\ sender \in Holders
  BY <1>1, <1>2, Parties
<1> HIDE DEF share
<1>4. /\ paid \in Assets
      /\ paid.bal[Zap][t] >= c.bal[Zap][t] - share
      /\ \A u \in Tokens : u # t => paid.bal[Zap][u] >= c.bal[Zap][u]
      /\ paid.allowance = c.allowance
  BY <1>1, <1>3, Parties, Transferred
<1> HIDE DEF paid
<1>5. \A u \in Tokens : paid.bal[Zap][u] \in Nat /\ c.bal[Zap][u] \in Nat
  BY <1>4, Parties DEF Assets, Balances
<1>6. fee - share \in Nat /\ fee - share <= paid.bal[Zap][t]
  BY <1>1, <1>4, <1>5
<1>7. PayFee(c, t, sender, fee) = ContributeTo(paid, t, fee - share)
  BY DEF PayFee, share, paid
<1> DEFINE d == ContributeTo(paid, t, fee - share)
<1>8. /\ d \in Assets
      /\ d.bal[Zap][t] >= paid.bal[Zap][t] - (fee - share)
      /\ \A u \in Tokens : u # t => d.bal[Zap][u] >= paid.bal[Zap][u]
      /\ d.allowance = paid.allowance
  BY <1>4, <1>6, Contributed
<1> HIDE DEF d
<1>9. \A u \in Tokens : d.bal[Zap][u] \in Nat
  BY <1>8, Parties DEF Assets, Balances
<1>10. d.bal[Zap][t] >= c.bal[Zap][t] - fee
  BY <1>1, <1>4, <1>5, <1>8, <1>9
<1>11. \A u \in Tokens : u # t => d.bal[Zap][u] >= c.bal[Zap][u]
  BY <1>4, <1>5, <1>8, <1>9
<1>12. QED  BY <1>4, <1>7, <1>8, <1>10, <1>11 DEF d

(* An approval changes one allowance and no balance.                        *)
LEMMA Approved ==
    ASSUME NEW c \in Assets, NEW a \in Adapters, NEW t \in Tokens, NEW n \in Nat
    PROVE  LET d == [c EXCEPT !.allowance[a][t] = n]
           IN  /\ d \in Assets
               /\ d.bal = c.bal
               /\ \A b \in Adapters, u \in Tokens :
                     d.allowance[b][u] = IF b = a /\ u = t THEN n ELSE c.allowance[b][u]
<1> DEFINE row == [c.allowance[a] EXCEPT ![t] = n]
           d == [c EXCEPT !.allowance[a][t] = n]
<1>1. c.allowance \in [Adapters -> [Tokens -> Nat]]
  BY DEF Assets
<1>2. row \in [Tokens -> Nat] /\ \A u \in Tokens : row[u] = IF u = t THEN n ELSE c.allowance[a][u]
  BY <1>1
<1>3. d = [c EXCEPT !.allowance = [c.allowance EXCEPT ![a] = row]]
  BY <1>1 DEF Assets
<1> HIDE DEF row, d
<1>4. [c.allowance EXCEPT ![a] = row] \in [Adapters -> [Tokens -> Nat]]
  BY <1>1, <1>2
<1>5. d \in Assets /\ d.bal = c.bal /\ d.allowance = [c.allowance EXCEPT ![a] = row]
  BY <1>3, <1>4 DEF Assets
<1>6. QED  BY <1>1, <1>2, <1>5 DEF d

(* An adapter's answer: it pulls what it was approved at most, and the      *)
(* approval is withdrawn.                                                   *)
LEMMA Exchanged ==
    ASSUME assets \in Assets, NEW a \in Adapters, NEW tokenIn \in Tokens, NEW tokenOut \in Tokens,
           NEW spent \in Nat, spent <= BalanceOf(Zap, tokenIn),
           NEW got \in Nat, got <= BalanceOf(Venue, tokenOut)
    PROVE  LET d == Exchange(a, tokenIn, spent, tokenOut, got)
           IN  /\ d \in Assets
               /\ \A b \in Adapters, u \in Tokens :
                     d.allowance[b][u] = IF b = a /\ u = tokenIn THEN 0 ELSE assets.allowance[b][u]
<1> DEFINE sold == [assets EXCEPT !.bal = Move(@, Zap, Venue, tokenIn, spent)]
           bought == [sold EXCEPT !.bal = Move(@, Venue, Zap, tokenOut, got)]
           d == Exchange(a, tokenIn, spent, tokenOut, got)
<1>1. /\ sold \in Assets
      /\ \A u \in Tokens : sold.bal[Venue][u] >= assets.bal[Venue][u]
      /\ sold.allowance = assets.allowance
  BY PartiesApart, Parties, Transferred DEF BalanceOf
<1>2. \A u \in Tokens : sold.bal[Venue][u] \in Nat /\ assets.bal[Venue][u] \in Nat
  BY <1>1, Parties DEF Assets, Balances
<1>3. got <= sold.bal[Venue][tokenOut]
  BY <1>1, <1>2 DEF BalanceOf
<1> HIDE DEF sold
<1>4. bought \in Assets /\ bought.allowance = assets.allowance
  BY <1>1, <1>3, Parties, Transferred
<1>5. d = [bought EXCEPT !.allowance[a][tokenIn] = 0]
  BY DEF Exchange, sold, Assets
<1> HIDE DEF bought, d
<1>6. QED  BY <1>4, <1>5, Approved DEF d
----------------------------------------------------------------------------
(* Typing of what the frame holds. *)

(* What an open frame refers to.                                            *)
LEMMA InTransaction ==
    ASSUME TypeOK, pc # "idle"
    PROVE  /\ frame \in Frames
           /\ frame.intent \in Intents /\ frame.intent.outAsset \in Tokens
           /\ frame.sender \in Executors
           /\ \A h \in Holders, t \in Tokens : BalanceOf(h, t) \in Nat
<1>1. frame \in Frames /\ assets \in Assets
  BY DEF TypeOK
<1>2. frame.intent \in Intents /\ frame.sender \in Executors
  BY <1>1 DEF Frames
<1>3. \A h \in Holders, t \in Tokens : BalanceOf(h, t) \in Nat
  BY <1>1 DEF Assets, Balances, BalanceOf
<1>4. QED  BY <1>1, <1>2, <1>3, AmountsTyped

(* The measured input asset is a token.                                     *)
LEMMA InAssetTyped ==
    ASSUME NEW i \in Intents
    PROVE  InAsset(i) \in Tokens
<1>1. CASE i.source = NoOne
  BY <1>1, AmountsTyped DEF InAsset
<1>2. CASE i.source # NoOne
  <2>1. i.source \in Sources
    BY <1>2, AmountsTyped
  <2>2. Currency0[i.source] \in Tokens /\ Currency1[i.source] \in Tokens
    BY <2>1, AmountsTyped
  <2>3. QED  BY <1>2, <2>2 DEF InAsset, Funding
<1>3. QED  BY <1>1, <1>2

(* Consumption keeps storage typed.                                         *)
LEMMA ConsumedTyped ==
    ASSUME TypeOK, NEW i \in Intents
    PROVE  ConsumeRun(i) \in Auths /\ ConsumeNonce(i) \in Auths
<1>1. auth \in Auths /\ now \in Nat /\ i.key \in Keys
  BY IntentsTyped DEF TypeOK, Keys
<1>2. auth.series \in [Keys -> [runs : Nat, lastRun : Nat]] /\ auth.nonceUsed \in SUBSET Keys
  BY <1>1 DEF Auths
<1>3. auth.series[i.key].runs + 1 \in Nat
  BY <1>1, <1>2
<1>4. ConsumeNonce(i) \in Auths
  BY <1>1 DEF ConsumeNonce, Auths
<1>5. [auth.series EXCEPT ![i.key] = [runs |-> auth.series[i.key].runs + 1, lastRun |-> now]]
         \in [Keys -> [runs : Nat, lastRun : Nat]]
  BY <1>1, <1>2, <1>3
<1>6. ConsumeRun(i) \in Auths
  BY <1>1, <1>2, <1>5 DEF ConsumeRun, Auths
<1>7. QED  BY <1>4, <1>6

(* A transaction opens on typed measurements, with no approval standing. *)
LEMMA EnterLedger ==
    ASSUME LedgerInv, NEW i \in Intents, NEW tx \in Submissions, NEW c \in Auths,
           NEW spot \in Nat, NEW stackSpot \in Nat, pc = "idle",
           i.kind = "stack" => i.stackBps <= BPS,
           Enter(i, tx, c, spot, stackSpot)
    PROVE  LedgerInv'
<1>1. TypeOK /\ NoResidualApproval
  BY DEF LedgerInv
<1>2. /\ assets \in Assets /\ auth \in Auths /\ price \in Spots
      /\ BalanceOf(Zap, InAsset(i)) \in Nat /\ BalanceOf(Zap, i.outAsset) \in Nat
  <2>1. assets \in Assets /\ auth \in Auths /\ price \in Spots
    BY <1>1 DEF TypeOK
  <2>2. InAsset(i) \in Tokens /\ i.outAsset \in Tokens /\ Zap \in Holders
    BY InAssetTyped, AmountsTyped, Parties
  <2>3. QED  BY <2>1, <2>2 DEF Assets, Balances, BalanceOf
<1>3. NoApprovals(assets)
  BY <1>1, pc = "idle" DEF NoResidualApproval, NoApprovals
<1>4. Len(Steps) \in Nat /\ Len(Steps) >= 1 /\ tx.sender \in Executors
  BY AmountsTyped
<1>5. 1 \in 1..(Len(Steps) + 1)
  BY <1>4
<1>6. [auth |-> auth, assets |-> assets, price |-> price] \in [auth : Auths, assets : Assets, price : Spots]
  BY <1>2
<1>7. frame' \in Frames
  BY <1>2, <1>4, <1>5, <1>6 DEF Enter, Frames
<1>8. /\ frame'.intent = i /\ frame'.step = 1 /\ frame'.before.assets = assets /\ pc' = "step"
      /\ auth' = c /\ assets' = assets
      /\ now' = now /\ price' = price /\ registry' = registry /\ uses' = uses /\ lastUse' = lastUse
  BY DEF Enter
<1>9. TypeOK'
  BY <1>1, <1>7, <1>8 DEF TypeOK
<1>10. NoResidualApproval'
  BY <1>3, <1>8 DEF NoResidualApproval, NoApprovals
<1>11. QED  BY <1>3, <1>4, <1>8, <1>9, <1>10 DEF LedgerInv, NoApprovals

(* A transaction returns with a typed ledger and no approval standing. *)
LEMMA ReturnLedger ==
    ASSUME LedgerInv, pc # "idle", Return(frame.intent),
           assets' \in Assets, NoApprovals(assets'), price' \in Spots
    PROVE  LedgerInv'
<1>1. TypeOK
  BY DEF LedgerInv
<1>2. frame.intent \in Intents /\ now \in Nat
  BY <1>1, InTransaction, IntentsTyped DEF TypeOK
<1>3. /\ uses' = [uses EXCEPT ![frame.intent] = @ + 1]
      /\ lastUse' = [lastUse EXCEPT ![frame.intent] = now]
      /\ pc' = "idle" /\ frame' = NoFrame
      /\ now' = now /\ registry' = registry /\ auth' = auth
  BY DEF Return
<1>4. uses' \in [Intents -> Nat] /\ lastUse' \in [Intents -> Nat]
  BY <1>1, <1>2, <1>3 DEF TypeOK
<1>5. TypeOK'
  BY <1>1, <1>3, <1>4 DEF TypeOK
<1>6. NoResidualApproval'
  BY DEF NoResidualApproval, NoApprovals
<1>7. QED  BY <1>3, <1>5, <1>6 DEF LedgerInv

----------------------------------------------------------------------------
(* The steps of a transaction, one lemma each. *)

(* Entering a run moves nothing.                                            *)
LEMMA SubmitLedger == ASSUME LedgerInv, Submit PROVE LedgerInv'
<1>1. PICK i \in Intents, tx \in Submissions :
          \/ Execute(i, tx) \/ ExecuteRecurring(i, tx) \/ ExecuteRecurringRelative(i, tx)
          \/ ExecuteRecurringStack(i, tx) \/ ExecuteTrigger(i, tx)
  BY DEF Submit
<1>2. ConsumeRun(i) \in Auths /\ ConsumeNonce(i) \in Auths
  BY ConsumedTyped DEF LedgerInv
<1>3. \A s \in registry.sources : price[s] \in Nat
  BY DEF LedgerInv, TypeOK, Spots
<1>4. CASE Execute(i, tx)
  BY <1>2, <1>4, EnterLedger DEF Execute, Admissible
<1>5. CASE ExecuteRecurring(i, tx)
  BY <1>2, <1>5, EnterLedger DEF ExecuteRecurring, Admissible
<1>6. CASE ExecuteRecurringRelative(i, tx)
  <2>1. price[i.source] \in Nat /\ pc = "idle" /\ i.kind # "stack"
    BY <1>3, <1>6 DEF ExecuteRecurringRelative, Admissible
  <2>2. Enter(i, tx, ConsumeRun(i), price[i.source], 0)
    BY <1>6 DEF ExecuteRecurringRelative
  <2>3. QED  BY <1>2, <2>1, <2>2, EnterLedger
<1>7. CASE ExecuteRecurringStack(i, tx)
  <2> DEFINE stackSpot == IF i.stackSource = NoOne THEN 0 ELSE price[i.stackSource]
  <2>1. price[i.source] \in Nat /\ pc = "idle"
    BY <1>3, <1>7 DEF ExecuteRecurringStack, Admissible
  <2>2. i.stackBps <= BPS
    <3>1. i.stackBps < BPS
      BY <1>7 DEF ExecuteRecurringStack, ValidStack
    <3>2. QED  BY <3>1, AmountsTyped
  <2>3. stackSpot \in Nat
    BY <1>3, <1>7 DEF ExecuteRecurringStack, ValidStack
  <2>4. Enter(i, tx, ConsumeRun(i), price[i.source], stackSpot)
    BY <1>7 DEF ExecuteRecurringStack
  <2> HIDE DEF stackSpot
  <2>5. QED  BY <1>2, <2>1, <2>2, <2>3, <2>4, EnterLedger
<1>8. CASE ExecuteTrigger(i, tx)
  BY <1>2, <1>8, EnterLedger DEF ExecuteTrigger, Admissible
<1>9. QED  BY <1>1, <1>4, <1>5, <1>6, <1>7, <1>8

(* The fields of a frozen step.                                             *)
LEMMA StepTyped ==
    ASSUME NEW k \in 1..Len(Steps)
    PROVE  Steps[k].adapter \in Adapters /\ Steps[k].tokenIn \in Tokens
           /\ Steps[k].amountIn \in Nat /\ Steps[k].tokenOut \in Tokens
<1> DEFINE S == [adapter : Adapters, tokenIn : Tokens, amountIn : Nat, tokenOut : Tokens]
<1>1. Steps \in Seq(S)
  BY AmountsTyped
<1> HIDE DEF S
<1>2. Steps[k] \in S
  BY <1>1
<1>3. QED  BY <1>2 DEF S

(* A step approves one adapter, just before it is called.                   *)
LEMMA CallAdapterLedger == ASSUME LedgerInv, CallAdapter PROVE LedgerInv'
<1> DEFINE s == Steps[frame.step]
           n == StepAmount(s)
<1>1. TypeOK /\ NoResidualApproval /\ pc = "step"
  BY DEF LedgerInv, CallAdapter
<1>2. frame \in Frames /\ assets \in Assets /\ frame.step \in 1..Len(Steps)
  <2>1. frame \in Frames /\ assets \in Assets
    BY <1>1 DEF TypeOK
  <2>2. frame.step \in 1..(Len(Steps) + 1) /\ frame.step <= Len(Steps) /\ Len(Steps) \in Nat
    BY <1>1, <2>1, AmountsTyped DEF Frames, LedgerInv
  <2>3. QED  BY <2>1, <2>2
<1>3. s.adapter \in Adapters /\ s.tokenIn \in Tokens /\ s.amountIn \in Nat
  BY <1>2, StepTyped
<1>4. n \in Nat
  BY <1>2, <1>3, Parties DEF StepAmount, BalanceOf, Assets, Balances
<1>5. assets' = [assets EXCEPT !.allowance[s.adapter][s.tokenIn] = n]
  BY DEF CallAdapter
<1>6. /\ pc' = "adapter" /\ frame' = frame /\ now' = now /\ price' = price /\ registry' = registry
      /\ auth' = auth /\ uses' = uses /\ lastUse' = lastUse
  BY DEF CallAdapter
<1> HIDE DEF n, s
<1>7. /\ assets' \in Assets
      /\ \A a \in Adapters, t \in Tokens :
            assets'.allowance[a][t] = IF a = s.adapter /\ t = s.tokenIn THEN n ELSE assets.allowance[a][t]
  BY <1>2, <1>3, <1>4, <1>5, Approved
<1>8. TypeOK'
  BY <1>1, <1>6, <1>7 DEF TypeOK
<1>9. \A a \in Adapters, t \in Tokens : assets.allowance[a][t] = 0
  BY <1>1 DEF NoResidualApproval
<1>10. NoResidualApproval'
  BY <1>6, <1>7, <1>9 DEF NoResidualApproval, s
<1>11. QED  BY <1>1, <1>6, <1>8, <1>10 DEF LedgerInv

(* The approval is gone when the adapter returns.                           *)
LEMMA AdapterReturnsLedger ==
    ASSUME LedgerInv, NEW spent \in Pulls, NEW got \in Yields, NEW p \in [Sources -> Prices],
           AdapterReturns(spent, got, p)
    PROVE  LedgerInv'
<1> DEFINE s == Steps[frame.step]
<1>1. TypeOK /\ NoResidualApproval /\ pc = "adapter"
  BY DEF LedgerInv, AdapterReturns
<1>2. frame \in Frames /\ assets \in Assets /\ frame.step \in 1..Len(Steps) /\ Len(Steps) \in Nat
  <2>1. frame \in Frames /\ assets \in Assets
    BY <1>1 DEF TypeOK
  <2>2. frame.step \in 1..(Len(Steps) + 1) /\ frame.step <= Len(Steps) /\ Len(Steps) \in Nat
    BY <1>1, <2>1, AmountsTyped DEF Frames, LedgerInv
  <2>3. QED  BY <2>1, <2>2
<1>3. s.adapter \in Adapters /\ s.tokenIn \in Tokens /\ s.tokenOut \in Tokens
  BY <1>2, StepTyped
<1>4. spent \in Nat /\ got \in Nat /\ p \in Spots
  BY AmountsTyped DEF Spots
<1>5. /\ spent <= BalanceOf(Zap, s.tokenIn) /\ got <= BalanceOf(Venue, s.tokenOut)
      /\ assets' = Exchange(s.adapter, s.tokenIn, spent, s.tokenOut, got)
  BY DEF AdapterReturns
<1>6. /\ price' = p /\ frame' = [frame EXCEPT !.step = @ + 1]
      /\ pc' = IF frame.step = Len(Steps) THEN "settle" ELSE "step"
      /\ now' = now /\ registry' = registry /\ auth' = auth /\ uses' = uses /\ lastUse' = lastUse
  BY DEF AdapterReturns
<1>7. \A a \in Adapters, t \in Tokens :
          assets.allowance[a][t] # 0 => a = s.adapter /\ t = s.tokenIn
  BY <1>1 DEF NoResidualApproval
<1> HIDE DEF s
<1>8. assets' \in Assets /\ NoApprovals(assets')
  BY <1>2, <1>3, <1>4, <1>5, <1>7, Exchanged DEF NoApprovals
<1>9. /\ frame' \in Frames /\ frame'.step = frame.step + 1
      /\ frame'.intent = frame.intent /\ frame'.before = frame.before
  <2>1. frame.step + 1 \in 1..(Len(Steps) + 1)
    BY <1>2
  <2>2. frame' = [frame EXCEPT !.step = frame.step + 1]
    BY <1>6
  <2>3. QED  BY <1>2, <2>1, <2>2 DEF Frames
<1>10. TypeOK'
  BY <1>1, <1>4, <1>6, <1>8, <1>9 DEF TypeOK
<1>11. NoResidualApproval'
  BY <1>8 DEF NoResidualApproval, NoApprovals
<1>12. pc' = "step" => frame'.step <= Len(Steps)
  BY <1>2, <1>6, <1>9
<1>13. QED  BY <1>1, <1>6, <1>9, <1>10, <1>11, <1>12 DEF LedgerInv, NoApprovals

(* What settlement starts from: an output it can afford to split. *)
LEMMA AtSettlement ==
    ASSUME LedgerInv, pc = "settle", Out >= 0
    PROVE  LET i == frame.intent
           IN  /\ assets \in Assets /\ NoApprovals(assets) /\ price \in Spots
               /\ i \in Intents /\ i.outAsset \in Tokens /\ frame.sender \in Executors
               /\ Out \in Nat /\ Out <= assets.bal[Zap][i.outAsset]
               /\ assets.bal[Zap][i.outAsset] \in Nat
<1>1. TypeOK /\ NoResidualApproval
  BY DEF LedgerInv
<1>2. /\ frame \in Frames /\ frame.intent \in Intents /\ frame.intent.outAsset \in Tokens
      /\ frame.sender \in Executors
      /\ \A h \in Holders, t \in Tokens : BalanceOf(h, t) \in Nat
  BY <1>1, InTransaction
<1>3. frame.preOut \in Nat
  BY <1>2 DEF Frames
<1>4. assets.bal[Zap][frame.intent.outAsset] \in Nat
  BY <1>2, Parties DEF BalanceOf
<1>5. Out \in Nat /\ Out <= assets.bal[Zap][frame.intent.outAsset]
  BY <1>3, <1>4 DEF Out, BalanceOf
<1>6. NoApprovals(assets)
  BY <1>1 DEF NoResidualApproval, NoApprovals
<1>7. QED  BY <1>1, <1>2, <1>4, <1>5, <1>6 DEF TypeOK

(* The recipient is paid from what the clone holds.                         *)
LEMMA RecipientPaid ==
    ASSUME NEW c \in Assets, NEW t \in Tokens, NEW n \in Nat, n <= c.bal[Zap][t], NoApprovals(c)
    PROVE  PayRecipient(c, t, n) \in Assets /\ NoApprovals(PayRecipient(c, t, n))
BY Parties, Transferred DEF PayRecipient, NoApprovals

(* The relayer fee fits into the measured output.                           *)
LEMMA SettleOneShotLedger == ASSUME LedgerInv, SettleOneShot PROVE LedgerInv'
<1> DEFINE i == frame.intent
           t == i.outAsset
           fee == RelayerFee(i)
           paid == IF i.executor = NoOne THEN assets
                   ELSE [assets EXCEPT !.bal = Move(@, Zap, i.executor, t, fee)]
<1>1. /\ pc = "settle" /\ Out >= 0 /\ Return(i) /\ price' = price
      /\ assets' = PayRecipient(paid, t, Out - fee)
  BY DEF SettleOneShot
<1>2. /\ assets \in Assets /\ NoApprovals(assets) /\ price \in Spots
      /\ i \in Intents /\ t \in Tokens
      /\ Out \in Nat /\ Out <= assets.bal[Zap][t] /\ assets.bal[Zap][t] \in Nat
  BY <1>1, AtSettlement
<1>3. i.maxRelayerFee \in Nat /\ i.executor \in Executors \cup {NoOne}
  BY <1>2, AmountsTyped
<1>4. fee \in Nat /\ fee <= Out /\ (i.executor = NoOne => fee = 0)
  BY <1>2, <1>3 DEF RelayerFee
<1> HIDE DEF fee
<1>5. paid \in Assets /\ NoApprovals(paid) /\ Out - fee <= paid.bal[Zap][t]
  <2>1. CASE i.executor = NoOne
    BY <1>2, <1>4, <2>1
  <2>2. CASE i.executor # NoOne
    <3>1. i.executor \in Holders /\ Zap \in Holders /\ fee <= assets.bal[Zap][t]
      BY <1>2, <1>3, <1>4, <2>2, Parties
    <3>2. /\ paid \in Assets /\ paid.allowance = assets.allowance
          /\ paid.bal[Zap][t] >= assets.bal[Zap][t] - fee
      BY <1>2, <1>4, <2>2, <3>1, Transferred
    <3>3. paid.bal[Zap][t] \in Nat
      BY <1>2, <3>1, <3>2 DEF Assets, Balances
    <3>4. QED  BY <1>2, <1>4, <3>2, <3>3 DEF NoApprovals
  <2>3. QED  BY <2>1, <2>2
<1> HIDE DEF paid
<1>6. Out - fee \in Nat
  BY <1>2, <1>4
<1>7. assets' \in Assets /\ NoApprovals(assets')
  BY <1>1, <1>2, <1>5, <1>6, RecipientPaid
<1>8. QED  BY <1>1, <1>2, <1>7, ReturnLedger

(* The protocol fee is part of the output.                                  *)
LEMMA FeeBounded == ASSUME NEW n \in Nat PROVE ProtocolFee(n) \in 0..n
<1>1. EXEC_FEE_BPS \in Nat /\ EXEC_FEE_BPS <= BPS /\ BPS \in Nat \ {0}
  BY AmountsTyped
<1>2. QED  BY <1>1, FractionBounded DEF ProtocolFee

(* Fee and net add up to the measured output.                               *)
LEMMA SettleWithExecutorFeeLedger == ASSUME LedgerInv, SettleWithExecutorFee PROVE LedgerInv'
<1> DEFINE i == frame.intent
           t == i.outAsset
           fee == ProtocolFee(Out)
           paid == PayFee(assets, t, frame.sender, fee)
<1>1. /\ pc = "settle" /\ Out >= 0 /\ Return(i) /\ price' = price
      /\ assets' = PayRecipient(paid, t, Out - fee)
  BY DEF SettleWithExecutorFee
<1>2. /\ assets \in Assets /\ NoApprovals(assets) /\ price \in Spots
      /\ i \in Intents /\ t \in Tokens /\ frame.sender \in Executors
      /\ Out \in Nat /\ Out <= assets.bal[Zap][t] /\ assets.bal[Zap][t] \in Nat
  BY <1>1, AtSettlement
<1>3. fee \in 0..Out
  BY <1>2, FeeBounded
<1> HIDE DEF fee
<1>4. fee \in Nat /\ fee <= assets.bal[Zap][t] /\ Out - fee \in Nat
  BY <1>2, <1>3
<1>5. /\ paid \in Assets /\ paid.allowance = assets.allowance
      /\ paid.bal[Zap][t] >= assets.bal[Zap][t] - fee
  BY <1>2, <1>4, FeePaid
<1> HIDE DEF paid
<1>6. paid.bal[Zap][t] \in Nat
  BY <1>2, <1>5, Parties DEF Assets, Balances
<1>7. Out - fee <= paid.bal[Zap][t] /\ NoApprovals(paid)
  BY <1>2, <1>4, <1>5, <1>6 DEF NoApprovals
<1>8. assets' \in Assets /\ NoApprovals(assets')
  BY <1>1, <1>2, <1>4, <1>5, <1>7, RecipientPaid
<1>9. QED  BY <1>1, <1>2, <1>8, ReturnLedger

(* Fee, slice and net add up to the measured output.                        *)
LEMMA SettleStackLedger == ASSUME LedgerInv, SettleStack PROVE LedgerInv'
<1> DEFINE i == frame.intent
           t == i.outAsset
           fee == ProtocolFee(Out)
           stackIn == MulDiv(Out - fee, i.stackBps, BPS)
           net == Out - fee - stackIn
<1>1. /\ pc = "settle" /\ i.kind = "stack" /\ Out >= 0
      /\ assets' = PayFee(assets, t, frame.sender, fee)
      /\ frame' = [frame EXCEPT !.net = net, !.stackIn = stackIn]
      /\ pc' = "stake" /\ now' = now /\ price' = price /\ registry' = registry
      /\ auth' = auth /\ uses' = uses /\ lastUse' = lastUse
  BY DEF SettleStack, NetOfSlice
<1>2. /\ assets \in Assets /\ NoApprovals(assets) /\ price \in Spots
      /\ i \in Intents /\ t \in Tokens /\ frame.sender \in Executors
      /\ Out \in Nat /\ Out <= assets.bal[Zap][t] /\ assets.bal[Zap][t] \in Nat
  BY <1>1, AtSettlement
<1>3. fee \in 0..Out
  BY <1>2, FeeBounded
<1> HIDE DEF fee
<1>4. fee \in Nat /\ fee <= assets.bal[Zap][t] /\ Out - fee \in Nat
  BY <1>2, <1>3
<1>5. i.stackBps \in Nat /\ i.stackBps <= BPS /\ BPS \in Nat \ {0}
  BY <1>1, <1>2, AmountsTyped DEF LedgerInv
<1>6. stackIn \in 0..(Out - fee)
  BY <1>4, <1>5, FractionBounded
<1> HIDE DEF stackIn
<1>7. stackIn \in Nat /\ net \in Nat /\ net + stackIn = Out - fee
  BY <1>2, <1>4, <1>6
<1> HIDE DEF net
<1>8. /\ assets' \in Assets /\ assets'.allowance = assets.allowance
      /\ assets'.bal[Zap][t] >= assets.bal[Zap][t] - fee
  BY <1>1, <1>2, <1>4, FeePaid
<1>9. assets'.bal[Zap][t] \in Nat
  BY <1>2, <1>8, Parties DEF Assets, Balances
<1>10. net + stackIn <= assets'.bal[Zap][t]
  BY <1>2, <1>4, <1>7, <1>8, <1>9
<1>11. TypeOK /\ frame \in Frames
  BY <1>1 DEF LedgerInv, TypeOK
<1>12. /\ frame' \in Frames /\ frame'.intent = i /\ frame'.before = frame.before
       /\ frame'.net = net /\ frame'.stackIn = stackIn
  BY <1>1, <1>7, <1>11 DEF Frames
<1>13. TypeOK'
  BY <1>1, <1>8, <1>11, <1>12 DEF TypeOK
<1>14. NoResidualApproval'
  BY <1>2, <1>8 DEF NoResidualApproval, NoApprovals
<1>15. (frame.net + frame.stackIn <= BalanceOf(Zap, frame.intent.outAsset))'
  BY <1>10, <1>12 DEF BalanceOf
<1>16. QED  BY <1>1, <1>12, <1>13, <1>14, <1>15 DEF LedgerInv, NoApprovals

(* The held-back slice is still there to be staked.                         *)
LEMMA StakeDirectlyLedger == ASSUME LedgerInv, StakeDirectly PROVE LedgerInv'
<1> DEFINE i == frame.intent
           staked == ContributeTo(assets, ZAPS, frame.stackIn)
<1>1. /\ pc = "stake" /\ i.outAsset = ZAPS /\ Return(i) /\ price' = price
      /\ assets' = PayRecipient(staked, i.outAsset, frame.net)
  BY DEF StakeDirectly
<1>2. TypeOK /\ NoResidualApproval
  BY DEF LedgerInv
<1>3. /\ assets \in Assets /\ price \in Spots /\ NoApprovals(assets)
      /\ frame.net \in Nat /\ frame.stackIn \in Nat
  BY <1>1, <1>2 DEF TypeOK, Frames, NoResidualApproval, NoApprovals
<1>4. ZAPS \in Tokens /\ assets.bal[Zap][ZAPS] \in Nat
  BY <1>3, Parties, AmountsTyped DEF Assets, Balances
<1>5. frame.net + frame.stackIn <= assets.bal[Zap][ZAPS]
  BY <1>1 DEF LedgerInv, BalanceOf
<1>6. frame.stackIn <= assets.bal[Zap][ZAPS]
  BY <1>3, <1>4, <1>5
<1>7. /\ staked \in Assets /\ staked.allowance = assets.allowance
      /\ staked.bal[Zap][ZAPS] >= assets.bal[Zap][ZAPS] - frame.stackIn
  BY <1>3, <1>4, <1>6, Contributed
<1> HIDE DEF staked
<1>8. staked.bal[Zap][ZAPS] \in Nat
  BY <1>4, <1>7, Parties DEF Assets, Balances
<1>9. frame.net <= staked.bal[Zap][ZAPS] /\ NoApprovals(staked)
  BY <1>3, <1>4, <1>5, <1>7, <1>8 DEF NoApprovals
<1>10. assets' \in Assets /\ NoApprovals(assets')
  BY <1>1, <1>3, <1>4, <1>7, <1>9, RecipientPaid
<1>11. QED  BY <1>1, <1>3, <1>10, ReturnLedger

(* The slice is approved to the pinned adapter only.                        *)
LEMMA CallZAPSAdapterLedger == ASSUME LedgerInv, CallZAPSAdapter PROVE LedgerInv'
<1> DEFINE t == frame.intent.outAsset
<1>1. TypeOK /\ NoResidualApproval /\ pc = "stake" /\ t # ZAPS
  BY DEF LedgerInv, CallZAPSAdapter
<1>2. frame \in Frames /\ assets \in Assets /\ t \in Tokens /\ frame.stackIn \in Nat
  BY <1>1, InTransaction DEF TypeOK, Frames
<1>3. BalanceOf(Zap, ZAPS) \in Nat /\ ZAPSAdapter \in Adapters
  BY <1>1, AmountsTyped, Parties, InTransaction
<1>4. /\ assets' = [assets EXCEPT !.allowance[ZAPSAdapter][t] = frame.stackIn]
      /\ frame' = [frame EXCEPT !.preZaps = BalanceOf(Zap, ZAPS)]
      /\ pc' = "staking" /\ now' = now /\ price' = price /\ registry' = registry
      /\ auth' = auth /\ uses' = uses /\ lastUse' = lastUse
  BY DEF CallZAPSAdapter
<1>5. /\ assets' \in Assets
      /\ \A a \in Adapters, u \in Tokens :
            assets'.allowance[a][u] = IF a = ZAPSAdapter /\ u = t THEN frame.stackIn
                                      ELSE assets.allowance[a][u]
  BY <1>2, <1>3, <1>4, Approved
<1>6. frame' \in Frames /\ frame'.intent = frame.intent /\ frame'.before = frame.before
  BY <1>2, <1>3, <1>4 DEF Frames
<1>7. TypeOK'
  BY <1>1, <1>4, <1>5, <1>6 DEF TypeOK
<1>8. \A a \in Adapters, u \in Tokens : assets.allowance[a][u] = 0
  BY <1>1 DEF NoResidualApproval
<1>9. NoResidualApproval'
  BY <1>4, <1>5, <1>6, <1>8 DEF NoResidualApproval
<1>10. QED  BY <1>1, <1>4, <1>6, <1>7, <1>9 DEF LedgerInv

(* Staking what was bought, and paying the net that was held back.          *)
LEMMA ZAPSAdapterReturnsLedger ==
    ASSUME LedgerInv, NEW spent \in Pulls, NEW got \in Yields, NEW p \in [Sources -> Prices],
           ZAPSAdapterReturns(spent, got, p)
    PROVE  LedgerInv'
<1> DEFINE i == frame.intent
           t == i.outAsset
           exchanged == Exchange(ZAPSAdapter, t, spent, ZAPS, got)
           zapsOut == exchanged.bal[Zap][ZAPS] - frame.preZaps
           staked == ContributeTo(exchanged, ZAPS, zapsOut)
<1>1. /\ pc = "staking" /\ Return(i) /\ price' = p
      /\ spent <= BalanceOf(Zap, t) /\ got <= BalanceOf(Venue, ZAPS)
      /\ zapsOut > 0 /\ exchanged.bal[Zap][t] >= frame.net
      /\ assets' = PayRecipient(staked, t, frame.net)
  BY DEF ZAPSAdapterReturns
<1>2. TypeOK /\ NoResidualApproval /\ t # ZAPS
  BY <1>1 DEF LedgerInv
<1>3. /\ assets \in Assets /\ t \in Tokens /\ ZAPS \in Tokens /\ ZAPSAdapter \in Adapters
      /\ frame.net \in Nat /\ frame.preZaps \in Nat
      /\ spent \in Nat /\ got \in Nat /\ p \in Spots
  <2>1. assets \in Assets /\ frame \in Frames /\ t \in Tokens
    BY <1>1, <1>2, InTransaction DEF TypeOK
  <2>2. ZAPS \in Tokens /\ ZAPSAdapter \in Adapters /\ spent \in Nat /\ got \in Nat /\ p \in Spots
    BY AmountsTyped DEF Spots
  <2>3. frame.net \in Nat /\ frame.preZaps \in Nat
    BY <2>1 DEF Frames
  <2>4. QED  BY <2>1, <2>2, <2>3
<1>4. \A a \in Adapters, u \in Tokens : assets.allowance[a][u] # 0 => a = ZAPSAdapter /\ u = t
  BY <1>1, <1>2 DEF NoResidualApproval
<1>5. /\ exchanged \in Assets
      /\ \A a \in Adapters, u \in Tokens :
            exchanged.allowance[a][u] = IF a = ZAPSAdapter /\ u = t THEN 0 ELSE assets.allowance[a][u]
  BY <1>1, <1>3, Exchanged
<1>6. NoApprovals(exchanged)
  BY <1>4, <1>5 DEF NoApprovals
<1> HIDE DEF exchanged
<1>7. exchanged.bal[Zap][ZAPS] \in Nat /\ exchanged.bal[Zap][t] \in Nat
  BY <1>3, <1>5, Parties DEF Assets, Balances
<1>8. zapsOut \in Nat /\ zapsOut <= exchanged.bal[Zap][ZAPS]
  BY <1>1, <1>3, <1>7
<1> HIDE DEF zapsOut
<1>9. /\ staked \in Assets /\ staked.allowance = exchanged.allowance
      /\ staked.bal[Zap][t] >= exchanged.bal[Zap][t]
  BY <1>2, <1>3, <1>5, <1>8, Contributed
<1> HIDE DEF staked
<1>10. staked.bal[Zap][t] \in Nat
  BY <1>3, <1>9, Parties DEF Assets, Balances
<1>11. frame.net <= staked.bal[Zap][t] /\ NoApprovals(staked)
  BY <1>1, <1>3, <1>6, <1>7, <1>9, <1>10 DEF NoApprovals
<1>12. assets' \in Assets /\ NoApprovals(assets')
  BY <1>1, <1>3, <1>9, <1>11, RecipientPaid
<1>13. QED  BY <1>1, <1>3, <1>12, ReturnLedger

(* A revert restores a ledger that was typed and granted nothing. *)
LEMMA RevertLedger == ASSUME LedgerInv, Revert PROVE LedgerInv'
<1>1. TypeOK /\ pc # "idle" /\ NoApprovals(frame.before.assets)
  BY DEF LedgerInv, Revert
<1>2. /\ frame.before.auth \in Auths /\ frame.before.assets \in Assets
      /\ frame.before.price \in Spots
  BY <1>1, InTransaction DEF Frames
<1>3. TypeOK'
  BY <1>1, <1>2 DEF Revert, TypeOK
<1>4. NoResidualApproval'
  BY <1>1 DEF Revert, NoResidualApproval, NoApprovals
<1>5. QED  BY <1>3, <1>4 DEF Revert, LedgerInv

(* The owner acts where the clone owes nothing: never between the fee and   *)
(* the stake.                                                               *)
LEMMA OwnerLedger == ASSUME LedgerInv, OwnerCalls PROVE LedgerInv'
<1>1. TypeOK /\ NoResidualApproval
  BY DEF LedgerInv
<1>2. CASE HaltPolicy
  <2>1. auth' \in Auths
    BY <1>1, <1>2 DEF HaltPolicy, TypeOK, Auths
  <2>2. QED  BY <1>1, <1>2, <2>1 DEF HaltPolicy, LedgerInv, TypeOK, NoResidualApproval, BalanceOf
<1>3. CASE \E k \in Keys : InvalidateNonce(k)
  <2>1. auth' \in Auths
    BY <1>1, <1>3 DEF InvalidateNonce, TypeOK, Auths
  <2>2. QED  BY <1>1, <1>3, <2>1 DEF InvalidateNonce, LedgerInv, TypeOK, NoResidualApproval, BalanceOf
<1>4. CASE \E list \in ExitLists : EmergencyExit(list)
  <2>1. PICK list \in ExitLists : EmergencyExit(list)
    BY <1>4
  <2>2. assets \in Assets /\ assets.bal \in [Holders -> [Tokens -> Nat]]
    BY <1>1 DEF TypeOK, Assets, Balances
  <2> DEFINE drained == [assets.bal EXCEPT
                 ![Zap] = [t \in Tokens |-> IF t \in list THEN 0 ELSE assets.bal[Zap][t]]]
  <2>3. [t \in Tokens |-> IF t \in list THEN 0 ELSE assets.bal[Zap][t]] \in [Tokens -> Nat]
    BY <2>2, Parties
  <2>4. drained \in [Holders -> [Tokens -> Nat]]
    BY <2>2, <2>3
  <2>5. Drained(assets.bal, list) =
           [drained EXCEPT
                ![Owner] = [t \in Tokens |-> IF t \in list THEN drained[Owner][t] + assets.bal[Zap][t]
                                             ELSE drained[Owner][t]]]
    BY DEF Drained
  <2> HIDE DEF drained
  <2>6. [t \in Tokens |-> IF t \in list THEN drained[Owner][t] + assets.bal[Zap][t]
                          ELSE drained[Owner][t]] \in [Tokens -> Nat]
    <3>1. drained[Owner] \in [Tokens -> Nat] /\ assets.bal[Zap] \in [Tokens -> Nat]
      BY <2>2, <2>4, Parties
    <3>2. QED  BY <3>1
  <2>7. Drained(assets.bal, list) \in Balances
    BY <2>4, <2>5, <2>6 DEF Balances
  <2>8. /\ assets' = [assets EXCEPT !.bal = Drained(assets.bal, list), !.native = 0]
        /\ pc \in {"idle", "adapter", "staking"}
        /\ UNCHANGED <<now, price, registry, auth, pc, frame, uses, lastUse>>
    BY <2>1 DEF EmergencyExit, OwnerReachable
  <2>9. assets' \in Assets /\ assets'.allowance = assets.allowance
    <3>1. ASSUME NEW b \in Balances
          PROVE  /\ [assets EXCEPT !.bal = b, !.native = 0] \in Assets
                 /\ [assets EXCEPT !.bal = b, !.native = 0].allowance = assets.allowance
      <4>1. assets \in Assets /\ 0 \in 0..1
        BY <2>2
      <4> DEFINE sold == [assets EXCEPT !.bal = b]
      <4>2. sold \in Assets /\ sold.allowance = assets.allowance
        BY <4>1 DEF Assets
      <4>3. [assets EXCEPT !.bal = b, !.native = 0] = [sold EXCEPT !.native = 0]
        OBVIOUS
      <4> HIDE DEF sold
      <4>4. QED  BY <4>1, <4>2, <4>3 DEF Assets
    <3>2. QED  BY <2>7, <2>8, <3>1
  <2>10. TypeOK'
    BY <1>1, <2>8, <2>9 DEF TypeOK
  <2>11. NoResidualApproval'
    BY <1>1, <2>8, <2>9 DEF NoResidualApproval
  <2>12. QED  BY <2>8, <2>10, <2>11 DEF LedgerInv
<1>5. QED  BY <1>2, <1>3, <1>4 DEF OwnerCalls

(* Reverts restore books that were in order; the rest adds or drains.       *)
LEMMA EnvironmentLedger == ASSUME LedgerInv, Environment PROVE LedgerInv'
<1>1. TypeOK /\ NoResidualApproval
  BY DEF LedgerInv
<1>2. ASSUME NEW t \in Tokens, NEW n \in Deposits, Fund(t, n) PROVE LedgerInv'
  <2>1. assets \in Assets /\ n \in Nat /\ n <= assets.bal[Owner][t] /\ pc = "idle"
    BY <1>1, <1>2, AmountsTyped DEF Fund, TypeOK, BalanceOf
  <2>2. assets' = [assets EXCEPT !.bal = Move(@, Owner, Zap, t, n)]
    BY <1>2 DEF Fund
  <2>3. assets' \in Assets /\ assets'.allowance = assets.allowance
    BY <2>1, <2>2, Parties, Transferred
  <2>4. QED  BY <1>1, <1>2, <2>1, <2>3 DEF Fund, LedgerInv, TypeOK, NoResidualApproval
<1>3. CASE ReceiveNative
  <2>1. assets' \in Assets /\ assets'.allowance = assets.allowance /\ pc = "idle"
    BY <1>1, <1>3 DEF ReceiveNative, TypeOK, Assets
  <2>2. QED  BY <1>1, <1>3, <2>1 DEF ReceiveNative, LedgerInv, TypeOK, NoResidualApproval
<1>4. ASSUME NEW d \in Delistable, NEW allowed \in BOOLEAN, SetAllowed(d.class, d.member, allowed)
      PROVE  LedgerInv'
  <2>1. \/ d.class = "adapters" /\ d.member \in Adapters
        \/ d.class = "tokens" /\ d.member \in Tokens
        \/ d.class = "sources" /\ d.member \in Sources
    BY AmountsTyped
  <2>2. registry' \in [adapters : SUBSET Adapters, tokens : SUBSET Tokens, sources : SUBSET Sources]
    BY <1>1, <1>4, <2>1 DEF SetAllowed, TypeOK
  <2>3. QED  BY <1>1, <1>4, <2>2 DEF SetAllowed, LedgerInv, TypeOK, NoResidualApproval, BalanceOf
<1>5. ASSUME NEW p \in [Sources -> Prices], MarketMoves(p) PROVE LedgerInv'
  <2>1. p \in Spots
    BY AmountsTyped DEF Spots
  <2>2. QED  BY <1>1, <1>5, <2>1 DEF MarketMoves, LedgerInv, TypeOK, NoResidualApproval, BalanceOf
<1>6. CASE Tick
  <2>1. now' \in 0..MaxTime
    BY <1>1, <1>6, IntentsTyped DEF Tick, TypeOK
  <2>2. QED  BY <1>1, <1>6, <2>1 DEF Tick, LedgerInv, TypeOK, NoResidualApproval, BalanceOf
<1>7. QED  BY <1>2, <1>3, <1>4, <1>5, <1>6 DEF Environment

----------------------------------------------------------------------------
(* A new clone has approved nothing.                                        *)
LEMMA LedgerInit == Init => LedgerInv
<1> SUFFICES ASSUME Init PROVE LedgerInv
  OBVIOUS
<1>1. assets \in Assets /\ NoApprovals(assets)
  BY AmountsTyped DEF Init, Assets, Balances, NoApprovals
<1>2. auth \in Auths
  BY DEF Init, Auths
<1>3. price \in Spots /\ now \in 0..MaxTime
  BY AmountsTyped, IntentsTyped DEF Init, Spots
<1>4. TypeOK
  BY <1>1, <1>2, <1>3 DEF Init, TypeOK
<1>5. QED  BY <1>1, <1>4 DEF Init, LedgerInv, NoApprovals, NoResidualApproval

(* Every step of the capsule keeps LedgerInv.                               *)
LEMMA LedgerStep == ASSUME LedgerInv, [Next]_vars PROVE LedgerInv'
<1>1. CASE Submit
  BY <1>1, SubmitLedger
<1>2. CASE Run
  BY <1>2, CallAdapterLedger, AdapterReturnsLedger, SettleOneShotLedger, SettleWithExecutorFeeLedger,
     SettleStackLedger, StakeDirectlyLedger, CallZAPSAdapterLedger, ZAPSAdapterReturnsLedger,
     RevertLedger DEF Run
<1>3. CASE OwnerCalls
  BY <1>3, OwnerLedger
<1>4. CASE Environment
  BY <1>4, EnvironmentLedger
<1>5. CASE UNCHANGED vars
  BY <1>5 DEF vars, LedgerInv, TypeOK, NoResidualApproval, NoApprovals, BalanceOf
<1>6. QED  BY <1>1, <1>2, <1>3, <1>4, <1>5 DEF Next

(* LedgerInv is an invariant of the capsule. *)
THEOREM LedgerInvariant == Spec => []LedgerInv
<1>1. LedgerInv /\ [Next]_vars => LedgerInv'
  BY LedgerStep
<1>2. QED  BY LedgerInit, <1>1, PTL DEF Spec

(* The fee, slice and payment arithmetic of every settlement path never     *)
(* pays out more than the clone holds: every balance stays an amount.       *)
THEOREM TypeTheorem == Spec => []TypeOK
<1>1. LedgerInv => TypeOK
  BY DEF LedgerInv
<1>2. QED  BY LedgerInvariant, <1>1, PTL

(* I-APPR-1 for every policy: no adapter keeps an approval, through every   *)
(* return, every revert and every call the owner makes in between.          *)
THEOREM ApprovalTheorem == Spec => []NoResidualApproval
<1>1. LedgerInv => NoResidualApproval
  BY DEF LedgerInv
<1>2. QED  BY LedgerInvariant, <1>1, PTL

----------------------------------------------------------------------------
(* The floors.  The recipient of every payout is paid at least what the     *)
(* owner signed, at the market as it stood before the run, and what the     *)
(* clone held before the run is still there after it.                       *)

(* The clone is paid by no run of its own.  It never calls itself, so it is *)
(* no submitter; the code would let an owner name the clone's own address   *)
(* as its recipient, or as the relayer of a one-shot intent.                *)
CloneUnpaid == Zap \notin {Recipient} \cup Executors

(* A slice that is a real fraction leaves something.                        *)
LEMMA FractionLeaves ==
    ASSUME NEW a \in Nat, NEW b \in Nat, NEW c \in Nat \ {0}, b < c, MulDiv(a, b, c) > 0
    PROVE  MulDiv(a, b, c) < a
<1> DEFINE q == (a * b) \div c
<1>1. a * b \in Nat
  OBVIOUS
<1>2. q \in Nat /\ c * q <= a * b
  BY <1>1
<1>3. q > 0
  BY DEF MulDiv
<1> HIDE DEF q
<1>4. ASSUME q >= a PROVE FALSE
  <2>1. c * q = c * a + c * (q - a) /\ c * (q - a) \in Nat
    BY <1>2, <1>4
  <2>2. a * c = a * b + a * (c - b) /\ a * (c - b) \in Nat /\ c * a = a * c
    OBVIOUS
  <2>3. a * (c - b) = 0
    BY <1>1, <1>2, <2>1, <2>2
  <2>4. a = 0
    BY <2>3
  <2>5. a * b = 0 /\ c * q > 0
    BY <1>2, <1>3, <2>4
  <2>6. QED  BY <1>2, <2>5
<1>5. QED  BY <1>2, <1>4 DEF q, MulDiv

(* All of an amount is that amount, and a fraction of it a number.          *)
LEMMA WholeOf ==
    ASSUME NEW a \in Int, NEW c \in Nat \ {0}
    PROVE  MulDiv(a, c, c) = a
<1> DEFINE q == (a * c) \div c
<1>1. a * c \in Int
  OBVIOUS
<1>2. q \in Int /\ c * q <= a * c /\ a * c < c * q + c
  BY <1>1
<1> HIDE DEF q
<1>3. ASSUME q < a PROVE FALSE
  <2>1. PICK k \in Nat : a = q + 1 + k
    <3>1. a - q - 1 \in Nat /\ a = q + 1 + (a - q - 1)
      BY <1>2, <1>3
    <3>2. QED  BY <3>1
  <2>2. a * c = c * q + c + c * k /\ c * k \in Nat /\ c * q \in Int
    BY <1>2, <2>1
  <2>3. QED  BY <1>1, <1>2, <2>2
<1>4. ASSUME a < q PROVE FALSE
  <2>1. PICK k \in Nat : q = a + 1 + k
    <3>1. q - a - 1 \in Nat /\ q = a + 1 + (q - a - 1)
      BY <1>2, <1>4
    <3>2. QED  BY <3>1
  <2>2. c * q = a * c + c + c * k /\ c * k \in Nat
    BY <1>2, <2>1
  <2>3. QED  BY <1>1, <1>2, <2>2
<1>5. q = a
  BY <1>2, <1>3, <1>4
<1>6. QED  BY <1>5 DEF q, MulDiv

(* A floored fraction of an integer is an integer.                          *)
LEMMA FractionTyped ==
    ASSUME NEW a \in Int, NEW b \in Int, NEW c \in Nat \ {0}
    PROVE  MulDiv(a, b, c) \in Int
<1>1. a * b \in Int
  OBVIOUS
<1>2. (a * b) \div c \in Int
  BY <1>1
<1>3. QED  BY <1>2 DEF MulDiv

(* A transfer between two parties moves exactly its amount.                 *)
LEMMA MoveExact ==
    ASSUME NEW b \in Balances, NEW from \in Holders, NEW to \in Holders, from # to,
           NEW t \in Tokens, NEW n \in Nat, n <= b[from][t]
    PROVE  /\ Move(b, from, to, t, n) \in Balances
           /\ Move(b, from, to, t, n)[from][t] = b[from][t] - n
           /\ Move(b, from, to, t, n)[to][t] = b[to][t] + n
           /\ \A h \in Holders, u \in Tokens :
                 (h \notin {from, to}) \/ u # t => Move(b, from, to, t, n)[h][u] = b[h][u]
<1> DEFINE debited == [b EXCEPT ![from][t] = @ - n]
           after == Move(b, from, to, t, n)
<1>1. b \in [Holders -> [Tokens -> Nat]]
  BY DEF Balances
<1>2. debited = [b EXCEPT ![from] = [b[from] EXCEPT ![t] = b[from][t] - n]]
  OBVIOUS
<1>3. debited \in [Holders -> [Tokens -> Nat]]
  BY <1>1, <1>2
<1>4. /\ debited[from][t] = b[from][t] - n
      /\ \A h \in Holders, u \in Tokens : h # from \/ u # t => debited[h][u] = b[h][u]
  BY <1>1, <1>2
<1>5. after = [debited EXCEPT ![to] = [debited[to] EXCEPT ![t] = debited[to][t] + n]]
  BY DEF Move
<1> HIDE DEF debited, after
<1>6. /\ after[to][t] = debited[to][t] + n
      /\ \A h \in Holders, u \in Tokens : h # to \/ u # t => after[h][u] = debited[h][u]
  BY <1>3, <1>5
<1>7. after \in Balances
  BY MoveTyped DEF after
<1>8. QED  BY <1>4, <1>6, <1>7 DEF after

(* A transfer on the ledger, in the same exact terms.                       *)
LEMMA TransferredExactly ==
    ASSUME NEW c \in Assets, NEW from \in Holders, NEW to \in Holders, from # to,
           NEW t \in Tokens, NEW n \in Nat, n <= c.bal[from][t]
    PROVE  LET d == [c EXCEPT !.bal = Move(@, from, to, t, n)]
           IN  /\ d \in Assets
               /\ d.bal[from][t] = c.bal[from][t] - n
               /\ d.bal[to][t] = c.bal[to][t] + n
               /\ \A h \in Holders, u \in Tokens : (h \notin {from, to}) \/ u # t => d.bal[h][u] = c.bal[h][u]
<1> DEFINE b == c.bal
           m == Move(b, from, to, t, n)
           d == [c EXCEPT !.bal = Move(@, from, to, t, n)]
<1>1. b \in Balances /\ n <= b[from][t]
  BY DEF Assets
<1>2. d = [c EXCEPT !.bal = m] /\ d.bal = m
  BY DEF Assets
<1> HIDE DEF b
<1>3. /\ m \in Balances
      /\ m[from][t] = b[from][t] - n
      /\ m[to][t] = b[to][t] + n
      /\ \A h \in Holders, u \in Tokens : (h \notin {from, to}) \/ u # t => m[h][u] = b[h][u]
  BY <1>1, MoveExact
<1> HIDE DEF m, d
<1>4. d \in Assets
  BY <1>2, <1>3 DEF Assets
<1>5. QED  BY <1>2, <1>3, <1>4 DEF b, d

(* The recipient gets what the clone gives.                                 *)
LEMMA RecipientPaidExactly ==
    ASSUME CloneUnpaid, NEW c \in Assets, NEW t \in Tokens, NEW n \in Nat, n <= c.bal[Zap][t]
    PROVE  LET d == PayRecipient(c, t, n)
           IN  /\ d \in Assets
               /\ d.bal[Zap][t] = c.bal[Zap][t] - n
               /\ d.bal[Recipient][t] = c.bal[Recipient][t] + n
               /\ \A u \in Tokens : u # t => d.bal[Zap][u] = c.bal[Zap][u]
BY Parties, TransferredExactly DEF PayRecipient, CloneUnpaid

(* The pot gets what the clone gives, and the recipient is not the pot.     *)
LEMMA ContributedExactly ==
    ASSUME CloneUnpaid, NEW c \in Assets, NEW t \in Tokens, NEW n \in Nat, n <= c.bal[Zap][t]
    PROVE  LET d == ContributeTo(c, t, n)
           IN  /\ d \in Assets
               /\ d.bal[Zap][t] = c.bal[Zap][t] - n
               /\ \A u \in Tokens : u # t => d.bal[Zap][u] = c.bal[Zap][u]
               /\ \A u \in Tokens : d.bal[Recipient][u] = c.bal[Recipient][u]
<1> DEFINE moved == [c EXCEPT !.bal = Move(@, Zap, Pot, t, n)]
           d == ContributeTo(c, t, n)
<1>1. Zap # Pot /\ Recipient \notin {Zap, Pot}
  BY PartiesApart DEF CloneUnpaid
<1>2. /\ moved \in Assets
      /\ moved.bal[Zap][t] = c.bal[Zap][t] - n
      /\ moved.bal[Pot][t] = c.bal[Pot][t] + n
      /\ \A h \in Holders, u \in Tokens : (h \notin {Zap, Pot}) \/ u # t => moved.bal[h][u] = c.bal[h][u]
  BY <1>1, Parties, TransferredExactly
<1>3. d.bal = moved.bal
  BY DEF ContributeTo, Assets
<1> HIDE DEF moved
<1>4. d \in Assets
  BY Contributed
<1> HIDE DEF d
<1>5. QED  BY <1>1, <1>2, <1>3, <1>4, Parties DEF d

(* Both legs of the fee together take exactly the fee.                      *)
LEMMA FeePaidExactly ==
    ASSUME CloneUnpaid, NEW c \in Assets, NEW t \in Tokens, NEW sender \in Executors,
           NEW fee \in Nat, fee <= c.bal[Zap][t]
    PROVE  LET d == PayFee(c, t, sender, fee)
           IN  /\ d \in Assets
               /\ d.bal[Zap][t] = c.bal[Zap][t] - fee
               /\ \A u \in Tokens : u # t => d.bal[Zap][u] = c.bal[Zap][u]
               /\ d.bal[Recipient][t] >= c.bal[Recipient][t]
<1> DEFINE share == ExecutorShare(fee)
           paid == [c EXCEPT !.bal = Move(@, Zap, sender, t, share)]
<1>1. share \in 0..fee
  <2>1. EXECUTOR_SHARE_BPS \in Nat /\ EXECUTOR_SHARE_BPS <= BPS /\ BPS \in Nat \ {0}
    BY AmountsTyped
  <2>2. MulDiv(fee, EXECUTOR_SHARE_BPS, BPS) \in 0..fee
    BY <2>1, FractionBounded
  <2>3. QED  BY <2>2 DEF ExecutorShare
<1>2. \A h \in Holders, u \in Tokens : c.bal[h][u] \in Nat
  BY DEF Assets, Balances
<1>3. share \in Nat /\ share <= c.bal[Zap][t] /\ sender \in Holders /\ Zap # sender
  BY <1>1, <1>2, Parties DEF CloneUnpaid
<1>4. PayFee(c, t, sender, fee) = ContributeTo(paid, t, fee - share)
  BY DEF PayFee
<1> HIDE DEF share
<1>5. /\ paid \in Assets
      /\ paid.bal[Zap][t] = c.bal[Zap][t] - share
      /\ paid.bal[sender][t] = c.bal[sender][t] + share
      /\ \A h \in Holders, u \in Tokens : (h \notin {Zap, sender}) \/ u # t => paid.bal[h][u] = c.bal[h][u]
  BY <1>3, Parties, TransferredExactly
<1> HIDE DEF paid
<1>6. paid.bal[Recipient][t] >= c.bal[Recipient][t]
  <2>1. Recipient # Zap /\ Recipient \in Holders
    BY Parties DEF CloneUnpaid
  <2>2. QED  BY <1>2, <1>3, <1>5, <2>1
<1>7. fee - share \in Nat /\ fee - share <= paid.bal[Zap][t]
  BY <1>1, <1>2, <1>5, Parties
<1> DEFINE d == ContributeTo(paid, t, fee - share)
<1>8. /\ d \in Assets
      /\ d.bal[Zap][t] = paid.bal[Zap][t] - (fee - share)
      /\ \A u \in Tokens : u # t => d.bal[Zap][u] = paid.bal[Zap][u]
      /\ \A u \in Tokens : d.bal[Recipient][u] = paid.bal[Recipient][u]
  BY <1>5, <1>7, ContributedExactly
<1> HIDE DEF d
<1>9. d.bal[Zap][t] = c.bal[Zap][t] - fee
  BY <1>1, <1>2, <1>5, <1>8, Parties
<1>10. QED  BY <1>4, <1>5, <1>6, <1>8, <1>9, Parties DEF d

(* An adapter pulls exactly what it spends, and of that token nobody else   *)
(* loses any.                                                               *)
LEMMA ExchangedExactly ==
    ASSUME CloneUnpaid, assets \in Assets, NEW a \in Adapters,
           NEW tokenIn \in Tokens, NEW tokenOut \in Tokens, tokenIn # tokenOut,
           NEW spent \in Nat, spent <= BalanceOf(Zap, tokenIn),
           NEW got \in Nat, got <= BalanceOf(Venue, tokenOut)
    PROVE  LET d == Exchange(a, tokenIn, spent, tokenOut, got)
           IN  /\ d \in Assets
               /\ d.bal[Zap][tokenIn] = BalanceOf(Zap, tokenIn) - spent
               /\ d.bal[Recipient][tokenIn] >= BalanceOf(Recipient, tokenIn)
<1> DEFINE sold == [assets EXCEPT !.bal = Move(@, Zap, Venue, tokenIn, spent)]
           bought == [sold EXCEPT !.bal = Move(@, Venue, Zap, tokenOut, got)]
           d == Exchange(a, tokenIn, spent, tokenOut, got)
<1>1. \A h \in Holders, u \in Tokens : assets.bal[h][u] \in Nat
  BY DEF Assets, Balances
<1>2. Zap # Venue /\ Zap # Recipient
  BY PartiesApart DEF CloneUnpaid
<1>3. /\ sold \in Assets
      /\ sold.bal[Zap][tokenIn] = assets.bal[Zap][tokenIn] - spent
      /\ sold.bal[Venue][tokenIn] = assets.bal[Venue][tokenIn] + spent
      /\ \A h \in Holders, u \in Tokens : (h \notin {Zap, Venue}) \/ u # tokenIn => sold.bal[h][u] = assets.bal[h][u]
  BY <1>2, Parties, TransferredExactly DEF BalanceOf
<1> HIDE DEF sold
<1>4. got <= sold.bal[Venue][tokenOut]
  BY <1>1, <1>3, Parties DEF BalanceOf
<1>5. /\ bought \in Assets
      /\ bought.bal[Venue][tokenOut] = sold.bal[Venue][tokenOut] - got
      /\ bought.bal[Zap][tokenOut] = sold.bal[Zap][tokenOut] + got
      /\ \A h \in Holders, u \in Tokens : (h \notin {Venue, Zap}) \/ u # tokenOut => bought.bal[h][u] = sold.bal[h][u]
  BY <1>2, <1>3, <1>4, Parties, TransferredExactly
<1>6. d.bal = bought.bal
  BY DEF Exchange, sold, Assets
<1>7. d \in Assets
  BY Exchanged
<1> HIDE DEF bought, d
<1>8. \A h \in Holders : d.bal[h][tokenIn] = sold.bal[h][tokenIn]
  BY <1>5, <1>6
<1>9. sold.bal[Recipient][tokenIn] >= assets.bal[Recipient][tokenIn]
  BY <1>1, <1>2, <1>3, Parties
<1>10. QED  BY <1>3, <1>7, <1>8, <1>9, Parties DEF BalanceOf, d

----------------------------------------------------------------------------
(* FloorInv is an invariant.                                                *)

(* The measurement on entry is the spot that a revert would restore.        *)
LEMMA EnterFloor ==
    ASSUME NEW i, NEW tx, NEW c, NEW spot, NEW stackSpot, Enter(i, tx, c, spot, stackSpot),
           i.kind \in {"relative", "stack"} => spot = price[i.source] /\ spot > 0,
           i.kind = "stack" => i.stackBps < BPS
    PROVE  FloorInv'
BY DEF Enter, FloorInv, SpotBefore

(* A transaction begins with the floors still to be met.                    *)
LEMMA SubmitFloor == ASSUME Submit PROVE FloorInv'
<1>1. PICK i \in Intents, tx \in Submissions :
          \/ Execute(i, tx) \/ ExecuteRecurring(i, tx) \/ ExecuteRecurringRelative(i, tx)
          \/ ExecuteRecurringStack(i, tx) \/ ExecuteTrigger(i, tx)
  BY DEF Submit
<1>2. CASE Execute(i, tx)
  BY <1>2, EnterFloor DEF Execute
<1>3. CASE ExecuteRecurring(i, tx)
  BY <1>3, EnterFloor DEF ExecuteRecurring
<1>4. CASE ExecuteRecurringRelative(i, tx)
  BY <1>4, EnterFloor DEF ExecuteRecurringRelative, Valuable
<1>5. CASE ExecuteRecurringStack(i, tx)
  BY <1>5, EnterFloor DEF ExecuteRecurringStack, Valuable, ValidStack
<1>6. CASE ExecuteTrigger(i, tx)
  BY <1>6, EnterFloor DEF ExecuteTrigger
<1>7. QED  BY <1>1, <1>2, <1>3, <1>4, <1>5, <1>6

(* Until settlement nothing is owed.                                        *)
LEMMA StepsFloor ==
    ASSUME LedgerInv, FloorInv,
           CallAdapter \/ \E spent \in Pulls, got \in Yields, p \in [Sources -> Prices] : AdapterReturns(spent, got, p)
    PROVE  FloorInv'
<1>1. CASE CallAdapter
  BY <1>1 DEF CallAdapter, FloorInv, SpotBefore
<1>2. ASSUME NEW spent, NEW got, NEW p, AdapterReturns(spent, got, p)
      PROVE  FloorInv'
  <2>1. frame \in Frames /\ pc = "adapter" /\ pc' \in {"settle", "step"}
        /\ frame' = [frame EXCEPT !.step = @ + 1]
    BY <1>2 DEF AdapterReturns, LedgerInv, TypeOK
  <2>2. frame'.intent = frame.intent /\ frame'.before = frame.before /\ frame'.spot = frame.spot
    BY <2>1 DEF Frames
  <2>3. QED  BY <2>1, <2>2 DEF FloorInv, SpotBefore
<1>3. QED  BY <1>1, <1>2

(* The slice and the net amount are what is left of the output once the fee *)
(* is paid.                                                                 *)
LEMMA SettleStackFloor ==
    ASSUME CloneUnpaid, LedgerInv, FloorInv, SettleStack
    PROVE  FloorInv'
<1> DEFINE i == frame.intent
           t == i.outAsset
           fee == ProtocolFee(Out)
           left == Out - fee
           stackIn == MulDiv(left, i.stackBps, BPS)
           net == left - stackIn
<1>1. /\ pc = "settle" /\ i.kind = "stack" /\ Out >= 0 /\ stackIn > 0
      /\ assets' = PayFee(assets, t, frame.sender, fee)
      /\ frame' = [frame EXCEPT !.net = net, !.stackIn = stackIn] /\ pc' = "stake"
  BY DEF SettleStack, NetOfSlice
<1>2. /\ assets \in Assets /\ i \in Intents /\ t \in Tokens /\ frame.sender \in Executors
      /\ Out \in Nat /\ Out <= assets.bal[Zap][t] /\ assets.bal[Zap][t] \in Nat
      /\ frame \in Frames
  BY <1>1, AtSettlement DEF LedgerInv, TypeOK
<1>3. fee \in 0..Out
  BY <1>2, FeeBounded
<1>4. left \in Nat
  BY <1>2, <1>3
<1>5. i.stackBps \in Nat /\ i.stackBps < BPS /\ BPS \in Nat \ {0}
  BY <1>1, <1>2, AmountsTyped DEF FloorInv
<1> HIDE DEF left
<1>6. stackIn \in 0..left /\ stackIn < left
  BY <1>1, <1>4, <1>5, FractionBounded, FractionLeaves
<1> HIDE DEF stackIn
<1>7. net \in Nat /\ net > 0
  BY <1>4, <1>6
<1>8. fee \in Nat /\ fee <= assets.bal[Zap][t]
  BY <1>2, <1>3
<1>9. assets'.bal[Zap][t] = assets.bal[Zap][t] - fee
  BY <1>1, <1>2, <1>8, FeePaidExactly
<1>10. /\ frame'.intent = i /\ frame'.net = net /\ frame'.stackIn = stackIn
       /\ frame'.preOut = frame.preOut /\ frame'.spot = frame.spot /\ frame'.before = frame.before
  BY <1>1, <1>2 DEF Frames
<1>11. frame.preOut \in Nat /\ Out = assets.bal[Zap][t] - frame.preOut
  BY <1>2 DEF Frames, Out, BalanceOf
<1>12. assets'.bal[Zap][t] = frame.preOut + net + stackIn
  <2>1. assets'.bal[Zap][t] = (frame.preOut + Out) - fee
    BY <1>2, <1>9, <1>11
  <2>2. net = left - stackIn /\ left = Out - fee
    BY DEF left
  <2> HIDE DEF net, fee, t
  <2>3. QED  BY <1>2, <1>4, <1>6, <1>8, <1>11, <2>1, <2>2
<1> HIDE DEF net
<1>13. frame'.intent.kind = "stack" /\ frame'.intent.stackBps < BPS
       /\ frame'.spot = frame'.before.price[frame'.intent.source] /\ frame'.spot > 0
  BY <1>1, <1>5, <1>10 DEF FloorInv, SpotBefore
<1>14. QED  BY <1>1, <1>7, <1>10, <1>12, <1>13 DEF FloorInv, Owed, BalanceOf, SpotBefore

(* The approval for the slice is the slice.                                 *)
LEMMA CallZAPSAdapterFloor ==
    ASSUME LedgerInv, FloorInv, CallZAPSAdapter
    PROVE  FloorInv'
<1> DEFINE t == frame.intent.outAsset
<1>1. /\ pc = "stake" /\ pc' = "staking" /\ frame' = [frame EXCEPT !.preZaps = BalanceOf(Zap, ZAPS)]
      /\ assets' = [assets EXCEPT !.allowance[ZAPSAdapter][t] = frame.stackIn]
  BY DEF CallZAPSAdapter
<1>2. assets \in Assets /\ frame \in Frames /\ t \in Tokens /\ frame.stackIn \in Nat /\ ZAPSAdapter \in Adapters
  BY <1>1, InTransaction, AmountsTyped DEF LedgerInv, TypeOK, Frames
<1>3. assets'.bal = assets.bal /\ assets'.allowance[ZAPSAdapter][t] = frame.stackIn
  BY <1>1, <1>2, Approved
<1>4. /\ frame'.intent = frame.intent /\ frame'.net = frame.net /\ frame'.stackIn = frame.stackIn
      /\ frame'.preOut = frame.preOut /\ frame'.spot = frame.spot /\ frame'.before = frame.before
  BY <1>1, <1>2 DEF Frames
<1>5. QED  BY <1>1, <1>3, <1>4 DEF FloorInv, Owed, BalanceOf, SpotBefore

(* The owner's exit takes all of a token or none of it.                     *)
LEMMA OwnerFloor ==
    ASSUME LedgerInv, FloorInv, OwnerCalls
    PROVE  FloorInv'
<1>1. CASE HaltPolicy \/ \E k \in Keys : InvalidateNonce(k)
  BY <1>1 DEF HaltPolicy, InvalidateNonce, FloorInv, SpotBefore, Owed, BalanceOf
<1>2. ASSUME NEW list \in ExitLists, EmergencyExit(list)
      PROVE  FloorInv'
  <2>1. /\ UNCHANGED <<pc, frame>> /\ assets' = [assets EXCEPT !.bal = Drained(@, list), !.native = 0]
        /\ pc # "stake" /\ assets \in Assets
    BY <1>2 DEF EmergencyExit, OwnerReachable, LedgerInv, TypeOK
  <2>2. assets'.allowance = assets.allowance /\ assets'.bal = Drained(assets.bal, list)
    BY <2>1 DEF Assets
  <2>3. assets.bal \in [Holders -> [Tokens -> Nat]]
    BY <2>1 DEF Assets, Balances
  <2>4. ASSUME NEW t \in Tokens
        PROVE  assets'.bal[Zap][t] \in {0, BalanceOf(Zap, t)}
    <3>1. assets'.bal[Zap][t] \in {0, assets.bal[Zap][t], 0 + assets.bal[Zap][t]}
      BY <2>2, <2>3, Parties DEF Drained
    <3>2. assets.bal[Zap][t] \in Nat
      BY <2>3, Parties
    <3>3. QED  BY <3>1, <3>2 DEF BalanceOf
  <2>5. pc # "idle" => frame.intent.outAsset \in Tokens
    BY InTransaction DEF LedgerInv
  <2>6. pc = "staking" => assets'.bal[Zap][frame.intent.outAsset] \in {0, Owed}
    BY <2>4, <2>5 DEF FloorInv
  <2>7. QED  BY <2>1, <2>2, <2>6 DEF FloorInv, SpotBefore, Owed, BalanceOf
<1>3. QED  BY <1>1, <1>2 DEF OwnerCalls

(* No step inside or outside a transaction breaks the invariant.            *)
LEMMA FloorStep ==
    ASSUME CloneUnpaid, LedgerInv, FloorInv, [Next]_vars PROVE FloorInv'
<1>1. CASE Submit
  BY <1>1, SubmitFloor
<1>2. CASE Run
  <2>1. CASE SettleOneShot \/ SettleWithExecutorFee \/ StakeDirectly \/ Revert
    BY <2>1 DEF SettleOneShot, SettleWithExecutorFee, StakeDirectly, Revert, Return, FloorInv
  <2>2. ASSUME NEW spent, NEW got, NEW p, ZAPSAdapterReturns(spent, got, p)
        PROVE  FloorInv'
    BY <2>2 DEF ZAPSAdapterReturns, Return, FloorInv
  <2>3. QED  BY <1>2, <2>1, <2>2, StepsFloor, SettleStackFloor, CallZAPSAdapterFloor DEF Run
<1>3. CASE OwnerCalls
  BY <1>3, OwnerFloor
<1>4. CASE Environment
  BY <1>4 DEF Environment, Fund, ReceiveNative, SetAllowed, MarketMoves, Tick, FloorInv
<1>5. CASE UNCHANGED vars
  BY <1>5 DEF vars, FloorInv, SpotBefore, Owed, BalanceOf
<1>6. QED  BY <1>1, <1>2, <1>3, <1>4, <1>5 DEF Next

(* At every step of a run, what is still to be paid is known from how it began. *)
THEOREM FloorInvariant ==
    ASSUME CloneUnpaid PROVE Spec => []FloorInv
<1>1. Init => FloorInv
  BY DEF Init, FloorInv
<1>2. LedgerInv /\ FloorInv /\ [Next]_vars => FloorInv'
  BY FloorStep
<1>3. QED  BY <1>1, <1>2, LedgerInvariant, PTL DEF Spec

----------------------------------------------------------------------------
(* What each payout moves.                                                  *)

(* The fair output is a number at any spot a source reports.                *)
LEMMA FairTyped ==
    ASSUME NEW want, NEW currency1, NEW spot \in Nat \ {0}, NEW spent \in Int
    PROVE  FairOutput(want, currency1, spot, spent) \in Int
<1>1. Q96 \in Nat \ {0}
  BY AmountsTyped
<1>2. MulDiv(spent, spot, Q96) \in Int
  BY <1>1, FractionTyped
<1>3. MulDiv(spent, Q96, spot) \in Int
  BY <1>1, FractionTyped
<1>4. QED  BY <1>2, <1>3 DEF FairOutput

(* The floor the code computes is the one the owner signed.                 *)
LEMMA FloorIsSigned ==
    ASSUME LedgerInv, FloorInv, pc = "settle"
    PROVE  NetFloor(frame.intent) = SignedFloor(frame.intent)
<1> DEFINE i == frame.intent
           fair == RunFair
<1>1. i \in Intents /\ i.kind \in Kinds /\ frame \in Frames
  BY InTransaction, IntentsTyped DEF LedgerInv
<1>2. CASE i.kind = "stack"
  <2>1. frame.spot = SpotBefore(i)
    BY <1>2 DEF FloorInv
  <2>2. QED  BY <1>2, <2>1 DEF NetFloor, SignedFloor, RunFair
<1>3. CASE i.kind = "relative"
  <2>1. frame.spot = SpotBefore(i) /\ frame.spot \in Nat \ {0}
    BY <1>1, <1>3 DEF FloorInv, Frames
  <2>2. Spent \in Int
    <3>1. BalanceOf(Zap, InAsset(i)) \in Nat /\ frame.preIn \in Nat
      BY <1>1, InAssetTyped, InTransaction, Parties DEF LedgerInv, Frames
    <3>2. QED  BY <3>1 DEF Spent
  <2>3. fair \in Int
    BY <2>1, <2>2, FairTyped DEF RunFair
  <2>4. i.maxSlippageBps \in Nat /\ BPS \in Nat \ {0} /\ BPS - i.maxSlippageBps \in Int
    BY <1>1, AmountsTyped
  <2> HIDE DEF fair, i
  <2>5. RelativeFloor(fair, i.maxSlippageBps) \in Int
    BY <2>3, <2>4, FractionTyped DEF RelativeFloor
  <2>6. MulDiv(RelativeFloor(fair, i.maxSlippageBps), BPS, BPS) = RelativeFloor(fair, i.maxSlippageBps)
    BY <2>4, <2>5, WholeOf
  <2>7. QED  BY <1>3, <2>1, <2>6 DEF NetFloor, SignedFloor, RunFair, fair, i
<1>4. CASE i.kind \notin {"stack", "relative"}
  BY <1>4 DEF NetFloor, SignedFloor
<1>5. QED  BY <1>2, <1>3, <1>4

(* A settlement that converts nothing pays out exactly the measured output. *)
LEMMA SettlePays ==
    ASSUME CloneUnpaid, LedgerInv, FloorInv, SettleOneShot \/ SettleWithExecutorFee
    PROVE  LET i == frame.intent
           IN  /\ pc = "settle" /\ pc' = "idle"
               /\ Received(Recipient, i.outAsset) >= SignedFloor(i)
               /\ assets'.bal[Zap][i.outAsset] = frame.preOut
<1> DEFINE i == frame.intent
           t == i.outAsset
<1>1. pc = "settle" /\ Out >= 0 /\ pc' = "idle"
  BY DEF SettleOneShot, SettleWithExecutorFee, Return
<1>2. /\ assets \in Assets /\ i \in Intents /\ t \in Tokens /\ frame.sender \in Executors
      /\ Out \in Nat /\ Out <= assets.bal[Zap][t] /\ frame \in Frames
  BY <1>1, AtSettlement DEF LedgerInv, TypeOK
<1>3. \A h \in Holders, u \in Tokens : assets.bal[h][u] \in Nat
  BY <1>2 DEF Assets, Balances
<1>4. Out = assets.bal[Zap][t] - frame.preOut /\ frame.preOut \in Nat
  BY <1>2 DEF Out, BalanceOf, Frames
<1>5. NetFloor(i) = SignedFloor(i) /\ (i.kind = "oneShot" => SignedFloor(i) = i.minOut)
  BY <1>1, FloorIsSigned DEF SignedFloor
<1>6. ASSUME NEW paid \in Assets, NEW fee \in 0..Out, assets' = PayRecipient(paid, t, Out - fee),
             paid.bal[Zap][t] = assets.bal[Zap][t] - fee,
             paid.bal[Recipient][t] >= assets.bal[Recipient][t],
             Out - fee >= SignedFloor(i), SignedFloor(i) \in Int
      PROVE  /\ Received(Recipient, t) >= SignedFloor(i)
             /\ assets'.bal[Zap][t] = frame.preOut
  <2>1. Out - fee \in Nat /\ Out - fee <= paid.bal[Zap][t]
    BY <1>2, <1>3, <1>6, Parties
  <2>2. /\ assets'.bal[Zap][t] = paid.bal[Zap][t] - (Out - fee)
        /\ assets'.bal[Recipient][t] = paid.bal[Recipient][t] + (Out - fee)
    <3>1. t \in Tokens /\ paid \in Assets /\ assets' = PayRecipient(paid, t, Out - fee)
      BY <1>2, <1>6
    <3> HIDE DEF t
    <3>2. QED  BY <2>1, <3>1, RecipientPaidExactly
  <2>3. paid.bal[Recipient][t] \in Nat /\ assets.bal[Recipient][t] \in Nat /\ assets.bal[Zap][t] \in Nat
    BY <1>2, <1>3, <1>6, Parties DEF Assets, Balances
  <2>4. fee \in Nat /\ Out \in Nat
    BY <1>2, <1>6
  <2>5. assets'.bal[Zap][t] = frame.preOut
    <3> DEFINE held == assets.bal[Zap][t]
               out == Out
    <3>1. assets'.bal[Zap][t] = (held - fee) - (out - fee)
      BY <1>6, <2>2
    <3>2. out = held - frame.preOut /\ held \in Nat /\ out \in Nat
      BY <1>2, <1>4, <2>3
    <3> HIDE DEF held, out
    <3>3. (held - fee) - (out - fee) = frame.preOut
      BY <1>4, <2>4, <3>2
    <3>4. QED  BY <3>1, <3>3
  <2>6. assets'.bal[Recipient][t] >= assets.bal[Recipient][t] + (Out - fee)
    BY <1>6, <2>1, <2>2, <2>3
  <2>7. Received(Recipient, t) >= Out - fee /\ Received(Recipient, t) \in Int
    BY <2>1, <2>2, <2>3, <2>6 DEF Received
  <2>8. QED  BY <1>6, <2>1, <2>5, <2>7
<1>7. SignedFloor(i) \in Int
  <2>1. Spent \in Int
    <3>1. BalanceOf(Zap, InAsset(i)) \in Nat /\ frame.preIn \in Nat
      BY <1>1, <1>2, InAssetTyped, InTransaction, Parties DEF LedgerInv, Frames
    <3>2. QED  BY <3>1 DEF Spent
  <2>2. i.maxSlippageBps \in Nat /\ i.stackBps \in Nat /\ {BPS, Q96} \subseteq Nat \ {0} /\ i.minOut \in Nat
    BY <1>2, AmountsTyped
  <2>3. CASE i.kind \in {"relative", "stack"}
    <3>1. SpotBefore(i) \in Nat \ {0}
      BY <1>1, <1>2, <2>3 DEF FloorInv, Frames
    <3> DEFINE fair == FairOutput(t, Currency1[i.source], SpotBefore(i), Spent)
               kept == IF i.kind = "stack" THEN BPS - i.stackBps ELSE BPS
    <3>2. fair \in Int
      BY <2>1, <3>1, FairTyped
    <3>3. BPS - i.maxSlippageBps \in Int /\ kept \in Int /\ BPS \in Nat \ {0}
      BY <2>2
    <3>4. SignedFloor(i) = MulDiv(RelativeFloor(fair, i.maxSlippageBps), kept, BPS)
      BY <2>3 DEF SignedFloor
    <3> HIDE DEF fair, kept
    <3>5. RelativeFloor(fair, i.maxSlippageBps) \in Int
      BY <3>2, <3>3, FractionTyped DEF RelativeFloor
    <3>6. QED  BY <3>3, <3>4, <3>5, FractionTyped
  <2>4. CASE i.kind \notin {"relative", "stack"}
    BY <2>2, <2>4 DEF SignedFloor
  <2>5. QED  BY <2>3, <2>4
<1>8. CASE SettleOneShot
  <2> DEFINE fee == RelayerFee(i)
             paid == IF i.executor = NoOne THEN assets
                     ELSE [assets EXCEPT !.bal = Move(@, Zap, i.executor, t, fee)]
  <2>1. assets' = PayRecipient(paid, t, Out - fee) /\ Out - fee >= i.minOut /\ i.kind = "oneShot"
    BY <1>8 DEF SettleOneShot
  <2>2. i.executor \in Executors \cup {NoOne} /\ i.maxRelayerFee \in Nat
    BY <1>2, AmountsTyped
  <2>3. fee \in 0..Out /\ (i.executor = NoOne => fee = 0)
    BY <1>2, <2>2 DEF RelayerFee
  <2> HIDE DEF fee
  <2>4. /\ paid \in Assets
        /\ paid.bal[Zap][t] = assets.bal[Zap][t] - fee
        /\ paid.bal[Recipient][t] >= assets.bal[Recipient][t]
    <3>1. CASE i.executor = NoOne
      BY <1>2, <1>3, <2>3, <3>1, Parties
    <3>2. CASE i.executor # NoOne
      <4> DEFINE e == i.executor
                 d == [assets EXCEPT !.bal = Move(@, Zap, e, t, fee)]
      <4>1. e \in Holders /\ Zap # e /\ fee \in Nat /\ fee <= assets.bal[Zap][t]
        BY <1>2, <1>3, <2>2, <2>3, <3>2, Parties DEF CloneUnpaid
      <4> HIDE DEF e
      <4>2. /\ d \in Assets
            /\ d.bal[Zap][t] = assets.bal[Zap][t] - fee
            /\ d.bal[e][t] = assets.bal[e][t] + fee
            /\ \A h \in Holders, u \in Tokens : (h \notin {Zap, e}) \/ u # t => d.bal[h][u] = assets.bal[h][u]
        BY <1>2, <4>1, Parties, TransferredExactly
      <4> HIDE DEF d
      <4>3. Recipient # Zap /\ Recipient \in Holders
        BY Parties DEF CloneUnpaid
      <4>4. d.bal[Recipient][t] >= assets.bal[Recipient][t]
        BY <1>2, <1>3, <4>1, <4>2, <4>3
      <4>5. paid = d
        BY <3>2 DEF d, e
      <4>6. QED  BY <4>2, <4>4, <4>5
    <3>3. QED  BY <3>1, <3>2
  <2> HIDE DEF paid, i
  <2>5. QED  BY <1>1, <1>5, <1>6, <1>7, <2>1, <2>3, <2>4 DEF i
<1>9. CASE SettleWithExecutorFee
  <2> DEFINE fee == ProtocolFee(Out)
             paid == PayFee(assets, t, frame.sender, fee)
  <2>1. assets' = PayRecipient(paid, t, Out - fee) /\ Out - fee >= NetFloor(i)
    BY <1>9 DEF SettleWithExecutorFee
  <2>2. fee \in 0..Out
    BY <1>2, FeeBounded
  <2>3. fee \in Nat /\ fee <= assets.bal[Zap][t]
    BY <1>2, <1>3, <2>2, Parties
  <2> HIDE DEF fee
  <2>4. /\ paid \in Assets
        /\ paid.bal[Zap][t] = assets.bal[Zap][t] - fee
        /\ paid.bal[Recipient][t] >= assets.bal[Recipient][t]
    BY <1>2, <2>3, FeePaidExactly
  <2> HIDE DEF paid, i
  <2>5. QED  BY <1>1, <1>5, <1>6, <1>7, <2>1, <2>2, <2>4 DEF i
<1>10. QED  BY <1>8, <1>9

(* The output is 0xZAPS: the slice is staked, the net amount set aside is   *)
(* paid, and what was held before stays.                                    *)
LEMMA StakeDirectlyPays ==
    ASSUME CloneUnpaid, LedgerInv, FloorInv, StakeDirectly
    PROVE  LET i == frame.intent
           IN  /\ pc = "stake" /\ pc' = "idle"
               /\ Received(Recipient, i.outAsset) >= frame.net
               /\ assets'.bal[Zap][i.outAsset] = frame.preOut
<1> DEFINE t == frame.intent.outAsset
           staked == ContributeTo(assets, t, frame.stackIn)
<1>1. pc = "stake" /\ pc' = "idle" /\ t = ZAPS /\ assets' = PayRecipient(staked, t, frame.net)
  BY DEF StakeDirectly, Return
<1>2. assets \in Assets /\ t \in Tokens /\ frame \in Frames
  BY <1>1, InTransaction DEF LedgerInv, TypeOK
<1>3. \A h \in Holders, u \in Tokens : assets.bal[h][u] \in Nat
  BY <1>2 DEF Assets, Balances
<1>4. frame.net \in Nat /\ frame.stackIn \in Nat /\ frame.preOut \in Nat
  BY <1>2 DEF Frames
<1> DEFINE held == assets.bal[Zap][t]
<1>5. held = frame.preOut + frame.net + frame.stackIn /\ held \in Nat
  BY <1>1, <1>2, <1>3, Parties DEF FloorInv, Owed, BalanceOf
<1>6. frame.stackIn <= held
  BY <1>4, <1>5
<1>7. /\ staked \in Assets /\ staked.bal[Zap][t] = held - frame.stackIn
      /\ staked.bal[Recipient][t] = assets.bal[Recipient][t]
  BY <1>2, <1>4, <1>6, ContributedExactly
<1> HIDE DEF staked, held
<1>8. frame.net <= staked.bal[Zap][t]
  BY <1>4, <1>5, <1>7
<1>9. /\ assets'.bal[Zap][t] = staked.bal[Zap][t] - frame.net
      /\ assets'.bal[Recipient][t] = staked.bal[Recipient][t] + frame.net
  BY <1>1, <1>2, <1>4, <1>7, <1>8, RecipientPaidExactly
<1>10. assets'.bal[Zap][t] = frame.preOut
  BY <1>4, <1>5, <1>7, <1>9
<1>11. Received(Recipient, t) >= frame.net
  BY <1>2, <1>3, <1>4, <1>7, <1>9, Parties DEF Received
<1>12. QED  BY <1>1, <1>10, <1>11

(* The slice was converted: the adapter took no more than it, all that came *)
(* of it is staked, and the net amount set aside is paid.                   *)
LEMMA ZAPSAdapterPays ==
    ASSUME CloneUnpaid, LedgerInv, FloorInv,
           NEW spent \in Pulls, NEW got \in Yields, NEW p, ZAPSAdapterReturns(spent, got, p)
    PROVE  LET i == frame.intent
           IN  /\ pc = "staking" /\ pc' = "idle"
               /\ Received(Recipient, i.outAsset) >= frame.net
               /\ assets'.bal[Zap][i.outAsset] >= frame.preOut
               /\ assets'.bal[Zap][ZAPS] = frame.preZaps
<1> DEFINE t == frame.intent.outAsset
           exchanged == Exchange(ZAPSAdapter, t, spent, ZAPS, got)
           zapsOut == exchanged.bal[Zap][ZAPS] - frame.preZaps
           staked == ContributeTo(exchanged, ZAPS, zapsOut)
<1>1. /\ pc = "staking" /\ pc' = "idle" /\ assets' = PayRecipient(staked, t, frame.net)
      /\ spent <= assets.allowance[ZAPSAdapter][t]
      /\ spent <= BalanceOf(Zap, t) /\ got <= BalanceOf(Venue, ZAPS)
      /\ zapsOut > 0 /\ exchanged.bal[Zap][t] >= frame.net
  BY DEF ZAPSAdapterReturns, Return
<1>2. /\ assets \in Assets /\ t \in Tokens /\ frame \in Frames /\ t # ZAPS
      /\ ZAPS \in Tokens /\ ZAPSAdapter \in Adapters /\ spent \in Nat /\ got \in Nat
  BY <1>1, InTransaction, AmountsTyped DEF LedgerInv, TypeOK
<1>3. \A h \in Holders, u \in Tokens : assets.bal[h][u] \in Nat
  BY <1>2 DEF Assets, Balances
<1>4. frame.net \in Nat /\ frame.stackIn \in Nat /\ frame.preOut \in Nat /\ frame.preZaps \in Nat
  BY <1>2 DEF Frames
<1>5. /\ frame.net > 0 /\ assets.allowance[ZAPSAdapter][t] = frame.stackIn
      /\ BalanceOf(Zap, t) \in {0, frame.preOut + frame.net + frame.stackIn}
  BY <1>1 DEF FloorInv, Owed
<1>6. /\ exchanged \in Assets
      /\ exchanged.bal[Zap][t] = BalanceOf(Zap, t) - spent
      /\ exchanged.bal[Recipient][t] >= BalanceOf(Recipient, t)
  BY <1>1, <1>2, ExchangedExactly
<1> HIDE DEF exchanged
<1>7. \A h \in Holders, u \in Tokens : exchanged.bal[h][u] \in Nat
  BY <1>6 DEF Assets, Balances
<1>8. zapsOut \in Nat /\ zapsOut <= exchanged.bal[Zap][ZAPS]
  BY <1>1, <1>2, <1>4, <1>7, Parties
<1> HIDE DEF zapsOut
<1>9. /\ staked \in Assets
      /\ staked.bal[Zap][ZAPS] = exchanged.bal[Zap][ZAPS] - zapsOut
      /\ \A u \in Tokens : u # ZAPS => staked.bal[Zap][u] = exchanged.bal[Zap][u]
      /\ \A u \in Tokens : staked.bal[Recipient][u] = exchanged.bal[Recipient][u]
  BY <1>2, <1>6, <1>8, ContributedExactly
<1> HIDE DEF staked
<1>10. frame.net <= staked.bal[Zap][t]
  BY <1>1, <1>2, <1>9
<1>11. /\ assets'.bal[Zap][t] = staked.bal[Zap][t] - frame.net
       /\ assets'.bal[Recipient][t] = staked.bal[Recipient][t] + frame.net
       /\ \A u \in Tokens : u # t => assets'.bal[Zap][u] = staked.bal[Zap][u]
  <2>1. /\ staked \in Assets /\ t \in Tokens /\ frame.net \in Nat
        /\ frame.net <= staked.bal[Zap][t] /\ assets' = PayRecipient(staked, t, frame.net)
    BY <1>1, <1>2, <1>4, <1>9, <1>10
  <2> HIDE DEF t
  <2>2. QED  BY <2>1, RecipientPaidExactly
<1>12. assets'.bal[Zap][ZAPS] = frame.preZaps
  <2>1. exchanged.bal[Zap][ZAPS] \in Nat
    BY <1>2, <1>7, Parties
  <2>2. assets'.bal[Zap][ZAPS] = exchanged.bal[Zap][ZAPS] - (exchanged.bal[Zap][ZAPS] - frame.preZaps)
    BY <1>2, <1>9, <1>11 DEF zapsOut
  <2>3. QED  BY <1>4, <2>1, <2>2
<1>13. assets'.bal[Zap][t] >= frame.preOut
  <2>1. BalanceOf(Zap, t) - spent >= frame.net /\ spent <= frame.stackIn
    BY <1>1, <1>5, <1>6
  <2>2. BalanceOf(Zap, t) = frame.preOut + frame.net + frame.stackIn
    BY <1>2, <1>4, <1>5, <2>1
  <2>3. assets'.bal[Zap][t] = (BalanceOf(Zap, t) - spent) - frame.net
    BY <1>2, <1>6, <1>9, <1>11
  <2>4. QED  BY <1>2, <1>4, <2>1, <2>2, <2>3
<1>14. Received(Recipient, t) >= frame.net
  <2>1. /\ assets'.bal[Recipient][t] = exchanged.bal[Recipient][t] + frame.net
        /\ exchanged.bal[Recipient][t] >= assets.bal[Recipient][t]
        /\ exchanged.bal[Recipient][t] \in Nat /\ assets.bal[Recipient][t] \in Nat
    BY <1>2, <1>3, <1>6, <1>7, <1>9, <1>11, Parties DEF BalanceOf
  <2>2. QED  BY <1>4, <2>1 DEF Received
<1>15. QED  BY <1>1, <1>12, <1>13, <1>14

(* Only a completed payout is counted, and it is the frame's.               *)
LEMMA PayingSteps ==
    ASSUME LedgerInv, [Next]_vars, NEW i \in Intents, Pays(i)
    PROVE  /\ i = frame.intent
           /\ \/ SettleOneShot \/ SettleWithExecutorFee \/ StakeDirectly
              \/ \E spent \in Pulls, got \in Yields, p \in [Sources -> Prices] : ZAPSAdapterReturns(spent, got, p)
<1>1. uses \in [Intents -> Nat] /\ uses'[i] # uses[i]
  BY DEF LedgerInv, TypeOK, Pays
<1>2. CASE Submit
  BY <1>1, <1>2 DEF Submit, Execute, ExecuteRecurring, ExecuteRecurringRelative, ExecuteRecurringStack,
                    ExecuteTrigger, Enter
<1>3. CASE Run
  <2>1. ASSUME Return(frame.intent) PROVE i = frame.intent
    BY <1>1, <2>1 DEF Return
  <2>2. CASE SettleOneShot \/ SettleWithExecutorFee \/ StakeDirectly
    BY <2>1, <2>2 DEF SettleOneShot, SettleWithExecutorFee, StakeDirectly
  <2>3. CASE \E spent \in Pulls, got \in Yields, p \in [Sources -> Prices] : ZAPSAdapterReturns(spent, got, p)
    BY <2>1, <2>3 DEF ZAPSAdapterReturns
  <2>4. ASSUME \/ CallAdapter \/ SettleStack \/ CallZAPSAdapter \/ Revert
               \/ \E spent \in Pulls, got \in Yields, p \in [Sources -> Prices] : AdapterReturns(spent, got, p)
        PROVE  FALSE
    BY <1>1, <2>4 DEF CallAdapter, SettleStack, CallZAPSAdapter, Revert, AdapterReturns
  <2>5. QED  BY <1>3, <2>2, <2>3, <2>4 DEF Run
<1>4. CASE OwnerCalls \/ Environment \/ UNCHANGED vars
  BY <1>1, <1>4 DEF OwnerCalls, HaltPolicy, InvalidateNonce, EmergencyExit, Environment, Fund, ReceiveNative,
                    SetAllowed, MarketMoves, Tick, vars
<1>5. QED  BY <1>2, <1>3, <1>4 DEF Next

(* I-FLOW-2 for every policy, market and adapter: _settle, _stackOutput and *)
(* _settleRelative pay at least what the owner signed.                      *)
THEOREM FloorTheorem ==
    ASSUME CloneUnpaid PROVE Spec => PayoutHonoursFloor
<1>1. ASSUME LedgerInv, FloorInv, [Next]_vars, pc = "settle", pc' = "stake"
      PROVE  frame'.net >= SignedFloor(frame.intent)
  <2>1. SettleStack
    BY <1>1 DEF Next, Submit, Execute, ExecuteRecurring, ExecuteRecurringRelative, ExecuteRecurringStack,
                ExecuteTrigger, Admissible, Run, CallAdapter, AdapterReturns, SettleOneShot, SettleWithExecutorFee,
                StakeDirectly, CallZAPSAdapter, ZAPSAdapterReturns, Revert, Return, OwnerCalls, HaltPolicy,
                InvalidateNonce, EmergencyExit, Environment, Fund, ReceiveNative, SetAllowed, MarketMoves, Tick, vars
  <2>2. frame \in Frames
    BY <1>1, InTransaction DEF LedgerInv
  <2>3. frame'.net >= NetFloor(frame.intent)
    BY <2>1, <2>2 DEF SettleStack, Frames
  <2>4. QED  BY <1>1, <2>3, FloorIsSigned
<1>2. ASSUME LedgerInv, FloorInv, [Next]_vars, NEW i \in Intents, Pays(i)
      PROVE  Received(Recipient, i.outAsset) >= IF pc = "settle" THEN SignedFloor(i) ELSE frame.net
  <2>1. i = frame.intent
    BY <1>2, PayingSteps
  <2>2. CASE SettleOneShot \/ SettleWithExecutorFee
    BY <1>2, <2>1, <2>2, SettlePays
  <2>3. CASE StakeDirectly
    BY <1>2, <2>1, <2>3, StakeDirectlyPays
  <2>4. CASE \E spent \in Pulls, got \in Yields, p \in [Sources -> Prices] : ZAPSAdapterReturns(spent, got, p)
    BY <1>2, <2>1, <2>4, ZAPSAdapterPays
  <2>5. QED  BY <1>2, <2>2, <2>3, <2>4, PayingSteps
<1>3. LedgerInv /\ FloorInv /\ [Next]_vars => [FloorHonoured]_vars
  BY <1>1, <1>2 DEF FloorHonoured
<1>4. QED  BY <1>3, LedgerInvariant, FloorInvariant, PTL DEF Spec, PayoutHonoursFloor

(* I-FLOW-4: what the clone held before a run is never paid out as that     *)
(* run's output, and only a slice the pinned adapter declined stays behind. *)
THEOREM DustTheorem ==
    ASSUME CloneUnpaid PROVE Spec => DustStays
<1>1. ASSUME LedgerInv, FloorInv, [Next]_vars, NEW i \in Intents, Pays(i)
      PROVE  /\ assets'.bal[Zap][i.outAsset] >= frame.preOut
             /\ pc # "staking" => assets'.bal[Zap][i.outAsset] = frame.preOut
             /\ pc = "staking" => assets'.bal[Zap][ZAPS] = frame.preZaps
  <2>1. i = frame.intent
    BY <1>1, PayingSteps
  <2>2. pc # "idle" => frame.preOut \in Nat
    BY <1>1, InTransaction DEF LedgerInv, Frames
  <2>3. CASE SettleOneShot \/ SettleWithExecutorFee
    BY <1>1, <2>1, <2>2, <2>3, SettlePays
  <2>4. CASE StakeDirectly
    BY <1>1, <2>1, <2>2, <2>4, StakeDirectlyPays
  <2>5. CASE \E spent \in Pulls, got \in Yields, p \in [Sources -> Prices] : ZAPSAdapterReturns(spent, got, p)
    BY <1>1, <2>1, <2>5, ZAPSAdapterPays
  <2>6. QED  BY <1>1, <2>3, <2>4, <2>5, PayingSteps
<1>2. LedgerInv /\ FloorInv /\ [Next]_vars => [DustKept]_vars
  BY <1>1 DEF DustKept
<1>3. QED  BY <1>2, LedgerInvariant, FloorInvariant, PTL DEF Spec, DustStays
=============================================================================
