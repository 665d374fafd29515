-------------------------- MODULE LeadOutboxProofs --------------------------
(***************************************************************************)
(* Machine-checked: however many runs of the notification workflow         *)
(* overlap, die, repeat their steps and take over from each other, a lead  *)
(* is mailed at most once, is settled only if it was mailed, and its       *)
(* outcome stays.                                                          *)
(***************************************************************************)
EXTENDS LeadOutbox, FiniteSetTheorems, TLAPS

(* Nothing has been asked of the provider yet.                              *)
LEMMA OutboxInit == Init => OutboxInv
BY OutboxSetting DEF Init, OutboxInv, Rows, Runs, Idle, NoRow, Settled, SettledWasMailed, Mailed

(* A run that ends or goes on asking holds no evidence to keep.             *)
LEMMA RunGoesOn ==
    ASSUME OutboxInv, NEW w \in Workers, NEW next \in Runs, Goes(w, next),
           next.step \in {"complete", "fail"} => Mailed(next.lead)
    PROVE  /\ run' \in [Workers -> Runs]
           /\ \A v \in Workers : run'[v].step \in {"complete", "fail"} => Mailed(run'[v].lead)
BY DEF OutboxInv, Goes

(* The end of a run leaves every row's status as it was.                    *)
LEMMA RunEnds ==
    ASSUME OutboxInv, NEW w \in Workers, EndRun(w)
    PROVE  /\ row' \in [Leads -> Rows]
           /\ \A l \in Leads : row'[l].status = row[l].status
           /\ run' \in [Workers -> Runs]
           /\ \A v \in Workers : run'[v].step \in {"complete", "fail"} => Mailed(run'[v].lead)
<1>1. ASSUME NEW l \in Leads
      PROVE  /\ row[l] \in Rows
             /\ [row[l] EXCEPT !.claimed_by = Ended] \in Rows
             /\ [row[l] EXCEPT !.claimed_by = Ended].status = row[l].status
  BY DEF OutboxInv, Rows
<1>2. /\ row' \in [Leads -> Rows]
      /\ \A l \in Leads : row'[l].status = row[l].status
  BY <1>1 DEF EndRun
<1>3. Idle \in Runs /\ Idle.step \notin {"complete", "fail"} /\ Goes(w, Idle)
  BY DEF Runs, Idle, EndRun
<1>4. QED  BY <1>2, <1>3, RunGoesOn

(* Where a run may go after a claim, a failed send and a completion.        *)
LEMMA NextStops ==
    ASSUME OutboxInv, NEW w \in Workers
    PROVE  /\ At(w, "claim") => \A l \in Leads : Claimed(w, l) \in Runs /\ Claimed(w, l).step = "send"
           /\ At(w, "send") =>
                 /\ run[w].lead \in Leads
                 /\ Retry(w) \in Runs /\ Retry(w).step = "claim"
                 /\ \A s \in {"complete", "fail"} :
                       /\ [run[w] EXCEPT !.step = s] \in Runs
                       /\ [run[w] EXCEPT !.step = s].lead = run[w].lead
           /\ run[w].step \in {"complete", "fail"} =>
                 /\ run[w].lead \in Leads
                 /\ \A l \in Leads : Completed(w, l) \in Runs /\ Completed(w, l).step \in {"idle", "claim"}
<1>1. run[w] \in Runs
  BY DEF OutboxInv
<1>2. At(w, "claim") => \A l \in Leads : Claimed(w, l) \in Runs /\ Claimed(w, l).step = "send"
  BY <1>1 DEF At, Runs, Idle, Claimed
<1>3. ASSUME run[w].step \in {"send", "complete", "fail"}
      PROVE  run[w] \in [step : {"send", "complete", "fail"}, count : Nat, tries : Nat, lead : Leads]
  BY <1>1, <1>3 DEF Runs, Idle
<1>4. At(w, "send") => Retry(w) \in Runs /\ Retry(w).step = "claim"
  BY <1>3 DEF At, Runs, Retry, Asking
<1>5. At(w, "send") =>
        /\ run[w].lead \in Leads
        /\ \A s \in {"complete", "fail"} :
              /\ [run[w] EXCEPT !.step = s] \in Runs
              /\ [run[w] EXCEPT !.step = s].lead = run[w].lead
  BY <1>3 DEF At, Runs
<1>6. ASSUME run[w].step \in {"complete", "fail"}, NEW l \in Leads
      PROVE  Completed(w, l) \in Runs /\ Completed(w, l).step \in {"idle", "claim"}
  BY <1>3, <1>6, OutboxSetting DEF Completed, Asking, Idle, Runs
<1>7. run[w].step \in {"complete", "fail"} => run[w].lead \in Leads
  BY <1>3
<1>8. QED  BY <1>2, <1>4, <1>5, <1>6, <1>7

(* The provider takes one mail of a lead it has none of, or gives the       *)
(* answer it gave before.                                                   *)
LEMMA ProviderTakes ==
    ASSUME OutboxInv, NEW w \in Workers, NEW l \in Leads, Answers(w, l),
           accepted' = accepted \cup {Mail(w, l)}
    PROVE  /\ accepted' \subseteq [key : Leads, lead : Leads, outdated : BOOLEAN]
           /\ \A m \in accepted' : m.key = m.lead
           /\ \A m, n \in accepted' : m.key = n.key => m = n
           /\ \A k \in Leads : Mailed(k) => Mailed(k)'
           /\ Mailed(l)'
<1>1. Mail(w, l) \in [key : Leads, lead : Leads, outdated : BOOLEAN]
      /\ Mail(w, l).key = l /\ Mail(w, l).lead = l
  BY DEF Mail, leadNotificationIdempotencyKey
<1>2. \A m \in accepted : m.key = l => m = Mail(w, l)
  BY <1>1 DEF Answers, Taken, leadNotificationIdempotencyKey, OutboxInv
<1>3. QED  BY <1>1, <1>2 DEF OutboxInv, Mailed

(* A claimed row is in work, whoever had it.                                *)
LEMMA ClaimKeeps ==
    ASSUME OutboxInv, NEW w \in Workers, NEW l \in Leads, NEW next \in Runs,
           next.step \notin {"complete", "fail"}, Claim(w, l, next)
    PROVE  OutboxInv'
<1>1. /\ row' \in [Leads -> Rows]
      /\ \A k \in Leads : row'[k].status \in Settled => row[k].status \in Settled
  BY DEF Claim, OutboxInv, Rows, Settled
<1>2. QED  BY <1>1, RunGoesOn DEF Claim, OutboxInv, SettledWasMailed, Mailed

(* An outcome is recorded of a lead that was mailed.                        *)
LEMMA SettleKeeps ==
    ASSUME OutboxInv, NEW l \in Leads, NEW status \in Settled, Mailed(l), Settle(l, status)
    PROVE  /\ row' \in [Leads -> Rows]
           /\ \A k \in Leads : row'[k].status \in Settled => Mailed(k)
BY DEF Settle, OutboxInv, SettledWasMailed, Mailed, Rows

(* What happens outside the drain keeps the invariant.                      *)
LEMMA OutsideStep ==
    ASSUME OutboxInv, \/ \E l \in Leads : Submit(l) \/ LeaseExpires(l) \/ Delete(l)
                      \/ Deploy
    PROVE  OutboxInv'
<1>1. ASSUME NEW l \in Leads, Submit(l) PROVE OutboxInv'
  <2>1. /\ row' \in [Leads -> Rows]
        /\ \A k \in Leads : row'[k].status \in Settled => row[k].status \in Settled
    BY <1>1 DEF Submit, OutboxInv, Rows, Settled
  <2>2. UNCHANGED <<run, accepted>>
    BY <1>1 DEF Submit
  <2>3. QED  BY <2>1, <2>2 DEF OutboxInv, SettledWasMailed, Mailed
<1>2. ASSUME NEW l \in Leads, LeaseExpires(l) PROVE OutboxInv'
  <2>1. /\ row' \in [Leads -> Rows]
        /\ \A k \in Leads : row'[k].status = row[k].status
    BY <1>2 DEF LeaseExpires, OutboxInv, Rows
  <2>2. UNCHANGED <<run, accepted>>
    BY <1>2 DEF LeaseExpires
  <2>3. QED  BY <2>1, <2>2 DEF OutboxInv, SettledWasMailed, Mailed
<1>3. ASSUME NEW l \in Leads, Delete(l) PROVE OutboxInv'
  <2>1. /\ row' \in [Leads -> Rows]
        /\ \A k \in Leads : row'[k].status \in Settled => row[k].status \in Settled
    BY <1>3 DEF Delete, NoRow, OutboxInv, Rows, Settled
  <2>2. UNCHANGED <<run, accepted>>
    BY <1>3 DEF Delete
  <2>3. QED  BY <2>1, <2>2 DEF OutboxInv, SettledWasMailed, Mailed
<1>4. ASSUME Deploy PROVE OutboxInv'
  <2> DEFINE Old(m) == [m EXCEPT !.outdated = TRUE]
  <2>1. \A m \in accepted : /\ Old(m) \in [key : Leads, lead : Leads, outdated : BOOLEAN]
                            /\ Old(m).key = m.key /\ Old(m).lead = m.lead
    BY DEF OutboxInv
  <2>2. accepted' = {Old(m) : m \in accepted}
    BY <1>4 DEF Deploy
  <2>3. \A l \in Leads : Mailed(l) => Mailed(l)'
    BY <2>1, <2>2 DEF Mailed
  <2>4. /\ accepted' \subseteq [key : Leads, lead : Leads, outdated : BOOLEAN]
        /\ \A m \in accepted' : m.key = m.lead
        /\ \A m, n \in accepted' : m.key = n.key => m = n
    BY <2>1, <2>2 DEF OutboxInv
  <2>5. \A w \in Workers : run[w].step \in {"complete", "fail"} => run[w].lead \in Leads
    BY NextStops
  <2>6. QED  BY <1>4, <2>3, <2>4, <2>5 DEF Deploy, OutboxInv, SettledWasMailed, Mailed
<1>5. QED  BY <1>1, <1>2, <1>3, <1>4

(* Every step of a run keeps the invariant.                                 *)
LEMMA RunStep ==
    ASSUME OutboxInv, NEW w \in Workers,
           \/ StartRun(w) \/ GiveUp(w) \/ ClaimEmpty(w) \/ ClaimAnswerLost(w)
           \/ SendRetryable(w) \/ CompleteAnswerLost(w) \/ OwnershipLost(w)
    PROVE  OutboxInv'
<1>1. CASE StartRun(w)
  <2>1. Asking(0, 0) \in Runs /\ Asking(0, 0).step = "claim"
    BY DEF Asking, Runs
  <2>2. QED  BY <1>1, <2>1, RunGoesOn DEF StartRun, OutboxInv, SettledWasMailed, Mailed
<1>2. CASE GiveUp(w)
  BY <1>2, RunEnds DEF GiveUp, OutboxInv, SettledWasMailed, Mailed
<1>3. CASE ClaimEmpty(w)
  BY <1>3, RunEnds DEF ClaimEmpty, OutboxInv, SettledWasMailed, Mailed
<1>4. ASSUME NEW l \in Leads, Claim(w, l, run[w]) PROVE OutboxInv'
  <2>1. run[w] \in Runs /\ run[w].step = "claim"
    BY <1>4 DEF Claim, At, OutboxInv
  <2>2. QED  BY <1>4, <2>1, ClaimKeeps
<1>5. CASE SendRetryable(w)
  <2> USE NextStops DEF SendRetryable
  <2>1. /\ row' \in [Leads -> Rows]
        /\ \A l \in Leads : row'[l].status = row[l].status
        /\ run' \in [Workers -> Runs]
        /\ \A v \in Workers : run'[v].step \in {"complete", "fail"} => Mailed(run'[v].lead)
    <3>1. CASE run[w].tries < maxRetries
      BY <1>5, <3>1, RunGoesOn DEF OutboxInv
    <3>2. CASE ~(run[w].tries < maxRetries)
      BY <1>5, <3>2, RunEnds
    <3>3. QED  BY <3>1, <3>2
  <2>2. run[w].lead \in Leads
    BY <1>5
  <2>3. /\ accepted' \subseteq [key : Leads, lead : Leads, outdated : BOOLEAN]
        /\ \A m \in accepted' : m.key = m.lead
        /\ \A m, n \in accepted' : m.key = n.key => m = n
        /\ \A k \in Leads : Mailed(k) => Mailed(k)'
    BY <1>5, <2>2, ProviderTakes DEF OutboxInv, Mailed
  <2>4. \A v \in Workers : run'[v].step \in {"complete", "fail"} => run'[v].lead \in Leads
    BY <2>1 DEF Runs, Idle
  <2>5. QED  BY <2>1, <2>3, <2>4 DEF OutboxInv, SettledWasMailed, Mailed
<1>6. CASE CompleteAnswerLost(w)
  <2>1. run[w].lead \in Leads /\ Mailed(run[w].lead) /\ Settle(run[w].lead, "sent")
    BY <1>6, NextStops DEF CompleteAnswerLost, At, OutboxInv
  <2>2. /\ row' \in [Leads -> Rows]
        /\ \A k \in Leads : row'[k].status \in Settled => Mailed(k)
    BY <2>1, SettleKeeps DEF Settled
  <2>3. QED  BY <1>6, <2>2 DEF CompleteAnswerLost, OutboxInv, SettledWasMailed, Mailed
<1>7. CASE OwnershipLost(w)
  BY <1>7, RunEnds DEF OwnershipLost, OutboxInv, SettledWasMailed, Mailed
<1>8. QED  BY <1>1, <1>2, <1>3, <1>4, <1>5, <1>6, <1>7 DEF ClaimAnswerLost

(* Every step of a run with the lead it is at keeps it too.                 *)
LEMMA LeadStep ==
    ASSUME OutboxInv, NEW w \in Workers, NEW l \in Leads,
           \/ Claim(w, l, Claimed(w, l))
           \/ SendAccepted(w, l) \/ SendRejected(w, l)
           \/ Complete(w, l)
           \/ \E next \in {Idle, Asking(0, maxRetries)} : FailPermanently(w, l, next)
    PROVE  OutboxInv'
<1> USE NextStops
<1>1. CASE Claim(w, l, Claimed(w, l))
  <2>1. Claimed(w, l) \in Runs /\ Claimed(w, l).step = "send"
    BY <1>1 DEF Claim
  <2>2. QED  BY <1>1, <2>1, ClaimKeeps
<1>2. CASE SendAccepted(w, l)
  <2> DEFINE next == [run[w] EXCEPT !.step = "complete"]
  <2>1. next \in Runs /\ next.lead = l /\ Goes(w, next)
    BY <1>2 DEF SendAccepted
  <2>2. /\ accepted' \subseteq [key : Leads, lead : Leads, outdated : BOOLEAN]
        /\ \A m \in accepted' : m.key = m.lead
        /\ \A m, n \in accepted' : m.key = n.key => m = n
        /\ \A k \in Leads : Mailed(k) => Mailed(k)'
        /\ Mailed(l)'
    BY <1>2, ProviderTakes DEF SendAccepted
  <2>3. run' \in [Workers -> Runs] /\ \A v \in Workers : v # w => run'[v] = run[v]
    BY <2>1 DEF Goes, OutboxInv
  <2>4. run'[w] = next
    BY <2>1 DEF Goes, OutboxInv
  <2>5. \A v \in Workers : run'[v].step \in {"complete", "fail"} =>
            run'[v].lead \in Leads /\ (v = w => run'[v].lead = l)
    BY <2>1, <2>3, <2>4 DEF Runs, Idle
  <2>6. ASSUME NEW v \in Workers, run'[v].step \in {"complete", "fail"}
        PROVE  \E m \in accepted' : m.lead = run'[v].lead
    <3>1. CASE v = w
      BY <2>2, <2>5, <2>6, <3>1 DEF Mailed
    <3>2. CASE v # w
      <4>1. run'[v].lead \in Leads /\ Mailed(run'[v].lead)
        BY <2>3, <2>5, <2>6, <3>2 DEF OutboxInv
      <4>2. QED  BY <2>2, <4>1 DEF Mailed
    <3>3. QED  BY <3>1, <3>2
  <2>7. row' = row
    BY <1>2 DEF SendAccepted
  <2>8. QED  BY <2>2, <2>3, <2>6, <2>7 DEF OutboxInv, SettledWasMailed, Mailed
<1>3. CASE SendRejected(w, l)
  <2> DEFINE next == [run[w] EXCEPT !.step = "fail"]
  <2>1. next \in Runs /\ next.lead = l /\ Goes(w, next)
    BY <1>3 DEF SendRejected
  <2>2. Mailed(l)
    BY <1>3 DEF SendRejected, Taken, leadNotificationIdempotencyKey, OutboxInv, Mailed
  <2>3. /\ run' \in [Workers -> Runs]
        /\ \A v \in Workers : run'[v].step \in {"complete", "fail"} => Mailed(run'[v].lead)
    BY <2>1, <2>2, RunGoesOn
  <2>4. QED  BY <1>3, <2>3 DEF SendRejected, OutboxInv, SettledWasMailed, Mailed
<1>4. CASE Complete(w, l)
  <2>1. /\ Completed(w, l) \in Runs /\ Completed(w, l).step \notin {"complete", "fail"}
        /\ Goes(w, Completed(w, l)) /\ Mailed(l)
    BY <1>4 DEF Complete, At, OutboxInv
  <2>2. /\ row' \in [Leads -> Rows]
        /\ \A k \in Leads : row'[k].status \in Settled => Mailed(k)
    <3>1. CASE Settle(l, "sent")
      BY <2>1, <3>1, SettleKeeps DEF Settled
    <3>2. CASE UNCHANGED row
      BY <3>2 DEF OutboxInv, SettledWasMailed, Mailed
    <3>3. QED  BY <1>4, <3>1, <3>2 DEF Complete
  <2>3. QED  BY <1>4, <2>1, <2>2, RunGoesOn DEF Complete, OutboxInv, SettledWasMailed, Mailed
<1>5. ASSUME NEW next \in {Idle, Asking(0, maxRetries)}, FailPermanently(w, l, next)
      PROVE  OutboxInv'
  <2>1. next \in Runs /\ next.step \notin {"complete", "fail"}
    BY <1>5, OutboxSetting DEF Idle, Asking, Runs
  <2>2. Goes(w, next) /\ Mailed(l)
    BY <1>5 DEF FailPermanently, At, OutboxInv
  <2>3. /\ row' \in [Leads -> Rows]
        /\ \A k \in Leads : row'[k].status \in Settled => Mailed(k)
    BY <1>5, <2>2, SettleKeeps DEF FailPermanently, Settled
  <2>4. QED  BY <1>5, <2>1, <2>2, <2>3, RunGoesOn DEF FailPermanently, OutboxInv, SettledWasMailed, Mailed
<1>6. QED  BY <1>1, <1>2, <1>3, <1>4, <1>5

(* No step of a worker, a visitor or the platform breaks the invariant.     *)
LEMMA OutboxStep == OutboxInv /\ [Next]_vars => OutboxInv'
<1>1. UNCHANGED vars /\ OutboxInv => OutboxInv'
  BY DEF vars, OutboxInv, SettledWasMailed, Mailed
<1>2. QED  BY <1>1, OutsideStep, RunStep, LeadStep DEF Next

(* The keyed mails of the provider, of whom at most one is a lead's.        *)
LEMMA OneKeyOneMail == OutboxInv => OneMailPerLead
<1> SUFFICES ASSUME OutboxInv, NEW l \in Leads
             PROVE  Cardinality({m \in accepted : m.lead = l}) <= 1
  BY DEF OneMailPerLead
<1> DEFINE Mails == {m \in accepted : m.lead = l}
<1>1. Mails = {} \/ \E m \in Mails : Mails = {m}
  BY DEF OutboxInv
<1>2. Cardinality(Mails) = 0 \/ Cardinality(Mails) = 1
  BY <1>1, FS_EmptySet, FS_Singleton
<1>3. QED  BY <1>2

(* An outcome is overwritten by none of them: a claim takes only rows that  *)
(* are pending or in work, an outcome is recorded only over the latter.     *)
LEMMA OutcomeStep ==
    ASSUME OutboxInv, [Next]_vars, NEW l \in Leads, row[l].status \in Settled
    PROVE  row'[l].status \in {row[l].status, "none"}
<1> DEFINE Kept == row'[l].status \in {row[l].status, "none"}
<1>1. row \in [Leads -> Rows]
  BY DEF OutboxInv
<1>2. row[l].status # "pending" /\ row[l].status # "processing" /\ row[l].status # "none"
  BY DEF Settled
<1>3. UNCHANGED row => Kept
  OBVIOUS
<1>4. ASSUME NEW k \in Leads, Submit(k) \/ LeaseExpires(k) \/ Delete(k) PROVE Kept
  BY <1>1, <1>2, <1>4 DEF Submit, LeaseExpires, Delete, NoRow
<1>5. ASSUME NEW w \in Workers, EndRun(w) PROVE Kept
  BY <1>5, RunEnds
<1>6. ASSUME NEW w \in Workers, NEW k \in Leads, NEW next, Claim(w, k, next) PROVE Kept
  BY <1>1, <1>2, <1>6 DEF Claim, Candidate, Claimable
<1>7. ASSUME NEW w \in Workers, NEW k \in Leads, NEW status, Owns(k, w), Settle(k, status) PROVE Kept
  BY <1>1, <1>2, <1>7 DEF Owns, Processing, Settle
<1>8. ASSUME NEW w \in Workers,
             \/ StartRun(w) \/ GiveUp(w) \/ ClaimEmpty(w) \/ ClaimAnswerLost(w)
             \/ SendRetryable(w) \/ CompleteAnswerLost(w) \/ OwnershipLost(w)
      PROVE  Kept
  <2>1. CASE CompleteAnswerLost(w)
    <3>1. run[w].lead \in Leads
      BY <2>1, NextStops DEF CompleteAnswerLost, At
    <3>2. QED  BY <2>1, <3>1, <1>7 DEF CompleteAnswerLost
  <2>2. QED
    BY <1>3, <1>5, <1>6, <1>8, <2>1
    DEF StartRun, GiveUp, ClaimEmpty, ClaimAnswerLost, SendRetryable, OwnershipLost
<1>9. ASSUME NEW w \in Workers, NEW k \in Leads,
             \/ Claim(w, k, Claimed(w, k))
             \/ SendAccepted(w, k) \/ SendRejected(w, k)
             \/ Complete(w, k)
             \/ \E next \in {Idle, Asking(0, maxRetries)} : FailPermanently(w, k, next)
      PROVE  Kept
  BY <1>3, <1>6, <1>7, <1>9 DEF SendAccepted, SendRejected, Complete, FailPermanently
<1>10. QED  BY <1>3, <1>4, <1>8, <1>9 DEF Next, Deploy, vars

(* For any number of leads and runs, any retry budget and any provider.     *)
LEMMA OutboxInvariant == Spec => []OutboxInv
<1>1. QED  BY OutboxInit, OutboxStep, PTL DEF Spec

(* "sends one plain-text message": however runs overlap, die and take over  *)
(* from each other, a lead is mailed at most once.                          *)
THEOREM OneMailPerLeadTheorem == Spec => []OneMailPerLead
<1>1. QED  BY OutboxInvariant, OneKeyOneMail, PTL

(* No lead is given up unmailed.                                            *)
THEOREM SettledWasMailedTheorem == Spec => []SettledWasMailed
<1>1. OutboxInv => SettledWasMailed
  BY DEF OutboxInv
<1>2. QED  BY OutboxInvariant, <1>1, PTL

(* No late worker takes a recorded outcome back.                            *)
THEOREM OutcomesFinalTheorem == Spec => OutcomesFinal
<1>1. OutboxInv /\ [Next]_vars =>
        [\A l \in Leads : row[l].status \in Settled => row'[l].status \in {row[l].status, "none"}]_vars
  BY OutcomeStep
<1>2. QED  BY OutboxInvariant, <1>1, PTL DEF Spec, OutcomesFinal
=============================================================================
