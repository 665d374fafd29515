----------------------------- MODULE LeadOutbox -----------------------------
(***************************************************************************)
(* The notification outbox of accepted leads: the table and its three      *)
(* functions (20260730144125_lead_submission_notification_outbox.sql), the *)
(* workflow that drains it (workflows/lead-notification) and the mail      *)
(* provider as notification-email.ts uses it.                              *)
(*                                                                         *)
(* A database function is one transaction, one action.  A workflow step    *)
(* runs at least once: until its answer is recorded it may run again from  *)
(* the top, and after five retries, or on a FatalError, the run is over.   *)
(* A run's identifier is never used again, so runs that are over need one  *)
(* name between them.                                                      *)
(***************************************************************************)
EXTENDS Integers, Sequences, FiniteSets

CONSTANTS
    Leads, Workers,             \* lead_requests rows; workflow runs at work
    Ended,                      \* the identifier of a run that is over
    MAX_NOTIFICATIONS_PER_RUN, maxRetries,
    Refused,                    \* leads whose mail the provider answers 4xx for ever
    MaxStalls                   \* bound: leases that lapse under a live run

ASSUME OutboxSetting ==
    /\ Ended \notin Workers /\ Refused \subseteq Leads
    /\ MAX_NOTIFICATIONS_PER_RUN \in Nat \ {0} /\ maxRetries \in Nat /\ MaxStalls \in Nat

VARIABLES
    arrived,    \* leads in the order of created_at, which next_attempt_at keeps
    row,        \* lead_notification_outbox
    run,        \* where each workflow run is
    accepted,   \* the provider: mails it took, by idempotency key
    stalls      \* leases that lapsed under a live run

vars == <<arrived, row, run, accepted, stalls>>

NoRow == [status |-> "none", claimed_by |-> Ended, expired |-> FALSE]
Idle == [step |-> "idle"]
Asking(count, tries) == [step |-> "claim", count |-> count, tries |-> tries]

Init ==
    /\ arrived = <<>> /\ row = [l \in Leads |-> NoRow]
    /\ run = [w \in Workers |-> Idle]
    /\ accepted = {} /\ stalls = 0

----------------------------------------------------------------------------
(* Outside the drain: the intake's insert and its trigger, the lease's      *)
(* clock, the operator's or the retention's delete, and a deployment.       *)
Submit(l) ==
    /\ row[l].status = "none" /\ \A i \in DOMAIN arrived : arrived[i] # l
    /\ arrived' = Append(arrived, l)
    /\ row' = [row EXCEPT ![l].status = "pending"]
    /\ UNCHANGED <<run, accepted, stalls>>

LeaseExpires(l) ==
    /\ row[l].status = "processing" /\ ~row[l].expired
    /\ row' = [row EXCEPT ![l].expired = TRUE]
    /\ stalls' = IF row[l].claimed_by = Ended THEN stalls ELSE stalls + 1
    /\ stalls' <= MaxStalls
    /\ UNCHANGED <<arrived, run, accepted>>

Delete(l) ==
    /\ row[l].status # "none"
    /\ row' = [row EXCEPT ![l] = NoRow]
    /\ UNCHANGED <<arrived, run, accepted, stalls>>

(* From here on a lead is rendered as a different mail.                     *)
Deploy ==
    /\ accepted' = {[m EXCEPT !.outdated = TRUE] : m \in accepted}
    /\ UNCHANGED <<arrived, row, run, stalls>>

----------------------------------------------------------------------------
(* A run: the nudge after an accepted lead, or the daily recovery drain.    *)
At(w, step) == run[w].step = step
Goes(w, next) == run' = [run EXCEPT ![w] = next]

StartRun(w) ==
    /\ At(w, "idle")
    /\ Goes(w, Asking(0, 0))
    /\ UNCHANGED <<arrived, row, accepted, stalls>>

Processing(l, w) == row[l].status = "processing" /\ row[l].claimed_by = w

EndRun(w) ==
    /\ Goes(w, Idle)
    /\ row' = [l \in Leads |-> IF Processing(l, w) THEN [row[l] EXCEPT !.claimed_by = Ended] ELSE row[l]]

(* A FatalError, a retry budget spent on the database, or a run lost.       *)
GiveUp(w) ==
    /\ ~At(w, "idle")
    /\ EndRun(w)
    /\ UNCHANGED <<arrived, accepted, stalls>>

----------------------------------------------------------------------------
(* claim_next_lead_notification: the caller's own row first, then the       *)
(* oldest that is due; a row another transaction holds is skipped.          *)
(* Slip: a lease that lapsed is nobody's to take.                           *)
ClaimablePendingOnly(l, w) == row[l].status = "pending" \/ Processing(l, w)
Claimable(l, w) ==
    \/ row[l].status = "pending"
    \/ row[l].status = "processing" /\ (row[l].claimed_by = w \/ row[l].expired)

Locked(l, w) == \E v \in Workers \ {w} : run[v].step \in {"complete", "fail"} /\ run[v].lead = l

Before(l, m, w) ==
    \/ Processing(l, w) /\ ~Processing(m, w)
    \/ /\ Processing(l, w) <=> Processing(m, w)
       /\ \E i, j \in DOMAIN arrived : i < j /\ arrived[i] = l /\ arrived[j] = m

Candidate(l, w) ==
    /\ Claimable(l, w)
    /\ \A m \in Leads : Claimable(m, w) /\ Before(m, l, w) => Locked(m, w)

(* The first half of sendNextLeadNotificationStep.                          *)
Claim(w, l, next) ==
    /\ At(w, "claim") /\ Candidate(l, w)
    /\ row' = [row EXCEPT ![l] = [status |-> "processing", claimed_by |-> w, expired |-> FALSE]]
    /\ Goes(w, next)
    /\ UNCHANGED <<arrived, accepted, stalls>>

Claimed(w, l) == [step |-> "send", count |-> run[w].count, tries |-> run[w].tries, lead |-> l]
ClaimAnswerLost(w) == \E l \in Leads : Claim(w, l, run[w])

ClaimEmpty(w) ==
    /\ At(w, "claim") /\ \A l \in Leads : ~Claimable(l, w) \/ Locked(l, w)
    /\ EndRun(w)
    /\ UNCHANGED <<arrived, accepted, stalls>>

----------------------------------------------------------------------------
(* sendLeadNotificationEmail.  The provider keeps one answer per key: the   *)
(* same mail again is answered with its identifier, a different one is      *)
(* refused (invalid_idempotent_request), the only refusal with a status     *)
(* that is not tried again.                                                 *)
(* Slip: the key is made for the run, not for the lead.                     *)
KeyOfRun(w, l) == <<l, w>>
leadNotificationIdempotencyKey(w, l) == l

Mail(w, l) == [key |-> leadNotificationIdempotencyKey(w, l), lead |-> l, outdated |-> FALSE]
Taken(w, l) == \E m \in accepted : m.key = leadNotificationIdempotencyKey(w, l)
Answers(w, l) == Mail(w, l) \in accepted \/ (~Taken(w, l) /\ l \notin Refused)

SendAccepted(w, l) ==
    /\ At(w, "send") /\ run[w].lead = l /\ Answers(w, l)
    /\ accepted' = accepted \cup {Mail(w, l)}
    /\ Goes(w, [run[w] EXCEPT !.step = "complete"])
    /\ UNCHANGED <<arrived, row, stalls>>

(* A lost answer, a 4xx, 5xx or network error: the step starts again.       *)
(* Slip: an answer that was lost is taken for a delivery.                   *)
RetryAsSent(w) == [run[w] EXCEPT !.step = "complete"]
Retry(w) == Asking(run[w].count, run[w].tries + 1)

SendRetryable(w) ==
    /\ At(w, "send")
    /\ IF run[w].tries < maxRetries THEN Goes(w, Retry(w)) /\ UNCHANGED row ELSE EndRun(w)
    /\ \/ UNCHANGED accepted
       \/ Answers(w, run[w].lead) /\ accepted' = accepted \cup {Mail(w, run[w].lead)}
    /\ UNCHANGED <<arrived, stalls>>

SendRejected(w, l) ==
    /\ At(w, "send") /\ run[w].lead = l /\ Taken(w, l) /\ Mail(w, l) \notin accepted
    /\ Goes(w, [run[w] EXCEPT !.step = "fail"])
    /\ UNCHANGED <<arrived, row, accepted, stalls>>

----------------------------------------------------------------------------
(* complete_lead_notification and fail_lead_notification, and the steps     *)
(* that call them.  The lease is not asked for again, the claim is; a null  *)
(* claimed_by would pass the comparison, so the status is tested first.     *)
(* Slip: the status is not tested.                                          *)
OwnsByName(l, w) == row[l].status # "none" /\ (row[l].status = "processing" => row[l].claimed_by = w)
Owns(l, w) == Processing(l, w)

Settle(l, status) == row' = [row EXCEPT ![l] = [status |-> status, claimed_by |-> Ended, expired |-> FALSE]]

Completed(w, l) ==
    IF run[w].count + 1 < MAX_NOTIFICATIONS_PER_RUN THEN Asking(run[w].count + 1, 0) ELSE Idle

Complete(w, l) ==
    /\ At(w, "complete") /\ run[w].lead = l
    /\ \/ Owns(l, w) /\ Settle(l, "sent")
       \/ row[l].status = "sent" /\ UNCHANGED row
    /\ Goes(w, Completed(w, l))
    /\ UNCHANGED <<arrived, accepted, stalls>>

(* The transaction commits, its answer is lost and the step runs again.     *)
CompleteAnswerLost(w) ==
    /\ At(w, "complete") /\ Owns(run[w].lead, w)
    /\ Settle(run[w].lead, "sent")
    /\ UNCHANGED <<arrived, run, accepted, stalls>>

OwnershipLost(w) ==
    /\ run[w].step \in {"complete", "fail"} /\ ~Owns(run[w].lead, w)
    /\ At(w, "complete") => row[run[w].lead].status # "sent"
    /\ EndRun(w)
    /\ UNCHANGED <<arrived, accepted, stalls>>

(* recordPermanentFailure: a FatalError follows, or the step starts again.  *)
FailPermanently(w, l, next) ==
    /\ At(w, "fail") /\ run[w].lead = l /\ Owns(l, w)
    /\ Settle(l, "permanent_failure")
    /\ Goes(w, next)
    /\ UNCHANGED <<arrived, accepted, stalls>>

Next ==
    \/ \E l \in Leads : Submit(l) \/ LeaseExpires(l) \/ Delete(l)
    \/ Deploy
    \/ \E w \in Workers :
          \/ StartRun(w) \/ GiveUp(w) \/ ClaimEmpty(w) \/ ClaimAnswerLost(w)
          \/ SendRetryable(w) \/ CompleteAnswerLost(w) \/ OwnershipLost(w)
    \/ \E w \in Workers, l \in Leads :
          \/ Claim(w, l, Claimed(w, l))
          \/ SendAccepted(w, l) \/ SendRejected(w, l)
          \/ Complete(w, l)
          \/ \E next \in {Idle, Asking(0, maxRetries)} : FailPermanently(w, l, next)

Spec == Init /\ [][Next]_vars

(* The recovery drain is started every day, a run that is not lost goes on, *)
(* and a provider and a database that are asked again and again answer.     *)
Fairness ==
    /\ \A l \in Leads : WF_vars(LeaseExpires(l))
    /\ \A w \in Workers : WF_vars(StartRun(w)) /\ WF_vars(ClaimEmpty(w))
                              /\ WF_vars(SendRetryable(w)) /\ WF_vars(OwnershipLost(w))
    /\ \A l \in Leads :
          /\ SF_vars(\E w \in Workers : Claim(w, l, Claimed(w, l)))
          /\ SF_vars(\E w \in Workers : SendAccepted(w, l) \/ SendRejected(w, l))
          /\ SF_vars(\E w \in Workers : Complete(w, l) \/ FailPermanently(w, l, Idle))

FairSpec == Spec /\ Fairness

----------------------------------------------------------------------------
Settled == {"sent", "permanent_failure"}

(* "sends one plain-text message": however runs overlap, die and take over  *)
(* from each other, a lead is mailed at most once.                          *)
OneMailPerLead ==
    \A l \in Leads : Cardinality({m \in accepted : m.lead = l}) <= 1

(* No lead is given up unmailed: whatever was lost, repeated or overtaken,  *)
(* a row says sent or permanent_failure only of a lead that was mailed.     *)
SettledWasMailed ==
    \A l \in Leads : row[l].status \in Settled => \E m \in accepted : m.lead = l

(* An outcome once recorded is never taken back by a late worker.           *)
OutcomesFinal ==
    [][\A l \in Leads : row[l].status \in Settled => row'[l].status \in {row[l].status, "none"}]_vars

(* The inductive invariant behind the three: the provider holds one mail    *)
(* per key, and a run past its send or a settled row is evidence of one.    *)
Rows == [status : {"none", "pending", "processing"} \cup Settled,
         claimed_by : Workers \cup {Ended}, expired : BOOLEAN]
Runs == {Idle} \cup [step : {"claim"}, count : Nat, tries : Nat]
               \cup [step : {"send", "complete", "fail"}, count : Nat, tries : Nat, lead : Leads]
Mailed(l) == \E m \in accepted : m.lead = l

OutboxInv ==
    /\ row \in [Leads -> Rows] /\ run \in [Workers -> Runs]
    /\ accepted \subseteq [key : Leads, lead : Leads, outdated : BOOLEAN]
    /\ \A m \in accepted : m.key = m.lead
    /\ \A m, n \in accepted : m.key = n.key => m = n
    /\ \A w \in Workers : run[w].step \in {"complete", "fail"} => Mailed(run[w].lead)
    /\ SettledWasMailed

(* "The existing daily retention route also starts a bounded recovery       *)
(* drain, so a missed immediate scheduler nudge remains recoverable"        *)
(* (docs/lead-engine.md): every lead the provider would take is settled.    *)
MissedNudgeRecovered ==
    \A l \in Leads \ Refused :
        row[l].status = "pending" ~> row[l].status \in Settled \cup {"none"}
=============================================================================
