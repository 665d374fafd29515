------------------------- MODULE StandingAuthority -------------------------
(***************************************************************************)
(* What an owner's signatures authorize, with no capsule in sight: a grant *)
(* may be used while it is live, inside its window, no sooner than its     *)
(* interval after its previous use, and no more often than its limit; and  *)
(* a grant that stops being live never becomes live again.  Each use is    *)
(* one indivisible step.  OpenZap implements this specification (see       *)
(* OpenZapProperties), whatever its adapters, its submitters and the       *)
(* owner's own calls do in the middle of a transaction.                    *)
(***************************************************************************)
EXTENDS Integers

CONSTANTS
    Grants,             \* records with validAfter, deadline and interval
    Limit(_),           \* how many uses a grant allows
    MaxTime

VARIABLES now, used, last, live

grantVars == <<now, used, last, live>>

GrantsInit ==
    /\ now = 0
    /\ used = [g \in Grants |-> 0]
    /\ last = [g \in Grants |-> 0]
    /\ live = Grants

Use(g) ==
    /\ g \in live
    /\ used[g] < Limit(g)
    /\ g.validAfter <= now /\ now <= g.deadline
    /\ used[g] > 0 => now >= last[g] + g.interval
    /\ used' = [used EXCEPT ![g] = @ + 1]
    /\ last' = [last EXCEPT ![g] = now]
    /\ live' \subseteq live
    /\ UNCHANGED now

(* The owner cancels, the policy is halted, or another grant's use exhausts *)
(* an identifier that several grants share.                                 *)
Revoke ==
    /\ live' \subseteq live
    /\ UNCHANGED <<now, used, last>>

TimePasses ==
    /\ now < MaxTime
    /\ now' = now + 1
    /\ UNCHANGED <<used, last, live>>

GrantsNext == (\E g \in Grants : Use(g)) \/ Revoke \/ TimePasses

GrantsSpec == GrantsInit /\ [][GrantsNext]_grantVars
=============================================================================
