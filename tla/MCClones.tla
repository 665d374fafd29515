------------------------------ MODULE MCClones ------------------------------
(***************************************************************************)
(* Three clones of the runtime, each with a policy and a market of its     *)
(* own, one per behaviour: every clone is offered the intents of all three *)
(* and admits those signed for it.  The scheduled clone (the one this      *)
(* module extends) runs two steps on one-shot, trigger and recurring       *)
(* intents; the market clone runs one step on relative and stacking        *)
(* series; the clone in kind buys 0xZAPS itself, next to dust of it.       *)
(***************************************************************************)
EXTENDS MCOpenZap

VARIABLE clone      \* the clone this behaviour is about; never changes

Market == INSTANCE OpenZap
    WITH Steps <- OneStep, ThisDomain <- "market", OwnerTakesNative <- TRUE, MaxTime <- 1,
         Pulls <- {0, 2, 3}, Yields <- {5, 10}, ExitLists <- {{out}},
         InitialBalance <- FundedForTwo

InKind == INSTANCE OpenZap
    WITH Steps <- ToZaps, ThisDomain <- "inKind", OwnerTakesNative <- TRUE, MaxTime <- 1,
         Pulls <- {0, 2}, Yields <- {5, 10}, Deposits <- {2}, ExitLists <- MCExitLists,
         InitialBalance <- MCInitialBalance

(* What no intent of the clone reads is left alone: pools they do not       *)
(* value keep their price, and the owner cancels only nonces they carry.    *)
Clones == {"scheduled", "market", "inKind"}
Own == [c \in Clones |-> {i \in Intents : i.domain = c}]
Unread == [c \in Clones |-> Sources \ UNION {{i.source, i.stackSource} : i \in Own[c]}]
Uncarried == [c \in Clones |-> Keys \ {i.key : i \in Own[c]}]

ClonesInit ==
    /\ \/ clone = "scheduled" /\ Init
       \/ clone = "market" /\ Market!Init
       \/ clone = "inKind" /\ InKind!Init
    /\ \A s \in Unread[clone] : price[s] = 4

ClonesNext ==
    /\ \/ clone = "scheduled" /\ Next
       \/ clone = "market" /\ Market!Next
       \/ clone = "inKind" /\ InKind!Next
    /\ \A s \in Unread[clone] : price'[s] = 4
    /\ Uncarried[clone] \cap auth'.nonceUsed = {}
    /\ UNCHANGED clone

ClonesSpec == ClonesInit /\ [][ClonesNext]_<<vars, clone>>
=============================================================================
