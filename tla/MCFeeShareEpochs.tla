-------------------------- MODULE MCFeeShareEpochs --------------------------
(***************************************************************************)
(* The wrapper on its own, with a record of the reward its units earned in *)
(* term: which epoch's owners end up with it?                              *)
(***************************************************************************)
EXTENDS FeeShareTermWrapProperties

CONSTANTS alice, bob, wrap
VARIABLE inTerm         \* history: the reward that came by MATURITY while units were held

OneEach == [a \in Accounts |-> 1]

EpochsInit == Init /\ inTerm = 0
EpochsNext ==
    /\ Next
    /\ inTerm' = IF now <= MATURITY /\ totalSupply # 0 THEN inTerm + (arrived' - arrived) ELSE inTerm
EpochsSpec == EpochsInit /\ [][EpochsNext]_<<vars, inTerm>>

(* "The reward a locked share earns lives in TWO epochs with DIFFERENT      *)
(* rightful owners, and the wrapper keeps them strictly apart": what came   *)
(* in term, while there were units to earn it, is never credited to the     *)
(* locked principal.                                                        *)
StrictlyApart == post.reserve + Total(paid.post) <= arrived - inTerm
=============================================================================
