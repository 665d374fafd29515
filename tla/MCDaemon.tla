------------------------------ MODULE MCDaemon ------------------------------
(***************************************************************************)
(* The two things a supervisor relies on when it restarts the daemon, each *)
(* on its own: that a start cannot leave two of them running (the pid      *)
(* lockfile, three processes), and that a daemon which died half-way does  *)
(* not leave its signer lane blocked.  `part` names the one a behaviour is *)
(* about, the other stays as it began.                                     *)
(***************************************************************************)
EXTENDS ExecutorLock

CONSTANTS Intents, Conversions, MaxNonce, MaxFaults, MaxCrashes, StorageFaults, RelaysMayLose, MayReorg

VARIABLES part, chain, final, relays, mem, disk, lane, place, job, up, dispatched, faults, crashes

Signer == INSTANCE ExecutorProperties WITH pc <- place

laneVars == <<chain, final, relays, mem, disk, lane, place, job, up, dispatched, faults, crashes>>

InitAll == part \in {"lock", "lane"} /\ Init /\ Signer!Init

NextAll ==
    /\ \/ part = "lock" /\ Next /\ UNCHANGED laneVars
       \/ part = "lane" /\ Signer!Next /\ UNCHANGED vars
    /\ UNCHANGED part

SpecAll ==
    /\ InitAll /\ [][NextAll]_<<part, vars, laneVars>>
    /\ part = "lane" => Signer!LoopsRun /\ Signer!OutsideHelps

(* Every transaction that enters the outbox leaves it. *)
LaneClears == Signer!LaneClears
=============================================================================
