---------------------------- MODULE ExecutorLock ----------------------------
(***************************************************************************)
(* The daemon's pid lockfile (acquireLock in executor/index.mjs): several  *)
(* processes open, read, probe and unlink one path, one system call per    *)
(* step.  A file is identified by the process that created it, because a   *)
(* process may still write into a file that another has since unlinked.    *)
(***************************************************************************)
EXTENDS Naturals, FiniteSets

CONSTANTS
    Pids,
    NoFile,
    Supervised,     \* is at most one process starting at any time
    MaxAttempts

ASSUME LockSetting == NoFile \notin Pids /\ Supervised \in BOOLEAN /\ MaxAttempts \in Nat \ {0}

VARIABLES
    entry,      \* creator of the file now at the path, or NoFile
    written,    \* creators that have written their pid into their file
    pc,         \* each process: where it is; "off" when it is not running
    seen,       \* the pid it read, NoFile for an empty file
    attempts

vars == <<entry, written, pc, seen, attempts>>

Acquiring == {"open", "write", "read", "probe", "unlink"}
Holding == {"running", "release", "remove"}

Init ==
    /\ entry = NoFile
    /\ written = {}
    /\ pc = [p \in Pids |-> "off"]
    /\ seen = [p \in Pids |-> NoFile]
    /\ attempts = [p \in Pids |-> 0]

Goto(p, place) == pc' = [pc EXCEPT ![p] = place]

Begin(p) ==
    /\ pc[p] = "off"
    /\ Supervised => \A q \in Pids : pc[q] \notin Acquiring
    /\ Goto(p, "open")
    /\ attempts' = [attempts EXCEPT ![p] = 0]
    /\ UNCHANGED <<entry, written, seen>>

(* openSync with "wx": create the file or fail with EEXIST. *)
Open(p) ==
    /\ pc[p] = "open"
    /\ IF entry = NoFile
       THEN entry' = p /\ written' = written \ {p} /\ Goto(p, "write")
       ELSE Goto(p, "read") /\ UNCHANGED <<entry, written>>
    /\ UNCHANGED <<seen, attempts>>

WritePid(p) ==
    /\ pc[p] = "write"
    /\ written' = written \cup {p}
    /\ Goto(p, "running")
    /\ UNCHANGED <<entry, seen, attempts>>

(* The next attempt, or the final "could not acquire" error. *)
Retry(p) ==
    /\ attempts' = [attempts EXCEPT ![p] = @ + 1]
    /\ Goto(p, IF attempts[p] + 1 < MaxAttempts THEN "open" ELSE "off")

ReadPid(p) ==
    /\ pc[p] = "read"
    /\ IF entry = NoFile
       THEN Retry(p) /\ UNCHANGED seen
       ELSE /\ seen' = [seen EXCEPT ![p] = IF entry \in written THEN entry ELSE NoFile]
            /\ Goto(p, "probe")
            /\ UNCHANGED attempts
    /\ UNCHANGED <<entry, written>>

(* Slip: a daemon that is finishing its last pass counts as gone. *)
AliveUnlessReleasing(p) ==
    seen[p] \in Pids \ {p} /\ pc[seen[p]] \notin {"off", "release", "remove"}
Alive(p) == seen[p] \in Pids \ {p} /\ pc[seen[p]] # "off"

(* Signal 0; a live holder ends the start. *)
Probe(p) ==
    /\ pc[p] = "probe"
    /\ Goto(p, IF Alive(p) THEN "off" ELSE "unlink")
    /\ UNCHANGED <<entry, written, seen, attempts>>

Unlink(p) ==
    /\ pc[p] = "unlink"
    /\ entry' = NoFile
    /\ Retry(p)
    /\ UNCHANGED <<written, seen>>

(* SIGTERM: finish the pass, then release the file if it names this process. *)
Stop(p) ==
    /\ pc[p] = "running"
    /\ Goto(p, "release")
    /\ UNCHANGED <<entry, written, seen, attempts>>

CheckOwnLock(p) ==
    /\ pc[p] = "release"
    /\ Goto(p, IF entry = p /\ p \in written THEN "remove" ELSE "off")
    /\ UNCHANGED <<entry, written, seen, attempts>>

RemoveOwnLock(p) ==
    /\ pc[p] = "remove"
    /\ entry' = NoFile
    /\ Goto(p, "off")
    /\ UNCHANGED <<written, seen, attempts>>

Crash(p) ==
    /\ pc[p] # "off"
    /\ Goto(p, "off")
    /\ UNCHANGED <<entry, written, seen, attempts>>

Next ==
    \E p \in Pids :
        \/ Begin(p)
        \/ Open(p)
        \/ WritePid(p)
        \/ ReadPid(p)
        \/ Probe(p)
        \/ Unlink(p)
        \/ Stop(p)
        \/ CheckOwnLock(p)
        \/ RemoveOwnLock(p)
        \/ Crash(p)

Spec == Init /\ [][Next]_vars

(* "Single-instance guard": one daemon at a time has passed acquireLock,    *)
(* because two would each broadcast every due run and race state.json.      *)
SingleInstance == Cardinality({p \in Pids : pc[p] \in Holding}) <= 1

(* The inductive invariant behind SingleInstance when starts do not         *)
(* overlap: whoever holds the lock wrote the file at the path, and the one  *)
(* process starting has seen a holder that is still there, and never        *)
(* unlinks under it.                                                        *)
LockInv ==
    /\ entry \in Pids \cup {NoFile} /\ written \subseteq Pids
    /\ pc \in [Pids -> {"off"} \cup Acquiring \cup Holding]
    /\ seen \in [Pids -> Pids \cup {NoFile}] /\ attempts \in [Pids -> Nat]
    /\ \A p, q \in Pids : pc[p] \in Acquiring /\ pc[q] \in Acquiring => p = q
    /\ \A p \in Pids : pc[p] \in Holding => entry = p /\ p \in written
    /\ \A p \in Pids : pc[p] = "write" => entry = p
    /\ \A p, q \in Pids : pc[q] \in Holding =>
          /\ pc[p] = "probe" => seen[p] = q
          /\ pc[p] # "unlink"
=============================================================================
