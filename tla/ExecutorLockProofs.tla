------------------------- MODULE ExecutorLockProofs -------------------------
(* Machine-checked: when starts do not overlap, one daemon at a time holds  *)
(* the pid lockfile, for any number of processes, crashes and attempts.     *)
EXTENDS ExecutorLock, FiniteSetTheorems, TLAPS

(* Before the first start nobody holds the file.                            *)
LEMMA LockInit == Init => LockInv
BY LockSetting DEF Init, LockInv, Acquiring, Holding

(* Another attempt or giving up: the process is not yet past the lock.      *)
LEMMA RetryFacts ==
    ASSUME NEW p \in Pids, Retry(p), LockInv
    PROVE  /\ attempts' \in [Pids -> Nat]
           /\ \/ pc' = [pc EXCEPT ![p] = "open"]
              \/ pc' = [pc EXCEPT ![p] = "off"]
<1>1. attempts' = [attempts EXCEPT ![p] = attempts[p] + 1] /\ attempts \in [Pids -> Nat]
  BY DEF Retry, LockInv
<1>2. attempts' \in [Pids -> Nat]
  BY <1>1
<1>3. CASE attempts[p] + 1 < MaxAttempts
  BY <1>2, <1>3 DEF Retry, Goto
<1>4. CASE ~(attempts[p] + 1 < MaxAttempts)
  BY <1>2, <1>4 DEF Retry, Goto
<1>5. QED  BY <1>3, <1>4

(* Every system call of every process keeps LockInv.                        *)
LEMMA LockStep ==
    ASSUME Supervised, LockInv, [Next]_vars
    PROVE  LockInv'
<1> USE LockSetting DEF Acquiring, Holding
<1>1. CASE UNCHANGED vars
  BY <1>1 DEF vars, LockInv
<1>2. ASSUME NEW p \in Pids, Begin(p) PROVE LockInv'
  BY <1>2 DEF Begin, Goto, LockInv
<1>3. ASSUME NEW p \in Pids, Open(p) PROVE LockInv'
  <2>1. CASE entry = NoFile
    BY <1>3, <2>1 DEF Open, Goto, LockInv
  <2>2. CASE entry # NoFile
    BY <1>3, <2>2 DEF Open, Goto, LockInv
  <2>3. QED  BY <2>1, <2>2
<1>4. ASSUME NEW p \in Pids, WritePid(p) PROVE LockInv'
  <2>1. \A q \in Pids : pc[q] \notin Holding
    BY <1>4 DEF WritePid, LockInv
  <2>2. QED  BY <1>4, <2>1 DEF WritePid, Goto, LockInv
<1>5. ASSUME NEW p \in Pids, ReadPid(p) PROVE LockInv'
  <2>1. CASE entry = NoFile
    <3>1. \A q \in Pids : pc[q] \notin Holding
      BY <2>1 DEF LockInv
    <3>2. QED  BY <1>5, <2>1, <3>1, RetryFacts DEF ReadPid, LockInv
  <2>2. CASE entry # NoFile
    BY <1>5, <2>2 DEF ReadPid, Goto, LockInv
  <2>3. QED  BY <2>1, <2>2
<1>6. ASSUME NEW p \in Pids, Probe(p) PROVE LockInv'
  <2>1. \A q \in Pids : pc[q] \in Holding => Alive(p)
    BY <1>6 DEF Probe, Alive, LockInv
  <2>2. QED  BY <1>6, <2>1 DEF Probe, Goto, LockInv
<1>7. ASSUME NEW p \in Pids, Unlink(p) PROVE LockInv'
  BY <1>7, RetryFacts DEF Unlink, LockInv
<1>8. ASSUME NEW p \in Pids, Stop(p) PROVE LockInv'
  BY <1>8 DEF Stop, Goto, LockInv
<1>9. ASSUME NEW p \in Pids, CheckOwnLock(p) PROVE LockInv'
  BY <1>9 DEF CheckOwnLock, Goto, LockInv
<1>10. ASSUME NEW p \in Pids, RemoveOwnLock(p) PROVE LockInv'
  BY <1>10 DEF RemoveOwnLock, Goto, LockInv
<1>11. ASSUME NEW p \in Pids, Crash(p) PROVE LockInv'
  BY <1>11 DEF Crash, Goto, LockInv
<1>12. QED
  BY <1>1, <1>2, <1>3, <1>4, <1>5, <1>6, <1>7, <1>8, <1>9, <1>10, <1>11 DEF Next

(* All holders created the one file at the path.                            *)
LEMMA LockInvSingle == LockInv => SingleInstance
<1> SUFFICES ASSUME LockInv PROVE SingleInstance
  OBVIOUS
<1> DEFINE H == {p \in Pids : pc[p] \in Holding}
<1>1. H = {} \/ H = {entry}
  BY DEF LockInv
<1>2. Cardinality(H) = 0 \/ Cardinality(H) = 1
  BY <1>1, FS_EmptySet, FS_Singleton
<1>3. QED  BY <1>2 DEF SingleInstance

(* "Single-instance guard": when a supervisor starts one process at a time, *)
(* stale and empty lockfiles and crashes anywhere never let two pass.       *)
THEOREM SingleInstanceTheorem ==
    ASSUME Supervised
    PROVE  Spec => []SingleInstance
<1>1. LockInv /\ [Next]_vars => LockInv'
  BY LockStep
<1>2. Spec => []LockInv
  BY LockInit, <1>1, PTL DEF Spec
<1>3. QED  BY <1>2, LockInvSingle, PTL
=============================================================================
