------------------------ MODULE LifecycleLockProofs ------------------------
(* Mutual exclusion of lifecycle_lock, and that it implements HostLock, for *)
(* any number of processes, hosts and lock files.                           *)
EXTENDS LifecycleLock, TLAPS

\* The invariant holds before the first call of lifecycle_lock.
LEMMA LockInitInv == Init => LockInv
  BY NobodyAssumption, NoInodeAssumption
  DEF Init, LockInv, TypeOK, PCs, Results

\* Closing lock_fd gives up a flock of the closing process only.
LEMMA UnlockedOthers ==
  ASSUME LockInv, NEW p \in Procs, NEW i \in Inodes
  PROVE  /\ Unlocked(p)[i] \in Procs \cup {Nobody}
         /\ flock[i] # p => Unlocked(p)[i] = flock[i]
  BY DEF LockInv, TypeOK, Unlocked

\* The finally clause of lifecycle_lock preserves the invariant, wherever it is
\* entered from.
LEMMA LeaveInv ==
  ASSUME LockInv, NEW p \in Procs, NEW why \in Results, Leave(p, why)
  PROVE  LockInv'
<1>1. TypeOK'
  <2>1. flock' \in [Inodes -> Procs \cup {Nobody}]
    BY UnlockedOthers DEF Leave, Unlocked
  <2>2. pc' \in [Procs -> PCs]
    BY DEF Leave, LockInv, TypeOK, PCs
  <2> QED BY <2>1, <2>2 DEF Leave, LockInv, TypeOK
<1>2. ASSUME NEW q \in Procs
      PROVE  /\ pc'[q] \in {"validate", "flock", "revalidate", "restat", "body"} =>
                   fd'[q] \in Inodes
             /\ pc'[q] \in {"revalidate", "restat", "body"} => flock'[fd'[q]] = q
             /\ pc'[q] = "body" => path'[host'[q]] = fd'[q]
  <2>1. CASE q = p
    BY <2>1 DEF Leave, LockInv, TypeOK
  <2>2. CASE q # p
    <3>1. /\ pc'[q] = pc[q] /\ fd'[q] = fd[q] /\ host'[q] = host[q] /\ path' = path
      BY <2>2 DEF Leave, LockInv, TypeOK
    <3>2. ASSUME pc[q] \in {"revalidate", "restat", "body"} PROVE flock'[fd[q]] = q
      <4>1. fd[q] \in Inodes /\ flock[fd[q]] = q
        BY <3>2 DEF LockInv
      <4> QED BY <2>2, <4>1, UnlockedOthers DEF Leave
    <3> QED BY <3>1, <3>2 DEF LockInv
  <2> QED BY <2>1, <2>2
<1> QED BY <1>1, <1>2 DEF LockInv

\* Every call of lifecycle_lock, every exit and every act of the operator on the
\* lock directory preserves the invariant.
LEMMA LockStepInv == LockInv /\ [Next]_vars => LockInv'
<1> SUFFICES ASSUME LockInv, [Next]_vars PROVE LockInv'
  OBVIOUS
<1>1. ASSUME NEW p \in Procs, NEW h \in Hosts, OpenDirectory(p, h) PROVE LockInv'
  BY <1>1 DEF OpenDirectory, LockInv, TypeOK, PCs, Results
<1>2. ASSUME NEW p \in Procs, OpenFails(p) PROVE LockInv'
  BY <1>2, LeaveInv DEF OpenFails, Results
<1>3. ASSUME NEW p \in Procs, OpenFile(p) PROVE LockInv'
  <2>1. CASE path[host[p]] # NoInode
    BY <1>3, <2>1 DEF OpenFile, LockInv, TypeOK, PCs
  <2>2. CASE path[host[p]] = NoInode
    <3>1. PICK i \in Inodes :
            /\ fd' = [fd EXCEPT ![p] = i]
            /\ path' = [path EXCEPT ![host[p]] = i]
            /\ fit' = [fit EXCEPT ![i] = TRUE]
      BY <1>3, <2>2 DEF OpenFile
    <3>2. pc' = [pc EXCEPT ![p] = "validate"] /\ UNCHANGED <<host, flock, result>>
      BY <1>3 DEF OpenFile
    <3>3. TypeOK'
      BY <3>1, <3>2 DEF LockInv, TypeOK, PCs
    <3>4. ASSUME NEW q \in Procs, pc'[q] = "body" PROVE path'[host'[q]] = fd'[q]
      <4>1. q # p /\ pc[q] = "body"
        BY <3>2, <3>4 DEF LockInv, TypeOK
      <4>2. fd[q] \in Inodes /\ path[host[q]] = fd[q]
        BY <4>1 DEF LockInv
      <4>3. host[q] # host[p]
        BY <2>2, <4>2, NoInodeAssumption
      <4> QED BY <3>1, <3>2, <4>1, <4>2, <4>3 DEF LockInv, TypeOK
    <3> QED BY <3>1, <3>2, <3>3, <3>4 DEF LockInv, TypeOK
  <2> QED BY <2>1, <2>2
<1>4. ASSUME NEW p \in Procs, Validate(p) PROVE LockInv'
  <2>1. CASE fit[fd[p]]
    BY <1>4, <2>1, LeaveInv DEF Validate, LockInv, TypeOK, PCs
  <2>2. CASE ~fit[fd[p]]
    BY <1>4, <2>2, LeaveInv DEF Validate, Results
  <2> QED BY <2>1, <2>2
<1>5. ASSUME NEW p \in Procs, Flock(p) PROVE LockInv'
  <2>1. CASE flock[fd[p]] = Nobody
    <3>1. /\ flock' = [flock EXCEPT ![fd[p]] = p]
          /\ pc' = [pc EXCEPT ![p] = "revalidate"]
          /\ UNCHANGED <<host, fd, path, fit, result>>
          /\ fd[p] \in Inodes
      BY <1>5, <2>1 DEF Flock, LockInv, Leave
    <3> QED BY <2>1, <3>1, NobodyAssumption DEF LockInv, TypeOK, PCs
  <2>2. CASE flock[fd[p]] # Nobody
    BY <1>5, <2>2, LeaveInv DEF Flock, Results
  <2> QED BY <2>1, <2>2
<1>6. ASSUME NEW p \in Procs, Revalidate(p) PROVE LockInv'
  <2>1. CASE fit[fd[p]]
    BY <1>6, <2>1 DEF Revalidate, LockInv, TypeOK, PCs
  <2>2. CASE ~fit[fd[p]]
    BY <1>6, <2>2, LeaveInv DEF Revalidate, Results
  <2> QED BY <2>1, <2>2
<1>7. ASSUME NEW p \in Procs, Restat(p) PROVE LockInv'
  <2>1. CASE PathStill(p)
    BY <1>7, <2>1 DEF Restat, PathStill, LockInv, TypeOK, PCs
  <2>2. CASE ~PathStill(p)
    BY <1>7, <2>2, LeaveInv DEF Restat, Results
  <2> QED BY <2>1, <2>2
<1>8. ASSUME NEW p \in Procs, Close(p) PROVE LockInv'
  BY <1>8, LeaveInv DEF Close, Results
<1>9. ASSUME NEW p \in Procs, CloseFails(p) PROVE LockInv'
  <2>1. PICK why \in Results :
          \/ Leave(p, why)
          \/ /\ pc' = [pc EXCEPT ![p] = "idle"]
             /\ fd' = [fd EXCEPT ![p] = NoInode]
             /\ result' = [result EXCEPT ![p] = why]
             /\ UNCHANGED <<host, path, fit, flock>>
    BY <1>9 DEF CloseFails, Results
  <2>2. CASE Leave(p, why)
    BY <2>2, LeaveInv
  <2>3. CASE ~Leave(p, why)
    BY <2>1, <2>3 DEF LockInv, TypeOK, PCs
  <2> QED BY <2>2, <2>3
<1>10. ASSUME NEW p \in Procs, Exit(p) PROVE LockInv'
  BY <1>10 DEF Exit, LockInv, TypeOK, PCs, Results
<1>11. ASSUME NEW h \in Hosts, Unlink(h) PROVE LockInv'
  BY <1>11 DEF Unlink, InBody, LockInv, TypeOK
<1>12. ASSUME NEW h \in Hosts, NEW i \in Inodes, Replace(h, i) PROVE LockInv'
  BY <1>12 DEF Replace, InBody, LockInv, TypeOK
<1>13. ASSUME NEW h \in Hosts, Chmod(h) PROVE LockInv'
  BY <1>13 DEF Chmod, LockInv, TypeOK
<1>14. ASSUME NEW p \in Procs, CallFails(p) PROVE LockInv'
  BY <1>14, LeaveInv DEF CallFails, Results
<1>15. CASE UNCHANGED vars
  BY <1>15 DEF vars, LockInv, TypeOK
<1> QED
  BY <1>1, <1>2, <1>3, <1>4, <1>5, <1>6, <1>7, <1>8, <1>9, <1>10, <1>11, <1>12,
     <1>13, <1>14, <1>15
  DEF Next, Step, Environment

\* The inductive invariant: a body owns the flock of the file its pathname names.
THEOREM LockInvariant == Spec => []LockInv
<1> QED BY LockInitInv, LockStepInv, PTL DEF Spec

\* Two bodies of one host have the same inode open, and one flock has one owner.
LEMMA InvExcludes == LockInv => MutualExclusion
  BY DEF LockInv, MutualExclusion

\* Two invocations never run a protected operation on one switch at a time.
THEOREM LifecycleLockExcludes == Spec => []MutualExclusion
<1> QED BY InvExcludes, LockInvariant, PTL

-----------------------------------------------------------------------------
(* Refinement: what a step does to the set of bodies of each host.         *)

\* A step that moves no process into or out of a body is a stutter of the
\* abstract lock.
LEMMA SameBodies ==
  ASSUME \A q \in Procs : /\ (pc'[q] = "body") <=> (pc[q] = "body")
                          /\ pc[q] = "body" => host'[q] = host[q]
  PROVE  holderBar' = holderBar
  BY DEF holderBar

\* A process that leaves its body leaves it empty, as the body was its alone.
LEMMA BodyEnds ==
  ASSUME LockInv, NEW p \in Procs, pc[p] = "body",
         pc' = [pc EXCEPT ![p] = "idle"], host' = host
  PROVE  Abstract!Release(p, host[p])
<1>1. \A q \in Procs : pc[q] = "body" /\ host[q] = host[p] => q = p
  BY InvExcludes DEF MutualExclusion
<1>2. host[p] \in Hosts /\ pc \in [Procs -> PCs]
  BY DEF LockInv, TypeOK
<1>3. holderBar[host[p]] = {p}
  BY <1>1, <1>2 DEF holderBar
<1>4. \A h \in Hosts : holderBar'[h] = IF h = host[p] THEN {} ELSE holderBar[h]
  <2> SUFFICES ASSUME NEW h \in Hosts
               PROVE  holderBar'[h] = IF h = host[p] THEN {} ELSE holderBar[h]
    OBVIOUS
  <2>1. holderBar'[h] = {q \in Procs : pc'[q] = "body" /\ host[q] = h}
    BY DEF holderBar
  <2>2. \A q \in Procs : pc'[q] = "body" <=> pc[q] = "body" /\ q # p
    BY <1>2
  <2>3. CASE h = host[p]
    BY <1>1, <2>1, <2>2, <2>3
  <2>4. CASE h # host[p]
    BY <2>1, <2>2, <2>4 DEF holderBar
  <2> QED BY <2>3, <2>4
<1>5. holderBar' = [holderBar EXCEPT ![host[p]] = {}]
  <2>1. DOMAIN holderBar = Hosts /\ DOMAIN holderBar' = Hosts
        /\ holderBar' = [h \in Hosts |-> holderBar'[h]]
    BY DEF holderBar
  <2> HIDE DEF holderBar
  <2>2. [h \in Hosts |-> holderBar'[h]] =
            [h \in Hosts |-> IF h = host[p] THEN {} ELSE holderBar[h]]
    BY <1>4
  <2> QED BY <2>1, <2>2
<1> QED BY <1>3, <1>5 DEF Abstract!Release

\* The finally clause is a release when it follows a body, a stutter otherwise.
LEMMA LeaveRefines ==
  ASSUME LockInv, NEW p \in Procs, pc' = [pc EXCEPT ![p] = "idle"], host' = host
  PROVE  [Abstract!LockNext]_holderBar
<1>1. CASE pc[p] = "body"
  <2>1. Abstract!Release(p, host[p]) /\ host[p] \in Hosts
    BY <1>1, BodyEnds DEF LockInv, TypeOK
  <2> QED BY <2>1 DEF Abstract!LockNext
<1>2. CASE pc[p] # "body"
  <2>1. holderBar' = holderBar
    BY <1>2, SameBodies DEF LockInv, TypeOK
  <2> QED BY <2>1
<1> QED BY <1>1, <1>2

\* The last check of an acquisition enters a body that nobody else is in.
LEMMA BodyStarts ==
  ASSUME LockInv, NEW p \in Procs, Restat(p), PathStill(p)
  PROVE  Abstract!Acquire(p, host[p])
<1>1. pc[p] = "restat" /\ pc' = [pc EXCEPT ![p] = "body"] /\ host' = host
  BY DEF Restat, Leave
<1>2. host[p] \in Hosts /\ pc \in [Procs -> PCs]
  BY DEF LockInv, TypeOK
<1>3. \A q \in Procs : ~(pc[q] = "body" /\ host[q] = host[p])
  BY <1>1 DEF LockInv, PathStill
<1>4. holderBar[host[p]] = {}
  BY <1>2, <1>3 DEF holderBar
<1>5. \A h \in Hosts : holderBar'[h] = IF h = host[p] THEN {p} ELSE holderBar[h]
  <2> SUFFICES ASSUME NEW h \in Hosts
               PROVE  holderBar'[h] = IF h = host[p] THEN {p} ELSE holderBar[h]
    OBVIOUS
  <2>1. holderBar'[h] = {q \in Procs : pc'[q] = "body" /\ host[q] = h}
    BY <1>1 DEF holderBar
  <2>2. \A q \in Procs : pc'[q] = "body" <=> pc[q] = "body" \/ q = p
    BY <1>1, <1>2
  <2>3. CASE h = host[p]
    BY <1>3, <2>1, <2>2, <2>3
  <2>4. CASE h # host[p]
    BY <2>1, <2>2, <2>4 DEF holderBar
  <2> QED BY <2>3, <2>4
<1>6. holderBar' = [holderBar EXCEPT ![host[p]] = {p}]
  BY <1>5 DEF holderBar
<1> QED BY <1>4, <1>6 DEF Abstract!Acquire

\* Each step of the flock protocol is a step or a stutter of the abstract lock.
LEMMA LockRefines == LockInv /\ [Next]_vars => [Abstract!LockNext]_holderBar
<1> SUFFICES ASSUME LockInv, [Next]_vars PROVE [Abstract!LockNext]_holderBar
  OBVIOUS
<1> USE DEF LockInv, TypeOK
<1>1. ASSUME NEW p \in Procs, NEW h \in Hosts, OpenDirectory(p, h)
      PROVE  holderBar' = holderBar
  BY <1>1, SameBodies DEF OpenDirectory
<1>2. ASSUME NEW p \in Procs, OpenFile(p) PROVE holderBar' = holderBar
  BY <1>2, SameBodies DEF OpenFile
<1>3. ASSUME NEW p \in Procs, NEW why \in Results, Leave(p, why)
      PROVE  [Abstract!LockNext]_holderBar
  BY <1>3, LeaveRefines DEF Leave
<1>4. ASSUME NEW p \in Procs, Validate(p) \/ Flock(p) \/ Revalidate(p)
      PROVE  [Abstract!LockNext]_holderBar
  <2>1. CASE \E why \in Results : Leave(p, why)
    BY <1>3, <2>1
  <2>2. CASE \A why \in Results : ~Leave(p, why)
    <3>1. holderBar' = holderBar
      BY <1>4, <2>2, SameBodies DEF Validate, Flock, Revalidate, Results
    <3> QED BY <3>1
  <2> QED BY <2>1, <2>2
<1>5. ASSUME NEW p \in Procs, Restat(p) PROVE [Abstract!LockNext]_holderBar
  <2>1. CASE PathStill(p)
    <3>1. Abstract!Acquire(p, host[p]) /\ host[p] \in Hosts BY <1>5, <2>1, BodyStarts
    <3> QED BY <3>1 DEF Abstract!LockNext
  <2>2. CASE ~PathStill(p)
    BY <1>3, <1>5, <2>2 DEF Restat, Results
  <2> QED BY <2>1, <2>2
<1>6. ASSUME NEW p \in Procs,
             OpenFails(p) \/ CallFails(p) \/ Close(p) \/ CloseFails(p) \/ Exit(p)
      PROVE  [Abstract!LockNext]_holderBar
  <2>1. pc' = [pc EXCEPT ![p] = "idle"] /\ host' = host
    BY <1>6 DEF OpenFails, CallFails, Close, CloseFails, Exit, Leave
  <2> QED BY <2>1, LeaveRefines
<1>7. ASSUME NEW h \in Hosts, Environment(h) PROVE holderBar' = holderBar
  BY <1>7, SameBodies DEF Environment, Unlink, Replace, Chmod
<1>8. CASE UNCHANGED vars
  BY <1>8, SameBodies DEF vars
<1> QED
  BY <1>1, <1>2, <1>4, <1>5, <1>6, <1>7, <1>8 DEF Next, Step

\* The flock protocol implements the abstract lock that Renewal relies on.
THEOREM LifecycleLockImplementsHostLock == Spec => ImplementsHostLock
<1>1. Init => Abstract!LockInit
  BY DEF Init, Abstract!LockInit, holderBar
<1> QED BY <1>1, LockInvariant, LockRefines, PTL
        DEF Spec, ImplementsHostLock, Abstract!LockSpec
=============================================================================
