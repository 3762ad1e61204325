--------------------------- MODULE LifecycleLock ---------------------------
(***************************************************************************)
(* The advisory lock of lifecycle_lock.py, one action per system call that *)
(* another process or an operator can interleave with.                     *)
(*                                                                         *)
(* A lock file is a pathname bound to an inode.  open() and flock() act on *)
(* the inode, so between two calls of one process the pathname may come to *)
(* mean another inode: the code re-reads both after flock() and gives up   *)
(* when they disagree.  Files are persistent and the application never     *)
(* unlinks them; an operator may remove or replace one, but README.md      *)
(* forbids it while a run is in progress, and the environment here does    *)
(* not touch the file of a host whose body is running.  It may do so at    *)
(* any moment of an acquisition.                                           *)
(***************************************************************************)
EXTENDS Naturals, FiniteSets

CONSTANTS Procs, Hosts, Nobody,
          Inodes,    \* inode numbers of the lock directory
          NoInode    \* no file, or no open descriptor

ASSUME NobodyAssumption == Nobody \notin Procs
ASSUME NoInodeAssumption == NoInode \notin Inodes

VARIABLES
    pc,      \* pc[p]: the next call of process p in lifecycle_lock
    host,    \* host[p]: the canonical host p locks
    fd,      \* fd[p]: the inode lock_fd is open on
    path,    \* path[h]: the inode the pathname lock_filename(h) is bound to
    fit,     \* fit[i]: i passes _validate_lock_file
    flock,   \* flock[i]: the process whose descriptor holds the flock of i
    result   \* result[p]: how p's last use of the lock ended

vars == <<pc, host, fd, path, fit, flock, result>>

PCs == {"idle", "open", "validate", "flock", "revalidate", "restat", "body"}
Results == {"none", "busy", "unsafe", "done", "release_failed"}

TypeOK ==
    /\ pc \in [Procs -> PCs]
    /\ host \in [Procs -> Hosts]
    /\ fd \in [Procs -> Inodes \cup {NoInode}]
    /\ path \in [Hosts -> Inodes \cup {NoInode}]
    /\ fit \in [Inodes -> BOOLEAN]
    /\ flock \in [Inodes -> Procs \cup {Nobody}]
    /\ result \in [Procs -> Results]

\* The lock directory may hold files of earlier runs, fit or not.
Init ==
    /\ pc = [p \in Procs |-> "idle"]
    /\ host \in [Procs -> Hosts]
    /\ fd = [p \in Procs |-> NoInode]
    /\ path \in [Hosts -> Inodes \cup {NoInode}]
    /\ \A g, h \in Hosts : g # h => path[g] = NoInode \/ path[g] # path[h]
    /\ fit \in [Inodes -> BOOLEAN]
    /\ flock = [i \in Inodes |-> Nobody]
    /\ result = [p \in Procs |-> "none"]

InBody(h) == \E p \in Procs : pc[p] = "body" /\ host[p] = h

\* An inode number the file system can hand out: no name, no open descriptor.
Unused(i) ==
    /\ \A h \in Hosts : path[h] # i
    /\ \A p \in Procs : fd[p] # i
    /\ flock[i] = Nobody

\* The flock of an inode goes with the last close of the descriptor it was
\* taken through: flock after p has closed lock_fd.
Unlocked(p) ==
    [i \in Inodes |-> IF i = fd[p] /\ flock[i] = p THEN Nobody ELSE flock[i]]

-----------------------------------------------------------------------------
(* The calls of lifecycle_lock.                                            *)

\* The directory is opened and _validate_directory passes.
OpenDirectory(p, h) ==
    /\ pc[p] = "idle"
    /\ pc' = [pc EXCEPT ![p] = "open"]
    /\ host' = [host EXCEPT ![p] = h]
    /\ result' = [result EXCEPT ![p] = "none"]
    /\ UNCHANGED <<fd, path, fit, flock>>

\* The finally clause: lock_fd and the directory are closed, on every way out.
Leave(p, why) ==
    /\ pc' = [pc EXCEPT ![p] = "idle"]
    /\ flock' = Unlocked(p)
    /\ fd' = [fd EXCEPT ![p] = NoInode]
    /\ result' = [result EXCEPT ![p] = why]
    /\ UNCHANGED <<host, path, fit>>

\* The directory or the file cannot be opened, is a symbolic link, or the
\* directory is unsafe.
OpenFails(p) == pc[p] = "open" /\ Leave(p, "unsafe")

\* O_CREAT without O_EXCL: the file the name is bound to, or a new empty one.
OpenFile(p) ==
    /\ pc[p] = "open"
    /\ \/ /\ path[host[p]] # NoInode
          /\ fd' = [fd EXCEPT ![p] = path[host[p]]]
          /\ UNCHANGED <<path, fit>>
       \/ /\ path[host[p]] = NoInode
          /\ \E i \in Inodes :
                /\ Unused(i)
                /\ fd' = [fd EXCEPT ![p] = i]
                /\ path' = [path EXCEPT ![host[p]] = i]
                /\ fit' = [fit EXCEPT ![i] = TRUE]
    /\ pc' = [pc EXCEPT ![p] = "validate"]
    /\ UNCHANGED <<host, flock, result>>

\* fstat and _validate_lock_file before the lock.
Validate(p) ==
    /\ pc[p] = "validate"
    /\ \/ /\ fit[fd[p]]
          /\ pc' = [pc EXCEPT ![p] = "flock"]
          /\ UNCHANGED <<host, fd, path, fit, flock, result>>
       \/ ~fit[fd[p]] /\ Leave(p, "unsafe")

\* A defect for testing EveryUseEnds: flock() without LOCK_NB waits.
FlockBlocking(p) ==
    /\ pc[p] = "flock"
    /\ flock[fd[p]] = Nobody
    /\ flock' = [flock EXCEPT ![fd[p]] = p]
    /\ pc' = [pc EXCEPT ![p] = "revalidate"]
    /\ UNCHANGED <<host, fd, path, fit, result>>

\* flock(LOCK_EX | LOCK_NB): taken at once or LifecycleLockBusy.
Flock(p) ==
    /\ pc[p] = "flock"
    /\ \/ /\ flock[fd[p]] = Nobody
          /\ flock' = [flock EXCEPT ![fd[p]] = p]
          /\ pc' = [pc EXCEPT ![p] = "revalidate"]
          /\ UNCHANGED <<host, fd, path, fit, result>>
       \/ flock[fd[p]] # Nobody /\ Leave(p, "busy")

\* fstat and _validate_lock_file again, now under the lock.
Revalidate(p) ==
    /\ pc[p] = "revalidate"
    /\ \/ /\ fit[fd[p]]
          /\ pc' = [pc EXCEPT ![p] = "restat"]
          /\ UNCHANGED <<host, fd, path, fit, flock, result>>
       \/ ~fit[fd[p]] /\ Leave(p, "unsafe")

\* A defect for testing the properties: the pathname is not compared.
PathStillNotCompared(p) == fd[p] \in Inodes

\* The pathname still names the locked inode: the body is entered.
PathStill(p) == path[host[p]] = fd[p]

Restat(p) ==
    /\ pc[p] = "restat"
    /\ \/ /\ PathStill(p)
          /\ pc' = [pc EXCEPT ![p] = "body"]
          /\ UNCHANGED <<host, fd, path, fit, flock, result>>
       \/ ~PathStill(p) /\ Leave(p, "unsafe")

\* fstat, flock or stat raises another OSError.
CallFails(p) ==
    /\ pc[p] \in {"validate", "flock", "revalidate", "restat"}
    /\ Leave(p, "unsafe")

\* The body ends and both descriptors are closed.
Close(p) == pc[p] = "body" /\ Leave(p, "done")

\* close() reports an error.  Linux has released the descriptor by then, other
\* kernels may leave it open until the process exits: the flock may linger.  The
\* error is not reported if the body raised.
CloseFails(p) ==
    /\ pc[p] = "body"
    /\ \E why \in {"release_failed", "done"} :
          \/ Leave(p, why)
          \/ /\ pc' = [pc EXCEPT ![p] = "idle"]
             /\ fd' = [fd EXCEPT ![p] = NoInode]
             /\ result' = [result EXCEPT ![p] = why]
             /\ UNCHANGED <<host, path, fit, flock>>

\* The process exits or is killed at any point; the kernel closes everything.
\* Process p of the next invocation starts idle.
Exit(p) ==
    /\ pc' = [pc EXCEPT ![p] = "idle"]
    /\ flock' = [i \in Inodes |-> IF flock[i] = p THEN Nobody ELSE flock[i]]
    /\ fd' = [fd EXCEPT ![p] = NoInode]
    /\ result' = [result EXCEPT ![p] = "none"]
    /\ UNCHANGED <<host, path, fit>>

-----------------------------------------------------------------------------
(* The operator and the file system.                                       *)

\* The file is removed: its link count becomes 0 for whoever has it open.
Unlink(h) ==
    /\ path[h] # NoInode
    /\ ~InBody(h)
    /\ path' = [path EXCEPT ![h] = NoInode]
    /\ fit' = [fit EXCEPT ![path[h]] = FALSE]
    /\ UNCHANGED <<pc, host, fd, flock, result>>

\* A copy or a restored backup is renamed over the name.
Replace(h, i) ==
    /\ path[h] # NoInode
    /\ ~InBody(h)
    /\ Unused(i)
    /\ path' = [path EXCEPT ![h] = i]
    /\ \E b \in BOOLEAN : fit' = [fit EXCEPT ![path[h]] = FALSE, ![i] = b]
    /\ UNCHANGED <<pc, host, fd, flock, result>>

\* Mode, owner, size or links of the file are changed, or repaired.
Chmod(h) ==
    /\ path[h] # NoInode
    /\ \E b \in BOOLEAN : fit' = [fit EXCEPT ![path[h]] = b]
    /\ UNCHANGED <<pc, host, fd, path, flock, result>>

-----------------------------------------------------------------------------
Step(p) ==
    \/ OpenFails(p) \/ OpenFile(p) \/ Validate(p) \/ Flock(p)
    \/ Revalidate(p) \/ Restat(p) \/ Close(p) \/ CloseFails(p)

Environment(h) == Unlink(h) \/ (\E i \in Inodes : Replace(h, i)) \/ Chmod(h)

Next ==
    \/ \E p \in Procs :
          Step(p) \/ CallFails(p) \/ Exit(p) \/ (\E h \in Hosts : OpenDirectory(p, h))
    \/ \E h \in Hosts : Environment(h)

Spec == Init /\ [][Next]_vars

\* The body and the calls around it return: each SSH, HTTPS and file operation
\* of the body has its own deadline.
FairSpec == Spec /\ \A p \in Procs : WF_vars(Step(p))

-----------------------------------------------------------------------------
(* Refinement of the abstract lock.                                        *)

holderBar == [h \in Hosts |-> {p \in Procs : pc[p] = "body" /\ host[p] = h}]

Abstract == INSTANCE HostLock WITH holder <- holderBar

\* lifecycle_lock behaves as the abstract lock: with files removed or replaced in
\* the middle of an acquisition, crashes, and failing closes, a body is entered
\* only while no other body of the same host runs.
ImplementsHostLock == Abstract!LockSpec

\* Two processes never run a protected operation on one switch at a time.
MutualExclusion ==
    \A p, q \in Procs :
        pc[p] = "body" /\ pc[q] = "body" /\ host[p] = host[q] => p = q

\* Types, and why the lock excludes: a body runs only while the flock of the very
\* file its host's pathname names belongs to it, so that whoever opens the
\* pathname later meets a busy lock.
LockInv ==
    /\ TypeOK
    /\ \A p \in Procs :
          /\ pc[p] \in {"validate", "flock", "revalidate", "restat", "body"} =>
                fd[p] \in Inodes
          /\ pc[p] \in {"revalidate", "restat", "body"} => flock[fd[p]] = p
          /\ pc[p] = "body" => path[host[p]] = fd[p]

\* Every acquisition and body comes to an end and leaves lifecycle_lock.
EveryUseEnds == \A p \in Procs : pc[p] # "idle" ~> pc[p] = "idle"
=============================================================================
