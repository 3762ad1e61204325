------------------------------ MODULE HostLock ------------------------------
(***************************************************************************)
(* What lifecycle_lock(canonical_host) promises to the code in its body:   *)
(* for each canonical host at most one process runs a protected operation. *)
(* The lock is taken without waiting, given up when the body ends and when *)
(* the process dies.  LifecycleLock.tla shows that the flock protocol of   *)
(* lifecycle_lock.py implements this specification; Renewal.tla takes its  *)
(* Acquire and Release steps for the lock of the renewal lifecycle.        *)
(***************************************************************************)
CONSTANTS Procs,   \* the processes of one machine
          Hosts    \* canonical switch hosts

VARIABLE holder    \* holder[h]: the processes in a body protected by h

LockTypeOK == holder \in [Hosts -> SUBSET Procs]

LockInit == holder = [h \in Hosts |-> {}]

\* The body is entered: lifecycle_lock yields.
Acquire(p, h) ==
    /\ holder[h] = {}
    /\ holder' = [holder EXCEPT ![h] = {p}]

\* The body has ended, or the process has died and the kernel closed its files.
Release(p, h) ==
    /\ holder[h] = {p}
    /\ holder' = [holder EXCEPT ![h] = {}]

LockNext == \E p \in Procs, h \in Hosts : Acquire(p, h) \/ Release(p, h)

LockSpec == LockInit /\ [][LockNext]_holder
=============================================================================
