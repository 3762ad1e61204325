----------------------- MODULE LiveVerificationProofs -----------------------
(***************************************************************************)
(* LiveInv and ReadyInv are invariants of the live verification, for every *)
(* window, timeout, retry delay and number of addresses, and however often *)
(* the scheduler stalls the process.  What the runs check of a small       *)
(* window follows from them for every one.                                 *)
(***************************************************************************)
EXTENDS LiveVerification, TLAPS

\* The invariant holds when the deadline has just been computed.
LEMMA LiveInitInv == Init => LiveInv
<1> SUFFICES ASSUME Init
             PROVE  LiveInv
  OBVIOUS
<1>1. prompt \in BOOLEAN
  BY DEF Init
<1> QED BY <1>1, TimesAssumption DEF Init, LiveInv, LiveTypeOK, Locations, Blocking,
           Resolving, Results, ResolverErrors, Deadline, NoMail, Never

\* Every step of the code, of the clock, of the switch and of the resolver keeps
\* the invariant.  The steps that begin a blocking call (StartResolver,
\* ReleaseResolver, OpenSocket, Connected, Pause) are those where the timeout
\* computed from the remaining time matters.
LEMMA LiveStepInv == LiveInv /\ [Next]_lvars => LiveInv'
<1> SUFFICES ASSUME LiveInv, [Next]_lvars
             PROVE  LiveInv'
  OBVIOUS
<1> USE TimesAssumption DEF LiveInv, LiveTypeOK, Locations, Blocking, Resolving, Results,
        ResolverErrors, Deadline, NoMail, Never, Clock, Calls, Resolver
<1>1. CASE Literal
  BY <1>1 DEF Literal
<1>2. CASE CannotResolve
  BY <1>2 DEF CannotResolve, Finish
<1>3. CASE OpenPipe
  BY <1>3 DEF OpenPipe
<1>4. CASE StartResolver
  <2>1. prompt' \in BOOLEAN
    BY <1>4, Zenon DEF StartResolver, Block
  <2>2. CASE /\ proc' = "running" /\ fds' = fds \ {"sender"}
             /\ Block("poll", PollTime) /\ UNCHANGED error
    BY <1>4, <2>1, <2>2 DEF StartResolver, Block, PollTime
  <2>3. CASE error' = "not_started" /\ pc' = "cleanup" /\ UNCHANGED <<Calls, proc, fds>>
    BY <1>4, <2>1, <2>3 DEF StartResolver
  <2> QED BY <1>4, <2>2, <2>3 DEF StartResolver
<1>5. CASE Receive
  BY <1>5 DEF Receive
<1>6. CASE ReleaseResolver
  <2>1. prompt' \in BOOLEAN
    BY <1>6, Zenon DEF ReleaseResolver, Block, Leave, Finish
  <2> QED BY <1>6, <2>1 DEF ReleaseResolver, Block, Leave, Finish
<1>7. CASE Join
  BY <1>7 DEF Join, Leave, Finish
<1>8. CASE Attempt
  BY <1>8 DEF Attempt, Finish, Expired
<1>9. CASE OpenSocket
  <2>1. prompt' \in BOOLEAN
    BY <1>9, Zenon DEF OpenSocket, GiveUp, NextAddress, Block
  <2>2. CASE GiveUp("connection_failed")
    BY <1>9, <2>1, <2>2 DEF OpenSocket, GiveUp, Finish
  <2>3. CASE Expired /\ NextAddress
    BY <1>9, <2>1, <2>3 DEF OpenSocket, NextAddress, Expired
  <2>4. CASE /\ ~Expired /\ fds' = fds \cup {"tcp"}
             /\ Block("connect", CallTimeout) /\ UNCHANGED <<i, result>>
    BY <1>9, <2>1, <2>4 DEF OpenSocket, Block, CallTimeout, Smaller, Expired
  <2> QED BY <1>9, <2>2, <2>3, <2>4 DEF OpenSocket
<1>10. CASE Connected
  <2>1. prompt' \in BOOLEAN
    BY <1>10, Zenon DEF Connected, NextAddress, Block
  <2>2. CASE Expired /\ NextAddress
    BY <1>10, <2>1, <2>2 DEF Connected, NextAddress, Expired
  <2>3. CASE ~Expired /\ Block("handshake", CallTimeout) /\ UNCHANGED <<fds, i, result>>
    BY <1>10, <2>1, <2>3 DEF Connected, Block, CallTimeout, Smaller, Expired
  <2> QED BY <1>10, <2>2, <2>3 DEF Connected
<1>11. CASE CallFails
  BY <1>11 DEF CallFails, NextAddress, Expired
<1>12. CASE CallRaises
  <2>1. CASE GiveUp("connection_failed")
    BY <1>12, <2>1 DEF CallRaises, GiveUp, Finish
  <2>2. CASE GiveUp("tls_failed")
    BY <1>12, <2>2 DEF CallRaises, GiveUp, Finish
  <2> QED BY <1>12, <2>1, <2>2 DEF CallRaises
<1>13. CASE HandshakeDone
  BY <1>13 DEF HandshakeDone
<1>14. CASE ReturnLeaf
  <2>1. CASE Expired
    <3>1. /\ pc = "leaf" /\ pc' = "pause" /\ i' = i + 1 /\ fds' = fds \ {"tcp"}
          /\ UNCHANGED <<Clock, Calls, Resolver, peer, result, readySince>>
      BY <1>14, <2>1, Zenon DEF ReturnLeaf, NextAddress
    <3> QED BY <3>1
  <2>2. CASE ~Expired
    BY <1>14, <2>2 DEF ReturnLeaf, Expired
  <2> QED BY <2>1, <2>2
<1>15. CASE Compare
  BY <1>15 DEF Compare, Finish, Expired
<1>16. CASE Pause
  <2>1. prompt' \in BOOLEAN
    BY <1>16, Zenon DEF Pause, Finish, Block
  <2> QED BY <1>16, <2>1 DEF Pause, Finish, Expired, Block, Smaller
<1>17. CASE Wake
  BY <1>17 DEF Wake
<1>18. CASE Tick
  BY <1>18 DEF Tick, Waiting
<1>19. CASE Stall
  BY <1>19 DEF Stall
<1>20. CASE SwitchReady
  BY <1>20 DEF SwitchReady
<1>21. CASE WorkerSends
  BY <1>21 DEF WorkerSends
<1>22. CASE WorkerExits
  BY <1>22 DEF WorkerExits
<1>23. CASE UNCHANGED lvars
  BY <1>23 DEF lvars
<1> QED BY <1>1, <1>2, <1>3, <1>4, <1>5, <1>6, <1>7, <1>8, <1>9, <1>10, <1>11, <1>12,
           <1>13, <1>14, <1>15, <1>16, <1>17, <1>18, <1>19, <1>20, <1>21, <1>22, <1>23
       DEF Next, Code

\* LiveInv holds in every state of a verification.
THEOREM LiveInvariant == LiveSpec => []LiveInv
  BY LiveInitInv, LiveStepInv, PTL DEF LiveSpec

\* The verification never outlives its window by more than the time that the
\* scheduler took away from it.
THEOREM LiveEndsInTime == LiveSpec => []EndsInTime
<1>1. LiveInv => EndsInTime
  BY DEF LiveInv, EndsInTime
<1> QED BY <1>1, LiveInvariant, PTL

\* Success is reported only for the installed certificate, in the open window.
THEOREM LiveSuccessIsExact == LiveSpec => []SuccessIsExactAndInTime
<1>1. LiveInv => SuccessIsExactAndInTime
  BY DEF LiveInv, SuccessIsExactAndInTime
<1> QED BY <1>1, LiveInvariant, PTL

\* When the verification is over it has closed every socket and both ends of the
\* resolver's pipe, and has stopped the resolver or says that it could not.
THEOREM LiveLeavesNothing == LiveSpec => []NothingLeftBehind
<1>1. LiveInv => NothingLeftBehind
  BY DEF LiveInv, LiveTypeOK, NothingLeftBehind, Resolving
<1> QED BY <1>1, LiveInvariant, PTL
-----------------------------------------------------------------------------
(* A switch that is ready in time is verified.                             *)

\* The attempts, after the addresses are known.
Attempting == {"loop", "address", "connect", "handshake", "leaf", "compare", "pause", "sleep"}
Calling == {"connect", "handshake"}

\* Since when the switch is ready for attempts, and how long after it the last attempt
\* that began too early, and the sleep after that, may last.
Last == Later(readySince, resolvedAt)
EarlyEnd == Last + SocketTimeout + stalled
LateEnd == Last + SocketTimeout + RetryDelay + stalled

\* Once the switch is ready only a call that began before can fail: the code is then at
\* most one such call and one retry delay behind.
ReadyInv ==
    /\ prompt => readySince # Never
    /\ pc \in Calling => until <= now + SocketTimeout
    /\ pc = "sleep" => until <= now + RetryDelay
    /\ result = "window" => Deadline <= now
    /\ readySince # Never =>
          /\ pc \in Attempting => now <= LateEnd
          /\ pc = "sleep" => until <= LateEnd
          /\ pc \in Calling /\ ~prompt => now <= EarlyEnd /\ until <= EarlyEnd
          /\ pc \in {"leaf", "compare"} /\ peer = "other" => now <= EarlyEnd
          /\ pc = "pause" => now <= EarlyEnd \/ Expired
          /\ result = "window" => Deadline <= LateEnd

\* It holds initially.
LEMMA ReadyInitInv == Init => ReadyInv
  BY TimesAssumption DEF Init, ReadyInv, Calling, Attempting, Never

\* Every step keeps it.
LEMMA ReadyStepInv == LiveInv /\ ReadyInv /\ [Next]_lvars => ReadyInv'
<1> SUFFICES ASSUME LiveInv, ReadyInv, [Next]_lvars
             PROVE  ReadyInv'
  OBVIOUS
<1>0. /\ now \in Nat /\ stalled \in Nat /\ until \in Nat
      /\ readySince \in Nat \cup {Never} /\ resolvedAt \in Nat \cup {Never}
      /\ peer \in {"none", "expected", "other"} /\ prompt \in BOOLEAN
      /\ result # "none" => pc = "done"
      /\ pc \in {"leaf", "compare"} => peer # "none"
  BY TimesAssumption DEF LiveInv, LiveTypeOK
<1> USE TimesAssumption, <1>0 DEF ReadyInv, Calling, Attempting, Deadline, Never, Clock, Calls,
        Resolver, EarlyEnd, LateEnd, Last, Later
<1>1. CASE Literal
  BY <1>1 DEF Literal
<1>2. CASE CannotResolve
  BY <1>2 DEF CannotResolve, Finish
<1>3. CASE OpenPipe
  BY <1>3 DEF OpenPipe
<1>4. CASE StartResolver
  <2>1. prompt' => readySince # Never
    BY <1>4, Zenon DEF StartResolver, Block
  <2> QED BY <1>4, <2>1 DEF StartResolver, Block
<1>5. CASE Receive
  BY <1>5 DEF Receive
<1>6. CASE ReleaseResolver
  <2>1. prompt' => readySince # Never
    BY <1>6, Zenon DEF ReleaseResolver, Block, Leave, Finish
  <2>2. error # "window"
    BY DEF LiveInv, LiveTypeOK, ResolverErrors
  <2> QED BY <1>6, <2>1, <2>2 DEF ReleaseResolver, Block, Leave, Finish
<1>7. CASE Join
  <2>1. error # "window"
    BY DEF LiveInv, LiveTypeOK, ResolverErrors
  <2> QED BY <1>7, <2>1 DEF Join, Leave, Finish
<1>8. CASE Attempt
  BY <1>8 DEF Attempt, Finish, Expired
<1>9. CASE OpenSocket
  <2>1. CASE GiveUp("connection_failed")
    BY <1>9, <2>1 DEF OpenSocket, GiveUp, Finish
  <2>2. CASE Expired /\ NextAddress
    BY <1>9, <2>2 DEF OpenSocket, NextAddress, Expired
  <2>3. CASE /\ ~Expired /\ fds' = fds \cup {"tcp"}
             /\ Block("connect", CallTimeout) /\ UNCHANGED <<i, result>>
    <3>1. prompt' <=> readySince # Never
      BY <2>3, Zenon DEF Block
    <3> QED BY <1>9, <2>3, <3>1 DEF OpenSocket, Block, CallTimeout, Smaller, Expired
  <2> QED BY <1>9, <2>1, <2>2, <2>3 DEF OpenSocket
<1>10. CASE Connected
  <2>1. CASE Expired /\ NextAddress
    BY <1>10, <2>1 DEF Connected, NextAddress, Expired
  <2>2. CASE ~Expired /\ Block("handshake", CallTimeout) /\ UNCHANGED <<fds, i, result>>
    <3>1. prompt' <=> readySince # Never
      BY <2>2, Zenon DEF Block
    <3> QED BY <1>10, <2>2, <3>1 DEF Connected, Block, CallTimeout, Smaller, Expired
  <2> QED BY <1>10, <2>1, <2>2 DEF Connected
<1>11. CASE CallFails
  BY <1>11 DEF CallFails, NextAddress, Expired
<1>12. CASE CallRaises
  BY <1>12 DEF CallRaises, GiveUp, Finish
<1>13. CASE HandshakeDone
  BY <1>13 DEF HandshakeDone
<1>14. CASE ReturnLeaf
  <2>1. CASE Expired
    <3>1. /\ pc = "leaf" /\ pc' = "pause"
          /\ UNCHANGED <<Clock, Calls, Resolver, peer, result, readySince>>
      BY <1>14, <2>1, Zenon DEF ReturnLeaf, NextAddress
    <3> QED BY <2>1, <3>1 DEF Expired
  <2>2. CASE ~Expired
    BY <1>14, <2>2 DEF ReturnLeaf
  <2> QED BY <2>1, <2>2
<1>15. CASE Compare
  BY <1>15 DEF Compare, Finish, Expired
<1>16. CASE Pause
  <2>1. prompt' => readySince # Never
    BY <1>16, Zenon DEF Pause, Finish, Block
  <2> QED BY <1>16, <2>1 DEF Pause, Finish, Expired, Block, Smaller
<1>17. CASE Wake
  BY <1>17 DEF Wake
<1>18. CASE Tick
  BY <1>18 DEF Tick, Waiting, Blocking, Expired
<1>19. CASE Stall
  BY <1>19 DEF Stall, Expired
<1>20. CASE SwitchReady
  BY <1>20 DEF SwitchReady, Expired
<1>21. CASE WorkerSends
  BY <1>21 DEF WorkerSends, Expired
<1>22. CASE WorkerExits
  BY <1>22 DEF WorkerExits, Expired
<1>23. CASE UNCHANGED lvars
  BY <1>23 DEF lvars, Expired
<1> QED BY <1>1, <1>2, <1>3, <1>4, <1>5, <1>6, <1>7, <1>8, <1>9, <1>10, <1>11, <1>12,
           <1>13, <1>14, <1>15, <1>16, <1>17, <1>18, <1>19, <1>20, <1>21, <1>22, <1>23
       DEF Next, Code

\* The window closes on a switch only if it was not ready, or its name not resolved, one
\* call and one retry delay before the deadline.
THEOREM LiveReadyIsVerified == LiveSpec => []ReadySwitchIsVerified
<1>1. ReadyInv => ReadySwitchIsVerified
  BY DEF ReadyInv, ReadySwitchIsVerified, LateEnd, Last
<1>2. LiveSpec => []ReadyInv
  BY ReadyInitInv, ReadyStepInv, LiveInvariant, PTL DEF LiveSpec
<1> QED BY <1>1, <1>2, PTL
=============================================================================
