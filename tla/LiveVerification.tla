-------------------------- MODULE LiveVerification --------------------------
(***************************************************************************)
(* verify_live_https_certificate: after an installation the switch         *)
(* restarts its web server, and the check connects to it again and again   *)
(* until it presents the expected certificate or the verification window   *)
(* closes.  A host name is first resolved in a child process, because      *)
(* getaddrinfo cannot be given a timeout; the child is killed before the   *)
(* window closes.                                                          *)
(*                                                                         *)
(* Time is a clock that starts at 0 when the deadline is computed.  It     *)
(* advances while a call blocks, up to the timeout of the call, and by     *)
(* Stall: the process is preempted, or a call returns late.  The switch    *)
(* behaves in any way until it is ready, which may never happen; a call    *)
(* begun after that is answered at once, with the expected certificate.    *)
(***************************************************************************)
EXTENDS Integers

CONSTANTS
    Window,         \* verification_window
    RetryDelay,     \* retry_delay
    SocketTimeout,  \* socket_timeout
    Cleanup,        \* HTTPS_RESOLVER_CLEANUP_SECONDS
    MaxAddresses,   \* addresses the resolver hands over
    MaxStall        \* bound on the time lost to the scheduler

\* The checks on the arguments; a retry delay of zero is accepted by the code,
\* but only its tests pass one.
ASSUME TimesAssumption ==
    /\ Window \in Nat \ {0} /\ SocketTimeout \in Nat \ {0}
    /\ RetryDelay \in Nat \ {0} /\ Cleanup \in Nat \ {0}
    /\ MaxAddresses \in Nat \ {0} /\ MaxStall \in Nat

VARIABLES
    now, stalled,
    pc,
    until,       \* when the blocking call in progress times out
    prompt,      \* the switch was ready when that call began
    proc,        \* the resolver process: "none", "running", "exited"
    mail,        \* addresses in the pipe; 0 is an empty list or the end of file
    fds,         \* open descriptors
    error,       \* exception on its way through the finally clause
    addresses,   \* how many addresses the host has
    i,           \* the address being tried
    peer,        \* leaf certificate of the last handshake
    result,
    readySince, resolvedAt   \* history

lvars == <<now, stalled, pc, until, prompt, proc, mail, fds, error, addresses,
           i, peer, result, readySince, resolvedAt>>

Never == -1
NoMail == -1
Deadline == Window
Expired == Deadline - now <= 0

ResolverErrors == {"exceeded", "not_started", "unresolved"}
Results == ResolverErrors \cup
    {"none", "stuck", "success", "window", "tls_failed", "connection_failed"}

Blocking == {"poll", "join", "connect", "handshake", "sleep"}
Locations == Blocking \cup
    {"start", "spawn", "cleanup", "loop", "address", "leaf", "compare",
     "pause", "done"}

LiveTypeOK ==
    /\ now \in Nat /\ stalled \in 0..MaxStall /\ until \in Nat
    /\ pc \in Locations
    /\ prompt \in BOOLEAN
    /\ proc \in {"none", "running", "exited"}
    /\ mail \in NoMail..MaxAddresses
    /\ fds \subseteq {"receiver", "sender", "tcp"}
    /\ error \in ResolverErrors \cup {"none"}
    /\ addresses \in 0..MaxAddresses
    /\ i \in 1..(MaxAddresses + 1)
    /\ peer \in {"none", "expected", "other"}
    /\ result \in Results
    /\ readySince \in Nat \cup {Never} /\ resolvedAt \in Nat \cup {Never}

Init ==
    /\ now = 0 /\ stalled = 0 /\ until = 0
    /\ pc = "start"
    /\ prompt = FALSE
    /\ proc = "none" /\ mail = NoMail /\ fds = {} /\ error = "none"
    /\ addresses = 0 /\ i = 1 /\ peer = "none" /\ result = "none"
    /\ readySince = Never /\ resolvedAt = Never
-----------------------------------------------------------------------------
Smaller(a, b) == IF a < b THEN a ELSE b

\* Defects: a timeout that ignores the window, and one that is the whole window.
CallTimeoutUncapped == SocketTimeout
CallTimeoutWholeWindow == Deadline - now

\* _live_https_timeout, for the moments where it returns.
CallTimeout == Smaller(SocketTimeout, Deadline - now)

\* How long the parent waits for the resolver: the end of the window is kept
\* for killing it.
PollTime ==
    IF Deadline - now - Cleanup < 0 THEN 0 ELSE Deadline - now - Cleanup

\* A call that may block for t.
Block(l, t) ==
    /\ pc' = l
    /\ until' = now + t
    /\ prompt' = (readySince # Never)

Finish(r) ==
    /\ pc' = "done"
    /\ result' = r

Clock == <<now, stalled>>
Resolver == <<proc, mail, error, addresses, resolvedAt>>
Calls == <<until, prompt>>
-----------------------------------------------------------------------------
(* _resolve_live_https_addresses *)

\* The host is an address literal.
Literal ==
    /\ pc = "start"
    /\ addresses' = 1 /\ resolvedAt' = now
    /\ pc' = "loop"
    /\ UNCHANGED <<Clock, Calls, proc, mail, fds, error, i, peer, result, readySince>>

\* Too little time is left, or the pipe or the process object is refused.
CannotResolve ==
    /\ pc = "start"
    /\ IF Deadline - now <= Cleanup
       THEN Finish("exceeded")
       ELSE Finish("not_started")
    /\ UNCHANGED <<Clock, Calls, Resolver, fds, i, peer, readySince>>

OpenPipe ==
    /\ pc = "start"
    /\ Deadline - now > Cleanup
    /\ fds' = {"receiver", "sender"}
    /\ pc' = "spawn"
    /\ UNCHANGED <<Clock, Calls, Resolver, i, peer, result, readySince>>

\* process.start(), then the parent's copy of the write end is closed.
StartResolver ==
    /\ pc = "spawn"
    /\ \/ /\ proc' = "running"
          /\ fds' = fds \ {"sender"}
          /\ Block("poll", PollTime)
          /\ UNCHANGED error
       \/ /\ error' = "not_started"
          /\ pc' = "cleanup"
          /\ UNCHANGED <<Calls, proc, fds>>
    /\ UNCHANGED <<Clock, mail, addresses, i, peer, result, readySince, resolvedAt>>

\* poll() and recv(); a worker that dies closes its end, which reads as the end
\* of file.
Receive ==
    /\ pc = "poll"
    /\ mail # NoMail \/ proc = "exited" \/ now >= until
    /\ LET arrived == mail # NoMail \/ proc = "exited"
       IN  error' = IF ~arrived THEN "exceeded"
                    ELSE IF mail <= 0 THEN "unresolved"
                    ELSE IF now >= Deadline THEN "exceeded"
                    ELSE "none"
    /\ addresses' = IF error' = "none" THEN mail ELSE 0
    /\ pc' = "cleanup"
    /\ UNCHANGED <<Clock, Calls, proc, mail, fds, i, peer, result, readySince, resolvedAt>>

\* The end of the finally clause: the addresses are returned, or the exception
\* goes on.
Leave ==
    IF error = "none"
    THEN pc' = "loop" /\ resolvedAt' = now /\ UNCHANGED result
    ELSE Finish(error) /\ UNCHANGED resolvedAt

\* A defect: the child is abandoned instead of being joined.
ReleaseResolverNoJoin ==
    /\ pc = "cleanup"
    /\ fds' = fds \ {"receiver", "sender"}
    /\ Leave
    /\ UNCHANGED <<Clock, Calls, proc, mail, error, addresses, i, peer, readySince>>

\* Both ends are closed; a child that still runs is killed and joined.
ReleaseResolver ==
    /\ pc = "cleanup"
    /\ fds' = fds \ {"receiver", "sender"}
    /\ IF proc = "running"
       THEN Block("join", Cleanup) /\ UNCHANGED <<result, resolvedAt>>
       ELSE Leave /\ UNCHANGED Calls
    /\ UNCHANGED <<Clock, proc, mail, error, addresses, i, peer, readySince>>

\* A defect: join() without its timeout.
JoinNoTimeout ==
    /\ pc = "join"
    /\ proc = "exited"
    /\ Leave
    /\ UNCHANGED <<Clock, Calls, proc, mail, fds, error, addresses, i, peer, readySince>>

Join ==
    /\ pc = "join"
    /\ \/ proc = "exited" /\ Leave
       \/ /\ proc = "running" /\ now >= until
          /\ Finish("stuck")
          /\ UNCHANGED resolvedAt
    /\ UNCHANGED <<Clock, Calls, proc, mail, fds, error, addresses, i, peer, readySince>>

\* _resolve_hostname_worker sends a list, perhaps an empty one, or closes the
\* pipe without sending.
WorkerSends ==
    /\ proc = "running" /\ pc = "poll"
    /\ mail = NoMail
    /\ mail' \in 0..MaxAddresses
    /\ UNCHANGED <<Clock, pc, Calls, proc, fds, error, addresses, i, peer, result,
                   readySince, resolvedAt>>

\* The worker ends by itself, is killed by its parent, or dies.
WorkerExits ==
    /\ proc = "running"
    /\ proc' = "exited"
    /\ UNCHANGED <<Clock, pc, Calls, mail, fds, error, addresses, i, peer, result,
                   readySince, resolvedAt>>
-----------------------------------------------------------------------------
(* verify_live_https_certificate and _read_live_https_leaf *)

Attempt ==
    /\ pc = "loop"
    /\ IF Expired
       THEN Finish("window") /\ UNCHANGED i
       ELSE pc' = "address" /\ i' = 1 /\ UNCHANGED result
    /\ UNCHANGED <<Clock, Calls, Resolver, fds, peer, readySince>>

\* A retryable error on one address: the socket is closed by its with block, and
\* the next address is tried unless the window is over.
NextAddress ==
    /\ fds' = fds \ {"tcp"}
    /\ pc' = IF Expired \/ i = addresses THEN "pause" ELSE "address"
    /\ i' = i + 1
    /\ UNCHANGED <<Calls, result>>

\* Any other OSError, or an SSLError, ends the verification.
GiveUp(r) ==
    /\ fds' = fds \ {"tcp"}
    /\ Finish(r)
    /\ UNCHANGED <<Calls, i>>

OpenSocket ==
    /\ pc = "address"
    /\ \/ GiveUp("connection_failed")
       \/ Expired /\ NextAddress
       \/ /\ ~Expired
          /\ fds' = fds \cup {"tcp"}
          /\ Block("connect", CallTimeout)
          /\ UNCHANGED <<i, result>>
    /\ UNCHANGED <<Clock, Resolver, peer, readySince>>

Connected ==
    /\ pc = "connect"
    /\ \/ Expired /\ NextAddress
       \/ /\ ~Expired
          /\ Block("handshake", CallTimeout)
          /\ UNCHANGED <<fds, i, result>>
    /\ UNCHANGED <<Clock, Resolver, peer, readySince>>

\* Refused, unreachable or reset at any time, timed out when the time is up.
CallFails ==
    /\ pc \in {"connect", "handshake"}
    /\ ~prompt
    /\ NextAddress
    /\ UNCHANGED <<Clock, Resolver, peer, readySince>>

CallRaises ==
    /\ pc \in {"connect", "handshake"}
    /\ ~prompt
    /\ \/ GiveUp("connection_failed")
       \/ pc = "handshake" /\ GiveUp("tls_failed")
    /\ UNCHANGED <<Clock, Resolver, peer, readySince>>

HandshakeDone ==
    /\ pc = "handshake"
    /\ peer' \in IF prompt THEN {"expected"} ELSE {"expected", "other"}
    /\ fds' = fds \ {"tcp"}
    /\ pc' = "leaf"
    /\ UNCHANGED <<Clock, Calls, Resolver, i, result, readySince>>

\* The leaf is returned only if the window is still open.
ReturnLeaf ==
    /\ pc = "leaf"
    /\ IF Expired
       THEN NextAddress
       ELSE pc' = "compare" /\ UNCHANGED <<Calls, fds, i, result>>
    /\ UNCHANGED <<Clock, Resolver, peer, readySince>>

\* A defect: the window is not looked at again.
CompareNoDeadline ==
    /\ pc = "compare"
    /\ \/ peer = "expected" /\ Finish("success")
       \/ peer = "other" /\ pc' = "pause" /\ UNCHANGED result
    /\ UNCHANGED <<Clock, Calls, Resolver, fds, i, peer, readySince>>

Compare ==
    /\ pc = "compare"
    /\ \/ peer = "expected" /\ Finish(IF Expired THEN "window" ELSE "success")
       \/ peer = "other" /\ pc' = "pause" /\ UNCHANGED result
    /\ UNCHANGED <<Clock, Calls, Resolver, fds, i, peer, readySince>>

Pause ==
    /\ pc = "pause"
    /\ IF Expired
       THEN Finish("window") /\ UNCHANGED Calls
       ELSE Block("sleep", Smaller(RetryDelay, Deadline - now)) /\ UNCHANGED result
    /\ UNCHANGED <<Clock, Resolver, fds, i, peer, readySince>>

Wake ==
    /\ pc = "sleep" /\ now >= until
    /\ pc' = "loop"
    /\ UNCHANGED <<Clock, Calls, Resolver, fds, i, peer, result, readySince>>
-----------------------------------------------------------------------------
(* Time and the switch *)

\* A call that could return at once does not wait.
Waiting ==
    /\ pc \in Blocking /\ now < until
    /\ pc = "poll" => mail = NoMail /\ proc = "running"
    /\ pc = "join" => proc = "running"
    /\ pc \in {"connect", "handshake"} => ~prompt

Tick ==
    /\ Waiting
    /\ now' = now + 1
    /\ UNCHANGED <<stalled, pc, Calls, Resolver, fds, i, peer, result, readySince>>

Stall ==
    /\ pc # "done" /\ stalled < MaxStall
    /\ now' = now + 1 /\ stalled' = stalled + 1
    /\ UNCHANGED <<pc, Calls, Resolver, fds, i, peer, result, readySince>>

SwitchReady ==
    /\ readySince = Never
    /\ readySince' = now
    /\ UNCHANGED <<Clock, pc, Calls, Resolver, fds, i, peer, result, resolvedAt>>

Code ==
    \/ Literal \/ CannotResolve \/ OpenPipe \/ StartResolver \/ Receive
    \/ ReleaseResolver \/ Join
    \/ Attempt \/ OpenSocket \/ Connected \/ CallFails \/ CallRaises
    \/ HandshakeDone \/ ReturnLeaf \/ Compare \/ Pause \/ Wake

Next == Code \/ Tick \/ Stall \/ SwitchReady \/ WorkerSends \/ WorkerExits

LiveSpec == Init /\ [][Next]_lvars

\* The process keeps running and the clock keeps moving.  Nothing is assumed of
\* the switch, nor of the resolver: a killed child may refuse to die.
FairLiveSpec == LiveSpec /\ WF_lvars(Code) /\ WF_lvars(Tick)
-----------------------------------------------------------------------------
\* Why the window is kept: a blocking call ends before the window does, and the
\* resolver's part early enough to kill the child.  Why nothing is left behind:
\* each descriptor and the child live in a known part of the code.
Resolving == {"spawn", "poll", "cleanup"}
LiveInv ==
    /\ LiveTypeOK
    /\ now <= Deadline + stalled
    /\ pc = "start" => now = stalled
    /\ pc \in Resolving => now <= Deadline - Cleanup + stalled
    /\ pc \in Blocking => until <= Deadline + stalled
    /\ pc = "poll" => until <= Deadline - Cleanup + stalled
    /\ {"receiver", "sender"} \cap fds # {} => pc \in Resolving
    /\ "tcp" \in fds => pc \in {"connect", "handshake"}
    /\ proc = "running" =>
           pc \in {"poll", "cleanup", "join"} \/ (pc = "done" /\ result = "stuck")
    /\ pc \in {"leaf", "compare"} => peer # "none"
    /\ result # "none" => pc = "done"
    /\ pc \in {"address", "connect", "handshake", "leaf", "compare"} => i <= addresses
    /\ pc \in {"loop", "address", "connect", "handshake", "leaf", "compare", "pause",
               "sleep"} => addresses > 0
    /\ pc \in {"start", "spawn", "poll"} => addresses = 0
    /\ pc \in {"cleanup", "join"} => (error = "none" <=> addresses > 0)
    /\ result = "success" => peer = "expected" /\ now < Deadline

\* Whatever the switch and the resolver do, the verification is over when its
\* window is: every blocking call (poll, join, connect, handshake, sleep) was
\* given no more time than the window had left.
EndsInTime == now <= Deadline + stalled

\* Success is reported for the exact certificate that was installed, and only
\* while the window is open.
SuccessIsExactAndInTime ==
    result = "success" => peer = "expected" /\ now < Deadline

\* When verify_live_https_certificate ends, no socket and no pipe end is open,
\* and no resolver process is left, except the one that a run reports it could
\* not stop.
NothingLeftBehind ==
    pc = "done" => /\ fds = {}
                   /\ proc = "running" => result = "stuck"

Later(a, b) == IF a < b THEN b ELSE a

\* The window closes on a switch only if it was not ready in time: a switch that
\* presents the new certificate one call and one retry delay before the deadline
\* is verified, whatever it did before (unless it had already failed in a way
\* that is not retried).
ReadySwitchIsVerified ==
    result = "window" /\ readySince # Never =>
        Later(readySince, resolvedAt) + SocketTimeout + RetryDelay + stalled >= Deadline

\* The verification always ends.
Terminates == <>(pc = "done")
=============================================================================
