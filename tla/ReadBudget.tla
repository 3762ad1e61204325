----------------------------- MODULE ReadBudget -----------------------------
(***************************************************************************)
(* One SSH session as bounded_netmiko.py bounds it.  A session starts with *)
(* the setup budget; each command then runs in a read_budget scope of its  *)
(* own, and going over a budget poisons the connection for good.  The      *)
(* transport thread of Paramiko poisons it too, at any moment, by raising  *)
(* a flag of its packetizer.                                               *)
(*                                                                         *)
(* The caller is the command sequence of aruba_cert_renewer.py: commands   *)
(* in exec mode, and a visit to configuration mode which is left in a      *)
(* finally clause unless the connection is poisoned.  Netmiko, which calls *)
(* the channel, is external: a command is any sequence of reads and        *)
(* writes that ends normally only after it wrote its line, and may leave   *)
(* some of the text it read in _read_buffer.  A character                  *)
(* is one byte.                                                            *)
(***************************************************************************)
EXTENDS Integers, Sequences

CONSTANTS
    SetupLimit,     \* SETUP_READ_BYTES
    OpLimits,       \* limits that _ssh_read_budget computes
    MaxChunk,       \* MAX_BUFFER
    Radix,          \* of the count in ESC [ digits L; ten in the code
    Counts,         \* digit strings the switch may send there
    MaxDigits,      \* sys.int_info.str_digits_check_threshold
    MaxOps          \* bound on the commands of a session

ASSUME BudgetAssumption ==
    /\ SetupLimit \in Nat \ {0} /\ OpLimits \subseteq Nat \ {0}
    /\ MaxChunk \in Nat \ {0} /\ MaxOps \in Nat /\ MaxDigits \in Nat
    /\ Radix \in Nat /\ Radix > 1
    /\ Counts \subseteq Seq(0..(Radix - 1)) \ {<<>>}

VARIABLES
    pc,        \* "idle", "body", "recv", "strip", "write", "written", "unwind", "closed"
    prog,      \* the caller: "setup", "exec", "enter", "config", "exit", "bye"
    exc,       \* an exception is on its way to the end of the session
    mode,      \* of the switch's CLI: "exec", "config"
    ops,       \* commands begun
    chan,      \* limits and counters of the BoundedSSHChannel
    saved,     \* the outer ones, kept by the read_budget in progress
    active,    \* _budget_scope_active
    poisoned,  \* _bounded_channel_poisoned
    overflow,  \* packetizer.binary_packet_limit_exceeded
    open,      \* the transports that are not closed: "remote_conn", "remote_conn_pre"
    wrote,     \* the command has written its line
    got,       \* text of the channel read in progress
    text,      \* text the command has been given and may leave behind
    retained,  \* length of _read_buffer
    budget, delivered, built,  \* history of the scope: limit, text given, longest string made
    late, lateIO               \* history: a call began after a limit was exceeded; it did I/O

Scope == <<chan, saved, active, wrote, budget, delivered, built>>
Conn == <<poisoned, open>>
Caller == <<prog, exc, ops>>
bvars == <<pc, Caller, mode, Scope, Conn, overflow, got, text, retained, late, lateIO>>

Counters(l, u) == [limit |-> l, used |-> u, plimit |-> l, pused |-> u]

SessionInit ==
    /\ pc = "idle" /\ prog = "setup" /\ exc = FALSE /\ mode = "exec" /\ ops = 0
    /\ chan = Counters(SetupLimit, 0) /\ saved = Counters(SetupLimit, 0)
    /\ active = FALSE /\ wrote = FALSE
    /\ poisoned = FALSE /\ overflow = FALSE
    /\ open = {"remote_conn", "remote_conn_pre"}
    /\ got = 0 /\ text = 0 /\ retained = 0
    /\ budget = SetupLimit /\ delivered = 0 /\ built = 0
    /\ late = FALSE /\ lateIO = FALSE
-----------------------------------------------------------------------------
Smaller(a, b) == IF a < b THEN a ELSE b

\* _binary_overflow: the flag is reached through remote_conn_pre.
SeesOverflow == overflow /\ "remote_conn_pre" \in open

\* A defect: the transport thread's flag is not looked at.
HealthyNoFlag == ~poisoned

\* _require_healthy, of the connection and of its channel.  They look at the
\* same two facts: the channel is poisoned only with its owner.
Healthy == ~SeesOverflow /\ ~poisoned

\* A limit was exceeded, whether or not the code has noticed.
Exceeded == poisoned \/ overflow

\* _dispose_poisoned.
Dispose ==
    /\ poisoned' = TRUE
    /\ open' = {}

\* An exception leaves the call: through the scope, if one is active.
Raise ==
    /\ pc' = IF active THEN "unwind" ELSE "idle"
    /\ exc' = IF active THEN exc ELSE TRUE

PoisonAndRaise == Dispose /\ Raise

\* What _require_healthy does when it raises.
Unhealthy ==
    /\ ~Healthy
    /\ IF SeesOverflow THEN Dispose ELSE UNCHANGED Conn
    /\ Raise

\* Where a call returns to.
Caller_pc == IF active THEN "body" ELSE "idle"

\* Session work outside a scope: the login, and the logout of disconnect().
Unscoped == pc = "idle" /\ prog \in {"setup", "bye"} /\ ~exc
MayCall == pc = "body" \/ Unscoped
-----------------------------------------------------------------------------
(* Reads and writes *)

\* read_channel and write_channel check the connection before anything else.
BeginCall(l) ==
    /\ MayCall
    /\ \/ Unhealthy /\ UNCHANGED <<got, late>>
       \/ /\ Healthy
          /\ pc' = l /\ got' = 0 /\ late' = Exceeded
          /\ UNCHANGED <<Conn, exc>>
    /\ UNCHANGED <<prog, ops, mode, Scope, overflow, text, retained, lateIO>>

BeginRead == BeginCall("recv")
BeginWrite == BeginCall("write")

\* read_buffer: at most one byte more than the budget is ever asked for.
RecvSize == Smaller(MaxChunk, chan.limit - chan.used + 1)

Recv ==
    /\ pc = "recv"
    /\ \/ /\ Unhealthy
          /\ UNCHANGED <<chan, got>>
       \/ /\ Healthy
          /\ \E n \in 1..RecvSize :
                /\ chan' = [chan EXCEPT !.used = @ + n]
                /\ IF chan'.used > chan.limit
                   THEN PoisonAndRaise /\ UNCHANGED got
                   ELSE got' = got + n /\ UNCHANGED <<pc, exc, Conn>>
    /\ lateIO' = (lateIO \/ late)
    /\ UNCHANGED <<prog, ops, mode, saved, active, wrote, budget, delivered, built, overflow,
                   text, retained, late>>

\* recv_ready() is false: the text goes on to strip_ansi_escape_codes.
NoMoreData ==
    /\ pc = "recv"
    /\ \/ Unhealthy
       \/ Healthy /\ pc' = "strip" /\ UNCHANGED <<exc, Conn>>
    /\ UNCHANGED <<prog, ops, mode, Scope, overflow, got, text, retained, late, lateIO>>

\* int() of a digit string, as Netmiko computes it.
Value(d) ==
    LET v[k \in 0..Len(d)] == IF k = 0 THEN 0 ELSE Radix * v[k - 1] + d[k]
    IN  v[Len(d)]

\* str() of a number.
Digits(n) ==
    LET s[k \in 0..n] == IF k < Radix THEN <<k>> ELSE Append(s[k \div Radix], k % Radix)
    IN  s[n]

\* lstrip("0") or "0".
WithoutZeros(d) ==
    LET nonzero == {k \in DOMAIN d : d[k] # 0}
    IN  IF nonzero = {} THEN <<0>>
        ELSE SubSeq(d, CHOOSE k \in nonzero : \A j \in nonzero : k <= j, Len(d))

\* Comparison of two strings of the same length.
StringGreater(d, e) ==
    \E k \in DOMAIN d : d[k] > e[k] /\ \A j \in 1..(k - 1) : d[j] = e[j]

\* A defect: the lengths are not compared, as plain string comparison would.
CountExceedsAsString(digits, maximum) ==
    LET d == WithoutZeros(digits)
        e == Digits(maximum)
        k == Smaller(Len(d), Len(e))
    IN  \/ StringGreater(SubSeq(d, 1, k), SubSeq(e, 1, k))
        \/ SubSeq(d, 1, k) = SubSeq(e, 1, k) /\ Len(d) > Len(e)

\* The check on the count of an insert-line code, made on its digits before
\* anything converts them.
CountExceeds(digits, maximum) ==
    LET d == WithoutZeros(digits)
        e == Digits(maximum)
    IN  \/ Len(digits) > MaxDigits
        \/ Len(d) > Len(e)
        \/ Len(d) = Len(e) /\ StringGreater(d, e)

\* A string of n characters is made and charged (_charge_processed).
MakeText(n) ==
    /\ built' = IF n > built THEN n ELSE built
    /\ IF chan.pused + n > chan.plimit
       THEN PoisonAndRaise /\ UNCHANGED <<chan, delivered, text, retained>>
       ELSE /\ chan' = [chan EXCEPT !.pused = @ + n]
            /\ delivered' = delivered + n
            /\ text' = text + retained + n
            /\ retained' = 0
            /\ pc' = Caller_pc
            /\ UNCHANGED <<exc, Conn>>

\* Text without insert-line codes: the other codes are removed.
StripPlain ==
    /\ pc = "strip"
    /\ \/ Unhealthy /\ UNCHANGED <<chan, delivered, built, text, retained>>
       \/ Healthy /\ \E n \in 0..got : MakeText(n)
    /\ UNCHANGED <<prog, ops, mode, saved, active, wrote, budget, overflow, got, late, lateIO>>

\* Text with m insert-line codes, each of which becomes as many newlines as the
\* first one says.
StripInsertLines ==
    /\ pc = "strip" /\ Healthy
    /\ \E m \in 1..got, digits \in Counts : \E base \in 0..(got - m) :
          LET remaining == chan.plimit - chan.pused
          IN  IF base > remaining \/ CountExceeds(digits, (remaining - base) \div m)
              THEN PoisonAndRaise /\ UNCHANGED <<chan, delivered, built, text, retained>>
              ELSE MakeText(base + m * Value(digits))
    /\ UNCHANGED <<prog, ops, mode, saved, active, wrote, budget, overflow, got, late, lateIO>>

\* write_channel: the bytes go out, and then the connection is checked again.
\* "configure terminal" and "end" change the mode of the CLI.
Write ==
    /\ pc = "write"
    /\ \/ Unhealthy /\ UNCHANGED <<mode, wrote, lateIO>>
       \/ /\ Healthy
          /\ pc' = "written" /\ wrote' = TRUE
          /\ mode' = IF active /\ prog = "enter" THEN "config"
                     ELSE IF active /\ prog = "exit" THEN "exec" ELSE mode
          /\ lateIO' = (lateIO \/ late)
          /\ UNCHANGED <<exc, Conn>>
    /\ UNCHANGED <<prog, ops, chan, saved, active, budget, delivered, built, overflow,
                   got, text, retained, late>>

Written ==
    /\ pc = "written"
    /\ \/ Unhealthy
       \/ Healthy /\ pc' = Caller_pc /\ UNCHANGED <<exc, Conn>>
    /\ UNCHANGED <<prog, ops, mode, Scope, overflow, got, text, retained, late, lateIO>>

\* Any other exception: the channel is closed by the switch, a read times out,
\* the output is not what the caller wants.  A failing channel call checks the
\* connection before it lets the exception go.
CallFails ==
    /\ pc \in {"recv", "write", "body"} \/ Unscoped
    /\ IF pc \in {"recv", "write"} /\ SeesOverflow THEN Dispose ELSE UNCHANGED Conn
    /\ Raise
    /\ UNCHANGED <<prog, ops, mode, Scope, overflow, got, text, retained, late, lateIO>>
-----------------------------------------------------------------------------
(* read_budget *)

\* Text that Netmiko retained is charged to the command that will get it.
OpenScope(l) ==
    IF retained > l
    THEN /\ Dispose
         /\ exc' = TRUE
         /\ UNCHANGED <<pc, Scope, text>>
    ELSE /\ chan' = Counters(l, retained) /\ saved' = chan
         /\ active' = TRUE /\ wrote' = FALSE /\ budget' = l /\ delivered' = retained /\ built' = 0
         /\ text' = 0 /\ pc' = "body"
         /\ UNCHANGED <<Conn, exc>>

\* A command starts; l is the sum made by _ssh_read_budget.
Operation(p, l) ==
    /\ pc = "idle" /\ (ops < MaxOps \/ p = "exit")
    /\ \/ prog = "exec" /\ ~exc /\ p \in {"exec", "enter"}
       \/ prog = "config" /\ ~exc /\ p = "config"
       \/ prog = "exit" /\ p = "exit"
    /\ ops' = ops + 1
    /\ \/ /\ ~Healthy
          /\ IF SeesOverflow THEN Dispose ELSE UNCHANGED Conn
          /\ exc' = TRUE
          /\ UNCHANGED <<pc, Scope, text>>
       \/ Healthy /\ OpenScope(l)
    /\ prog' = IF active' THEN p ELSE IF p = "config" THEN "config" ELSE "exec"
    /\ UNCHANGED <<mode, overflow, got, retained, late, lateIO>>

\* The counters read_budget restores: what is still in _read_buffer stays
\* charged to the session.
Restored(r) ==
    [saved EXCEPT !.used = @ + r, !.pused = @ + r]

\* Where the caller is after a command: a failed exit, or a failed entry, leaves
\* the configuration block.
NextProg(failed) ==
    IF prog = "config" \/ (prog = "enter" /\ ~failed) THEN "config" ELSE "exec"

\* The finally clause.  A budget that the retained text exceeds poisons the
\* connection, but raises only when no other exception is being handled: the
\* command's own, or the one that made a finally clause leave config mode.
CloseScope ==
    /\ pc = "unwind" \/ (pc = "body" /\ wrote)
    /\ \E r \in 0..(text + retained) :
          LET failed == pc = "unwind"
              over == ~poisoned /\ (Restored(r).used > saved.limit
                                    \/ Restored(r).pused > saved.plimit)
          IN  /\ retained' = r /\ text' = 0
              /\ chan' = Restored(r)
              /\ active' = FALSE
              /\ IF over THEN Dispose ELSE UNCHANGED Conn
              /\ prog' = NextProg(failed \/ (over /\ ~exc))
              /\ exc' = (exc \/ failed \/ over)
    /\ pc' = "idle"
    /\ UNCHANGED <<ops, mode, saved, wrote, budget, delivered, built, overflow, got, late,
                   lateIO>>
-----------------------------------------------------------------------------
(* The caller *)

SetupDone ==
    /\ pc = "idle" /\ prog = "setup" /\ ~exc
    /\ prog' = "exec"
    /\ \E r \in 0..(text + retained) : retained' = r
    /\ text' = 0
    /\ UNCHANGED <<pc, exc, ops, mode, Scope, Conn, overflow, got, late, lateIO>>

\* Defect: nothing leaves config mode.
LeaveConfigOmitted ==
    /\ pc = "idle" /\ prog = "config"
    /\ prog' = "exec"
    /\ UNCHANGED <<pc, exc, ops, mode, Scope, Conn, overflow, got, text, retained, late, lateIO>>

\* The finally clause of generate_csr and install_signed_certificate: config
\* mode is left, unless the connection is poisoned (which looks for the flag of
\* the transport thread too).
LeaveConfig ==
    /\ pc = "idle" /\ prog = "config"
    /\ IF SeesOverflow THEN Dispose ELSE UNCHANGED Conn
    /\ prog' = IF poisoned' THEN "exec" ELSE "exit"
    /\ UNCHANGED <<pc, exc, ops, mode, Scope, overflow, got, text, retained, late, lateIO>>

\* disconnect() at the end of the with block.
Disconnect ==
    /\ pc = "idle" /\ prog = "exec"
    /\ IF SeesOverflow \/ poisoned
       THEN Dispose /\ pc' = "closed" /\ UNCHANGED <<prog, exc>>
       ELSE prog' = "bye" /\ exc' = FALSE /\ UNCHANGED <<pc, Conn>>
    /\ UNCHANGED <<ops, mode, Scope, overflow, got, text, retained, late, lateIO>>

\* The end of Netmiko's disconnect, or of a failed login.
Close ==
    /\ pc = "idle"
    /\ prog = "bye" \/ (prog = "setup" /\ exc)
    /\ pc' = "closed" /\ open' = {}
    /\ UNCHANGED <<Caller, mode, Scope, poisoned, overflow, got, text, retained, late, lateIO>>

\* Paramiko's transport thread meets a packet over its limit.
TransportOverflow ==
    /\ ~overflow /\ open # {}
    /\ overflow' = TRUE
    /\ UNCHANGED <<pc, Caller, mode, Scope, Conn, got, text, retained, late, lateIO>>

SessionNext ==
    \/ BeginRead \/ BeginWrite \/ Recv \/ NoMoreData \/ StripPlain \/ StripInsertLines
    \/ Write \/ Written \/ CallFails
    \/ \E p \in {"exec", "enter", "config", "exit"}, l \in OpLimits : Operation(p, l)
    \/ CloseScope \/ SetupDone \/ LeaveConfig \/ Disconnect \/ Close
    \/ TransportOverflow

BudgetSpec == SessionInit /\ [][SessionNext]_bvars
-----------------------------------------------------------------------------
\* A command is never given more text than its budget, text left over from an
\* earlier command and the expansion of insert-line codes included; no string
\* longer than the budget is made on the way, and at most one byte over it is
\* taken from the transport.  Between commands the session is under its own
\* budget again, whatever happened in the last command.
BudgetIsKept ==
    /\ active => delivered <= budget /\ built <= budget /\ chan.used <= budget + 1
    /\ pc = "idle" => ~active /\ chan.limit = SetupLimit
    /\ ~active /\ ~poisoned => chan.pused <= SetupLimit

\* Once a limit was exceeded, by the command's output or in the transport
\* thread, no call begun later moves a byte: not the next command, not leaving
\* config mode, not the logout.
NothingAfterLimit == ~lateIO

\* A command meant for exec mode is never sent while the switch is in config
\* mode, although leaving config mode is skipped on a poisoned connection.
ExecCommandsInExecMode ==
    [][pc = "write" /\ pc' = "written" /\ prog = "exec" => mode = "exec"]_bvars
=============================================================================
