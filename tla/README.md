# Verification of aruba-cert-renewer

TLA+ models of the renewal of Web certificates on Aruba AOS-S switches, as
implemented in `src/src/`, and of the workflow that publishes the program's
container. TLC checks them on small instances; TLAPS proves the
central invariants and refinements for every value of the constants. Paths are
relative to the directory that holds `src/` and `tla/`.

## The system

`aruba_cert_renewer.py` is a one-shot command. It logs in to a switch over SSH,
reads its certificate summary, has the switch create a key pair and a CSR, has an
OPNsense firewall sign it over HTTPS, pastes the certificate back, and checks that
the switch serves it. `--renew-due` does all of it for the switches that are due,
`--renew` for one switch at once, and the staged commands (`--generate-csr`,
`--retrieve-csr`, `--sign-csr`, `--install-certificate`) do one part each. Without
any of them the command only inspects. `--output json` reports a structured result.

| Component | State it keeps | Operations | What makes it correct |
| --- | --- | --- | --- |
| Lifecycle lock (`lifecycle_lock.py`) | lock files, open descriptors, flocks | open, validate, flock, revalidate, compare path, close | one body per switch, whatever happens to the file; never waits; a failed close is reported |
| Renewal and staged operations (`aruba_cert_renewer.py`) | the progress of a run; indirectly the switch's pending and installed certificates and OPNsense's certificates | check, preflight, create, retrieve, sign, install, verify | one CSR of its own at a time; only a matching, issued certificate is installed; success only when the switch serves it |
| Structured result (`run_result.py`, `_json_*`) | outcome, stage, milestones, change, recovery flag | progress events, failure classification | never better than the facts |
| Renewal window (`check_switch`, certificate validation) | dates | due check, acceptance check | what is accepted is valid when it takes effect, and no longer due |
| Aggregation (`RunResult.finish`, loops over switches) | list of results | process a switch, finish, exit status | the exit code is true, the worst result is visible, both formats agree |
| Live HTTPS verification | deadline, resolver process, sockets, last error | resolve, connect, compare, retry, clean up | ends at its deadline, success only for the exact certificate, nothing left behind |
| OPNsense client | none between calls | resolve CA, sign, get | knows when a request may have been executed |
| Bounded SSH session (`bounded_netmiko.py`) | read budgets and their scopes, poisoned connection | read, write, open and close a scope, disconnect | budgets hold, nothing moves after an overflow |
| Bounded SSH transport (`bounded_paramiko.py`) | counters and flags of the packetizer | readline, read_message, connect | limits hold, legal peers are not refused, a limit is reported as one |
| Secure files (`secure_file.py`, `snapshot_known_hosts`) | descriptor, temporary copy | open, check, read, copy, remove | reads the file that was checked; accounts for the copy |
| Configuration, command line | none | parse, validate | reject before any contact |
| Release candidate (`release_candidate.py`) | archive, SBOM, manifest | inspect, copy, hash, write, validate | what is loaded is what was examined |
| Release publication (`publish-container.yml`, tag and signature scripts) | aliases and attestations in the registry; outputs of jobs | authorize, build, push, copy, attest, promote | aliases are authorized and never move; a failure says what it may have changed |
| Vulnerability comparison, CI policy, test workflows | none | compare, select | pure functions |

Interactions. A run takes the lock of a switch's canonical host and does its
exchanges with the switch and OPNsense under it; inspection and CSR retrieval take no
lock. Runs are separate processes and share the lock directory, the switch and
OPNsense. The functions of a renewal report progress through a callback that changes
the structured result; the loops over switches sum the results up. Inside a run, an
SSH session is shared by the main thread and Paramiko's transport thread, which talk
through flags of the packetizer; a live check shares a pipe with a resolver child. The
release workflow is a chain of jobs that hand over outputs and one artifact; runs of
different releases share the registry and two concurrency groups.

Hard behaviours. Other invocations and operators act between any two exchanges. A
command may take effect while its answer is lost. A process may be killed anywhere,
and what it began stays on the switch. The lock is taken on a file that may be removed
or replaced during the acquisition. The due check and the acceptance check use
different clocks. A switch restarts its web server while it is polled, and the resolver
cannot be interrupted. Text of one command is left for the next, and the transport
thread may find a limit exceeded between any two calls. Files are renamed while they
are opened. Release jobs are cancelled and partly rerun, tags move, and a push that
fails may have been executed. `PROJECT.json` lists these hazards at their lines.

## Modules

| Module | Models | Extends or instantiates |
| --- | --- | --- |
| `HostLock` | the promise of `lifecycle_lock` (abstract) | |
| `LifecycleLock` | the flock protocol, call by call | instance of `HostLock` |
| `LifecycleLockProofs` | theorems about it | `LifecycleLock` |
| `RunItem` | `SwitchResult` and the functions that change it | |
| `DeviceLifecycle` | what a switch and OPNsense may see (abstract) | |
| `Renewal` | invocations, switches, OPNsense | `RunItem`; instances of `HostLock`, `DeviceLifecycle` |
| `RenewalProofs` | its invariant and refinement | `Renewal` |
| `RenewalReportProofs` | truth of its report | `RenewalProofs` |
| `RenewalWindow` | dates of `--renew-due` | |
| `RunAggregate` | a run over several switches, in three loops | `RunItem` |
| `ScheduledRunProofs` | theorems about both | `RunAggregate`, `RenewalWindow` |
| `LiveVerification` | `verify_live_https_certificate` | |
| `LiveVerificationProofs` | theorems about it | `LiveVerification` |
| `ReadBudget` | an SSH session under its budgets | |
| `PacketBudget` | the SSH transport under its limits | |
| `SshBudgetsProofs` | theorems about both | `ReadBudget`, `PacketBudget` |
| `SecureFile` | `open_secure_file`, `snapshot_known_hosts` | |
| `SecureFileProofs` | theorems about it | `SecureFile` |
| `ReleasePublication` | the release workflow | |
| `CandidateHandoff` | `create_candidate` and its validation | |
| `ReleaseProofs` | theorems about both | `ReleasePublication`, `CandidateHandoff` |
| `MCRenewal`, `MCScheduledRun`, `MCSshBudgets`, `MCReleasePublication` | small instances | the modules they check |

### HostLock and LifecycleLock

`LifecycleLock` has one action for each system call of `lifecycle_lock` between which
another process can run. `path[h]` is the inode that the lock file's name is bound to,
`fd[p]` the inode the process has open, `flock[i]` the process that owns the flock of an
inode, `fit[i]` whether `_validate_lock_file` accepts the inode. `Leave` is the `finally`
clause; the different ways into it are actions of their own (`OpenFails`, `CallFails`,
the failing branches of `Validate`, `Flock`, `Revalidate`, `Restat`, then `Close` and
`CloseFails`). `Exit` is the end of a process at any point. `Unlink`, `Replace` and
`Chmod` are acts of an operator. They may fall anywhere in an acquisition; only while
a body of the host runs is its file left in place, as `src/README.md:430` asks. Without
that no flock protocol excludes. After a failed close the flock may linger (on Linux
it does not, elsewhere it may).

`HostLock` keeps only who runs a body. The refinement maps `holder[h]` to the processes
at `"body"` for `h`.

### RunItem and Renewal

`RunItem` has the record and, as operators, `_json_progress`, `_json_failure_outcome`,
`_json_failure`, the `except` clauses of `_json_explicit` and the release handler of
`_run_json`. Messages are left out. Exceptions are classes: `"value"` is a `ValueError`
or `OSError` that nobody has classified yet, `"other"` every exception that is neither.

`Renewal` has one action for each exchange with a remote party together with the local
work up to the next exchange:

| Steps (`pc`) | Code |
| --- | --- |
| `new`, `creds`, `lock` | command line, `get_switch_credentials`, `lifecycle_lock` |
| `check`, `preflight` | `check_switch`, `renewal_preflight` |
| `gen_inspect`, `gen_create`, `gen_fetch` | `generate_csr` |
| `fetch_observe`, `fetch_detail` | `retrieve_csr`, also as the start of `sign_pending_csr` |
| `resolve`, `post`, `get` | `OPNsenseClient`, `sign_pending_csr` |
| `inst_observe` ... `inst_verify` | `install_pending_certificate`, `install_signed_certificate` |
| `live`, `write`, `unlock` | live verification, output files, release |

Each exchange may fail; a mutating one (`GenerateCreate`, `PostCSR`, `InstallConfirm`)
has or has not its effect, independently of whether the code sees an error. `Raise` and
`Succeed` end the work in the way the output mode ends it. The order in which
credentials and lock are taken differs between the modes (`CredentialsFirst`). `trace`
is a history variable: what the invocation really did, against which the report is
compared. The switch, OPNsense, reboots, operators and crashes are external.

A certificate is its switch, key and serial number; a CSR its name, key and creator. A
name is the sequence number of `webcert-YYYYMMDD-NN`, `OtherNames` the ones taken by
certificates of other usages. Whether a certificate is due is a free choice in
`Renewal`; `RenewalWindow` is about the dates. `--install-certificate` may be given any
certificate for the key of a pending CSR, also one that OPNsense never issued
(`ForeignCerts`); `Trusted` is `verify_issued_certificate_trust`. Only what
`validate_issued_certificate` compares with the CSR is in `Matches`: the rest of it is a
verdict that may go either way. The live check is one step here, and its own module.

The error texts "the pending CSR remains on the switch" are printed without another look
at the switch. `ErrorTextIsTrue` says that they are true against every other invocation,
because of the lock, and says no more: after a reboot the CSR is gone and the message is
wrong, and the property excludes just such disturbances (`disturb = 0`).

`DeviceLifecycle` forgets the invocations: a CSR of the tool appears only when none of
its CSRs is pending, with a new key; a certificate replaces the one in use only if it
was issued for a pending key of that switch; a CSR goes only by being answered or by a
reboot.

### RenewalWindow

An instant is a day and a tick; `check_switch` uses the local date, the validation UTC
instants. OPNsense's choice of `notBefore` is free, the code's tests decide. The last
test (`InstallPending`) and the moment at which the switch takes the certificate
(`InstallSigned`) are two steps: the clock runs on while the summary, the dialogue and the
PEM go over the wire, up to `MaxSession` after the signing.

### RunAggregate

Its input is what happens at each switch (`world`): an exception of the credentials, of
the lock, of the inspection, or a renewal that has reported so many of its events and
then raised. The same `world` goes through `_run_json` (`JsonSwitch` ..., `Finish`) and
then through the human loop for the same command (`RenewDueSwitch`, `InspectSwitch`), so
that the two reports can be compared. What a renewal does is `Renewal`'s matter. An
exception of the credentials that is no `ValueError` ends the inspection loop of `main`
(`"crashed"`), with Python's exit code 1; the JSON loop, which never prompts, records a
failure there and goes on.

### LiveVerification

One action per call that may block (`poll`, `join`, `connect`, `handshake`, `sleep`) and
per decision of the loop. Time is an integer clock; `Tick` passes it while a call blocks,
at most to the call's timeout, and `Stall` at any moment, for a process that is not
scheduled or a call that returns late. `stalled` adds this up, and the bounds on time
are stated up to it. The resolver child sends, exits or hangs as it likes. From `SwitchReady`
on the switch answers each new call at once and with the new certificate.

### ReadBudget and PacketBudget

`ReadBudget` is the main thread: the commands of `generate_csr` and its like (`Operation`,
`LeaveConfig`, `Disconnect`), each in a `read_budget` scope, and under them the channel
calls that Netmiko makes (external: any sequence of reads and writes). `saved` holds the
counters of the outer scope, `retained` the text that Netmiko keeps in `_read_buffer`.
`TransportOverflow` is the other thread, at any moment. The count of an insert-line code
is a digit string, compared as the code compares it and then converted as Netmiko
would. `late` and `lateIO` record whether a call that began after an overflow moved a
byte; a call that had begun before may still end.

`PacketBudget` is the transport thread, and `connect()` in the main thread. Text is a
sequence of bytes of which only newlines matter, received in chunks of any size; a
packet is its length field under a cipher of one of the three formats. Paramiko's use
of `read_all` is external. `received` and `taken` count what was taken from the socket.

### SecureFile

A file is an object with an inode number, which is used again when the file is deleted
and another is made (`Recreate`). `Rebind` puts another file or a link at the
configured name, `Chmod` changes owner or mode, between any two system calls. With
`nofollow` the kernel refuses a link at the open; without it the code compares inode
numbers before and after. `bound` records the files the name itself was since the open.
`json` is the output mode: `json_main` disables logging and discards stderr, so the warning
about a copy that could not be removed after a failed session reaches nobody (`told`).
`CleanupIsAccountedFor` names this as the one way in which a copy stays silently.

### ReleasePublication and CandidateHandoff

A step is a job's interaction with the repository or the registry. An image is a commit,
a build of it and a form (the layers' compression, on which the digest depends); a
`Classic` archive leaves the form to the push. `Push`, the copies and
the attestations may fail with or without their effect. `Abort` is any other end of a
job; `RerunFailed` keeps the outputs of the jobs that succeeded, `RerunAll` does not.
`report` is `publication_state`, `made` what the attempt has really written. GitHub,
Docker and the registry are external. `CandidateHandoff` opens up what `Build` and
`Recheck` do with the artifact: every look at a file is a step, and between two looks
the file may change. An archive may be refused for its shape (`Preflight`) or for what is
in it (`InspectArchive`). The identity that `inspect_archive` found goes into the manifest;
the build job reads it back from there (`ReadOutput`) and hands it on as an output, which
no later change reaches. Until it is read back nothing protects the manifest itself:
`forged` records a change in that time, and `LoadedWasExamined` then promises only that
image, SBOM and output belong together.

`verify_digest_identity` also compares the `.Id` of the pulled image with the config digest
(`publish-container.yml:1471-1476`), while `src/docs/releasing.md:78` says that `.Id` is not
treated as the config digest. Where the two differ, the check fails, and a check that
fails for no reason is a possible end of every step of the model (`Abort`).

## Runs

| Run | Bounds | Result |
| --- | --- | --- |
| `lock` | 2 processes, 1 host, 3 inodes | exclusion, refinement of `HostLock` and `EveryUseEnds` hold |
| `renewal` | a JSON and a human invocation of any of the 7 operations, 1 switch, 3 names (1 taken), 1 disturbance | 1.7 million states; `RenewalInv`, truth of the report and of the messages, success served, one own CSR, refinement of `DeviceLifecycle` hold |
| `renewal_liveness` | 2 JSON invocations of renew_due, sign_csr, install | `EveryRunEnds` holds |
| `scheduled_run` | 2 switches, each pair of 66 happenings, both commands; dates: day of 6 ticks, zone ahead of UTC, session of 2 ticks, lifetime = window + 2 | record, exit code and agreement of the formats, and the three window properties hold |
| `live_verification` | window 9, retry delay 2, socket timeout 3, cleanup 2, 2 addresses, 2 ticks of stall | ends in time, exact success, nothing left behind, a ready switch is verified, termination hold |
| `ssh_budgets` | session: setup budget 3, commands 2 or 3 bytes, chunk 2, counts to base 2, 3 commands; transport: packet limit as in the code with lengths around each boundary, line 4, 2 lines, text 9, chunk 3, 2 packets | 2 million states; budgets and limits hold, nothing moves after a limit, nobody is refused wrongly |
| `secure_file` | 2 files, 3 inode numbers, 4 changes, with and without `O_NOFOLLOW`, both output modes | trusted reads, no links, accounted cleanup hold |
| `release` | 2 runs (symmetric), 2 versions, 3 commits (one shared, one with an unapproved tag, one that is not part of main), 1 moved tag, 2 forms (symmetric), 2 attempts; handoff: 2 images, 2 sizes, 2 changes | 3.7 million states; the seven release properties hold |
| `pending_not_flagged` | 1 JSON `--renew-due` | violation, see below |
| `uncaught_exit_code` | 1 human `--renew` | violation, see below |
| `window_narrow` | lifetime = window + 1 | violation, see below |
| `inspection_exit_code` | 2 switches | violation, see below |

Why the bounds are enough. The lock protects one host at a time. Two processes can have
two old files open while the name is bound to a third, so three inodes are all that two
processes can tell apart; the proofs hold for any number. Two invocations show
every pairwise interference; a third can only meet the lock. An invocation does not see
the output mode of another, so one of each mode is enough. Three names with the first
taken leave room for a CSR of the tool next to one of an operator; with the first and
the last taken (`renewal_liveness`) the range has a gap or is exhausted. One
disturbance (a reboot or an operator's CSR) between any two steps is what the rechecks
of the code are for; the proofs hold for any number. `MaxName` is 99 in the code.

The window of the live check has room for a resolution, both addresses, a retry delay
and a second round, and each of its calls can be cut off by the deadline. A budget of
three bytes and chunks of two meet a limit exactly, by one byte, and in the middle of
a chunk; three commands are one to leave text, one to receive it and one to
follow. The text limits are reached by a line, by the number of lines and by the total.
A file needs one other file to be confused with, and a number to be used again; four
changes are a replacement before each of the four calls that look. The severities of
two switches meet in every pair and in both orders. Two release runs with two attempts
between them are two releases, or one and its rerun; the candidate's files are looked at in
pairs, and two changes put something else into both, or into one and the manifest; the
theorem is for any number of changes.

Three runs hold two modules each, because the modules have no variable in common:
`MCScheduledRun`, `MCSshBudgets` and `MCReleasePublication` let one move while the other
rests in an initial state. `CHECK_DEADLOCK FALSE` stands in the runs whose processes all end or whose
clock or bound stops them.

Fairness. `FairSpec` asks that a process whose next call or exchange can happen takes
it. The code gives every SSH command, HTTPS request and live check a timeout, and
`flock` is called with `LOCK_NB`; nothing waits for another process. A crash is never
forced, and in `LifecycleLock` no failing call other than `open` counts as progress.
`FairLiveSpec` asks that the process keeps running and that the clock goes on; nothing is
asked of the switch or of the resolver.

Every property has a mutant: a definition of the code changed in the way a plausible
mistake would change it (a dropped comparison, a flag set late, an operation without its
lock), kept in the modules under names that say so.

## What the violations show

* `SeenPendingIsFlagged`: JSON `--renew-due` finds a pending CSR in `check_switch`
  already and reports `inspection_failed` with `manual_recovery_required` false;
  `--renew` reports `pending_state` with true. `src/docs/run-result.md:31`.
* `FailureExitsWithTwo`: an exception of the SSH library that is neither `ValueError`
  nor `OSError` leaves human `--renew` with status 1, which `src/README.md:996` reserves
  for monitoring.
* `RenewedLeavesWindow` with `lifetime_days = warning_days + 1`: a certificate can be
  accepted and be due again on the same day. `src/README.md:824` allows the setting;
  `WideLifetimeLeavesWindow` proves that one more day is enough.
* `ExitCodesAgree`: an inspection whose password prompt meets the end of the input ends
  with code 1 in the human format, which looks like an expired certificate, and with 2 in
  JSON. `src/docs/run-result.md:79-82` says that JSON never changes the exit codes. That the
  formats agree otherwise is `FormatsAgree`, which also says what the record holds of the
  switch at which the human loop broke off.

## Proofs

All theorems are about the same specifications that TLC runs, with the constants
arbitrary up to the named assumptions.

* `LockInvariant`, `LifecycleLockExcludes`, `LifecycleLockImplementsHostLock`. Mutual
  exclusion is not inductive: it needs that a process past `flock` owns the flock of its
  descriptor, and that in a body the pathname still names that inode. `LockInv` says
  this; then two bodies of one host have one inode open, whose flock has one owner.
  Assumptions: `Nobody` is no process, `NoInode` no inode.
* `RenewalInvariant`, `OneOwnCSRAlways`, `RenewalImplementsDeviceLifecycle`.
  `OneOwnCSR` needs to know what holds between the summary without a pending CSR and the
  creation: `NoOwnCSRBeforeCreate`, which other invocations preserve because the steps
  of a locked operation run while the lock is theirs alone (`BodyHoldsLock`), which in
  turn needs that the steps of creation belong to locked operations (`PcMatchesOp`).
  For the refinement, keys and serials in use are below `fresh` (`NumbersAreOld`), and a
  certificate in hand was issued (`CertIsIssued`). `RenewalInv` is the conjunction. Most
  steps change nothing that a switch sees (`QuietStep`); the others map to `Create`,
  `Issue`, `Install` or `Lose`. The lock of `Renewal` is `HostLock`, so
  `LifecycleLockImplementsHostLock` is what justifies it. Assumptions: the constants
  have their types, `NoRun` is no run.
* `ReportInvariant`, and from it the theorems for `NoChangeIsTrue`, `MilestonesAreTrue`,
  `UnfinishedWorkIsFlagged`, `SuccessIsComplete`, `SuccessIsServed`, `ErrorTextIsTrue`.
  The item lags behind the facts while a command is on its way, so its truth at the end
  is not inductive. `ReportInv` adds a table to `RenewalInv`: for each step of the code
  what the invocation may have done by then (`TraceOK`), what its item says of that
  (`ItemOK`), and what the switch holds (`ServedOK`, `SwitchOK`). Each action leads from
  one row to another; the ends by an exception do because of what `_json_failure` and the
  `except` clauses leave of an item (`AfterError`), for every class of exception at
  every step. That a success is still served at the end needs the lock against other
  invocations, and that names and keys on a switch are unique. That a CSR said to remain
  is there needs `CSRStays`: without a disturbance the CSR that a locked invocation has
  seen or created stays under its name until that invocation pastes a certificate. Assumptions: those of
  `RenewalInvariant`.
* `WindowInvariant`, `InstalledCertificateIsValid`, `WideLifetimeLeavesWindow`.
  `WindowInv` carries the age of a certificate from signing to installation. A validity
  test that passed says nothing of a later moment; what does is that a certificate lives
  for a day at least, and that its age at the installation is less.
  Assumptions: freshness window plus session fit in a day, also with the offset of the
  time zone; for the last theorem `lifetime_days >= warning_days + 2`.
* `AggregateInvariant`, and from it the theorems for `ExitIsTrue`,
  `RecordIsTrue`, `FormatsAgree`. `AggregateInv` says that the lists of the loops are what
  each loop makes of the switches, in order, and that `run` and `exit` are computed from
  the whole lists. The argument for one switch is `FormatsAgreeOnSwitch`: for all that
  may happen there the item and the human result are of one kind, because every failure
  handler sets an outcome that is a failure and a reason, whatever the item said before.
  The items after the events of a renewal are a recursive function; that it is defined
  is shown event by event. `ChosenIsWorst` is about `max(results, key=...)`. Assumption:
  at least one switch.
* `LiveInvariant`, `LiveEndsInTime`, `LiveSuccessIsExact`, `LiveLeavesNothing`. The
  clock passes the deadline only by `stalled` because every blocking call is given no
  more than the time that is left (`until <= Deadline + stalled`), and the resolver's
  part ends `Cleanup` earlier, so that killing and joining it fits too. That nothing is
  left behind needs to know in which part of the code each descriptor and the child
  live. `LiveInv` says both. Assumption: times and counts are positive.
* `LiveReadyIsVerified`. `ReadyInv` bounds what a ready switch can still lose: only a call
  begun before it was ready may fail, that call ends within `SocketTimeout`, at most one
  retry delay follows, and every call begun later succeeds. So if the window closes, the
  switch (or the address of it) came later than that before the deadline, up to
  `stalled`.
* `TransportInvariant`, and from it the theorems for `TransportIsBounded`,
  `RefusalIsJustified`, `LimitIsReported`. The limits are kept because each read asks for
  no more than what is left of the line and of the total (`TextInv`); that no legal packet
  is refused is arithmetic on the three cipher formats (`PacketInv`): the code sees only
  the request that Paramiko derives from the length. `MainInv` relates the flags of the
  transport thread to what `connect()` reads. Assumption: the limits are natural numbers,
  `MaxPacket >= 12` (262144 in the code), so that a first block is never over the limit,
  and `MaxMac <= 64`, which the code checks itself.
* `SessionInvariant`, and from it the theorems for `BudgetIsKept`, `NothingAfterLimit`,
  `ExecCommandsInExecMode`. `SessionInv` says what the counters of the inner and the
  saved outer scope hold at each call (`ScopeInv`, `CountInv`), that a poisoned connection
  stays so (`HealthInv`), and in which mode the switch is (`ModeInv`): leaving
  configuration mode is skipped only on a connection on which nothing can be sent any
  more. The comparison of an insert-line count with the limit is shown to be the
  comparison of the numbers, for digit strings of every length, by the least-number
  principle on sets of naturals. Assumption: limits are positive, the radix at least 2.
* `ReleaseInvariant`, and from it the theorems for `AliasesAreAuthorized`,
  `PublishedIsComplete`, `LatestIsComplete`, `ReportIsTrue`, `AliasesNeverMove`. An alias
  never moves because a publish job is alone between its inspection of both aliases and
  its writes (`PublisherAlone`); `ReleaseInv` says what both aliases, the candidate and the
  attestations are at every location of a publisher. `AliasesNeverMove` is then proved
  action by action. Assumptions: the constants have their types, `Classic` is no form,
  `Absent` no image.
* `HandoffInvariant`, `LoadedWasExaminedTheorem`, `HonestCandidateIsAcceptedTheorem`.
  `HandoffInv` says what each pass of `create_candidate` knows of the files, and, as long as
  nothing was changed, that all passes saw the same. `OutputIsIdentity` carries the identity
  from `inspect_archive` through the manifest to the output of the job. Assumption: `NoFile`
  is no file.
* `FileInvariant`, `FileReadIsTrusted`, `FileNeverThroughLink`, `FileCleanupIsAccountedFor`.
  Without `O_NOFOLLOW` the argument is that the open file keeps its inode number, so a
  name that is no link and has that number now is the open file itself. `FileInv`
  relates the descriptor to the recorded `fstat` result and to `bound`. Assumption:
  inode numbers are positive and distinct among files that exist.

Only model-checked: liveness (`EveryUseEnds`, `EveryRunEnds`, `Terminates`), as fairness
and ENABLED are beyond the prover. Every other property of a passing run is a theorem,
`RenewedLeavesWindow` under the assumption on the lifetime that its run makes. That an
unmerged commit is never published is checked by the run and proved.

## Not modelled

* Startup validation of configuration and command line, which rejects before any
  contact, and the parsing of OPNsense's and the switch's answers: pure functions of
  text. A verdict on an answer is a free choice of the model.
* ASN.1 contents of CSRs, certificates and keys, beyond device, key, serial and dates.
* Aliases of a switch under two host names, and several machines: the docs exclude
  both, and no lock could help.
* The formats of image archive, SBOM and tag objects: a file is the image it
  identifies, a signature is approved or not. Other writers to the registry, which the
  workflow cannot exclude (`src/docs/releasing.md`).
* `compare_container_vulnerabilities.py`, `ci_policy.py` and the test workflows: set
  comparisons and declarations without state. Output and TLS policy likewise.
* The checks that the installed Netmiko and Paramiko still have the reviewed source
  text: they are about library text, not behaviour.

## Plan

1. Action properties of the report that no run states yet, such as whether a milestone
   that was confirmed is ever taken back.
2. More of `release_candidate.py` and of the OPNsense client's error classes, where they
   have control and not only formats.
