------------------------------ MODULE Renewal ------------------------------
(***************************************************************************)
(* One invocation of aruba_cert_renewer.py working on one switch, for any  *)
(* number of invocations and switches of one machine: the staged commands, *)
(* --renew, --renew-due, and the read-only inspection, in the JSON and the *)
(* human output mode.                                                      *)
(*                                                                         *)
(* Each action is one exchange with a remote party (an SSH command of the  *)
(* switch, an HTTPS request to OPNsense), with the local work up to the    *)
(* next one.  Such an exchange can fail before it has an effect, and a     *)
(* mutating one can have its effect while the answer is lost.  Other       *)
(* invocations, a reboot of the switch, and an operator on its console     *)
(* take their steps in between; an invocation can be killed anywhere.      *)
(*                                                                         *)
(* External, modelled from how the code uses them: the switch's store of   *)
(* Web certificates, OPNsense's list of issued certificates.               *)
(***************************************************************************)
EXTENDS Naturals, RunItem

CONSTANTS
    Runs,         \* invocations of the program
    Devices,      \* switches, each with one canonical host
    Target,       \* Target[r]: the switch that r works on
    Ops,          \* the operations the command line may select
    Modes,        \* --output json, human
    MaxName,      \* last sequence number of a dated name (99 in the code)
    OtherNames,   \* names in use by certificates of other usages
    MaxDisturb,   \* bound on reboots and operator commands
    NoRun         \* not a member of Runs

AllOps == {"inspect", "renew_due", "renew_now", "generate_csr", "retrieve_csr",
           "sign_csr", "install"}

\* A defect for testing the properties: an operation that forgot its lock.
LockedOpsNoRenew == {"renew_due", "generate_csr", "sign_csr", "install"}

\* The operations that main and _run_json wrap in lifecycle_lock.
LockedOps == {"renew_due", "renew_now", "generate_csr", "sign_csr", "install"}
ExplicitOps == AllOps \ {"inspect", "renew_due"}
RenewOps == {"renew_due", "renew_now"}

\* The sequence number of webcert-YYYYMMDD-NN; 0 is any other name.
Names == 1..MaxName

ASSUME RunsAssumption == NoRun \notin Runs
ASSUME TargetAssumption == Target \in [Runs -> Devices]
ASSUME OpsAssumption == Ops \subseteq AllOps /\ Modes \subseteq {"json", "human"}
ASSUME NatAssumption == MaxName \in Nat /\ MaxDisturb \in Nat
ASSUME OtherNamesAssumption == OtherNames \subseteq Names

VARIABLES
    \* Local to an invocation.
    pc, op, mode,
    name,      \* certificate name: argument, or chosen by the preflight
    key,       \* public key of the CSR last read
    cert,      \* certificate read from a file, or issued
    err,       \* exception that ended the work
    item,      \* SwitchResult; in human mode only its "due" is used
    trace,     \* history: what this invocation really did or saw
    \* Shared.
    holder,    \* lifecycle lock of each switch, see HostLock
    pend,      \* pending Web CSRs of each switch
    active,    \* installed Web certificate of each switch
    issued,    \* certificates OPNsense has issued
    fresh,     \* next unused key pair or serial number
    disturb    \* reboots and operator commands so far

local == <<pc, op, mode, name, key, cert, err, item, trace>>
remote == <<pend, active, issued, fresh>>
vars == <<pc, op, mode, name, key, cert, err, item, trace,
          holder, pend, active, issued, fresh, disturb>>

Lock == INSTANCE HostLock WITH Procs <- Runs, Hosts <- Devices

Certs == [dev: Devices, key: Nat, serial: Nat]
NoCert == [dev |-> NoRun, key |-> 0, serial |-> 0]
CSRs == [name: Names \cup {0}, key: Nat, by: Runs \cup {NoRun}]
Installed == [name: Names \cup {0}, cert: Certs]
Effects == {"csr", "issue", "install"}

PCs == {"new", "creds", "lock", "check", "preflight", "gen_inspect",
        "gen_create", "gen_fetch", "fetch_observe", "fetch_detail", "resolve",
        "post", "get", "inst_observe", "inst_validate", "inst_recheck",
        "inst_paste", "inst_confirm", "inst_verify", "live", "write", "unlock",
        "done", "crashed"}

\* The steps of a protected operation that run under the lifecycle lock.
BodyPCs == PCs \ {"new", "creds", "lock", "done", "crashed"}

\* The steps of install_pending_certificate and the verification after it.
InstallPCs == {"inst_observe", "inst_validate", "inst_recheck", "inst_paste",
               "inst_confirm", "inst_verify", "live"}

TypeOK ==
    /\ pc \in [Runs -> PCs]
    /\ op \in [Runs -> AllOps]
    /\ mode \in [Runs -> {"json", "human"}]
    /\ name \in [Runs -> Names \cup {0}]
    /\ key \in [Runs -> Nat]
    /\ cert \in [Runs -> Certs \cup {NoCert}]
    /\ err \in [Runs -> Errors \cup {"release"}]
    /\ item \in [Runs -> Item(Certs \cup {NoCert})]
    /\ trace \in [Runs -> SUBSET (Effects \cup {"saw_pending"})]
    /\ Lock!LockTypeOK
    /\ pend \in [Devices -> SUBSET CSRs]
    /\ active \in [Devices -> Installed]
    /\ issued \in SUBSET Certs
    /\ fresh \in Nat
    /\ disturb \in Nat

OldCert(d) == [dev |-> d, key |-> 1, serial |-> 1]
LeftCSR(n) == [name |-> n, key |-> 2, by |-> NoRun]
LeftCert(d) == [dev |-> d, key |-> 2, serial |-> 2]

\* A switch has one Web certificate in use, and perhaps a CSR that an earlier
\* invocation left behind, already signed or not.
Init ==
    /\ pc = [r \in Runs |-> "new"]
    /\ op = [r \in Runs |-> "inspect"]
    /\ mode = [r \in Runs |-> "json"]
    /\ name = [r \in Runs |-> 0]
    /\ key = [r \in Runs |-> 0]
    /\ cert = [r \in Runs |-> NoCert]
    /\ err = [r \in Runs |-> "none"]
    /\ item = [r \in Runs |-> NewItem(NoCert)]
    /\ trace = [r \in Runs |-> {}]
    /\ Lock!LockInit
    /\ \E a \in [Devices -> (Names \ OtherNames) \cup {0}] :
          /\ active = [d \in Devices |-> [name |-> a[d], cert |-> OldCert(d)]]
          /\ \E p \in [Devices -> (Names \ OtherNames) \cup {0}] :
                /\ \A d \in Devices : p[d] = 0 \/ p[d] # a[d]
                /\ pend = [d \in Devices |->
                              IF p[d] = 0 THEN {} ELSE {LeftCSR(p[d])}]
    /\ issued \in SUBSET {LeftCert(d) : d \in Devices}
    /\ fresh = 3
    /\ disturb = 0

-----------------------------------------------------------------------------
(* The switch, as its command output shows it.                             *)

Dev(r) == Target[r]

\* certificate_name_exists: any usage, installed or pending.
NameExists(d, n) ==
    n \in OtherNames \/ active[d].name = n \/ \E c \in pend[d] : c.name = n

\* A pending Web CSR under this name (get_certificate_summary_entry and
\* require_pending_web_certificate).
PendingAs(d, n) == {c \in pend[d] : c.name = n}

\* choose_renewal_certificate_name: the first unused name of the day.
FreeNames(d) == {n \in Names : ~NameExists(d, n)}

\* A defect: one more than the largest name in use.
NextAfterLast(d) ==
    1 + (CHOOSE n \in 0..MaxName :
            /\ n = 0 \/ NameExists(d, n)
            /\ \A m \in Names : NameExists(d, m) => m <= n)

FirstFree(d) == CHOOSE n \in FreeNames(d) : \A m \in FreeNames(d) : n <= m

-----------------------------------------------------------------------------
(* How the work on a switch advances and ends.                             *)

Json(r) == mode[r] = "json"
Renewing(r) == op[r] \in RenewOps

\* The progress callback; human mode passes none.
Note(r, it, event) == IF Json(r) THEN Progress(it, event) ELSE it

\* renew_certificate passes no callback to install_pending_certificate.
InstallNote(r, it, event) == IF Renewing(r) THEN it ELSE Note(r, it, event)

Locked(r) == op[r] \in LockedOps

Goto(r, label) == pc' = [pc EXCEPT ![r] = label]
SetItem(r, it) == item' = [item EXCEPT ![r] = it]
Saw(r, what) == trace' = [trace EXCEPT ![r] = @ \cup {what}]

\* A defect: the way out forgets the lock.
EndBodyKeepsLock(r) == Goto(r, "done")

\* The operation has returned or raised: the lock, if held, is given up next.
EndBody(r) == Goto(r, IF r \in holder[Dev(r)] THEN "unlock" ELSE "done")

Raise(r, it, e) ==
    /\ err' = [err EXCEPT ![r] = e]
    /\ SetItem(r, IF Json(r) THEN FailedItem(op[r], it, e) ELSE it)
    /\ EndBody(r)
    /\ UNCHANGED <<op, mode, name, key, cert>>

Succeed(r, it, outcome) ==
    /\ SetItem(r, IF Json(r) THEN SucceededItem(it, outcome) ELSE it)
    /\ EndBody(r)
    /\ UNCHANGED <<op, mode, name, key, cert, err>>

Proceed(r, it, label) ==
    /\ SetItem(r, it)
    /\ Goto(r, label)
    /\ UNCHANGED <<op, mode, err>>

\* Classification of a raw failure by the function it happens in.
PreflightError(k) == IF k = "value" THEN "preflight" ELSE k
GenerateError(r, k) == IF k = "value" /\ Renewing(r) THEN "csr_pre" ELSE k
SignError(r, k) == IF k = "value" /\ Renewing(r) THEN "signing" ELSE k
PreInstallError(r) == IF Renewing(r) THEN "pre_install" ELSE "value"

\* Defects: csr_creation_attempted, installation_attempted set after the command.
CreateErrorLate(r) == GenerateError(r, "value")
InstallErrorLate(r) == PreInstallError(r)

\* After csr_creation_attempted, after installation_attempted.
CreateError(r) == "csr"
InstallError(r) == "install"

NoRemoteChange == UNCHANGED <<holder, pend, active, issued, fresh, disturb>>
-----------------------------------------------------------------------------
(* Startup, credentials, and the lock.                                     *)

\* Human mode reads the credentials of an explicit operation inside its body.
CredentialsFirst(m, o) == m = "json" \/ o \notin ExplicitOps \ {"retrieve_csr"}

\* A certificate for the key of a pending CSR, by someone else than OPNsense: a CSR
\* is public.
ForeignCerts(d) == [dev: {d}, key: {c.key : c \in pend[d]}, serial: {0}]

\* The command line has passed validate_cli_args and the configuration has been
\* read: nothing remote is touched before that.  The staged commands name a
\* certificate, and --install reads a certificate file: what an earlier signing
\* wrote, or any other certificate.
Start(r) ==
    /\ pc[r] = "new"
    /\ \E o \in Ops, m \in Modes :
          /\ op' = [op EXCEPT ![r] = o]
          /\ mode' = [mode EXCEPT ![r] = m]
          /\ Goto(r, IF CredentialsFirst(m, o) THEN "creds" ELSE "lock")
          /\ IF o \in {"inspect"} \cup RenewOps
             THEN UNCHANGED name
             ELSE \E n \in Names : name' = [name EXCEPT ![r] = n]
          /\ IF o = "install"
             THEN \E x \in issued \cup ForeignCerts(Dev(r)) : cert' = [cert EXCEPT ![r] = x]
             ELSE UNCHANGED cert
    /\ UNCHANGED <<key, err, item, trace>>
    /\ NoRemoteChange

\* Where the body of an operation begins, and what _json_process_target,
\* _json_explicit and sign_pending_csr record before the first exchange.
BodyStart(o) ==
    CASE o \in {"inspect", "renew_due"} -> "check"
      [] o = "renew_now" -> "preflight"
      [] o = "generate_csr" -> "gen_inspect"
      [] o \in {"retrieve_csr", "sign_csr"} -> "fetch_observe"
      [] o = "install" -> "inst_observe"

BodyItem(o, it) ==
    CASE o \in {"inspect", "renew_due"} -> [it EXCEPT !.stage = "inspection"]
      [] o = "renew_now" -> [it EXCEPT !.stage = "preflight"]
      [] o = "generate_csr" -> [it EXCEPT !.stage = "csr_generation"]
      [] o \in {"retrieve_csr", "sign_csr"} -> Progress(it, "csr_retrieval_started")
      [] o = "install" -> [it EXCEPT !.stage = "installation"]

EnterBody(r) ==
    Proceed(r, IF Json(r) THEN BodyItem(op[r], item[r]) ELSE item[r], BodyStart(op[r]))

\* get_switch_credentials
Credentials(r) ==
    /\ pc[r] = "creds"
    /\ \/ Raise(r, item[r], "credentials")
       \/ /\ Locked(r) /\ r \notin holder[Dev(r)]
          /\ Proceed(r, item[r], "lock") /\ UNCHANGED <<name, key, cert>>
       \/ /\ ~Locked(r) \/ r \in holder[Dev(r)]
          /\ EnterBody(r) /\ UNCHANGED <<name, key, cert>>
    /\ UNCHANGED trace
    /\ NoRemoteChange

\* lifecycle_lock yields.
TakeLock(r) ==
    /\ pc[r] = "lock"
    /\ Lock!Acquire(r, Dev(r))
    /\ IF CredentialsFirst(mode[r], op[r])
       THEN EnterBody(r)
       ELSE Proceed(r, item[r], "creds")
    /\ UNCHANGED <<name, key, cert, trace>>
    /\ UNCHANGED <<pend, active, issued, fresh, disturb>>

\* Another invocation holds the lock, or is on its way to it.
Contended(r) ==
    \E q \in Runs \ {r} :
        Dev(q) = Dev(r) /\ (pc[q] = "lock" \/ q \in holder[Dev(r)])

\* LifecycleLockBusy, or an unsafe or unavailable lock file.
LockFails(r) ==
    /\ pc[r] = "lock"
    /\ \/ Contended(r) /\ Raise(r, item[r], "busy")
       \/ Raise(r, item[r], "lock")
    /\ UNCHANGED trace
    /\ NoRemoteChange

-----------------------------------------------------------------------------
(* check_switch and renewal_preflight.                                     *)

\* check_switch.  Whether the date is inside the warning window is a free
\* choice.  get_active_web_certificate refuses a pending CSR.
Check(r) ==
    /\ pc[r] = "check"
    /\ \/ Raise(r, item[r], "inspection") /\ UNCHANGED trace
       \/ pend[Dev(r)] # {} /\ Raise(r, item[r], "inspection") /\ Saw(r, "saw_pending")
       \/ /\ pend[Dev(r)] = {}
          /\ Succeed(r, [item[r] EXCEPT !.due = "false"], "success_no_change")
          /\ UNCHANGED trace
       \/ /\ pend[Dev(r)] = {} /\ op[r] = "inspect"
          /\ SetItem(r, [item[r] EXCEPT !.due = "true", !.outcome = "attention_due",
                                        !.stage = "decision"])
          /\ EndBody(r)
          /\ UNCHANGED <<op, mode, name, key, cert, err, trace>>
       \/ /\ pend[Dev(r)] = {} /\ op[r] = "renew_due"
          /\ Proceed(r, [item[r] EXCEPT !.due = "true", !.stage = "preflight"],
                     "preflight")
          /\ UNCHANGED <<name, key, cert, trace>>
    /\ NoRemoteChange

\* renewal_preflight: no pending CSR and a free name.
Preflight(r) ==
    /\ pc[r] = "preflight"
    /\ \/ \E k \in RawErrors : Raise(r, item[r], PreflightError(k)) /\ UNCHANGED trace
       \/ pend[Dev(r)] # {} /\ Raise(r, item[r], "pending") /\ Saw(r, "saw_pending")
       \/ /\ pend[Dev(r)] = {} /\ FreeNames(Dev(r)) = {}
          /\ Raise(r, item[r], "preflight") /\ UNCHANGED trace
       \/ /\ pend[Dev(r)] = {} /\ FreeNames(Dev(r)) # {}
          /\ name' = [name EXCEPT ![r] = FirstFree(Dev(r))]
          /\ Proceed(r, Note(r, item[r], "preflight_confirmed"), "gen_inspect")
          /\ UNCHANGED <<key, cert, trace>>
    /\ NoRemoteChange

-----------------------------------------------------------------------------
(* generate_csr.                                                           *)

\* A defect: the preflight's answer is trusted.
SummaryCleanAssumed(r) == Dev(r) \in Devices

\* get_active_web_certificate accepts the summary: no pending Web CSR.
SummaryClean(r) == pend[Dev(r)] = {}

\* A new session reads the summary again, then enters configuration mode.
GenerateInspect(r) ==
    /\ pc[r] = "gen_inspect"
    /\ \/ \E k \in RawErrors :
             Raise(r, item[r], GenerateError(r, k)) /\ UNCHANGED trace
       \/ /\ ~SummaryClean(r)
          /\ Raise(r, item[r], GenerateError(r, "value")) /\ Saw(r, "saw_pending")
       \/ /\ SummaryClean(r) /\ NameExists(Dev(r), name[r])
          /\ Raise(r, item[r], GenerateError(r, "value")) /\ UNCHANGED trace
       \/ /\ SummaryClean(r) /\ ~NameExists(Dev(r), name[r])
          /\ Proceed(r, item[r], "gen_create") /\ UNCHANGED <<name, key, cert, trace>>
    /\ NoRemoteChange

\* The switch makes a key pair and a CSR, unless it refuses the command.
SwitchCreatesCSR(r) ==
    /\ ~NameExists(Dev(r), name[r])
    /\ pend' = [pend EXCEPT ![Dev(r)] =
                   @ \cup {[name |-> name[r], key |-> fresh, by |-> r]}]
    /\ fresh' = fresh + 1
    /\ Saw(r, "csr")

\* csr_creation_attempted: from here on every failure is a CSRGenerationError.
\* The output is not searched for an error: a refusal is found by GenerateFetch.
GenerateCreate(r) ==
    /\ pc[r] = "gen_create"
    /\ SwitchCreatesCSR(r) \/ UNCHANGED <<pend, fresh, trace>>
    /\ \/ Raise(r, item[r], CreateError(r))
       \/ Proceed(r, item[r], "gen_fetch") /\ UNCHANGED <<name, key, cert>>
    /\ UNCHANGED <<holder, active, issued, disturb>>

\* Configuration mode is left, the CSR is read and validated, the session closed.
GenerateFetch(r) ==
    /\ pc[r] = "gen_fetch"
    /\ \/ Raise(r, item[r], CreateError(r))
       \/ \E c \in PendingAs(Dev(r), name[r]) :
             LET it == Note(r, item[r], "csr_confirmed") IN
             /\ key' = [key EXCEPT ![r] = c.key]
             /\ IF Renewing(r)
                THEN Proceed(r, Note(r, it, "csr_retrieval_started"), "fetch_observe")
                ELSE Proceed(r, it, "write")
             /\ UNCHANGED <<name, cert>>
    /\ UNCHANGED trace
    /\ NoRemoteChange

-----------------------------------------------------------------------------
(* retrieve_csr, and sign_pending_csr which begins with it.                *)

FetchObserve(r) ==
    /\ pc[r] = "fetch_observe"
    /\ \/ \E k \in RawErrors : Raise(r, item[r], SignError(r, k))
       \/ PendingAs(Dev(r), name[r]) = {} /\ Raise(r, item[r], SignError(r, "value"))
       \/ /\ PendingAs(Dev(r), name[r]) # {}
          /\ Proceed(r, Note(r, item[r], "pending_csr_observed"), "fetch_detail")
          /\ UNCHANGED <<name, key, cert>>
    /\ UNCHANGED trace
    /\ NoRemoteChange

FetchDetail(r) ==
    /\ pc[r] = "fetch_detail"
    /\ \/ \E k \in RawErrors : Raise(r, item[r], SignError(r, k))
       \/ \E c \in PendingAs(Dev(r), name[r]) :
             LET it == Note(r, item[r], "csr_retrieved") IN
             /\ key' = [key EXCEPT ![r] = c.key]
             /\ IF op[r] = "retrieve_csr"
                THEN Proceed(r, it, "write")
                ELSE Proceed(r, Note(r, it, "signing_preparation"), "resolve")
             /\ UNCHANGED <<name, cert>>
    /\ UNCHANGED trace
    /\ NoRemoteChange

\* OPNsenseClient(...) and resolve_ca.
ResolveCA(r) ==
    /\ pc[r] = "resolve"
    /\ \/ \E k \in RawErrors : Raise(r, item[r], SignError(r, k))
       \/ Proceed(r, item[r], "post") /\ UNCHANGED <<name, key, cert>>
    /\ UNCHANGED trace
    /\ NoRemoteChange

\* OPNsense signs the CSR that was posted.
NewCert(r) == [dev |-> Dev(r), key |-> key[r], serial |-> fresh]
OPNsenseIssues(r) ==
    /\ issued' = issued \cup {NewCert(r)}
    /\ fresh' = fresh + 1
    /\ Saw(r, "issue")

\* A defect: on_dispatch fires only when an answer has arrived.
DispatchedLate(r, it) == it

\* on_dispatch, called before the request is sent.
Dispatched(r, it) == Note(r, it, "issuance_dispatched")

\* client.sign_csr: on_dispatch fires before the request is sent; the answer
\* names the new certificate or is lost, malformed, or an error.
PostCSR(r) ==
    /\ pc[r] = "post"
    /\ LET sent == Dispatched(r, item[r]) IN
       \/ Raise(r, item[r], SignError(r, "value")) /\ UNCHANGED <<issued, fresh, trace>>
       \/ /\ \E k \in RawErrors : Raise(r, sent, SignError(r, k))
          /\ OPNsenseIssues(r) \/ UNCHANGED <<issued, fresh, trace>>
       \/ /\ OPNsenseIssues(r)
          /\ cert' = [cert EXCEPT ![r] = NewCert(r)]
          /\ Proceed(r, Note(r, sent, "issuance_confirmed"), "get")
          /\ UNCHANGED <<name, key>>
    /\ UNCHANGED <<holder, pend, active, disturb>>

\* client.get_certificate and validate_issued_certificate.
GetCertificate(r) ==
    /\ pc[r] = "get"
    /\ LET read == Note(r, item[r], "certificate_retrieved") IN
       \/ \E k \in RawErrors : Raise(r, item[r], SignError(r, k))
       \/ Raise(r, read, SignError(r, "value"))
       \/ /\ IF Renewing(r)
             THEN Proceed(r, Note(r, read, "issued_validated"), "inst_observe")
             ELSE Proceed(r, IF Json(r)
                             THEN [Note(r, read, "issued_validated") EXCEPT
                                      !.ms["csr"] = "confirmed",
                                      !.certificate = cert[r]]
                             ELSE read, "write")
          /\ UNCHANGED <<name, key, cert>>
    /\ UNCHANGED trace
    /\ NoRemoteChange

\* write_or_print_csr and write_certificate: the file is created or an OSError.
WriteOutput(r) ==
    /\ pc[r] = "write"
    /\ \/ Raise(r, item[r], IF ~Json(r) /\ op[r] = "generate_csr" THEN "csr" ELSE "write")
       \/ Succeed(r, item[r], IF op[r] = "retrieve_csr" THEN "success_no_change"
                                                        ELSE "success_prepared")
    /\ UNCHANGED trace
    /\ NoRemoteChange

-----------------------------------------------------------------------------
(* install_pending_certificate and install_signed_certificate.             *)

InstallObserve(r) ==
    /\ pc[r] = "inst_observe"
    /\ \/ Raise(r, item[r], PreInstallError(r))
       \/ /\ PendingAs(Dev(r), name[r]) # {}
          /\ Proceed(r, InstallNote(r, InstallNote(r, item[r], "pending_csr_observed"),
                                    "csr_retrieval_started"), "inst_validate")
          /\ UNCHANGED <<name, key, cert>>
    /\ UNCHANGED trace
    /\ NoRemoteChange

\* The certificate belongs to the CSR just read and to this switch.
Matches(x, c, r) == x.key = c.key /\ x.dev = Dev(r)

\* A defect: the chain of the certificate is not verified.
TrustedUnchecked(x) == x \in Certs

\* verify_issued_certificate_trust: the certificate chains to the configured CA.
Trusted(x) == x \in issued

\* The CSR is read; validate_issued_certificate, trust and validity are checked.
InstallValidate(r) ==
    /\ pc[r] = "inst_validate"
    /\ \/ Raise(r, item[r], PreInstallError(r)) /\ UNCHANGED trace
       \/ \E c \in PendingAs(Dev(r), name[r]) :
             LET read == InstallNote(r, InstallNote(r, item[r], "csr_retrieved"),
                                     "issued_validation_started")
                 ready == InstallNote(r, InstallNote(r, read, "issued_validated"),
                                      "installation_prepared") IN
             /\ \/ Raise(r, read, PreInstallError(r))
                \/ /\ Matches(cert[r], c, r) /\ Trusted(cert[r])
                   /\ Proceed(r, ready, "inst_recheck")
                   /\ UNCHANGED <<name, key, cert>>
             /\ UNCHANGED trace
    /\ NoRemoteChange

\* The summary is read once more, then configuration mode is entered.
InstallRecheck(r) ==
    /\ pc[r] = "inst_recheck"
    /\ \/ Raise(r, item[r], PreInstallError(r))
       \/ /\ PendingAs(Dev(r), name[r]) # {}
          /\ Proceed(r, item[r], "inst_paste") /\ UNCHANGED <<name, key, cert>>
    /\ UNCHANGED trace
    /\ NoRemoteChange

\* The pending CSR a pasted certificate answers.
Answered(r) == {c \in pend[Dev(r)] : Matches(cert[r], c, r)}

\* installation_attempted: the command and the PEM are sent.  The switch asks
\* whether to replace the certificate in use if it has a matching CSR.
InstallPaste(r) ==
    /\ pc[r] = "inst_paste"
    /\ \/ Raise(r, item[r], InstallError(r))
       \/ /\ Answered(r) # {}
          /\ Proceed(r, item[r], "inst_confirm") /\ UNCHANGED <<name, key, cert>>
    /\ UNCHANGED trace
    /\ NoRemoteChange

\* The switch replaces its Web certificate.
SwitchInstalls(r) ==
    \E c \in Answered(r) :
        /\ pend' = [pend EXCEPT ![Dev(r)] = @ \ {c}]
        /\ active' = [active EXCEPT ![Dev(r)] = [name |-> c.name, cert |-> cert[r]]]
        /\ Saw(r, "install")

\* "y" is sent; the answer may be lost, and may show no error although the
\* switch did not install.
InstallConfirm(r) ==
    /\ pc[r] = "inst_confirm"
    /\ SwitchInstalls(r) \/ UNCHANGED <<pend, active, trace>>
    /\ \/ Raise(r, item[r], InstallError(r))
       \/ Proceed(r, item[r], "inst_verify") /\ UNCHANGED <<name, key, cert>>
    /\ UNCHANGED <<holder, issued, fresh, disturb>>

\* A defect: the dialogue's end is taken for an installation.
ShownInstalledAssumed(r) == name[r] \in Names

\* The summary shows the name with a date.
ShownInstalled(r) == active[Dev(r)].name = name[r]

\* Configuration mode is left, summary and detail must show an installed
\* certificate of this name, the session is closed.
InstallVerify(r) ==
    /\ pc[r] = "inst_verify"
    /\ \/ Raise(r, item[r], InstallError(r))
       \/ /\ ShownInstalled(r)
          /\ LET it == IF Json(r) THEN InstallationConfirmed(item[r], cert[r])
                                  ELSE item[r] IN
             Proceed(r, IF Json(r) /\ ~Renewing(r)
                        THEN [it EXCEPT !.stage = "live_verification"] ELSE it, "live")
          /\ UNCHANGED <<name, key, cert>>
    /\ UNCHANGED trace
    /\ NoRemoteChange

\* verify_live_https_certificate: exact match of the certificate served.  Its
\* callers turn ValueError, OSError and SSLError into LiveHTTPSVerificationError.
VerifyLive(r) ==
    /\ pc[r] = "live"
    /\ \/ \E e \in {"live", "other"} : Raise(r, item[r], e)
       \/ /\ active[Dev(r)].cert = cert[r]
          /\ Succeed(r, Note(r, item[r], "live_tls_confirmed"), "success_changed")
    /\ UNCHANGED trace
    /\ NoRemoteChange

-----------------------------------------------------------------------------
(* The end of a run.                                                       *)

\* An exception that no handler inside the lock catches: --renew-due and the
\* JSON renewal catch every Exception, the explicit operations do not.
BodyRaised(r) ==
    err[r] = "other" /\ op[r] # "renew_due" /\ ~(Json(r) /\ op[r] = "renew_now")

\* The lock is closed.  LifecycleLockReleaseError is raised only if the body
\* did not raise.  The CSR's name and key were locals of the body.
Unlock(r) ==
    /\ pc[r] = "unlock"
    /\ Lock!Release(r, Dev(r))
    /\ \/ UNCHANGED <<item, err>>
       \/ /\ ~BodyRaised(r)
          /\ SetItem(r, IF Json(r) THEN ReleaseFailedItem(item[r]) ELSE item[r])
          /\ err' = [err EXCEPT ![r] = IF @ = "none" THEN "release" ELSE @]
    /\ Goto(r, "done")
    /\ name' = [name EXCEPT ![r] = 0] /\ key' = [key EXCEPT ![r] = 0]
    /\ UNCHANGED <<op, mode, cert, trace>>
    /\ UNCHANGED <<pend, active, issued, fresh, disturb>>

\* The process is killed: it reports nothing, its memory is gone (its variables go
\* back to their values of Init), and the kernel drops its lock.
Crash(r) ==
    /\ pc[r] \notin {"new", "done", "crashed"}
    /\ Goto(r, "crashed")
    /\ IF r \in holder[Dev(r)] THEN Lock!Release(r, Dev(r)) ELSE UNCHANGED holder
    /\ op' = [op EXCEPT ![r] = "inspect"] /\ mode' = [mode EXCEPT ![r] = "json"]
    /\ name' = [name EXCEPT ![r] = 0] /\ key' = [key EXCEPT ![r] = 0]
    /\ cert' = [cert EXCEPT ![r] = NoCert] /\ err' = [err EXCEPT ![r] = "none"]
    /\ SetItem(r, NewItem(NoCert)) /\ trace' = [trace EXCEPT ![r] = {}]
    /\ UNCHANGED <<pend, active, issued, fresh, disturb>>

\* The exit status of the process.
ExitCode(r) ==
    IF Json(r)
    THEN IF item[r].outcome \in Failures THEN 2
         ELSE IF op[r] = "inspect" /\ item[r].outcome = "attention_due" THEN 1 ELSE 0
    ELSE IF err[r] = "none" THEN IF op[r] = "inspect" /\ item[r].due = "true" THEN 1 ELSE 0
         ELSE IF err[r] = "other" /\ BodyRaised(r) THEN 1 ELSE 2

-----------------------------------------------------------------------------
(* The switch and its operator.                                            *)

\* A reboot loses the pending CSRs and their keys.
Reboot(d) ==
    /\ disturb < MaxDisturb
    /\ disturb' = disturb + 1
    /\ pend[d] # {}
    /\ pend' = [pend EXCEPT ![d] = {}]
    /\ UNCHANGED <<pc, op, mode, name, key, cert, err, item, trace>>
    /\ UNCHANGED <<holder, active, issued, fresh>>

\* An operator creates a Web CSR on the console.
OperatorCSR(d) ==
    /\ disturb < MaxDisturb
    /\ disturb' = disturb + 1
    /\ \E n \in FreeNames(d) :
          pend' = [pend EXCEPT ![d] = @ \cup {[name |-> n, key |-> fresh, by |-> NoRun]}]
    /\ fresh' = fresh + 1
    /\ UNCHANGED <<pc, op, mode, name, key, cert, err, item, trace>>
    /\ UNCHANGED <<holder, active, issued>>

-----------------------------------------------------------------------------
Step(r) ==
    \/ Credentials(r) \/ TakeLock(r) \/ LockFails(r)
    \/ Check(r) \/ Preflight(r)
    \/ GenerateInspect(r) \/ GenerateCreate(r) \/ GenerateFetch(r)
    \/ FetchObserve(r) \/ FetchDetail(r)
    \/ ResolveCA(r) \/ PostCSR(r) \/ GetCertificate(r) \/ WriteOutput(r)
    \/ InstallObserve(r) \/ InstallValidate(r) \/ InstallRecheck(r)
    \/ InstallPaste(r) \/ InstallConfirm(r) \/ InstallVerify(r)
    \/ VerifyLive(r) \/ Unlock(r)

Next ==
    \/ \E r \in Runs : Start(r) \/ Step(r) \/ Crash(r)
    \/ \E d \in Devices : Reboot(d) \/ OperatorCSR(d)

Spec == Init /\ [][Next]_vars

\* Every exchange with a switch or OPNsense has a deadline of its own, so a run
\* that is not killed goes on.
FairSpec == Spec /\ \A r \in Runs : WF_vars(Step(r))

-----------------------------------------------------------------------------
(* Properties.                                                             *)

Ended(r) == pc[r] = "done"
Did(r) == trace[r] \cap Effects
Failed(r) == item[r].outcome \in Failures

\* A finished JSON result with change=none is the truth: this invocation created
\* no CSR, had no certificate issued and installed none, whatever answer was
\* lost on the way.
NoChangeIsTrue ==
    \A r \in Runs : Ended(r) /\ Json(r) /\ item[r].change = "none" => Did(r) = {}

\* Milestones are never better than the facts: not_attempted issuance or
\* installation means none happened, confirmed means it did happen.
MilestonesAreTrue ==
    \A r \in Runs : Ended(r) /\ Json(r) =>
        /\ item[r].ms["issuance"] = "not_attempted" => "issue" \notin trace[r]
        /\ item[r].ms["installation"] = "not_attempted" => "install" \notin trace[r]
        /\ item[r].ms["issuance"] = "confirmed" => "issue" \in trace[r]
        /\ item[r].ms["installation"] = "confirmed" => "install" \in trace[r]

\* A failed JSON result whose invocation changed anything asks for manual
\* recovery, so that a scheduler does not retry over a half-done renewal.
UnfinishedWorkIsFlagged ==
    \A r \in Runs : Ended(r) /\ Json(r) /\ Failed(r) /\ Did(r) # {} => item[r].recovery

\* The result is a success only when the work is complete: success_changed is
\* reported only for a run that installed, confirmed every milestone it has,
\* raised nothing and released its lock.
SuccessIsComplete ==
    \A r \in Runs : Ended(r) /\ Json(r) /\ item[r].outcome = "success_changed" =>
        /\ err[r] = "none"
        /\ "install" \in trace[r]
        /\ \A m \in MilestoneNames :
              item[r].ms[m] = "confirmed" \/ (m = "issuance" /\ op[r] = "install")

\* While a successful renewal still holds its lock, the switch serves the very
\* certificate that the run installed and verified, and no CSR of it is left.
SuccessIsServed ==
    \A r \in Runs : pc[r] = "unlock" /\ err[r] = "none" /\ op[r] \in RenewOps \cup {"install"}
                       /\ item[r].due # "false" =>
        /\ active[Dev(r)].cert = cert[r]
        /\ \A c \in pend[Dev(r)] : c.key # cert[r].key

\* The invocation is about to say, or has just said, that the pending CSR remains
\* on the switch: the texts of CSRSigningError, CertificatePreInstallationError and
\* of a CSR that was generated and cannot be written.
SaysCSRRemains(r) ==
    \/ Renewing(r) /\ pc[r] = "unlock" /\ err[r] \in {"signing", "pre_install"}
    \/ op[r] = "generate_csr" /\ pc[r] = "write"

\* The human error messages are the truth (report_renewal_failure,
\* run_explicit_operation and the exceptions they print).  What they deny did not
\* happen, and the CSR that they say remains on the switch is there, found by its
\* name, as long as this invocation has the lock.  The code does not look again
\* before it says so: a switch that was rebooted has lost the CSR, and the message
\* is wrong.
ErrorTextIsTrue ==
    \A r \in Runs :
        /\ Ended(r) =>
              /\ err[r] \in {"preflight", "pending"} => Did(r) = {}
              /\ err[r] = "csr_pre" => "csr" \notin trace[r]
              /\ err[r] \in {"signing", "pre_install"} => "install" \notin trace[r]
              /\ op[r] = "install" /\ err[r] = "value" => Did(r) = {}
        /\ SaysCSRRemains(r) /\ disturb = 0 => PendingAs(Dev(r), name[r]) # {}

\* The tool never has two CSRs of its own pending on one switch: each creation
\* finds none, and no other invocation creates one in between.
OneOwnCSR ==
    \A d \in Devices : \A b, c \in pend[d] :
        b.by \in Runs /\ c.by \in Runs => b = c

\* The operations that have the steps of a part of the code.
RenewOr(o) == RenewOps \cup {o}
MayBeAt(o, l) ==
    /\ l = "check" => o \in {"inspect", "renew_due"}
    /\ l = "preflight" => o \in RenewOps
    /\ l \in {"gen_inspect", "gen_create", "gen_fetch"} => o \in RenewOr("generate_csr")
    /\ l \in {"fetch_observe", "fetch_detail"} => o \in RenewOr("sign_csr") \cup {"retrieve_csr"}
    /\ l \in {"resolve", "post", "get"} => o \in RenewOr("sign_csr")
    /\ l \in InstallPCs => o \in RenewOr("install")

PcMatchesOp == \A r \in Runs : MayBeAt(op[r], pc[r])

\* The body of a locked operation runs alone on its switch.
BodyHoldsLock ==
    /\ \A d \in Devices : \A p, q \in holder[d] : p = q
    /\ \A r \in Runs : pc[r] \in BodyPCs /\ Locked(r) => holder[Dev(r)] = {r}

\* Between the summary that showed no pending CSR and the creation, only an
\* operator can have created one.
NoOwnCSRBeforeCreate ==
    \A r \in Runs : pc[r] = "gen_create" => \A c \in pend[Dev(r)] : c.by \notin Runs

\* Numbers are not reused.
NumbersAreOld ==
    /\ \A d \in Devices : \A c \in pend[d] : c.key < fresh
    /\ \A x \in issued : x.key < fresh /\ x.serial < fresh
    /\ \A r \in Runs : key[r] < fresh

\* A certificate that a run signed, or has validated for the installation, was
\* issued by OPNsense.
HasIssued(o, l) ==
    \/ l \in {"get"} \cup (InstallPCs \ {"inst_observe", "inst_validate"})
    \/ o \in RenewOps /\ l \in InstallPCs

CertIsIssued == \A r \in Runs : HasIssued(op[r], pc[r]) => cert[r] \in issued

\* The inductive invariant behind OneOwnCSR and ImplementsDeviceLifecycle: types,
\* which operation is where, who holds the lock, and what is known of the switch
\* in the window between a check and the command that relies on it.
RenewalInv ==
    /\ TypeOK
    /\ PcMatchesOp
    /\ BodyHoldsLock
    /\ NoOwnCSRBeforeCreate
    /\ OneOwnCSR
    /\ NumbersAreOld
    /\ CertIsIssued

\* The device lifecycle hides everything that is local to an invocation.
Lifecycle == INSTANCE DeviceLifecycle

\* Whatever the invocations, crashes, lost answers, reboots and operators do,
\* a switch and OPNsense see only the steps DeviceLifecycle allows.
ImplementsDeviceLifecycle == Lifecycle!DSpec

\* What docs/run-result.md says of manual_recovery_required: a run that saw a
\* pending CSR, which blocks every renewal until somebody recovers it, says so.
SeenPendingIsFlagged ==
    \A r \in Runs : Ended(r) /\ Json(r) /\ op[r] \in RenewOps /\ "saw_pending" \in trace[r] =>
        item[r].recovery

\* What README.md says of the exit status: 1 is for read-only monitoring, a
\* failed operation exits with 2.
FailureExitsWithTwo ==
    \A r \in Runs : Ended(r) /\ op[r] # "inspect" /\ err[r] # "none" => ExitCode(r) = 2

\* A run that is not killed comes to an end and gives its lock back.
EveryRunEnds ==
    \A r \in Runs : pc[r] # "new" ~> pc[r] \in {"done", "crashed"} /\ r \notin holder[Dev(r)]
=============================================================================
