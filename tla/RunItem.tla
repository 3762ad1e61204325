------------------------------ MODULE RunItem ------------------------------
(***************************************************************************)
(* The per-switch record of the structured run result: SwitchResult of     *)
(* run_result.py and the functions of aruba_cert_renewer.py that advance   *)
(* it.  Texts are left out: a message says nothing that reason_code, stage *)
(* and the milestones do not.  A certificate stands for its fingerprint.   *)
(***************************************************************************)

Outcomes == {"success_changed", "success_no_change", "success_prepared",
             "attention_due", "failure_pre_attempt", "failure_partial",
             "failure_ambiguous"}
Failures == {"failure_pre_attempt", "failure_partial", "failure_ambiguous"}

Stages == {"startup", "configuration", "lock", "inspection", "decision",
           "preflight", "csr_generation", "csr_retrieval", "signing",
           "issued_validation", "installation", "activation",
           "live_verification", "finalization", "completed"}

Milestones == {"not_attempted", "confirmed", "failed", "uncertain"}
MilestoneNames == {"csr", "issuance", "installation", "activation", "live_tls"}

Changes == {"none", "confirmed", "possible"}

Reasons == {"null", "config_invalid", "lock_busy", "lock_failed",
            "pending_state", "inspection_failed", "csr_failed",
            "signing_failed", "validation_failed", "installation_failed",
            "verification_failed", "recovery_required", "unexpected_failure"}

\* Exceptions that end the work on one switch.  "value" is a ValueError or an
\* OSError (an HTTP, SSH authentication or connect error included) that no
\* function has classified; "other" is any other Exception, such as netmiko's
\* ReadException and ReadTimeout or http.client.HTTPException.
RawErrors == {"value", "other"}
Errors == RawErrors \cup
    {"none",            \* no exception
     "pending",         \* PendingCSRPreflightError
     "preflight",       \* RenewalPreflightError
     "csr_pre",         \* CSRGenerationPreAttemptError
     "csr",             \* CSRGenerationError
     "signing",         \* CSRSigningError
     "pre_install",     \* CertificatePreInstallationError
     "install",         \* CertificateInstallationAttemptError
     "live",            \* LiveHTTPSVerificationError
     "write",           \* OSError of write_certificate or write_or_print_csr
     "credentials",     \* get_switch_credentials failed
     "inspection",      \* check_switch returned "error"
     "busy", "lock"}    \* LifecycleLockBusy, any other LifecycleLockError

RENEWAL_FAILURE_TYPES ==
    {"preflight", "pending", "csr_pre", "csr", "signing", "pre_install",
     "install", "live"}

Item(Certs) ==
    [outcome: Outcomes, stage: Stages, due: {"null", "true", "false"},
     change: Changes, recovery: BOOLEAN, reason: Reasons, observed: BOOLEAN,
     certificate: Certs, ms: [MilestoneNames -> Milestones]]

\* SwitchResult(target=...)
NewItem(noCert) ==
    [outcome |-> "failure_pre_attempt", stage |-> "startup", due |-> "null",
     change |-> "none", recovery |-> FALSE, reason |-> "null",
     observed |-> FALSE, certificate |-> noCert,
     ms |-> [m \in MilestoneNames |-> "not_attempted"]]

\* _json_progress, for the events that carry no certificate.
Progress(item, event) ==
    CASE event = "preflight_confirmed" -> [item EXCEPT !.stage = "preflight"]
      [] event = "pending_csr_observed" -> [item EXCEPT !.observed = TRUE]
      [] event = "csr_retrieval_started" ->
            [item EXCEPT !.stage = "csr_retrieval",
                         !.ms["csr"] = IF @ = "not_attempted" THEN "failed" ELSE @]
      [] event = "csr_retrieved" -> [item EXCEPT !.ms["csr"] = "confirmed"]
      [] event = "signing_preparation" -> [item EXCEPT !.stage = "signing"]
      [] event = "csr_confirmed" ->
            [item EXCEPT !.stage = "csr_generation", !.ms["csr"] = "confirmed",
                         !.change = "confirmed"]
      [] event = "issuance_dispatched" ->
            [item EXCEPT !.stage = "signing", !.ms["issuance"] = "uncertain",
                         !.change = "possible"]
      [] event = "issuance_confirmed" ->
            [item EXCEPT !.ms["issuance"] = "confirmed", !.change = "confirmed"]
      [] event \in {"certificate_retrieved", "issued_validation_started",
                    "issued_validated"} ->
            [item EXCEPT !.stage = "issued_validation"]
      [] event = "installation_prepared" -> [item EXCEPT !.stage = "installation"]
      [] event = "live_tls_confirmed" ->
            [item EXCEPT !.stage = "live_verification",
                         !.ms["live_tls"] = "confirmed"]

\* _json_progress(item, "installation_confirmed", certificate)
InstallationConfirmed(item, cert) ==
    [item EXCEPT !.stage = "activation", !.change = "confirmed",
                 !.ms["installation"] = "confirmed",
                 !.ms["activation"] = "confirmed", !.certificate = cert]

\* _json_failure_outcome
FailureOutcome(item) ==
    IF item.change = "possible"
          \/ \E m \in {"csr", "issuance", "installation"} : item.ms[m] = "uncertain"
    THEN "failure_ambiguous"
    ELSE IF item.change = "confirmed"
          \/ \E m \in {"issuance", "installation", "activation"} :
                item.ms[m] = "confirmed"
    THEN "failure_partial"
    ELSE "failure_pre_attempt"

\* The recovery flag of a failure the code could not attribute to a stage.
RecoveryByEvidence(item) ==
    \/ FailureOutcome(item) # "failure_pre_attempt"
    \/ item.ms["csr"] = "confirmed"
    \/ item.observed

\* _json_failure
Failure(item, err) ==
    CASE err = "pending" ->
            [item EXCEPT !.outcome = "failure_pre_attempt", !.stage = "preflight",
                         !.reason = "pending_state", !.recovery = TRUE]
      [] err = "preflight" ->
            [item EXCEPT !.outcome = "failure_pre_attempt", !.stage = "preflight",
                         !.reason = "inspection_failed", !.recovery = FALSE]
      [] err = "csr_pre" ->
            [item EXCEPT !.outcome = "failure_pre_attempt",
                         !.stage = "csr_generation", !.reason = "csr_failed",
                         !.recovery = FALSE]
      [] err = "csr" ->
            [item EXCEPT !.outcome = "failure_ambiguous",
                         !.stage = "csr_generation", !.reason = "csr_failed",
                         !.ms["csr"] = "uncertain", !.change = "possible",
                         !.recovery = TRUE]
      [] err = "signing" ->
            [item EXCEPT !.outcome = FailureOutcome(item),
                         !.reason = CASE item.stage = "issued_validation" ->
                                             "validation_failed"
                                      [] item.stage = "csr_retrieval" -> "csr_failed"
                                      [] OTHER -> "signing_failed",
                         !.recovery = RecoveryByEvidence(item)]
      [] err = "pre_install" ->
            [item EXCEPT !.outcome = FailureOutcome(item), !.stage = "installation",
                         !.reason = "validation_failed", !.recovery = TRUE]
      [] err = "install" ->
            [item EXCEPT !.outcome = "failure_ambiguous", !.stage = "installation",
                         !.reason = "installation_failed",
                         !.ms["installation"] = "uncertain",
                         !.change = "possible", !.recovery = TRUE]
      [] err = "live" ->
            [item EXCEPT !.outcome = FailureOutcome(item),
                         !.stage = "live_verification",
                         !.reason = "verification_failed",
                         !.ms["live_tls"] = "failed", !.recovery = TRUE]
      [] OTHER ->
            [item EXCEPT !.outcome = FailureOutcome(item),
                         !.reason = "unexpected_failure",
                         !.recovery = RecoveryByEvidence(item)]

\* The except clauses of _json_explicit (an "other" exception leaves it and is
\* caught by _run_json), _json_renew, and the OSError handler of sign_csr.
FailedItem(op, item, err) ==
    CASE err = "write" /\ op = "sign_csr" ->
            [item EXCEPT !.outcome = "failure_partial", !.stage = "finalization",
                         !.reason = "recovery_required", !.recovery = TRUE]
      [] err \in {"value", "write"} /\ op = "generate_csr"
            /\ item.ms["csr"] = "confirmed" ->
            [item EXCEPT !.outcome = "failure_partial", !.reason = "csr_failed",
                         !.recovery = TRUE]
      [] err = "value" /\ op = "sign_csr" -> Failure(item, "signing")
      [] /\ err \in {"value", "write"}
         /\ \/ op \in {"retrieve_csr", "install"}
            \/ op = "generate_csr" /\ item.ms["csr"] # "confirmed" ->
            [item EXCEPT !.outcome = FailureOutcome(item),
                         !.reason = IF op = "install" THEN "validation_failed"
                                                      ELSE "csr_failed",
                         !.recovery = RecoveryByEvidence(item)]
      [] err = "inspection" -> [item EXCEPT !.reason = "inspection_failed"]
      [] err = "credentials" ->
            [item EXCEPT !.stage = "configuration", !.reason = "config_invalid"]
      [] err \in {"busy", "lock"} ->
            [item EXCEPT !.outcome = "failure_pre_attempt", !.stage = "lock",
                         !.reason = IF err = "busy" THEN "lock_busy"
                                                    ELSE "lock_failed"]
      [] OTHER -> Failure(item, err)

\* A defect for testing SuccessIsComplete: only the flag is set.
ReleaseFailedFlagOnly(item) == [item EXCEPT !.recovery = TRUE]

\* The LifecycleLockReleaseError handler of _run_json.
ReleaseFailedItem(item) ==
    IF item.outcome \in Failures /\ item.reason # "null"
    THEN [item EXCEPT !.recovery = TRUE]
    ELSE [item EXCEPT !.stage = "lock", !.reason = "lock_failed",
                      !.outcome = FailureOutcome(item), !.recovery = TRUE]

\* The outcome and stage of a body that completed.
SucceededItem(item, outcome) ==
    [item EXCEPT !.outcome = outcome, !.stage = "completed"]
=============================================================================
