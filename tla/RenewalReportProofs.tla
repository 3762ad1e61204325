------------------------ MODULE RenewalReportProofs ------------------------
(***************************************************************************)
(* The report of Renewal is true: what the JSON item and the human message *)
(* of an invocation say of it is what it did, for any number of            *)
(* invocations, switches and names.                                        *)
(*                                                                         *)
(* The item lags behind the facts while a command is on its way, so its    *)
(* truth at the end is not inductive.  ReportInv says for every step of    *)
(* the code what the invocation may have done by then (TraceOK), what its  *)
(* item says of that (ItemOK), and what is known of the switch (ServedOK,  *)
(* SwitchOK).  Each operation is shown to lead from one row of that table  *)
(* to another; the exceptions do so because of what _json_failure and the  *)
(* except clauses leave of the item (AfterError).                          *)
(***************************************************************************)
EXTENDS RenewalProofs

-----------------------------------------------------------------------------
(* The invariant.                                                          *)

Over == {"unlock", "done"}

\* The steps before the command that creates a CSR.
EarlyPCs == {"new", "creds", "lock", "check", "preflight", "gen_inspect", "gen_create",
             "crashed"}

\* The steps at which the certificate may have been installed.
LatePCs == {"inst_verify", "live"} \cup Over

\* What the text of the human message for e says of the history t.
TextTrue(o, t, e) ==
    /\ e \in {"preflight", "pending"} => t \cap Effects = {}
    /\ e = "csr_pre" => "csr" \notin t
    /\ e \in {"signing", "pre_install"} => "install" \notin t
    /\ o = "install" /\ e = "value" => t \cap Effects = {}

\* What an invocation has done by the time it is at a step.
TraceOK(o, p, t, e) ==
    /\ p \notin Over => e = "none"
    /\ p \in EarlyPCs => t \cap Effects = {}
    /\ p \notin LatePCs => "install" \notin t
    /\ o = "install" /\ p \notin LatePCs => t \cap Effects = {}
    /\ p = "live" => "install" \in t
    /\ p \in Over => TextTrue(o, t, e)

\* The milestones of issuance and installation are not better than the facts.
Supported(i, t) ==
    /\ i.ms["issuance"] = "not_attempted" => "issue" \notin t
    /\ i.ms["issuance"] = "confirmed" => "issue" \in t
    /\ i.ms["installation"] = "confirmed" => "install" \in t

\* The milestones that the work has passed by the time it is at a step.
Passed(o, p, i) ==
    /\ p \in {"resolve", "post", "get"} \cup InstallPCs =>
          i.ms["csr"] = "confirmed"
             \/ (o = "install" /\ p \in {"inst_observe", "inst_validate"})
    /\ p \in {"get"} \cup InstallPCs =>
          i.ms["issuance"] = "confirmed" \/ o = "install"
    /\ p = "live" => i.ms["installation"] = "confirmed" /\ i.ms["activation"] = "confirmed"

\* What the item of a finished invocation promises.
Promise(o, i, t, e) ==
    /\ i.outcome \in Failures /\ t \cap Effects # {} => i.recovery
    /\ i.outcome = "success_changed" =>
          /\ e = "none" /\ "install" \in t
          /\ \A m \in MilestoneNames :
                i.ms[m] = "confirmed" \/ (m = "issuance" /\ o = "install")

\* The JSON item lags behind the facts only between the command that creates the CSR
\* and the reading of it, and between the installation and its verification.
ItemOK(o, p, i, t, e) ==
    /\ Supported(i, t)
    /\ p \notin Over => i.outcome = "failure_pre_attempt"
    /\ p \notin {"gen_fetch", "inst_verify"} /\ i.change = "none" => t \cap Effects = {}
    /\ p # "inst_verify" /\ i.ms["installation"] = "not_attempted" => "install" \notin t
    /\ Passed(o, p, i)
    /\ p \in Over => Promise(o, i, t, e)

RunOK(r) ==
    /\ TraceOK(op[r], pc[r], trace[r], err[r])
    /\ Json(r) => ItemOK(op[r], pc[r], item[r], trace[r], err[r])
    /\ pc[r] = "new" => item[r] = NewItem(NoCert)

\* A switch has no two CSRs of one name or key, nor one of the name or key that it
\* serves.
SwitchOK(d) ==
    /\ \A b, c \in pend[d] : b.name = c.name \/ b.key = c.key => b = c
    /\ \A c \in pend[d] : c.name # active[d].name /\ c.key # active[d].cert.key
    /\ active[d].cert.key < fresh

\* From the observation of the CSR on, its name is not the one in use unless this
\* invocation has installed it; a run that has succeeded is served.
ServedOK(r) ==
    /\ pc[r] \in {"inst_validate", "inst_recheck", "inst_paste", "inst_confirm", "inst_verify"}
          /\ "install" \notin trace[r]
       => active[Dev(r)].name # name[r]
    /\ pc[r] = "write" => op[r] \in {"generate_csr", "retrieve_csr", "sign_csr"}
    /\ pc[r] = "unlock" /\ err[r] = "none" /\ op[r] \in RenewOps \cup {"install"}
          /\ item[r].due # "false"
       => active[Dev(r)].cert = cert[r]

\* The inductive invariant behind the truth of the report.
ReportInv ==
    /\ RenewalInv
    /\ \A r \in Runs : RunOK(r) /\ ServedOK(r)
    /\ \A d \in Devices : SwitchOK(d)

-----------------------------------------------------------------------------
(* What the functions on the JSON item do to the fields of the report.     *)

\* The failures that are only raised before anything was changed.
MildErrors == {"preflight", "csr_pre", "inspection", "credentials", "busy", "lock"}

\* j is the item it after the exception e.
AfterError(j, it, e) ==
    /\ j.outcome \in Failures
    /\ j.due = it.due
    /\ j.ms["issuance"] = it.ms["issuance"]
    /\ j.ms["installation"] = IF e = "install" THEN "uncertain" ELSE it.ms["installation"]
    /\ j.change = IF e \in {"csr", "install"} THEN "possible" ELSE it.change
    /\ e \notin MildErrors /\ (it.change # "none" \/ e \in {"csr", "install"}) => j.recovery

\* A failure after a change that the item knows of is not one before the attempt, and
\* asks for recovery.
LEMMA FailureOutcomeFacts ==
  ASSUME NEW it \in Items
  PROVE  \E fo \in Failures, re \in BOOLEAN :
            /\ fo = FailureOutcome(it) /\ re = RecoveryByEvidence(it)
            /\ it.change # "none" => re
<1>1. FailureOutcome(it) \in Failures
  BY DEF FailureOutcome, Failures
<1>2. RecoveryByEvidence(it) \in BOOLEAN
  BY DEF RecoveryByEvidence
<1>3. it.change \in Changes
  BY DEF Items, Item
<1>4. it.change # "none" => FailureOutcome(it) # "failure_pre_attempt"
  BY <1>3 DEF FailureOutcome, Changes
<1>5. it.change # "none" => RecoveryByEvidence(it)
  BY <1>4, Zenon DEF RecoveryByEvidence
<1> QED BY <1>1, <1>2, <1>5

\* _json_failure
LEMMA FailureFacts ==
  ASSUME NEW it \in Items, it.outcome \in Failures, NEW e
  PROVE  AfterError(Failure(it, e), it, e)
<1>0. PICK fo \in Failures, re \in BOOLEAN :
        /\ fo = FailureOutcome(it) /\ re = RecoveryByEvidence(it)
        /\ it.change # "none" => re
  BY FailureOutcomeFacts
<1>1. CASE e = "pending"
  <2> DEFINE v == [it EXCEPT !.outcome = "failure_pre_attempt", !.stage = "preflight",
                             !.reason = "pending_state", !.recovery = TRUE]
  <2>1. Failure(it, e) = v
    BY Zenon, <1>0, <1>1 DEF Failure
  <2>2. AfterError(v, it, e)
    BY <1>0, <1>1 DEF Items, Item, AfterError, Failures, MildErrors, MilestoneNames
  <2> HIDE DEF v
  <2> QED BY <2>1, <2>2
<1>2. CASE e = "preflight"
  <2> DEFINE v == [it EXCEPT !.outcome = "failure_pre_attempt", !.stage = "preflight",
                             !.reason = "inspection_failed", !.recovery = FALSE]
  <2>1. Failure(it, e) = v
    BY Zenon, <1>0, <1>2 DEF Failure
  <2>2. AfterError(v, it, e)
    BY <1>0, <1>2 DEF Items, Item, AfterError, Failures, MildErrors, MilestoneNames
  <2> HIDE DEF v
  <2> QED BY <2>1, <2>2
<1>3. CASE e = "csr_pre"
  <2> DEFINE v == [it EXCEPT !.outcome = "failure_pre_attempt", !.stage = "csr_generation",
                             !.reason = "csr_failed", !.recovery = FALSE]
  <2>1. Failure(it, e) = v
    BY Zenon, <1>0, <1>3 DEF Failure
  <2>2. AfterError(v, it, e)
    BY <1>0, <1>3 DEF Items, Item, AfterError, Failures, MildErrors, MilestoneNames
  <2> HIDE DEF v
  <2> QED BY <2>1, <2>2
<1>4. CASE e = "csr"
  <2> DEFINE v == [it EXCEPT !.outcome = "failure_ambiguous", !.stage = "csr_generation",
                             !.reason = "csr_failed", !.ms["csr"] = "uncertain",
                             !.change = "possible", !.recovery = TRUE]
  <2>1. Failure(it, e) = v
    BY Zenon, <1>0, <1>4 DEF Failure
  <2>2. AfterError(v, it, e)
    BY <1>0, <1>4 DEF Items, Item, AfterError, Failures, MildErrors, MilestoneNames
  <2> HIDE DEF v
  <2> QED BY <2>1, <2>2
<1>5. CASE e = "pre_install"
  <2> DEFINE v == [it EXCEPT !.outcome = fo, !.stage = "installation",
                             !.reason = "validation_failed", !.recovery = TRUE]
  <2>1. Failure(it, e) = v
    BY Zenon, <1>0, <1>5 DEF Failure
  <2>2. AfterError(v, it, e)
    BY <1>0, <1>5 DEF Items, Item, AfterError, Failures, MildErrors, MilestoneNames
  <2> HIDE DEF v
  <2> QED BY <2>1, <2>2
<1>6. CASE e = "install"
  <2> DEFINE v == [it EXCEPT !.outcome = "failure_ambiguous", !.stage = "installation",
                             !.reason = "installation_failed", !.ms["installation"] = "uncertain",
                             !.change = "possible", !.recovery = TRUE]
  <2>1. Failure(it, e) = v
    BY Zenon, <1>0, <1>6 DEF Failure
  <2>2. AfterError(v, it, e)
    BY <1>0, <1>6 DEF Items, Item, AfterError, Failures, MildErrors, MilestoneNames
  <2> HIDE DEF v
  <2> QED BY <2>1, <2>2
<1>7. CASE e = "live"
  <2> DEFINE v == [it EXCEPT !.outcome = fo, !.stage = "live_verification",
                             !.reason = "verification_failed", !.ms["live_tls"] = "failed",
                             !.recovery = TRUE]
  <2>1. Failure(it, e) = v
    BY Zenon, <1>0, <1>7 DEF Failure
  <2>2. AfterError(v, it, e)
    BY <1>0, <1>7 DEF Items, Item, AfterError, Failures, MildErrors, MilestoneNames
  <2> HIDE DEF v
  <2> QED BY <2>1, <2>2
<1>8. CASE e = "signing"
  <2> DEFINE x == CASE it.stage = "issued_validation" -> "validation_failed"
                    [] it.stage = "csr_retrieval" -> "csr_failed"
                    [] OTHER -> "signing_failed"
             v == [it EXCEPT !.outcome = fo, !.reason = x, !.recovery = re]
  <2>1. Failure(it, e) = v
    BY Zenon, <1>0, <1>8 DEF Failure
  <2> HIDE DEF x
  <2>2. AfterError(v, it, e)
    BY <1>0, <1>8 DEF Items, Item, AfterError, Failures, MildErrors, MilestoneNames
  <2> HIDE DEF v
  <2> QED BY <2>1, <2>2
<1>9. CASE e \notin RENEWAL_FAILURE_TYPES
  <2> DEFINE v == [it EXCEPT !.outcome = fo, !.reason = "unexpected_failure",
                             !.recovery = re]
  <2>1. Failure(it, e) = v
    BY Zenon, <1>0, <1>9 DEF Failure, RENEWAL_FAILURE_TYPES
  <2>2. AfterError(v, it, e)
    BY <1>0, <1>9 DEF Items, Item, AfterError, Failures, MildErrors, MilestoneNames, RENEWAL_FAILURE_TYPES
  <2> HIDE DEF v
  <2> QED BY <2>1, <2>2
<1> QED BY <1>1, <1>2, <1>3, <1>4, <1>5, <1>6, <1>7, <1>8, <1>9 DEF RENEWAL_FAILURE_TYPES

\* The except clauses around an operation.
LEMMA FailedItemFacts ==
  ASSUME NEW o, NEW it \in Items, it.outcome \in Failures, NEW e
  PROVE  AfterError(FailedItem(o, it, e), it, e)
<1>0. PICK fo \in Failures, re \in BOOLEAN :
        /\ fo = FailureOutcome(it) /\ re = RecoveryByEvidence(it)
        /\ it.change # "none" => re
  BY FailureOutcomeFacts
<1>1. CASE e = "write" /\ o = "sign_csr"
  <2> DEFINE v == [it EXCEPT !.outcome = "failure_partial", !.stage = "finalization",
                             !.reason = "recovery_required", !.recovery = TRUE]
  <2>1. FailedItem(o, it, e) = v
    BY Zenon, <1>0, <1>1 DEF FailedItem
  <2>2. AfterError(v, it, e)
    BY <1>0, <1>1 DEF Items, Item, AfterError, Failures, MildErrors, MilestoneNames
  <2> HIDE DEF v
  <2> QED BY <2>1, <2>2
<1>2. CASE e \in {"value", "write"} /\ o = "generate_csr" /\ it.ms["csr"] = "confirmed"
  <2> DEFINE v == [it EXCEPT !.outcome = "failure_partial", !.reason = "csr_failed",
                             !.recovery = TRUE]
  <2>1. FailedItem(o, it, e) = v
    BY Zenon, <1>0, <1>2 DEF FailedItem
  <2>2. AfterError(v, it, e)
    BY <1>0, <1>2 DEF Items, Item, AfterError, Failures, MildErrors, MilestoneNames
  <2> HIDE DEF v
  <2> QED BY <2>1, <2>2
<1>3. CASE e = "value" /\ o = "sign_csr"
  <2>1. FailedItem(o, it, e) = Failure(it, "signing")
    BY Zenon, <1>3 DEF FailedItem
  <2>2. AfterError(Failure(it, "signing"), it, "signing")
    BY FailureFacts
  <2> QED BY <1>3, <2>1, <2>2 DEF AfterError, MildErrors
<1>4. CASE /\ e \in {"value", "write"} /\ o \in {"generate_csr", "retrieve_csr", "install"}
           /\ ~(o = "generate_csr" /\ it.ms["csr"] = "confirmed")
  <2> DEFINE x == IF o = "install" THEN "validation_failed" ELSE "csr_failed"
             v == [it EXCEPT !.outcome = fo, !.reason = x, !.recovery = re]
  <2>1. FailedItem(o, it, e) = v
    BY Zenon, <1>0, <1>4 DEF FailedItem
  <2> HIDE DEF x
  <2>2. AfterError(v, it, e)
    BY <1>0, <1>4 DEF Items, Item, AfterError, Failures, MildErrors, MilestoneNames
  <2> HIDE DEF v
  <2> QED BY <2>1, <2>2
<1>5. CASE e = "inspection"
  <2> DEFINE v == [it EXCEPT !.reason = "inspection_failed"]
  <2>1. FailedItem(o, it, e) = v
    BY Zenon, <1>0, <1>5 DEF FailedItem
  <2>2. AfterError(v, it, e)
    BY <1>0, <1>5 DEF Items, Item, AfterError, Failures, MildErrors, MilestoneNames
  <2> HIDE DEF v
  <2> QED BY <2>1, <2>2
<1>6. CASE e = "credentials"
  <2> DEFINE v == [it EXCEPT !.stage = "configuration", !.reason = "config_invalid"]
  <2>1. FailedItem(o, it, e) = v
    BY Zenon, <1>0, <1>6 DEF FailedItem
  <2>2. AfterError(v, it, e)
    BY <1>0, <1>6 DEF Items, Item, AfterError, Failures, MildErrors, MilestoneNames
  <2> HIDE DEF v
  <2> QED BY <2>1, <2>2
<1>7. CASE e \in {"busy", "lock"}
  <2> DEFINE x == IF e = "busy" THEN "lock_busy" ELSE "lock_failed"
             v == [it EXCEPT !.outcome = "failure_pre_attempt", !.stage = "lock",
                             !.reason = x]
  <2>1. FailedItem(o, it, e) = v
    BY Zenon, <1>0, <1>7 DEF FailedItem
  <2> HIDE DEF x
  <2>2. AfterError(v, it, e)
    BY <1>0, <1>7 DEF Items, Item, AfterError, Failures, MildErrors, MilestoneNames
  <2> HIDE DEF v
  <2> QED BY <2>1, <2>2
<1>8. CASE /\ e \notin {"inspection", "credentials", "busy", "lock"}
           /\ e \in {"value", "write"} =>
                 o \notin {"sign_csr", "generate_csr", "retrieve_csr", "install"}
  <2>1. FailedItem(o, it, e) = Failure(it, e)
    BY Zenon, <1>8 DEF FailedItem
  <2> QED BY <2>1, FailureFacts
<1> QED BY <1>1, <1>2, <1>3, <1>4, <1>5, <1>6, <1>7, <1>8

\* j is the item it after the event ev of _json_progress.
AfterEvent(j, it, ev) ==
    /\ j.outcome = it.outcome /\ j.due = it.due
    /\ j.ms["installation"] = it.ms["installation"]
    /\ j.ms["activation"] = it.ms["activation"]
    /\ ev = "issuance_dispatched" => j.ms["issuance"] = "uncertain" /\ j.change = "possible"
    /\ ev = "issuance_confirmed" => j.ms["issuance"] = "confirmed" /\ j.change = "confirmed"
    /\ ev \notin {"issuance_dispatched", "issuance_confirmed"} =>
          j.ms["issuance"] = it.ms["issuance"]
    /\ ev = "csr_confirmed" => j.change = "confirmed"
    /\ ev \notin {"csr_confirmed", "issuance_dispatched", "issuance_confirmed"} =>
          j.change = it.change
    /\ it.ms["csr"] = "confirmed" \/ ev \in {"csr_confirmed", "csr_retrieved"} =>
          j.ms["csr"] = "confirmed"
    /\ ev = "live_tls_confirmed" => j.ms["live_tls"] = "confirmed"

\* _json_progress
LEMMA ProgressFacts ==
  ASSUME NEW it \in Items, NEW ev \in Events
  PROVE  AfterEvent(Progress(it, ev), it, ev)
<1>1. CASE ev = "preflight_confirmed"
  <2> DEFINE v == [it EXCEPT !.stage = "preflight"]
  <2>1. Progress(it, ev) = v
    BY Zenon, <1>1 DEF Progress
  <2>2. AfterEvent(v, it, ev)
    BY <1>1 DEF Items, Item, AfterEvent, MilestoneNames
  <2> HIDE DEF v
  <2> QED BY <2>1, <2>2
<1>2. CASE ev = "pending_csr_observed"
  <2> DEFINE v == [it EXCEPT !.observed = TRUE]
  <2>1. Progress(it, ev) = v
    BY Zenon, <1>2 DEF Progress
  <2>2. AfterEvent(v, it, ev)
    BY <1>2 DEF Items, Item, AfterEvent, MilestoneNames
  <2> HIDE DEF v
  <2> QED BY <2>1, <2>2
<1>3. CASE ev = "csr_retrieval_started"
  <2> DEFINE x == IF it.ms["csr"] = "not_attempted" THEN "failed" ELSE it.ms["csr"]
             v == [it EXCEPT !.stage = "csr_retrieval", !.ms["csr"] = x]
  <2>1. Progress(it, ev) = v
    BY Zenon, <1>3 DEF Progress
  <2>2. it.ms["csr"] = "confirmed" => x = "confirmed"
    OBVIOUS
  <2> HIDE DEF x
  <2>3. AfterEvent(v, it, ev)
    BY <1>3, <2>2 DEF Items, Item, AfterEvent, MilestoneNames
  <2> HIDE DEF v
  <2> QED BY <2>1, <2>3
<1>4. CASE ev = "csr_retrieved"
  <2> DEFINE v == [it EXCEPT !.ms["csr"] = "confirmed"]
  <2>1. Progress(it, ev) = v
    BY Zenon, <1>4 DEF Progress
  <2>2. AfterEvent(v, it, ev)
    BY <1>4 DEF Items, Item, AfterEvent, MilestoneNames
  <2> HIDE DEF v
  <2> QED BY <2>1, <2>2
<1>5. CASE ev = "signing_preparation"
  <2> DEFINE v == [it EXCEPT !.stage = "signing"]
  <2>1. Progress(it, ev) = v
    BY Zenon, <1>5 DEF Progress
  <2>2. AfterEvent(v, it, ev)
    BY <1>5 DEF Items, Item, AfterEvent, MilestoneNames
  <2> HIDE DEF v
  <2> QED BY <2>1, <2>2
<1>6. CASE ev = "csr_confirmed"
  <2> DEFINE v == [it EXCEPT !.stage = "csr_generation", !.ms["csr"] = "confirmed",
                             !.change = "confirmed"]
  <2>1. Progress(it, ev) = v
    BY Zenon, <1>6 DEF Progress
  <2>2. AfterEvent(v, it, ev)
    BY <1>6 DEF Items, Item, AfterEvent, MilestoneNames
  <2> HIDE DEF v
  <2> QED BY <2>1, <2>2
<1>7. CASE ev = "issuance_dispatched"
  <2> DEFINE v == [it EXCEPT !.stage = "signing", !.ms["issuance"] = "uncertain",
                             !.change = "possible"]
  <2>1. Progress(it, ev) = v
    BY Zenon, <1>7 DEF Progress
  <2>2. AfterEvent(v, it, ev)
    BY <1>7 DEF Items, Item, AfterEvent, MilestoneNames
  <2> HIDE DEF v
  <2> QED BY <2>1, <2>2
<1>8. CASE ev = "issuance_confirmed"
  <2> DEFINE v == [it EXCEPT !.ms["issuance"] = "confirmed", !.change = "confirmed"]
  <2>1. Progress(it, ev) = v
    BY Zenon, <1>8 DEF Progress
  <2>2. AfterEvent(v, it, ev)
    BY <1>8 DEF Items, Item, AfterEvent, MilestoneNames
  <2> HIDE DEF v
  <2> QED BY <2>1, <2>2
<1>9. CASE ev \in {"certificate_retrieved", "issued_validation_started", "issued_validated"}
  <2> DEFINE v == [it EXCEPT !.stage = "issued_validation"]
  <2>1. Progress(it, ev) = v
    BY Zenon, <1>9 DEF Progress
  <2>2. AfterEvent(v, it, ev)
    BY <1>9 DEF Items, Item, AfterEvent, MilestoneNames
  <2> HIDE DEF v
  <2> QED BY <2>1, <2>2
<1>10. CASE ev = "installation_prepared"
  <2> DEFINE v == [it EXCEPT !.stage = "installation"]
  <2>1. Progress(it, ev) = v
    BY Zenon, <1>10 DEF Progress
  <2>2. AfterEvent(v, it, ev)
    BY <1>10 DEF Items, Item, AfterEvent, MilestoneNames
  <2> HIDE DEF v
  <2> QED BY <2>1, <2>2
<1>11. CASE ev = "live_tls_confirmed"
  <2> DEFINE v == [it EXCEPT !.stage = "live_verification",
                             !.ms["live_tls"] = "confirmed"]
  <2>1. Progress(it, ev) = v
    BY Zenon, <1>11 DEF Progress
  <2>2. AfterEvent(v, it, ev)
    BY <1>11 DEF Items, Item, AfterEvent, MilestoneNames
  <2> HIDE DEF v
  <2> QED BY <2>1, <2>2
<1> QED BY <1>1, <1>2, <1>3, <1>4, <1>5, <1>6, <1>7, <1>8, <1>9, <1>10, <1>11 DEF
           Events

\* installation_confirmed
LEMMA InstallationConfirmedFacts ==
  ASSUME NEW it \in Items, NEW x \in Certs \cup {NoCert}
  PROVE  LET j == InstallationConfirmed(it, x) IN
         /\ j.outcome = it.outcome /\ j.due = it.due /\ j.change = "confirmed"
         /\ j.ms["installation"] = "confirmed" /\ j.ms["activation"] = "confirmed"
         /\ j.ms["issuance"] = it.ms["issuance"] /\ j.ms["csr"] = it.ms["csr"]
  BY DEF InstallationConfirmed, Items, Item, MilestoneNames

\* What is recorded when an operation begins.
LEMMA BodyItemFacts ==
  ASSUME NEW it \in Items, NEW o \in AllOps
  PROVE  LET j == BodyItem(o, it) IN
         /\ j.outcome = it.outcome /\ j.due = it.due /\ j.change = it.change
         /\ j.ms["issuance"] = it.ms["issuance"]
         /\ j.ms["installation"] = it.ms["installation"]
         /\ it.ms["csr"] = "confirmed" => j.ms["csr"] = "confirmed"
<1> DEFINE at(s) == [it EXCEPT !.stage = s]
           OK(j) == /\ j.outcome = it.outcome /\ j.due = it.due /\ j.change = it.change
                    /\ j.ms["issuance"] = it.ms["issuance"]
                    /\ j.ms["installation"] = it.ms["installation"]
                    /\ it.ms["csr"] = "confirmed" => j.ms["csr"] = "confirmed"
<1>1. ASSUME NEW s PROVE OK(at(s))
  BY DEF Items, Item
<1>2. CASE o \in {"retrieve_csr", "sign_csr"}
  <2>1. BodyItem(o, it) = Progress(it, "csr_retrieval_started")
    BY Zenon, <1>2 DEF BodyItem
  <2>2. AfterEvent(Progress(it, "csr_retrieval_started"), it, "csr_retrieval_started")
    BY ProgressFacts DEF Events
  <2> QED BY <2>1, <2>2 DEF AfterEvent
<1>3. CASE o \notin {"retrieve_csr", "sign_csr"}
  <2>1. \E s : BodyItem(o, it) = at(s)
    BY Zenon, <1>3 DEF BodyItem, AllOps
  <2> HIDE DEF at
  <2> QED BY <1>1, <2>1
<1> QED BY <1>2, <1>3

\* The LifecycleLockReleaseError handler changes what happens next, not what happened.
LEMMA ReleaseFailedFacts ==
  ASSUME NEW it \in Items
  PROVE  LET j == ReleaseFailedItem(it) IN
         /\ j.outcome \in Failures /\ j.recovery /\ j.change = it.change /\ j.due = it.due
         /\ j.ms["issuance"] = it.ms["issuance"]
         /\ j.ms["installation"] = it.ms["installation"]
<1>0. PICK fo \in Failures : fo = FailureOutcome(it)
  BY FailureOutcomeFacts
<1> DEFINE u == [it EXCEPT !.recovery = TRUE]
           v == [it EXCEPT !.stage = "lock", !.reason = "lock_failed", !.outcome = fo,
                           !.recovery = TRUE]
           OK(j) == /\ j.recovery /\ j.change = it.change /\ j.due = it.due
                    /\ j.ms["issuance"] = it.ms["issuance"]
                    /\ j.ms["installation"] = it.ms["installation"]
<1>1. OK(u) /\ u.outcome = it.outcome
  BY DEF Items, Item
<1>2. OK(v) /\ v.outcome = fo
  BY DEF Items, Item
<1>3. CASE it.outcome \in Failures /\ it.reason # "null"
  <2>1. ReleaseFailedItem(it) = u
    BY <1>3, Zenon DEF ReleaseFailedItem
  <2> HIDE DEF u
  <2> QED BY <1>1, <1>3, <2>1
<1>4. CASE ~(it.outcome \in Failures /\ it.reason # "null")
  <2>1. ReleaseFailedItem(it) = v
    BY <1>0, <1>4, Zenon DEF ReleaseFailedItem
  <2> HIDE DEF v
  <2> QED BY <1>2, <2>1
<1> QED BY <1>3, <1>4

\* A completed operation.
LEMMA SucceededItemFacts ==
  ASSUME NEW it \in Items, NEW o
  PROVE  LET j == SucceededItem(it, o) IN
         /\ j.outcome = o /\ j.ms = it.ms /\ j.change = it.change /\ j.due = it.due
  BY DEF SucceededItem, Items, Item

\* A new item reports nothing.
LEMMA NewItemFacts ==
  LET j == NewItem(NoCert) IN
  /\ j.outcome = "failure_pre_attempt" /\ j.change = "none" /\ j.due = "null"
  /\ \A m \in MilestoneNames : j.ms[m] = "not_attempted"
  BY DEF NewItem

-----------------------------------------------------------------------------
(* Steps of one invocation.                                                *)

\* Nothing that the report of q depends on changes.
Stays(q) ==
    /\ pc'[q] = pc[q] /\ op'[q] = op[q] /\ mode'[q] = mode[q] /\ item'[q] = item[q]
    /\ trace'[q] = trace[q] /\ err'[q] = err[q] /\ name'[q] = name[q] /\ cert'[q] = cert[q]

Alone(r) == \A q \in Runs : q # r => Stays(q)

\* r has history t after the step, and no other history changes.
Trail(r, t) == trace'[r] = t /\ \A q \in Runs : q # r => trace'[q] = trace[q]

\* What the step knows of the names and certificates of the other invocations.
Own(r) == \A q \in Runs : q # r => name'[q] = name[q] /\ cert'[q] = cert[q]

\* r has taken a step after which its part of the invariant holds.
Reports(r) == Alone(r) /\ RunOK(r)' /\ ServedOK(r)'

\* An exception e that meets the item it and the history t ends in a true report.
MayRaise(r, it, t, e) ==
    /\ e # "none" /\ TextTrue(op[r], t, e)
    /\ Json(r) =>
          /\ it.outcome = "failure_pre_attempt" /\ Supported(it, t)
          /\ e # "install" /\ it.ms["installation"] = "not_attempted" => "install" \notin t
          /\ e \notin {"csr", "install"} /\ it.change = "none" => t \cap Effects = {}
          /\ e \in MildErrors => t \cap Effects = {}

\* Going on to step l with the item it and the history t keeps the report true.
MayProceed(r, it, l, t) ==
    /\ l \notin Over \cup {"new"} /\ TraceOK(op[r], l, t, "none")
    /\ Json(r) => ItemOK(op[r], l, it, t, "none")

\* The steps that ServedOK speaks of.
Watched == {"inst_validate", "inst_recheck", "inst_paste", "inst_confirm", "inst_verify",
            "write"} \cup Over

\* The parts of the invariant.
LEMMA ReportFacts ==
  ASSUME ReportInv, NEW r \in Runs
  PROVE  /\ RenewalInv /\ RunOK(r) /\ ServedOK(r) /\ Dev(r) \in Devices /\ SwitchOK(Dev(r))
         /\ item[r] \in Items
         /\ pc[r] \notin Over => err[r] = "none"
<1>1. RenewalInv /\ RunOK(r) /\ ServedOK(r)
  BY DEF ReportInv
<1>2. Dev(r) \in Devices /\ item[r] \in Items
  BY <1>1, RunFacts
<1>3. SwitchOK(Dev(r))
  BY <1>2 DEF ReportInv
<1>4. pc[r] \notin Over => err[r] = "none"
  BY <1>1 DEF RunOK, TraceOK
<1> QED BY <1>1, <1>2, <1>3, <1>4

\* A step without an entry in the history.
LEMMA QuietTrail ==
  ASSUME NEW r \in Runs, UNCHANGED trace
  PROVE  Trail(r, trace[r])
  BY DEF Trail

\* A step with one.
LEMMA SawTrail ==
  ASSUME RenewalInv, NEW r \in Runs, NEW w, Saw(r, w)
  PROVE  Trail(r, trace[r] \cup {w})
<1>1. trace \in [Runs -> SUBSET (Effects \cup {"saw_pending"})]
  BY DEF RenewalInv, TypeOK
<1> QED BY <1>1 DEF Trail, Saw

\* What an exception leaves behind.
LEMMA RaiseIs ==
  ASSUME RenewalInv, NEW r \in Runs, NEW it, NEW e, NEW t, Raise(r, it, e), Trail(r, t)
  PROVE  /\ Alone(r) /\ pc'[r] \in Over /\ err'[r] = e /\ trace'[r] = t
         /\ op'[r] = op[r] /\ mode'[r] = mode[r]
         /\ Json(r) => item'[r] = FailedItem(op[r], it, e)
<1>1. \A q \in Runs : q # r => pc'[q] = pc[q] /\ err'[q] = err[q] /\ item'[q] = item[q]
  BY DEF Raise, EndBody, Goto, SetItem, RenewalInv, TypeOK
<1>2. pc'[r] \in Over
  BY DEF Raise, EndBody, Goto, Over, RenewalInv, TypeOK
<1>3. err'[r] = e
  BY DEF Raise, RenewalInv, TypeOK
<1>4. Json(r) => item'[r] = FailedItem(op[r], it, e)
  BY DEF Raise, SetItem, RenewalInv, TypeOK
<1>5. UNCHANGED <<op, mode, name, cert>>
  BY DEF Raise
<1> QED BY <1>1, <1>2, <1>3, <1>4, <1>5 DEF Alone, Stays, Trail

\* What a success leaves behind.
LEMMA SucceedIs ==
  ASSUME RenewalInv, NEW r \in Runs, NEW it, NEW o, NEW t, Succeed(r, it, o), Trail(r, t)
  PROVE  /\ Alone(r) /\ pc'[r] \in Over /\ err'[r] = err[r] /\ trace'[r] = t
         /\ op'[r] = op[r] /\ mode'[r] = mode[r] /\ cert'[r] = cert[r]
         /\ Json(r) => item'[r] = SucceededItem(it, o)
         /\ ~Json(r) => item'[r] = it
<1>1. \A q \in Runs : q # r => pc'[q] = pc[q] /\ item'[q] = item[q]
  BY DEF Succeed, EndBody, Goto, SetItem, RenewalInv, TypeOK
<1>2. pc'[r] \in Over
  BY DEF Succeed, EndBody, Goto, Over, RenewalInv, TypeOK
<1>3. /\ Json(r) => item'[r] = SucceededItem(it, o)
      /\ ~Json(r) => item'[r] = it
  BY DEF Succeed, SetItem, RenewalInv, TypeOK
<1>4. UNCHANGED <<op, mode, name, cert, err>>
  BY DEF Succeed
<1> QED BY <1>1, <1>2, <1>3, <1>4 DEF Alone, Stays, Trail

\* What a step forward leaves behind.
LEMMA ProceedIs ==
  ASSUME RenewalInv, NEW r \in Runs, NEW it, NEW l, NEW t, Proceed(r, it, l), Trail(r, t),
         Own(r)
  PROVE  /\ Alone(r) /\ pc'[r] = l /\ err'[r] = err[r] /\ trace'[r] = t
         /\ op'[r] = op[r] /\ mode'[r] = mode[r] /\ item'[r] = it
<1>1. \A q \in Runs : q # r => pc'[q] = pc[q] /\ item'[q] = item[q]
  BY DEF Proceed, Goto, SetItem, RenewalInv, TypeOK
<1>2. pc'[r] = l /\ item'[r] = it
  BY DEF Proceed, Goto, SetItem, RenewalInv, TypeOK
<1>3. UNCHANGED <<op, mode, err>>
  BY DEF Proceed
<1> QED BY <1>1, <1>2, <1>3 DEF Alone, Stays, Trail, Own

\* A failure is reported truly.
LEMMA RaiseReports ==
  ASSUME RenewalInv, NEW r \in Runs, NEW it \in Items, NEW e, NEW t,
         Raise(r, it, e), Trail(r, t), MayRaise(r, it, t, e)
  PROVE  Reports(r)
<1>1. /\ Alone(r) /\ pc'[r] \in Over /\ err'[r] = e /\ trace'[r] = t
      /\ op'[r] = op[r] /\ mode'[r] = mode[r]
      /\ Json(r) => item'[r] = FailedItem(op[r], it, e)
  BY RaiseIs
<1>2. TraceOK(op[r], pc'[r], t, e)
  BY <1>1 DEF TraceOK, MayRaise, Over, LatePCs, EarlyPCs
<1>3. ASSUME Json(r) PROVE ItemOK(op[r], pc'[r], item'[r], t, e)
  <2> DEFINE j == FailedItem(op[r], it, e)
  <2>1. it.outcome \in Failures
    BY <1>3 DEF MayRaise, Failures
  <2>2. AfterError(j, it, e)
    BY <2>1, FailedItemFacts
  <2>3. item'[r] = j
    BY <1>1, <1>3
  <2> HIDE DEF j
  <2>4. Supported(j, t)
    BY <1>3, <2>2 DEF AfterError, MayRaise, Supported
  <2>5. Passed(op[r], pc'[r], j)
    BY <1>1 DEF Passed, Over, InstallPCs
  <2>6. j.change = "none" => t \cap Effects = {}
    BY <1>3, <2>2 DEF AfterError, MayRaise
  <2>7. j.ms["installation"] = "not_attempted" => "install" \notin t
    BY <1>3, <2>2 DEF AfterError, MayRaise
  <2>8. Promise(op[r], j, t, e)
    BY <1>3, <2>2 DEF AfterError, MayRaise, Promise, Failures
  <2> QED BY <1>1, <2>3, <2>4, <2>5, <2>6, <2>7, <2>8 DEF ItemOK
<1>4. pc'[r] # "new"
  BY <1>1 DEF Over
<1>5. RunOK(r)'
  BY <1>1, <1>2, <1>3, <1>4 DEF RunOK, Json
<1>6. ServedOK(r)'
  BY <1>1 DEF ServedOK, Over, MayRaise
<1> QED BY <1>1, <1>5, <1>6 DEF Reports

\* A step forward keeps the report true.
LEMMA ProceedReports ==
  ASSUME ReportInv, NEW r \in Runs, NEW it, NEW l, NEW t, pc[r] \notin Over,
         Proceed(r, it, l), Trail(r, t), Own(r), MayProceed(r, it, l, t),
         l \in Watched => ServedOK(r)'
  PROVE  Reports(r)
<1>1. RenewalInv /\ err[r] = "none"
  BY ReportFacts
<1>2. /\ Alone(r) /\ pc'[r] = l /\ err'[r] = "none" /\ trace'[r] = t
      /\ op'[r] = op[r] /\ mode'[r] = mode[r] /\ item'[r] = it
  BY <1>1, ProceedIs
<1>3. RunOK(r)'
  BY <1>2 DEF RunOK, Json, MayProceed
<1>4. l \notin Watched => ServedOK(r)'
  BY <1>2 DEF ServedOK, Watched, Over
<1> QED BY <1>2, <1>3, <1>4 DEF Reports

\* A success is reported truly.
LEMMA SucceedReports ==
  ASSUME ReportInv, NEW r \in Runs, NEW it \in Items, NEW o, NEW t, pc[r] \notin Over,
         Succeed(r, it, o), Trail(r, t), TextTrue(op[r], t, "none"),
         o \notin Failures,
         Json(r) => /\ Supported(it, t)
                    /\ it.change = "none" => t \cap Effects = {}
                    /\ it.ms["installation"] = "not_attempted" => "install" \notin t
                    /\ o = "success_changed" =>
                          /\ "install" \in t
                          /\ \A m \in MilestoneNames :
                                it.ms[m] = "confirmed" \/ (m = "issuance" /\ op[r] = "install"),
         op[r] \in RenewOps \cup {"install"} /\ it.due # "false" =>
            active'[Dev(r)].cert = cert[r]
  PROVE  Reports(r)
<1>0. RenewalInv /\ err[r] = "none"
  BY ReportFacts
<1>1. /\ Alone(r) /\ pc'[r] \in Over /\ err'[r] = "none" /\ trace'[r] = t
      /\ op'[r] = op[r] /\ mode'[r] = mode[r] /\ cert'[r] = cert[r]
      /\ Json(r) => item'[r] = SucceededItem(it, o)
      /\ ~Json(r) => item'[r] = it
  <2>1. /\ Alone(r) /\ pc'[r] \in Over /\ err'[r] = err[r] /\ trace'[r] = t
        /\ op'[r] = op[r] /\ mode'[r] = mode[r] /\ cert'[r] = cert[r]
        /\ Json(r) => item'[r] = SucceededItem(it, o)
        /\ ~Json(r) => item'[r] = it
    BY <1>0, SucceedIs, Zenon
  <2> QED BY <1>0, <2>1
<1>2. TraceOK(op[r], pc'[r], t, "none")
  BY <1>1 DEF TraceOK, Over, LatePCs, EarlyPCs
<1>3. PICK j : /\ j = SucceededItem(it, o)
               /\ j.outcome = o /\ j.ms = it.ms /\ j.change = it.change /\ j.due = it.due
  BY SucceededItemFacts
<1>4. ASSUME Json(r) PROVE ItemOK(op[r], pc'[r], j, t, "none")
  <2>1. Supported(j, t)
    BY <1>3, <1>4 DEF Supported
  <2>2. Passed(op[r], pc'[r], j)
    BY <1>1 DEF Passed, Over, InstallPCs
  <2>3. Promise(op[r], j, t, "none")
    BY <1>3, <1>4 DEF Promise
  <2> QED BY <1>1, <1>3, <1>4, <2>1, <2>2, <2>3 DEF ItemOK
<1>5. item'[r].due = it.due
  BY <1>1, <1>3
<1>6. pc'[r] # "new"
  BY <1>1 DEF Over
<1>7. RunOK(r)'
  BY <1>1, <1>2, <1>3, <1>4, <1>6 DEF RunOK, Json
<1>8. ServedOK(r)'
  BY <1>1, <1>5 DEF ServedOK, Over, Dev
<1> QED BY <1>1, <1>7, <1>8 DEF Reports

\* The reports of the other invocations do not change, and neither does the switch.
LEMMA OthersKeep ==
  ASSUME ReportInv, NEW r \in Runs, Alone(r), NEW q \in Runs, q # r
  PROVE  RunOK(q)' /\ (active'[Dev(q)] = active[Dev(q)] => ServedOK(q)')
<1>1. RunOK(q) /\ ServedOK(q) /\ Stays(q)
  BY DEF ReportInv, Alone
<1>2. RunOK(q)'
  BY <1>1 DEF RunOK, Stays, Json
<1>3. ASSUME active'[Dev(q)] = active[Dev(q)] PROVE ServedOK(q)'
  BY <1>1, <1>3 DEF ServedOK, Stays, Dev
<1> QED BY <1>2, <1>3

\* A step that does not change the switch.
LEMMA QuietReport ==
  ASSUME ReportInv, RenewalInv', NEW r \in Runs, Reports(r), UNCHANGED <<pend, active>>,
         fresh' = fresh \/ fresh' = fresh + 1
  PROVE  ReportInv'
<1>1. \A q \in Runs : RunOK(q)' /\ ServedOK(q)'
  BY OthersKeep DEF Reports
<1>2. \A d \in Devices : active[d].cert.key \in Nat /\ fresh \in Nat
  BY DEF ReportInv, RenewalInv, TypeOK, Installed, Certs
<1>3. \A d \in Devices : SwitchOK(d)'
  BY <1>2 DEF ReportInv, SwitchOK
<1> QED BY <1>1, <1>3 DEF ReportInv

-----------------------------------------------------------------------------
(* One lemma per operation: what it leaves in the report is true.          *)

\* Before anything was changed every failure may be reported.
LEMMA EarlyRaise ==
  ASSUME ReportInv, NEW r \in Runs, pc[r] \in EarlyPCs, NEW e, e # "none",
         Raise(r, item[r], e), UNCHANGED trace \/ Saw(r, "saw_pending")
  PROVE  Reports(r)
<1>1. RenewalInv /\ RunOK(r) /\ item[r] \in Items
  BY ReportFacts
<1>2. PICK w \in SUBSET {"saw_pending"} : Trail(r, trace[r] \cup w)
  <2>1. CASE UNCHANGED trace
    <3>1. Trail(r, trace[r]) /\ trace[r] \cup {} = trace[r]
      BY <2>1, QuietTrail
    <3> QED BY <3>1
  <2>2. CASE Saw(r, "saw_pending")
    BY <1>1, <2>2, SawTrail
  <2> QED BY <2>1, <2>2
<1> DEFINE t == trace[r] \cup w
<1>3. trace[r] \cap Effects = {}
  BY <1>1 DEF RunOK, TraceOK
<1>4. t \cap Effects = {}
  BY <1>3 DEF Effects
<1>5. \A x \in Effects : x \notin t
  BY <1>4
<1>6. \A x \in Effects : x \notin trace[r]
  BY <1>3
<1> HIDE DEF t
<1>7. TextTrue(op[r], t, e)
  BY <1>4, <1>5 DEF TextTrue, Effects
<1>8. ASSUME Json(r) PROVE item[r].outcome = "failure_pre_attempt" /\ Supported(item[r], t)
  <2>1. ItemOK(op[r], pc[r], item[r], trace[r], err[r])
    BY <1>1, <1>8 DEF RunOK
  <2>2. item[r].outcome = "failure_pre_attempt" /\ Supported(item[r], trace[r])
    BY <2>1 DEF ItemOK, EarlyPCs, Over
  <2> QED BY <1>5, <1>6, <2>2 DEF Supported, Effects
<1>9. MayRaise(r, item[r], t, e)
  BY <1>4, <1>5, <1>7, <1>8 DEF MayRaise, Effects
<1>10. Trail(r, t)
  BY <1>2 DEF t
<1> QED BY <1>1, <1>9, <1>10, RaiseReports

\* The report of j is that of it, as far as the report must be true.
Alike(j, it) ==
    /\ j.outcome = it.outcome /\ j.change = it.change /\ j.due = it.due
    /\ j.ms["issuance"] = it.ms["issuance"]
    /\ j.ms["installation"] = it.ms["installation"]
    /\ it.ms["csr"] = "confirmed" => j.ms["csr"] = "confirmed"

\* Between the steps at which the item lags behind, a failure that is not one of the
\* early ones may be reported.
LEMMA LaterRaise ==
  ASSUME ReportInv, NEW r \in Runs, pc[r] \notin Over \cup {"gen_fetch", "inst_verify"},
         NEW it \in Items, Json(r) => Alike(it, item[r]),
         NEW e, e \notin MildErrors \cup {"none"}, TextTrue(op[r], trace[r], e),
         Raise(r, it, e), UNCHANGED trace
  PROVE  Reports(r)
<1>1. RenewalInv /\ RunOK(r)
  BY ReportFacts
<1>2. ASSUME Json(r)
      PROVE  /\ it.outcome = "failure_pre_attempt" /\ Supported(it, trace[r])
             /\ it.ms["installation"] = "not_attempted" => "install" \notin trace[r]
             /\ it.change = "none" => trace[r] \cap Effects = {}
  <2>1. ItemOK(op[r], pc[r], item[r], trace[r], err[r])
    BY <1>1, <1>2 DEF RunOK
  <2> QED BY <1>2, <2>1 DEF ItemOK, Alike, Supported
<1>3. MayRaise(r, it, trace[r], e)
  BY <1>2 DEF MayRaise
<1>4. Trail(r, trace[r])
  BY QuietTrail
<1> QED BY <1>1, <1>3, <1>4, RaiseReports

\* What the messages say is true before the installation.
LEMMA TextBeforeInstall ==
  ASSUME ReportInv, NEW r \in Runs, pc[r] \notin LatePCs,
         NEW e, e \notin {"preflight", "pending", "csr_pre"}
  PROVE  TextTrue(op[r], trace[r], e)
  BY ReportFacts DEF RunOK, TraceOK, TextTrue

\* An item is like itself, and like it is after the events that report no change.
LEMMA AlikeNotes ==
  ASSUME NEW r \in Runs, NEW it \in Items, NEW j \in Items, Alike(j, it),
         NEW ev \in Events \ {"csr_confirmed", "issuance_dispatched", "issuance_confirmed"}
  PROVE  /\ Alike(it, it)
         /\ Note(r, j, ev) \in Items /\ Alike(Note(r, j, ev), it)
         /\ InstallNote(r, j, ev) \in Items /\ Alike(InstallNote(r, j, ev), it)
         /\ Json(r) /\ ev = "csr_retrieved" => Note(r, j, ev).ms["csr"] = "confirmed"
<1>1. Note(r, j, ev) \in Items /\ InstallNote(r, j, ev) \in Items
  BY NoteType
<1>2. AfterEvent(Progress(j, ev), j, ev)
  BY ProgressFacts
<1>3. Alike(Progress(j, ev), it)
  BY <1>2 DEF AfterEvent, Alike
<1>4. Alike(Note(r, j, ev), it) /\ Alike(InstallNote(r, j, ev), it)
  BY <1>3 DEF Note, InstallNote
<1>5. Json(r) /\ ev = "csr_retrieved" => Note(r, j, ev).ms["csr"] = "confirmed"
  BY <1>2 DEF AfterEvent, Note
<1> QED BY <1>1, <1>4, <1>5 DEF Alike

\* Going on without a change of the facts, between two steps at which the item does not
\* lag behind.
LEMMA GoOn ==
  ASSUME ReportInv, NEW r \in Runs, NEW l, NEW it \in Items,
         pc[r] \notin LatePCs \cup {"gen_fetch", "inst_verify"},
         l \notin LatePCs \cup {"new", "gen_fetch"},
         l \in EarlyPCs => pc[r] \in EarlyPCs,
         Json(r) => Alike(it, item[r]),
         Json(r) => Passed(op[r], l, it),
         l \in Watched => ServedOK(r)',
         Proceed(r, it, l), UNCHANGED trace, Own(r)
  PROVE  Reports(r)
<1>1. RenewalInv /\ RunOK(r) /\ pc[r] \notin Over
  BY ReportFacts DEF LatePCs
<1>2. TraceOK(op[r], l, trace[r], "none")
  BY <1>1 DEF RunOK, TraceOK, LatePCs
<1>3. ASSUME Json(r) PROVE ItemOK(op[r], l, it, trace[r], "none")
  <2>1. ItemOK(op[r], pc[r], item[r], trace[r], err[r])
    BY <1>1, <1>3 DEF RunOK
  <2>2. Supported(it, trace[r])
    BY <1>3, <2>1 DEF ItemOK, Alike, Supported
  <2>3. /\ it.outcome = "failure_pre_attempt"
        /\ it.change = "none" => trace[r] \cap Effects = {}
        /\ it.ms["installation"] = "not_attempted" => "install" \notin trace[r]
    BY <1>1, <1>3, <2>1 DEF ItemOK, Alike
  <2>4. l \notin Over
    BY DEF LatePCs
  <2> QED BY <1>3, <2>2, <2>3, <2>4 DEF ItemOK
<1>4. MayProceed(r, it, l, trace[r])
  BY <1>2, <1>3 DEF MayProceed, LatePCs
<1>5. Trail(r, trace[r])
  BY QuietTrail
<1> QED BY <1>1, <1>4, <1>5, ProceedReports

\* The body of an operation begins with a true report.
LEMMA EnterReports ==
  ASSUME ReportInv, NEW r \in Runs, pc[r] \in {"creds", "lock"}, EnterBody(r),
         UNCHANGED <<name, cert, trace>>
  PROVE  Reports(r)
<1> DEFINE it == IF Json(r) THEN BodyItem(op[r], item[r]) ELSE item[r]
           l == BodyStart(op[r])
<1>1. RenewalInv /\ item[r] \in Items /\ op[r] \in AllOps
  BY ReportFacts, RunFacts
<1>2. it \in Items
  BY <1>1, BodyItemType
<1>3. Json(r) => Alike(it, item[r])
  BY <1>1, BodyItemFacts DEF Alike
<1>4. /\ l \in {"check", "preflight", "gen_inspect", "fetch_observe", "inst_observe"}
      /\ l = "inst_observe" => op[r] = "install"
  <2>1. CASE op[r] \in {"inspect", "renew_due"}
    BY Zenon, <2>1 DEF BodyStart
  <2>2. CASE op[r] = "renew_now"
    BY Zenon, <2>2 DEF BodyStart
  <2>3. CASE op[r] = "generate_csr"
    BY Zenon, <2>3 DEF BodyStart
  <2>4. CASE op[r] \in {"retrieve_csr", "sign_csr"}
    BY Zenon, <2>4 DEF BodyStart
  <2>5. CASE op[r] = "install"
    BY Zenon, <2>5 DEF BodyStart
  <2> QED BY <1>1, <2>1, <2>2, <2>3, <2>4, <2>5 DEF AllOps
<1>5. Proceed(r, it, l)
  BY DEF EnterBody
<1> HIDE DEF it, l
<1>6. Passed(op[r], l, it)
  BY <1>4 DEF Passed, InstallPCs
<1>7. Own(r)
  BY DEF Own
<1>8. /\ pc[r] \notin LatePCs \cup {"gen_fetch", "inst_verify"} /\ pc[r] \in EarlyPCs
      /\ l \notin LatePCs \cup {"new", "gen_fetch"} /\ l \notin Watched
  BY <1>4 DEF LatePCs, EarlyPCs, Watched, Over
<1> QED BY <1>2, <1>3, <1>5, <1>6, <1>7, <1>8, GoOn

\* get_switch_credentials and lifecycle_lock before the body.
LEMMA StartupReports ==
  ASSUME ReportInv, NEW r \in Runs, NEW l \in {"creds", "lock"}, pc[r] \in {"creds", "lock"},
         Proceed(r, item[r], l), UNCHANGED <<name, cert, trace>>
  PROVE  Reports(r)
<1>1. item[r] \in Items
  BY ReportFacts
<1>2. Passed(op[r], l, item[r]) /\ Alike(item[r], item[r])
  BY DEF Passed, InstallPCs, Alike
<1>3. Own(r)
  BY DEF Own
<1>4. /\ pc[r] \notin LatePCs \cup {"gen_fetch", "inst_verify"} /\ pc[r] \in EarlyPCs
      /\ l \notin LatePCs \cup {"new", "gen_fetch"} /\ l \notin Watched
  BY DEF LatePCs, EarlyPCs, Watched, Over
<1> QED BY <1>1, <1>2, <1>3, <1>4, GoOn

\* Credentials
LEMMA CredentialsReports ==
  ASSUME ReportInv, NEW r \in Runs, Credentials(r)
  PROVE  Reports(r)
<1>1. pc[r] = "creds" /\ UNCHANGED trace /\ pc[r] \in EarlyPCs
  BY DEF Credentials, EarlyPCs
<1>2. CASE Raise(r, item[r], "credentials")
  BY <1>1, <1>2, EarlyRaise
<1>3. CASE Proceed(r, item[r], "lock") /\ UNCHANGED <<name, key, cert>>
  BY <1>1, <1>3, StartupReports
<1>4. CASE EnterBody(r) /\ UNCHANGED <<name, key, cert>>
  BY <1>1, <1>4, EnterReports
<1> QED BY <1>2, <1>3, <1>4 DEF Credentials

\* TakeLock
LEMMA TakeLockReports ==
  ASSUME ReportInv, NEW r \in Runs, TakeLock(r)
  PROVE  Reports(r)
<1>1. pc[r] = "lock" /\ UNCHANGED <<name, cert, trace>>
  BY DEF TakeLock
<1>2. EnterBody(r) \/ Proceed(r, item[r], "creds")
  BY DEF TakeLock
<1> QED BY <1>1, <1>2, EnterReports, StartupReports

\* LockFails
LEMMA LockFailsReports ==
  ASSUME ReportInv, NEW r \in Runs, LockFails(r)
  PROVE  Reports(r)
<1>1. pc[r] = "lock" /\ UNCHANGED trace /\ pc[r] \in EarlyPCs
  BY DEF LockFails, EarlyPCs
<1>2. Raise(r, item[r], "busy") \/ Raise(r, item[r], "lock")
  BY DEF LockFails
<1> QED BY <1>1, <1>2, EarlyRaise

\* check_switch
LEMMA CheckReports ==
  ASSUME ReportInv, NEW r \in Runs, Check(r)
  PROVE  Reports(r)
<1>1. /\ pc[r] = "check" /\ pc[r] \in EarlyPCs /\ pc[r] \notin Over
      /\ pc[r] \notin LatePCs \cup {"gen_fetch", "inst_verify"}
  BY DEF Check, EarlyPCs, Over, LatePCs
<1>2. RenewalInv /\ RunOK(r) /\ item[r] \in Items /\ err[r] = "none"
  BY <1>1, ReportFacts
<1>3. trace[r] \cap Effects = {}
  BY <1>1, <1>2 DEF RunOK, TraceOK
<1>4. \A x \in Effects : x \notin trace[r]
  BY <1>3
<1>5. Json(r) => Supported(item[r], trace[r])
  BY <1>2 DEF RunOK, ItemOK
<1>6. CASE Raise(r, item[r], "inspection") /\ (UNCHANGED trace \/ Saw(r, "saw_pending"))
  BY <1>1, <1>6, EarlyRaise
<1>7. CASE /\ Succeed(r, [item[r] EXCEPT !.due = "false"], "success_no_change")
           /\ UNCHANGED trace
  <2> DEFINE it == [item[r] EXCEPT !.due = "false"]
  <2>1. it \in Items /\ it.due = "false"
    BY <1>2 DEF Items, Item
  <2>2. it.ms = item[r].ms /\ it.change = item[r].change
    BY <1>2 DEF Items, Item
  <2>3. Succeed(r, it, "success_no_change")
    BY <1>7
  <2> HIDE DEF it
  <2>4. Json(r) => Supported(it, trace[r])
    BY <1>5, <2>2 DEF Supported
  <2>5. TextTrue(op[r], trace[r], "none") /\ Trail(r, trace[r])
    BY <1>7, QuietTrail DEF TextTrue
  <2>6. "success_no_change" \notin Failures /\ "success_no_change" # "success_changed"
        /\ "install" \notin trace[r]
    BY <1>4 DEF Failures, Effects
  <2> QED BY <1>1, <1>3, <2>1, <2>3, <2>4, <2>5, <2>6, SucceedReports
<1>8. CASE /\ op[r] = "inspect"
           /\ SetItem(r, [item[r] EXCEPT !.due = "true", !.outcome = "attention_due",
                                         !.stage = "decision"])
           /\ EndBody(r)
           /\ UNCHANGED <<op, mode, name, key, cert, err, trace>>
  <2> DEFINE it == [item[r] EXCEPT !.due = "true", !.outcome = "attention_due",
                                   !.stage = "decision"]
  <2>1. it.ms = item[r].ms /\ it.change = item[r].change /\ it.outcome = "attention_due"
    BY <1>2 DEF Items, Item
  <2>2. /\ pc'[r] \in Over /\ item'[r] = it
        /\ \A q \in Runs : q # r => pc'[q] = pc[q] /\ item'[q] = item[q]
    BY <1>2, <1>8 DEF SetItem, EndBody, Goto, Over, RenewalInv, TypeOK
  <2> HIDE DEF it
  <2>3. Alone(r)
    BY <1>8, <2>2 DEF Alone, Stays
  <2>4. TraceOK(op[r], pc'[r], trace[r], "none")
    BY <2>2 DEF TraceOK, TextTrue, Over, LatePCs, EarlyPCs
  <2>5. ASSUME Json(r) PROVE ItemOK(op[r], pc'[r], it, trace[r], "none")
    <3>1. Supported(it, trace[r])
      BY <1>5, <2>1, <2>5 DEF Supported
    <3>2. Passed(op[r], pc'[r], it)
      BY <2>2 DEF Passed, Over, InstallPCs
    <3>3. Promise(op[r], it, trace[r], "none")
      BY <1>3, <2>1 DEF Promise
    <3>4. "install" \notin trace[r]
      BY <1>4 DEF Effects
    <3> QED BY <1>3, <2>2, <3>1, <3>2, <3>3, <3>4 DEF ItemOK
  <2>6. pc'[r] # "new"
    BY <2>2 DEF Over
  <2>7. RunOK(r)'
    BY <1>2, <1>8, <2>2, <2>4, <2>5, <2>6 DEF RunOK, Json
  <2>8. ServedOK(r)'
    BY <1>8, <2>2 DEF ServedOK, Over, RenewOps
  <2> QED BY <2>3, <2>7, <2>8 DEF Reports
<1>9. CASE /\ Proceed(r, [item[r] EXCEPT !.due = "true", !.stage = "preflight"], "preflight")
           /\ UNCHANGED <<name, key, cert, trace>>
  <2> DEFINE it == [item[r] EXCEPT !.due = "true", !.stage = "preflight"]
  <2>1. it.ms = item[r].ms /\ it.change = item[r].change /\ it.outcome = item[r].outcome
    BY <1>2 DEF Items, Item
  <2>2. Proceed(r, it, "preflight") /\ Own(r) /\ Trail(r, trace[r])
    BY <1>9, QuietTrail DEF Own
  <2> HIDE DEF it
  <2>3. TraceOK(op[r], "preflight", trace[r], "none")
    BY <1>3, <1>4 DEF TraceOK, Effects, Over
  <2>4. ASSUME Json(r) PROVE ItemOK(op[r], "preflight", it, trace[r], "none")
    <3>1. Supported(it, trace[r])
      BY <1>5, <2>1, <2>4 DEF Supported
    <3>2. it.outcome = "failure_pre_attempt" /\ "install" \notin trace[r]
      BY <1>1, <1>2, <1>4, <2>1, <2>4 DEF RunOK, ItemOK, Effects
    <3> QED BY <1>3, <3>1, <3>2 DEF ItemOK, Passed, InstallPCs, Over
  <2>5. MayProceed(r, it, "preflight", trace[r]) /\ "preflight" \notin Watched
    BY <2>3, <2>4 DEF MayProceed, Watched, Over
  <2> QED BY <1>1, <2>2, <2>5, ProceedReports
<1> QED BY <1>6, <1>7, <1>8, <1>9 DEF Check

\* renewal_preflight
LEMMA PreflightReports ==
  ASSUME ReportInv, NEW r \in Runs, Preflight(r)
  PROVE  Reports(r)
<1>1. /\ pc[r] = "preflight" /\ pc[r] \in EarlyPCs
      /\ pc[r] \notin LatePCs \cup {"gen_fetch", "inst_verify"}
  BY DEF Preflight, EarlyPCs, LatePCs, Over
<1>2. RenewalInv /\ item[r] \in Items
  BY ReportFacts
<1>3. CASE /\ \E e \in {"preflight", "value", "other", "pending"} : Raise(r, item[r], e)
           /\ UNCHANGED trace \/ Saw(r, "saw_pending")
  BY <1>1, <1>3, EarlyRaise
<1>4. CASE /\ name' = [name EXCEPT ![r] = FirstFree(Dev(r))]
           /\ Proceed(r, Note(r, item[r], "preflight_confirmed"), "gen_inspect")
           /\ UNCHANGED <<key, cert, trace>>
  <2> DEFINE it == Note(r, item[r], "preflight_confirmed")
  <2>1. it \in Items /\ Alike(it, item[r])
    BY <1>2, AlikeNotes DEF Events, Alike
  <2>2. Own(r)
    BY <1>2, <1>4 DEF Own, RenewalInv, TypeOK
  <2>3. Passed(op[r], "gen_inspect", it)
    BY DEF Passed, InstallPCs
  <2>4. "gen_inspect" \notin LatePCs \cup {"new", "gen_fetch"} /\ "gen_inspect" \notin Watched
    BY DEF LatePCs, Watched, Over
  <2> QED BY <1>1, <1>4, <2>1, <2>2, <2>3, <2>4, GoOn
<1>5. \A k \in RawErrors : PreflightError(k) \in {"preflight", "value", "other", "pending"}
  BY DEF PreflightError, RawErrors
<1> QED BY <1>3, <1>4, <1>5 DEF Preflight

\* generate_csr before csr_creation_attempted.
LEMMA GenerateInspectReports ==
  ASSUME ReportInv, NEW r \in Runs, GenerateInspect(r)
  PROVE  Reports(r)
<1>1. /\ pc[r] = "gen_inspect" /\ pc[r] \in EarlyPCs
      /\ pc[r] \notin LatePCs \cup {"gen_fetch", "inst_verify"}
  BY DEF GenerateInspect, EarlyPCs, LatePCs, Over
<1>2. RenewalInv /\ item[r] \in Items
  BY ReportFacts
<1>3. CASE /\ \E e \in {"csr_pre", "value", "other"} : Raise(r, item[r], e)
           /\ UNCHANGED trace \/ Saw(r, "saw_pending")
  BY <1>1, <1>3, EarlyRaise
<1>4. CASE Proceed(r, item[r], "gen_create") /\ UNCHANGED <<name, key, cert, trace>>
  <2>1. Own(r)
    BY <1>4 DEF Own
  <2>2. Passed(op[r], "gen_create", item[r]) /\ Alike(item[r], item[r])
    BY DEF Passed, InstallPCs, Alike
  <2>3. "gen_create" \notin LatePCs \cup {"new", "gen_fetch"} /\ "gen_create" \notin Watched
    BY DEF LatePCs, Watched, Over
  <2> QED BY <1>1, <1>2, <1>4, <2>1, <2>2, <2>3, GoOn
<1>5. /\ \A k \in RawErrors : GenerateError(r, k) \in {"csr_pre", "value", "other"}
      /\ "value" \in RawErrors
  BY DEF GenerateError, RawErrors
<1> QED BY <1>3, <1>4, <1>5 DEF GenerateInspect

\* What the steps around the creation of the CSR know.
LEMMA CreateFacts ==
  ASSUME ReportInv, NEW r \in Runs, pc[r] \in {"gen_create", "gen_fetch"}
  PROVE  /\ op[r] \in RenewOr("generate_csr") /\ op[r] # "install"
         /\ "install" \notin trace[r] /\ pc[r] \notin Over
         /\ Json(r) => /\ item[r].outcome = "failure_pre_attempt"
                       /\ Supported(item[r], trace[r])
                       /\ Passed(op[r], pc[r], item[r])
<1>1. RenewalInv /\ RunOK(r)
  BY ReportFacts
<1>2. op[r] \in RenewOr("generate_csr") /\ op[r] # "install"
  BY <1>1, RunFacts DEF MayBeAt, RenewOr, RenewOps
<1>3. "install" \notin trace[r] /\ pc[r] \notin Over
  BY <1>1 DEF RunOK, TraceOK, LatePCs, Over
<1>4. ASSUME Json(r)
      PROVE  /\ item[r].outcome = "failure_pre_attempt" /\ Supported(item[r], trace[r])
             /\ Passed(op[r], pc[r], item[r])
  BY <1>1, <1>3, <1>4 DEF RunOK, ItemOK
<1> QED BY <1>2, <1>3, <1>4

\* The command that creates the CSR is sent: a lost answer is a CSRGenerationError, which
\* says that there may be a CSR.
LEMMA GenerateCreateReports ==
  ASSUME ReportInv, NEW r \in Runs, GenerateCreate(r)
  PROVE  Reports(r)
<1>1. pc[r] = "gen_create"
  BY DEF GenerateCreate
<1>2. /\ RenewalInv /\ RunOK(r) /\ item[r] \in Items
  BY ReportFacts
<1>3. /\ op[r] # "install" /\ "install" \notin trace[r] /\ pc[r] \notin Over
      /\ Json(r) => /\ item[r].outcome = "failure_pre_attempt"
                    /\ Supported(item[r], trace[r])
  BY <1>1, CreateFacts
<1>4. PICK t : /\ Trail(r, t)
               /\ "install" \notin t /\ ("issue" \in t <=> "issue" \in trace[r])
  <2>1. CASE UNCHANGED trace
    BY <1>3, <2>1, QuietTrail
  <2>2. CASE Saw(r, "csr")
    <3> DEFINE u == trace[r] \cup {"csr"}
    <3>1. Trail(r, u)
      BY <1>2, <2>2, SawTrail
    <3>2. "install" \notin u /\ ("issue" \in u <=> "issue" \in trace[r])
      BY <1>3
    <3> HIDE DEF u
    <3> QED BY <3>1, <3>2
  <2> QED BY <2>1, <2>2 DEF GenerateCreate, SwitchCreatesCSR
<1>5. Json(r) => Supported(item[r], t)
  BY <1>3, <1>4 DEF Supported
<1>6. CASE Raise(r, item[r], CreateError(r))
  <2>1. MayRaise(r, item[r], t, "csr")
    BY <1>3, <1>4, <1>5 DEF MayRaise, TextTrue, MildErrors
  <2>2. Raise(r, item[r], "csr")
    BY <1>6 DEF CreateError
  <2> QED BY <1>2, <1>4, <2>1, <2>2, RaiseReports
<1>7. CASE Proceed(r, item[r], "gen_fetch") /\ UNCHANGED <<name, key, cert>>
  <2>1. TraceOK(op[r], "gen_fetch", t, "none")
    BY <1>3, <1>4 DEF TraceOK, EarlyPCs, LatePCs, Over
  <2>2. Json(r) => ItemOK(op[r], "gen_fetch", item[r], t, "none")
    BY <1>3, <1>4, <1>5 DEF ItemOK, Passed, InstallPCs, Over
  <2>3. MayProceed(r, item[r], "gen_fetch", t) /\ "gen_fetch" \notin Watched
    BY <2>1, <2>2 DEF MayProceed, Watched, Over
  <2>4. Own(r)
    BY <1>7 DEF Own
  <2> QED BY <1>3, <1>4, <1>7, <2>3, <2>4, ProceedReports
<1> QED BY <1>6, <1>7 DEF GenerateCreate

\* The CSR is read: now the item says that there is one.
LEMMA GenerateFetchReports ==
  ASSUME ReportInv, NEW r \in Runs, GenerateFetch(r)
  PROVE  Reports(r)
<1>1. pc[r] = "gen_fetch" /\ UNCHANGED trace
  BY DEF GenerateFetch
<1>2. RenewalInv /\ item[r] \in Items /\ Trail(r, trace[r])
  BY <1>1, ReportFacts, QuietTrail
<1>3. /\ op[r] \in RenewOr("generate_csr") /\ op[r] # "install"
      /\ "install" \notin trace[r] /\ pc[r] \notin Over
      /\ Json(r) => /\ item[r].outcome = "failure_pre_attempt"
                    /\ Supported(item[r], trace[r])
  BY <1>1, CreateFacts
<1>4. CASE Raise(r, item[r], CreateError(r))
  <2>1. MayRaise(r, item[r], trace[r], "csr")
    BY <1>3 DEF MayRaise, TextTrue, MildErrors
  <2>2. Raise(r, item[r], "csr")
    BY <1>4 DEF CreateError
  <2> QED BY <1>2, <2>1, <2>2, RaiseReports
<1> DEFINE it == Note(r, item[r], "csr_confirmed")
           jt == Note(r, it, "csr_retrieval_started")
<1>5. it \in Items /\ jt \in Items
  BY <1>2, NoteType DEF Events
<1>6. ASSUME Json(r)
      PROVE  /\ it.outcome = "failure_pre_attempt" /\ it.change = "confirmed"
             /\ jt.outcome = "failure_pre_attempt" /\ jt.change = "confirmed"
             /\ Supported(it, trace[r]) /\ Supported(jt, trace[r])
  <2>1. AfterEvent(it, item[r], "csr_confirmed")
    BY <1>2, <1>6, ProgressFacts DEF Events, Note
  <2>2. AfterEvent(jt, it, "csr_retrieval_started")
    BY <1>5, <1>6, ProgressFacts DEF Events, Note
  <2> HIDE DEF it, jt
  <2> QED BY <1>3, <1>6, <2>1, <2>2 DEF AfterEvent, Supported
<1>7. ASSUME NEW l \in {"fetch_observe", "write"}, NEW j \in {it, jt}, Proceed(r, j, l),
             UNCHANGED <<name, cert>>, l = "write" => ~Renewing(r)
      PROVE  Reports(r)
  <2> HIDE DEF it, jt
  <2>1. TraceOK(op[r], l, trace[r], "none")
    BY <1>3, <1>7 DEF TraceOK, EarlyPCs, LatePCs, Over
  <2>2. Json(r) => ItemOK(op[r], l, j, trace[r], "none")
    BY <1>3, <1>6, <1>7 DEF ItemOK, Passed, InstallPCs, Over
  <2>3. MayProceed(r, j, l, trace[r])
    BY <1>7, <2>1, <2>2 DEF MayProceed, Over
  <2>4. Own(r)
    BY <1>7 DEF Own
  <2>5. pc'[r] = l /\ op'[r] = op[r]
    BY <1>2, <1>7, <2>4, ProceedIs
  <2>6. ServedOK(r)'
    BY <1>3, <1>7, <2>5 DEF ServedOK, Renewing, RenewOr, RenewOps
  <2> QED BY <1>2, <1>3, <1>7, <2>3, <2>4, <2>6, ProceedReports
<1>8. CASE \E c \in PendingAs(Dev(r), name[r]) :
             /\ IF Renewing(r) THEN Proceed(r, jt, "fetch_observe") ELSE Proceed(r, it, "write")
             /\ UNCHANGED <<name, cert>>
  <2> HIDE DEF it, jt
  <2> QED BY <1>7, <1>8
<1> QED BY <1>4, <1>8 DEF GenerateFetch

\* A failure on the way to the installation.
LEMMA FetchRaises ==
  ASSUME ReportInv, NEW r \in Runs,
         pc[r] \in {"fetch_observe", "fetch_detail", "resolve", "post", "get",
                    "inst_observe", "inst_validate", "inst_recheck", "inst_paste"},
         NEW it \in Items, Json(r) => Alike(it, item[r]),
         NEW e \in {"value", "other", "signing", "pre_install", "install"},
         Raise(r, it, e), UNCHANGED trace
  PROVE  Reports(r)
<1>1. TextTrue(op[r], trace[r], e)
  BY TextBeforeInstall DEF LatePCs, Over
<1>2. /\ pc[r] \notin Over \cup {"gen_fetch", "inst_verify"}
      /\ e \notin MildErrors \cup {"none"}
  BY DEF Over, MildErrors
<1> QED BY <1>1, <1>2, LaterRaise

\* The failures of sign_pending_csr.
LEMMA SignErrors ==
  ASSUME NEW r \in Runs
  PROVE  /\ \A k \in RawErrors : SignError(r, k) \in {"value", "other", "signing"}
         /\ "value" \in RawErrors
  BY DEF SignError, RawErrors

\* require_pending_web_certificate
LEMMA FetchObserveReports ==
  ASSUME ReportInv, NEW r \in Runs, FetchObserve(r)
  PROVE  Reports(r)
<1>1. /\ pc[r] = "fetch_observe" /\ UNCHANGED trace
      /\ pc[r] \notin LatePCs \cup {"gen_fetch", "inst_verify"}
  BY DEF FetchObserve, LatePCs, Over
<1>2. RenewalInv /\ item[r] \in Items /\ Alike(item[r], item[r])
  BY ReportFacts DEF Alike
<1>3. CASE \E k \in RawErrors : Raise(r, item[r], SignError(r, k))
  BY <1>1, <1>2, <1>3, FetchRaises, SignErrors
<1>4. CASE /\ Proceed(r, Note(r, item[r], "pending_csr_observed"), "fetch_detail")
           /\ UNCHANGED <<name, key, cert>>
  <2> DEFINE it == Note(r, item[r], "pending_csr_observed")
  <2>1. it \in Items /\ Alike(it, item[r])
    BY <1>2, AlikeNotes DEF Events
  <2>2. Own(r)
    BY <1>4 DEF Own
  <2>3. Passed(op[r], "fetch_detail", it)
    BY DEF Passed, InstallPCs
  <2>4. /\ "fetch_detail" \notin LatePCs \cup {"new", "gen_fetch"} \cup EarlyPCs
        /\ "fetch_detail" \notin Watched
    BY DEF LatePCs, Watched, Over, EarlyPCs
  <2> QED BY <1>1, <1>4, <2>1, <2>2, <2>3, <2>4, GoOn
<1> QED BY <1>3, <1>4, SignErrors DEF FetchObserve

\* retrieve_csr
LEMMA FetchDetailReports ==
  ASSUME ReportInv, NEW r \in Runs, FetchDetail(r)
  PROVE  Reports(r)
<1>1. /\ pc[r] = "fetch_detail" /\ UNCHANGED trace
      /\ pc[r] \notin LatePCs \cup {"gen_fetch", "inst_verify"}
  BY DEF FetchDetail, LatePCs, Over
<1>2. RenewalInv /\ item[r] \in Items /\ Alike(item[r], item[r]) /\ Trail(r, trace[r])
  BY <1>1, ReportFacts, QuietTrail DEF Alike
<1>3. CASE \E k \in RawErrors : Raise(r, item[r], SignError(r, k))
  BY <1>1, <1>2, <1>3, FetchRaises, SignErrors
<1> DEFINE it == Note(r, item[r], "csr_retrieved")
           jt == Note(r, it, "signing_preparation")
<1>4. /\ it \in Items /\ Alike(it, item[r])
      /\ Json(r) => it.ms["csr"] = "confirmed"
  BY <1>2, AlikeNotes DEF Events
<1>5. /\ jt \in Items /\ Alike(jt, item[r])
      /\ Json(r) => jt.ms["csr"] = "confirmed"
  <2> HIDE DEF it
  <2>1. jt \in Items /\ Alike(jt, item[r])
    BY <1>2, <1>4, AlikeNotes DEF Events
  <2>2. Alike(it, it)
    BY DEF Alike
  <2>3. Alike(jt, it)
    BY <1>4, <2>2, AlikeNotes DEF Events
  <2> QED BY <1>4, <2>1, <2>3 DEF Alike
<1> HIDE DEF it, jt
<1>6. ASSUME NEW l \in {"resolve", "write"}, NEW j \in {it, jt}, Proceed(r, j, l),
             UNCHANGED <<name, cert>>, l = "write" => op[r] = "retrieve_csr"
      PROVE  Reports(r)
  <2>1. Own(r)
    BY <1>6 DEF Own
  <2>2. j \in Items /\ Alike(j, item[r]) /\ (Json(r) => Passed(op[r], l, j))
    BY <1>4, <1>5, <1>6 DEF Passed, InstallPCs
  <2>3. pc'[r] = l /\ op'[r] = op[r]
    BY <1>2, <1>6, <2>1, ProceedIs
  <2>4. ServedOK(r)'
    BY <1>6, <2>3 DEF ServedOK
  <2>5. l \notin LatePCs \cup {"new", "gen_fetch"} /\ l \notin EarlyPCs
    BY <1>6 DEF LatePCs, Over, EarlyPCs
  <2> QED BY <1>1, <1>6, <2>1, <2>2, <2>4, <2>5, GoOn
<1>7. CASE \E c \in PendingAs(Dev(r), name[r]) :
             /\ IF op[r] = "retrieve_csr" THEN Proceed(r, it, "write")
                                          ELSE Proceed(r, jt, "resolve")
             /\ UNCHANGED <<name, cert>>
  BY <1>6, <1>7
<1> QED BY <1>3, <1>7 DEF FetchDetail, it, jt

\* OPNsenseClient and resolve_ca
LEMMA ResolveCAReports ==
  ASSUME ReportInv, NEW r \in Runs, ResolveCA(r)
  PROVE  Reports(r)
<1>1. /\ pc[r] = "resolve" /\ UNCHANGED trace
      /\ pc[r] \notin LatePCs \cup {"gen_fetch", "inst_verify"}
  BY DEF ResolveCA, LatePCs, Over
<1>2. RenewalInv /\ RunOK(r) /\ item[r] \in Items /\ Alike(item[r], item[r])
  BY ReportFacts DEF Alike
<1>3. CASE \E k \in RawErrors : Raise(r, item[r], SignError(r, k))
  BY <1>1, <1>2, <1>3, FetchRaises, SignErrors
<1>4. CASE Proceed(r, item[r], "post") /\ UNCHANGED <<name, key, cert>>
  <2>1. Own(r)
    BY <1>4 DEF Own
  <2>2. Json(r) => Passed(op[r], "resolve", item[r])
    BY <1>1, <1>2 DEF RunOK, ItemOK
  <2>3. Json(r) => Passed(op[r], "post", item[r])
    BY <2>2 DEF Passed, InstallPCs
  <2>4. /\ "post" \notin LatePCs \cup {"new", "gen_fetch"} \cup EarlyPCs
        /\ "post" \notin Watched
    BY DEF LatePCs, Watched, Over, EarlyPCs
  <2> QED BY <1>1, <1>2, <1>4, <2>1, <2>3, <2>4, GoOn
<1> QED BY <1>3, <1>4 DEF ResolveCA

\* client.sign_csr: once on_dispatch has fired the item says that a certificate may have
\* been issued, before OPNsense can have issued it.
LEMMA PostCSRReports ==
  ASSUME ReportInv, NEW r \in Runs, PostCSR(r)
  PROVE  Reports(r)
<1>1. pc[r] = "post" /\ pc[r] \notin LatePCs /\ pc[r] \notin Over
  BY DEF PostCSR, LatePCs, Over
<1>2. RenewalInv /\ RunOK(r) /\ item[r] \in Items
  BY ReportFacts
<1>3. op[r] # "install" /\ "install" \notin trace[r]
  BY <1>1, <1>2, RunFacts DEF RunOK, TraceOK, MayBeAt, RenewOr, RenewOps
<1> DEFINE sent == Dispatched(r, item[r])
           done == Note(r, sent, "issuance_confirmed")
<1>4. sent \in Items /\ done \in Items
  BY <1>2, NoteType DEF Events, Dispatched
<1>5. Json(r) => AfterEvent(sent, item[r], "issuance_dispatched")
  BY <1>2, ProgressFacts DEF Events, Note, Dispatched
<1>6. Json(r) => AfterEvent(done, sent, "issuance_confirmed")
  BY <1>4, ProgressFacts DEF Events, Note
<1> HIDE DEF sent, done
<1>7. Json(r) => /\ item[r].outcome = "failure_pre_attempt" /\ Supported(item[r], trace[r])
                 /\ Passed(op[r], "post", item[r])
  BY <1>1, <1>2 DEF RunOK, ItemOK
<1>8. CASE Raise(r, item[r], SignError(r, "value")) /\ UNCHANGED <<issued, fresh, trace>>
  <2>1. Alike(item[r], item[r])
    BY DEF Alike
  <2> QED BY <1>1, <1>2, <1>8, <2>1, FetchRaises, SignErrors
<1>9. CASE /\ \E k \in RawErrors : Raise(r, sent, SignError(r, k))
           /\ OPNsenseIssues(r) \/ UNCHANGED <<issued, fresh, trace>>
  <2>1. PICK t : Trail(r, t) /\ "install" \notin t
    <3>1. CASE UNCHANGED trace
      BY <1>3, <3>1, QuietTrail
    <3>2. CASE Saw(r, "issue")
      <4> DEFINE u == trace[r] \cup {"issue"}
      <4>1. Trail(r, u)
        BY <1>2, <3>2, SawTrail
      <4>2. "install" \notin u
        BY <1>3
      <4> HIDE DEF u
      <4> QED BY <4>1, <4>2
    <3> QED BY <1>9, <3>1, <3>2 DEF OPNsenseIssues
  <2>2. PICK e \in {"value", "other", "signing"} : Raise(r, sent, e)
    BY <1>9, SignErrors
  <2>3. Json(r) => /\ sent.outcome = "failure_pre_attempt" /\ Supported(sent, t)
                   /\ sent.change = "possible"
    BY <1>3, <1>5, <1>7 DEF AfterEvent, Supported
  <2>4. MayRaise(r, sent, t, e)
    BY <1>3, <2>1, <2>2, <2>3 DEF MayRaise, TextTrue, MildErrors
  <2> QED BY <1>2, <1>4, <2>1, <2>2, <2>4, RaiseReports
<1>10. CASE /\ OPNsenseIssues(r)
            /\ cert' = [cert EXCEPT ![r] = NewCert(r)]
            /\ Proceed(r, done, "get")
            /\ UNCHANGED <<name, key>>
  <2> DEFINE t == trace[r] \cup {"issue"}
  <2>1. Trail(r, t)
    BY <1>2, <1>10, SawTrail DEF OPNsenseIssues
  <2>2. "install" \notin t /\ "issue" \in t
    BY <1>3
  <2> HIDE DEF t
  <2>3. Own(r)
    BY <1>2, <1>10 DEF Own, RenewalInv, TypeOK
  <2>4. TraceOK(op[r], "get", t, "none")
    BY <1>3, <2>2 DEF TraceOK, EarlyPCs, LatePCs, Over
  <2>5. ASSUME Json(r) PROVE ItemOK(op[r], "get", done, t, "none")
    <3>1. /\ done.outcome = "failure_pre_attempt" /\ done.change = "confirmed"
          /\ done.ms["issuance"] = "confirmed"
          /\ done.ms["installation"] = item[r].ms["installation"]
      BY <1>5, <1>6, <1>7, <2>5 DEF AfterEvent
    <3>2. done.ms["csr"] = "confirmed"
      <4>1. item[r].ms["csr"] = "confirmed"
        BY <1>3, <1>7, <2>5 DEF Passed
      <4> QED BY <1>5, <1>6, <2>5, <4>1 DEF AfterEvent
    <3>3. Supported(done, t)
      BY <1>3, <1>7, <2>2, <2>5, <3>1 DEF Supported
    <3> QED BY <2>2, <3>1, <3>2, <3>3 DEF ItemOK, Passed, Over
  <2>6. MayProceed(r, done, "get", t) /\ "get" \notin Watched
    BY <2>4, <2>5 DEF MayProceed, Watched, Over
  <2> QED BY <1>1, <1>10, <2>1, <2>3, <2>6, ProceedReports
<1> QED BY <1>8, <1>9, <1>10 DEF PostCSR, sent, done

\* client.get_certificate and validate_issued_certificate
LEMMA GetCertificateReports ==
  ASSUME ReportInv, NEW r \in Runs, GetCertificate(r)
  PROVE  Reports(r)
<1>1. /\ pc[r] = "get" /\ UNCHANGED trace
      /\ pc[r] \notin LatePCs \cup {"gen_fetch", "inst_verify"} /\ pc[r] \notin Over
  BY DEF GetCertificate, LatePCs, Over
<1>2. /\ RenewalInv /\ RunOK(r) /\ item[r] \in Items /\ Alike(item[r], item[r])
      /\ Trail(r, trace[r])
  BY <1>1, ReportFacts, QuietTrail DEF Alike
<1>3. op[r] \in RenewOr("sign_csr")
  BY <1>1, <1>2, RunFacts DEF MayBeAt
<1> DEFINE read == Note(r, item[r], "certificate_retrieved")
           good == Note(r, read, "issued_validated")
           last == [good EXCEPT !.ms["csr"] = "confirmed", !.certificate = cert[r]]
<1>4. read \in Items /\ Alike(read, item[r])
  BY <1>2, AlikeNotes DEF Events
<1>5. good \in Items /\ Alike(good, item[r])
  <2> HIDE DEF read
  <2> QED BY <1>2, <1>4, AlikeNotes DEF Events
<1>6. last \in Items /\ Alike(last, item[r])
  <2> HIDE DEF good
  <2>1. cert[r] \in Certs \cup {NoCert}
    BY <1>2, RunFacts
  <2> DEFINE mid == [good EXCEPT !.ms["csr"] = "confirmed"]
  <2>2. mid \in Items /\ Alike(mid, good)
    BY <1>5 DEF Items, Item, Alike, MilestoneNames, Milestones
  <2>3. last = [mid EXCEPT !.certificate = cert[r]]
    BY <1>5 DEF Items, Item
  <2> HIDE DEF mid, last
  <2>4. last \in Items /\ last.ms = mid.ms /\ last.outcome = mid.outcome
        /\ last.change = mid.change /\ last.due = mid.due
    BY <2>1, <2>2, <2>3 DEF Items, Item
  <2> QED BY <1>5, <2>2, <2>4 DEF Alike
<1> HIDE DEF read, good, last
<1>7. Json(r) => item[r].ms["csr"] = "confirmed" /\ item[r].ms["issuance"] = "confirmed"
  <2>1. op[r] # "install"
    BY <1>3 DEF RenewOr, RenewOps
  <2> QED BY <1>1, <1>2, <2>1 DEF RunOK, ItemOK, Passed
<1>8. CASE \/ \E k \in RawErrors : Raise(r, item[r], SignError(r, k))
           \/ Raise(r, read, SignError(r, "value"))
  BY <1>1, <1>2, <1>4, <1>8, FetchRaises, SignErrors
<1>9. ASSUME NEW l \in {"inst_observe", "write"}, NEW j \in {read, good, last},
             Proceed(r, j, l), UNCHANGED <<name, key, cert>>, l = "write" => ~Renewing(r)
      PROVE  Reports(r)
  <2>1. Own(r)
    BY <1>9 DEF Own
  <2>2. j \in Items /\ Alike(j, item[r])
    BY <1>4, <1>5, <1>6, <1>9
  <2>3. Json(r) => Passed(op[r], l, j)
    BY <1>7, <1>9, <2>2 DEF Passed, Alike, InstallPCs
  <2>4. pc'[r] = l /\ op'[r] = op[r]
    BY <1>2, <1>9, <2>1, ProceedIs
  <2>5. ServedOK(r)'
    BY <1>3, <1>9, <2>4 DEF ServedOK, Renewing, RenewOr, RenewOps
  <2>6. l \notin LatePCs \cup {"new", "gen_fetch"} /\ l \notin EarlyPCs
    BY <1>9 DEF LatePCs, Over, EarlyPCs
  <2> QED BY <1>1, <1>9, <2>1, <2>2, <2>3, <2>5, <2>6, GoOn
<1>10. CASE /\ IF Renewing(r)
               THEN Proceed(r, good, "inst_observe")
               ELSE Proceed(r, IF Json(r) THEN last ELSE read, "write")
            /\ UNCHANGED <<name, key, cert>>
  BY <1>9, <1>10
<1> QED BY <1>8, <1>10 DEF GetCertificate, read, good, last

\* write_or_print_csr and write_certificate
LEMMA WriteOutputReports ==
  ASSUME ReportInv, NEW r \in Runs, WriteOutput(r)
  PROVE  Reports(r)
<1>1. /\ pc[r] = "write" /\ UNCHANGED trace /\ pc[r] \notin LatePCs /\ pc[r] \notin Over
      /\ pc[r] \notin Over \cup {"gen_fetch", "inst_verify"}
  BY DEF WriteOutput, LatePCs, Over
<1>2. /\ RenewalInv /\ RunOK(r) /\ ServedOK(r) /\ item[r] \in Items
      /\ Alike(item[r], item[r]) /\ Trail(r, trace[r])
  BY <1>1, ReportFacts, QuietTrail DEF Alike
<1>3. op[r] \in {"generate_csr", "retrieve_csr", "sign_csr"}
  BY <1>1, <1>2 DEF ServedOK
<1>4. CASE \E e \in {"csr", "write"} : Raise(r, item[r], e)
  <2>1. PICK e \in {"csr", "write"} : Raise(r, item[r], e)
    BY <1>4
  <2>2. TextTrue(op[r], trace[r], e) /\ e \notin MildErrors \cup {"none"}
    BY <2>1 DEF TextTrue, MildErrors
  <2> QED BY <1>1, <1>2, <2>1, <2>2, LaterRaise
<1>5. CASE \E o \in {"success_no_change", "success_prepared"} : Succeed(r, item[r], o)
  <2>1. PICK o \in {"success_no_change", "success_prepared"} : Succeed(r, item[r], o)
    BY <1>5
  <2>2. o \notin Failures /\ o # "success_changed" /\ TextTrue(op[r], trace[r], "none")
    BY <2>1 DEF Failures, TextTrue
  <2>3. Json(r) =>
          /\ Supported(item[r], trace[r])
          /\ item[r].change = "none" => trace[r] \cap Effects = {}
          /\ item[r].ms["installation"] = "not_attempted" => "install" \notin trace[r]
    BY <1>1, <1>2 DEF RunOK, ItemOK
  <2>4. op[r] \notin RenewOps \cup {"install"}
    BY <1>3 DEF RenewOps
  <2> QED BY <1>1, <1>2, <2>1, <2>2, <2>3, <2>4, SucceedReports
<1> QED BY <1>4, <1>5 DEF WriteOutput

\* The failures before installation_attempted.
LEMMA PreInstallErrors ==
  ASSUME NEW r \in Runs
  PROVE  PreInstallError(r) \in {"value", "pre_install"} /\ InstallError(r) = "install"
  BY DEF PreInstallError, InstallError

\* What the steps of the installation know before it.
LEMMA InstallFacts ==
  ASSUME ReportInv, NEW r \in Runs,
         pc[r] \in {"inst_observe", "inst_validate", "inst_recheck", "inst_paste",
                    "inst_confirm", "inst_verify"}
  PROVE  /\ op[r] \in RenewOr("install") /\ Locked(r) /\ holder[Dev(r)] = {r}
         /\ pc[r] # "inst_verify" => "install" \notin trace[r]
         /\ pc[r] \notin Over
         /\ Json(r) => /\ item[r].outcome = "failure_pre_attempt"
                       /\ Supported(item[r], trace[r]) /\ Passed(op[r], pc[r], item[r])
                       /\ pc[r] # "inst_verify" /\ item[r].change = "none" =>
                             trace[r] \cap Effects = {}
<1>1. RenewalInv /\ RunOK(r)
  BY ReportFacts
<1>2. op[r] \in RenewOr("install") /\ Locked(r)
  BY <1>1, RunFacts DEF MayBeAt, InstallPCs, RenewOr, RenewOps, Locked, LockedOps
<1>3. holder[Dev(r)] = {r}
  BY <1>1, <1>2, RunFacts DEF BodyPCs, PCs
<1>4. (pc[r] # "inst_verify" => "install" \notin trace[r]) /\ pc[r] \notin Over
  BY <1>1 DEF RunOK, TraceOK, LatePCs, Over
<1>5. ASSUME Json(r)
      PROVE  /\ item[r].outcome = "failure_pre_attempt"
             /\ Supported(item[r], trace[r]) /\ Passed(op[r], pc[r], item[r])
             /\ pc[r] # "inst_verify" /\ item[r].change = "none" =>
                   trace[r] \cap Effects = {}
  BY <1>1, <1>4, <1>5 DEF RunOK, ItemOK
<1> QED BY <1>2, <1>3, <1>4, <1>5

\* Going on inside the installation, once the name is known not to be in use.
LEMMA InstallGoesOn ==
  ASSUME ReportInv, NEW r \in Runs, NEW it \in Items,
         pc[r] \in {"inst_observe", "inst_validate", "inst_recheck", "inst_paste"},
         NEW l \in {"inst_validate", "inst_recheck", "inst_paste", "inst_confirm"},
         Json(r) => Alike(it, item[r]),
         Json(r) => it.ms["csr"] = "confirmed" \/ (op[r] = "install" /\ l = "inst_validate"),
         active[Dev(r)].name # name[r],
         Proceed(r, it, l), UNCHANGED <<name, cert, trace, active>>
  PROVE  Reports(r)
<1>1. RenewalInv /\ Trail(r, trace[r]) /\ Own(r)
  BY ReportFacts, QuietTrail DEF Own
<1>2. pc'[r] = l /\ op'[r] = op[r]
  BY <1>1, ProceedIs
<1>3. ServedOK(r)'
  BY <1>2 DEF ServedOK, Dev
<1>4. Json(r) => Passed(op[r], pc[r], item[r])
  BY InstallFacts
<1>5. Json(r) => Passed(op[r], l, it)
  BY <1>4 DEF Passed, Alike, InstallPCs
<1>6. /\ pc[r] \notin LatePCs \cup {"gen_fetch", "inst_verify"}
      /\ l \notin LatePCs \cup {"new", "gen_fetch"} /\ l \notin EarlyPCs
  BY DEF LatePCs, EarlyPCs, Over
<1> QED BY <1>1, <1>3, <1>5, <1>6, GoOn

\* install_pending_certificate observes the CSR: its name is not the one in use.
LEMMA InstallObserveReports ==
  ASSUME ReportInv, NEW r \in Runs, InstallObserve(r)
  PROVE  Reports(r)
<1>1. pc[r] = "inst_observe" /\ UNCHANGED trace /\ UNCHANGED active
  BY DEF InstallObserve, NoRemoteChange
<1>2. RenewalInv /\ item[r] \in Items /\ Alike(item[r], item[r]) /\ SwitchOK(Dev(r))
  BY ReportFacts DEF Alike
<1>3. CASE Raise(r, item[r], PreInstallError(r))
  BY <1>1, <1>2, <1>3, FetchRaises, PreInstallErrors
<1> DEFINE a == InstallNote(r, item[r], "pending_csr_observed")
           b == InstallNote(r, a, "csr_retrieval_started")
<1>4. CASE /\ PendingAs(Dev(r), name[r]) # {}
           /\ Proceed(r, b, "inst_validate") /\ UNCHANGED <<name, key, cert>>
  <2>1. active[Dev(r)].name # name[r]
    BY <1>2, <1>4 DEF PendingAs, SwitchOK
  <2>2. a \in Items /\ Alike(a, item[r])
    BY <1>2, AlikeNotes DEF Events
  <2>3. b \in Items /\ Alike(b, item[r])
    <3> HIDE DEF a
    <3> QED BY <1>2, <2>2, AlikeNotes DEF Events
  <2>4. Json(r) => item[r].ms["csr"] = "confirmed" \/ op[r] = "install"
    <3>1. Json(r) => Passed(op[r], "inst_observe", item[r])
      BY <1>1, InstallFacts
    <3> QED BY <3>1 DEF Passed, InstallPCs
  <2> HIDE DEF b
  <2>5. Json(r) => b.ms["csr"] = "confirmed" \/ op[r] = "install"
    BY <2>3, <2>4 DEF Alike
  <2> QED BY <1>1, <1>4, <2>1, <2>3, <2>5, InstallGoesOn
<1> QED BY <1>3, <1>4 DEF InstallObserve

\* It reads the CSR and validates the certificate.
LEMMA InstallValidateReports ==
  ASSUME ReportInv, NEW r \in Runs, InstallValidate(r)
  PROVE  Reports(r)
<1>1. pc[r] = "inst_validate" /\ UNCHANGED trace /\ UNCHANGED active
  BY DEF InstallValidate, NoRemoteChange
<1>2. /\ RenewalInv /\ item[r] \in Items /\ Alike(item[r], item[r]) /\ ServedOK(r)
      /\ op[r] \in RenewOr("install") /\ "install" \notin trace[r]
      /\ Json(r) => Passed(op[r], "inst_validate", item[r])
  BY <1>1, ReportFacts, InstallFacts DEF Alike
<1>3. active[Dev(r)].name # name[r]
  BY <1>1, <1>2 DEF ServedOK
<1> DEFINE a == InstallNote(r, item[r], "csr_retrieved")
           b == InstallNote(r, a, "issued_validation_started")
           c == InstallNote(r, b, "issued_validated")
           d == InstallNote(r, c, "installation_prepared")
<1>4. a \in Items /\ Alike(a, item[r]) /\ (Json(r) => a.ms["csr"] = "confirmed")
  <2>1. a \in Items /\ Alike(a, item[r])
    BY <1>2, AlikeNotes DEF Events
  <2>2. CASE ~Renewing(r)
    BY <1>2, <2>2, AlikeNotes DEF Events, InstallNote
  <2>3. CASE Renewing(r)
    <3>1. a = item[r]
      BY <2>3 DEF InstallNote
    <3>2. op[r] # "install"
      BY <2>3 DEF Renewing, RenewOps
    <3> QED BY <1>2, <2>1, <3>1, <3>2 DEF Passed, InstallPCs
  <2> QED BY <2>1, <2>2, <2>3
<1>5. Alike(a, a)
  BY DEF Alike
<1>6. b \in Items /\ Alike(b, a)
  <2> HIDE DEF a
  <2> QED BY <1>4, <1>5, AlikeNotes DEF Events
<1>7. c \in Items /\ Alike(c, a)
  <2> HIDE DEF a, b
  <2> QED BY <1>4, <1>6, AlikeNotes DEF Events
<1>8. d \in Items /\ Alike(d, a)
  <2> HIDE DEF a, c
  <2> QED BY <1>4, <1>7, AlikeNotes DEF Events
<1>9. \/ Raise(r, item[r], PreInstallError(r))
      \/ Raise(r, b, PreInstallError(r))
      \/ Proceed(r, d, "inst_recheck") /\ UNCHANGED <<name, key, cert>>
  BY DEF InstallValidate
<1> HIDE DEF a, b, c, d
<1>10. Alike(b, item[r]) /\ Alike(d, item[r]) /\ (Json(r) => d.ms["csr"] = "confirmed")
  BY <1>4, <1>6, <1>8 DEF Alike
<1>11. CASE Raise(r, item[r], PreInstallError(r)) \/ Raise(r, b, PreInstallError(r))
  BY <1>1, <1>2, <1>6, <1>10, <1>11, FetchRaises, PreInstallErrors
<1>12. CASE Proceed(r, d, "inst_recheck") /\ UNCHANGED <<name, key, cert>>
  BY <1>1, <1>3, <1>8, <1>10, <1>12, InstallGoesOn
<1> QED BY <1>9, <1>11, <1>12

\* The summary is read once more; the certificate is pasted.
LEMMA InstallPasteReports ==
  ASSUME ReportInv, NEW r \in Runs, InstallRecheck(r) \/ InstallPaste(r)
  PROVE  Reports(r)
<1>1. /\ pc[r] \in {"inst_recheck", "inst_paste"} /\ UNCHANGED trace /\ UNCHANGED active
  BY DEF InstallRecheck, InstallPaste, NoRemoteChange
<1>2. /\ RenewalInv /\ item[r] \in Items /\ Alike(item[r], item[r]) /\ ServedOK(r)
      /\ "install" \notin trace[r]
      /\ Json(r) => Passed(op[r], pc[r], item[r])
  BY <1>1, ReportFacts, InstallFacts DEF Alike
<1>3. active[Dev(r)].name # name[r]
  BY <1>1, <1>2 DEF ServedOK
<1>4. Json(r) => item[r].ms["csr"] = "confirmed"
  BY <1>1, <1>2 DEF Passed, InstallPCs
<1>5. \/ \E e \in {"value", "pre_install", "install"} : Raise(r, item[r], e)
      \/ /\ \E l \in {"inst_paste", "inst_confirm"} : Proceed(r, item[r], l)
         /\ UNCHANGED <<name, key, cert>>
  BY PreInstallErrors DEF InstallRecheck, InstallPaste
<1>6. CASE \E e \in {"value", "pre_install", "install"} : Raise(r, item[r], e)
  BY <1>1, <1>2, <1>6, FetchRaises
<1>7. CASE /\ \E l \in {"inst_paste", "inst_confirm"} : Proceed(r, item[r], l)
           /\ UNCHANGED <<name, key, cert>>
  BY <1>1, <1>2, <1>3, <1>4, <1>7, InstallGoesOn
<1> QED BY <1>5, <1>6, <1>7

\* "y" is sent: a lost answer is an installation error, which says that the certificate
\* may be installed.
LEMMA InstallConfirmReports ==
  ASSUME ReportInv, NEW r \in Runs, InstallConfirm(r)
  PROVE  Reports(r)
<1>1. pc[r] = "inst_confirm"
  BY DEF InstallConfirm
<1>2. /\ RenewalInv /\ item[r] \in Items /\ ServedOK(r)
      /\ "install" \notin trace[r] /\ pc[r] \notin Over
      /\ Json(r) => /\ item[r].outcome = "failure_pre_attempt"
                    /\ Supported(item[r], trace[r]) /\ Passed(op[r], pc[r], item[r])
  BY <1>1, ReportFacts, InstallFacts
<1>3. active[Dev(r)].name # name[r]
  BY <1>1, <1>2 DEF ServedOK
<1>4. PICK t : /\ Trail(r, t) /\ ("issue" \in t <=> "issue" \in trace[r])
               /\ "install" \notin t => UNCHANGED active
  <2>1. CASE UNCHANGED <<pend, active, trace>>
    BY <2>1, QuietTrail
  <2>2. CASE SwitchInstalls(r)
    <3> DEFINE u == trace[r] \cup {"install"}
    <3>1. Trail(r, u)
      BY <1>2, <2>2, SawTrail DEF SwitchInstalls
    <3>2. "install" \in u /\ ("issue" \in u <=> "issue" \in trace[r])
      OBVIOUS
    <3> HIDE DEF u
    <3> QED BY <3>1, <3>2
  <2> QED BY <2>1, <2>2 DEF InstallConfirm
<1>5. Json(r) => Supported(item[r], t)
  BY <1>2, <1>4 DEF Supported
<1>6. CASE Raise(r, item[r], InstallError(r))
  <2>1. MayRaise(r, item[r], t, "install")
    BY <1>2, <1>5 DEF MayRaise, TextTrue, MildErrors
  <2>2. Raise(r, item[r], "install")
    BY <1>6, PreInstallErrors
  <2> QED BY <1>2, <1>4, <2>1, <2>2, RaiseReports
<1>7. CASE Proceed(r, item[r], "inst_verify") /\ UNCHANGED <<name, key, cert>>
  <2>1. TraceOK(op[r], "inst_verify", t, "none")
    BY DEF TraceOK, EarlyPCs, LatePCs, Over
  <2>2. Json(r) => Passed(op[r], "inst_verify", item[r])
    BY <1>1, <1>2 DEF Passed, InstallPCs
  <2>3. Json(r) => ItemOK(op[r], "inst_verify", item[r], t, "none")
    BY <1>2, <1>5, <2>2 DEF ItemOK, Over
  <2>4. MayProceed(r, item[r], "inst_verify", t)
    BY <2>1, <2>3 DEF MayProceed, Over
  <2>5. Own(r)
    BY <1>7 DEF Own
  <2>6. pc'[r] = "inst_verify" /\ op'[r] = op[r] /\ trace'[r] = t
    BY <1>2, <1>4, <1>7, <2>5, ProceedIs
  <2>7. ServedOK(r)'
    BY <1>3, <1>4, <1>7, <2>6 DEF ServedOK, Dev
  <2> QED BY <1>2, <1>4, <1>7, <2>4, <2>5, <2>7, ProceedReports
<1> QED BY <1>6, <1>7 DEF InstallConfirm

\* Summary and detail show the name in use: this invocation has installed it.
LEMMA InstallVerifyReports ==
  ASSUME ReportInv, NEW r \in Runs, InstallVerify(r)
  PROVE  Reports(r)
<1>1. pc[r] = "inst_verify" /\ UNCHANGED trace
  BY DEF InstallVerify
<1>2. /\ RenewalInv /\ item[r] \in Items /\ ServedOK(r) /\ pc[r] \notin Over
      /\ Json(r) => /\ item[r].outcome = "failure_pre_attempt"
                    /\ Supported(item[r], trace[r]) /\ Passed(op[r], pc[r], item[r])
      /\ Trail(r, trace[r]) /\ cert[r] \in Certs \cup {NoCert}
  BY <1>1, ReportFacts, InstallFacts, QuietTrail, RunFacts
<1>3. CASE Raise(r, item[r], InstallError(r))
  <2>1. MayRaise(r, item[r], trace[r], "install")
    BY <1>2 DEF MayRaise, TextTrue, MildErrors
  <2>2. Raise(r, item[r], "install")
    BY <1>3, PreInstallErrors
  <2> QED BY <1>2, <2>1, <2>2, RaiseReports
<1> DEFINE conf == InstallationConfirmed(item[r], cert[r])
           it == IF Json(r) THEN conf ELSE item[r]
           jt == IF Json(r) /\ ~Renewing(r)
                 THEN [it EXCEPT !.stage = "live_verification"] ELSE it
<1>4. CASE /\ ShownInstalled(r) /\ Proceed(r, jt, "live") /\ UNCHANGED <<name, key, cert>>
  <2>1. "install" \in trace[r]
    BY <1>1, <1>2, <1>4 DEF ServedOK, ShownInstalled
  <2>2. conf \in Items
    BY <1>2, InstallationConfirmedType
  <2>3. /\ conf.outcome = item[r].outcome /\ conf.change = "confirmed"
        /\ conf.ms["installation"] = "confirmed" /\ conf.ms["activation"] = "confirmed"
        /\ conf.ms["issuance"] = item[r].ms["issuance"] /\ conf.ms["csr"] = item[r].ms["csr"]
    BY <1>2, InstallationConfirmedFacts
  <2>4. Json(r) => it = conf
    OBVIOUS
  <2> HIDE DEF conf, it
  <2>5. Json(r) => jt.outcome = conf.outcome /\ jt.change = conf.change /\ jt.ms = conf.ms
    BY <2>2, <2>4 DEF Items, Item
  <2> HIDE DEF jt
  <2>6. TraceOK(op[r], "live", trace[r], "none")
    BY <2>1 DEF TraceOK, EarlyPCs, LatePCs, Over
  <2>7. ASSUME Json(r) PROVE ItemOK(op[r], "live", jt, trace[r], "none")
    <3>1. Supported(jt, trace[r])
      BY <1>2, <2>1, <2>3, <2>5, <2>7 DEF Supported
    <3>2. Passed(op[r], "live", jt)
      BY <1>1, <1>2, <2>3, <2>5, <2>7 DEF Passed, InstallPCs
    <3>3. jt.outcome = "failure_pre_attempt" /\ jt.change = "confirmed"
          /\ jt.ms["installation"] = "confirmed"
      BY <1>2, <2>3, <2>5, <2>7
    <3> QED BY <3>1, <3>2, <3>3 DEF ItemOK, Over
  <2>8. MayProceed(r, jt, "live", trace[r]) /\ "live" \notin Watched
    BY <2>6, <2>7 DEF MayProceed, Watched, Over
  <2>9. Own(r)
    BY <1>4 DEF Own
  <2> QED BY <1>2, <1>4, <2>8, <2>9, ProceedReports
<1> QED BY <1>3, <1>4 DEF InstallVerify

\* verify_live_https_certificate
LEMMA VerifyLiveReports ==
  ASSUME ReportInv, NEW r \in Runs, VerifyLive(r)
  PROVE  Reports(r)
<1>1. /\ pc[r] = "live" /\ UNCHANGED trace /\ UNCHANGED active
      /\ pc[r] \notin Over /\ pc[r] \notin Over \cup {"gen_fetch", "inst_verify"}
  BY DEF VerifyLive, Over, NoRemoteChange
<1>2. /\ RenewalInv /\ RunOK(r) /\ item[r] \in Items /\ Alike(item[r], item[r])
      /\ Trail(r, trace[r])
  BY <1>1, ReportFacts, QuietTrail DEF Alike
<1>3. CASE \E e \in {"live", "other"} : Raise(r, item[r], e)
  <2>1. PICK e \in {"live", "other"} : Raise(r, item[r], e)
    BY <1>3
  <2>2. TextTrue(op[r], trace[r], e) /\ e \notin MildErrors \cup {"none"}
    BY DEF TextTrue, MildErrors
  <2> QED BY <1>1, <1>2, <2>1, <2>2, LaterRaise
<1> DEFINE it == Note(r, item[r], "live_tls_confirmed")
<1>4. CASE /\ active[Dev(r)].cert = cert[r] /\ Succeed(r, it, "success_changed")
  <2>1. "install" \in trace[r]
    BY <1>1, <1>2 DEF RunOK, TraceOK
  <2>2. it \in Items
    BY <1>2, NoteType DEF Events
  <2>3. Json(r) => AfterEvent(it, item[r], "live_tls_confirmed")
    BY <1>2, ProgressFacts DEF Events, Note
  <2> HIDE DEF it
  <2>4. ASSUME Json(r)
        PROVE  /\ Supported(it, trace[r])
               /\ it.change = "none" => trace[r] \cap Effects = {}
               /\ it.ms["installation"] # "not_attempted"
               /\ \A m \in MilestoneNames :
                     it.ms[m] = "confirmed" \/ (m = "issuance" /\ op[r] = "install")
    <3>1. ItemOK(op[r], "live", item[r], trace[r], err[r])
      BY <1>1, <1>2, <2>4 DEF RunOK
    <3>2. Supported(it, trace[r])
      BY <2>3, <2>4, <3>1 DEF ItemOK, Supported, AfterEvent
    <3>3. it.change = "none" => trace[r] \cap Effects = {}
      BY <2>3, <2>4, <3>1 DEF ItemOK, AfterEvent
    <3>4. /\ item[r].ms["csr"] = "confirmed"
          /\ item[r].ms["issuance"] = "confirmed" \/ op[r] = "install"
          /\ item[r].ms["installation"] = "confirmed" /\ item[r].ms["activation"] = "confirmed"
      BY <3>1 DEF ItemOK, Passed, InstallPCs
    <3>5. /\ it.ms["csr"] = "confirmed" /\ it.ms["live_tls"] = "confirmed"
          /\ it.ms["issuance"] = "confirmed" \/ op[r] = "install"
          /\ it.ms["installation"] = "confirmed" /\ it.ms["activation"] = "confirmed"
      BY <2>3, <2>4, <3>4 DEF AfterEvent
    <3> QED BY <3>2, <3>3, <3>5 DEF MilestoneNames
  <2>5. TextTrue(op[r], trace[r], "none") /\ "success_changed" \notin Failures
    BY DEF TextTrue, Failures
  <2>6. active'[Dev(r)].cert = cert[r]
    BY <1>1, <1>4
  <2> QED BY <1>1, <1>2, <1>4, <2>1, <2>2, <2>4, <2>5, <2>6, SucceedReports
<1> QED BY <1>3, <1>4 DEF VerifyLive

-----------------------------------------------------------------------------
(* The beginning and the end of an invocation.                             *)

\* The lock is closed: a failure to release it changes what is asked for, not what is
\* reported to have happened.
LEMMA UnlockReports ==
  ASSUME ReportInv, NEW r \in Runs, Unlock(r)
  PROVE  Reports(r)
<1>1. /\ pc[r] = "unlock" /\ pc[r] \in Over /\ UNCHANGED <<op, mode, cert, trace>>
  BY DEF Unlock, Over
<1>2. RenewalInv /\ RunOK(r) /\ item[r] \in Items
  BY ReportFacts
<1>3. /\ pc'[r] = "done"
      /\ \A q \in Runs : q # r => pc'[q] = pc[q] /\ name'[q] = name[q]
  BY <1>2 DEF Unlock, Goto, RenewalInv, TypeOK
<1> DEFINE lost == ReleaseFailedItem(item[r])
<1>4. \/ UNCHANGED <<item, err>>
      \/ /\ item' = [item EXCEPT ![r] = IF Json(r) THEN lost ELSE item[r]]
         /\ err' = [err EXCEPT ![r] = IF @ = "none" THEN "release" ELSE @]
  BY DEF Unlock, SetItem
<1>5. /\ lost.outcome \in Failures /\ lost.recovery /\ lost.change = item[r].change
      /\ lost.ms["issuance"] = item[r].ms["issuance"]
      /\ lost.ms["installation"] = item[r].ms["installation"]
  BY <1>2, ReleaseFailedFacts
<1> HIDE DEF lost
<1>6. \A q \in Runs : q # r => item'[q] = item[q] /\ err'[q] = err[q]
  BY <1>2, <1>4 DEF RenewalInv, TypeOK
<1>7. Alone(r)
  BY <1>1, <1>3, <1>6 DEF Alone, Stays
<1>8. \/ item'[r] = item[r] /\ err'[r] = err[r]
      \/ /\ Json(r) => item'[r] = lost
         /\ err'[r] = IF err[r] = "none" THEN "release" ELSE err[r]
  BY <1>2, <1>4 DEF RenewalInv, TypeOK
<1>9. TextTrue(op[r], trace[r], err[r])
  BY <1>1, <1>2 DEF RunOK, TraceOK
<1>10. TraceOK(op[r], "done", trace[r], err'[r])
  BY <1>8, <1>9 DEF TraceOK, TextTrue, Over, LatePCs, EarlyPCs
<1>11. ASSUME Json(r) PROVE ItemOK(op[r], "done", item'[r], trace[r], err'[r])
  <2>1. ItemOK(op[r], "unlock", item[r], trace[r], err[r])
    BY <1>1, <1>2, <1>11 DEF RunOK
  <2>2. CASE item'[r] = item[r] /\ err'[r] = err[r]
    BY <2>1, <2>2 DEF ItemOK, Passed, Over, InstallPCs
  <2>3. CASE item'[r] = lost
    <3>1. Supported(lost, trace[r])
      BY <1>5, <2>1 DEF ItemOK, Supported
    <3>2. Promise(op[r], lost, trace[r], err'[r])
      BY <1>5 DEF Promise, Failures
    <3>3. /\ lost.change = "none" => trace[r] \cap Effects = {}
          /\ lost.ms["installation"] = "not_attempted" => "install" \notin trace[r]
      BY <1>5, <2>1 DEF ItemOK
    <3> QED BY <2>3, <3>1, <3>2, <3>3 DEF ItemOK, Passed, Over, InstallPCs
  <2> QED BY <1>8, <1>11, <2>2, <2>3
<1>12. RunOK(r)'
  BY <1>1, <1>3, <1>10, <1>11 DEF RunOK, Json
<1>13. ServedOK(r)'
  BY <1>3 DEF ServedOK
<1> QED BY <1>7, <1>12, <1>13 DEF Reports

\* A new item is true of an invocation that has done nothing.
LEMMA NewItemReports ==
  ASSUME NEW o, NEW p \in {"new", "creds", "lock", "crashed"}, NEW t, t \cap Effects = {}
  PROVE  TraceOK(o, p, t, "none") /\ ItemOK(o, p, NewItem(NoCert), t, "none")
<1> DEFINE j == NewItem(NoCert)
<1>1. /\ j.outcome = "failure_pre_attempt"
      /\ j.ms["issuance"] = "not_attempted" /\ j.ms["installation"] = "not_attempted"
  BY NewItemFacts DEF MilestoneNames
<1> HIDE DEF j
<1>2. "issue" \notin t /\ "install" \notin t
  BY DEF Effects
<1>3. p \notin Over
  BY DEF Over
<1>4. TraceOK(o, p, t, "none")
  BY <1>2, <1>3 DEF TraceOK
<1>5. Supported(j, t)
  BY <1>1, <1>2 DEF Supported
<1>6. ItemOK(o, p, j, t, "none")
  BY <1>1, <1>2, <1>3, <1>5 DEF ItemOK, Passed, InstallPCs
<1> QED BY <1>4, <1>6 DEF j

\* The command line.
LEMMA StartReports ==
  ASSUME ReportInv, NEW r \in Runs, Start(r)
  PROVE  Reports(r)
<1>1. pc[r] = "new" /\ UNCHANGED <<err, item, trace>>
  BY DEF Start
<1>2. RenewalInv /\ RunOK(r)
  BY ReportFacts
<1>3. PICK o \in Ops, m \in Modes, l \in {"creds", "lock"} :
        /\ op' = [op EXCEPT ![r] = o] /\ mode' = [mode EXCEPT ![r] = m]
        /\ pc' = [pc EXCEPT ![r] = l]
  BY DEF Start, Goto
<1>4. \A q \in Runs : q # r => name'[q] = name[q] /\ cert'[q] = cert[q]
  BY <1>2 DEF Start, RenewalInv, TypeOK
<1>5. \A q \in Runs : q # r => pc'[q] = pc[q] /\ op'[q] = op[q] /\ mode'[q] = mode[q]
  BY <1>2, <1>3 DEF RenewalInv, TypeOK
<1>6. pc'[r] = l
  BY <1>2, <1>3 DEF RenewalInv, TypeOK
<1>7. Alone(r)
  BY <1>1, <1>4, <1>5 DEF Alone, Stays
<1>8. item[r] = NewItem(NoCert) /\ err[r] = "none" /\ trace[r] \cap Effects = {}
  BY <1>1, <1>2 DEF RunOK, TraceOK, EarlyPCs, Over
<1>9. TraceOK(op'[r], l, trace[r], "none") /\ ItemOK(op'[r], l, item[r], trace[r], "none")
  BY <1>8, NewItemReports
<1>10. RunOK(r)'
  BY <1>1, <1>6, <1>8, <1>9 DEF RunOK
<1>11. ServedOK(r)'
  BY <1>6 DEF ServedOK
<1> QED BY <1>7, <1>10, <1>11 DEF Reports

\* The process is killed.
LEMMA CrashReports ==
  ASSUME ReportInv, NEW r \in Runs, Crash(r)
  PROVE  Reports(r)
<1>1. RenewalInv
  BY ReportFacts
<1>2. /\ \A q \in Runs : q # r => pc'[q] = pc[q] /\ op'[q] = op[q] /\ mode'[q] = mode[q]
      /\ pc'[r] = "crashed"
  BY <1>1 DEF Crash, Goto, RenewalInv, TypeOK
<1>3. \A q \in Runs : q # r => name'[q] = name[q] /\ cert'[q] = cert[q]
  BY <1>1 DEF Crash, RenewalInv, TypeOK
<1>4. /\ \A q \in Runs : q # r => err'[q] = err[q] /\ item'[q] = item[q]
      /\ err'[r] = "none" /\ item'[r] = NewItem(NoCert)
  BY <1>1 DEF Crash, SetItem, RenewalInv, TypeOK
<1>5. /\ \A q \in Runs : q # r => trace'[q] = trace[q]
      /\ trace'[r] = {}
  BY <1>1 DEF Crash, RenewalInv, TypeOK
<1>6. Alone(r)
  BY <1>2, <1>3, <1>4, <1>5 DEF Alone, Stays
<1>7. {} \cap Effects = {}
  OBVIOUS
<1>8. /\ TraceOK(op'[r], "crashed", {}, "none")
      /\ ItemOK(op'[r], "crashed", NewItem(NoCert), {}, "none")
  BY <1>7, NewItemReports
<1>9. RunOK(r)'
  BY <1>2, <1>4, <1>5, <1>8 DEF RunOK
<1>10. ServedOK(r)'
  BY <1>2 DEF ServedOK
<1> QED BY <1>6, <1>9, <1>10 DEF Reports

-----------------------------------------------------------------------------
(* The steps that change the switch.                                       *)

\* Removing CSRs keeps names and keys apart.
LEMMA FewerCSRs ==
  ASSUME ReportInv, NEW d \in Devices, pend'[d] \subseteq pend[d], active'[d] = active[d],
         fresh' = fresh
  PROVE  SwitchOK(d)'
  BY DEF ReportInv, SwitchOK

\* A new CSR has a name that was free and a new key.
LEMMA NewCSR ==
  ASSUME ReportInv, NEW d \in Devices, NEW c \in CSRs, ~NameExists(d, c.name),
         c.key = fresh, pend'[d] = pend[d] \cup {c}, active'[d] = active[d],
         fresh' = fresh + 1
  PROVE  SwitchOK(d)'
<1>1. SwitchOK(d) /\ RenewalInv
  BY DEF ReportInv
<1>2. /\ \A b \in pend[d] : b.name # c.name
      /\ c.name # active[d].name
  BY DEF NameExists
<1>3. fresh \in Nat /\ active[d].cert.key \in Nat /\ \A b \in pend[d] : b.key \in Nat
  BY <1>1 DEF RenewalInv, TypeOK, Installed, Certs, CSRs
<1>4. \A b \in pend[d] : b.key # c.key
  <2>1. \A b \in pend[d] : b.key < fresh
    BY <1>1 DEF RenewalInv, NumbersAreOld
  <2> QED BY <1>3, <2>1
<1>5. c.key # active[d].cert.key /\ active[d].cert.key < fresh + 1
  BY <1>1, <1>3 DEF SwitchOK
<1>6. \A a, b \in pend'[d] : a.name = b.name \/ a.key = b.key => a = b
  BY <1>1, <1>2, <1>4 DEF SwitchOK
<1>7. \A b \in pend'[d] : b.name # active[d].name /\ b.key # active[d].cert.key
  BY <1>1, <1>2, <1>5 DEF SwitchOK
<1> QED BY <1>5, <1>6, <1>7 DEF SwitchOK

\* Nothing happens to a switch but that numbers are used up.
LEMMA OtherSwitch ==
  ASSUME ReportInv, NEW d \in Devices, pend'[d] = pend[d], active'[d] = active[d],
         fresh' = fresh \/ fresh' = fresh + 1
  PROVE  SwitchOK(d)'
<1>1. SwitchOK(d) /\ active[d].cert.key \in Nat /\ fresh \in Nat
  BY DEF ReportInv, RenewalInv, TypeOK, Installed, Certs
<1> QED BY <1>1 DEF SwitchOK

\* GenerateCreate
LEMMA GenerateCreateReport ==
  ASSUME ReportInv, RenewalInv', NEW r \in Runs, GenerateCreate(r)
  PROVE  ReportInv'
<1>1. Reports(r) /\ UNCHANGED active
  BY GenerateCreateReports DEF GenerateCreate
<1>2. CASE UNCHANGED <<pend, fresh>>
  BY <1>1, <1>2, QuietReport
<1>3. CASE SwitchCreatesCSR(r)
  <2> DEFINE c == [name |-> name[r], key |-> fresh, by |-> r]
  <2>1. RenewalInv /\ Dev(r) \in Devices
    BY ReportFacts
  <2>2. c \in CSRs /\ c.name = name[r] /\ c.key = fresh
    BY <2>1 DEF RenewalInv, TypeOK, CSRs
  <2>3. pend' = [pend EXCEPT ![Dev(r)] = @ \cup {c}] /\ fresh' = fresh + 1
        /\ ~NameExists(Dev(r), name[r])
    BY <1>3 DEF SwitchCreatesCSR
  <2> HIDE DEF c
  <2>4. pend'[Dev(r)] = pend[Dev(r)] \cup {c}
    BY <2>1, <2>3 DEF RenewalInv, TypeOK
  <2>5. \A d \in Devices : d # Dev(r) => pend'[d] = pend[d]
    BY <2>1, <2>3 DEF RenewalInv, TypeOK
  <2>6. SwitchOK(Dev(r))'
    BY <1>1, <2>1, <2>2, <2>3, <2>4, NewCSR DEF Dev
  <2>7. \A d \in Devices : d # Dev(r) => SwitchOK(d)'
    BY <1>1, <2>3, <2>5, OtherSwitch
  <2>8. \A q \in Runs : RunOK(q)' /\ ServedOK(q)'
    BY <1>1, OthersKeep DEF Reports
  <2>9. \A d \in Devices : SwitchOK(d)'
    BY <2>6, <2>7 DEF Dev
  <2> QED BY <2>8, <2>9 DEF ReportInv
<1> QED BY <1>2, <1>3 DEF GenerateCreate

\* While r installs on a switch no other invocation is in ServedOK's care there.
LEMMA InstallerIsAlone ==
  ASSUME ReportInv, NEW r \in Runs, pc[r] = "inst_confirm", NEW q \in Runs, q # r,
         Dev(q) = Dev(r), Stays(q)
  PROVE  ServedOK(q)'
<1>1. RenewalInv /\ ServedOK(q)
  BY ReportFacts
<1>2. holder[Dev(r)] = {r}
  BY InstallFacts
<1>3. pc[q] \in BodyPCs => ~Locked(q)
  BY <1>1, <1>2, RunFacts
<1>4. pc[q] \notin {"inst_validate", "inst_recheck", "inst_paste", "inst_confirm",
                    "inst_verify"}
  BY <1>2, InstallFacts
<1>5. ~(pc[q] = "unlock" /\ op[q] \in RenewOps \cup {"install"})
  BY <1>3 DEF BodyPCs, PCs, Locked, LockedOps, RenewOps
<1> QED BY <1>1, <1>4, <1>5 DEF ServedOK, Stays

\* InstallConfirm
LEMMA InstallConfirmReport ==
  ASSUME ReportInv, RenewalInv', NEW r \in Runs, InstallConfirm(r)
  PROVE  ReportInv'
<1>1. Reports(r) /\ fresh' = fresh /\ pc[r] = "inst_confirm"
  BY InstallConfirmReports DEF InstallConfirm
<1>2. CASE UNCHANGED <<pend, active>>
  BY <1>1, <1>2, QuietReport
<1>3. CASE SwitchInstalls(r)
  <2>1. PICK c \in Answered(r) :
          /\ pend' = [pend EXCEPT ![Dev(r)] = @ \ {c}]
          /\ active' = [active EXCEPT ![Dev(r)] = [name |-> c.name, cert |-> cert[r]]]
    BY <1>3 DEF SwitchInstalls
  <2>2. RenewalInv /\ Dev(r) \in Devices /\ SwitchOK(Dev(r))
    BY ReportFacts
  <2>3. c \in pend[Dev(r)] /\ cert[r].key = c.key
    BY DEF Answered, Matches
  <2>4. cert[r].key < fresh
    <3>1. HasIssued(op[r], pc[r])
      BY <1>1 DEF HasIssued, InstallPCs
    <3>2. cert[r] \in issued
      BY <2>2, <3>1, RunFacts
    <3> QED BY <2>2, <3>2 DEF RenewalInv, NumbersAreOld
  <2>5. /\ pend'[Dev(r)] = pend[Dev(r)] \ {c}
        /\ \A d \in Devices : d # Dev(r) => pend'[d] = pend[d]
    BY <2>1, <2>2 DEF RenewalInv, TypeOK
  <2>6. /\ active'[Dev(r)] = [name |-> c.name, cert |-> cert[r]]
        /\ \A d \in Devices : d # Dev(r) => active'[d] = active[d]
    BY <2>1, <2>2 DEF RenewalInv, TypeOK
  <2>7. active'[Dev(r)].name = c.name /\ active'[Dev(r)].cert.key = c.key
    BY <2>3, <2>6
  <2>8. active'[Dev(r)].cert.key < fresh'
    BY <1>1, <2>3, <2>4, <2>7
  <2>9. /\ \A a, b \in pend'[Dev(r)] : a.name = b.name \/ a.key = b.key => a = b
        /\ \A b \in pend'[Dev(r)] : b.name # c.name /\ b.key # c.key
    BY <2>2, <2>3, <2>5 DEF SwitchOK
  <2>10. \A d \in Devices : d = Dev(r) => SwitchOK(d)'
    BY <2>7, <2>8, <2>9 DEF SwitchOK
  <2>11. \A d \in Devices : d # Dev(r) => SwitchOK(d)'
    BY <1>1, <2>5, <2>6, OtherSwitch
  <2>12. ASSUME NEW q \in Runs, q # r PROVE RunOK(q)' /\ ServedOK(q)'
    <3>1. RunOK(q)' /\ (active'[Dev(q)] = active[Dev(q)] => ServedOK(q)')
      BY <1>1, <2>12, OthersKeep DEF Reports
    <3>2. Dev(q) \in Devices /\ Stays(q)
      BY <1>1, <2>12, ReportFacts DEF Reports, Alone
    <3>3. CASE Dev(q) = Dev(r)
      BY <1>1, <2>12, <3>1, <3>2, <3>3, InstallerIsAlone
    <3>4. CASE Dev(q) # Dev(r)
      BY <2>6, <3>1, <3>2, <3>4
    <3> QED BY <3>3, <3>4
  <2> QED BY <1>1, <2>10, <2>11, <2>12 DEF Reports, ReportInv
<1> QED BY <1>2, <1>3 DEF InstallConfirm

\* Reports do not depend on what happens to the CSRs of a switch.
LEMMA EnvironmentKeeps ==
  ASSUME ReportInv, UNCHANGED <<pc, op, mode, name, cert, err, item, trace, active>>
  PROVE  \A q \in Runs : RunOK(q)' /\ ServedOK(q)'
<1>1. \A q \in Runs : RunOK(q)'
  BY DEF ReportInv, RunOK, Json
<1>2. \A q \in Runs : ServedOK(q)'
  BY DEF ReportInv, ServedOK, Dev
<1> QED BY <1>1, <1>2

\* Reboot
LEMMA RebootReport ==
  ASSUME ReportInv, RenewalInv', NEW e \in Devices, Reboot(e)
  PROVE  ReportInv'
<1>1. \A q \in Runs : RunOK(q)' /\ ServedOK(q)'
  BY EnvironmentKeeps DEF Reboot
<1>2. \A d \in Devices : pend'[d] \subseteq pend[d] /\ active'[d] = active[d]
  BY DEF Reboot, ReportInv, RenewalInv, TypeOK
<1>3. \A d \in Devices : SwitchOK(d)'
  BY <1>2, FewerCSRs DEF Reboot
<1> QED BY <1>1, <1>3 DEF ReportInv

\* OperatorCSR
LEMMA OperatorCSRReport ==
  ASSUME ReportInv, RenewalInv', NEW e \in Devices, OperatorCSR(e)
  PROVE  ReportInv'
<1>1. \A q \in Runs : RunOK(q)' /\ ServedOK(q)'
  BY EnvironmentKeeps DEF OperatorCSR
<1>2. PICK n \in FreeNames(e) :
        pend' = [pend EXCEPT ![e] = @ \cup {[name |-> n, key |-> fresh, by |-> NoRun]}]
  BY DEF OperatorCSR
<1> DEFINE c == [name |-> n, key |-> fresh, by |-> NoRun]
<1>3. c \in CSRs /\ c.name = n /\ c.key = fresh /\ ~NameExists(e, n)
  BY <1>2 DEF FreeNames, CSRs, ReportInv, RenewalInv, TypeOK
<1>4. pend' = [pend EXCEPT ![e] = @ \cup {c}]
  BY <1>2
<1> HIDE DEF c
<1>5. /\ pend'[e] = pend[e] \cup {c}
      /\ \A d \in Devices : d # e => pend'[d] = pend[d]
  BY <1>4 DEF ReportInv, RenewalInv, TypeOK
<1>6. fresh' = fresh + 1 /\ \A d \in Devices : active'[d] = active[d]
  BY DEF OperatorCSR
<1>7. SwitchOK(e)'
  BY <1>3, <1>5, <1>6, NewCSR
<1>8. \A d \in Devices : d # e => SwitchOK(d)'
  BY <1>5, <1>6, OtherSwitch
<1> QED BY <1>1, <1>7, <1>8 DEF ReportInv

-----------------------------------------------------------------------------
(* The theorems.                                                           *)

\* The steps of an invocation that do not change the switch.
LEMMA QuietSteps ==
  ASSUME ReportInv, RenewalInv', NEW r \in Runs,
         Start(r) \/ Crash(r) \/ (Step(r) /\ ~GenerateCreate(r) /\ ~InstallConfirm(r))
  PROVE  ReportInv'
<1>1. CASE Start(r) \/ Crash(r)
  <2>1. Reports(r)
    BY <1>1, StartReports, CrashReports
  <2>2. UNCHANGED <<pend, active, fresh>>
    BY <1>1 DEF Start, Crash, NoRemoteChange
  <2> QED BY <2>1, <2>2, QuietReport
<1>2. CASE Credentials(r) \/ TakeLock(r) \/ LockFails(r) \/ Check(r) \/ Preflight(r)
  <2>1. Reports(r)
    BY <1>2, CredentialsReports, TakeLockReports, LockFailsReports, CheckReports,
       PreflightReports
  <2>2. UNCHANGED <<pend, active, fresh>>
    BY <1>2 DEF Credentials, TakeLock, LockFails, Check, Preflight, NoRemoteChange
  <2> QED BY <2>1, <2>2, QuietReport
<1>3. CASE GenerateInspect(r) \/ GenerateFetch(r) \/ FetchObserve(r) \/ FetchDetail(r)
           \/ ResolveCA(r)
  <2>1. Reports(r)
    BY <1>3, GenerateInspectReports, GenerateFetchReports, FetchObserveReports,
       FetchDetailReports, ResolveCAReports
  <2>2. UNCHANGED <<pend, active, fresh>>
    BY <1>3 DEF GenerateInspect, GenerateFetch, FetchObserve, FetchDetail, ResolveCA,
       NoRemoteChange
  <2> QED BY <2>1, <2>2, QuietReport
<1>4. CASE PostCSR(r)
  <2>1. UNCHANGED <<pend, active>> /\ (fresh' = fresh \/ fresh' = fresh + 1)
    BY <1>4 DEF PostCSR, OPNsenseIssues
  <2> QED BY <1>4, <2>1, PostCSRReports, QuietReport
<1>5. CASE GetCertificate(r) \/ WriteOutput(r) \/ InstallObserve(r) \/ InstallValidate(r)
           \/ InstallRecheck(r) \/ InstallPaste(r)
  <2>1. Reports(r)
    BY <1>5, GetCertificateReports, WriteOutputReports, InstallObserveReports,
       InstallValidateReports, InstallPasteReports
  <2>2. UNCHANGED <<pend, active, fresh>>
    BY <1>5 DEF GetCertificate, WriteOutput, InstallObserve, InstallValidate,
       InstallRecheck, InstallPaste, NoRemoteChange
  <2> QED BY <2>1, <2>2, QuietReport
<1>6. CASE InstallVerify(r) \/ VerifyLive(r) \/ Unlock(r)
  <2>1. Reports(r)
    BY <1>6, InstallVerifyReports, VerifyLiveReports, UnlockReports
  <2>2. UNCHANGED <<pend, active, fresh>>
    BY <1>6 DEF InstallVerify, VerifyLive, Unlock, NoRemoteChange
  <2> QED BY <2>1, <2>2, QuietReport
<1> QED BY <1>1, <1>2, <1>3, <1>4, <1>5, <1>6 DEF Step

\* The invariant holds initially.
LEMMA ReportInitInv == Init => ReportInv
<1> SUFFICES ASSUME Init PROVE ReportInv
  OBVIOUS
<1>1. RenewalInv
  BY RenewalInitInv
<1>2. ASSUME NEW r \in Runs PROVE RunOK(r) /\ ServedOK(r)
  <2>1. pc[r] = "new" /\ err[r] = "none" /\ item[r] = NewItem(NoCert) /\ trace[r] = {}
    BY DEF Init
  <2>2. {} \cap Effects = {}
    OBVIOUS
  <2>3. TraceOK(op[r], "new", {}, "none") /\ ItemOK(op[r], "new", NewItem(NoCert), {}, "none")
    BY <2>2, NewItemReports
  <2> QED BY <2>1, <2>3 DEF RunOK, ServedOK
<1>3. ASSUME NEW d \in Devices PROVE SwitchOK(d)
  <2>1. PICK a \in [Devices -> (Names \ OtherNames) \cup {0}],
             p \in [Devices -> (Names \ OtherNames) \cup {0}] :
          /\ active = [e \in Devices |-> [name |-> a[e], cert |-> OldCert(e)]]
          /\ \A e \in Devices : p[e] = 0 \/ p[e] # a[e]
          /\ pend = [e \in Devices |-> IF p[e] = 0 THEN {} ELSE {LeftCSR(p[e])}]
    BY DEF Init
  <2>2. active[d] = [name |-> a[d], cert |-> OldCert(d)]
    BY <2>1
  <2>3. active[d].name = a[d] /\ active[d].cert.key = 1 /\ fresh = 3
    BY <2>2 DEF OldCert, Init
  <2>4. \A c \in pend[d] : c = LeftCSR(p[d]) /\ p[d] # 0
    BY <2>1
  <2>5. LeftCSR(p[d]).name = p[d] /\ LeftCSR(p[d]).key = 2
    BY DEF LeftCSR
  <2>6. \A b, c \in pend[d] : b = c
    BY <2>4
  <2>7. \A c \in pend[d] : c.name # active[d].name /\ c.key # active[d].cert.key
    BY <2>1, <2>3, <2>4, <2>5
  <2>8. active[d].cert.key < fresh
    BY <2>3
  <2> QED BY <2>6, <2>7, <2>8 DEF SwitchOK
<1> QED BY <1>1, <1>2, <1>3 DEF ReportInv

\* Every step keeps it.
LEMMA ReportStepInv == ReportInv /\ [Next]_vars => ReportInv'
<1> SUFFICES ASSUME ReportInv, [Next]_vars PROVE ReportInv'
  OBVIOUS
<1>1. RenewalInv'
  BY RenewalStepInv DEF ReportInv
<1>2. ASSUME NEW r \in Runs, Start(r) \/ Step(r) \/ Crash(r) PROVE ReportInv'
  BY <1>1, <1>2, QuietSteps, GenerateCreateReport, InstallConfirmReport
<1>3. ASSUME NEW d \in Devices, Reboot(d) \/ OperatorCSR(d) PROVE ReportInv'
  BY <1>1, <1>3, RebootReport, OperatorCSRReport
<1>4. CASE UNCHANGED vars
  <2>1. \A q \in Runs : RunOK(q)' /\ ServedOK(q)'
    BY <1>4, EnvironmentKeeps DEF vars
  <2>2. \A d \in Devices : SwitchOK(d)'
    BY <1>4, FewerCSRs DEF vars
  <2> QED BY <1>1, <2>1, <2>2 DEF ReportInv
<1> QED BY <1>2, <1>3, <1>4 DEF Next

\* In every reachable state the history, the item and the exception of every invocation
\* agree, wherever it is, and its switch keeps CSRs and certificates apart.
THEOREM ReportInvariant == Spec => []ReportInv
  BY ReportInitInv, ReportStepInv, PTL DEF Spec

\* A finished JSON result with change=none is the truth (_json_failure, _json_progress and
\* where the lifecycle calls them), whatever answers were lost.
THEOREM NoChangeIsTrueTheorem == Spec => []NoChangeIsTrue
<1>1. ReportInv => NoChangeIsTrue
  BY DEF ReportInv, RunOK, ItemOK, NoChangeIsTrue, Ended, Did
<1> QED BY <1>1, ReportInvariant, PTL

\* The milestones of a finished JSON result are never better than the facts.
THEOREM MilestonesAreTrueTheorem == Spec => []MilestonesAreTrue
<1>1. ReportInv => MilestonesAreTrue
  BY DEF ReportInv, RunOK, ItemOK, Supported, MilestonesAreTrue, Ended
<1> QED BY <1>1, ReportInvariant, PTL

\* A failed JSON result whose invocation changed anything asks for manual recovery.
THEOREM UnfinishedWorkIsFlaggedTheorem == Spec => []UnfinishedWorkIsFlagged
<1>1. ReportInv => UnfinishedWorkIsFlagged
  BY DEF ReportInv, RunOK, ItemOK, Promise, UnfinishedWorkIsFlagged, Ended, Failed, Did, Over
<1> QED BY <1>1, ReportInvariant, PTL

\* success_changed is reported only by an invocation that installed, confirmed its
\* milestones, raised nothing and gave up its lock.
THEOREM SuccessIsCompleteTheorem == Spec => []SuccessIsComplete
<1>1. ReportInv => SuccessIsComplete
  BY DEF ReportInv, RunOK, ItemOK, Promise, SuccessIsComplete, Ended, Over
<1> QED BY <1>1, ReportInvariant, PTL

\* While a successful renewal holds its lock, the switch serves the certificate that it
\* installed, and no CSR of it is left.
THEOREM SuccessIsServedTheorem == Spec => []SuccessIsServed
<1>1. ASSUME ReportInv PROVE SuccessIsServed
  <2>1. ASSUME NEW r \in Runs, pc[r] = "unlock", err[r] = "none",
               op[r] \in RenewOps \cup {"install"}, item[r].due # "false"
        PROVE  /\ active[Dev(r)].cert = cert[r]
               /\ \A c \in pend[Dev(r)] : c.key # cert[r].key
    <3>1. ServedOK(r) /\ SwitchOK(Dev(r))
      BY <1>1, ReportFacts
    <3>2. active[Dev(r)].cert = cert[r]
      BY <2>1, <3>1 DEF ServedOK
    <3> QED BY <3>1, <3>2 DEF SwitchOK
  <2> QED BY <2>1 DEF SuccessIsServed
<1> QED BY <1>1, ReportInvariant, PTL

-----------------------------------------------------------------------------
(* The CSR that a failed renewal speaks of.                                *)

\* The steps of a renewal from the reading of its CSR to the installation.
WaitingPCs == {"fetch_observe", "fetch_detail", "resolve", "post", "get", "inst_observe",
               "inst_validate", "inst_recheck"}

\* r is between the reading of its CSR and the installation, or says that the CSR is left.
NeedsCSR(r) == (Renewing(r) /\ pc[r] \in WaitingPCs) \/ SaysCSRRemains(r)

\* Unless somebody disturbs the switch, its CSR is there all that time.
CSRStays ==
    disturb = 0 => \A r \in Runs : NeedsCSR(r) => PendingAs(Dev(r), name[r]) # {}

\* All that time r has the lock of its switch.
LEMMA NeedsIsAlone ==
  ASSUME RenewalInv, NEW r \in Runs, NeedsCSR(r)
  PROVE  holder[Dev(r)] = {r}
<1>1. pc[r] \in BodyPCs /\ Locked(r)
  BY DEF NeedsCSR, SaysCSRRemains, WaitingPCs, BodyPCs, PCs, Renewing, RenewOps, Locked,
     LockedOps
<1> QED BY <1>1, RunFacts

\* Nothing changes for an invocation that takes no step, as long as its CSRs are there.
LEMMA OtherNeeds ==
  ASSUME CSRStays, NEW q \in Runs, Stays(q), disturb' = disturb,
         NeedsCSR(q) => pend[Dev(q)] \subseteq pend'[Dev(q)],
         disturb' = 0, NeedsCSR(q)'
  PROVE  (PendingAs(Dev(q), name[q]) # {})'
<1>1. NeedsCSR(q) /\ name'[q] = name[q]
  BY DEF NeedsCSR, SaysCSRRemains, Renewing, Stays
<1>2. PICK c \in pend[Dev(q)] : c.name = name[q]
  BY <1>1 DEF CSRStays, PendingAs
<1> QED BY <1>1, <1>2 DEF PendingAs, Dev

\* An exception that leaves r saying that its CSR remains.
LEMMA RaiseNeeds ==
  ASSUME ReportInv, NEW r \in Runs, NEW it, NEW e, Raise(r, it, e), NeedsCSR(r)'
  PROVE  Renewing(r) /\ e \in {"signing", "pre_install"} /\ name'[r] = name[r]
<1>1. /\ pc'[r] \in Over /\ err'[r] = e /\ op'[r] = op[r] /\ name'[r] = name[r]
  <2>1. RenewalInv
    BY DEF ReportInv
  <2>2. pc'[r] \in Over
    BY <2>1 DEF Raise, EndBody, Goto, Over, RenewalInv, TypeOK
  <2>3. err'[r] = e
    BY <2>1 DEF Raise, RenewalInv, TypeOK
  <2> QED BY <2>2, <2>3 DEF Raise
<1> QED BY <1>1 DEF NeedsCSR, SaysCSRRemains, WaitingPCs, Renewing, Over

\* A success says nothing of a CSR.
LEMMA SucceedNeeds ==
  ASSUME ReportInv, NEW r \in Runs, pc[r] \notin Over, NEW it, NEW o, Succeed(r, it, o)
  PROVE  ~NeedsCSR(r)'
<1>1. RenewalInv /\ err[r] = "none"
  BY ReportFacts
<1>2. pc'[r] \in Over /\ err'[r] = "none"
  BY <1>1 DEF Succeed, EndBody, Goto, Over, RenewalInv, TypeOK
<1> QED BY <1>2 DEF NeedsCSR, SaysCSRRemains, WaitingPCs, Over

\* A step forward.
LEMMA ProceedNeeds ==
  ASSUME ReportInv, NEW r \in Runs, NEW it, NEW l, l # "unlock", Proceed(r, it, l), NeedsCSR(r)'
  PROVE  \/ Renewing(r) /\ l \in WaitingPCs
         \/ op[r] = "generate_csr" /\ l = "write"
<1>1. pc'[r] = l /\ op'[r] = op[r]
  BY DEF Proceed, Goto, ReportInv, RenewalInv, TypeOK
<1> QED BY <1>1 DEF NeedsCSR, SaysCSRRemains, Renewing

\* Before its CSR is read, no step of r but GenerateFetch needs it.
LEMMA EarlyStepNeeds ==
  ASSUME ReportInv, NEW r \in Runs,
         \/ Start(r) \/ Crash(r) \/ Credentials(r) \/ TakeLock(r) \/ LockFails(r)
         \/ Check(r) \/ Preflight(r) \/ GenerateInspect(r) \/ GenerateCreate(r)
  PROVE  ~NeedsCSR(r)'
<1>1. RenewalInv /\ op[r] \in AllOps
  BY ReportFacts, RunFacts
<1>2. CASE Start(r)
  <2>1. pc'[r] \in {"creds", "lock"}
    BY <1>1, <1>2 DEF Start, Goto, RenewalInv, TypeOK
  <2> QED BY <2>1 DEF NeedsCSR, SaysCSRRemains, WaitingPCs
<1>3. CASE Crash(r)
  <2>1. pc'[r] = "crashed"
    BY <1>1, <1>3 DEF Crash, Goto, RenewalInv, TypeOK
  <2> QED BY <2>1 DEF NeedsCSR, SaysCSRRemains, WaitingPCs
<1>4. ASSUME EnterBody(r) PROVE ~NeedsCSR(r)'
  <2>1. BodyStart(op[r]) \in BodyPCs /\ MayBeAt(op[r], BodyStart(op[r]))
    BY <1>1, BodyStartFacts
  <2>2. /\ op[r] \in {"inspect", "renew_due"} => BodyStart(op[r]) = "check"
        /\ op[r] = "renew_now" => BodyStart(op[r]) = "preflight"
        /\ op[r] = "generate_csr" => BodyStart(op[r]) = "gen_inspect"
        /\ op[r] \in {"retrieve_csr", "sign_csr"} => BodyStart(op[r]) = "fetch_observe"
        /\ op[r] = "install" => BodyStart(op[r]) = "inst_observe"
    BY Zenon DEF BodyStart
  <2>3. BodyStart(op[r]) \notin {"unlock", "write"} /\ ~(Renewing(r) /\ BodyStart(op[r]) \in WaitingPCs)
    BY <1>1, <2>2 DEF AllOps, Renewing, RenewOps, WaitingPCs
  <2> QED BY <1>4, <2>3, ProceedNeeds DEF EnterBody
<1>5. CASE Credentials(r)
  BY <1>4, <1>5, RaiseNeeds, ProceedNeeds DEF Credentials, WaitingPCs
<1>6. CASE TakeLock(r)
  BY <1>4, <1>6, ProceedNeeds DEF TakeLock, WaitingPCs
<1>7. CASE LockFails(r)
  BY <1>7, RaiseNeeds DEF LockFails
<1>8. CASE Check(r)
  <2>1. pc[r] = "check" /\ pc[r] \notin Over /\ err[r] = "none"
    BY <1>8, ReportFacts DEF Check, Over
  <2>2. ASSUME EndBody(r), UNCHANGED err PROVE ~NeedsCSR(r)'
    <3>1. pc'[r] \in Over /\ err'[r] = "none"
      BY <1>1, <2>1, <2>2 DEF EndBody, Goto, Over, RenewalInv, TypeOK
    <3> QED BY <3>1 DEF NeedsCSR, SaysCSRRemains, WaitingPCs, Over
  <2> QED BY <1>8, <2>1, <2>2, RaiseNeeds, SucceedNeeds, ProceedNeeds DEF Check, WaitingPCs
<1>9. CASE Preflight(r)
  BY <1>9, RaiseNeeds, ProceedNeeds DEF Preflight, WaitingPCs, PreflightError, RawErrors
<1>10. CASE GenerateInspect(r)
  BY <1>10, RaiseNeeds, ProceedNeeds DEF GenerateInspect, WaitingPCs, GenerateError, RawErrors
<1>11. CASE GenerateCreate(r)
  BY <1>11, RaiseNeeds, ProceedNeeds DEF GenerateCreate, WaitingPCs, CreateError
<1> QED BY <1>2, <1>3, <1>5, <1>6, <1>7, <1>8, <1>9, <1>10, <1>11

\* Later a step of r needs only what was needed before it.
LEMMA LateStepNeeds ==
  ASSUME ReportInv, NEW r \in Runs,
         \/ FetchObserve(r) \/ FetchDetail(r) \/ ResolveCA(r) \/ PostCSR(r)
         \/ GetCertificate(r) \/ WriteOutput(r) \/ InstallObserve(r) \/ InstallValidate(r)
         \/ InstallRecheck(r) \/ InstallPaste(r) \/ InstallConfirm(r) \/ InstallVerify(r)
         \/ VerifyLive(r) \/ Unlock(r),
         NeedsCSR(r)'
  PROVE  NeedsCSR(r) /\ name'[r] = name[r]
<1>1. RenewalInv /\ op[r] \in AllOps /\ MayBeAt(op[r], pc[r])
  BY ReportFacts, RunFacts
<1>2. Renewing(r) /\ pc[r] \in WaitingPCs => NeedsCSR(r)
  BY DEF NeedsCSR
<1>3. CASE FetchObserve(r) \/ ResolveCA(r)
  BY <1>2, <1>3, RaiseNeeds, ProceedNeeds DEF FetchObserve, ResolveCA, WaitingPCs
<1>4. CASE FetchDetail(r)
  <2>1. pc[r] = "fetch_detail" /\ op[r] # "generate_csr"
    BY <1>1, <1>4 DEF FetchDetail, MayBeAt, RenewOr, RenewOps
  <2> QED BY <1>2, <1>4, <2>1, RaiseNeeds, ProceedNeeds DEF FetchDetail, WaitingPCs
<1>5. CASE PostCSR(r)
  BY <1>2, <1>5, RaiseNeeds, ProceedNeeds DEF PostCSR, WaitingPCs
<1>6. CASE GetCertificate(r)
  <2>1. pc[r] = "get" /\ op[r] # "generate_csr"
    BY <1>1, <1>6 DEF GetCertificate, MayBeAt, RenewOr, RenewOps
  <2> QED BY <1>2, <1>6, <2>1, RaiseNeeds, ProceedNeeds DEF GetCertificate, WaitingPCs
<1>7. CASE WriteOutput(r)
  <2>1. pc[r] = "write" /\ pc[r] \notin Over
    BY <1>7 DEF WriteOutput, Over
  <2> QED BY <1>7, <2>1, RaiseNeeds, SucceedNeeds DEF WriteOutput
<1>8. CASE InstallObserve(r)
  BY <1>2, <1>8, RaiseNeeds, ProceedNeeds DEF InstallObserve, WaitingPCs
<1>9. CASE InstallValidate(r)
  BY <1>2, <1>9, RaiseNeeds, ProceedNeeds DEF InstallValidate, WaitingPCs
<1>10. CASE InstallRecheck(r)
  BY <1>2, <1>10, RaiseNeeds, ProceedNeeds DEF InstallRecheck, WaitingPCs
<1>11. CASE InstallPaste(r) \/ InstallConfirm(r) \/ InstallVerify(r)
  BY <1>11, RaiseNeeds, ProceedNeeds DEF InstallPaste, InstallConfirm, InstallVerify,
     InstallError, WaitingPCs
<1>12. CASE VerifyLive(r)
  <2>1. pc[r] = "live" /\ pc[r] \notin Over
    BY <1>12 DEF VerifyLive, Over
  <2> QED BY <1>12, <2>1, RaiseNeeds, SucceedNeeds DEF VerifyLive
<1>13. CASE Unlock(r)
  <2>1. pc'[r] = "done"
    BY <1>1, <1>13 DEF Unlock, Goto, RenewalInv, TypeOK
  <2> QED BY <2>1 DEF NeedsCSR, SaysCSRRemains, WaitingPCs
<1> QED BY <1>3, <1>4, <1>5, <1>6, <1>7, <1>8, <1>9, <1>10, <1>11, <1>12, <1>13

\* No other invocation takes part in a step of r.
LEMMA StepIsAlone ==
  ASSUME ReportInv, NEW r \in Runs, Start(r) \/ Step(r) \/ Crash(r)
  PROVE  Alone(r)
<1>1. Reports(r) => Alone(r)
  BY DEF Reports
<1>2. CASE Start(r) \/ Crash(r) \/ Credentials(r) \/ TakeLock(r) \/ LockFails(r) \/ Check(r)
           \/ Preflight(r)
  BY <1>1, <1>2, StartReports, CrashReports, CredentialsReports, TakeLockReports,
     LockFailsReports, CheckReports, PreflightReports
<1>3. CASE GenerateInspect(r) \/ GenerateCreate(r) \/ GenerateFetch(r) \/ FetchObserve(r)
           \/ FetchDetail(r) \/ ResolveCA(r) \/ PostCSR(r)
  BY <1>1, <1>3, GenerateInspectReports, GenerateCreateReports, GenerateFetchReports,
     FetchObserveReports, FetchDetailReports, ResolveCAReports, PostCSRReports
<1>4. CASE GetCertificate(r) \/ WriteOutput(r) \/ InstallObserve(r) \/ InstallValidate(r)
           \/ InstallRecheck(r) \/ InstallPaste(r)
  BY <1>1, <1>4, GetCertificateReports, WriteOutputReports, InstallObserveReports,
     InstallValidateReports, InstallPasteReports
<1>5. CASE InstallConfirm(r) \/ InstallVerify(r) \/ VerifyLive(r) \/ Unlock(r)
  BY <1>1, <1>5, InstallConfirmReports, InstallVerifyReports, VerifyLiveReports,
     UnlockReports
<1> QED BY <1>2, <1>3, <1>4, <1>5 DEF Step

\* r takes no CSR away from an invocation that needs one.
LEMMA StepSparesOthers ==
  ASSUME ReportInv, NEW r \in Runs, Start(r) \/ Step(r) \/ Crash(r),
         NEW q \in Runs, q # r, NeedsCSR(q)
  PROVE  pend[Dev(q)] \subseteq pend'[Dev(q)]
<1>1. RenewalInv /\ Dev(r) \in Devices /\ Dev(q) \in Devices
  BY ReportFacts
<1>2. CASE UNCHANGED pend
  BY <1>2
<1>3. CASE GenerateCreate(r)
  BY <1>1, <1>3 DEF GenerateCreate, SwitchCreatesCSR, RenewalInv, TypeOK
<1>4. CASE InstallConfirm(r)
  <2>1. holder[Dev(r)] = {r} /\ holder[Dev(q)] = {q}
    BY <1>1, <1>4, InstallFacts, NeedsIsAlone DEF InstallConfirm
  <2>2. Dev(q) # Dev(r)
    BY <2>1
  <2> QED BY <1>1, <1>4, <2>2 DEF InstallConfirm, SwitchInstalls, RenewalInv, TypeOK
<1>5. CASE Start(r) \/ Crash(r) \/ Credentials(r) \/ TakeLock(r) \/ LockFails(r) \/ Check(r)
           \/ Preflight(r) \/ GenerateInspect(r) \/ GenerateFetch(r)
  BY <1>2, <1>5 DEF Start, Crash, Credentials, TakeLock, LockFails, Check, Preflight,
     GenerateInspect, GenerateFetch, NoRemoteChange
<1>6. CASE FetchObserve(r) \/ FetchDetail(r) \/ ResolveCA(r) \/ PostCSR(r)
           \/ GetCertificate(r) \/ WriteOutput(r) \/ InstallObserve(r) \/ InstallValidate(r)
           \/ InstallRecheck(r) \/ InstallPaste(r) \/ InstallVerify(r) \/ VerifyLive(r)
           \/ Unlock(r)
  BY <1>2, <1>6 DEF FetchObserve, FetchDetail, ResolveCA, PostCSR, GetCertificate,
     WriteOutput, InstallObserve, InstallValidate, InstallRecheck, InstallPaste,
     InstallVerify, VerifyLive, Unlock, NoRemoteChange
<1> QED BY <1>3, <1>4, <1>5, <1>6 DEF Step

\* Nor from itself, while it needs one.
LEMMA StepSparesOwn ==
  ASSUME ReportInv, CSRStays, NEW r \in Runs, Start(r) \/ Step(r) \/ Crash(r),
         disturb = 0, NeedsCSR(r)'
  PROVE  (PendingAs(Dev(r), name[r]) # {})'
<1>1. RenewalInv /\ Dev(r) \in Devices
  BY ReportFacts
<1>2. CASE GenerateFetch(r)
  <2>1. CASE Raise(r, item[r], CreateError(r))
    BY <2>1, RaiseNeeds DEF CreateError
  <2>2. CASE PendingAs(Dev(r), name[r]) # {} /\ UNCHANGED <<name, pend>>
    BY <2>2 DEF PendingAs, Dev
  <2> QED BY <1>2, <2>1, <2>2 DEF GenerateFetch, NoRemoteChange
<1>3. CASE InstallConfirm(r)
  BY <1>3, LateStepNeeds DEF InstallConfirm, NeedsCSR, SaysCSRRemains, WaitingPCs
<1>4. ASSUME NeedsCSR(r), name'[r] = name[r], UNCHANGED pend
      PROVE  (PendingAs(Dev(r), name[r]) # {})'
  BY <1>4 DEF CSRStays, PendingAs, Dev
<1>5. CASE FetchObserve(r) \/ FetchDetail(r) \/ ResolveCA(r) \/ PostCSR(r)
           \/ GetCertificate(r) \/ WriteOutput(r) \/ InstallObserve(r) \/ InstallValidate(r)
           \/ InstallRecheck(r) \/ InstallPaste(r) \/ InstallVerify(r) \/ VerifyLive(r)
           \/ Unlock(r)
  <2>1. NeedsCSR(r) /\ name'[r] = name[r]
    BY <1>5, LateStepNeeds
  <2>2. UNCHANGED pend
    BY <1>5 DEF FetchObserve, FetchDetail, ResolveCA, PostCSR, GetCertificate,
       WriteOutput, InstallObserve, InstallValidate, InstallRecheck, InstallPaste,
       InstallVerify, VerifyLive, Unlock, NoRemoteChange
  <2> QED BY <1>4, <2>1, <2>2
<1> QED BY <1>2, <1>3, <1>5, EarlyStepNeeds DEF Step

\* Every step keeps the CSRs that are needed.
LEMMA CSRStaysStep == ReportInv /\ CSRStays /\ [Next]_vars => CSRStays'
<1> SUFFICES ASSUME ReportInv, CSRStays, [Next]_vars, disturb' = 0, NEW q \in Runs,
                    NeedsCSR(q)'
             PROVE  (PendingAs(Dev(q), name[q]) # {})'
  BY DEF CSRStays
<1>1. disturb \in Nat
  BY DEF ReportInv, RenewalInv, TypeOK
<1>2. ASSUME NEW r \in Runs, Start(r) \/ Step(r) \/ Crash(r)
      PROVE  (PendingAs(Dev(q), name[q]) # {})'
  <2>1. disturb' = disturb
    BY <1>2 DEF Start, Crash, Step, Credentials, TakeLock, LockFails, Check, Preflight,
       GenerateInspect, GenerateCreate, GenerateFetch, FetchObserve, FetchDetail, ResolveCA,
       PostCSR, GetCertificate, WriteOutput, InstallObserve, InstallValidate,
       InstallRecheck, InstallPaste, InstallConfirm, InstallVerify, VerifyLive, Unlock,
       NoRemoteChange
  <2>2. CASE q = r
    BY <1>2, <2>1, <2>2, StepSparesOwn
  <2>3. CASE q # r
    <3>1. Stays(q)
      BY <1>2, <2>3, StepIsAlone DEF Alone
    <3>2. NeedsCSR(q) => pend[Dev(q)] \subseteq pend'[Dev(q)]
      BY <1>2, <2>3, StepSparesOthers
    <3> QED BY <2>1, <3>1, <3>2, OtherNeeds
  <2> QED BY <2>2, <2>3
<1>3. ASSUME NEW d \in Devices, Reboot(d) \/ OperatorCSR(d) PROVE FALSE
  BY <1>1, <1>3 DEF Reboot, OperatorCSR
<1>4. CASE UNCHANGED vars
  <2>1. Stays(q) /\ disturb' = disturb /\ pend' = pend
    BY <1>4 DEF vars, Stays
  <2> QED BY <2>1, OtherNeeds
<1> QED BY <1>2, <1>3, <1>4 DEF Next

\* What the human error messages deny did not happen (report_renewal_failure and
\* run_explicit_operation), and while the invocation has its lock the CSR that they say
\* remains on the switch is there, unless somebody else rebooted the switch.
THEOREM ErrorTextIsTrueTheorem == Spec => []ErrorTextIsTrue
<1>1. Init => CSRStays
  BY DEF Init, CSRStays, NeedsCSR, SaysCSRRemains, WaitingPCs
<1>2. ReportInv /\ CSRStays => ErrorTextIsTrue
  <2>1. ReportInv => \A r \in Runs : Ended(r) => TextTrue(op[r], trace[r], err[r])
    BY DEF ReportInv, RunOK, TraceOK, Ended, Over
  <2> QED BY <2>1 DEF TextTrue, ErrorTextIsTrue, Did, CSRStays, NeedsCSR
<1> QED BY <1>1, <1>2, CSRStaysStep, ReportInvariant, PTL DEF Spec

=============================================================================
