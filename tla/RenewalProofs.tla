--------------------------- MODULE RenewalProofs ---------------------------
(* The inductive invariant of Renewal, and that it implements              *)
(* DeviceLifecycle, for any number of invocations, switches and names.     *)
EXTENDS Renewal, WellFoundedInduction, TLAPS

-----------------------------------------------------------------------------
(* The functions on the JSON item.                                         *)

Items == Item(Certs \cup {NoCert})

\* The events of _json_progress that carry no certificate.
Events == {"preflight_confirmed", "pending_csr_observed", "csr_retrieval_started",
           "csr_retrieved", "signing_preparation", "csr_confirmed",
           "issuance_dispatched", "issuance_confirmed", "certificate_retrieved",
           "issued_validation_started", "issued_validated",
           "installation_prepared", "live_tls_confirmed"}

\* SwitchResult(target=...) is an item.
LEMMA NewItemType == NewItem(NoCert) \in Items
  BY DEF NewItem, Items, Item, Outcomes, Stages, Changes, Reasons, Milestones

\* Every event of _json_progress leaves an item an item.
LEMMA ProgressType ==
  ASSUME NEW it \in Items, NEW e \in Events
  PROVE  Progress(it, e) \in Items
<1>1. CASE e = "preflight_confirmed"
  <2> DEFINE v == [it EXCEPT !.stage = "preflight"]
  <2>1. Progress(it, e) = v
    BY Zenon, <1>1 DEF Progress
  <2>2. v \in Items
    BY DEF Items, Item, Stages, Changes, Milestones, MilestoneNames
  <2> QED BY <2>1, <2>2
<1>2. CASE e = "pending_csr_observed"
  <2> DEFINE v == [it EXCEPT !.observed = TRUE]
  <2>1. Progress(it, e) = v
    BY Zenon, <1>2 DEF Progress
  <2>2. v \in Items
    BY DEF Items, Item, Stages, Changes, Milestones, MilestoneNames
  <2> QED BY <2>1, <2>2
<1>3. CASE e = "csr_retrieval_started"
  <2> DEFINE m == IF it.ms["csr"] = "not_attempted" THEN "failed" ELSE it.ms["csr"]
             v == [it EXCEPT !.stage = "csr_retrieval", !.ms["csr"] = m]
  <2>1. Progress(it, e) = v
    BY Zenon, <1>3 DEF Progress
  <2>2. m \in Milestones
    BY DEF Items, Item, Milestones, MilestoneNames
  <2> HIDE DEF m
  <2>3. v \in Items
    BY <2>2 DEF Items, Item, Stages, MilestoneNames
  <2> QED BY <2>1, <2>3
<1>4. CASE e = "csr_retrieved"
  <2> DEFINE v == [it EXCEPT !.ms["csr"] = "confirmed"]
  <2>1. Progress(it, e) = v
    BY Zenon, <1>4 DEF Progress
  <2>2. v \in Items
    BY DEF Items, Item, Stages, Changes, Milestones, MilestoneNames
  <2> QED BY <2>1, <2>2
<1>5. CASE e = "signing_preparation"
  <2> DEFINE v == [it EXCEPT !.stage = "signing"]
  <2>1. Progress(it, e) = v
    BY Zenon, <1>5 DEF Progress
  <2>2. v \in Items
    BY DEF Items, Item, Stages, Changes, Milestones, MilestoneNames
  <2> QED BY <2>1, <2>2
<1>6. CASE e = "csr_confirmed"
  <2> DEFINE v == [it EXCEPT !.stage = "csr_generation", !.ms["csr"] = "confirmed",
                                     !.change = "confirmed"]
  <2>1. Progress(it, e) = v
    BY Zenon, <1>6 DEF Progress
  <2>2. v \in Items
    BY DEF Items, Item, Stages, Changes, Milestones, MilestoneNames
  <2> QED BY <2>1, <2>2
<1>7. CASE e = "issuance_dispatched"
  <2> DEFINE v == [it EXCEPT !.stage = "signing", !.ms["issuance"] = "uncertain",
                                     !.change = "possible"]
  <2>1. Progress(it, e) = v
    BY Zenon, <1>7 DEF Progress
  <2>2. v \in Items
    BY DEF Items, Item, Stages, Changes, Milestones, MilestoneNames
  <2> QED BY <2>1, <2>2
<1>8. CASE e = "issuance_confirmed"
  <2> DEFINE v == [it EXCEPT !.ms["issuance"] = "confirmed", !.change = "confirmed"]
  <2>1. Progress(it, e) = v
    BY Zenon, <1>8 DEF Progress
  <2>2. v \in Items
    BY DEF Items, Item, Stages, Changes, Milestones, MilestoneNames
  <2> QED BY <2>1, <2>2
<1>9. CASE e \in {"certificate_retrieved", "issued_validation_started", "issued_validated"}
  <2> DEFINE v == [it EXCEPT !.stage = "issued_validation"]
  <2>1. Progress(it, e) = v
    BY Zenon, <1>9 DEF Progress
  <2>2. v \in Items
    BY DEF Items, Item, Stages, Changes, Milestones, MilestoneNames
  <2> QED BY <2>1, <2>2
<1>10. CASE e = "installation_prepared"
  <2> DEFINE v == [it EXCEPT !.stage = "installation"]
  <2>1. Progress(it, e) = v
    BY Zenon, <1>10 DEF Progress
  <2>2. v \in Items
    BY DEF Items, Item, Stages, Changes, Milestones, MilestoneNames
  <2> QED BY <2>1, <2>2
<1>11. CASE e = "live_tls_confirmed"
  <2> DEFINE v == [it EXCEPT !.stage = "live_verification",
                                     !.ms["live_tls"] = "confirmed"]
  <2>1. Progress(it, e) = v
    BY Zenon, <1>11 DEF Progress
  <2>2. v \in Items
    BY DEF Items, Item, Stages, Changes, Milestones, MilestoneNames
  <2> QED BY <2>1, <2>2
<1> QED BY <1>1, <1>2, <1>3, <1>4, <1>5, <1>6, <1>7, <1>8, <1>9, <1>10, <1>11 DEF Events

\* What _json_process_target sets after the inspection leaves an item an item.
LEMMA DecidedItemType ==
  ASSUME NEW it \in Items, NEW s \in Stages, NEW o \in Outcomes, NEW x \in {"true", "false"}
  PROVE  /\ [it EXCEPT !.due = x] \in Items
         /\ [it EXCEPT !.due = x, !.stage = s] \in Items
         /\ [it EXCEPT !.due = x, !.outcome = o, !.stage = s] \in Items
<1>1. [it EXCEPT !.due = x] \in Items
  BY ZenonT(60) DEF Items, Item
<1>2. [it EXCEPT !.due = x, !.stage = s] \in Items
  BY ZenonT(60) DEF Items, Item
<1>3. [it EXCEPT !.due = x, !.outcome = o, !.stage = s] \in Items
  BY ZenonT(60) DEF Items, Item
<1> QED BY <1>1, <1>2, <1>3

\* The outcome of a failure is an outcome, its recovery flag a truth value.
LEMMA FailureOutcomeType ==
  ASSUME NEW it
  PROVE  FailureOutcome(it) \in Outcomes /\ RecoveryByEvidence(it) \in BOOLEAN
<1>1. FailureOutcome(it) \in Outcomes
  BY DEF FailureOutcome, Outcomes
<1>2. RecoveryByEvidence(it) \in BOOLEAN
  BY DEF RecoveryByEvidence
<1> QED BY <1>1, <1>2

\* A failure leaves an item an item.
LEMMA FailureType ==
  ASSUME NEW it \in Items, NEW e
  PROVE  Failure(it, e) \in Items
<1>0. PICK fo \in Outcomes, re \in BOOLEAN :
        fo = FailureOutcome(it) /\ re = RecoveryByEvidence(it)
  BY FailureOutcomeType
<1>1. CASE e = "pending"
  <2> DEFINE v == [it EXCEPT !.outcome = "failure_pre_attempt", !.stage = "preflight",
                               !.reason = "pending_state", !.recovery = TRUE]
  <2>1. Failure(it, e) = v
    BY Zenon, <1>1 DEF Failure
  <2>2. v \in Items
    BY ZenonT(60) DEF Items, Item, Outcomes, Stages, Reasons
  <2> QED BY <2>1, <2>2
<1>2. CASE e = "preflight"
  <2> DEFINE v == [it EXCEPT !.outcome = "failure_pre_attempt", !.stage = "preflight",
                               !.reason = "inspection_failed", !.recovery = FALSE]
  <2>1. Failure(it, e) = v
    BY Zenon, <1>2 DEF Failure
  <2>2. v \in Items
    BY ZenonT(60) DEF Items, Item, Outcomes, Stages, Reasons
  <2> QED BY <2>1, <2>2
<1>3. CASE e = "csr_pre"
  <2> DEFINE v == [it EXCEPT !.outcome = "failure_pre_attempt", !.stage = "csr_generation",
                               !.reason = "csr_failed", !.recovery = FALSE]
  <2>1. Failure(it, e) = v
    BY Zenon, <1>3 DEF Failure
  <2>2. v \in Items
    BY ZenonT(60) DEF Items, Item, Outcomes, Stages, Reasons
  <2> QED BY <2>1, <2>2
<1>4. CASE e = "csr"
  <2> DEFINE w == [it EXCEPT !.outcome = "failure_ambiguous", !.stage = "csr_generation",
                             !.reason = "csr_failed"]
             v == [w EXCEPT !.ms["csr"] = "uncertain", !.change = "possible",
                            !.recovery = TRUE]
  <2>1. Failure(it, e) = v
    BY Zenon, <1>4 DEF Failure
  <2>2. w \in Items
    BY ZenonT(60) DEF Items, Item, Outcomes, Stages, Reasons
  <2> HIDE DEF w
  <2>3. v \in Items
    BY <2>2 DEF Items, Item, Changes, Milestones, MilestoneNames
  <2> QED BY <2>1, <2>3
<1>5. CASE e = "signing"
  <2> DEFINE x == CASE it.stage = "issued_validation" -> "validation_failed"
                    [] it.stage = "csr_retrieval" -> "csr_failed"
                    [] OTHER -> "signing_failed"
             v == [it EXCEPT !.outcome = fo, !.reason = x, !.recovery = re]
  <2>1. Failure(it, e) = v
    BY Zenon, <1>0, <1>5 DEF Failure
  <2>2. x = "validation_failed" \/ x = "csr_failed" \/ x = "signing_failed"
    BY Zenon
  <2> HIDE DEF x
  <2>3. v \in Items
    BY <2>2 DEF Items, Item, Reasons
  <2> QED BY <2>1, <2>3
<1>6. CASE e = "pre_install"
  <2> DEFINE v == [it EXCEPT !.outcome = fo, !.stage = "installation",
                               !.reason = "validation_failed", !.recovery = TRUE]
  <2>1. Failure(it, e) = v
    BY Zenon, <1>0, <1>6 DEF Failure
  <2>2. v \in Items
    BY DEF Items, Item, Stages, Reasons
  <2> QED BY <2>1, <2>2
<1>7. CASE e = "install"
  <2> DEFINE w == [it EXCEPT !.outcome = "failure_ambiguous", !.stage = "installation",
                             !.reason = "installation_failed"]
             v == [w EXCEPT !.ms["installation"] = "uncertain", !.change = "possible",
                            !.recovery = TRUE]
  <2>1. Failure(it, e) = v
    BY Zenon, <1>7 DEF Failure
  <2>2. w \in Items
    BY ZenonT(60) DEF Items, Item, Outcomes, Stages, Reasons
  <2> HIDE DEF w
  <2>3. v \in Items
    BY <2>2 DEF Items, Item, Changes, Milestones, MilestoneNames
  <2> QED BY <2>1, <2>3
<1>8. CASE e = "live"
  <2> DEFINE v == [it EXCEPT !.outcome = fo, !.stage = "live_verification",
                               !.reason = "verification_failed", !.ms["live_tls"] = "failed",
                               !.recovery = TRUE]
  <2>1. Failure(it, e) = v
    BY Zenon, <1>0, <1>8 DEF Failure
  <2>2. v \in Items
    BY DEF Items, Item, Stages, Reasons, Milestones, MilestoneNames
  <2> QED BY <2>1, <2>2
<1>9. CASE e \notin RENEWAL_FAILURE_TYPES
  <2> DEFINE v == [it EXCEPT !.outcome = fo, !.reason = "unexpected_failure",
                               !.recovery = re]
  <2>1. Failure(it, e) = v
    BY Zenon, <1>0, <1>9 DEF Failure, RENEWAL_FAILURE_TYPES
  <2>2. v \in Items
    BY DEF Items, Item, Reasons
  <2> QED BY <2>1, <2>2
<1> QED BY <1>1, <1>2, <1>3, <1>4, <1>5, <1>6, <1>7, <1>8, <1>9 DEF RENEWAL_FAILURE_TYPES

\* So do the except clauses around an operation.
LEMMA FailedItemType ==
  ASSUME NEW o, NEW it \in Items, NEW e
  PROVE  FailedItem(o, it, e) \in Items
<1>0. PICK fo \in Outcomes, re \in BOOLEAN :
        fo = FailureOutcome(it) /\ re = RecoveryByEvidence(it)
  BY FailureOutcomeType
<1>1. CASE e = "write" /\ o = "sign_csr"
  <2> DEFINE v == [it EXCEPT !.outcome = "failure_partial", !.stage = "finalization",
                             !.reason = "recovery_required", !.recovery = TRUE]
  <2>1. FailedItem(o, it, e) = v
    BY Zenon, <1>1 DEF FailedItem
  <2>2. v \in Items
    BY ZenonT(60) DEF Items, Item, Outcomes, Stages, Reasons
  <2> QED BY <2>1, <2>2
<1>2. CASE e \in {"value", "write"} /\ o = "generate_csr" /\ it.ms["csr"] = "confirmed"
  <2> DEFINE v == [it EXCEPT !.outcome = "failure_partial", !.reason = "csr_failed",
                             !.recovery = TRUE]
  <2>1. FailedItem(o, it, e) = v
    BY Zenon, <1>2 DEF FailedItem
  <2>2. v \in Items
    BY DEF Items, Item, Outcomes, Reasons
  <2> QED BY <2>1, <2>2
<1>3. CASE e = "value" /\ o = "sign_csr"
  <2>1. FailedItem(o, it, e) = Failure(it, "signing")
    BY Zenon, <1>3 DEF FailedItem
  <2> QED BY <2>1, FailureType
<1>4. CASE /\ e \in {"value", "write"} /\ o \in {"generate_csr", "retrieve_csr", "install"}
           /\ ~(o = "generate_csr" /\ it.ms["csr"] = "confirmed")
  <2> DEFINE x == IF o = "install" THEN "validation_failed" ELSE "csr_failed"
             v == [it EXCEPT !.outcome = fo, !.reason = x, !.recovery = re]
  <2>1. FailedItem(o, it, e) = v
    BY Zenon, <1>0, <1>4 DEF FailedItem
  <2>2. x \in Reasons
    BY DEF Reasons
  <2> HIDE DEF x
  <2>3. v \in Items
    BY <2>2 DEF Items, Item
  <2> QED BY <2>1, <2>3
<1>5. CASE e = "inspection"
  <2> DEFINE v == [it EXCEPT !.reason = "inspection_failed"]
  <2>1. FailedItem(o, it, e) = v
    BY Zenon, <1>5 DEF FailedItem
  <2>2. v \in Items
    BY DEF Items, Item, Reasons
  <2> QED BY <2>1, <2>2
<1>6. CASE e = "credentials"
  <2> DEFINE v == [it EXCEPT !.stage = "configuration", !.reason = "config_invalid"]
  <2>1. FailedItem(o, it, e) = v
    BY Zenon, <1>6 DEF FailedItem
  <2>2. v \in Items
    BY DEF Items, Item, Stages, Reasons
  <2> QED BY <2>1, <2>2
<1>7. CASE e \in {"busy", "lock"}
  <2> DEFINE x == IF e = "busy" THEN "lock_busy" ELSE "lock_failed"
             v == [it EXCEPT !.outcome = "failure_pre_attempt", !.stage = "lock",
                             !.reason = x]
  <2>1. FailedItem(o, it, e) = v
    BY Zenon, <1>7 DEF FailedItem
  <2>2. x \in Reasons
    BY DEF Reasons
  <2> HIDE DEF x
  <2>3. v \in Items
    BY <2>2 DEF Items, Item, Outcomes, Stages
  <2> QED BY <2>1, <2>3
<1>8. CASE /\ e \notin {"inspection", "credentials", "busy", "lock"}
           /\ e \in {"value", "write"} =>
                 o \notin {"sign_csr", "generate_csr", "retrieve_csr", "install"}
  <2>1. FailedItem(o, it, e) = Failure(it, e)
    BY Zenon, <1>8 DEF FailedItem
  <2> QED BY <2>1, FailureType
<1> QED BY <1>1, <1>2, <1>3, <1>4, <1>5, <1>6, <1>7, <1>8

\* The LifecycleLockReleaseError handler leaves an item an item.
LEMMA ReleaseFailedItemType ==
  ASSUME NEW it \in Items
  PROVE  ReleaseFailedItem(it) \in Items
<1>0. PICK fo \in Outcomes : fo = FailureOutcome(it)
  BY FailureOutcomeType
<1>1. [it EXCEPT !.recovery = TRUE] \in Items
  BY DEF Items, Item
<1>2. [it EXCEPT !.stage = "lock", !.reason = "lock_failed", !.outcome = fo,
                 !.recovery = TRUE] \in Items
  BY DEF Items, Item, Stages, Reasons
<1> QED BY <1>0, <1>1, <1>2 DEF ReleaseFailedItem

\* A completed operation leaves an item an item.
LEMMA SucceededItemType ==
  ASSUME NEW it \in Items, NEW o \in Outcomes
  PROVE  SucceededItem(it, o) \in Items
  BY DEF SucceededItem, Items, Item, Stages

\* installation_confirmed leaves an item an item.
LEMMA InstallationConfirmedType ==
  ASSUME NEW it \in Items, NEW x \in Certs \cup {NoCert}
  PROVE  InstallationConfirmed(it, x) \in Items
  BY DEF InstallationConfirmed, Items, Item, Stages, Changes, Milestones, MilestoneNames

\* What is recorded when an operation begins leaves an item an item.
LEMMA BodyItemType ==
  ASSUME NEW it \in Items, NEW o \in AllOps
  PROVE  BodyItem(o, it) \in Items
<1> DEFINE at(s) == [it EXCEPT !.stage = s]
<1>1. \A s \in Stages : at(s) \in Items
  BY DEF Items, Item
<1>2. CASE o \in {"retrieve_csr", "sign_csr"}
  <2>1. BodyItem(o, it) = Progress(it, "csr_retrieval_started")
    BY Zenon, <1>2 DEF BodyItem
  <2> QED BY <2>1, ProgressType DEF Events
<1>3. CASE o \in {"inspect", "renew_due"}
  <2>1. BodyItem(o, it) = at("inspection")
    BY Zenon, <1>3 DEF BodyItem
  <2> QED BY <1>1, <2>1 DEF Stages
<1>4. CASE o = "renew_now"
  <2>1. BodyItem(o, it) = at("preflight")
    BY Zenon, <1>4 DEF BodyItem
  <2> QED BY <1>1, <2>1 DEF Stages
<1>5. CASE o = "generate_csr"
  <2>1. BodyItem(o, it) = at("csr_generation")
    BY Zenon, <1>5 DEF BodyItem
  <2> QED BY <1>1, <2>1 DEF Stages
<1>6. CASE o = "install"
  <2>1. BodyItem(o, it) = at("installation")
    BY Zenon, <1>6 DEF BodyItem
  <2> QED BY <1>1, <2>1 DEF Stages
<1> QED BY <1>2, <1>3, <1>4, <1>5, <1>6 DEF AllOps

\* So does the progress callback, in either output mode.
LEMMA NoteType ==
  ASSUME NEW r \in Runs, NEW it \in Items, NEW e \in Events
  PROVE  Note(r, it, e) \in Items /\ InstallNote(r, it, e) \in Items
  BY ProgressType DEF Note, InstallNote

-----------------------------------------------------------------------------
(* Moving one invocation.                                                  *)

\* What must hold of the shared state for invocation r to be at step l.
Safe(r, l) ==
    /\ l \in PCs /\ MayBeAt(op[r], l)
    /\ l \in BodyPCs /\ Locked(r) => holder[Dev(r)] = {r}
    /\ l = "gen_create" => \A c \in pend[Dev(r)] : c.by \notin Runs
    /\ HasIssued(op[r], l) => cert[r] \in issued

\* The local part of a step: r goes to l, and everything local keeps its type.
Moves(r, l) ==
    /\ pc' = [pc EXCEPT ![r] = l]
    /\ UNCHANGED <<op, mode>>
    /\ name' \in [Runs -> Names \cup {0}]
    /\ err' \in [Runs -> Errors \cup {"release"}]
    /\ item' \in [Runs -> Items]

\* A step that changes nothing outside its invocation keeps the invariant if the
\* step it leads to is safe.
LEMMA QuietStep ==
  ASSUME RenewalInv, NEW r \in Runs, NEW l, Moves(r, l), Safe(r, l), pc[r] # "new",
         UNCHANGED cert, NoRemoteChange,
         trace' \in [Runs -> SUBSET (Effects \cup {"saw_pending"})],
         \/ UNCHANGED key
         \/ \E k \in Nat : k < fresh /\ key' = [key EXCEPT ![r] = k]
  PROVE  RenewalInv'
<1> USE DEF RenewalInv, NoRemoteChange
<1>1. TypeOK'
  <2>1. pc' \in [Runs -> PCs]
    BY DEF TypeOK, Moves, Safe
  <2>2. key' \in [Runs -> Nat]
    BY DEF TypeOK
  <2> QED BY <2>1, <2>2 DEF TypeOK, Moves, Items, Lock!LockTypeOK
<1>2. \A q \in Runs : q # r => pc'[q] = pc[q]
  BY DEF TypeOK, Moves
<1>3. pc'[r] = l /\ l \in PCs
  BY DEF TypeOK, Moves, Safe
<1>4. PcMatchesOp'
  BY <1>2, <1>3 DEF PcMatchesOp, Safe, Moves
<1>5. BodyHoldsLock'
  BY <1>2, <1>3 DEF BodyHoldsLock, Safe, Moves, Locked, Dev
<1>6. NoOwnCSRBeforeCreate'
  BY <1>2, <1>3 DEF NoOwnCSRBeforeCreate, Safe, Dev
<1>7. OneOwnCSR'
  BY DEF OneOwnCSR
<1>8. NumbersAreOld'
  <2>1. \A q \in Runs : key'[q] < fresh
    BY DEF NumbersAreOld, TypeOK
  <2> QED BY <2>1 DEF NumbersAreOld
<1>9. CertIsIssued'
  BY <1>2, <1>3 DEF CertIsIssued, Safe, Moves
<1> QED BY <1>1, <1>4, <1>5, <1>6, <1>7, <1>8, <1>9

\* The end of an operation is safe: who gives up the lock holds it alone.
LEMMA EndBodySafe ==
  ASSUME RenewalInv, NEW r \in Runs, EndBody(r)
  PROVE  \E l \in {"unlock", "done"} :
            /\ pc' = [pc EXCEPT ![r] = l] /\ Safe(r, l)
            /\ l = "unlock" => holder[Dev(r)] = {r}
<1>1. Dev(r) \in Devices
  BY TargetAssumption DEF Dev
<1>2. r \in holder[Dev(r)] => holder[Dev(r)] = {r}
  BY <1>1 DEF RenewalInv, BodyHoldsLock
<1>3. \A l \in {"unlock", "done"} : l \in PCs /\ MayBeAt(op[r], l)
  BY DEF PCs, MayBeAt, InstallPCs, HasIssued
<1> QED BY <1>2, <1>3 DEF EndBody, Goto, Safe, BodyPCs, InstallPCs, HasIssued

\* An exception moves its invocation to the end of the operation.
LEMMA RaiseMoves ==
  ASSUME RenewalInv, NEW r \in Runs, NEW it \in Items, NEW e \in Errors, Raise(r, it, e)
  PROVE  /\ \E l \in {"unlock", "done"} :
               /\ Moves(r, l) /\ Safe(r, l)
               /\ l = "unlock" => holder[Dev(r)] = {r}
         /\ UNCHANGED <<name, key, cert>>
<1>1. item' \in [Runs -> Items]
  <2>1. (IF Json(r) THEN FailedItem(op[r], it, e) ELSE it) \in Items
    BY FailedItemType
  <2> QED BY <2>1 DEF Raise, SetItem, RenewalInv, TypeOK, Items
<1>2. err' \in [Runs -> Errors \cup {"release"}]
  BY DEF Raise, RenewalInv, TypeOK
<1>3. name' \in [Runs -> Names \cup {0}]
  BY DEF Raise, RenewalInv, TypeOK
<1> QED BY <1>1, <1>2, <1>3, EndBodySafe DEF Raise, Moves

\* So does success.
LEMMA SucceedMoves ==
  ASSUME RenewalInv, NEW r \in Runs, NEW it \in Items, NEW o \in Outcomes, Succeed(r, it, o)
  PROVE  /\ \E l \in {"unlock", "done"} :
               /\ Moves(r, l) /\ Safe(r, l)
               /\ l = "unlock" => holder[Dev(r)] = {r}
         /\ UNCHANGED <<name, key, cert>>
<1>1. item' \in [Runs -> Items]
  <2>1. (IF Json(r) THEN SucceededItem(it, o) ELSE it) \in Items
    BY SucceededItemType
  <2> QED BY <2>1 DEF Succeed, SetItem, RenewalInv, TypeOK, Items
<1>2. err' \in [Runs -> Errors \cup {"release"}] /\ name' \in [Runs -> Names \cup {0}]
  BY DEF Succeed, RenewalInv, TypeOK
<1> QED BY <1>1, <1>2, EndBodySafe DEF Succeed, Moves

\* A step of the operation moves its invocation to the label it names.
LEMMA ProceedMoves ==
  ASSUME RenewalInv, NEW r \in Runs, NEW it \in Items, NEW l, Proceed(r, it, l),
         name' \in [Runs -> Names \cup {0}]
  PROVE  Moves(r, l)
<1>1. item' \in [Runs -> Items]
  BY DEF Proceed, SetItem, RenewalInv, TypeOK, Items
<1> QED BY <1>1 DEF Proceed, Goto, Moves, RenewalInv, TypeOK

\* A failure without remote effect keeps the invariant.
LEMMA RaiseInv ==
  ASSUME RenewalInv, NEW r \in Runs, pc[r] # "new", NEW it \in Items, NEW e \in Errors,
         Raise(r, it, e), NoRemoteChange,
         trace' \in [Runs -> SUBSET (Effects \cup {"saw_pending"})]
  PROVE  RenewalInv'
<1>1. PICK l \in {"unlock", "done"} : Moves(r, l) /\ Safe(r, l)
  BY RaiseMoves
<1>2. UNCHANGED <<key, cert>>
  BY RaiseMoves
<1> QED BY <1>1, <1>2, QuietStep

\* A success without remote effect keeps the invariant.
LEMMA SucceedInv ==
  ASSUME RenewalInv, NEW r \in Runs, pc[r] # "new", NEW it \in Items, NEW o \in Outcomes,
         Succeed(r, it, o), NoRemoteChange,
         trace' \in [Runs -> SUBSET (Effects \cup {"saw_pending"})]
  PROVE  RenewalInv'
<1>1. PICK l \in {"unlock", "done"} : Moves(r, l) /\ Safe(r, l)
  BY SucceedMoves
<1>2. UNCHANGED <<key, cert>>
  BY SucceedMoves
<1> QED BY <1>1, <1>2, QuietStep

\* A step forward without remote effect keeps the invariant if it is safe.
LEMMA ProceedInv ==
  ASSUME RenewalInv, NEW r \in Runs, pc[r] # "new", NEW it \in Items, NEW l,
         Proceed(r, it, l), Safe(r, l), NoRemoteChange,
         UNCHANGED <<name, key, cert, trace>>
  PROVE  RenewalInv'
<1>1. Moves(r, l)
  BY ProceedMoves DEF RenewalInv, TypeOK
<1> QED BY <1>1, QuietStep DEF RenewalInv, TypeOK

-----------------------------------------------------------------------------
(* One lemma per part of the code: its steps keep the invariant.           *)

\* What the invariant says of one invocation.
LEMMA RunFacts ==
  ASSUME RenewalInv, NEW r \in Runs
  PROVE  /\ item[r] \in Items /\ Dev(r) \in Devices /\ op[r] \in AllOps
         /\ cert[r] \in Certs \cup {NoCert}
         /\ trace \in [Runs -> SUBSET (Effects \cup {"saw_pending"})]
         /\ MayBeAt(op[r], pc[r])
         /\ pc[r] \in BodyPCs /\ Locked(r) => holder[Dev(r)] = {r}
         /\ HasIssued(op[r], pc[r]) => cert[r] \in issued
         /\ pc[r] = "gen_create" => \A c \in pend[Dev(r)] : c.by \notin Runs
<1>1. Dev(r) \in Devices
  BY TargetAssumption DEF Dev
<1>2. /\ item[r] \in Items /\ op[r] \in AllOps /\ cert[r] \in Certs \cup {NoCert}
      /\ trace \in [Runs -> SUBSET (Effects \cup {"saw_pending"})]
  BY DEF RenewalInv, TypeOK, Items
<1>3. /\ MayBeAt(op[r], pc[r])
      /\ pc[r] \in BodyPCs /\ Locked(r) => holder[Dev(r)] = {r}
      /\ HasIssued(op[r], pc[r]) => cert[r] \in issued
      /\ pc[r] = "gen_create" => \A c \in pend[Dev(r)] : c.by \notin Runs
  BY DEF RenewalInv, PcMatchesOp, BodyHoldsLock, CertIsIssued, NoOwnCSRBeforeCreate
<1> QED BY <1>1, <1>2, <1>3

\* Recording a fact in the history keeps its type.
LEMMA SawType ==
  ASSUME RenewalInv, NEW r \in Runs, NEW w \in Effects \cup {"saw_pending"}, Saw(r, w)
  PROVE  trace' \in [Runs -> SUBSET (Effects \cup {"saw_pending"})]
  BY DEF Saw, RenewalInv, TypeOK

\* Inside the body the lock stays held; only two kinds of step need more.
LEMMA SafeNext ==
  ASSUME RenewalInv, NEW r \in Runs, pc[r] \in BodyPCs,
         NEW l \in BodyPCs \ {"gen_create"}, MayBeAt(op[r], l),
         HasIssued(op[r], l) => cert[r] \in issued
  PROVE  Safe(r, l)
  BY RunFacts DEF Safe, BodyPCs

\* check_switch
LEMMA CheckInv ==
  ASSUME RenewalInv, NEW r \in Runs, Check(r)
  PROVE  RenewalInv'
<1> USE RunFacts
<1>1. pc[r] = "check" /\ pc[r] \in BodyPCs /\ NoRemoteChange
  BY DEF Check, BodyPCs, PCs
<1>2. ASSUME NEW s \in Stages, NEW o \in Outcomes, NEW x \in {"true", "false"}
      PROVE  /\ [item[r] EXCEPT !.due = x] \in Items
             /\ [item[r] EXCEPT !.due = x, !.stage = s] \in Items
             /\ [item[r] EXCEPT !.due = x, !.outcome = o, !.stage = s] \in Items
  BY DecidedItemType, Zenon
<1>3. CASE Raise(r, item[r], "inspection") /\ (UNCHANGED trace \/ Saw(r, "saw_pending"))
  BY <1>1, <1>3, RaiseInv, SawType DEF Errors
<1>4. CASE /\ Succeed(r, [item[r] EXCEPT !.due = "false"], "success_no_change")
           /\ UNCHANGED trace
  BY <1>1, <1>2, <1>4, SucceedInv DEF Outcomes, Stages
<1>5. CASE /\ SetItem(r, [item[r] EXCEPT !.due = "true", !.outcome = "attention_due",
                                         !.stage = "decision"])
           /\ EndBody(r)
           /\ UNCHANGED <<op, mode, name, key, cert, err, trace>>
  <2>1. item' \in [Runs -> Items]
    <3>1. [item[r] EXCEPT !.due = "true", !.outcome = "attention_due",
                          !.stage = "decision"] \in Items
      BY <1>2 DEF Outcomes, Stages
    <3> QED BY <1>5, <3>1 DEF SetItem, RenewalInv, TypeOK, Items
  <2>2. PICK l \in {"unlock", "done"} : pc' = [pc EXCEPT ![r] = l] /\ Safe(r, l)
    BY <1>5, EndBodySafe
  <2>3. Moves(r, l)
    BY <1>5, <2>1, <2>2 DEF Moves, RenewalInv, TypeOK
  <2> QED BY <1>1, <1>5, <2>2, <2>3, QuietStep
<1>6. CASE /\ op[r] = "renew_due"
           /\ Proceed(r, [item[r] EXCEPT !.due = "true", !.stage = "preflight"], "preflight")
           /\ UNCHANGED <<name, key, cert, trace>>
  <2>1. Safe(r, "preflight")
    BY <1>1, <1>6, SafeNext DEF MayBeAt, RenewOps, BodyPCs, PCs, InstallPCs, HasIssued
  <2>2. [item[r] EXCEPT !.due = "true", !.stage = "preflight"] \in Items
    BY <1>2 DEF Outcomes, Stages
  <2> QED BY <1>1, <1>6, <2>1, <2>2, ProceedInv
<1> QED BY <1>3, <1>4, <1>5, <1>6 DEF Check

-----------------------------------------------------------------------------
(* Startup, credentials, and the lock.                                     *)

\* Start keeps the invariant.
LEMMA StartInv ==
  ASSUME RenewalInv, NEW r \in Runs, Start(r)
  PROVE  RenewalInv'
<1> USE DEF RenewalInv
<1>1. PICK o \in Ops, m \in Modes :
        /\ op' = [op EXCEPT ![r] = o]
        /\ mode' = [mode EXCEPT ![r] = m]
        /\ Goto(r, IF CredentialsFirst(m, o) THEN "creds" ELSE "lock")
        /\ name' = name \/ \E n \in Names : name' = [name EXCEPT ![r] = n]
        /\ IF o = "install"
           THEN \E x \in issued \cup ForeignCerts(Dev(r)) : cert' = [cert EXCEPT ![r] = x]
           ELSE UNCHANGED cert
  BY DEF Start
<1>2. pc[r] = "new" /\ UNCHANGED <<key, err, item, trace>> /\ NoRemoteChange
  BY DEF Start
<1>3. PICK l \in {"creds", "lock"} : pc' = [pc EXCEPT ![r] = l]
  BY <1>1 DEF Goto
<1>4. o \in AllOps /\ m \in {"json", "human"}
  BY OpsAssumption
<1>5. TypeOK'
  <2>1. pc' \in [Runs -> PCs] /\ op' \in [Runs -> AllOps] /\ mode' \in [Runs -> {"json", "human"}]
    BY <1>1, <1>3, <1>4 DEF TypeOK, PCs
  <2>2. name' \in [Runs -> Names \cup {0}]
    BY <1>1 DEF TypeOK
  <2>3. cert' \in [Runs -> Certs \cup {NoCert}]
    <3>1. Dev(r) \in Devices /\ \A c \in pend[Dev(r)] : c.key \in Nat
      BY TargetAssumption DEF TypeOK, CSRs, Dev
    <3>2. \A x \in issued \cup ForeignCerts(Dev(r)) : x \in Certs
      BY <3>1 DEF TypeOK, ForeignCerts, Certs
    <3> QED BY <1>1, <3>2 DEF TypeOK
  <2> QED BY <1>2, <2>1, <2>2, <2>3 DEF TypeOK, NoRemoteChange, Lock!LockTypeOK
<1>6. \A q \in Runs : q # r => /\ pc'[q] = pc[q] /\ op'[q] = op[q] /\ cert'[q] = cert[q]
  BY <1>1, <1>3 DEF TypeOK
<1>7. pc'[r] = l /\ op'[r] = o
  BY <1>1, <1>3 DEF TypeOK
<1>8. PcMatchesOp'
  BY <1>6, <1>7 DEF PcMatchesOp, MayBeAt, InstallPCs, HasIssued
<1>9. BodyHoldsLock'
  BY <1>2, <1>6, <1>7 DEF BodyHoldsLock, Locked, Dev, NoRemoteChange, BodyPCs
<1>10. CertIsIssued'
  <2>1. ~HasIssued(o, l)
    BY DEF HasIssued, InstallPCs
  <2> QED BY <1>2, <1>6, <1>7, <2>1 DEF CertIsIssued, NoRemoteChange
<1>11. NoOwnCSRBeforeCreate'
  BY <1>2, <1>6, <1>7 DEF NoOwnCSRBeforeCreate, NoRemoteChange, Dev
<1>12. OneOwnCSR' /\ NumbersAreOld'
  BY <1>2 DEF OneOwnCSR, NumbersAreOld, NoRemoteChange
<1> QED BY <1>5, <1>8, <1>9, <1>10, <1>11, <1>12

\* The first step of an operation is one of its own steps.
LEMMA BodyStartFacts ==
  ASSUME NEW o \in AllOps
  PROVE  /\ BodyStart(o) \in BodyPCs \ {"gen_create", "get"}
         /\ MayBeAt(o, BodyStart(o))
         /\ ~HasIssued(o, BodyStart(o))
<1> USE DEF BodyPCs, PCs, MayBeAt, RenewOr, RenewOps, InstallPCs, HasIssued
<1>1. CASE o \in {"inspect", "renew_due"}
  <2>1. BodyStart(o) = "check"
    BY Zenon, <1>1 DEF BodyStart
  <2> QED BY <1>1, <2>1
<1>2. CASE o = "renew_now"
  <2>1. BodyStart(o) = "preflight"
    BY Zenon, <1>2 DEF BodyStart
  <2> QED BY <1>2, <2>1
<1>3. CASE o = "generate_csr"
  <2>1. BodyStart(o) = "gen_inspect"
    BY Zenon, <1>3 DEF BodyStart
  <2> QED BY <1>3, <2>1
<1>4. CASE o \in {"retrieve_csr", "sign_csr"}
  <2>1. BodyStart(o) = "fetch_observe"
    BY Zenon, <1>4 DEF BodyStart
  <2> QED BY <1>4, <2>1
<1>5. CASE o = "install"
  <2>1. BodyStart(o) = "inst_observe"
    BY Zenon, <1>5 DEF BodyStart
  <2> QED BY <1>5, <2>1
<1> QED BY <1>1, <1>2, <1>3, <1>4, <1>5 DEF AllOps

\* An operation begins with a typed item.
LEMMA EnterBodyMoves ==
  ASSUME RenewalInv, NEW r \in Runs, pc[r] # "new", EnterBody(r), UNCHANGED name
  PROVE  Moves(r, BodyStart(op[r]))
<1>1. (IF Json(r) THEN BodyItem(op[r], item[r]) ELSE item[r]) \in Items
  BY RunFacts, BodyItemType
<1> QED BY <1>1, ProceedMoves DEF EnterBody, RenewalInv, TypeOK

\* Credentials keeps the invariant.
LEMMA CredentialsInv ==
  ASSUME RenewalInv, NEW r \in Runs, Credentials(r)
  PROVE  RenewalInv'
<1> USE RunFacts
<1>1. pc[r] = "creds" /\ NoRemoteChange /\ UNCHANGED trace
  BY DEF Credentials
<1>2. CASE Raise(r, item[r], "credentials")
  BY <1>1, <1>2, RaiseInv DEF Errors
<1>3. CASE Proceed(r, item[r], "lock") /\ UNCHANGED <<name, key, cert>>
  <2>1. Safe(r, "lock")
    BY DEF Safe, PCs, BodyPCs, MayBeAt, InstallPCs, HasIssued
  <2> QED BY <1>1, <1>3, <2>1, ProceedInv
<1>4. CASE /\ ~Locked(r) \/ r \in holder[Dev(r)]
           /\ EnterBody(r) /\ UNCHANGED <<name, key, cert>>
  <2> DEFINE l == BodyStart(op[r])
  <2>1. Moves(r, l)
    BY <1>1, <1>4, EnterBodyMoves
  <2>2. l \in BodyPCs \ {"gen_create", "get"} /\ MayBeAt(op[r], l) /\ ~HasIssued(op[r], l)
    BY BodyStartFacts
  <2>3. Locked(r) => holder[Dev(r)] = {r}
    BY <1>4 DEF RenewalInv, BodyHoldsLock
  <2> HIDE DEF l
  <2>4. Safe(r, l)
    BY <2>1, <2>2, <2>3 DEF Safe, BodyPCs
  <2> QED BY <1>1, <1>4, <2>1, <2>4, QuietStep
<1> QED BY <1>2, <1>3, <1>4 DEF Credentials

\* LockFails keeps the invariant.
LEMMA LockFailsInv ==
  ASSUME RenewalInv, NEW r \in Runs, LockFails(r)
  PROVE  RenewalInv'
<1>1. pc[r] # "new" /\ NoRemoteChange /\ UNCHANGED trace
  BY DEF LockFails
<1>2. \E e \in {"busy", "lock"} : Raise(r, item[r], e)
  BY DEF LockFails
<1> QED BY <1>1, <1>2, RunFacts, RaiseInv DEF Errors

\* Taking or giving up the lock of a switch keeps the invariant: nobody else was
\* in a protected body.
LEMMA HolderStep ==
  ASSUME RenewalInv, NEW r \in Runs, pc[r] # "new", NEW l \in PCs \ {"gen_create"},
         Moves(r, l), MayBeAt(op[r], l),
         Lock!Acquire(r, Dev(r)) \/ (Lock!Release(r, Dev(r)) /\ l \notin BodyPCs),
         HasIssued(op[r], l) => cert[r] \in issued,
         UNCHANGED key \/ key' = [key EXCEPT ![r] = 0],
         UNCHANGED <<cert, trace, pend, active, issued, fresh, disturb>>
  PROVE  RenewalInv'
<1> USE DEF RenewalInv
<1>1. Dev(r) \in Devices
  BY RunFacts
<1>2. PICK S \in SUBSET {r} :
        /\ holder' = [holder EXCEPT ![Dev(r)] = S]
        /\ holder[Dev(r)] \subseteq {r}
        /\ l \in BodyPCs => S = {r}
  BY DEF Lock!Acquire, Lock!Release
<1>3. TypeOK'
  <2>1. pc' \in [Runs -> PCs]
    BY DEF TypeOK, Moves
  <2>2. Lock!LockTypeOK'
    BY <1>1, <1>2 DEF TypeOK, Lock!LockTypeOK
  <2>3. key' \in [Runs -> Nat]
    BY DEF TypeOK
  <2> QED BY <2>1, <2>2, <2>3 DEF TypeOK, Moves, Items
<1>4. \A q \in Runs : q # r => pc'[q] = pc[q]
  BY DEF TypeOK, Moves
<1>5. pc'[r] = l
  BY DEF TypeOK, Moves
<1>6. PcMatchesOp'
  BY <1>4, <1>5 DEF PcMatchesOp, Moves
<1>7. BodyHoldsLock'
  <2>1. \A d \in Devices : holder'[d] = holder[d] \/ holder'[d] = S
    BY <1>1, <1>2 DEF TypeOK, Lock!LockTypeOK
  <2>2. holder'[Dev(r)] = S
    BY <1>1, <1>2 DEF TypeOK, Lock!LockTypeOK
  <2>3. ASSUME NEW q \in Runs, q # r, pc'[q] \in BodyPCs, Locked(q)
        PROVE  holder'[Dev(q)] = {q}
    <3>1. holder[Dev(q)] = {q} /\ Dev(q) \in Devices
      BY <1>4, <2>3, RunFacts
    <3>2. Dev(q) # Dev(r)
      BY <1>2, <2>3, <3>1
    <3> QED BY <1>1, <1>2, <3>1, <3>2 DEF TypeOK, Lock!LockTypeOK
  <2>4. \A q \in Runs : Locked(q)' <=> Locked(q)
    BY DEF Locked, Moves
  <2>5. \A d \in Devices : \A p, q \in holder'[d] : p = q
    BY <2>1 DEF BodyHoldsLock
  <2> QED BY <1>2, <1>5, <2>2, <2>3, <2>4, <2>5 DEF BodyHoldsLock, Dev
<1>8. NoOwnCSRBeforeCreate'
  BY <1>4, <1>5 DEF NoOwnCSRBeforeCreate, Dev
<1>9. CertIsIssued'
  BY <1>4, <1>5 DEF CertIsIssued, Moves
<1>10. OneOwnCSR' /\ NumbersAreOld'
  <2>1. \A q \in Runs : key'[q] = key[q] \/ (key'[q] = 0 /\ key[q] \in Nat)
    BY DEF TypeOK
  <2>2. \A q \in Runs : key'[q] < fresh
    BY <2>1 DEF NumbersAreOld, TypeOK
  <2> QED BY <2>2 DEF OneOwnCSR, NumbersAreOld
<1> QED BY <1>3, <1>6, <1>7, <1>8, <1>9, <1>10

\* TakeLock keeps the invariant.
LEMMA TakeLockInv ==
  ASSUME RenewalInv, NEW r \in Runs, TakeLock(r)
  PROVE  RenewalInv'
<1>1. /\ pc[r] # "new" /\ Lock!Acquire(r, Dev(r))
      /\ UNCHANGED <<name, key, cert, trace, pend, active, issued, fresh, disturb>>
  BY DEF TakeLock
<1>2. CASE EnterBody(r)
  <2> DEFINE l == BodyStart(op[r])
  <2>1. Moves(r, l)
    BY <1>1, <1>2, EnterBodyMoves
  <2>2. l \in BodyPCs \ {"gen_create", "get"} /\ MayBeAt(op[r], l) /\ ~HasIssued(op[r], l)
    BY RunFacts, BodyStartFacts
  <2> HIDE DEF l
  <2>3. l \in PCs \ {"gen_create"}
    BY <2>2 DEF BodyPCs
  <2> QED BY <1>1, <2>1, <2>2, <2>3, HolderStep
<1>3. CASE Proceed(r, item[r], "creds")
  <2>1. Moves(r, "creds")
    BY <1>1, <1>3, RunFacts, ProceedMoves DEF RenewalInv, TypeOK
  <2>2. "creds" \in PCs /\ MayBeAt(op[r], "creds") /\ ~HasIssued(op[r], "creds")
    BY DEF PCs, MayBeAt, InstallPCs, HasIssued
  <2> QED BY <1>1, <2>1, <2>2, HolderStep
<1> QED BY <1>2, <1>3 DEF TakeLock

\* Unlock keeps the invariant.
LEMMA UnlockInv ==
  ASSUME RenewalInv, NEW r \in Runs, Unlock(r)
  PROVE  RenewalInv'
<1>1. /\ pc[r] # "new" /\ Lock!Release(r, Dev(r)) /\ pc' = [pc EXCEPT ![r] = "done"]
      /\ name' = [name EXCEPT ![r] = 0] /\ key' = [key EXCEPT ![r] = 0]
      /\ UNCHANGED <<op, mode, cert, trace, pend, active, issued, fresh, disturb>>
  BY DEF Unlock, Goto
<1>2. item' \in [Runs -> Items]
  <2>1. (IF Json(r) THEN ReleaseFailedItem(item[r]) ELSE item[r]) \in Items
    BY RunFacts, ReleaseFailedItemType
  <2> QED BY <2>1 DEF Unlock, SetItem, RenewalInv, TypeOK, Items
<1>3. err' \in [Runs -> Errors \cup {"release"}]
  <2>1. (IF err[r] = "none" THEN "release" ELSE err[r]) \in Errors \cup {"release"}
    BY DEF RenewalInv, TypeOK
  <2> QED BY <2>1 DEF Unlock, RenewalInv, TypeOK
<1>4. Moves(r, "done")
  BY <1>1, <1>2, <1>3 DEF Moves, RenewalInv, TypeOK
<1>5. /\ "done" \in PCs /\ "done" \notin BodyPCs /\ MayBeAt(op[r], "done")
      /\ ~HasIssued(op[r], "done")
  BY DEF PCs, BodyPCs, MayBeAt, InstallPCs, HasIssued
<1> QED BY <1>1, <1>4, <1>5, HolderStep

\* Crash keeps the invariant: a killed process is in no body, and holds no lock.
LEMMA CrashInv ==
  ASSUME RenewalInv, NEW r \in Runs, Crash(r)
  PROVE  RenewalInv'
<1> USE DEF RenewalInv
<1>1. /\ pc' = [pc EXCEPT ![r] = "crashed"] /\ op' = [op EXCEPT ![r] = "inspect"]
      /\ mode' = [mode EXCEPT ![r] = "json"] /\ name' = [name EXCEPT ![r] = 0]
      /\ key' = [key EXCEPT ![r] = 0] /\ cert' = [cert EXCEPT ![r] = NoCert]
      /\ err' = [err EXCEPT ![r] = "none"] /\ trace' = [trace EXCEPT ![r] = {}]
      /\ item' = [item EXCEPT ![r] = NewItem(NoCert)]
      /\ UNCHANGED <<pend, active, issued, fresh, disturb>>
  BY DEF Crash, Goto, SetItem
<1>2. Dev(r) \in Devices
  BY RunFacts
<1>3. \/ UNCHANGED holder
      \/ holder' = [holder EXCEPT ![Dev(r)] = {}] /\ holder[Dev(r)] \subseteq {r}
  <2>1. CASE r \in holder[Dev(r)]
    <3>1. holder[Dev(r)] \subseteq {r}
      BY <1>2, <2>1 DEF BodyHoldsLock
    <3> QED BY <2>1, <3>1 DEF Crash, Lock!Release
  <2> QED BY <2>1 DEF Crash
<1>4. TypeOK'
  <2>1. /\ pc' \in [Runs -> PCs] /\ op' \in [Runs -> AllOps]
        /\ mode' \in [Runs -> {"json", "human"}] /\ name' \in [Runs -> Names \cup {0}]
        /\ key' \in [Runs -> Nat] /\ cert' \in [Runs -> Certs \cup {NoCert}]
    BY <1>1 DEF TypeOK, PCs, AllOps
  <2>2. item' \in [Runs -> Items]
    BY <1>1, NewItemType DEF TypeOK, Items
  <2>3. /\ err' \in [Runs -> Errors \cup {"release"}]
        /\ trace' \in [Runs -> SUBSET (Effects \cup {"saw_pending"})]
    BY <1>1 DEF TypeOK, Errors
  <2>4. Lock!LockTypeOK'
    BY <1>2, <1>3 DEF TypeOK, Lock!LockTypeOK
  <2> QED BY <1>1, <2>1, <2>2, <2>3, <2>4 DEF TypeOK, Items
<1>5. \A q \in Runs : q # r => /\ pc'[q] = pc[q] /\ op'[q] = op[q]
                               /\ key'[q] = key[q] /\ cert'[q] = cert[q]
  BY <1>1 DEF TypeOK
<1>6. pc'[r] = "crashed" /\ op'[r] = "inspect" /\ key'[r] = 0
  BY <1>1 DEF TypeOK
<1>7. PcMatchesOp'
  BY <1>5, <1>6 DEF PcMatchesOp, MayBeAt, InstallPCs, HasIssued
<1>8. BodyHoldsLock'
  <2>1. ASSUME NEW q \in Runs, pc'[q] \in BodyPCs, Locked(q)'
        PROVE  holder'[Dev(q)] = {q}
    <3>1. q # r
      BY <1>6, <2>1 DEF BodyPCs
    <3>2. holder[Dev(q)] = {q} /\ Dev(q) \in Devices
      BY <1>5, <2>1, <3>1, RunFacts DEF BodyHoldsLock, Locked
    <3> QED BY <1>2, <1>3, <3>1, <3>2 DEF TypeOK, Lock!LockTypeOK
  <2>2. \A d \in Devices : holder'[d] = holder[d] \/ holder'[d] = {}
    BY <1>2, <1>3 DEF TypeOK, Lock!LockTypeOK
  <2>3. \A d \in Devices : \A p, q \in holder'[d] : p = q
    BY <2>2 DEF BodyHoldsLock
  <2> QED BY <2>1, <2>3 DEF BodyHoldsLock, Dev
<1>9. NoOwnCSRBeforeCreate'
  BY <1>1, <1>5, <1>6 DEF NoOwnCSRBeforeCreate, Dev
<1>10. OneOwnCSR' /\ NumbersAreOld'
  <2>1. key[r] < fresh /\ key[r] \in Nat /\ fresh \in Nat
    BY DEF NumbersAreOld, TypeOK
  <2>2. \A q \in Runs : key'[q] < fresh
    BY <1>5, <1>6, <2>1 DEF NumbersAreOld
  <2> QED BY <1>1, <2>2 DEF OneOwnCSR, NumbersAreOld
<1>11. CertIsIssued'
  BY <1>1, <1>5, <1>6 DEF CertIsIssued, InstallPCs, HasIssued
<1> QED BY <1>4, <1>7, <1>8, <1>9, <1>10, <1>11

-----------------------------------------------------------------------------
(* renewal_preflight and generate_csr.                                     *)

\* A set of numbers that is not empty has a least one.
LEMMA LeastExists ==
  ASSUME NEW T, T \subseteq Nat, T # {}
  PROVE  \E x \in T : \A y \in T : x <= y
<1> DEFINE R == OpToRel(<, Nat)
<1>1. IsWellFoundedOn(R, Nat)
  BY NatLessThanWellFounded
<1>2. \A x, y \in Nat : y < x => <<y, x>> \in R
  BY SMT DEF OpToRel
<1> HIDE DEF R
<1>3. PICK x \in T : \A y \in T : ~ (<<y, x>> \in R)
  BY Zenon, <1>1, WFMin
<1>4. ASSUME NEW y \in T PROVE x <= y
  <2>1. x \in Nat /\ y \in Nat
    OBVIOUS
  <2>2. ~(y < x)
    BY <1>2, <1>3, <2>1
  <2> QED BY <2>1, <2>2
<1> QED BY <1>4

\* choose_renewal_certificate_name returns a free name if there is one, and no
\* smaller name is free.
LEMMA FirstFreeIsFree ==
  ASSUME NEW d \in Devices, FreeNames(d) # {}
  PROVE  FirstFree(d) \in FreeNames(d) /\ \A m \in FreeNames(d) : FirstFree(d) <= m
<1>1. FreeNames(d) \subseteq Nat
  BY NatAssumption DEF FreeNames, Names
<1>2. \E n \in FreeNames(d) : \A m \in FreeNames(d) : n <= m
  BY <1>1, LeastExists
<1> QED BY Zenon, <1>2 DEF FirstFree

\* Preflight keeps the invariant.
LEMMA PreflightInv ==
  ASSUME RenewalInv, NEW r \in Runs, Preflight(r)
  PROVE  RenewalInv'
<1> USE RunFacts
<1>1. pc[r] = "preflight" /\ pc[r] \in BodyPCs /\ NoRemoteChange
  BY DEF Preflight, BodyPCs, PCs
<1>2. CASE \E e \in Errors : /\ Raise(r, item[r], e)
                             /\ UNCHANGED trace \/ Saw(r, "saw_pending")
  BY <1>1, <1>2, RaiseInv, SawType
<1>3. CASE /\ FreeNames(Dev(r)) # {}
           /\ name' = [name EXCEPT ![r] = FirstFree(Dev(r))]
           /\ Proceed(r, Note(r, item[r], "preflight_confirmed"), "gen_inspect")
           /\ UNCHANGED <<key, cert, trace>>
  <2>1. name' \in [Runs -> Names \cup {0}]
    <3>1. FirstFree(Dev(r)) \in Names
      BY <1>3, FirstFreeIsFree DEF FreeNames
    <3> QED BY <1>3, <3>1 DEF RenewalInv, TypeOK
  <2>2. Note(r, item[r], "preflight_confirmed") \in Items
    BY NoteType DEF Events
  <2>3. Moves(r, "gen_inspect")
    BY <1>3, <2>1, <2>2, ProceedMoves
  <2>4. Safe(r, "gen_inspect")
    BY <1>1, SafeNext DEF MayBeAt, RenewOps, RenewOr, BodyPCs, PCs, InstallPCs, HasIssued
  <2> QED BY <1>1, <1>3, <2>3, <2>4, QuietStep
<1>4. \A k \in RawErrors : PreflightError(k) \in Errors
  BY DEF PreflightError, RawErrors, Errors
<1>5. "pending" \in Errors /\ "preflight" \in Errors
  BY DEF Errors
<1> QED BY <1>2, <1>3, <1>4, <1>5 DEF Preflight

\* Every classified failure is one of the exceptions.
LEMMA ErrorTypes ==
  ASSUME NEW r \in Runs, NEW k \in RawErrors
  PROVE  /\ GenerateError(r, k) \in Errors /\ SignError(r, k) \in Errors
         /\ PreInstallError(r) \in Errors /\ CreateError(r) \in Errors
         /\ InstallError(r) \in Errors
         /\ "value" \in RawErrors
  BY DEF GenerateError, SignError, PreInstallError, CreateError, InstallError, RawErrors, Errors

\* GenerateInspect keeps the invariant.
LEMMA GenerateInspectInv ==
  ASSUME RenewalInv, NEW r \in Runs, GenerateInspect(r)
  PROVE  RenewalInv'
<1> USE RunFacts
<1>1. pc[r] = "gen_inspect" /\ pc[r] \in BodyPCs /\ NoRemoteChange
  BY DEF GenerateInspect, BodyPCs, PCs
<1>2. CASE \E k \in RawErrors : /\ Raise(r, item[r], GenerateError(r, k))
                                /\ UNCHANGED trace \/ Saw(r, "saw_pending")
  BY <1>1, <1>2, RaiseInv, SawType, ErrorTypes
<1>3. CASE /\ SummaryClean(r)
           /\ Proceed(r, item[r], "gen_create") /\ UNCHANGED <<name, key, cert, trace>>
  <2>1. MayBeAt(op[r], "gen_create") /\ "gen_create" \in PCs
        /\ ~HasIssued(op[r], "gen_create")
    BY <1>1 DEF MayBeAt, PCs, InstallPCs, HasIssued
  <2>2. Safe(r, "gen_create")
    BY <1>1, <1>3, <2>1 DEF Safe, SummaryClean
  <2> QED BY <1>1, <1>3, <2>2, ProceedInv
<1>4. "value" \in RawErrors
  BY DEF RawErrors
<1> QED BY <1>2, <1>3, <1>4 DEF GenerateInspect

\* Two invocations are never both about to create a CSR on one switch.
LEMMA CreatorIsAlone ==
  ASSUME RenewalInv, NEW r \in Runs, NEW q \in Runs, pc[r] = "gen_create",
         pc[q] = "gen_create", Dev(q) = Dev(r)
  PROVE  q = r
<1>1. "gen_create" \in BodyPCs
  BY DEF BodyPCs, PCs
<1>2. \A p \in Runs : pc[p] = "gen_create" => Locked(p)
  BY RunFacts DEF MayBeAt, Locked, LockedOps, RenewOr, RenewOps
<1>3. holder[Dev(r)] = {r} /\ holder[Dev(q)] = {q}
  BY <1>1, <1>2, RunFacts
<1> QED BY <1>3

\* A CSR is created while the switch has none of the tool.
LEMMA CreatedStep ==
  ASSUME RenewalInv, NEW r \in Runs, pc[r] = "gen_create",
         NEW l, l # "gen_create", Moves(r, l), Safe(r, l),
         SwitchCreatesCSR(r), UNCHANGED <<key, cert, holder, active, issued, disturb>>
  PROVE  RenewalInv'
<1> USE DEF RenewalInv
<1> DEFINE new == [name |-> name[r], key |-> fresh, by |-> r]
<1>1. /\ pend' = [pend EXCEPT ![Dev(r)] = @ \cup {new}]
      /\ fresh' = fresh + 1 /\ Saw(r, "csr")
  BY DEF SwitchCreatesCSR
<1>2. Dev(r) \in Devices /\ new \in CSRs /\ fresh \in Nat
  BY RunFacts DEF TypeOK, CSRs
<1>3. new.by = r /\ new.key = fresh
  OBVIOUS
<1> HIDE DEF new
<1>4. \A d \in Devices : pend'[d] = IF d = Dev(r) THEN pend[d] \cup {new} ELSE pend[d]
  BY <1>1, <1>2 DEF TypeOK
<1>5. TypeOK'
  <2>1. pc' \in [Runs -> PCs]
    BY DEF TypeOK, Moves, Safe
  <2>2. pend' \in [Devices -> SUBSET CSRs]
    BY <1>1, <1>2 DEF TypeOK
  <2>3. trace' \in [Runs -> SUBSET (Effects \cup {"saw_pending"})]
    BY <1>1, SawType DEF Effects
  <2>4. fresh' \in Nat
    BY <1>1, <1>2
  <2> QED BY <2>1, <2>2, <2>3, <2>4 DEF TypeOK, Moves, Items, Lock!LockTypeOK
<1>6. \A q \in Runs : q # r => pc'[q] = pc[q]
  BY DEF TypeOK, Moves
<1>7. pc'[r] = l
  BY DEF TypeOK, Moves
<1>8. PcMatchesOp' /\ CertIsIssued'
  BY <1>6, <1>7 DEF PcMatchesOp, CertIsIssued, Moves, Safe
<1>9. BodyHoldsLock'
  BY <1>6, <1>7 DEF BodyHoldsLock, Safe, Moves, Locked, Dev
<1>10. NoOwnCSRBeforeCreate'
  <2>1. ASSUME NEW q \in Runs, pc'[q] = "gen_create" PROVE pend'[Dev(q)] = pend[Dev(q)]
    <3>1. q # r /\ pc[q] = "gen_create"
      BY <1>6, <1>7, <2>1
    <3>2. Dev(q) # Dev(r)
      BY <3>1, CreatorIsAlone
    <3> QED BY <1>4, <3>2, RunFacts
  <2>2. \A q \in Runs : pc'[q] = "gen_create" => pc[q] = "gen_create"
    BY <1>6, <1>7
  <2>3. \A q \in Runs : pc'[q] = "gen_create" => \A c \in pend'[Dev(q)] : c.by \notin Runs
    BY <2>1, <2>2, RunFacts
  <2> QED BY <2>3 DEF NoOwnCSRBeforeCreate, Dev
<1>11. OneOwnCSR'
  <2>1. \A c \in pend[Dev(r)] : c.by \notin Runs
    BY RunFacts
  <2> QED BY <1>2, <1>4, <2>1 DEF OneOwnCSR
<1>12. NumbersAreOld'
  <2>1. \A d \in Devices : \A c \in pend'[d] : c.key < fresh'
    <3>1. \A d \in Devices : \A c \in pend[d] : c.key \in Nat /\ c.key < fresh
      BY DEF TypeOK, CSRs, NumbersAreOld
    <3> QED BY <1>1, <1>2, <1>3, <1>4, <3>1
  <2>2. \A x \in issued : x.key < fresh' /\ x.serial < fresh'
    <3>1. \A x \in issued : x.key \in Nat /\ x.serial \in Nat
      BY DEF TypeOK, Certs
    <3> QED BY <1>1, <1>2, <3>1 DEF NumbersAreOld
  <2>3. \A q \in Runs : key[q] < fresh'
    BY <1>1, <1>2 DEF TypeOK, NumbersAreOld
  <2> QED BY <2>1, <2>2, <2>3 DEF NumbersAreOld
<1> QED BY <1>5, <1>8, <1>9, <1>10, <1>11, <1>12

\* GenerateCreate keeps the invariant.
LEMMA GenerateCreateInv ==
  ASSUME RenewalInv, NEW r \in Runs, GenerateCreate(r)
  PROVE  RenewalInv'
<1> USE RunFacts
<1>1. /\ pc[r] = "gen_create" /\ pc[r] \in BodyPCs
      /\ UNCHANGED <<holder, active, issued, disturb>>
      /\ SwitchCreatesCSR(r) \/ UNCHANGED <<pend, fresh, trace>>
  BY DEF GenerateCreate, BodyPCs, PCs
<1>2. PICK l \in {"unlock", "done", "gen_fetch"} :
        Moves(r, l) /\ Safe(r, l) /\ UNCHANGED <<key, cert>>
  <2>1. CASE Raise(r, item[r], CreateError(r))
    <3>1. CreateError(r) \in Errors
      BY DEF CreateError, Errors
    <3> QED BY <2>1, <3>1, RaiseMoves
  <2>2. CASE Proceed(r, item[r], "gen_fetch") /\ UNCHANGED <<name, key, cert>>
    <3>1. Moves(r, "gen_fetch")
      BY <2>2, ProceedMoves DEF RenewalInv, TypeOK
    <3>2. Safe(r, "gen_fetch")
      BY <1>1, SafeNext DEF MayBeAt, BodyPCs, PCs, InstallPCs, HasIssued
    <3> QED BY <2>2, <3>1, <3>2
  <2> QED BY <2>1, <2>2 DEF GenerateCreate
<1>3. CASE SwitchCreatesCSR(r)
  BY <1>1, <1>2, <1>3, CreatedStep
<1>4. CASE UNCHANGED <<pend, fresh, trace>>
  BY <1>1, <1>2, <1>4, QuietStep DEF NoRemoteChange
<1> QED BY <1>1, <1>3, <1>4

\* The key of a pending CSR is older than the next one.
LEMMA PendingKey ==
  ASSUME RenewalInv, NEW r \in Runs, NEW c \in PendingAs(Dev(r), name[r])
  PROVE  c.key \in Nat /\ c.key < fresh /\ c \in pend[Dev(r)]
<1>1. Dev(r) \in Devices /\ c \in pend[Dev(r)]
  BY RunFacts DEF PendingAs
<1>2. c \in CSRs /\ c.key < fresh
  BY <1>1 DEF RenewalInv, TypeOK, NumbersAreOld
<1> QED BY <1>1, <1>2 DEF CSRs

\* GenerateFetch keeps the invariant.
LEMMA GenerateFetchInv ==
  ASSUME RenewalInv, NEW r \in Runs, GenerateFetch(r)
  PROVE  RenewalInv'
<1> USE RunFacts
<1>1. /\ pc[r] = "gen_fetch" /\ pc[r] \in BodyPCs /\ NoRemoteChange /\ UNCHANGED trace
  BY DEF GenerateFetch, BodyPCs, PCs
<1>2. CASE Raise(r, item[r], CreateError(r))
  BY <1>1, <1>2, RaiseInv DEF CreateError, Errors
<1>3. ASSUME NEW c \in PendingAs(Dev(r), name[r]), NEW it \in Items,
             NEW l \in {"fetch_observe", "write"}, MayBeAt(op[r], l),
             key' = [key EXCEPT ![r] = c.key], Proceed(r, it, l), UNCHANGED <<name, cert>>
      PROVE  RenewalInv'
  <2>1. Moves(r, l)
    BY <1>3, ProceedMoves DEF RenewalInv, TypeOK
  <2>2. Safe(r, l)
    BY <1>1, <1>3, SafeNext DEF BodyPCs, PCs, InstallPCs, HasIssued
  <2> QED BY <1>1, <1>3, <2>1, <2>2, PendingKey, QuietStep
<1>4. ASSUME NEW c \in PendingAs(Dev(r), name[r]), key' = [key EXCEPT ![r] = c.key],
             UNCHANGED <<name, cert>>,
             LET it == Note(r, item[r], "csr_confirmed") IN
             IF Renewing(r)
             THEN Proceed(r, Note(r, it, "csr_retrieval_started"), "fetch_observe")
             ELSE Proceed(r, it, "write")
      PROVE  RenewalInv'
  <2> DEFINE it == Note(r, item[r], "csr_confirmed")
  <2>1. it \in Items /\ Note(r, it, "csr_retrieval_started") \in Items
    BY NoteType DEF Events
  <2>2. Renewing(r) => MayBeAt(op[r], "fetch_observe")
    BY DEF Renewing, RenewOps, RenewOr, MayBeAt, InstallPCs, HasIssued
  <2>3. MayBeAt(op[r], "write")
    BY DEF MayBeAt, InstallPCs, HasIssued
  <2> QED BY <1>3, <1>4, <2>1, <2>2, <2>3
<1> QED BY <1>2, <1>4 DEF GenerateFetch

-----------------------------------------------------------------------------
(* retrieve_csr, and signing.                                              *)

\* FetchObserve keeps the invariant.
LEMMA FetchObserveInv ==
  ASSUME RenewalInv, NEW r \in Runs, FetchObserve(r)
  PROVE  RenewalInv'
<1> USE RunFacts
<1>1. /\ pc[r] = "fetch_observe" /\ pc[r] \in BodyPCs /\ NoRemoteChange /\ UNCHANGED trace
  BY DEF FetchObserve, BodyPCs, PCs
<1>2. CASE \E k \in RawErrors : Raise(r, item[r], SignError(r, k))
  BY <1>1, <1>2, RaiseInv, ErrorTypes
<1>3. CASE /\ Proceed(r, Note(r, item[r], "pending_csr_observed"), "fetch_detail")
           /\ UNCHANGED <<name, key, cert>>
  <2>1. Note(r, item[r], "pending_csr_observed") \in Items
    BY NoteType DEF Events
  <2>2. Safe(r, "fetch_detail")
    BY <1>1, SafeNext DEF MayBeAt, BodyPCs, PCs, InstallPCs, HasIssued
  <2> QED BY <1>1, <1>3, <2>1, <2>2, ProceedInv
<1>4. "value" \in RawErrors
  BY DEF RawErrors
<1> QED BY <1>2, <1>3, <1>4 DEF FetchObserve

\* FetchDetail keeps the invariant.
LEMMA FetchDetailInv ==
  ASSUME RenewalInv, NEW r \in Runs, FetchDetail(r)
  PROVE  RenewalInv'
<1> USE RunFacts
<1>1. /\ pc[r] = "fetch_detail" /\ pc[r] \in BodyPCs /\ NoRemoteChange /\ UNCHANGED trace
  BY DEF FetchDetail, BodyPCs, PCs
<1>2. CASE \E k \in RawErrors : Raise(r, item[r], SignError(r, k))
  BY <1>1, <1>2, RaiseInv, ErrorTypes
<1>3. ASSUME NEW c \in PendingAs(Dev(r), name[r]), NEW it \in Items,
             NEW l \in {"resolve", "write"}, MayBeAt(op[r], l),
             key' = [key EXCEPT ![r] = c.key], Proceed(r, it, l), UNCHANGED <<name, cert>>
      PROVE  RenewalInv'
  <2>1. Moves(r, l)
    BY <1>3, ProceedMoves DEF RenewalInv, TypeOK
  <2>2. Safe(r, l)
    BY <1>1, <1>3, SafeNext DEF BodyPCs, PCs, InstallPCs, HasIssued
  <2> QED BY <1>1, <1>3, <2>1, <2>2, PendingKey, QuietStep
<1>4. ASSUME NEW c \in PendingAs(Dev(r), name[r]), key' = [key EXCEPT ![r] = c.key],
             UNCHANGED <<name, cert>>,
             LET it == Note(r, item[r], "csr_retrieved") IN
             IF op[r] = "retrieve_csr"
             THEN Proceed(r, it, "write")
             ELSE Proceed(r, Note(r, it, "signing_preparation"), "resolve")
      PROVE  RenewalInv'
  <2> DEFINE it == Note(r, item[r], "csr_retrieved")
  <2>1. it \in Items /\ Note(r, it, "signing_preparation") \in Items
    BY NoteType DEF Events
  <2>2. op[r] # "retrieve_csr" => MayBeAt(op[r], "resolve")
    BY <1>1 DEF MayBeAt, InstallPCs, HasIssued
  <2>3. MayBeAt(op[r], "write")
    BY DEF MayBeAt, InstallPCs, HasIssued
  <2> QED BY <1>3, <1>4, <2>1, <2>2, <2>3
<1> QED BY <1>2, <1>4 DEF FetchDetail

\* ResolveCA keeps the invariant.
LEMMA ResolveCAInv ==
  ASSUME RenewalInv, NEW r \in Runs, ResolveCA(r)
  PROVE  RenewalInv'
<1> USE RunFacts
<1>1. /\ pc[r] = "resolve" /\ pc[r] \in BodyPCs /\ NoRemoteChange /\ UNCHANGED trace
  BY DEF ResolveCA, BodyPCs, PCs
<1>2. CASE \E k \in RawErrors : Raise(r, item[r], SignError(r, k))
  BY <1>1, <1>2, RaiseInv, ErrorTypes
<1>3. CASE Proceed(r, item[r], "post") /\ UNCHANGED <<name, key, cert>>
  <2>1. Safe(r, "post")
    BY <1>1, SafeNext DEF MayBeAt, BodyPCs, PCs, InstallPCs, HasIssued
  <2> QED BY <1>1, <1>3, <2>1, ProceedInv
<1> QED BY <1>2, <1>3 DEF ResolveCA

\* A certificate is issued under a new serial number; whoever had an issued
\* certificate still has one.
LEMMA IssuedStep ==
  ASSUME RenewalInv, NEW r \in Runs, pc[r] = "post",
         NEW l \in {"unlock", "done", "get"}, Moves(r, l), MayBeAt(op[r], l),
         l = "unlock" => holder[Dev(r)] = {r},
         OPNsenseIssues(r), UNCHANGED <<key, holder, pend, active, disturb>>,
         cert' = [cert EXCEPT ![r] = NewCert(r)] \/ (UNCHANGED cert /\ l # "get")
  PROVE  RenewalInv'
<1> USE DEF RenewalInv
<1>1. /\ issued' = issued \cup {NewCert(r)} /\ fresh' = fresh + 1 /\ Saw(r, "issue")
  BY DEF OPNsenseIssues
<1>2. /\ fresh \in Nat /\ key[r] \in Nat /\ key[r] < fresh
      /\ NewCert(r) \in Certs /\ NewCert(r).key = key[r] /\ NewCert(r).serial = fresh
  BY RunFacts DEF TypeOK, NumbersAreOld, NewCert, Certs
<1>3. TypeOK'
  <2>1. pc' \in [Runs -> PCs]
    BY DEF TypeOK, Moves, PCs
  <2>2. issued' \in SUBSET Certs /\ fresh' \in Nat
    BY <1>1, <1>2 DEF TypeOK
  <2>3. cert' \in [Runs -> Certs \cup {NoCert}]
    BY <1>2 DEF TypeOK
  <2>4. trace' \in [Runs -> SUBSET (Effects \cup {"saw_pending"})]
    BY <1>1, SawType DEF Effects
  <2> QED BY <2>1, <2>2, <2>3, <2>4 DEF TypeOK, Moves, Items, Lock!LockTypeOK
<1>4. \A q \in Runs : q # r => pc'[q] = pc[q] /\ cert'[q] = cert[q]
  BY DEF TypeOK, Moves
<1>5. pc'[r] = l
  BY DEF TypeOK, Moves
<1>6. PcMatchesOp'
  BY <1>4, <1>5 DEF PcMatchesOp, Moves
<1>7. BodyHoldsLock'
  <2>1. "post" \in BodyPCs
    BY DEF BodyPCs, PCs
  <2>2. \A q \in Runs : Locked(q)' <=> Locked(q)
    BY DEF Locked, Moves
  <2>3. Locked(r) => holder[Dev(r)] = {r}
    BY <2>1, RunFacts
  <2> QED BY <1>4, <1>5, <2>2, <2>3 DEF BodyHoldsLock, Dev
<1>8. CertIsIssued'
  <2>2. l = "get" => cert'[r] \in issued'
    BY <1>1 DEF TypeOK
  <2>3. op' = op
    BY DEF Moves
  <2>4. issued \subseteq issued'
    BY <1>1
  <2>5. HasIssued(op[r], l) => l = "get"
    BY DEF HasIssued, InstallPCs
  <2> QED BY <1>4, <1>5, <2>2, <2>3, <2>4, <2>5 DEF CertIsIssued
<1>9. NoOwnCSRBeforeCreate' /\ OneOwnCSR'
  BY <1>4, <1>5 DEF NoOwnCSRBeforeCreate, OneOwnCSR, Dev
<1>10. NumbersAreOld'
  <2>1. \A d \in Devices : \A c \in pend[d] : c.key < fresh'
    <3>1. \A d \in Devices : \A c \in pend[d] : c.key \in Nat /\ c.key < fresh
      BY DEF TypeOK, CSRs, NumbersAreOld
    <3> QED BY <1>1, <1>2, <3>1
  <2>2. \A x \in issued' : x.key < fresh' /\ x.serial < fresh'
    <3>1. \A x \in issued : x.key \in Nat /\ x.serial \in Nat /\ x.key < fresh /\ x.serial < fresh
      BY DEF TypeOK, Certs, NumbersAreOld
    <3> QED BY <1>1, <1>2, <3>1
  <2>3. \A q \in Runs : key[q] < fresh'
    BY <1>1, <1>2 DEF TypeOK, NumbersAreOld
  <2> QED BY <2>1, <2>2, <2>3 DEF NumbersAreOld
<1> QED BY <1>3, <1>6, <1>7, <1>8, <1>9, <1>10

\* PostCSR keeps the invariant.
LEMMA PostCSRInv ==
  ASSUME RenewalInv, NEW r \in Runs, PostCSR(r)
  PROVE  RenewalInv'
<1> USE RunFacts
<1> DEFINE sent == Dispatched(r, item[r])
<1>1. /\ pc[r] = "post" /\ pc[r] \in BodyPCs /\ UNCHANGED <<holder, pend, active, disturb>>
  BY DEF PostCSR, BodyPCs, PCs
<1>2. sent \in Items /\ Note(r, sent, "issuance_confirmed") \in Items
  BY NoteType DEF Events, Dispatched
<1>3. \A k \in RawErrors : SignError(r, k) \in Errors
  BY ErrorTypes
<1>4. "value" \in RawErrors
  BY DEF RawErrors
<1>5. /\ \/ /\ Raise(r, item[r], SignError(r, "value"))
            /\ UNCHANGED <<issued, fresh, trace>>
         \/ /\ \E k \in RawErrors : Raise(r, sent, SignError(r, k))
            /\ OPNsenseIssues(r) \/ UNCHANGED <<issued, fresh, trace>>
         \/ /\ OPNsenseIssues(r)
            /\ cert' = [cert EXCEPT ![r] = NewCert(r)]
            /\ Proceed(r, Note(r, sent, "issuance_confirmed"), "get")
            /\ UNCHANGED <<name, key>>
  BY DEF PostCSR
<1> HIDE DEF sent
<1>6. ASSUME NEW it \in Items, NEW e \in Errors, Raise(r, it, e),
             UNCHANGED <<issued, fresh, trace>>
      PROVE  RenewalInv'
  BY <1>1, <1>6, RaiseInv DEF NoRemoteChange
<1>7. ASSUME NEW it \in Items, NEW e \in Errors, Raise(r, it, e), OPNsenseIssues(r)
      PROVE  RenewalInv'
  <2>1. PICK l \in {"unlock", "done"} : /\ Moves(r, l) /\ Safe(r, l)
                                        /\ l = "unlock" => holder[Dev(r)] = {r}
    BY <1>7, RaiseMoves
  <2>2. UNCHANGED <<key, cert>>
    BY <1>7, RaiseMoves
  <2> QED BY <1>1, <1>7, <2>1, <2>2, IssuedStep DEF Safe
<1>8. CASE /\ OPNsenseIssues(r)
           /\ cert' = [cert EXCEPT ![r] = NewCert(r)]
           /\ Proceed(r, Note(r, sent, "issuance_confirmed"), "get")
           /\ UNCHANGED <<name, key>>
  <2>1. Moves(r, "get")
    BY <1>2, <1>8, ProceedMoves DEF RenewalInv, TypeOK
  <2>2. MayBeAt(op[r], "get")
    BY <1>1 DEF MayBeAt, InstallPCs, HasIssued
  <2> QED BY <1>1, <1>8, <2>1, <2>2, IssuedStep
<1> QED BY <1>2, <1>3, <1>4, <1>5, <1>6, <1>7, <1>8

\* GetCertificate keeps the invariant.
LEMMA GetCertificateInv ==
  ASSUME RenewalInv, NEW r \in Runs, GetCertificate(r)
  PROVE  RenewalInv'
<1> USE RunFacts
<1> DEFINE read == Note(r, item[r], "certificate_retrieved")
           valid == Note(r, read, "issued_validated")
           signed == [valid EXCEPT !.ms["csr"] = "confirmed", !.certificate = cert[r]]
<1>1. /\ pc[r] = "get" /\ pc[r] \in BodyPCs /\ NoRemoteChange /\ UNCHANGED trace
  BY DEF GetCertificate, BodyPCs, PCs
<1>2. read \in Items /\ valid \in Items
  BY NoteType DEF Events
<1>3. signed \in Items
  <2> HIDE DEF valid
  <2> QED BY <1>2 DEF Items, Item, Milestones, MilestoneNames
<1>4. /\ \/ \E k \in RawErrors : Raise(r, item[r], SignError(r, k))
         \/ Raise(r, read, SignError(r, "value"))
         \/ /\ IF Renewing(r)
               THEN Proceed(r, valid, "inst_observe")
               ELSE Proceed(r, IF Json(r) THEN signed ELSE read, "write")
            /\ UNCHANGED <<name, key, cert>>
  BY DEF GetCertificate
<1> HIDE DEF read, valid, signed
<1>5. CASE \E it \in Items, k \in RawErrors : Raise(r, it, SignError(r, k))
  BY <1>1, <1>5, RaiseInv, ErrorTypes
<1>6. CASE Renewing(r) /\ Proceed(r, valid, "inst_observe") /\ UNCHANGED <<name, key, cert>>
  <2>1. MayBeAt(op[r], "inst_observe") /\ "inst_observe" \in BodyPCs
    BY <1>6 DEF Renewing, RenewOps, RenewOr, MayBeAt, InstallPCs, HasIssued, BodyPCs, PCs
  <2>2. Safe(r, "inst_observe")
    <3>1. cert[r] \in issued
      BY <1>1 DEF HasIssued
    <3> QED BY <1>1, <2>1, <3>1, SafeNext
  <2> QED BY <1>1, <1>2, <1>6, <2>2, ProceedInv
<1>7. ASSUME NEW it \in Items, Proceed(r, it, "write"), UNCHANGED <<name, key, cert>>
      PROVE  RenewalInv'
  <2>1. Safe(r, "write")
    BY <1>1, SafeNext DEF MayBeAt, BodyPCs, PCs, InstallPCs, HasIssued
  <2> QED BY <1>1, <1>7, <2>1, ProceedInv
<1>8. "value" \in RawErrors
  BY DEF RawErrors
<1> QED BY <1>2, <1>3, <1>4, <1>5, <1>6, <1>7, <1>8

\* WriteOutput keeps the invariant.
LEMMA WriteOutputInv ==
  ASSUME RenewalInv, NEW r \in Runs, WriteOutput(r)
  PROVE  RenewalInv'
<1>1. /\ pc[r] # "new" /\ NoRemoteChange /\ UNCHANGED trace
  BY DEF WriteOutput
<1>2. CASE \E e \in {"csr", "write"} : Raise(r, item[r], e)
  BY <1>1, <1>2, RunFacts, RaiseInv DEF Errors
<1>3. CASE \E o \in {"success_no_change", "success_prepared"} : Succeed(r, item[r], o)
  BY <1>1, <1>3, RunFacts, SucceedInv DEF Outcomes
<1> QED BY <1>2, <1>3 DEF WriteOutput

-----------------------------------------------------------------------------
(* Installation and verification.                                          *)

\* The steps of the installation that only read.
LEMMA InstallReadsInv ==
  ASSUME RenewalInv, NEW r \in Runs, NEW l \in InstallPCs,
         pc[r] \in InstallPCs, HasIssued(op[r], l) => cert[r] \in issued,
         NoRemoteChange, UNCHANGED trace,
         \/ \E it \in Items, e \in Errors : Raise(r, it, e)
         \/ \E it \in Items : Proceed(r, it, l) /\ UNCHANGED <<name, key, cert>>
  PROVE  RenewalInv'
<1> USE RunFacts
<1>1. pc[r] # "new" /\ pc[r] \in BodyPCs /\ l \in BodyPCs \ {"gen_create"}
  BY DEF InstallPCs, BodyPCs, PCs
<1>2. MayBeAt(op[r], l)
  BY DEF MayBeAt, InstallPCs, HasIssued
<1>3. Safe(r, l)
  BY <1>1, <1>2, SafeNext
<1>4. CASE \E it \in Items, e \in Errors : Raise(r, it, e)
  BY <1>1, <1>4, RaiseInv
<1>5. CASE \E it \in Items : Proceed(r, it, l) /\ UNCHANGED <<name, key, cert>>
  BY <1>1, <1>3, <1>5, ProceedInv
<1> QED BY <1>4, <1>5

\* InstallObserve keeps the invariant.
LEMMA InstallObserveInv ==
  ASSUME RenewalInv, NEW r \in Runs, InstallObserve(r)
  PROVE  RenewalInv'
<1>1. /\ pc[r] = "inst_observe" /\ NoRemoteChange /\ UNCHANGED trace
      /\ "inst_observe" \in InstallPCs /\ "inst_validate" \in InstallPCs
  BY DEF InstallObserve, InstallPCs
<1>2. InstallNote(r, InstallNote(r, item[r], "pending_csr_observed"),
                  "csr_retrieval_started") \in Items
  BY RunFacts, NoteType DEF Events
<1>3. item[r] \in Items /\ PreInstallError(r) \in Errors
  BY RunFacts DEF PreInstallError, Errors, RawErrors
<1>4. HasIssued(op[r], "inst_validate") => cert[r] \in issued
  BY <1>1, RunFacts DEF HasIssued
<1> QED BY <1>1, <1>2, <1>3, <1>4, InstallReadsInv DEF InstallObserve

\* InstallValidate keeps the invariant.
LEMMA InstallValidateInv ==
  ASSUME RenewalInv, NEW r \in Runs, InstallValidate(r)
  PROVE  RenewalInv'
<1> DEFINE read == InstallNote(r, InstallNote(r, item[r], "csr_retrieved"),
                               "issued_validation_started")
           ready == InstallNote(r, InstallNote(r, read, "issued_validated"),
                                "installation_prepared")
<1>1. /\ pc[r] = "inst_validate" /\ NoRemoteChange /\ UNCHANGED trace
      /\ "inst_validate" \in InstallPCs /\ "inst_recheck" \in InstallPCs
  BY DEF InstallValidate, InstallPCs
<1>2. read \in Items /\ ready \in Items
  BY RunFacts, NoteType DEF Events
<1>3. item[r] \in Items /\ PreInstallError(r) \in Errors
  BY RunFacts DEF PreInstallError, Errors, RawErrors
<1>4. \/ Raise(r, item[r], PreInstallError(r))
      \/ Raise(r, read, PreInstallError(r))
      \/ /\ cert[r] \in issued
         /\ Proceed(r, ready, "inst_recheck") /\ UNCHANGED <<name, key, cert>>
  BY DEF InstallValidate, Trusted
<1> HIDE DEF read, ready
<1>5. CASE \E it \in Items, e \in Errors : Raise(r, it, e)
  BY <1>1, <1>5, RunFacts, RaiseInv
<1>6. CASE cert[r] \in issued
  BY <1>1, <1>2, <1>3, <1>4, <1>6, InstallReadsInv
<1> QED BY <1>2, <1>3, <1>4, <1>5, <1>6

\* InstallRecheck keeps the invariant.
LEMMA InstallRecheckInv ==
  ASSUME RenewalInv, NEW r \in Runs, InstallRecheck(r)
  PROVE  RenewalInv'
<1>1. /\ pc[r] = "inst_recheck" /\ NoRemoteChange /\ UNCHANGED trace
      /\ "inst_recheck" \in InstallPCs /\ "inst_paste" \in InstallPCs
  BY DEF InstallRecheck, InstallPCs
<1>2. item[r] \in Items /\ PreInstallError(r) \in Errors
  BY RunFacts DEF PreInstallError, Errors, RawErrors
<1>3. cert[r] \in issued
  BY <1>1, RunFacts DEF HasIssued, InstallPCs
<1> QED BY <1>1, <1>2, <1>3, InstallReadsInv DEF InstallRecheck

\* InstallPaste keeps the invariant.
LEMMA InstallPasteInv ==
  ASSUME RenewalInv, NEW r \in Runs, InstallPaste(r)
  PROVE  RenewalInv'
<1>1. /\ pc[r] = "inst_paste" /\ NoRemoteChange /\ UNCHANGED trace
      /\ "inst_paste" \in InstallPCs /\ "inst_confirm" \in InstallPCs
  BY DEF InstallPaste, InstallPCs
<1>2. item[r] \in Items /\ InstallError(r) \in Errors
  BY RunFacts DEF InstallError, Errors
<1>3. cert[r] \in issued
  BY <1>1, RunFacts DEF HasIssued, InstallPCs
<1> QED BY <1>1, <1>2, <1>3, InstallReadsInv DEF InstallPaste

\* The switch installs an issued certificate and drops the CSR it answers.
LEMMA InstalledStep ==
  ASSUME RenewalInv, NEW r \in Runs, NEW l, l # "gen_create", Moves(r, l), Safe(r, l),
         pc[r] = "inst_confirm", SwitchInstalls(r),
         UNCHANGED <<key, cert, holder, issued, fresh, disturb>>
  PROVE  RenewalInv'
<1> USE DEF RenewalInv
<1>1. PICK c \in Answered(r) :
        /\ pend' = [pend EXCEPT ![Dev(r)] = @ \ {c}]
        /\ active' = [active EXCEPT ![Dev(r)] = [name |-> c.name, cert |-> cert[r]]]
        /\ Saw(r, "install")
  BY DEF SwitchInstalls
<1>2. Dev(r) \in Devices /\ c \in CSRs /\ cert[r] \in issued
  BY RunFacts DEF Answered, TypeOK, InstallPCs, HasIssued
<1>3. \A d \in Devices : pend'[d] \subseteq pend[d]
  BY <1>1 DEF TypeOK
<1>4. TypeOK'
  <2>1. pc' \in [Runs -> PCs]
    BY DEF TypeOK, Moves, Safe
  <2>2. pend' \in [Devices -> SUBSET CSRs]
    BY <1>1 DEF TypeOK
  <2>3. active' \in [Devices -> Installed]
    <3>1. cert[r] \in Certs
      BY <1>2 DEF TypeOK
    <3>2. [name |-> c.name, cert |-> cert[r]] \in Installed
      BY <1>2, <3>1 DEF Installed, CSRs
    <3> QED BY <1>1, <3>2 DEF TypeOK
  <2>4. trace' \in [Runs -> SUBSET (Effects \cup {"saw_pending"})]
    BY <1>1, SawType DEF Effects
  <2> QED BY <2>1, <2>2, <2>3, <2>4 DEF TypeOK, Moves, Items, Lock!LockTypeOK
<1>5. \A q \in Runs : q # r => pc'[q] = pc[q]
  BY DEF TypeOK, Moves
<1>6. pc'[r] = l
  BY DEF TypeOK, Moves
<1>7. PcMatchesOp' /\ CertIsIssued'
  BY <1>5, <1>6 DEF PcMatchesOp, CertIsIssued, Moves, Safe
<1>8. BodyHoldsLock'
  BY <1>5, <1>6 DEF BodyHoldsLock, Safe, Moves, Locked, Dev
<1>9. NoOwnCSRBeforeCreate'
  <2>1. \A q \in Runs : pend'[Dev(q)] \subseteq pend[Dev(q)]
    BY <1>3, RunFacts
  <2>2. \A q \in Runs : pc'[q] = "gen_create" => \A x \in pend'[Dev(q)] : x.by \notin Runs
    BY <1>5, <1>6, <2>1, RunFacts
  <2> QED BY <2>2 DEF NoOwnCSRBeforeCreate, Dev
<1>10. OneOwnCSR' /\ NumbersAreOld'
  BY <1>3 DEF OneOwnCSR, NumbersAreOld
<1> QED BY <1>4, <1>7, <1>8, <1>9, <1>10

\* InstallConfirm keeps the invariant.
LEMMA InstallConfirmInv ==
  ASSUME RenewalInv, NEW r \in Runs, InstallConfirm(r)
  PROVE  RenewalInv'
<1> USE RunFacts
<1>1. /\ pc[r] = "inst_confirm" /\ pc[r] \in BodyPCs
      /\ UNCHANGED <<holder, issued, fresh, disturb>>
      /\ SwitchInstalls(r) \/ UNCHANGED <<pend, active, trace>>
  BY DEF InstallConfirm, BodyPCs, PCs
<1>2. PICK l \in {"unlock", "done", "inst_verify"} :
        Moves(r, l) /\ Safe(r, l) /\ UNCHANGED <<key, cert>>
  <2>1. CASE Raise(r, item[r], InstallError(r))
    <3>1. InstallError(r) \in Errors
      BY DEF InstallError, Errors
    <3> QED BY <2>1, <3>1, RaiseMoves
  <2>2. CASE Proceed(r, item[r], "inst_verify") /\ UNCHANGED <<name, key, cert>>
    <3>1. Moves(r, "inst_verify")
      BY <2>2, ProceedMoves DEF RenewalInv, TypeOK
    <3>2. Safe(r, "inst_verify")
      BY <1>1, SafeNext DEF MayBeAt, BodyPCs, PCs, InstallPCs, HasIssued
    <3> QED BY <2>2, <3>1, <3>2
  <2> QED BY <2>1, <2>2 DEF InstallConfirm
<1>3. CASE SwitchInstalls(r)
  BY <1>1, <1>2, <1>3, InstalledStep
<1>4. CASE UNCHANGED <<pend, active, trace>>
  BY <1>1, <1>2, <1>4, QuietStep DEF NoRemoteChange
<1> QED BY <1>1, <1>3, <1>4

\* InstallVerify keeps the invariant.
LEMMA InstallVerifyInv ==
  ASSUME RenewalInv, NEW r \in Runs, InstallVerify(r)
  PROVE  RenewalInv'
<1> DEFINE shown == InstallationConfirmed(item[r], cert[r])
           it == IF Json(r) THEN shown ELSE item[r]
<1>1. /\ pc[r] = "inst_verify" /\ NoRemoteChange /\ UNCHANGED trace
      /\ "inst_verify" \in InstallPCs /\ "live" \in InstallPCs
  BY DEF InstallVerify, InstallPCs
<1>2. shown \in Items /\ item[r] \in Items /\ InstallError(r) \in Errors
  BY RunFacts, InstallationConfirmedType DEF InstallError, Errors
<1>3. \/ Raise(r, item[r], InstallError(r))
      \/ /\ Proceed(r, IF Json(r) /\ ~Renewing(r)
                       THEN [it EXCEPT !.stage = "live_verification"] ELSE it, "live")
         /\ UNCHANGED <<name, key, cert>>
  BY DEF InstallVerify
<1>4. it \in Items
  BY <1>2
<1> HIDE DEF it
<1>5. [it EXCEPT !.stage = "live_verification"] \in Items
  BY <1>4 DEF Items, Item, Stages
<1>6. cert[r] \in issued
  BY <1>1, RunFacts DEF HasIssued, InstallPCs
<1> QED BY <1>1, <1>2, <1>3, <1>4, <1>5, <1>6, InstallReadsInv

\* VerifyLive keeps the invariant.
LEMMA VerifyLiveInv ==
  ASSUME RenewalInv, NEW r \in Runs, VerifyLive(r)
  PROVE  RenewalInv'
<1>1. /\ pc[r] # "new" /\ NoRemoteChange /\ UNCHANGED trace
  BY DEF VerifyLive
<1>2. CASE \E e \in {"live", "other"} : Raise(r, item[r], e)
  BY <1>1, <1>2, RunFacts, RaiseInv DEF Errors, RawErrors
<1>3. CASE Succeed(r, Note(r, item[r], "live_tls_confirmed"), "success_changed")
  <2>1. Note(r, item[r], "live_tls_confirmed") \in Items
    BY RunFacts, NoteType DEF Events
  <2>2. "success_changed" \in Outcomes
    BY DEF Outcomes
  <2> QED BY <1>1, <1>3, <2>1, <2>2, RunFacts, SucceedInv
<1> QED BY <1>2, <1>3 DEF VerifyLive

-----------------------------------------------------------------------------
(* The switch and its operator.                                            *)

\* Reboot keeps the invariant.
LEMMA RebootInv ==
  ASSUME RenewalInv, NEW d \in Devices, Reboot(d)
  PROVE  RenewalInv'
<1> USE DEF RenewalInv
<1>1. /\ UNCHANGED <<pc, op, mode, name, key, cert, err, item, trace>>
      /\ UNCHANGED <<holder, active, issued, fresh>>
      /\ disturb' = disturb + 1 /\ pend' = [pend EXCEPT ![d] = {}]
  BY DEF Reboot
<1>2. \A x \in Devices : pend'[x] \subseteq pend[x]
  BY <1>1 DEF TypeOK
<1>3. TypeOK'
  <2>1. pend' \in [Devices -> SUBSET CSRs] /\ disturb' \in Nat
    BY <1>1 DEF TypeOK
  <2> QED BY <1>1, <2>1 DEF TypeOK, Lock!LockTypeOK
<1>4. PcMatchesOp' /\ BodyHoldsLock' /\ CertIsIssued'
  BY <1>1 DEF PcMatchesOp, BodyHoldsLock, CertIsIssued, Locked, Dev
<1>5. NoOwnCSRBeforeCreate'
  <2>1. \A q \in Runs : pc[q] = "gen_create" => \A c \in pend'[Dev(q)] : c.by \notin Runs
    BY <1>2, RunFacts
  <2> QED BY <1>1, <2>1 DEF NoOwnCSRBeforeCreate, Dev
<1>6. OneOwnCSR' /\ NumbersAreOld'
  BY <1>1, <1>2 DEF OneOwnCSR, NumbersAreOld
<1> QED BY <1>3, <1>4, <1>5, <1>6

\* OperatorCSR keeps the invariant.
LEMMA OperatorCSRInv ==
  ASSUME RenewalInv, NEW d \in Devices, OperatorCSR(d)
  PROVE  RenewalInv'
<1> USE DEF RenewalInv
<1>1. PICK n \in FreeNames(d) :
        pend' = [pend EXCEPT ![d] = @ \cup {[name |-> n, key |-> fresh, by |-> NoRun]}]
  BY DEF OperatorCSR
<1> DEFINE new == [name |-> n, key |-> fresh, by |-> NoRun]
<1>2. /\ UNCHANGED <<pc, op, mode, name, key, cert, err, item, trace>>
      /\ UNCHANGED <<holder, active, issued>>
      /\ disturb' = disturb + 1 /\ fresh' = fresh + 1
      /\ pend' = [pend EXCEPT ![d] = @ \cup {new}]
  BY <1>1 DEF OperatorCSR
<1>3. new \in CSRs /\ new.by \notin Runs /\ new.key = fresh /\ fresh \in Nat
  BY RunsAssumption DEF TypeOK, CSRs, FreeNames
<1> HIDE DEF new
<1>4. \A x \in Devices : pend'[x] \subseteq pend[x] \cup {new}
  BY <1>2 DEF TypeOK
<1>5. TypeOK'
  <2>1. pend' \in [Devices -> SUBSET CSRs]
    BY <1>2, <1>3 DEF TypeOK
  <2>2. disturb' \in Nat /\ fresh' \in Nat
    BY <1>2, <1>3 DEF TypeOK
  <2> QED BY <1>2, <2>1, <2>2 DEF TypeOK, Lock!LockTypeOK
<1>6. PcMatchesOp' /\ BodyHoldsLock' /\ CertIsIssued'
  BY <1>2 DEF PcMatchesOp, BodyHoldsLock, CertIsIssued, Locked, Dev
<1>7. NoOwnCSRBeforeCreate'
  <2>1. \A q \in Runs : pc[q] = "gen_create" => \A c \in pend'[Dev(q)] : c.by \notin Runs
    BY <1>3, <1>4, RunFacts
  <2> QED BY <1>2, <2>1 DEF NoOwnCSRBeforeCreate, Dev
<1>8. OneOwnCSR'
  BY <1>3, <1>4 DEF OneOwnCSR
<1>9. NumbersAreOld'
  <2>1. \A x \in Devices : \A c \in pend'[x] : c.key < fresh'
    <3>1. \A x \in Devices : \A c \in pend[x] : c.key \in Nat /\ c.key < fresh
      BY DEF TypeOK, CSRs, NumbersAreOld
    <3> QED BY <1>2, <1>3, <1>4, <3>1
  <2>2. \A x \in issued : x.key < fresh' /\ x.serial < fresh'
    <3>1. \A x \in issued : x.key \in Nat /\ x.serial \in Nat
      BY DEF TypeOK, Certs
    <3> QED BY <1>2, <1>3, <3>1 DEF NumbersAreOld
  <2>3. \A q \in Runs : key[q] < fresh'
    BY <1>2, <1>3 DEF TypeOK, NumbersAreOld
  <2> QED BY <1>2, <2>1, <2>2, <2>3 DEF NumbersAreOld
<1> QED BY <1>5, <1>6, <1>7, <1>8, <1>9

-----------------------------------------------------------------------------
(* The theorems.                                                           *)

\* The invariant holds in every initial state.
LEMMA RenewalInitInv == Init => RenewalInv
<1> SUFFICES ASSUME Init PROVE RenewalInv
  OBVIOUS
<1>1. PICK a \in [Devices -> (Names \ OtherNames) \cup {0}],
           p \in [Devices -> (Names \ OtherNames) \cup {0}] :
        /\ active = [d \in Devices |-> [name |-> a[d], cert |-> OldCert(d)]]
        /\ pend = [d \in Devices |-> IF p[d] = 0 THEN {} ELSE {LeftCSR(p[d])}]
  BY DEF Init
<1>2. \A d \in Devices : /\ pend[d] \subseteq {LeftCSR(p[d])}
                         /\ active[d] = [name |-> a[d], cert |-> OldCert(d)]
  BY <1>1
<1>3. TypeOK
  <2>1. item \in [Runs -> Items]
    BY NewItemType DEF Init
  <2>2. active \in [Devices -> Installed]
    <3>1. \A d \in Devices : OldCert(d) \in Certs /\ a[d] \in Names \cup {0}
      BY DEF OldCert, Certs
    <3>2. ASSUME NEW d \in Devices PROVE active[d] \in Installed
      <4>1. [name |-> a[d], cert |-> OldCert(d)] \in Installed
        BY <3>1 DEF Installed
      <4> QED BY <1>2, <4>1
    <3> QED BY <1>1, <3>2
  <2>3. pend \in [Devices -> SUBSET CSRs]
    <3>1. \A d \in Devices : LeftCSR(p[d]) \in CSRs
      BY <1>1 DEF LeftCSR, CSRs
    <3>2. \A d \in Devices : pend[d] \in SUBSET CSRs
      BY <1>2, <3>1
    <3> QED BY <1>1, <3>2
  <2>4. issued \in SUBSET Certs
    BY DEF Init, LeftCert, Certs
  <2>5. Lock!LockTypeOK
    BY DEF Init, Lock!LockInit, Lock!LockTypeOK
  <2>6. /\ pc \in [Runs -> PCs] /\ op \in [Runs -> AllOps]
        /\ mode \in [Runs -> {"json", "human"}] /\ name \in [Runs -> Names \cup {0}]
        /\ key \in [Runs -> Nat] /\ cert \in [Runs -> Certs \cup {NoCert}]
        /\ err \in [Runs -> Errors \cup {"release"}]
        /\ trace \in [Runs -> SUBSET (Effects \cup {"saw_pending"})]
        /\ fresh \in Nat /\ disturb \in Nat
    BY DEF Init, PCs, AllOps, Errors
  <2> QED BY <2>1, <2>2, <2>3, <2>4, <2>5, <2>6 DEF TypeOK, Items
<1>4. PcMatchesOp /\ CertIsIssued /\ NoOwnCSRBeforeCreate
  BY DEF Init, PcMatchesOp, MayBeAt, CertIsIssued, NoOwnCSRBeforeCreate, InstallPCs, HasIssued
<1>5. BodyHoldsLock
  BY DEF Init, BodyHoldsLock, BodyPCs, Lock!LockInit
<1>6. OneOwnCSR
  BY <1>2, RunsAssumption DEF OneOwnCSR, LeftCSR
<1>7. NumbersAreOld
  <2>1. \A d \in Devices : \A c \in pend[d] : c.key = 2
    <3>1. \A n : LeftCSR(n).key = 2
      BY DEF LeftCSR
    <3> QED BY <1>2, <3>1, ZenonT(60)
  <2>2. \A x \in issued : x.key = 2 /\ x.serial = 2
    BY DEF Init, LeftCert
  <2>3. fresh = 3 /\ \A r \in Runs : key[r] = 0
    BY DEF Init
  <2> QED BY <2>1, <2>2, <2>3 DEF NumbersAreOld
<1> QED BY <1>3, <1>4, <1>5, <1>6, <1>7 DEF RenewalInv

\* Every step keeps the invariant.
LEMMA RenewalStepInv == RenewalInv /\ [Next]_vars => RenewalInv'
<1> SUFFICES ASSUME RenewalInv, [Next]_vars PROVE RenewalInv'
  OBVIOUS
<1>1. ASSUME NEW r \in Runs, Step(r) PROVE RenewalInv'
  BY <1>1, CredentialsInv, TakeLockInv, LockFailsInv, CheckInv, PreflightInv,
     GenerateInspectInv, GenerateCreateInv, GenerateFetchInv, FetchObserveInv,
     FetchDetailInv, ResolveCAInv, PostCSRInv, GetCertificateInv, WriteOutputInv,
     InstallObserveInv, InstallValidateInv, InstallRecheckInv, InstallPasteInv,
     InstallConfirmInv, InstallVerifyInv, VerifyLiveInv, UnlockInv
  DEF Step
<1>2. CASE UNCHANGED vars
  BY <1>2 DEF vars, RenewalInv, TypeOK, PcMatchesOp, BodyHoldsLock, NoOwnCSRBeforeCreate,
     OneOwnCSR, NumbersAreOld, CertIsIssued, Locked, Dev, Lock!LockTypeOK
<1> QED BY <1>1, <1>2, StartInv, CrashInv, RebootInv, OperatorCSRInv DEF Next

\* Types, control, locking and freshness hold in every state, whatever the
\* invocations, failures, crashes, reboots and operators do.
THEOREM RenewalInvariant == Spec => []RenewalInv
  BY RenewalInitInv, RenewalStepInv, PTL DEF Spec

\* The tool never has two CSRs of its own pending on one switch.
THEOREM OneOwnCSRAlways == Spec => []OneOwnCSR
<1>1. RenewalInv => OneOwnCSR
  BY DEF RenewalInv
<1> QED BY <1>1, RenewalInvariant, PTL

-----------------------------------------------------------------------------
(* Renewal implements DeviceLifecycle.                                     *)

\* No number handed out before is the next one.
LEMMA FreshIsNew ==
  ASSUME RenewalInv
  PROVE  Lifecycle!NewKey(fresh) /\ \A x \in issued : x.serial # fresh
<1>1. \A d \in Devices : \A c \in pend[d] : c.key \in Nat /\ c.key < fresh
  BY DEF RenewalInv, TypeOK, CSRs, NumbersAreOld
<1>2. \A x \in issued : x.key \in Nat /\ x.serial \in Nat /\ x.key < fresh /\ x.serial < fresh
  BY DEF RenewalInv, TypeOK, Certs, NumbersAreOld
<1>3. fresh \in Nat
  BY DEF RenewalInv, TypeOK
<1> QED BY <1>1, <1>2, <1>3 DEF Lifecycle!NewKey

\* A CSR with a new key, on a switch without one of the tool, is a Create.
LEMMA CreateIsLifecycleStep ==
  ASSUME RenewalInv, NEW d \in Devices, NEW c, c.key = fresh,
         c.by \in Runs => \A b \in pend[d] : b.by \notin Runs,
         pend' = [pend EXCEPT ![d] = @ \cup {c}], UNCHANGED <<active, issued>>
  PROVE  Lifecycle!DNext
<1>1. Lifecycle!Create(d, c)
  BY FreshIsNew DEF Lifecycle!Create, Lifecycle!Own
<1>2. c \in pend'[d]
  BY DEF RenewalInv, TypeOK
<1> QED BY <1>1, <1>2 DEF Lifecycle!DNext

\* Every step of an invocation is a step of the device lifecycle or none.
LEMMA StepIsLifecycleStep ==
  ASSUME RenewalInv, NEW r \in Runs, Start(r) \/ Step(r) \/ Crash(r)
  PROVE  Lifecycle!DNext \/ UNCHANGED <<pend, active, issued>>
<1>1. CASE GenerateCreate(r)
  <2>1. CASE SwitchCreatesCSR(r)
    <3> DEFINE c == [name |-> name[r], key |-> fresh, by |-> r]
    <3>1. c.key = fresh
      OBVIOUS
    <3>2. pend' = [pend EXCEPT ![Dev(r)] = @ \cup {c}] /\ UNCHANGED <<active, issued>>
      BY <1>1, <2>1 DEF GenerateCreate, SwitchCreatesCSR
    <3>3. \A b \in pend[Dev(r)] : b.by \notin Runs
      BY <1>1, RunFacts DEF GenerateCreate
    <3> HIDE DEF c
    <3> QED BY <3>1, <3>2, <3>3, RunFacts, CreateIsLifecycleStep
  <2>2. CASE UNCHANGED pend
    BY <1>1, <2>2 DEF GenerateCreate
  <2> QED BY <1>1, <2>1, <2>2 DEF GenerateCreate
<1>2. CASE PostCSR(r)
  <2>1. CASE OPNsenseIssues(r)
    <3>1. /\ issued' = issued \cup {NewCert(r)} /\ UNCHANGED <<pend, active>>
      BY <1>2, <2>1 DEF PostCSR, OPNsenseIssues
    <3>2. NewCert(r).serial = fresh
      BY DEF NewCert
    <3>3. Lifecycle!Issue(NewCert(r))
      BY <3>1, <3>2, FreshIsNew DEF Lifecycle!Issue
    <3> QED BY <3>1, <3>3 DEF Lifecycle!DNext
  <2>2. CASE UNCHANGED issued
    BY <1>2, <2>2 DEF PostCSR
  <2> QED BY <1>2, <2>1, <2>2 DEF PostCSR
<1>3. CASE InstallConfirm(r)
  <2>1. CASE SwitchInstalls(r)
    <3>1. PICK c \in Answered(r) :
            /\ pend' = [pend EXCEPT ![Dev(r)] = @ \ {c}]
            /\ active' = [active EXCEPT ![Dev(r)] = [name |-> c.name, cert |-> cert[r]]]
      BY <2>1 DEF SwitchInstalls
    <3>2. /\ c \in pend[Dev(r)] /\ cert[r].key = c.key /\ cert[r].dev = Dev(r)
          /\ UNCHANGED issued
      BY <1>3, <3>1 DEF Answered, Matches, InstallConfirm
    <3>3. cert[r] \in issued /\ Dev(r) \in Devices
      BY <1>3, RunFacts DEF InstallConfirm, InstallPCs, HasIssued
    <3>4. Lifecycle!Install(Dev(r), c, cert[r])
      BY <3>1, <3>2, <3>3 DEF Lifecycle!Install
    <3> QED BY <3>2, <3>3, <3>4 DEF Lifecycle!DNext
  <2>2. CASE UNCHANGED <<pend, active>>
    BY <1>3, <2>2 DEF InstallConfirm
  <2> QED BY <1>3, <2>1, <2>2 DEF InstallConfirm
<1>4. CASE Start(r) \/ Crash(r) \/ TakeLock(r) \/ Unlock(r)
  BY <1>4 DEF Start, Crash, TakeLock, Unlock, NoRemoteChange
<1>5. CASE \/ Credentials(r) \/ LockFails(r) \/ Check(r) \/ Preflight(r)
           \/ GenerateInspect(r) \/ GenerateFetch(r) \/ FetchObserve(r) \/ FetchDetail(r)
           \/ ResolveCA(r) \/ GetCertificate(r) \/ WriteOutput(r)
  <2>1. NoRemoteChange
    BY <1>5 DEF Credentials, LockFails, Check, Preflight, GenerateInspect, GenerateFetch,
       FetchObserve, FetchDetail, ResolveCA, GetCertificate, WriteOutput
  <2> QED BY <2>1 DEF NoRemoteChange
<1>6. CASE \/ InstallObserve(r) \/ InstallValidate(r) \/ InstallRecheck(r)
           \/ InstallPaste(r) \/ InstallVerify(r) \/ VerifyLive(r)
  <2>1. NoRemoteChange
    BY <1>6 DEF InstallObserve, InstallValidate, InstallRecheck, InstallPaste,
       InstallVerify, VerifyLive
  <2> QED BY <2>1 DEF NoRemoteChange
<1> QED BY <1>1, <1>2, <1>3, <1>4, <1>5, <1>6 DEF Step

\* So is every step of a switch or its operator.
LEMMA NextIsLifecycleStep ==
  RenewalInv /\ [Next]_vars => [Lifecycle!DNext]_<<pend, active, issued>>
<1> SUFFICES ASSUME RenewalInv, [Next]_vars
             PROVE  Lifecycle!DNext \/ UNCHANGED <<pend, active, issued>>
  OBVIOUS
<1>1. ASSUME NEW d \in Devices, Reboot(d) PROVE Lifecycle!DNext
  <2>1. Lifecycle!Lose(d)
    BY <1>1 DEF Reboot, Lifecycle!Lose
  <2> QED BY <2>1 DEF Lifecycle!DNext
<1>2. ASSUME NEW d \in Devices, OperatorCSR(d) PROVE Lifecycle!DNext
  <2>1. PICK n \in FreeNames(d) :
          pend' = [pend EXCEPT ![d] = @ \cup {[name |-> n, key |-> fresh, by |-> NoRun]}]
    BY <1>2 DEF OperatorCSR
  <2> DEFINE c == [name |-> n, key |-> fresh, by |-> NoRun]
  <2>2. c.key = fresh /\ c.by \notin Runs
    BY RunsAssumption
  <2>3. pend' = [pend EXCEPT ![d] = @ \cup {c}] /\ UNCHANGED <<active, issued>>
    BY <1>2, <2>1 DEF OperatorCSR
  <2> HIDE DEF c
  <2> QED BY <2>2, <2>3, CreateIsLifecycleStep
<1>3. CASE UNCHANGED vars
  BY <1>3 DEF vars
<1> QED BY <1>1, <1>2, <1>3, StepIsLifecycleStep DEF Next

\* Initially no switch has a CSR of the tool.
LEMMA InitIsLifecycleInit == Init => Lifecycle!DInit
<1> SUFFICES ASSUME Init, NEW d \in Devices PROVE Lifecycle!Own(d) = {}
  BY DEF Lifecycle!DInit
<1>1. PICK p \in [Devices -> (Names \ OtherNames) \cup {0}] :
        pend = [x \in Devices |-> IF p[x] = 0 THEN {} ELSE {LeftCSR(p[x])}]
  BY DEF Init
<1>2. pend[d] \subseteq {LeftCSR(p[d])}
  BY <1>1
<1>3. \A n : LeftCSR(n).by = NoRun
  BY DEF LeftCSR
<1> QED BY <1>2, <1>3, RunsAssumption DEF Lifecycle!Own

\* Seen from the switches and OPNsense, the invocations take only the steps of
\* DeviceLifecycle: one own CSR at a time, only issued certificates that answer a
\* pending CSR of the switch are installed, no pending CSR is thrown away.
THEOREM RenewalImplementsDeviceLifecycle == Spec => ImplementsDeviceLifecycle
  BY RenewalInvariant, InitIsLifecycleInit, NextIsLifecycleStep, PTL
  DEF Spec, ImplementsDeviceLifecycle, Lifecycle!DSpec, Lifecycle!dvars
=============================================================================
