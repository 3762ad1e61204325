------------------------- MODULE ScheduledRunProofs -------------------------
(***************************************************************************)
(* Proofs about the scheduled run.                                         *)
(*                                                                         *)
(* AggregateInv is an invariant of a run over any number of switches,      *)
(* whatever happens at each of them.  The record, the human list and both  *)
(* exit codes are then compared switch by switch: FormatsAgreeOnSwitch is  *)
(* the argument for one switch, for all that may happen there, and rests   *)
(* on what _json_failure leaves of any item (FailureFails) after any of    *)
(* the events of a renewal (AfterEventsKeepsFields); ChosenIsWorst says    *)
(* what RunResult.finish picks out of them.                                *)
(*                                                                         *)
(* WindowInv is an invariant of the dates of --renew-due, for every length *)
(* of the window, every lifetime and every time zone.                      *)
(***************************************************************************)
EXTENDS RunAggregate, RenewalWindow, NaturalsInduction, WellFoundedInduction,
        SequenceTheorems, TLAPS

\* A set of numbers that is not empty has a first one.
LEMMA FirstNumber ==
  ASSUME NEW T, T \subseteq Nat, T # {}
  PROVE  \E x \in T : \A y \in T : x <= y
<1> DEFINE R == OpToRel(<, Nat)
<1>1. IsWellFoundedOn(R, Nat)
  BY NatLessThanWellFounded
<1>2. \A x, y \in Nat : y < x => <<y, x>> \in R
  BY SMT DEF OpToRel
<1> HIDE DEF R
<1>3. PICK x \in T : \A y \in T : ~ (<<y, x>> \in R)
  BY Zenon, <1>1, WFMin
<1>4. ASSUME NEW y \in T PROVE x <= y
  <2>1. x \in Nat /\ y \in Nat
    OBVIOUS
  <2>2. ~(y < x)
    BY <1>2, <1>3, <2>1
  <2> QED BY <2>1, <2>2
<1> QED BY <1>4
-----------------------------------------------------------------------------
(* The item of one switch *)

\* _json_progress with either kind of event.
Step(item, event) ==
    IF event = "installation_confirmed" THEN InstallationConfirmed(item, "new")
    ELSE Progress(item, event)

\* An event sets fields that the item has.
LEMMA StepKeepsFields ==
  ASSUME NEW it, NEW k \in 1..10
  PROVE  DOMAIN Step(it, Reported[k]) = DOMAIN it
<1> DEFINE e == Reported[k]
<1>1. e \in {"preflight_confirmed", "csr_confirmed", "signing_preparation",
             "issuance_dispatched", "issuance_confirmed", "certificate_retrieved",
             "issued_validated", "installation_prepared", "installation_confirmed",
             "live_tls_confirmed"}
  BY DEF Reported
<1> HIDE DEF e
<1>2. CASE e = "preflight_confirmed"
  <2>1. Step(it, e) = [it EXCEPT !.stage = "preflight"]
    BY <1>2, Zenon DEF Step, Progress
  <2> QED BY <2>1 DEF e
<1>3. CASE e = "csr_confirmed"
  <2>1. Step(it, e) = [it EXCEPT !.stage = "csr_generation", !.ms["csr"] = "confirmed",
                                 !.change = "confirmed"]
    BY <1>3, Zenon DEF Step, Progress
  <2> QED BY <2>1 DEF e
<1>4. CASE e = "signing_preparation"
  <2>1. Step(it, e) = [it EXCEPT !.stage = "signing"]
    BY <1>4, Zenon DEF Step, Progress
  <2> QED BY <2>1 DEF e
<1>5. CASE e = "issuance_dispatched"
  <2>1. Step(it, e) = [it EXCEPT !.stage = "signing", !.ms["issuance"] = "uncertain",
                                 !.change = "possible"]
    BY <1>5, Zenon DEF Step, Progress
  <2> QED BY <2>1 DEF e
<1>6. CASE e = "issuance_confirmed"
  <2>1. Step(it, e) = [it EXCEPT !.ms["issuance"] = "confirmed", !.change = "confirmed"]
    BY <1>6, Zenon DEF Step, Progress
  <2> QED BY <2>1 DEF e
<1>7. CASE e \in {"certificate_retrieved", "issued_validated"}
  <2>1. Step(it, e) = [it EXCEPT !.stage = "issued_validation"]
    BY <1>7, Zenon DEF Step, Progress
  <2> QED BY <2>1 DEF e
<1>8. CASE e = "installation_prepared"
  <2>1. Step(it, e) = [it EXCEPT !.stage = "installation"]
    BY <1>8, Zenon DEF Step, Progress
  <2> QED BY <2>1 DEF e
<1>9. CASE e = "installation_confirmed"
  BY <1>9 DEF Step, InstallationConfirmed, e
<1>10. CASE e = "live_tls_confirmed"
  <2>1. Step(it, e) = [it EXCEPT !.stage = "live_verification", !.ms["live_tls"] = "confirmed"]
    BY <1>10, Zenon DEF Step, Progress
  <2> QED BY <2>1 DEF e
<1> QED BY <1>1, <1>2, <1>3, <1>4, <1>5, <1>6, <1>7, <1>8, <1>9, <1>10

\* f is the sequence of items of a renewal that reports its first n events.
Passes(f, item, n) ==
    f = [k \in 0..n |-> IF k = 0 THEN item ELSE Step(f[k - 1], Reported[k])]

\* One more event has an item too.
LEMMA OneMoreEvent ==
  ASSUME NEW item, NEW n \in Nat, \E f : Passes(f, item, n)
  PROVE  \E f : Passes(f, item, n + 1)
<1>1. PICK f : Passes(f, item, n)
  OBVIOUS
<1> DEFINE g == [k \in 0..(n + 1) |-> IF k = n + 1 THEN Step(f[n], Reported[n + 1]) ELSE f[k]]
<1>2. ASSUME NEW k \in 0..(n + 1)
      PROVE  g[k] = IF k = 0 THEN item ELSE Step(g[k - 1], Reported[k])
  <2>1. CASE k = n + 1
    <3>1. k # 0 /\ g[k - 1] = f[n] /\ g[k] = Step(f[n], Reported[n + 1])
      BY <2>1
    <3> HIDE DEF g
    <3> QED BY <2>1, <3>1
  <2>2. CASE k # n + 1
    <3>1. k \in 0..n /\ g[k] = f[k]
      BY <2>2
    <3>2. f[k] = IF k = 0 THEN item ELSE Step(f[k - 1], Reported[k])
      BY <1>1, <3>1, Zenon DEF Passes
    <3>3. k # 0 => g[k - 1] = f[k - 1]
      BY <2>2
    <3> HIDE DEF g
    <3> QED BY <3>1, <3>2, <3>3
  <2> QED BY <2>1, <2>2
<1>3. g = [k \in 0..(n + 1) |-> g[k]]
  OBVIOUS
<1> HIDE DEF g
<1>4. [k \in 0..(n + 1) |-> g[k]] =
          [k \in 0..(n + 1) |-> IF k = 0 THEN item ELSE Step(g[k - 1], Reported[k])]
  BY <1>2, Zenon
<1> QED BY <1>3, <1>4, Zenon DEF Passes

\* The items of a renewal are defined for as many events as it can report.
LEMMA PassesExist ==
  ASSUME NEW item, NEW n \in 0..10
  PROVE  \E f : Passes(f, item, n)
<1>0. \E f : Passes(f, item, 0)
  <2> DEFINE g == [k \in 0..0 |-> item]
  <2>1. \A k \in 0..0 : g[k] = IF k = 0 THEN item ELSE Step(g[k - 1], Reported[k])
    OBVIOUS
  <2>2. g = [k \in 0..0 |-> g[k]]
    OBVIOUS
  <2> HIDE DEF g
  <2>3. [k \in 0..0 |-> g[k]] =
           [k \in 0..0 |-> IF k = 0 THEN item ELSE Step(g[k - 1], Reported[k])]
    BY <2>1, Zenon
  <2> QED BY <2>2, <2>3, Zenon DEF Passes
<1>1. \A m \in Nat : (\E f : Passes(f, item, m)) => \E f : Passes(f, item, m + 1)
  BY OneMoreEvent
<1> DEFINE E(m) == \E f : Passes(f, item, m)
<1>2. E(0) /\ \A m \in Nat : E(m) => E(m + 1)
  BY <1>0, <1>1
<1> HIDE DEF E
<1>3. E(1) /\ E(2) /\ E(3)
  BY <1>2
<1>4. E(4) /\ E(5) /\ E(6)
  BY <1>2, <1>3
<1>5. E(7) /\ E(8) /\ E(9) /\ E(10)
  BY <1>2, <1>4
<1>6. E(n)
  BY <1>2, <1>3, <1>4, <1>5
<1> QED BY <1>6 DEF E

\* The events a renewal reports leave an item with the same fields.
LEMMA AfterEventsKeepsFields ==
  ASSUME NEW item, NEW n \in 0..10
  PROVE  DOMAIN AfterEvents(item, n) = DOMAIN item
<1> DEFINE after[k \in 0..n] ==
               IF k = 0 THEN item
               ELSE IF Reported[k] = "installation_confirmed"
               THEN InstallationConfirmed(after[k - 1], "new")
               ELSE Progress(after[k - 1], Reported[k])
<1>1. AfterEvents(item, n) = after[n]
  BY DEF AfterEvents
<1>2. PICK f : Passes(f, item, n)
  BY PassesExist
<1>3. Passes(after, item, n)
  BY <1>2, Zenon DEF Passes, Step, after
<1> HIDE DEF after
<1> DEFINE S(m) == m \in 0..n => DOMAIN after[m] = DOMAIN item
<1>4. S(0)
  BY <1>3 DEF Passes
<1>5. ASSUME NEW m \in 0..9, S(m) PROVE S(m + 1)
  <2> SUFFICES ASSUME m + 1 \in 0..n
               PROVE  DOMAIN after[m + 1] = DOMAIN item
    OBVIOUS
  <2>1. m \in 0..n /\ m + 1 \in 1..10 /\ m + 1 # 0 /\ m + 1 - 1 = m
    OBVIOUS
  <2>2. after[m + 1] = Step(after[m], Reported[m + 1])
    BY <1>3, <2>1 DEF Passes
  <2> QED BY <1>5, <2>1, <2>2, StepKeepsFields
<1> HIDE DEF S
<1>6. S(1) /\ S(2) /\ S(3) /\ S(4)
  BY <1>4, <1>5
<1>7. S(5) /\ S(6) /\ S(7) /\ S(8)
  BY <1>5, <1>6
<1>8. S(9) /\ S(10)
  BY <1>5, <1>7
<1>9. S(n)
  BY <1>4, <1>6, <1>7, <1>8
<1> QED BY <1>1, <1>9 DEF S

\* _json_failure_outcome is a failure whatever the item says.
LEMMA FailureOutcomeFails ==
  ASSUME NEW it
  PROVE  FailureOutcome(it) \in Failures
  BY Zenon DEF FailureOutcome, Failures

\* What every failure leaves: an outcome that is a failure, and a reason.
Fails(it) == it.outcome \in Failures /\ it.reason # "null"

\* _json_failure reports every exception of a renewal as a failure with a reason.
LEMMA FailureFails ==
  ASSUME NEW it, {"outcome", "reason", "stage", "recovery", "ms", "change"} \subseteq DOMAIN it,
         NEW e \in {"pending", "preflight", "csr_pre", "csr", "signing", "pre_install",
                    "install", "live", "value", "other"}
  PROVE  Fails(Failure(it, e)) /\ DOMAIN Failure(it, e) = DOMAIN it
<1>0. FailureOutcome(it) \in Failures
  BY FailureOutcomeFails
<1> DEFINE o == FailureOutcome(it)
           rc == RecoveryByEvidence(it)
           sr == CASE it.stage = "issued_validation" -> "validation_failed"
                   [] it.stage = "csr_retrieval" -> "csr_failed"
                   [] OTHER -> "signing_failed"
<1>r. sr # "null"
  <2>1. sr \in {"validation_failed", "csr_failed", "signing_failed"}
    BY Zenon
  <2> HIDE DEF sr
  <2> QED BY <2>1
<1>1. CASE e = "pending"
  <2>1. Failure(it, e) = [it EXCEPT !.outcome = "failure_pre_attempt", !.stage = "preflight",
                                    !.reason = "pending_state", !.recovery = TRUE]
    BY <1>1, Zenon DEF Failure
  <2> QED BY <2>1 DEF Fails, Failures
<1>2. CASE e = "preflight"
  <2>1. Failure(it, e) = [it EXCEPT !.outcome = "failure_pre_attempt", !.stage = "preflight",
                                    !.reason = "inspection_failed", !.recovery = FALSE]
    BY <1>2, Zenon DEF Failure
  <2> QED BY <2>1 DEF Fails, Failures
<1>3. CASE e = "csr_pre"
  <2>1. Failure(it, e) = [it EXCEPT !.outcome = "failure_pre_attempt",
                                    !.stage = "csr_generation", !.reason = "csr_failed",
                                    !.recovery = FALSE]
    BY <1>3, Zenon DEF Failure
  <2> QED BY <2>1 DEF Fails, Failures
<1>4. CASE e = "csr"
  <2>1. Failure(it, e) = [it EXCEPT !.outcome = "failure_ambiguous",
                                    !.stage = "csr_generation", !.reason = "csr_failed",
                                    !.ms["csr"] = "uncertain", !.change = "possible",
                                    !.recovery = TRUE]
    BY <1>4, Zenon DEF Failure
  <2> QED BY <2>1 DEF Fails, Failures
<1>5. CASE e = "signing"
  <2>1. Failure(it, e) = [it EXCEPT !.outcome = o, !.reason = sr, !.recovery = rc]
    BY <1>5, Zenon DEF Failure
  <2> HIDE DEF o, sr, rc
  <2>2. /\ Failure(it, e).outcome = o /\ Failure(it, e).reason = sr
        /\ DOMAIN Failure(it, e) = DOMAIN it
    BY <2>1
  <2> QED BY <1>0, <1>r, <2>2 DEF Fails, o
<1>6. CASE e = "pre_install"
  <2>1. Failure(it, e) = [it EXCEPT !.outcome = o, !.stage = "installation",
                                    !.reason = "validation_failed", !.recovery = TRUE]
    BY <1>6, Zenon DEF Failure
  <2> HIDE DEF o
  <2>2. /\ Failure(it, e).outcome = o /\ Failure(it, e).reason = "validation_failed"
        /\ DOMAIN Failure(it, e) = DOMAIN it
    BY <2>1
  <2> QED BY <1>0, <2>2 DEF Fails, o
<1>7. CASE e = "install"
  <2>1. Failure(it, e) = [it EXCEPT !.outcome = "failure_ambiguous", !.stage = "installation",
                                    !.reason = "installation_failed",
                                    !.ms["installation"] = "uncertain",
                                    !.change = "possible", !.recovery = TRUE]
    BY <1>7, Zenon DEF Failure
  <2> QED BY <2>1 DEF Fails, Failures
<1>8. CASE e = "live"
  <2>1. Failure(it, e) = [it EXCEPT !.outcome = o, !.stage = "live_verification",
                                    !.reason = "verification_failed",
                                    !.ms["live_tls"] = "failed", !.recovery = TRUE]
    BY <1>8, Zenon DEF Failure
  <2> HIDE DEF o
  <2>2. /\ Failure(it, e).outcome = o /\ Failure(it, e).reason = "verification_failed"
        /\ DOMAIN Failure(it, e) = DOMAIN it
    BY <2>1
  <2> QED BY <1>0, <2>2 DEF Fails, o
<1>9. CASE e \in {"value", "other"}
  <2>1. Failure(it, e) = [it EXCEPT !.outcome = o, !.reason = "unexpected_failure",
                                    !.recovery = rc]
    BY <1>9, Zenon DEF Failure
  <2> HIDE DEF o, rc
  <2>2. /\ Failure(it, e).outcome = o /\ Failure(it, e).reason = "unexpected_failure"
        /\ DOMAIN Failure(it, e) = DOMAIN it
    BY <2>1
  <2> QED BY <1>0, <2>2 DEF Fails, o
<1> QED BY <1>1, <1>2, <1>3, <1>4, <1>5, <1>6, <1>7, <1>8, <1>9

\* A failing close of the lock is a failure whatever the body came to.
LEMMA ReleaseFailedFails ==
  ASSUME NEW it, {"outcome", "reason", "stage", "recovery"} \subseteq DOMAIN it
  PROVE  Fails(ReleaseFailedItem(it))
<1>1. CASE it.outcome \in Failures /\ it.reason # "null"
  <2>1. ReleaseFailedItem(it) = [it EXCEPT !.recovery = TRUE]
    BY <1>1 DEF ReleaseFailedItem
  <2> QED BY <1>1, <2>1 DEF Fails
<1>2. CASE ~(it.outcome \in Failures /\ it.reason # "null")
  <2> DEFINE o == FailureOutcome(it)
  <2>1. ReleaseFailedItem(it) = [it EXCEPT !.stage = "lock", !.reason = "lock_failed",
                                           !.outcome = o, !.recovery = TRUE]
    BY <1>2, Zenon DEF ReleaseFailedItem
  <2>2. o \in Failures
    BY FailureOutcomeFails
  <2> HIDE DEF o
  <2> QED BY <2>1, <2>2 DEF Fails
<1> QED BY <1>1, <1>2

Fields == {"outcome", "stage", "due", "change", "recovery", "reason", "observed",
           "certificate", "ms"}

Exceptions == {"pending", "preflight", "csr_pre", "csr", "signing", "pre_install",
               "install", "live", "other"}

\* What may happen at a switch, field by field.
LEMMA HappeningTypes ==
  ASSUME NEW w \in Happenings
  PROVE  /\ w.credentials \in {"ok", "value", "other"}
         /\ w.lock \in {"ok", "busy", "lock", "release"}
         /\ w.check \in {"ok", "error", "raises"} \cup Due
         /\ w.renewal \in Renewals
  BY DEF Happenings

\* A renewal ends with one of the exceptions, after some of the events, or well.
LEMMA RenewalTypes ==
  ASSUME NEW r \in Renewals
  PROVE  r[1] \in Exceptions \cup {"none"} /\ r[2] \in 0..10
  BY DEF Renewals, Exceptions

\* _json_renew: the outcome is success_changed, or a failure with a reason.
LEMMA RenewedIs ==
  ASSUME NEW it, DOMAIN it = Fields, NEW r \in Renewals
  PROVE  /\ DOMAIN Renewed(it, r) = Fields
         /\ r[1] = "none" => Renewed(it, r).outcome = "success_changed"
         /\ r[1] # "none" => Fails(Renewed(it, r))
<1>1. r[1] \in Exceptions \cup {"none"} /\ r[2] \in 0..10
  BY RenewalTypes
<1> DEFINE reached == AfterEvents([it EXCEPT !.stage = "preflight"], r[2])
<1>2. DOMAIN [it EXCEPT !.stage = "preflight"] = Fields
  OBVIOUS
<1>3. DOMAIN reached = Fields
  BY <1>1, <1>2, AfterEventsKeepsFields
<1>4. Renewed(it, r) = IF r[1] = "none" THEN SucceededItem(reached, "success_changed")
                       ELSE Failure(reached, r[1])
  BY Zenon DEF Renewed
<1> HIDE DEF reached
<1>5. CASE r[1] = "none"
  <2>1. Renewed(it, r) = [reached EXCEPT !.outcome = "success_changed", !.stage = "completed"]
    BY <1>4, <1>5, Zenon DEF SucceededItem
  <2> QED BY <1>3, <1>5, <2>1 DEF Fields
<1>6. CASE r[1] # "none"
  <2>1. r[1] \in Exceptions /\ Renewed(it, r) = Failure(reached, r[1])
    BY <1>1, <1>4, <1>6
  <2>2. {"outcome", "reason", "stage", "recovery", "ms", "change"} \subseteq DOMAIN reached
    BY <1>3 DEF Fields
  <2>3. Fails(Failure(reached, r[1])) /\ DOMAIN Failure(reached, r[1]) = DOMAIN reached
    BY <2>1, <2>2, FailureFails DEF Exceptions
  <2> QED BY <1>3, <1>6, <2>1, <2>3, Zenon
<1> QED BY <1>5, <1>6

\* What the inspection loop of main appends for a switch.
InspectResult(w) ==
    IF w.credentials # "ok" \/ w.check = "raises" THEN "error" ELSE w.check

HumanResult(w) == IF op = "inspect" THEN InspectResult(w) ELSE RenewDueResult(w)

\* The human result and the item of one switch say the same.
Same(result, it) ==
    \/ result = "error" /\ Fails(it)
    \/ result = "ok" /\ it.outcome = "success_no_change" /\ op = "inspect"
    \/ result = "healthy" /\ it.outcome = "success_no_change" /\ op = "renew_due"
    \/ result = "renewed" /\ it.outcome = "success_changed" /\ op = "renew_due"
    \/ result \in Due /\ it.outcome = "attention_due" /\ op = "inspect"

\* SwitchResult(target=...) has all the fields.
LEMMA NewItemFields ==
  DOMAIN NewItem("none") = Fields /\ NewItem("none").outcome = "failure_pre_attempt"
  BY DEF NewItem, Fields

\* The body of one switch: what check_switch found decides.
LEMMA ProcessTargetIs ==
  ASSUME op \in {"inspect", "renew_due"}, NEW w \in Happenings
  PROVE  LET it == ProcessTarget(NewItem("none"), w)
         IN  /\ DOMAIN it = Fields
             /\ w.check \in {"raises", "error"} => Fails(it)
             /\ w.check = "ok" => it.outcome = "success_no_change"
             /\ w.check \in Due /\ op = "inspect" => it.outcome = "attention_due"
             /\ w.check \in Due /\ op = "renew_due" /\ w.renewal[1] = "none" =>
                   it.outcome = "success_changed"
             /\ w.check \in Due /\ op = "renew_due" /\ w.renewal[1] # "none" => Fails(it)
<1> DEFINE new == NewItem("none")
           ins == [new EXCEPT !.stage = "inspection"]
           it == ProcessTarget(new, w)
<1>1. DOMAIN ins = Fields /\ ins.outcome = "failure_pre_attempt"
  <2> HIDE DEF new
  <2> QED BY NewItemFields DEF new, Fields
<1>2. w.check \in {"ok", "error", "raises", "renewal_due", "expired"} /\ w.renewal \in Renewals
  BY HappeningTypes DEF Due
<1>3. CASE w.check = "raises"
  <2>1. it = Failure(ins, "value")
    BY <1>3, Zenon DEF ProcessTarget, Due
  <2> HIDE DEF ins, it
  <2>2. Fails(it) /\ DOMAIN it = Fields
    BY <1>1, <2>1, FailureFails DEF Fields
  <2> QED BY <1>3, <2>2 DEF it, new, Due
<1>4. CASE w.check = "error"
  <2>1. it = [ins EXCEPT !.reason = "inspection_failed"]
    BY <1>4, Zenon DEF ProcessTarget, Due
  <2> HIDE DEF ins, it
  <2>2. Fails(it) /\ DOMAIN it = Fields
    BY <1>1, <2>1 DEF Fields, Fails, Failures
  <2> QED BY <1>4, <2>2 DEF it, new, Due
<1>5. CASE w.check = "ok"
  <2>1. it = [[ins EXCEPT !.outcome = "success_no_change", !.stage = "completed"]
                  EXCEPT !.due = "false"]
    BY <1>5, Zenon DEF ProcessTarget, Due, SucceededItem
  <2> HIDE DEF ins, it
  <2>2. it.outcome = "success_no_change" /\ DOMAIN it = Fields
    BY <1>1, <2>1 DEF Fields
  <2> QED BY <1>5, <2>2 DEF it, new, Due
<1>6. CASE w.check \in Due /\ op = "inspect"
  <2>1. it = [ins EXCEPT !.due = "true", !.outcome = "attention_due", !.stage = "decision"]
    BY <1>6, Zenon DEF ProcessTarget, Due
  <2> HIDE DEF ins, it
  <2>2. it.outcome = "attention_due" /\ DOMAIN it = Fields
    BY <1>1, <2>1 DEF Fields
  <2> QED BY <1>6, <2>2 DEF it, new, Due
<1>7. CASE w.check \in Due /\ op = "renew_due"
  <2> DEFINE due == [ins EXCEPT !.due = "true"]
  <2>1. it = Renewed(due, w.renewal)
    BY <1>7, Zenon DEF ProcessTarget, Due
  <2>2. DOMAIN due = Fields
    <3> HIDE DEF ins
    <3> QED BY <1>1
  <2> HIDE DEF ins, it, due
  <2>3. /\ DOMAIN it = Fields
        /\ w.renewal[1] = "none" => it.outcome = "success_changed"
        /\ w.renewal[1] # "none" => Fails(it)
    BY <1>2, <2>1, <2>2, RenewedIs
  <2> QED BY <1>7, <2>3 DEF it, new, Due
<1> QED BY <1>2, <1>3, <1>4, <1>5, <1>6, <1>7 DEF Due

\* Both loops tell the same of what happens at a switch, except that the
\* inspection loop does not catch every exception of the credentials.
LEMMA FormatsAgreeOnSwitch ==
  ASSUME op \in {"inspect", "renew_due"}, NEW w \in Happenings
  PROVE  Same(HumanResult(w), ItemOf(w))
<1> DEFINE new == NewItem("none")
           it == ProcessTarget(new, w)
<1>1. /\ w.credentials \in {"ok", "value", "other"}
      /\ w.lock \in {"ok", "busy", "lock", "release"}
      /\ w.check \in {"ok", "error", "raises", "renewal_due", "expired"}
  BY HappeningTypes DEF Due
<1>2. DOMAIN new = Fields /\ new.outcome = "failure_pre_attempt"
  BY NewItemFields
<1>3. /\ DOMAIN it = Fields
      /\ w.check \in {"raises", "error"} => Fails(it)
      /\ w.check = "ok" => it.outcome = "success_no_change"
      /\ w.check \in Due /\ op = "inspect" => it.outcome = "attention_due"
      /\ w.check \in Due /\ op = "renew_due" /\ w.renewal[1] = "none" =>
            it.outcome = "success_changed"
      /\ w.check \in Due /\ op = "renew_due" /\ w.renewal[1] # "none" => Fails(it)
  BY ProcessTargetIs
<1>4. CASE w.credentials # "ok"
  <2>1. ItemOf(w) = [new EXCEPT !.stage = "configuration", !.reason = "config_invalid"]
    BY <1>4, Zenon DEF ItemOf, FailedItem
  <2> HIDE DEF new
  <2>2. Fails(ItemOf(w))
    BY <1>2, <2>1 DEF Fields, Fails, Failures
  <2>3. HumanResult(w) = "error"
    BY <1>4 DEF HumanResult, InspectResult, RenewDueResult
  <2> QED BY <2>2, <2>3 DEF Same
<1>5. CASE w.credentials = "ok" /\ Locked /\ w.lock \in {"busy", "lock"}
  <2> DEFINE why == IF w.lock = "busy" THEN "lock_busy" ELSE "lock_failed"
  <2>1. ItemOf(w) = [new EXCEPT !.outcome = "failure_pre_attempt", !.stage = "lock",
                                !.reason = why]
    BY <1>5, Zenon DEF ItemOf, FailedItem
  <2>2. why # "null"
    OBVIOUS
  <2> HIDE DEF new, why
  <2>3. Fails(ItemOf(w))
    BY <1>2, <2>1, <2>2 DEF Fields, Fails, Failures
  <2>4. HumanResult(w) = "error"
    BY <1>5 DEF HumanResult, RenewDueResult, Locked
  <2> QED BY <2>3, <2>4 DEF Same
<1>6. CASE w.credentials = "ok" /\ ~(Locked /\ w.lock \in {"busy", "lock"}) /\ ReleaseFails(w)
  <2>1. ItemOf(w) = ReleaseFailedItem(it)
    BY <1>6, Zenon DEF ItemOf
  <2> HIDE DEF it
  <2>2. Fails(ItemOf(w))
    BY <1>3, <2>1, ReleaseFailedFails DEF Fields
  <2>3. HumanResult(w) = "error"
    BY <1>6 DEF HumanResult, RenewDueResult, ReleaseFails, Locked
  <2> QED BY <2>2, <2>3 DEF Same
<1>7. CASE w.credentials = "ok" /\ ~(Locked /\ w.lock \in {"busy", "lock"}) /\ ~ReleaseFails(w)
  <2>1. ItemOf(w) = it
    BY <1>7, Zenon DEF ItemOf
  <2> HIDE DEF it
  <2>2. CASE op = "inspect"
    BY <1>1, <1>3, <1>7, <2>1, <2>2 DEF HumanResult, InspectResult, Same, Due
  <2>3. CASE op = "renew_due"
    BY <1>1, <1>3, <1>7, <2>1, <2>3 DEF HumanResult, RenewDueResult, Same, Due,
       ReleaseFails, Locked
  <2> QED BY <2>2, <2>3
<1> QED BY <1>4, <1>5, <1>6, <1>7
-----------------------------------------------------------------------------
(* RunResult.finish *)

\* The severities, from the order of the list.
LEMMA SeverityIs ==
  /\ Severity("success_no_change") = 1 /\ Severity("success_prepared") = 2
  /\ Severity("success_changed") = 3 /\ Severity("attention_due") = 4
  /\ Severity("failure_pre_attempt") = 5 /\ Severity("failure_partial") = 6
  /\ Severity("failure_ambiguous") = 7
<1>1. /\ DOMAIN SeverityOrder = 1..7
      /\ SeverityOrder[1] = "success_no_change" /\ SeverityOrder[2] = "success_prepared"
      /\ SeverityOrder[3] = "success_changed" /\ SeverityOrder[4] = "attention_due"
      /\ SeverityOrder[5] = "failure_pre_attempt" /\ SeverityOrder[6] = "failure_partial"
      /\ SeverityOrder[7] = "failure_ambiguous"
  BY DEF SeverityOrder
<1>2. \A k \in 1..7 : k \in {1, 2, 3, 4, 5, 6, 7}
  OBVIOUS
<1>3. ASSUME NEW n \in 1..7 PROVE Severity(SeverityOrder[n]) = n
  <2>1. \A k \in DOMAIN SeverityOrder : SeverityOrder[k] = SeverityOrder[n] => k = n
    BY <1>1, <1>2
  <2>2. n \in DOMAIN SeverityOrder
    BY <1>1
  <2> QED BY <2>1, <2>2, Zenon DEF Severity
<1>4. {1, 2, 3, 4, 5, 6, 7} \subseteq 1..7
  OBVIOUS
<1> QED BY <1>1, <1>3, <1>4

\* Failures are the most severe outcomes, a certificate that is due comes next.
LEMMA SeverityRanks ==
  ASSUME NEW o \in Outcomes
  PROVE  /\ Severity(o) \in 1..7
         /\ o \in Failures <=> Severity(o) >= 5
         /\ o = "attention_due" <=> Severity(o) = 4
  BY SeverityIs DEF Outcomes, Failures

\* max(results, key=severity) is one of the results, and none is worse.
LEMMA ChosenIsWorst ==
  ASSUME NEW s, NEW n \in Nat, n > 0, DOMAIN s = 1..n,
         \A k \in 1..n : s[k].outcome \in Outcomes
  PROVE  \E k \in 1..n : /\ Chosen(s) = s[k]
                         /\ \A j \in 1..n : Severity(s[j].outcome) <= Severity(s[k].outcome)
<1> DEFINE sev(k) == Severity(s[k].outcome)
<1>1. \A k \in 1..n : sev(k) \in 1..7
  BY SeverityRanks
<1> HIDE DEF sev
<1> DEFINE mild == {7 - sev(k) : k \in 1..n}
<1>2. mild \subseteq Nat
  BY <1>1
<1>3. 7 - sev(1) \in mild
  OBVIOUS
<1>4. PICK x \in mild : \A y \in mild : x <= y
  <2> HIDE DEF mild
  <2> QED BY <1>2, <1>3, FirstNumber
<1>5. PICK m \in 1..n : x = 7 - sev(m)
  BY <1>4
<1>6. ASSUME NEW j \in 1..n PROVE sev(j) <= sev(m)
  <2>1. 7 - sev(j) \in mild
    OBVIOUS
  <2>2. 7 - sev(m) <= 7 - sev(j)
    BY <1>4, <1>5, <2>1
  <2> QED BY <1>1, <2>2
<1> HIDE DEF mild
<1> DEFINE worst == {k \in 1..n : \A j \in 1..n : sev(j) <= sev(k)}
<1>7. worst \subseteq Nat /\ m \in worst
  BY <1>6
<1>8. PICK k \in worst : \A y \in worst : k <= y
  <2> HIDE DEF worst
  <2> QED BY <1>7, FirstNumber
<1>9. ASSUME NEW j \in 1..(k - 1) PROVE sev(j) < sev(k)
  <2>1. j \in 1..n /\ k \in 1..n /\ ~(k <= j)
    BY <1>8
  <2>2. j \notin worst
    <3> HIDE DEF worst
    <3> QED BY <1>8, <2>1
  <2>3. PICK i \in 1..n : ~(sev(i) <= sev(j))
    BY <2>1, <2>2
  <2>4. sev(i) <= sev(k)
    BY <1>8
  <2> QED BY <1>1, <2>1, <2>3, <2>4
<1>10. k \in DOMAIN s /\ \A j \in DOMAIN s : sev(j) <= sev(k)
  BY <1>8
<1> DEFINE P(c) == /\ \A j \in DOMAIN s : Severity(s[j].outcome) <= Severity(s[c].outcome)
                   /\ \A j \in 1..(c - 1) : Severity(s[j].outcome) < Severity(s[c].outcome)
<1>11. k \in DOMAIN s /\ P(k)
  BY <1>9, <1>10 DEF sev
<1>12. Chosen(s) = s[CHOOSE c \in DOMAIN s : P(c)]
  BY Zenon DEF Chosen
<1>13. (CHOOSE c \in DOMAIN s : P(c)) \in DOMAIN s /\ P(CHOOSE c \in DOMAIN s : P(c))
  <2> HIDE DEF P
  <2> QED BY <1>11, Zenon
<1> DEFINE c == CHOOSE c \in DOMAIN s : P(c)
<1>14. c \in 1..n /\ Chosen(s) = s[c] /\ P(c)
  BY <1>12, <1>13
<1> HIDE DEF c
<1> QED BY <1>14
-----------------------------------------------------------------------------
(* The invariant of a run.                                                 *)

ItemSet == {ItemOf(w) : w \in Happenings}
ResultSet == {HumanResult(w) : w \in Happenings}

\* The lists hold what each loop makes of the switches so far, in their order.
ListsInv ==
    /\ op \in {"inspect", "renew_due"} /\ world \in [1..N -> Happenings]
    /\ items \in Seq(ItemSet) /\ Len(items) <= N
    /\ \A k \in 1..Len(items) : items[k] = ItemOf(world[k])
    /\ results \in Seq(ResultSet) /\ Len(results) <= N
    /\ \A k \in 1..Len(results) : results[k] = HumanResult(world[k])

\* RunResult.finish was applied to the whole list.
Finished ==
    /\ Len(items) = N
    /\ run.outcome = Chosen(items).outcome /\ run.reason = Chosen(items).reason
    /\ run.recovery <=> AnyRecovery(items)
    /\ run.exit = JsonExit(items)

\* The exit code of the human loop.
HumanExit ==
    IF op = "inspect" THEN GetExitCode(results)
    ELSE IF \E k \in 1..N : results[k] = "error" THEN 2 ELSE 0

\* How far the run is.
PhaseInv ==
    /\ phase \in {"json", "refused", "human", "done", "crashed"}
    /\ phase = "json" =>
          /\ results = <<>>
          /\ run = [outcome |-> "failure_pre_attempt", stage |-> "configuration",
                    reason |-> "null", recovery |-> FALSE, exit |-> -1]
    /\ phase = "refused" =>
          /\ items = <<>> /\ run.outcome = "failure_pre_attempt" /\ run.exit = 2
          /\ run.reason \in {"config_invalid", "unexpected_failure"} /\ run.recovery = FALSE
    /\ phase \in {"human", "done", "crashed"} => Finished
    /\ phase = "done" => Len(results) = N /\ exit = HumanExit
    /\ phase = "crashed" => Len(results) < N /\ world[Len(results) + 1].credentials # "ok"

AggregateInv == ListsInv /\ PhaseInv

\* What happens at a switch is judged by the command of the run, which does not
\* change.
LEMMA JudgedByCommand ==
  ASSUME op' = op
  PROVE  /\ \A w : ItemOf(w)' = ItemOf(w) /\ HumanResult(w)' = HumanResult(w)
         /\ ItemSet' = ItemSet /\ ResultSet' = ResultSet
<1>1. ASSUME NEW w PROVE ItemOf(w)' = ItemOf(w)
  <2>1. ProcessTarget(NewItem("none"), w)' = ProcessTarget(NewItem("none"), w)
    BY Zenon DEF ProcessTarget
  <2> QED BY <2>1, Zenon DEF ItemOf, ReleaseFails, Locked
<1>2. ASSUME NEW w PROVE HumanResult(w)' = HumanResult(w)
  BY Zenon DEF HumanResult
<1>3. ItemSet' = ItemSet /\ ResultSet' = ResultSet
  BY <1>1, <1>2 DEF ItemSet, ResultSet
<1> QED BY <1>1, <1>2, <1>3

\* Before the first switch the lists are empty.
LEMMA AggregateInitInv == Init => AggregateInv
<1> SUFFICES ASSUME Init PROVE AggregateInv
  OBVIOUS
<1>1. ListsInv
  BY NAssumption DEF Init, ListsInv
<1>2. PhaseInv
  BY DEF Init, PhaseInv
<1> QED BY <1>1, <1>2 DEF AggregateInv

\* Every step of the three loops keeps the invariant.
LEMMA AggregateStepInv == AggregateInv /\ [Next]_avars => AggregateInv'
<1> SUFFICES ASSUME AggregateInv, [Next]_avars PROVE AggregateInv'
  OBVIOUS
<1> USE DEF AggregateInv
<1>1. op' = op /\ world' = world
  BY DEF Next, avars, StartupFails, JsonSwitch, Finish, RenewDueSwitch, RenewDueEnd,
         InspectSwitch, InspectEnd
<1>2. /\ \A w : ItemOf(w)' = ItemOf(w) /\ HumanResult(w)' = HumanResult(w)
      /\ ItemSet' = ItemSet /\ ResultSet' = ResultSet
  BY <1>1, JudgedByCommand
<1>3. ASSUME NEW k \in 1..N
      PROVE  world[k] \in Happenings /\ ItemOf(world[k]) \in ItemSet
             /\ HumanResult(world[k]) \in ResultSet
  BY DEF ListsInv, ItemSet, ResultSet
<1>4. ASSUME UNCHANGED <<items, results>> PROVE ListsInv'
  BY <1>1, <1>2, <1>4 DEF ListsInv
<1>5. CASE StartupFails
  <2>1. ListsInv'
    BY <1>4, <1>5 DEF StartupFails
  <2>2. PhaseInv'
    BY <1>5 DEF StartupFails, PhaseInv
  <2> QED BY <2>1, <2>2
<1>6. CASE JsonSwitch
  <2> DEFINE n == Len(items) + 1
             x == ItemOf(world[n])
  <2>1. Len(items) \in Nat /\ n \in 1..N
    BY <1>6, NAssumption DEF JsonSwitch, ListsInv
  <2>2. x \in ItemSet
    BY <1>3, <2>1
  <2>3. items' = Append(items, x) /\ UNCHANGED <<phase, run, results, exit>>
    BY <1>6 DEF JsonSwitch
  <2> HIDE DEF x
  <2>4. /\ items' \in Seq(ItemSet) /\ Len(items') <= N
        /\ Len(items') = Len(items) + 1
        /\ \A k \in 1..Len(items) : items'[k] = items[k]
        /\ items'[n] = x
    BY <2>1, <2>2, <2>3, NAssumption DEF ListsInv
  <2>5. \A k \in 1..Len(items') : items'[k] = ItemOf(world[k])
    BY <2>1, <2>4 DEF ListsInv, x
  <2>6. ListsInv'
    BY <1>1, <1>2, <2>3, <2>4, <2>5 DEF ListsInv
  <2>7. PhaseInv'
    BY <1>6, <2>3 DEF JsonSwitch, PhaseInv
  <2> QED BY <2>6, <2>7
<1>7. CASE Finish
  <2>1. ListsInv'
    BY <1>4, <1>7 DEF Finish
  <2>2. Finished'
    <3>1. /\ run'.outcome = Chosen(items).outcome /\ run'.reason = Chosen(items).reason
          /\ run'.recovery = AnyRecovery(items) /\ run'.exit = JsonExit(items)
          /\ items' = items /\ Len(items) = N
      BY <1>7 DEF Finish
    <3>2. JsonExit(items)' = JsonExit(items)
      BY <1>1, <3>1 DEF JsonExit
    <3> QED BY <3>1, <3>2 DEF Finished, AnyRecovery, Chosen
  <2>3. phase' = "human" /\ UNCHANGED <<results, exit>>
    BY <1>7 DEF Finish
  <2>4. PhaseInv'
    BY <2>2, <2>3 DEF PhaseInv
  <2> QED BY <2>1, <2>4
<1>8. ASSUME UNCHANGED <<items, run>>, Finished PROVE Finished'
  BY <1>1, <1>8 DEF Finished, AnyRecovery, Chosen, JsonExit
<1>9. ASSUME phase = "human", Len(results) < N,
             results' = Append(results, HumanResult(world[Len(results) + 1])),
             UNCHANGED <<phase, items, run, exit>>
      PROVE  AggregateInv'
  <2> DEFINE n == Len(results) + 1
             x == HumanResult(world[n])
  <2>1. Len(results) \in Nat /\ n \in 1..N
    BY <1>9, NAssumption DEF ListsInv
  <2>2. x \in ResultSet /\ results' = Append(results, x)
    BY <1>3, <1>9, <2>1
  <2> HIDE DEF x
  <2>3. /\ results' \in Seq(ResultSet) /\ Len(results') <= N
        /\ Len(results') = Len(results) + 1
        /\ \A k \in 1..Len(results) : results'[k] = results[k]
        /\ results'[n] = x
    BY <1>9, <2>1, <2>2, NAssumption DEF ListsInv
  <2>4. \A k \in 1..Len(results') : results'[k] = HumanResult(world[k])
    BY <2>1, <2>3 DEF ListsInv, x
  <2>5. ListsInv'
    BY <1>1, <1>2, <1>9, <2>3, <2>4 DEF ListsInv
  <2>6. Finished'
    BY <1>8, <1>9 DEF PhaseInv
  <2>7. PhaseInv'
    BY <1>9, <2>6 DEF PhaseInv
  <2> QED BY <2>5, <2>7
<1>10. CASE RenewDueSwitch
  BY <1>9, <1>10 DEF RenewDueSwitch, HumanResult
<1>11. CASE InspectSwitch
  <2>1. CASE world[Len(results) + 1].credentials = "other"
    <3>1. phase = "human" /\ phase' = "crashed" /\ UNCHANGED <<items, run, results>>
      BY <1>11, <2>1 DEF InspectSwitch
    <3>2. ListsInv'
      BY <1>4, <3>1
    <3>3. Finished'
      BY <1>8, <3>1 DEF PhaseInv
    <3>4. Len(results') < N /\ world'[Len(results') + 1].credentials # "ok"
      BY <1>1, <1>11, <2>1, <3>1 DEF InspectSwitch
    <3>5. PhaseInv'
      BY <3>1, <3>3, <3>4 DEF PhaseInv
    <3> QED BY <3>2, <3>5
  <2>2. CASE world[Len(results) + 1].credentials # "other"
    BY <1>9, <1>11, <2>2 DEF InspectSwitch, HumanResult, InspectResult
  <2> QED BY <2>1, <2>2
<1>12. ASSUME phase = "human", Len(results) = N, phase' = "done", exit' = HumanExit,
              UNCHANGED <<items, run, results>>
       PROVE  AggregateInv'
  <2>1. ListsInv'
    BY <1>4, <1>12
  <2>2. Finished'
    BY <1>8, <1>12 DEF PhaseInv
  <2>3. HumanExit' = HumanExit
    BY <1>1, <1>12 DEF HumanExit, GetExitCode
  <2>4. PhaseInv'
    BY <1>12, <2>2, <2>3 DEF PhaseInv
  <2> QED BY <2>1, <2>4
<1>13. CASE RenewDueEnd
  BY <1>12, <1>13 DEF RenewDueEnd, HumanExit
<1>14. CASE InspectEnd
  BY <1>12, <1>14 DEF InspectEnd, HumanExit
<1>15. CASE UNCHANGED avars
  <2>1. ListsInv'
    BY <1>4, <1>15 DEF avars
  <2>2. Finished => Finished'
    BY <1>8, <1>15 DEF avars
  <2>3. HumanExit' = HumanExit
    BY <1>15 DEF avars, HumanExit, GetExitCode
  <2>4. PhaseInv'
    BY <1>15, <2>2, <2>3 DEF avars, PhaseInv
  <2> QED BY <2>1, <2>4
<1> QED BY <1>5, <1>6, <1>7, <1>10, <1>11, <1>13, <1>14, <1>15 DEF Next

\* Every item of a run that was finished is of one of five kinds, and the human
\* result of the switch is of the same.
LEMMA ItemsAreSame ==
  ASSUME AggregateInv, NEW k \in 1..Len(items)
  PROVE  /\ k \in 1..N /\ world[k] \in Happenings
         /\ Same(HumanResult(world[k]), items[k])
         /\ items[k].outcome \in Outcomes
         /\ items[k].outcome = "attention_due" => op = "inspect"
         /\ items[k].outcome \in Failures => Fails(items[k])
<1>1. k \in 1..N
  BY NAssumption DEF AggregateInv, ListsInv
<1>2. world[k] \in Happenings /\ items[k] = ItemOf(world[k]) /\ op \in {"inspect", "renew_due"}
  BY <1>1 DEF AggregateInv, ListsInv
<1>3. Same(HumanResult(world[k]), items[k])
  BY <1>2, FormatsAgreeOnSwitch
<1>4. /\ items[k].outcome \in Outcomes
      /\ items[k].outcome = "attention_due" => op = "inspect"
      /\ items[k].outcome \in Failures => Fails(items[k])
  BY <1>3 DEF Same, Fails, Failures, Outcomes
<1> QED BY <1>1, <1>2, <1>3, <1>4

\* The outcome of a finished run is that of one of its switches, and says what
\* the exit code says.
LEMMA FinishedIsTrue ==
  ASSUME AggregateInv, Finished
  PROVE  /\ run.exit = 2 <=> run.outcome \in Failures
         /\ run.exit = 1 <=> run.outcome = "attention_due"
         /\ run.outcome \in Failures => run.reason # "null"
<1>1. DOMAIN items = 1..N /\ N \in Nat /\ N > 0 /\ Len(items) = N
  BY NAssumption DEF Finished, AggregateInv, ListsInv
<1>2. ASSUME NEW k \in 1..N
      PROVE  /\ items[k].outcome \in Outcomes
             /\ items[k].outcome = "attention_due" => op = "inspect"
             /\ items[k].outcome \in Failures => Fails(items[k])
             /\ Severity(items[k].outcome) \in 1..7
             /\ items[k].outcome \in Failures <=> Severity(items[k].outcome) >= 5
             /\ items[k].outcome = "attention_due" <=> Severity(items[k].outcome) = 4
  BY <1>1, ItemsAreSame, SeverityRanks
<1>3. PICK k \in 1..N :
         /\ Chosen(items) = items[k]
         /\ \A j \in 1..N : Severity(items[j].outcome) <= Severity(items[k].outcome)
  BY <1>1, <1>2, ChosenIsWorst
<1>4. run.outcome = items[k].outcome /\ run.reason = items[k].reason
      /\ run.exit = JsonExit(items)
  BY <1>3 DEF Finished
<1>5. (\E j \in 1..N : items[j].outcome \in Failures) <=> items[k].outcome \in Failures
  BY <1>2, <1>3
<1>6. /\ items[k].outcome = "attention_due" => ~\E j \in 1..N : items[j].outcome \in Failures
      /\ (\E j \in 1..N : items[j].outcome = "attention_due")
            /\ (~\E j \in 1..N : items[j].outcome \in Failures) =>
         items[k].outcome = "attention_due"
  <2>1. items[k].outcome = "attention_due" => items[k].outcome \notin Failures
    BY DEF Failures
  <2>2. ASSUME NEW j \in 1..N, items[j].outcome = "attention_due",
               items[k].outcome \notin Failures
        PROVE  items[k].outcome = "attention_due"
    BY <1>2, <1>3, <2>2
  <2> QED BY <1>5, <2>1, <2>2
<1>7. JsonExit(items) = IF \E j \in 1..N : items[j].outcome \in Failures THEN 2
                        ELSE IF op = "inspect" /\ \E j \in 1..N : items[j].outcome = "attention_due"
                        THEN 1 ELSE 0
  BY <1>1 DEF JsonExit
<1> QED BY <1>2, <1>4, <1>5, <1>6, <1>7 DEF Fails

\* What the human loops make of a switch is the truth about it.
LEMMA ResultMeans ==
  ASSUME op \in {"inspect", "renew_due"}, NEW w \in Happenings
  PROVE  /\ HumanResult(w) = "error" <=> ~Checked(w) \/ (op = "renew_due" /\ ~InOrder(w))
         /\ HumanResult(w) \in Due <=> op = "inspect" /\ Checked(w) /\ w.check \in Due
         /\ InOrder(w) <=> HumanResult(w) # "error" /\ HumanResult(w) \notin Due
<1>1. /\ w.credentials \in {"ok", "value", "other"}
      /\ w.lock \in {"ok", "busy", "lock", "release"}
      /\ w.check \in {"ok", "error", "raises", "renewal_due", "expired"}
  BY HappeningTypes DEF Due
<1>2. CASE op = "inspect"
  BY <1>1, <1>2 DEF HumanResult, InspectResult, Checked, InOrder, Due, Locked
<1>3. CASE op = "renew_due"
  BY <1>1, <1>3 DEF HumanResult, RenewDueResult, Checked, InOrder, Due, Locked
<1> QED BY <1>2, <1>3

\* The exit code of the record is the truth about the switches.
LEMMA JsonExitMeans ==
  ASSUME AggregateInv, Finished
  PROVE  ExitMeans(JsonExit(items))
<1>1. /\ DOMAIN items = 1..N /\ N \in Nat /\ Len(items) = N
      /\ op \in {"inspect", "renew_due"}
  BY NAssumption DEF Finished, AggregateInv, ListsInv
<1>2. ASSUME NEW k \in 1..N
      PROVE  /\ items[k].outcome \in Failures <=>
                   ~Checked(world[k]) \/ (op = "renew_due" /\ ~InOrder(world[k]))
             /\ items[k].outcome = "attention_due" <=>
                   op = "inspect" /\ Checked(world[k]) /\ world[k].check \in Due
             /\ InOrder(world[k]) <=>
                   items[k].outcome \notin Failures /\ items[k].outcome # "attention_due"
  <2>1. Same(HumanResult(world[k]), items[k]) /\ world[k] \in Happenings
    BY <1>1, ItemsAreSame
  <2>2. /\ HumanResult(world[k]) = "error" <=> items[k].outcome \in Failures
        /\ HumanResult(world[k]) \in Due <=> items[k].outcome = "attention_due"
    BY <2>1 DEF Same, Fails, Failures, Due
  <2> QED BY <1>1, <2>1, <2>2, ResultMeans
<1>3. CASE \E k \in 1..N : items[k].outcome \in Failures
  <2>1. JsonExit(items) = 2
    BY <1>1, <1>3 DEF JsonExit
  <2>2. PICK k \in 1..N : items[k].outcome \in Failures
    BY <1>3
  <2>3. ~InOrder(world[k]) /\ (op = "inspect" => ~Checked(world[k]))
    BY <1>1, <1>2, <2>2
  <2> QED BY <2>1, <2>3 DEF ExitMeans
<1>4. CASE ~\E k \in 1..N : items[k].outcome \in Failures
  <2>1. \A k \in 1..N : Checked(world[k])
    BY <1>2, <1>4
  <2>2. CASE op = "inspect" /\ \E k \in 1..N : items[k].outcome = "attention_due"
    <3>1. JsonExit(items) = 1
      BY <1>1, <1>4, <2>2 DEF JsonExit
    <3>2. PICK k \in 1..N : items[k].outcome = "attention_due"
      BY <2>2
    <3>3. ~InOrder(world[k]) /\ world[k].check \in Due
      BY <1>2, <3>2
    <3> QED BY <2>1, <2>2, <3>1, <3>3 DEF ExitMeans
  <2>3. CASE ~(op = "inspect" /\ \E k \in 1..N : items[k].outcome = "attention_due")
    <3>1. JsonExit(items) = 0
      BY <1>1, <1>4, <2>3 DEF JsonExit
    <3>2. \A k \in 1..N : InOrder(world[k])
      BY <1>2, <1>4, <2>3
    <3>3. ~(op = "inspect" /\ \E k \in 1..N : world[k].check \in Due)
      BY <1>2, <2>1, <2>3
    <3> QED BY <3>1, <3>2, <3>3 DEF ExitMeans
  <2> QED BY <2>2, <2>3
<1> QED BY <1>3, <1>4

\* The exit code of the human loop is that of the record.
LEMMA ExitsAgree ==
  ASSUME AggregateInv, Finished, Len(results) = N
  PROVE  HumanExit = JsonExit(items)
<1>1. /\ DOMAIN items = 1..N /\ N \in Nat /\ Len(items) = N /\ DOMAIN results = 1..N
      /\ op \in {"inspect", "renew_due"}
  BY NAssumption DEF Finished, AggregateInv, ListsInv
<1>2. ASSUME NEW k \in 1..N
      PROVE  /\ results[k] = "error" <=> items[k].outcome \in Failures
             /\ results[k] \in Due <=> items[k].outcome = "attention_due"
  <2>1. Same(HumanResult(world[k]), items[k])
    BY <1>1, ItemsAreSame
  <2>2. results[k] = HumanResult(world[k])
    BY <1>1 DEF AggregateInv, ListsInv
  <2>3. Same(results[k], items[k])
    BY <2>1, <2>2
  <2> QED BY <2>3 DEF Same, Fails, Failures, Due
<1>3. ASSUME NEW k \in 1..N PROVE items[k].outcome = "attention_due" => op = "inspect"
  BY <1>1, ItemsAreSame
<1>4. CASE op = "inspect"
  BY <1>1, <1>2, <1>4 DEF HumanExit, GetExitCode, JsonExit
<1>5. CASE op = "renew_due"
  BY <1>1, <1>2, <1>5 DEF HumanExit, JsonExit
<1> QED BY <1>1, <1>4, <1>5

\* A run over any number of switches keeps its lists in step with them.
THEOREM AggregateInvariant == AggregateSpec => []AggregateInv
  BY AggregateInitInv, AggregateStepInv, PTL DEF AggregateSpec

\* The exit code, of the record and of a human loop that came to its end, says of any
\* number of switches what happened at them.
THEOREM ExitIsTrueTheorem == AggregateSpec => []ExitIsTrue
<1>1. AggregateInv => ExitIsTrue
  <2> SUFFICES ASSUME AggregateInv, phase \in {"human", "done", "crashed"}
               PROVE  ExitMeans(run.exit) /\ (phase = "done" => ExitMeans(exit))
    BY DEF ExitIsTrue
  <2>1. Finished /\ (phase = "done" => Len(results) = N /\ exit = HumanExit)
    BY DEF AggregateInv, PhaseInv
  <2>2. run.exit = JsonExit(items) /\ ExitMeans(JsonExit(items))
    BY <2>1, JsonExitMeans DEF Finished
  <2>3. phase = "done" => exit = JsonExit(items)
    BY <2>1, ExitsAgree
  <2> QED BY <2>2, <2>3
<1> QED BY <1>1, AggregateInvariant, PTL

\* RunResult.finish sums up any number of switches truly: outcome, exit code,
\* recovery flag and reason.
THEOREM RecordIsTrueTheorem == AggregateSpec => []RecordIsTrue
<1>1. AggregateInv => RecordIsTrue
  <2> SUFFICES ASSUME AggregateInv, run.exit # -1
               PROVE  /\ run.exit = 2 <=> run.outcome \in Failures
                      /\ run.exit = 1 <=> run.outcome = "attention_due"
                      /\ run.recovery <=> \E k \in DOMAIN items : items[k].recovery
                      /\ run.outcome \in Failures => run.reason # "null"
    BY DEF RecordIsTrue
  <2>1. phase \in {"refused", "human", "done", "crashed"}
    BY DEF AggregateInv, PhaseInv
  <2>2. CASE phase = "refused"
    <3>1. /\ items = <<>> /\ run.outcome = "failure_pre_attempt" /\ run.exit = 2
          /\ run.reason # "null" /\ run.recovery = FALSE
      BY <2>2 DEF AggregateInv, PhaseInv
    <3> QED BY <3>1 DEF Failures
  <2>3. CASE phase \in {"human", "done", "crashed"}
    <3>1. Finished
      BY <2>3 DEF AggregateInv, PhaseInv
    <3>2. run.recovery <=> \E k \in DOMAIN items : items[k].recovery
      BY <3>1 DEF Finished, AnyRecovery
    <3> QED BY <3>1, <3>2, FinishedIsTrue
  <2> QED BY <2>1, <2>2, <2>3
<1> QED BY <1>1, AggregateInvariant, PTL

\* The structured and the human report of the same happenings agree for every switch
\* that both report, and in the exit code unless the inspection loop was ended by an
\* exception that it does not catch; the record has code 2 then.
THEOREM FormatsAgreeTheorem == AggregateSpec => []FormatsAgree
<1>1. AggregateInv => FormatsAgree
  <2> SUFFICES ASSUME AggregateInv, phase \in {"human", "done", "crashed"}
               PROVE  /\ \A k \in 1..Len(results) :
                            (IF results[k] \in Due THEN "due" ELSE results[k]) = Kind(items[k])
                      /\ phase = "done" => Len(results) = N /\ exit = run.exit
                      /\ phase = "crashed" =>
                            /\ Len(results) < N /\ Kind(items[Len(results) + 1]) = "error"
                            /\ run.exit = 2
    BY DEF FormatsAgree
  <2>1. /\ Finished /\ Len(items) = N /\ Len(results) \in Nat /\ Len(results) <= N
        /\ DOMAIN items = 1..N /\ N \in Nat
    BY NAssumption DEF AggregateInv, PhaseInv, ListsInv, Finished
  <2>2. phase = "done" => Len(results) = N /\ exit = run.exit
    BY ExitsAgree DEF AggregateInv, PhaseInv, Finished
  <2>3. ASSUME NEW k \in 1..N
        PROVE  Kind(items[k]) = IF items[k].outcome \in Failures THEN "error"
             ELSE IF items[k].outcome = "success_changed" THEN "renewed"
             ELSE IF items[k].outcome = "success_no_change"
             THEN IF op = "inspect" THEN "ok" ELSE "healthy"
             ELSE "due"
    BY Zenon DEF Kind
  <2>4. ASSUME NEW k \in 1..Len(results)
        PROVE  (IF results[k] \in Due THEN "due" ELSE results[k]) = Kind(items[k])
    <3>1. k \in 1..N
      BY <2>1
    <3>2. Same(HumanResult(world[k]), items[k])
      BY <2>1, <3>1, ItemsAreSame
    <3>3. results[k] = HumanResult(world[k])
      BY DEF AggregateInv, ListsInv
    <3>4. Same(results[k], items[k])
      BY <3>2, <3>3
    <3> QED BY <2>3, <3>1, <3>4 DEF Same, Fails, Failures, Due
  <2>5. ASSUME phase = "crashed"
        PROVE  /\ Len(results) < N /\ Kind(items[Len(results) + 1]) = "error"
               /\ run.exit = 2
    <3> DEFINE k == Len(results) + 1
    <3>1. Len(results) < N /\ world[k].credentials # "ok"
      BY <2>5 DEF AggregateInv, PhaseInv
    <3>2. k \in 1..N
      BY <2>1, <3>1
    <3> HIDE DEF k
    <3>3. Same(HumanResult(world[k]), items[k])
      BY <2>1, <3>2, ItemsAreSame
    <3>4. HumanResult(world[k]) = "error"
      BY <3>1 DEF HumanResult, InspectResult, RenewDueResult
    <3>5. items[k].outcome \in Failures
      BY <3>3, <3>4 DEF Same, Fails, Due
    <3>6. Kind(items[k]) = "error"
      BY <2>3, <3>2, <3>5
    <3>7. run.exit = 2
      BY <2>1, <3>2, <3>5 DEF Finished, JsonExit
    <3> QED BY <3>1, <3>6, <3>7 DEF k
  <2> QED BY <2>2, <2>4, <2>5
<1> QED BY <1>1, AggregateInvariant, PTL
-----------------------------------------------------------------------------
(* RenewalWindow: the dates *)

USE DEF Instants

\* The invariant holds before the first scheduled run.
LEMMA WindowInitInv == WindowInit => WindowInv
<1> SUFFICES ASSUME WindowInit PROVE WindowInv
  OBVIOUS
<1>1. now \in Instants
  BY DayAssumption DEF WindowInit
<1>2. PICK d \in {-lifetime_days - 1, -lifetime_days, -warning_days, 0} :
        notBefore = [day |-> d, tick |-> 0]
  BY DEF WindowInit
<1>3. d \in Int /\ 0 \in 0..(Day - 1)
  BY WindowAssumption, DayAssumption
<1>4. notBefore \in Instants /\ candidate \in Instants
  BY <1>2, <1>3 DEF WindowInit
<1>5. elapsed \in 0..MaxSession
  BY FreshnessAssumption DEF WindowInit
<1> QED BY <1>1, <1>4, <1>5 DEF WindowInit, WindowInv, WindowTypeOK, Session

\* A tick makes a certificate one tick older, over midnight too.
LEMMA TickAges ==
  ASSUME NEW nb \in Instants, NEW t \in Instants, NEW u \in Instants, NEW n \in Nat,
         n + 1 < Day,
         u = IF t.tick + 1 < Day THEN [t EXCEPT !.tick = @ + 1]
                                 ELSE [day |-> t.day + 1, tick |-> 0],
         NotOlder(nb, t, n)
  PROVE  NotOlder(nb, u, n + 1)
<1>1. CASE t.tick + 1 < Day
  <2>1. u.day = t.day /\ u.tick = t.tick + 1 BY <1>1
  <2> QED BY <2>1, DayAssumption DEF NotOlder
<1>2. CASE ~(t.tick + 1 < Day)
  <2>1. u.day = t.day + 1 /\ u.tick = 0 /\ t.tick = Day - 1 BY <1>2, DayAssumption
  <2> QED BY <2>1, DayAssumption DEF NotOlder
<1> QED BY <1>1, <1>2

\* A certificate that is valid stays so: time does not go back.
LEMMA TickIsLater ==
  ASSUME NEW nb \in Instants, NEW t \in Instants, NEW u \in Instants,
         u = IF t.tick + 1 < Day THEN [t EXCEPT !.tick = @ + 1]
                                 ELSE [day |-> t.day + 1, tick |-> 0],
         ~Before(t, nb)
  PROVE  ~Before(u, nb)
<1>1. CASE t.tick + 1 < Day
  <2>1. u.day = t.day /\ u.tick = t.tick + 1 BY <1>1
  <2> QED BY <2>1, DayAssumption DEF Before
<1>2. CASE ~(t.tick + 1 < Day)
  <2>1. u.day = t.day + 1 /\ u.tick = 0 BY <1>2, DayAssumption
  <2> QED BY <2>1, DayAssumption DEF Before
<1> QED BY <1>1, <1>2

\* The passage of time, a check, a signing and an installation preserve the
\* invariant.
LEMMA WindowStepInv == WindowInv /\ [WindowNext]_wvars => WindowInv'
<1> SUFFICES ASSUME WindowInv, [WindowNext]_wvars PROVE WindowInv'
  OBVIOUS
<1> USE DEF WindowInv, WindowTypeOK
<1>1. CASE Tick
  <2>1. now' \in Instants
    <3>1. CASE now.tick + 1 < Day
      <4>1. now.tick + 1 \in 0..(Day - 1) BY <3>1, DayAssumption
      <4> QED BY <1>1, <3>1, <4>1 DEF Tick
    <3>2. CASE ~(now.tick + 1 < Day)
      <4>1. 0 \in 0..(Day - 1) /\ now.day + 1 \in Int BY DayAssumption
      <4> QED BY <1>1, <3>2, <4>1 DEF Tick
    <3> QED BY <3>1, <3>2
  <2>2. WindowTypeOK'
    <3> HIDE DEF Instants
    <3>1. elapsed' \in 0..MaxSession BY <1>1, FreshnessAssumption DEF Tick
    <3>2. UNCHANGED <<notBefore, pc, candidate>> /\ renewed' = FALSE BY <1>1 DEF Tick
    <3> QED BY <2>1, <3>1, <3>2
  <2>3. ASSUME pc' \in Session
        PROVE  NotOlder(candidate', now', Freshness + elapsed') /\ ~Before(now', candidate')
    <3>1. /\ pc \in Session /\ candidate' = candidate
          /\ elapsed < MaxSession /\ elapsed' = elapsed + 1
      BY <1>1, <2>3 DEF Tick
    <3>2. NotOlder(candidate, now, Freshness + elapsed) /\ ~Before(now, candidate)
      BY <3>1
    <3>3. Freshness + elapsed \in Nat /\ Freshness + elapsed + 1 < Day
      BY <3>1, FreshnessAssumption, DayAssumption
    <3>4. NotOlder(candidate, now', Freshness + elapsed + 1)
      BY <1>1, <2>1, <3>2, <3>3, TickAges DEF Tick
    <3>5. ~Before(now', candidate)
      BY <1>1, <2>1, <3>2, TickIsLater DEF Tick
    <3> QED BY <3>1, <3>4, <3>5, FreshnessAssumption
  <2> QED BY <1>1, <2>2, <2>3 DEF Tick
<1>2. CASE CheckSwitch
  BY <1>2 DEF CheckSwitch, Session
<1>3. CASE SignPendingCSR
  <2>1. PICK nb \in [day: {now.day - 1, now.day, now.day + 1}, tick: 0..(Day - 1)] :
          \/ /\ FreshIssuance(nb, now) /\ CurrentlyValid(nb, now)
             /\ candidate' = nb /\ pc' = "install"
          \/ /\ ~(FreshIssuance(nb, now) /\ CurrentlyValid(nb, now))
             /\ pc' = "idle" /\ UNCHANGED candidate
    BY <1>3 DEF SignPendingCSR
  <2>2. nb \in Instants OBVIOUS
  <2>3. Freshness + 0 = Freshness BY FreshnessAssumption
  <2>4. WindowTypeOK' BY <1>3, <2>1, <2>2, FreshnessAssumption DEF SignPendingCSR
  <2>5. ASSUME pc' \in Session
        PROVE  NotOlder(candidate', now', Freshness + elapsed') /\ ~Before(now', candidate')
    BY <1>3, <2>1, <2>3, <2>5 DEF SignPendingCSR, FreshIssuance, CurrentlyValid, Session
  <2>6. UNCHANGED <<now, notBefore, renewed>> BY <1>3 DEF SignPendingCSR
  <2> QED BY <2>4, <2>5, <2>6
<1>4. CASE InstallPending
  <2>1. UNCHANGED <<now, notBefore, candidate, elapsed, renewed>> /\ pc = "install"
    BY <1>4 DEF InstallPending
  <2>2. pc' \in {"paste", "idle"} BY <1>4 DEF InstallPending
  <2>3. pc \in Session BY <2>1 DEF Session
  <2> QED BY <2>1, <2>2, <2>3
<1>5. CASE InstallSigned
  <2>1. UNCHANGED <<now, candidate, elapsed>> /\ pc = "paste" /\ pc' = "idle"
    BY <1>5 DEF InstallSigned
  <2>2. NotOlder(candidate, now, Freshness + elapsed) /\ ~Before(now, candidate)
    BY <2>1 DEF Session
  <2>3. NotOlder(candidate, now, Freshness + MaxSession)
    BY <2>2, FreshnessAssumption, DayAssumption DEF NotOlder
  <2>4. CASE notBefore' = candidate /\ renewed' = TRUE
    <3>1. WindowTypeOK' BY <2>1, <2>4
    <3> QED BY <2>1, <2>2, <2>3, <2>4, <3>1 DEF Session
  <2>5. CASE UNCHANGED <<notBefore, renewed>>
    BY <2>1, <2>5 DEF Session
  <2> QED BY <1>5, <2>4, <2>5 DEF InstallSigned
<1>6. CASE UNCHANGED wvars
  BY <1>6 DEF wvars
<1> QED BY <1>1, <1>2, <1>3, <1>4, <1>5, <1>6 DEF WindowNext

\* The age invariant holds in every behaviour.
THEOREM WindowInvariant == WindowSpec => []WindowInv
<1> QED BY WindowInitInv, WindowStepInv, PTL DEF WindowSpec

\* No certificate begins to be served outside its validity, although it was last
\* checked some exchanges earlier: it is too young to have expired in between.
THEOREM InstalledCertificateIsValid == WindowSpec => []InstalledIsValid
<1>1. ASSUME WindowInv, renewed PROVE ~Before(now, notBefore) /\ Before(now, NotAfter(notBefore))
  <2>1. /\ now \in Instants /\ notBefore \in Instants
        /\ NotOlder(notBefore, now, Freshness + MaxSession) /\ ~Before(now, notBefore)
    BY <1>1 DEF WindowInv, WindowTypeOK
  <2>2. /\ NotAfter(notBefore).day = notBefore.day + lifetime_days
        /\ NotAfter(notBefore).tick = notBefore.tick
    BY <2>1, WindowAssumption DEF NotAfter, PlusDays
  <2>3. lifetime_days >= 1 /\ lifetime_days \in Int
    BY WindowAssumption
  <2> QED BY <2>1, <2>2, <2>3, DayAssumption, FreshnessAssumption DEF NotOlder, Before
<1> QED BY <1>1, WindowInvariant, PTL DEF InstalledIsValid

\* With a lifetime of at least two days more than the warning window, in every
\* time zone, a run of --renew-due leaves the switch outside the window.
THEOREM WideLifetimeLeavesWindow ==
  ASSUME lifetime_days >= warning_days + 2
  PROVE  WindowSpec => []RenewedLeavesWindow
<1>1. WindowInv => RenewedLeavesWindow
  <2> SUFFICES ASSUME WindowInv, renewed PROVE Status(notBefore, now) = "ok"
    BY DEF RenewedLeavesWindow
  <2>1. /\ now \in Instants /\ notBefore \in Instants
        /\ NotOlder(notBefore, now, Freshness + MaxSession)
    BY DEF WindowInv, WindowTypeOK
  <2>2. NotAfter(notBefore).day = notBefore.day + lifetime_days
    BY <2>1, WindowAssumption DEF NotAfter, PlusDays
  <2>3. LocalDate(now) <= now.day + 1 /\ LocalDate(now) \in Int
    BY <2>1, OffsetAssumption, DayAssumption DEF LocalDate
  <2>4. ASSUME notBefore.day = now.day - 1 PROVE LocalDate(now) <= now.day
    BY <2>1, <2>4, OffsetAssumption, FreshnessAssumption, DayAssumption
    DEF LocalDate, NotOlder
  <2>5. notBefore.day >= now.day - 1
    BY <2>1, DayAssumption, FreshnessAssumption DEF NotOlder
  <2>6. days_remaining(notBefore, now) > warning_days
    BY <2>1, <2>2, <2>3, <2>4, <2>5, WindowAssumption DEF days_remaining
  <2>7. days_remaining(notBefore, now) \in Int
    BY <2>1, <2>2, <2>3, WindowAssumption DEF days_remaining
  <2> QED BY <2>6, <2>7, WindowAssumption DEF Status
<1> QED BY <1>1, WindowInvariant, PTL
=============================================================================
