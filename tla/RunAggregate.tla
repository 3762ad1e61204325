---------------------------- MODULE RunAggregate ----------------------------
(***************************************************************************)
(* A run over several switches, inspecting them or renewing what is due.   *)
(* The same happenings are given to the three loops of                     *)
(* aruba_cert_renewer.py: _run_json, whose record RunResult.finish sums    *)
(* up, renew_due_certificates, and the inspection loop of main.  One       *)
(* switch that fails must not hide another, and the two output formats     *)
(* must tell the same story.                                               *)
(*                                                                         *)
(* What the renewal of one switch does is the module Renewal; here it is   *)
(* the progress it has reported and the exception that ends it.            *)
(***************************************************************************)
EXTENDS Integers, Sequences, RunItem

CONSTANTS N   \* switches of the run

ASSUME NAssumption == N \in Nat \ {0}

VARIABLES
    op,       \* "inspect", "renew_due"
    world,    \* what happens at each switch
    phase,    \* "json", "refused", "human", "done", "crashed"
    items,    \* RunResult.results
    run,      \* the finished RunResult: outcome, stage, reason, recovery; and the exit code
    results,  \* of the human loop
    exit      \* its exit code

avars == <<op, world, phase, items, run, results, exit>>
-----------------------------------------------------------------------------
(* What may happen at a switch *)

\* The events of renew_certificate, up to the installation.
Reported ==
    <<"preflight_confirmed", "csr_confirmed", "signing_preparation",
      "issuance_dispatched", "issuance_confirmed", "certificate_retrieved",
      "issued_validated", "installation_prepared", "installation_confirmed",
      "live_tls_confirmed">>

\* The exceptions of renew_certificate, with the events reported before them;
\* "none" is a renewal that is verified.
Renewals ==
    {<<"none", 10>>, <<"pending", 0>>, <<"preflight", 0>>, <<"csr_pre", 1>>,
     <<"csr", 1>>, <<"signing", 2>>, <<"signing", 4>>, <<"signing", 6>>,
     <<"pre_install", 7>>, <<"install", 8>>, <<"live", 9>>, <<"other", 1>>,
     <<"other", 4>>, <<"other", 9>>}

Due == {"renewal_due", "expired"}

\* Credentials: a ValueError, or another exception such as the end of the input
\* at a prompt.  JSON mode passes allow_prompt=False: where the human loops fail at
\* their prompt it refuses the switch without asking.
\* The lock: taken, busy, unusable, or an error when it is closed.
\* check_switch: its status, or a ValueError.
\* What follows an exception that ends the work on the switch does not matter.
Happenings ==
    {w \in [credentials: {"ok", "value", "other"}, lock: {"ok", "busy", "lock", "release"},
            check: {"ok", "error", "raises"} \cup Due, renewal: Renewals] :
        /\ w.credentials # "ok" => w.lock = "ok"
        /\ w.credentials # "ok" \/ w.lock \in {"busy", "lock"} => w.check = "ok"
        /\ w.check \notin Due => w.renewal = <<"none", 10>>}

Locked == op = "renew_due"

Init ==
    /\ op \in {"inspect", "renew_due"}
    /\ world \in [1..N -> Happenings]
    /\ phase = "json" /\ items = <<>> /\ results = <<>>
    /\ run = [outcome |-> "failure_pre_attempt", stage |-> "configuration",
              reason |-> "null", recovery |-> FALSE, exit |-> -1]
    /\ exit = -1
-----------------------------------------------------------------------------
(* _run_json and RunResult.finish *)

\* The item after the first n events of a renewal.
AfterEvents(item, n) ==
    LET after[k \in 0..n] ==
            IF k = 0 THEN item
            ELSE IF Reported[k] = "installation_confirmed"
            THEN InstallationConfirmed(after[k - 1], "new")
            ELSE Progress(after[k - 1], Reported[k])
    IN  after[n]

\* _json_renew
Renewed(item, renewal) ==
    LET reached == AfterEvents([item EXCEPT !.stage = "preflight"], renewal[2])
    IN  IF renewal[1] = "none" THEN SucceededItem(reached, "success_changed")
        ELSE Failure(reached, renewal[1])

\* _json_process_target
ProcessTarget(item, w) ==
    LET inspected == [item EXCEPT !.stage = "inspection"]
    IN  CASE w.check = "raises" -> Failure(inspected, "value")
          [] w.check = "error" -> [inspected EXCEPT !.reason = "inspection_failed"]
          [] w.check = "ok" ->
                [SucceededItem(inspected, "success_no_change") EXCEPT !.due = "false"]
          [] w.check \in Due /\ op = "inspect" ->
                [inspected EXCEPT !.due = "true", !.outcome = "attention_due",
                                  !.stage = "decision"]
          [] w.check \in Due /\ op = "renew_due" ->
                Renewed([inspected EXCEPT !.due = "true"], w.renewal)

\* A failing close is raised only if the body did not raise.
ReleaseFails(w) == Locked /\ w.lock = "release" /\ w.check # "raises"

ItemOf(w) ==
    LET item == NewItem("none")
    IN  IF w.credentials # "ok" THEN FailedItem(op, item, "credentials")
        ELSE IF Locked /\ w.lock \in {"busy", "lock"} THEN FailedItem(op, item, w.lock)
        ELSE IF ReleaseFails(w) THEN ReleaseFailedItem(ProcessTarget(item, w))
        ELSE ProcessTarget(item, w)

\* Startup: the arguments, the configuration or the CA file are refused, and no
\* switch is contacted.  finish() has no results to sum up then.
StartupFails ==
    /\ phase = "json" /\ items = <<>>
    /\ \E why \in {"config_invalid", "unexpected_failure"} :
          run' = [run EXCEPT !.reason = why, !.exit = 2]
    /\ phase' = "refused"
    /\ UNCHANGED <<op, world, items, results, exit>>

JsonSwitch ==
    /\ phase = "json" /\ Len(items) < N
    /\ items' = Append(items, ItemOf(world[Len(items) + 1]))
    /\ UNCHANGED <<op, world, phase, run, results, exit>>

SeverityOrder ==
    <<"success_no_change", "success_prepared", "success_changed", "attention_due",
      "failure_pre_attempt", "failure_partial", "failure_ambiguous">>
Severity(outcome) == CHOOSE k \in DOMAIN SeverityOrder : SeverityOrder[k] = outcome

\* max(results, key=severity): the first of the worst.
Chosen(s) ==
    s[CHOOSE k \in DOMAIN s :
        /\ \A j \in DOMAIN s : Severity(s[j].outcome) <= Severity(s[k].outcome)
        /\ \A j \in 1..(k - 1) : Severity(s[j].outcome) < Severity(s[k].outcome)]

\* A defect: the flag is the worst switch's.
AnyRecoveryOfChosen(s) == Chosen(s).recovery

AnyRecovery(s) == \E k \in DOMAIN s : s[k].recovery

JsonExit(s) ==
    IF \E k \in DOMAIN s : s[k].outcome \in Failures THEN 2
    ELSE IF op = "inspect" /\ \E k \in DOMAIN s : s[k].outcome = "attention_due" THEN 1
    ELSE 0

Finish ==
    /\ phase = "json" /\ Len(items) = N
    /\ LET worst == Chosen(items)
       IN  run' = [outcome |-> worst.outcome,
                   stage |-> IF Severity(worst.outcome) >= Severity("attention_due")
                             THEN worst.stage ELSE "completed",
                   reason |-> worst.reason,
                   recovery |-> AnyRecovery(items),
                   exit |-> JsonExit(items)]
    /\ phase' = "human"
    /\ UNCHANGED <<op, world, items, results, exit>>
-----------------------------------------------------------------------------
(* renew_due_certificates *)

\* A defect: a release that fails after the body is not an error.
RenewDueResultIgnoresRelease(w) ==
    IF \/ w.credentials # "ok" \/ w.lock \in {"busy", "lock"}
       \/ w.check \notin {"ok", "renewal_due", "expired"}
       \/ w.check \in Due /\ w.renewal[1] # "none"
    THEN "error"
    ELSE IF w.check = "ok" THEN "healthy" ELSE "renewed"

\* What is appended to results for one switch.
RenewDueResult(w) ==
    IF \/ w.credentials # "ok" \/ w.lock # "ok"
       \/ w.check \notin {"ok", "renewal_due", "expired"}
       \/ w.check \in Due /\ w.renewal[1] # "none"
    THEN "error"
    ELSE IF w.check = "ok" THEN "healthy" ELSE "renewed"

RenewDueSwitch ==
    /\ phase = "human" /\ op = "renew_due" /\ Len(results) < N
    /\ results' = Append(results, RenewDueResult(world[Len(results) + 1]))
    /\ UNCHANGED <<op, world, phase, items, run, exit>>

RenewDueEnd ==
    /\ phase = "human" /\ op = "renew_due" /\ Len(results) = N
    /\ exit' = IF \E k \in 1..N : results[k] = "error" THEN 2 ELSE 0
    /\ phase' = "done"
    /\ UNCHANGED <<op, world, items, run, results>>
-----------------------------------------------------------------------------
(* The inspection loop of main *)

\* Only a ValueError is caught: any other exception ends the program with
\* Python's exit code 1.
InspectSwitch ==
    /\ phase = "human" /\ op = "inspect" /\ Len(results) < N
    /\ LET w == world[Len(results) + 1]
       IN  IF w.credentials = "other"
           THEN phase' = "crashed" /\ exit' = 1 /\ UNCHANGED results
           ELSE /\ results' = Append(results,
                       IF w.credentials # "ok" \/ w.check = "raises" THEN "error"
                       ELSE w.check)
                /\ UNCHANGED <<phase, exit>>
    /\ UNCHANGED <<op, world, items, run>>

\* A defect: a switch that is due outweighs one that could not be checked.
GetExitCodeDueFirst(s) ==
    IF \E k \in DOMAIN s : s[k] \in Due THEN 1
    ELSE IF \E k \in DOMAIN s : s[k] = "error" THEN 2
    ELSE 0

\* get_exit_code
GetExitCode(s) ==
    IF \E k \in DOMAIN s : s[k] = "error" THEN 2
    ELSE IF \E k \in DOMAIN s : s[k] \in Due THEN 1
    ELSE 0

InspectEnd ==
    /\ phase = "human" /\ op = "inspect" /\ Len(results) = N
    /\ exit' = GetExitCode(results)
    /\ phase' = "done"
    /\ UNCHANGED <<op, world, items, run, results>>

Next ==
    StartupFails \/ JsonSwitch \/ Finish \/ RenewDueSwitch \/ RenewDueEnd \/ InspectSwitch \/ InspectEnd

AggregateSpec == Init /\ [][Next]_avars
-----------------------------------------------------------------------------
\* The record of a run sums up its switches, whatever their order: its outcome
\* says the same as the exit code, a switch that needs manual recovery is visible
\* even when another one has the worse outcome, and a failure has a reason.
RecordIsTrue ==
    run.exit # -1 =>
        /\ run.exit = 2 <=> run.outcome \in Failures
        /\ run.exit = 1 <=> run.outcome = "attention_due"
        /\ run.recovery <=> \E k \in DOMAIN items : items[k].recovery
        /\ run.outcome \in Failures => run.reason # "null"

\* The switch was checked, and is as it should be when the run has ended.
Checked(w) == w.credentials = "ok" /\ w.check \in {"ok"} \cup Due
InOrder(w) ==
    /\ Checked(w)
    /\ w.check \in Due => op = "renew_due" /\ w.renewal[1] = "none"
    /\ Locked => w.lock = "ok"

\* What the exit codes mean.
ExitMeans(code) ==
    /\ code \in 0..2
    /\ code = 0 <=> \A k \in 1..N : InOrder(world[k])
    /\ code = 1 <=> /\ op = "inspect" /\ \A k \in 1..N : Checked(world[k])
                    /\ \E k \in 1..N : world[k].check \in Due

\* The exit code of either format is the truth about what happened at all the
\* switches, not only about what was recorded of them: 0 if and only if each is in
\* order, 1 if and only if an inspection could check each and something is due.
ExitIsTrue ==
    /\ phase \in {"human", "done", "crashed"} => ExitMeans(run.exit)
    /\ phase = "done" => ExitMeans(exit)

Kind(item) ==
    IF item.outcome \in Failures THEN "error"
    ELSE CASE item.outcome = "success_changed" -> "renewed"
           [] item.outcome = "success_no_change" ->
                 IF op = "inspect" THEN "ok" ELSE "healthy"
           [] OTHER -> "due"

\* The human and the structured report of the same happenings agree, switch by
\* switch as far as the human one goes.  It goes to the end, with the same exit code,
\* unless the inspection loop is ended by an exception that it does not catch: then
\* the record has the failure at that switch and code 2, and the switches after it
\* are in the record only.
FormatsAgree ==
    /\ phase \in {"human", "done", "crashed"} =>
          \A k \in 1..Len(results) :
              (IF results[k] \in Due THEN "due" ELSE results[k]) = Kind(items[k])
    /\ phase = "done" => Len(results) = N /\ exit = run.exit
    /\ phase = "crashed" => /\ Len(results) < N /\ Kind(items[Len(results) + 1]) = "error"
                            /\ run.exit = 2

\* What docs/run-result.md says: JSON never changes the exit codes.
ExitCodesAgree == phase \in {"done", "crashed"} => exit = run.exit
=============================================================================
