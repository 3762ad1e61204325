--------------------------- MODULE RenewalWindow ---------------------------
(***************************************************************************)
(* The dates of --renew-due on one switch.  A scheduled run renews when    *)
(* check_switch finds the certificate inside the warning window; the       *)
(* certificate it gets is validated twice, after signing and before the    *)
(* installation, and must then be outside the window.                      *)
(*                                                                         *)
(* The two tests do not use the same clock: check_switch subtracts the     *)
(* host's local calendar date from the expiry date the switch displays,    *)
(* while the validation compares instants in UTC.  An instant is a day and *)
(* a tick of that day; a lifetime is a whole number of days.               *)
(***************************************************************************)
EXTENDS Integers

CONSTANTS
    Day,         \* ticks of a day
    Offset,      \* local time minus UTC, in ticks
    Freshness,   \* ISSUANCE_FRESHNESS_WINDOW, in ticks
    warning_days,
    lifetime_days,
    MaxSession,  \* bound on the ticks from the signing to the end of the installation
    MaxDay       \* bound on the clock

ASSUME DayAssumption == Day \in Nat \ {0} /\ MaxDay \in Nat
ASSUME OffsetAssumption == Offset \in Int /\ -Day < Offset /\ Offset < Day

\* Freshness is five minutes, a session is bounded by its timeouts, and no time
\* zone is more than fourteen hours ahead of UTC.
ASSUME FreshnessAssumption ==
    /\ Freshness \in Nat /\ MaxSession \in Nat
    /\ Freshness + MaxSession < Day
    /\ Freshness + MaxSession + Offset <= Day

\* validate_automatic_renewal_window: otherwise no run gets past its startup.
ASSUME WindowAssumption ==
    /\ warning_days \in Nat /\ lifetime_days \in Nat
    /\ warning_days < lifetime_days

Instants == [day: Int, tick: 0..(Day - 1)]

VARIABLES
    now,         \* UTC
    notBefore,   \* of the certificate in use
    pc,          \* "idle", "sign", "install", "paste"
    candidate,   \* notBefore of the certificate issued last
    elapsed,     \* ticks since the last signing
    renewed      \* the last run installed a certificate, and no time has passed

wvars == <<now, notBefore, pc, candidate, elapsed, renewed>>

Before(s, t) == s.day < t.day \/ (s.day = t.day /\ s.tick < t.tick)
PlusDays(t, n) == [t EXCEPT !.day = @ + n]
NotAfter(t) == PlusDays(t, lifetime_days)

\* date.today() of the host.
LocalDate(t) ==
    IF t.tick + Offset < 0 THEN t.day - 1
    ELSE IF t.tick + Offset >= Day THEN t.day + 1
    ELSE t.day

\* check_switch
days_remaining(nb, t) == NotAfter(nb).day - LocalDate(t)

Status(nb, t) ==
    IF days_remaining(nb, t) < 0 THEN "expired"
    ELSE IF days_remaining(nb, t) <= warning_days THEN "renewal_due"
    ELSE "ok"

\* A defect for testing: a certificate that is not yet valid is accepted.
CurrentlyValidEarly(nb, t) == Before(PlusDays(t, warning_days), NotAfter(nb))

\* _require_current_certificate_validity with minimum_remaining_days.
CurrentlyValid(nb, t) ==
    /\ ~Before(t, nb)
    /\ Before(t, NotAfter(nb))
    /\ Before(PlusDays(t, warning_days), NotAfter(nb))

\* nb is not before t minus n ticks, n less than a day.
NotOlder(nb, t, n) ==
    \/ nb.day > t.day
    \/ nb.day = t.day /\ nb.tick + n >= t.tick
    \/ nb.day = t.day - 1 /\ nb.tick + n >= t.tick + Day

\* A defect for testing: require_fresh_issuance is not passed on.
FreshIssuanceUnchecked(nb, t) == nb.day >= t.day - 1

\* require_fresh_issuance: not before now - ISSUANCE_FRESHNESS_WINDOW.
FreshIssuance(nb, t) == NotOlder(nb, t, Freshness)

WindowTypeOK ==
    /\ now \in Instants
    /\ notBefore \in Instants
    /\ pc \in {"idle", "sign", "install", "paste"}
    /\ candidate \in Instants
    /\ elapsed \in 0..MaxSession
    /\ renewed \in BOOLEAN

WindowInit ==
    /\ now = [day |-> 0, tick |-> 0]
    /\ notBefore \in [day: {-lifetime_days - 1, -lifetime_days, -warning_days, 0}, tick: {0}]
    /\ pc = "idle"
    /\ candidate = notBefore
    /\ elapsed = 0
    /\ renewed = FALSE

\* The SSH session that installs a certificate is open.
Session == {"install", "paste"}

Tick ==
    /\ now.day < MaxDay
    /\ now' = IF now.tick + 1 < Day THEN [now EXCEPT !.tick = @ + 1]
                                    ELSE [day |-> now.day + 1, tick |-> 0]
    /\ renewed' = FALSE
    /\ IF pc \in Session THEN elapsed < MaxSession /\ elapsed' = elapsed + 1
                       ELSE UNCHANGED elapsed
    /\ UNCHANGED <<notBefore, pc, candidate>>

\* A scheduled run checks the switch; a healthy one ends here.
CheckSwitch ==
    /\ pc = "idle"
    /\ Status(notBefore, now) # "ok"
    /\ pc' = "sign"
    /\ UNCHANGED <<now, notBefore, candidate, elapsed, renewed>>

\* OPNsense issues (its clock and its choice of notBefore are its own) and
\* validate_issued_certificate accepts or the run fails.
SignPendingCSR ==
    /\ pc = "sign"
    /\ \E nb \in [day: {now.day - 1, now.day, now.day + 1}, tick: 0..(Day - 1)] :
          \/ /\ FreshIssuance(nb, now) /\ CurrentlyValid(nb, now)
             /\ candidate' = nb /\ pc' = "install"
          \/ /\ ~(FreshIssuance(nb, now) /\ CurrentlyValid(nb, now))
             /\ pc' = "idle" /\ UNCHANGED candidate
    /\ elapsed' = 0
    /\ UNCHANGED <<now, notBefore, renewed>>

\* install_pending_certificate tests the validity once more.
InstallPending ==
    /\ pc = "install"
    /\ pc' = IF CurrentlyValid(candidate, now) THEN "paste" ELSE "idle"
    /\ UNCHANGED <<now, notBefore, candidate, elapsed, renewed>>

\* install_signed_certificate: the summary, the dialogue, the PEM and the "y" go over
\* the wire, and the clock is not read again.  Any of them may fail.
InstallSigned ==
    /\ pc = "paste"
    /\ pc' = "idle"
    /\ \/ notBefore' = candidate /\ renewed' = TRUE
       \/ UNCHANGED <<notBefore, renewed>>
    /\ UNCHANGED <<now, candidate, elapsed>>

WindowNext == Tick \/ CheckSwitch \/ SignPendingCSR \/ InstallPending \/ InstallSigned

WindowSpec == WindowInit /\ [][WindowNext]_wvars

\* Types, and the age of a certificate from its signing to its installation, and to
\* the check that may follow at once: what the other two properties follow from.
WindowInv ==
    /\ WindowTypeOK
    /\ pc \in Session => /\ NotOlder(candidate, now, Freshness + elapsed)
                         /\ ~Before(now, candidate)
    /\ renewed => /\ NotOlder(notBefore, now, Freshness + MaxSession)
                  /\ ~Before(now, notBefore)

\* The certificate that the switch begins to serve is valid, although the last look
\* at the clock (_require_current_certificate_validity) is several exchanges with the
\* switch before the installation takes effect.
InstalledIsValid ==
    renewed => ~Before(now, notBefore) /\ Before(now, NotAfter(notBefore))

\* A certificate that --renew-due accepted has left the renewal warning window:
\* a run that follows at once finds nothing to do.
RenewedLeavesWindow == renewed => Status(notBefore, now) = "ok"
=============================================================================
