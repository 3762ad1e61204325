-------------------------- MODULE DeviceLifecycle --------------------------
(***************************************************************************)
(* What the tool promises about a switch, seen from the switch and from    *)
(* OPNsense alone, without the invocations: a CSR of the tool is created   *)
(* only when none of its CSRs is pending; the Web certificate changes only *)
(* to a certificate that was issued for a key pending on that switch; a    *)
(* pending CSR disappears only by being answered or by a reboot, never by  *)
(* a cleanup of the tool.                                                  *)
(***************************************************************************)
CONSTANTS Runs, Devices, NoRun

VARIABLES pend, active, issued

dvars == <<pend, active, issued>>

\* The CSRs the tool has pending on a switch.
Own(d) == {c \in pend[d] : c.by \in Runs}

NewKey(k) ==
    /\ \A d \in Devices : \A c \in pend[d] : c.key # k
    /\ \A x \in issued : x.key # k

Create(d, c) ==
    /\ c.by \in Runs => Own(d) = {}
    /\ NewKey(c.key)
    /\ pend' = [pend EXCEPT ![d] = @ \cup {c}]
    /\ UNCHANGED <<active, issued>>

Issue(x) ==
    /\ \A y \in issued : y.serial # x.serial
    /\ issued' = issued \cup {x}
    /\ UNCHANGED <<pend, active>>

Install(d, c, x) ==
    /\ c \in pend[d]
    /\ x \in issued /\ x.key = c.key /\ x.dev = d
    /\ pend' = [pend EXCEPT ![d] = @ \ {c}]
    /\ active' = [active EXCEPT ![d] = [name |-> c.name, cert |-> x]]
    /\ UNCHANGED issued

Lose(d) ==
    /\ pend' = [pend EXCEPT ![d] = {}]
    /\ UNCHANGED <<active, issued>>

DInit == \A d \in Devices : Own(d) = {}

DNext ==
    \/ \E d \in Devices : \E c \in pend'[d] : Create(d, c)
    \/ \E x \in issued' : Issue(x)
    \/ \E d \in Devices : \E c \in pend[d], x \in issued : Install(d, c, x)
    \/ \E d \in Devices : Lose(d)

DSpec == DInit /\ [][DNext]_dvars
=============================================================================
