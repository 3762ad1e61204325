----------------------------- MODULE MCRenewal -----------------------------
(* Renewal on small instances: one switch, invocations as model values.    *)
EXTENDS Renewal, TLC

CONSTANTS d1, JsonRuns

MCTarget == [r \in Runs |-> d1]

\* Each invocation has its own output mode.  The others never see it: they share
\* only the lock, the switch and OPNsense.
MixedNext ==
    \/ \E r \in Runs :
          \/ Start(r) /\ mode'[r] = IF r \in JsonRuns THEN "json" ELSE "human"
          \/ Step(r) \/ Crash(r)
    \/ \E d \in Devices : Reboot(d) \/ OperatorCSR(d)

MixedSpec == Init /\ [][MixedNext]_vars
=============================================================================
