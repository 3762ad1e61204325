--------------------------- MODULE MCScheduledRun ---------------------------
(* The scheduled run on small instances: its switches (RunAggregate) and the *)
(* dates of one of them (RenewalWindow).  The two share no state, so one of  *)
(* them moves while the other rests in one of its initial states.            *)
EXTENDS RunAggregate, RenewalWindow

\* Every switch is healthy.
Quiet == [credentials |-> "ok", lock |-> "ok", check |-> "ok", renewal |-> <<"none", 10>>]

RunRests == Init /\ op = "inspect" /\ world = [k \in 1..N |-> Quiet]
DatesRest == WindowInit /\ notBefore.day = 0

MCInit == (RunRests /\ WindowInit) \/ (Init /\ DatesRest)

MCNext ==
    \/ DatesRest /\ Next /\ UNCHANGED wvars
    \/ RunRests /\ WindowNext /\ UNCHANGED avars

MCScheduledSpec == MCInit /\ [][MCNext]_<<avars, wvars>>
=============================================================================
