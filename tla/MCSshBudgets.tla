---------------------------- MODULE MCSshBudgets ----------------------------
(* The bounds on an SSH session and on its transport, on small instances.    *)
(* The transport reaches the session only through one flag, which ReadBudget *)
(* raises at any moment (TransportOverflow), so that one of the two modules  *)
(* moves while the other rests in its initial state.                         *)
EXTENDS ReadBudget, PacketBudget

\* Counts of insert-line codes: leading zeros, zero, one digit, and numbers as
\* long as the budgets and longer.
MCCounts == {<<0>>, <<0, 0>>, <<0, 1>>, <<1, 0>>, <<1, 1>>, <<1, 0, 0>>,
             <<0, 0, 0, 1>>}

MCCiphers ==
    [mode: {"classic"}, block: {8, 16}, mac: {0, 20, 64}]
        \cup [mode: {"etm"}, block: {8, 16}, mac: {0, 32, 64}]
        \cup [mode: {"aead"}, block: {16}, mac: {12, 16}]

\* Packet lengths around each boundary of the three formats.
MCFields ==
    {0, 4, 5, 12, 16, 28, 262124, 262128, 262140, 262144, 262145, 262148, 262160,
     262208, 1000000000}

MCInit == SessionInit /\ TransportInit

MCNext ==
    \/ TransportInit /\ SessionNext /\ UNCHANGED pvars
    \/ SessionInit /\ TransportNext /\ UNCHANGED bvars

MCBudgetsSpec == MCInit /\ [][MCNext]_<<bvars, pvars>>
=============================================================================
