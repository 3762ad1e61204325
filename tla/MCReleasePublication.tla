------------------------ MODULE MCReleasePublication ------------------------
(* The release workflow on a small instance.  ReleasePublication takes the   *)
(* handoff of a candidate as one step; CandidateHandoff opens that step up.  *)
(* The two share no variable, so one of them moves while the other rests in  *)
(* its initial state.                                                        *)
EXTENDS ReleasePublication, CandidateHandoff, TLC

\* Two versions of one commit of main, which share its source alias.  The second can
\* also be tagged at another commit, without an approved signature, and the first,
\* with one, at a commit that is not part of main.  Refs are moved between these
\* objects.
MCTagObjects ==
    {[name |-> "v1", commit |-> "c1", approved |-> TRUE],
     [name |-> "v2", commit |-> "c1", approved |-> TRUE],
     [name |-> "v2", commit |-> "c2", approved |-> FALSE],
     [name |-> "v1", commit |-> "c3", approved |-> TRUE]}

\* Runs and compressions differ only in name.
Symmetry == Permutations(Runs) \cup Permutations(Forms)

MCInit == ReleaseInit /\ HandoffInit

MCNext ==
    \/ HandoffInit /\ ReleaseNext /\ UNCHANGED hvars
    \/ ReleaseInit /\ HandoffNext /\ UNCHANGED rvars

MCReleaseSpec == MCInit /\ [][MCNext]_<<rvars, hvars>>
=============================================================================
