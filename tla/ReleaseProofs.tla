---------------------------- MODULE ReleaseProofs ----------------------------
(***************************************************************************)
(* ReleaseInv is an invariant of the release workflow, for any sets of     *)
(* runs, tags and commits and however often tags are moved and jobs are    *)
(* cancelled and rerun; HandoffInv is one of the handoff of a candidate,   *)
(* however often the files change.                                         *)
(*                                                                         *)
(* The properties of ReleasePublication are not inductive: that an alias   *)
(* never moves rests on the publish job being alone between its inspection *)
(* of both aliases and its writes, so the invariant says what the aliases  *)
(* are at every location of a publisher.                                   *)
(***************************************************************************)
EXTENDS ReleasePublication, CandidateHandoff, TLAPS

Events == [tag: Tags, commit: Commits, eligible: Eligible]
Candidates ==
    [commit: Commits, build: Builds, form: Forms \cup {Classic}, attempt: Nat]
Aliases == Digests \cup {Absent}
Reports ==
    {"none", "version_uncertain", "version_confirmed", "source_uncertain",
     "version_copy_uncertain", "aliases_confirmed", "latest_uncertain"}
Locations == Active \cup Ended \cup {"none", "queued"}

\* Every variable has its type.
ReleaseTypeOK ==
    /\ ref \in [Tags -> TagObjects \cup {NoTag}] /\ moves \in Nat
    /\ version \in [Tags -> Aliases] /\ source \in [Commits -> Aliases]
    /\ latest \in Aliases
    /\ pc \in [Runs -> Locations]
    /\ event \in [Runs -> Events \cup {NoEvent}]
    /\ attempt \in [Runs -> Nat]
    /\ auth \in [Runs -> TagObjects \cup {NoTag}]
    /\ cand \in [Runs -> Candidates \cup {NoCandidate}]
    /\ seen \in [Runs -> Aliases] /\ selected \in [Runs -> Aliases]
    /\ report \in [Runs -> Reports]
    /\ made \in [Runs -> SUBSET {"version", "source", "latest"}]

\* The concurrency group of the publish job.
PublisherAlone ==
    \A q, r \in Runs : pc[q] \in Publisher /\ pc[r] \in Publisher => q = r

Built == Publisher \cup {"wait", "failed_publish", "done"}
Attesting == {"provenance", "sbom", "latest", "latest_check", "done"}

\* A run past its authorization has an event and a valid tag object; past
\* its build, a candidate of its commit; past the recheck, of this attempt.
PreparedInv(r) ==
    /\ IF pc[r] = "none" THEN event[r] = NoEvent ELSE event[r] \in Events
    /\ pc[r] \in Built \cup {"build", "failed_build"} =>
          /\ auth[r] \in TagObjects /\ ValidTagObject(auth[r], Tag(r), Sha(r))
          /\ ApprovedSignature(auth[r]) /\ Sha(r) \in Merged
    /\ pc[r] \in Built => cand[r] \in Candidates /\ cand[r].commit = Sha(r)
    /\ pc[r] \in (Publisher \ {"recheck"}) \cup {"done"} => cand[r].attempt = attempt[r]

\* The digest that a publisher has selected.
Chosen(r) == selected[r] # Absent /\ Identity(r, selected[r])

\* What the aliases of its release are, by where a publisher stands.
AliasInv(r) ==
    /\ pc[r] \in {"inspect_source", "post_source"} => seen[r] = version[Tag(r)]
    /\ pc[r] = "push" => version[Tag(r)] = Absent
    /\ pc[r] \in {"push", "pushed", "copy_source"} => source[Sha(r)] = Absent
    /\ pc[r] = "copy_version" => version[Tag(r)] = Absent
    /\ pc[r] \in Attesting \cup {"copy_source", "copy_version", "post_version",
                                "post_source"} => Chosen(r)
    /\ pc[r] \in Attesting \cup {"copy_source", "post_version", "post_source"}
          => version[Tag(r)] = selected[r]
    /\ pc[r] \in Attesting \cup {"copy_version", "post_version", "post_source"}
          => source[Sha(r)] = selected[r]
    /\ pc[r] \in Attesting \ {"provenance"} => selected[r] \in provenance
    /\ pc[r] \in Attesting \ {"provenance", "sbom"} => selected[r] \in sbom

\* What publication_state says, by where the run stands, is so.
ReportInv(r) ==
    /\ pc[r] \in {"none", "authorize", "build", "wait", "recheck", "inspect_version",
                  "inspect_source", "push", "copy_version"} => report[r] = "none"
    /\ pc[r] = "pushed" => report[r] = "version_uncertain"
    /\ pc[r] = "copy_source" => report[r] \in {"none", "version_confirmed"}
    /\ pc[r] \in {"post_version", "post_source"} =>
          report[r] \in {"none", "source_uncertain", "version_copy_uncertain"}
    /\ pc[r] \in {"provenance", "sbom", "latest"} => report[r] = "aliases_confirmed"
    /\ report[r] = "none" => made[r] = {}
    /\ report[r] \in Reports \ {"none", "version_uncertain"} => selected[r] # Absent
    /\ report[r] \in {"version_confirmed", "source_uncertain"} =>
          version[Tag(r)] = selected[r]
    /\ report[r] = "version_copy_uncertain" => source[Sha(r)] = selected[r]
    /\ report[r] \in {"aliases_confirmed", "latest_uncertain"} =>
          version[Tag(r)] = selected[r] /\ source[Sha(r)] = selected[r]
    /\ "latest" \in made[r] => report[r] = "latest_uncertain"

\* The inductive invariant of the workflow.
ReleaseInv ==
    /\ ReleaseTypeOK /\ PublisherAlone
    /\ \A r \in Runs : PreparedInv(r) /\ AliasInv(r) /\ ReportInv(r)
    /\ AliasesAreAuthorized /\ LatestIsComplete

\* What InspectSource comes to: nothing is there and the candidate is pushed,
\* or what is there is adopted if it is one digest, the candidate's.
LEMMA InspectSourceCases ==
  ASSUME ReleaseInv, NEW r \in Runs, InspectSource(r)
  PROVE  /\ pc[r] = "inspect_source" /\ seen' = [seen EXCEPT ![r] = Absent]
         /\ UNCHANGED <<Git, Registry, Before, report, made>>
         /\ \E d \in Aliases, l \in {"push", "failed_publish", "copy_source",
                                     "copy_version", "post_version"} :
               /\ selected' = [selected EXCEPT ![r] = d]
               /\ pc' = [pc EXCEPT ![r] = l]
               /\ l = "push" => version[Tag(r)] = Absent /\ source[Sha(r)] = Absent
               /\ l \in {"copy_source", "copy_version", "post_version"} =>
                     d # Absent /\ Identity(r, d)
               /\ l = "copy_source" => source[Sha(r)] = Absent /\ version[Tag(r)] = d
               /\ l = "copy_version" => source[Sha(r)] = d /\ version[Tag(r)] = Absent
               /\ l = "post_version" => source[Sha(r)] = d /\ version[Tag(r)] = d
<1> USE DEF InspectSource, Goto, Fails, FailedAt
<1>1. /\ seen[r] = version[Tag(r)] /\ seen[r] \in Aliases /\ source[Sha(r)] \in Aliases
      /\ pc[r] = "inspect_source" /\ selected[r] \in Aliases
      /\ selected = [selected EXCEPT ![r] = selected[r]] /\ Absent \in Aliases
  BY DEF ReleaseInv, ReleaseTypeOK, AliasInv, PreparedInv, Publisher, Aliases, Events, Sha
<1>2. FailedAt(pc[r]) = "failed_publish"
  BY <1>1 DEF Publisher
<1> HIDE DEF FailedAt
<1>3. CASE {seen[r], source[Sha(r)]} \ {Absent} = {}
  <2>1. seen[r] = Absent /\ source[Sha(r)] = Absent
    BY <1>3, <1>1
  <2>2. selected' = [selected EXCEPT ![r] = selected[r]] /\ pc' = [pc EXCEPT ![r] = "push"]
    BY <1>3, <1>1, Zenon
  <2> QED BY <1>1, <2>1, <2>2
<1>4. CASE {seen[r], source[Sha(r)]} \ {Absent} # {}
  <2>1. PICK d \in {seen[r], source[Sha(r)]} \ {Absent} :
           /\ selected' = [selected EXCEPT ![r] = d]
           /\ IF {seen[r], source[Sha(r)]} \ {Absent} # {d} \/ ~Identity(r, d)
              THEN Fails(r)
              ELSE Goto(r, IF source[Sha(r)] = Absent THEN "copy_source"
                           ELSE IF seen[r] = Absent THEN "copy_version"
                           ELSE "post_version")
    BY <1>4, Zenon
  <2>2. d \in Aliases /\ d # Absent
    BY <2>1, <1>1
  <2>3. CASE {seen[r], source[Sha(r)]} \ {Absent} # {d} \/ ~Identity(r, d)
    BY <1>1, <1>2, <2>1, <2>2, <2>3
  <2>4. CASE {seen[r], source[Sha(r)]} \ {Absent} = {d} /\ Identity(r, d)
    BY <1>1, <2>1, <2>2, <2>4
  <2> QED BY <2>3, <2>4
<1> QED BY <1>1, <1>3, <1>4

\* The push fails or succeeds; whether or not it succeeds, it may have put the
\* candidate where no alias was.
LEMMA PushCases ==
  ASSUME ReleaseInv, NEW r \in Runs, Push(r)
  PROVE  /\ pc[r] = "push" /\ version[Tag(r)] = Absent
         /\ report' = [report EXCEPT ![r] = "version_uncertain"]
         /\ UNCHANGED <<Git, source, latest, provenance, sbom, Before, seen, selected>>
         /\ \E l \in {"pushed", "failed_publish"} :
               /\ pc' = [pc EXCEPT ![r] = l]
               /\ \/ /\ \E d \in Digests : d.commit = Sha(r)
                                           /\ version' = [version EXCEPT ![Tag(r)] = d]
                     /\ made' = [made EXCEPT ![r] = @ \cup {"version"}]
                  \/ l = "failed_publish" /\ UNCHANGED <<version, made>>
<1>1. /\ pc[r] = "push" /\ FailedAt(pc[r]) = "failed_publish"
      /\ cand[r] \in Candidates /\ cand[r].commit = Sha(r)
      /\ version[Tag(r)] = Absent
  BY DEF Push, FailedAt, ReleaseInv, PreparedInv, AliasInv, Publisher, Built
<1>2. /\ Say(r, "version_uncertain")
      /\ UNCHANGED <<Git, source, latest, provenance, sbom, Before, seen, selected>>
      /\ \/ \E f \in IF cand[r].form = Classic THEN Forms ELSE {cand[r].form} :
               /\ version' = [version EXCEPT ![Tag(r)] =
                                 [commit |-> cand[r].commit, build |-> cand[r].build,
                                  form |-> f]]
               /\ Made(r, "version")
               /\ Goto(r, "pushed") \/ Goto(r, "failed_publish")
         \/ Goto(r, "failed_publish") /\ UNCHANGED <<version, made>>
  BY <1>1, Zenon DEF Push, Fails
<1>3. CASE \E f \in IF cand[r].form = Classic THEN Forms ELSE {cand[r].form} :
               /\ version' = [version EXCEPT ![Tag(r)] =
                                 [commit |-> cand[r].commit, build |-> cand[r].build,
                                  form |-> f]]
               /\ Made(r, "version")
               /\ Goto(r, "pushed") \/ Goto(r, "failed_publish")
  BY <1>1, <1>2, <1>3 DEF Candidates, Digests, Goto, Made, Say
<1>4. CASE Goto(r, "failed_publish") /\ UNCHANGED <<version, made>>
  BY <1>1, <1>2, <1>4 DEF Goto, Say
<1> QED BY <1>2, <1>3, <1>4

\* Where a step can take a run is a location.
LEMMA LocationsAreClosed ==
  /\ {"queued", "authorize", "build", "wait", "recheck", "inspect_version",
      "inspect_source", "push", "pushed", "copy_source", "copy_version", "post_version",
      "post_source", "provenance", "sbom", "latest", "latest_check", "done",
      "failed_publish"} \subseteq Locations
  /\ \A l : FailedAt(l) \in Locations
  BY DEF Locations, Active, Publisher, Ended, Failed, FailedAt

\* A run that has an event has a tag and a commit.
LEMMA EventTypes ==
  ASSUME ReleaseInv, NEW r \in Runs, pc[r] # "none"
  PROVE  event[r] \in Events /\ Tag(r) \in Tags /\ Sha(r) \in Commits
  BY DEF ReleaseInv, PreparedInv, Events, Tag, Sha

\* Every step keeps the types.
LEMMA ReleaseTypeStep == ReleaseInv /\ [ReleaseNext]_rvars =>
    ReleaseTypeOK'
<1> SUFFICES ASSUME ReleaseInv, [ReleaseNext]_rvars
             PROVE  ReleaseTypeOK'
  OBVIOUS
<1> USE ReleaseAssumption, LocationsAreClosed, EventTypes DEF ReleaseInv,
        ReleaseTypeOK, Aliases, Reports, Goto, Say, Fails, Git, Registry, Before,
        Facts
<1>1. ASSUME NEW r \in Runs, StartWorkflow(r)
      PROVE  ReleaseTypeOK'
  BY <1>1 DEF StartWorkflow, NewAttempt, NoCandidate
<1>2. ASSUME NEW r \in Runs, Authorize(r)
      PROVE  ReleaseTypeOK'
  BY <1>2 DEF Authorize
<1>3. ASSUME NEW r \in Runs, Build(r)
      PROVE  ReleaseTypeOK'
  BY <1>3 DEF Build, Candidate, Candidates
<1>4. ASSUME NEW r \in Runs, StartPublish(r)
      PROVE  ReleaseTypeOK'
  BY <1>4 DEF StartPublish, PublisherFree
<1>5. ASSUME NEW r \in Runs, Recheck(r)
      PROVE  ReleaseTypeOK'
  BY <1>5 DEF Recheck, HandoffValid
<1>6. ASSUME NEW r \in Runs, InspectVersion(r)
      PROVE  ReleaseTypeOK'
  BY <1>6 DEF InspectVersion
<1>7. ASSUME NEW r \in Runs, InspectSource(r)
      PROVE  ReleaseTypeOK'
  BY <1>7, InspectSourceCases
<1>8. ASSUME NEW r \in Runs, Push(r)
      PROVE  ReleaseTypeOK'
  BY <1>8, PushCases
<1>9. ASSUME NEW r \in Runs, Pushed(r)
      PROVE  ReleaseTypeOK'
  <2>1. pc' \in [Runs -> Locations]
    BY <1>9 DEF Pushed
  <2>2. selected' \in [Runs -> Aliases]
    BY <1>9 DEF Pushed
  <2>3. report' \in [Runs -> Reports]
    BY <1>9 DEF Pushed
  <2> QED BY <1>9, <2>1, <2>2, <2>3 DEF Pushed
<1>10. ASSUME NEW r \in Runs, CopySource(r)
      PROVE  ReleaseTypeOK'
  BY <1>10 DEF CopySource, Made
<1>11. ASSUME NEW r \in Runs, CopyVersion(r)
      PROVE  ReleaseTypeOK'
  BY <1>11 DEF CopyVersion, Made
<1>12. ASSUME NEW r \in Runs, PostSource(r)
      PROVE  ReleaseTypeOK'
  BY <1>12 DEF PostSource
<1>13. ASSUME NEW r \in Runs, AttestProvenance(r)
      PROVE  ReleaseTypeOK'
  BY <1>13 DEF AttestProvenance
<1>14. ASSUME NEW r \in Runs, AttestSbom(r)
      PROVE  ReleaseTypeOK'
  BY <1>14 DEF AttestSbom
<1>15. ASSUME NEW r \in Runs, PromoteLatest(r)
      PROVE  ReleaseTypeOK'
  <2>1. CASE Goto(r, "done") /\ UNCHANGED <<latest, report, made>>
    BY <1>15, <2>1 DEF PromoteLatest
  <2>2. CASE Say(r, "latest_uncertain") /\ latest' = selected[r] /\ Made(r, "latest")
             /\ (Goto(r, "latest_check") \/ Fails(r))
    BY <1>15, <2>2 DEF PromoteLatest, Made
  <2>3. CASE Say(r, "latest_uncertain") /\ Fails(r) /\ UNCHANGED <<latest, made>>
    BY <1>15, <2>3 DEF PromoteLatest
  <2> QED BY <1>15, <2>1, <2>2, <2>3 DEF PromoteLatest
<1>16. ASSUME NEW r \in Runs, LatestCheck(r)
      PROVE  ReleaseTypeOK'
  BY <1>16 DEF LatestCheck
<1>17. ASSUME NEW r \in Runs, ReleaseEvent(r)
      PROVE  ReleaseTypeOK'
  BY <1>17 DEF ReleaseEvent, Events
<1>18. ASSUME NEW r \in Runs, Abort(r)
      PROVE  ReleaseTypeOK'
  BY <1>18 DEF Abort
<1>19. ASSUME NEW r \in Runs, RerunAll(r)
      PROVE  ReleaseTypeOK'
  BY <1>19 DEF RerunAll
<1>20. ASSUME NEW r \in Runs, RerunFailed(r)
      PROVE  ReleaseTypeOK'
  BY <1>20 DEF RerunFailed, NewAttempt
<1>21. ASSUME NEW t \in Tags, MoveTag(t)
      PROVE  ReleaseTypeOK'
  BY <1>21 DEF MoveTag
<1>22. CASE UNCHANGED rvars
  BY <1>22 DEF rvars
<1> QED BY <1>1, <1>2, <1>3, <1>4, <1>5, <1>6, <1>7, <1>8, <1>9, <1>10, <1>11, <1>12,
           <1>13, <1>14, <1>15, <1>16, <1>17, <1>18, <1>19, <1>20, <1>21, <1>22 DEF
           ReleaseNext, Step

\* A publisher is alone: StartPublish waits for the others to leave.
LEMMA ReleaseAloneStep == ReleaseInv /\ [ReleaseNext]_rvars =>
    PublisherAlone'
<1> SUFFICES ASSUME ReleaseInv, [ReleaseNext]_rvars
             PROVE  PublisherAlone'
  OBVIOUS
<1> USE ReleaseAssumption DEF ReleaseInv, ReleaseTypeOK, PublisherAlone, Publisher,
        Active, Failed, Ended, FailedAt, Goto, Say, Fails, Git, Registry, Before,
        Facts
<1>1. ASSUME NEW r \in Runs, StartWorkflow(r)
      PROVE  PublisherAlone'
  BY <1>1 DEF StartWorkflow, NewAttempt
<1>2. ASSUME NEW r \in Runs, Authorize(r)
      PROVE  PublisherAlone'
  BY <1>2 DEF Authorize
<1>3. ASSUME NEW r \in Runs, Build(r)
      PROVE  PublisherAlone'
  BY <1>3 DEF Build, Candidate
<1>4. ASSUME NEW r \in Runs, StartPublish(r)
      PROVE  PublisherAlone'
  BY <1>4 DEF StartPublish, PublisherFree
<1>5. ASSUME NEW r \in Runs, Recheck(r)
      PROVE  PublisherAlone'
  BY <1>5 DEF Recheck, HandoffValid
<1>6. ASSUME NEW r \in Runs, InspectVersion(r)
      PROVE  PublisherAlone'
  BY <1>6 DEF InspectVersion
<1>7. ASSUME NEW r \in Runs, InspectSource(r)
      PROVE  PublisherAlone'
  BY <1>7, InspectSourceCases
<1>8. ASSUME NEW r \in Runs, Push(r)
      PROVE  PublisherAlone'
  BY <1>8, PushCases
<1>9. ASSUME NEW r \in Runs, Pushed(r)
      PROVE  PublisherAlone'
  BY <1>9 DEF Pushed
<1>10. ASSUME NEW r \in Runs, CopySource(r)
      PROVE  PublisherAlone'
  BY <1>10 DEF CopySource, Made
<1>11. ASSUME NEW r \in Runs, CopyVersion(r)
      PROVE  PublisherAlone'
  BY <1>11 DEF CopyVersion, Made
<1>12. ASSUME NEW r \in Runs, PostSource(r)
      PROVE  PublisherAlone'
  BY <1>12 DEF PostSource
<1>13. ASSUME NEW r \in Runs, AttestProvenance(r)
      PROVE  PublisherAlone'
  BY <1>13 DEF AttestProvenance
<1>14. ASSUME NEW r \in Runs, AttestSbom(r)
      PROVE  PublisherAlone'
  BY <1>14 DEF AttestSbom
<1>15. ASSUME NEW r \in Runs, PromoteLatest(r)
      PROVE  PublisherAlone'
  BY <1>15 DEF PromoteLatest, Promotes, Made
<1>16. ASSUME NEW r \in Runs, LatestCheck(r)
      PROVE  PublisherAlone'
  BY <1>16 DEF LatestCheck
<1>17. ASSUME NEW r \in Runs, ReleaseEvent(r)
      PROVE  PublisherAlone'
  BY <1>17 DEF ReleaseEvent
<1>18. ASSUME NEW r \in Runs, Abort(r)
      PROVE  PublisherAlone'
  BY <1>18 DEF Abort
<1>19. ASSUME NEW r \in Runs, RerunAll(r)
      PROVE  PublisherAlone'
  BY <1>19 DEF RerunAll
<1>20. ASSUME NEW r \in Runs, RerunFailed(r)
      PROVE  PublisherAlone'
  BY <1>20 DEF RerunFailed, NewAttempt
<1>21. ASSUME NEW t \in Tags, MoveTag(t)
      PROVE  PublisherAlone'
  BY <1>21 DEF MoveTag
<1>22. CASE UNCHANGED rvars
  BY <1>22 DEF rvars
<1> QED BY <1>1, <1>2, <1>3, <1>4, <1>5, <1>6, <1>7, <1>8, <1>9, <1>10, <1>11, <1>12,
           <1>13, <1>14, <1>15, <1>16, <1>17, <1>18, <1>19, <1>20, <1>21, <1>22 DEF
           ReleaseNext, Step

\* A run keeps its event; authorization, build and recheck establish what the
\* later stages rely on, and a new attempt starts before them.
LEMMA ReleasePreparedStep == ReleaseInv /\ [ReleaseNext]_rvars =>
    (\A q \in Runs : PreparedInv(q))'
<1> SUFFICES ASSUME ReleaseInv, [ReleaseNext]_rvars
             PROVE  (\A q \in Runs : PreparedInv(q))'
  OBVIOUS
<1> USE ReleaseAssumption DEF ReleaseInv, ReleaseTypeOK, PreparedInv, Built, Events,
        Candidates, NoEvent, Tag, Sha, ValidTagObject, ApprovedSignature, Publisher,
        Active, Failed, Ended, FailedAt, Goto, Say, Fails, Git, Registry, Before,
        Facts
<1>1. ASSUME NEW r \in Runs, StartWorkflow(r)
      PROVE  (\A q \in Runs : PreparedInv(q))'
  BY <1>1 DEF StartWorkflow, NewAttempt
<1>2. ASSUME NEW r \in Runs, Authorize(r)
      PROVE  (\A q \in Runs : PreparedInv(q))'
  BY <1>2 DEF Authorize
<1>3. ASSUME NEW r \in Runs, Build(r)
      PROVE  (\A q \in Runs : PreparedInv(q))'
  BY <1>3 DEF Build, Candidate
<1>4. ASSUME NEW r \in Runs, StartPublish(r)
      PROVE  (\A q \in Runs : PreparedInv(q))'
  BY <1>4 DEF StartPublish, PublisherFree
<1>5. ASSUME NEW r \in Runs, Recheck(r)
      PROVE  (\A q \in Runs : PreparedInv(q))'
  BY <1>5 DEF Recheck, HandoffValid
<1>6. ASSUME NEW r \in Runs, InspectVersion(r)
      PROVE  (\A q \in Runs : PreparedInv(q))'
  BY <1>6 DEF InspectVersion
<1>7. ASSUME NEW r \in Runs, InspectSource(r)
      PROVE  (\A q \in Runs : PreparedInv(q))'
  BY <1>7, InspectSourceCases
<1>8. ASSUME NEW r \in Runs, Push(r)
      PROVE  (\A q \in Runs : PreparedInv(q))'
  BY <1>8, PushCases
<1>9. ASSUME NEW r \in Runs, Pushed(r)
      PROVE  (\A q \in Runs : PreparedInv(q))'
  BY <1>9 DEF Pushed
<1>10. ASSUME NEW r \in Runs, CopySource(r)
      PROVE  (\A q \in Runs : PreparedInv(q))'
  BY <1>10 DEF CopySource, Made
<1>11. ASSUME NEW r \in Runs, CopyVersion(r)
      PROVE  (\A q \in Runs : PreparedInv(q))'
  BY <1>11 DEF CopyVersion, Made
<1>12. ASSUME NEW r \in Runs, PostSource(r)
      PROVE  (\A q \in Runs : PreparedInv(q))'
  BY <1>12 DEF PostSource
<1>13. ASSUME NEW r \in Runs, AttestProvenance(r)
      PROVE  (\A q \in Runs : PreparedInv(q))'
  BY <1>13 DEF AttestProvenance
<1>14. ASSUME NEW r \in Runs, AttestSbom(r)
      PROVE  (\A q \in Runs : PreparedInv(q))'
  BY <1>14 DEF AttestSbom
<1>15. ASSUME NEW r \in Runs, PromoteLatest(r)
      PROVE  (\A q \in Runs : PreparedInv(q))'
  BY <1>15 DEF PromoteLatest, Promotes, Made
<1>16. ASSUME NEW r \in Runs, LatestCheck(r)
      PROVE  (\A q \in Runs : PreparedInv(q))'
  BY <1>16 DEF LatestCheck
<1>17. ASSUME NEW r \in Runs, ReleaseEvent(r)
      PROVE  (\A q \in Runs : PreparedInv(q))'
  BY <1>17 DEF ReleaseEvent
<1>18. ASSUME NEW r \in Runs, Abort(r)
      PROVE  (\A q \in Runs : PreparedInv(q))'
  BY <1>18 DEF Abort
<1>19. ASSUME NEW r \in Runs, RerunAll(r)
      PROVE  (\A q \in Runs : PreparedInv(q))'
  BY <1>19 DEF RerunAll
<1>20. ASSUME NEW r \in Runs, RerunFailed(r)
      PROVE  (\A q \in Runs : PreparedInv(q))'
  BY <1>20 DEF RerunFailed, NewAttempt
<1>21. ASSUME NEW t \in Tags, MoveTag(t)
      PROVE  (\A q \in Runs : PreparedInv(q))'
  BY <1>21 DEF MoveTag
<1>22. CASE UNCHANGED rvars
  BY <1>22 DEF rvars
<1> QED BY <1>1, <1>2, <1>3, <1>4, <1>5, <1>6, <1>7, <1>8, <1>9, <1>10, <1>11, <1>12,
           <1>13, <1>14, <1>15, <1>16, <1>17, <1>18, <1>19, <1>20, <1>21, <1>22 DEF
           ReleaseNext, Step

\* A publisher's picture of the aliases stays right: only it writes them, and what a
\* run that has ended relies on exists and is never written again.
LEMMA ReleaseAliasStep == ReleaseInv /\ [ReleaseNext]_rvars =>
    (\A q \in Runs : AliasInv(q))'
<1> SUFFICES ASSUME ReleaseInv, [ReleaseNext]_rvars
             PROVE  (\A q \in Runs : AliasInv(q))'
  OBVIOUS
<1> USE ReleaseAssumption, EventTypes DEF ReleaseInv, ReleaseTypeOK, PublisherAlone,
        PreparedInv, AliasInv, Chosen, Identity, Built, Attesting, Tag, Sha, Aliases,
        Digests, Candidates, Publisher, Active, Failed, Ended, FailedAt, Goto, Say,
        Fails, Git, Registry, Before, Facts
<1>1. ASSUME NEW r \in Runs, StartWorkflow(r)
      PROVE  (\A q \in Runs : AliasInv(q))'
  BY <1>1 DEF StartWorkflow, NewAttempt
<1>2. ASSUME NEW r \in Runs, Authorize(r)
      PROVE  (\A q \in Runs : AliasInv(q))'
  BY <1>2 DEF Authorize
<1>3. ASSUME NEW r \in Runs, Build(r)
      PROVE  (\A q \in Runs : AliasInv(q))'
  BY <1>3 DEF Build, Candidate
<1>4. ASSUME NEW r \in Runs, StartPublish(r)
      PROVE  (\A q \in Runs : AliasInv(q))'
  BY <1>4 DEF StartPublish, PublisherFree
<1>5. ASSUME NEW r \in Runs, Recheck(r)
      PROVE  (\A q \in Runs : AliasInv(q))'
  BY <1>5 DEF Recheck, HandoffValid
<1>6. ASSUME NEW r \in Runs, InspectVersion(r)
      PROVE  (\A q \in Runs : AliasInv(q))'
  BY <1>6 DEF InspectVersion
<1>7. ASSUME NEW r \in Runs, InspectSource(r)
      PROVE  (\A q \in Runs : AliasInv(q))'
  BY <1>7, InspectSourceCases
<1>8. ASSUME NEW r \in Runs, Push(r)
      PROVE  (\A q \in Runs : AliasInv(q))'
  BY <1>8, PushCases, SMTT(30)
<1>9. ASSUME NEW r \in Runs, Pushed(r)
      PROVE  (\A q \in Runs : AliasInv(q))'
  BY <1>9 DEF Pushed
<1>10. ASSUME NEW r \in Runs, CopySource(r)
      PROVE  (\A q \in Runs : AliasInv(q))'
  BY <1>10 DEF CopySource, Made
<1>11. ASSUME NEW r \in Runs, CopyVersion(r)
      PROVE  (\A q \in Runs : AliasInv(q))'
  BY <1>11 DEF CopyVersion, Made
<1>12. ASSUME NEW r \in Runs, PostSource(r)
      PROVE  (\A q \in Runs : AliasInv(q))'
  BY <1>12 DEF PostSource
<1>13. ASSUME NEW r \in Runs, AttestProvenance(r)
      PROVE  (\A q \in Runs : AliasInv(q))'
  BY <1>13 DEF AttestProvenance
<1>14. ASSUME NEW r \in Runs, AttestSbom(r)
      PROVE  (\A q \in Runs : AliasInv(q))'
  BY <1>14 DEF AttestSbom
<1>15. ASSUME NEW r \in Runs, PromoteLatest(r)
      PROVE  (\A q \in Runs : AliasInv(q))'
  BY <1>15 DEF PromoteLatest, Promotes, Made
<1>16. ASSUME NEW r \in Runs, LatestCheck(r)
      PROVE  (\A q \in Runs : AliasInv(q))'
  BY <1>16 DEF LatestCheck
<1>17. ASSUME NEW r \in Runs, ReleaseEvent(r)
      PROVE  (\A q \in Runs : AliasInv(q))'
  BY <1>17 DEF ReleaseEvent
<1>18. ASSUME NEW r \in Runs, Abort(r)
      PROVE  (\A q \in Runs : AliasInv(q))'
  BY <1>18 DEF Abort
<1>19. ASSUME NEW r \in Runs, RerunAll(r)
      PROVE  (\A q \in Runs : AliasInv(q))'
  BY <1>19 DEF RerunAll
<1>20. ASSUME NEW r \in Runs, RerunFailed(r)
      PROVE  (\A q \in Runs : AliasInv(q))'
  BY <1>20 DEF RerunFailed, NewAttempt
<1>21. ASSUME NEW t \in Tags, MoveTag(t)
      PROVE  (\A q \in Runs : AliasInv(q))'
  BY <1>21 DEF MoveTag
<1>22. CASE UNCHANGED rvars
  BY <1>22 DEF rvars
<1> QED BY <1>1, <1>2, <1>3, <1>4, <1>5, <1>6, <1>7, <1>8, <1>9, <1>10, <1>11, <1>12,
           <1>13, <1>14, <1>15, <1>16, <1>17, <1>18, <1>19, <1>20, <1>21, <1>22 DEF
           ReleaseNext, Step

\* publication_state is set before each command that it is about.
LEMMA ReleaseReportStep == ReleaseInv /\ [ReleaseNext]_rvars =>
    (\A q \in Runs : ReportInv(q))'
<1> SUFFICES ASSUME ReleaseInv, [ReleaseNext]_rvars
             PROVE  (\A q \in Runs : ReportInv(q))'
  OBVIOUS
<1> USE ReleaseAssumption, EventTypes DEF ReleaseInv, ReleaseTypeOK, PublisherAlone,
        AliasInv, Chosen, ReportInv, Reports, Attesting, Tag, Sha, Aliases, Digests,
        Candidates, Publisher, Active, Failed, Ended, FailedAt, Goto, Say, Fails, Git,
        Registry, Before, Facts
<1>1. ASSUME NEW r \in Runs, StartWorkflow(r)
      PROVE  (\A q \in Runs : ReportInv(q))'
  BY <1>1 DEF StartWorkflow, NewAttempt
<1>2. ASSUME NEW r \in Runs, Authorize(r)
      PROVE  (\A q \in Runs : ReportInv(q))'
  BY <1>2 DEF Authorize
<1>3. ASSUME NEW r \in Runs, Build(r)
      PROVE  (\A q \in Runs : ReportInv(q))'
  BY <1>3 DEF Build, Candidate
<1>4. ASSUME NEW r \in Runs, StartPublish(r)
      PROVE  (\A q \in Runs : ReportInv(q))'
  BY <1>4 DEF StartPublish, PublisherFree
<1>5. ASSUME NEW r \in Runs, Recheck(r)
      PROVE  (\A q \in Runs : ReportInv(q))'
  BY <1>5 DEF Recheck, HandoffValid
<1>6. ASSUME NEW r \in Runs, InspectVersion(r)
      PROVE  (\A q \in Runs : ReportInv(q))'
  BY <1>6 DEF InspectVersion
<1>7. ASSUME NEW r \in Runs, InspectSource(r)
      PROVE  (\A q \in Runs : ReportInv(q))'
  BY <1>7, InspectSourceCases
<1>8. ASSUME NEW r \in Runs, Push(r)
      PROVE  (\A q \in Runs : ReportInv(q))'
  BY <1>8, PushCases, SMTT(30)
<1>9. ASSUME NEW r \in Runs, Pushed(r)
      PROVE  (\A q \in Runs : ReportInv(q))'
  BY <1>9 DEF Pushed
<1>10. ASSUME NEW r \in Runs, CopySource(r)
      PROVE  (\A q \in Runs : ReportInv(q))'
  BY <1>10 DEF CopySource, Made
<1>11. ASSUME NEW r \in Runs, CopyVersion(r)
      PROVE  (\A q \in Runs : ReportInv(q))'
  BY <1>11 DEF CopyVersion, Made
<1>12. ASSUME NEW r \in Runs, PostSource(r)
      PROVE  (\A q \in Runs : ReportInv(q))'
  BY <1>12 DEF PostSource
<1>13. ASSUME NEW r \in Runs, AttestProvenance(r)
      PROVE  (\A q \in Runs : ReportInv(q))'
  BY <1>13 DEF AttestProvenance
<1>14. ASSUME NEW r \in Runs, AttestSbom(r)
      PROVE  (\A q \in Runs : ReportInv(q))'
  BY <1>14 DEF AttestSbom
<1>15. ASSUME NEW r \in Runs, PromoteLatest(r)
      PROVE  (\A q \in Runs : ReportInv(q))'
  BY <1>15 DEF PromoteLatest, Promotes, Made
<1>16. ASSUME NEW r \in Runs, LatestCheck(r)
      PROVE  (\A q \in Runs : ReportInv(q))'
  BY <1>16 DEF LatestCheck
<1>17. ASSUME NEW r \in Runs, ReleaseEvent(r)
      PROVE  (\A q \in Runs : ReportInv(q))'
  BY <1>17 DEF ReleaseEvent
<1>18. ASSUME NEW r \in Runs, Abort(r)
      PROVE  (\A q \in Runs : ReportInv(q))'
  BY <1>18 DEF Abort
<1>19. ASSUME NEW r \in Runs, RerunAll(r)
      PROVE  (\A q \in Runs : ReportInv(q))'
  BY <1>19 DEF RerunAll
<1>20. ASSUME NEW r \in Runs, RerunFailed(r)
      PROVE  (\A q \in Runs : ReportInv(q))'
  BY <1>20 DEF RerunFailed, NewAttempt
<1>21. ASSUME NEW t \in Tags, MoveTag(t)
      PROVE  (\A q \in Runs : ReportInv(q))'
  BY <1>21 DEF MoveTag
<1>22. CASE UNCHANGED rvars
  BY <1>22 DEF rvars
<1> QED BY <1>1, <1>2, <1>3, <1>4, <1>5, <1>6, <1>7, <1>8, <1>9, <1>10, <1>11, <1>12,
           <1>13, <1>14, <1>15, <1>16, <1>17, <1>18, <1>19, <1>20, <1>21, <1>22 DEF
           ReleaseNext, Step

\* An alias is written for the authorized tag and the commit of the event only.
LEMMA ReleaseAuthorizedStep == ReleaseInv /\ [ReleaseNext]_rvars =>
    AliasesAreAuthorized'
<1> SUFFICES ASSUME ReleaseInv, [ReleaseNext]_rvars
             PROVE  AliasesAreAuthorized'
  OBVIOUS
<1> USE ReleaseAssumption, EventTypes DEF ReleaseInv, ReleaseTypeOK, PreparedInv,
        AliasInv, Chosen, Identity, AliasesAreAuthorized, Tag, Sha, Built,
        ValidTagObject, ApprovedSignature, Aliases, Publisher, Active, Failed, Ended,
        FailedAt, Goto, Say, Fails, Git, Registry, Before, Facts
<1>1. ASSUME NEW r \in Runs, StartWorkflow(r)
      PROVE  AliasesAreAuthorized'
  BY <1>1 DEF StartWorkflow, NewAttempt
<1>2. ASSUME NEW r \in Runs, Authorize(r)
      PROVE  AliasesAreAuthorized'
  BY <1>2 DEF Authorize
<1>3. ASSUME NEW r \in Runs, Build(r)
      PROVE  AliasesAreAuthorized'
  BY <1>3 DEF Build, Candidate
<1>4. ASSUME NEW r \in Runs, StartPublish(r)
      PROVE  AliasesAreAuthorized'
  BY <1>4 DEF StartPublish, PublisherFree
<1>5. ASSUME NEW r \in Runs, Recheck(r)
      PROVE  AliasesAreAuthorized'
  BY <1>5 DEF Recheck, HandoffValid
<1>6. ASSUME NEW r \in Runs, InspectVersion(r)
      PROVE  AliasesAreAuthorized'
  BY <1>6 DEF InspectVersion
<1>7. ASSUME NEW r \in Runs, InspectSource(r)
      PROVE  AliasesAreAuthorized'
  BY <1>7, InspectSourceCases
<1>8. ASSUME NEW r \in Runs, Push(r)
      PROVE  AliasesAreAuthorized'
  BY <1>8, PushCases
<1>9. ASSUME NEW r \in Runs, Pushed(r)
      PROVE  AliasesAreAuthorized'
  BY <1>9 DEF Pushed
<1>10. ASSUME NEW r \in Runs, CopySource(r)
      PROVE  AliasesAreAuthorized'
  BY <1>10 DEF CopySource, Made
<1>11. ASSUME NEW r \in Runs, CopyVersion(r)
      PROVE  AliasesAreAuthorized'
  BY <1>11 DEF CopyVersion, Made
<1>12. ASSUME NEW r \in Runs, PostSource(r)
      PROVE  AliasesAreAuthorized'
  BY <1>12 DEF PostSource
<1>13. ASSUME NEW r \in Runs, AttestProvenance(r)
      PROVE  AliasesAreAuthorized'
  BY <1>13 DEF AttestProvenance
<1>14. ASSUME NEW r \in Runs, AttestSbom(r)
      PROVE  AliasesAreAuthorized'
  BY <1>14 DEF AttestSbom
<1>15. ASSUME NEW r \in Runs, PromoteLatest(r)
      PROVE  AliasesAreAuthorized'
  BY <1>15 DEF PromoteLatest, Promotes, Made
<1>16. ASSUME NEW r \in Runs, LatestCheck(r)
      PROVE  AliasesAreAuthorized'
  BY <1>16 DEF LatestCheck
<1>17. ASSUME NEW r \in Runs, ReleaseEvent(r)
      PROVE  AliasesAreAuthorized'
  BY <1>17 DEF ReleaseEvent
<1>18. ASSUME NEW r \in Runs, Abort(r)
      PROVE  AliasesAreAuthorized'
  BY <1>18 DEF Abort
<1>19. ASSUME NEW r \in Runs, RerunAll(r)
      PROVE  AliasesAreAuthorized'
  BY <1>19 DEF RerunAll
<1>20. ASSUME NEW r \in Runs, RerunFailed(r)
      PROVE  AliasesAreAuthorized'
  BY <1>20 DEF RerunFailed, NewAttempt
<1>21. ASSUME NEW t \in Tags, MoveTag(t)
      PROVE  AliasesAreAuthorized'
  BY <1>21 DEF MoveTag
<1>22. CASE UNCHANGED rvars
  BY <1>22 DEF rvars
<1> QED BY <1>1, <1>2, <1>3, <1>4, <1>5, <1>6, <1>7, <1>8, <1>9, <1>10, <1>11, <1>12,
           <1>13, <1>14, <1>15, <1>16, <1>17, <1>18, <1>19, <1>20, <1>21, <1>22 DEF
           ReleaseNext, Step

\* "latest" moves when everything else is published, and nothing it needs is
\* ever taken back.
LEMMA ReleaseLatestStep == ReleaseInv /\ [ReleaseNext]_rvars =>
    LatestIsComplete'
<1> SUFFICES ASSUME ReleaseInv, [ReleaseNext]_rvars
             PROVE  LatestIsComplete'
  OBVIOUS
<1> USE ReleaseAssumption, EventTypes DEF ReleaseInv, ReleaseTypeOK, PreparedInv,
        AliasInv, Chosen, Identity, LatestIsComplete, Tag, Sha, Built, Attesting,
        Aliases, Digests, Publisher, Active, Failed, Ended, FailedAt, Goto, Say,
        Fails, Git, Registry, Before, Facts
<1>1. ASSUME NEW r \in Runs, StartWorkflow(r)
      PROVE  LatestIsComplete'
  BY <1>1 DEF StartWorkflow, NewAttempt
<1>2. ASSUME NEW r \in Runs, Authorize(r)
      PROVE  LatestIsComplete'
  BY <1>2 DEF Authorize
<1>3. ASSUME NEW r \in Runs, Build(r)
      PROVE  LatestIsComplete'
  BY <1>3 DEF Build, Candidate
<1>4. ASSUME NEW r \in Runs, StartPublish(r)
      PROVE  LatestIsComplete'
  BY <1>4 DEF StartPublish, PublisherFree
<1>5. ASSUME NEW r \in Runs, Recheck(r)
      PROVE  LatestIsComplete'
  BY <1>5 DEF Recheck, HandoffValid
<1>6. ASSUME NEW r \in Runs, InspectVersion(r)
      PROVE  LatestIsComplete'
  BY <1>6 DEF InspectVersion
<1>7. ASSUME NEW r \in Runs, InspectSource(r)
      PROVE  LatestIsComplete'
  BY <1>7, InspectSourceCases
<1>8. ASSUME NEW r \in Runs, Push(r)
      PROVE  LatestIsComplete'
  BY <1>8, PushCases DEF Events
<1>9. ASSUME NEW r \in Runs, Pushed(r)
      PROVE  LatestIsComplete'
  BY <1>9 DEF Pushed
<1>10. ASSUME NEW r \in Runs, CopySource(r)
      PROVE  LatestIsComplete'
  BY <1>10 DEF CopySource, Made
<1>11. ASSUME NEW r \in Runs, CopyVersion(r)
      PROVE  LatestIsComplete'
  BY <1>11 DEF CopyVersion, Made, Events
<1>12. ASSUME NEW r \in Runs, PostSource(r)
      PROVE  LatestIsComplete'
  BY <1>12 DEF PostSource
<1>13. ASSUME NEW r \in Runs, AttestProvenance(r)
      PROVE  LatestIsComplete'
  BY <1>13 DEF AttestProvenance
<1>14. ASSUME NEW r \in Runs, AttestSbom(r)
      PROVE  LatestIsComplete'
  BY <1>14 DEF AttestSbom
<1>15. ASSUME NEW r \in Runs, PromoteLatest(r)
      PROVE  LatestIsComplete'
  BY <1>15 DEF PromoteLatest, Promotes, Made, NoEvent, Events, Candidates
<1>16. ASSUME NEW r \in Runs, LatestCheck(r)
      PROVE  LatestIsComplete'
  BY <1>16 DEF LatestCheck
<1>17. ASSUME NEW r \in Runs, ReleaseEvent(r)
      PROVE  LatestIsComplete'
  BY <1>17 DEF ReleaseEvent, NoEvent, Events
<1>18. ASSUME NEW r \in Runs, Abort(r)
      PROVE  LatestIsComplete'
  BY <1>18 DEF Abort
<1>19. ASSUME NEW r \in Runs, RerunAll(r)
      PROVE  LatestIsComplete'
  BY <1>19 DEF RerunAll
<1>20. ASSUME NEW r \in Runs, RerunFailed(r)
      PROVE  LatestIsComplete'
  BY <1>20 DEF RerunFailed, NewAttempt
<1>21. ASSUME NEW t \in Tags, MoveTag(t)
      PROVE  LatestIsComplete'
  BY <1>21 DEF MoveTag
<1>22. CASE UNCHANGED rvars
  BY <1>22 DEF rvars
<1> QED BY <1>1, <1>2, <1>3, <1>4, <1>5, <1>6, <1>7, <1>8, <1>9, <1>10, <1>11, <1>12,
           <1>13, <1>14, <1>15, <1>16, <1>17, <1>18, <1>19, <1>20, <1>21, <1>22 DEF
           ReleaseNext, Step

\* No alias, no run and no attestation yet.
LEMMA ReleaseInitInv == ReleaseInit => ReleaseInv
<1> SUFFICES ASSUME ReleaseInit
             PROVE  ReleaseInv
  OBVIOUS
<1> USE ReleaseAssumption DEF ReleaseInit
<1>1. ReleaseTypeOK
  BY DEF ReleaseTypeOK, Locations, Aliases, NoEvent, NoCandidate, Reports
<1>2. PublisherAlone
  BY DEF PublisherAlone, Publisher
<1>3. ASSUME NEW r \in Runs
      PROVE  PreparedInv(r) /\ AliasInv(r) /\ ReportInv(r)
  BY DEF PreparedInv, AliasInv, ReportInv, Publisher, Built, Attesting, Reports
<1>4. AliasesAreAuthorized /\ LatestIsComplete
  BY DEF AliasesAreAuthorized, LatestIsComplete
<1> QED BY <1>1, <1>2, <1>3, <1>4 DEF ReleaseInv

\* ReleaseInv holds in every state, for any set of runs, tags and commits, and
\* however often tags are moved and jobs are rerun.
THEOREM ReleaseInvariant == ReleaseSpec => []ReleaseInv
<1>1. ReleaseInv /\ [ReleaseNext]_rvars => ReleaseInv'
  BY ReleaseTypeStep, ReleaseAloneStep, ReleasePreparedStep, ReleaseAliasStep,
     ReleaseReportStep, ReleaseAuthorizedStep, ReleaseLatestStep DEF ReleaseInv
<1> QED BY <1>1, ReleaseInitInv, PTL DEF ReleaseSpec

\* A version alias names an image of a commit of main that an approved signer has
\* tagged with that version; a source alias names an image of its own commit.
THEOREM AliasesAreAuthorizedTheorem == ReleaseSpec => []AliasesAreAuthorized
<1>1. ReleaseInv => AliasesAreAuthorized
  BY DEF ReleaseInv
<1> QED BY <1>1, ReleaseInvariant, PTL

\* A run that is done has both aliases at the digest it selected, which is the
\* candidate of its last attempt, and both attestations of it.
THEOREM PublishedIsCompleteTheorem == ReleaseSpec => []PublishedIsComplete
<1>1. ReleaseInv => PublishedIsComplete
  BY DEF ReleaseInv, PublishedIsComplete, PreparedInv, AliasInv, Chosen, Attesting,
         Publisher
<1> QED BY <1>1, ReleaseInvariant, PTL

\* "latest" is a completely published image of an eligible release.
THEOREM LatestIsCompleteTheorem == ReleaseSpec => []LatestIsComplete
<1>1. ReleaseInv => LatestIsComplete
  BY DEF ReleaseInv
<1> QED BY <1>1, ReleaseInvariant, PTL

\* publication_state of a failed publisher says what the registry holds.
THEOREM ReportIsTrueTheorem == ReleaseSpec => []ReportIsTrue
<1>1. ReleaseInv => ReportIsTrue
  BY DEF ReleaseInv, ReportIsTrue, ReportInv
<1> QED BY <1>1, ReleaseInvariant, PTL

\* The only commands that write a version or a source alias.
LEMMA AliasWriters ==
  ASSUME [ReleaseNext]_rvars
  PROVE  \/ \E r \in Runs : Push(r) \/ CopySource(r) \/ CopyVersion(r)
         \/ UNCHANGED <<version, source>>
<1> USE DEF Registry
<1>1. ASSUME NEW r \in Runs,
             \/ StartWorkflow(r) \/ Authorize(r) \/ Build(r) \/ StartPublish(r)
             \/ Recheck(r) \/ InspectVersion(r) \/ InspectSource(r) \/ Pushed(r)
             \/ PostSource(r)
      PROVE  UNCHANGED <<version, source>>
  BY <1>1 DEF StartWorkflow, Authorize, Build, StartPublish, Recheck, InspectVersion,
              InspectSource, Pushed, PostSource
<1>2. ASSUME NEW r \in Runs,
             \/ AttestProvenance(r) \/ AttestSbom(r) \/ PromoteLatest(r) \/ LatestCheck(r)
             \/ ReleaseEvent(r) \/ Abort(r) \/ RerunAll(r) \/ RerunFailed(r)
      PROVE  UNCHANGED <<version, source>>
  BY <1>2 DEF AttestProvenance, AttestSbom, PromoteLatest, LatestCheck, ReleaseEvent,
              Abort, RerunAll, RerunFailed
<1>3. ASSUME NEW t \in Tags, MoveTag(t)
      PROVE  UNCHANGED <<version, source>>
  BY <1>3 DEF MoveTag
<1>4. CASE UNCHANGED rvars
  BY <1>4 DEF rvars
<1> QED BY <1>1, <1>2, <1>3, <1>4 DEF ReleaseNext, Step

\* No step moves or removes an alias that exists: a publisher writes an alias that
\* it saw to be absent, and no other publisher has run since.
THEOREM AliasesNeverMoveTheorem == ReleaseSpec => AliasesNeverMove
<1> DEFINE Kept == /\ \A t \in Tags : version[t] # Absent => version'[t] = version[t]
                   /\ \A c \in Commits : source[c] # Absent => source'[c] = source[c]
<1>1. ReleaseInv /\ [ReleaseNext]_rvars => Kept
  <2> SUFFICES ASSUME ReleaseInv, [ReleaseNext]_rvars
               PROVE  Kept
    OBVIOUS
  <2> USE DEF ReleaseInv, ReleaseTypeOK
  <2>1. ASSUME NEW r \in Runs, Push(r)
        PROVE  Kept
    BY <2>1, PushCases, EventTypes
  <2>2. ASSUME NEW r \in Runs, CopySource(r)
        PROVE  Kept
    BY <2>2, EventTypes DEF CopySource, AliasInv
  <2>3. ASSUME NEW r \in Runs, CopyVersion(r)
        PROVE  Kept
    BY <2>3, EventTypes DEF CopyVersion, AliasInv
  <2> QED BY <2>1, <2>2, <2>3, AliasWriters
<1>2. ReleaseInv /\ [ReleaseNext]_rvars => [Kept]_rvars
  BY <1>1
<1> QED BY <1>2, ReleaseInvariant, PTL DEF ReleaseSpec, AliasesNeverMove
-----------------------------------------------------------------------------
(* The handoff of a candidate *)

\* Where create_candidate and the publish job stand once each of their passes is
\* done, up to the end of the handoff.
Uploaded == {"validate", "loaded"}
Read == Uploaded \cup {"upload"}
Written == Read \cup {"final", "output"}
Hashed == Written \cup {"hash_sbom"}
Copied == Hashed \cup {"lstat_copy", "read_copy", "restat_copy", "hash_archive"}
Described == Copied \cup {"restat_source", "copy"}
Inspected == Described \cup {"lstat_source", "read_source"}
Bounded == Inspected \cup {"inspect"}
Sized == Bounded \cup {"preflight"}
Inventoried == Sized \cup {"lstat_archive"}

\* The manifest that describes the files as they are.
TrueManifest ==
    [archive |-> archive, size |-> archive.size, image |-> archive.image,
     sbom |-> copy, sbomSize |-> copy.size]

\* As long as nobody has changed the files, what each pass has found agrees with
\* the files as they are, and with what the earlier passes have found.
Undisturbed ==
    /\ hpc # "start" => /\ archive \in Archives /\ scan \in Sboms
                        /\ copy \in Sboms \cup {NoFile}
    /\ hpc \in Inventoried => ~stray
    /\ hpc \in Inventoried \ Copied => copy = NoFile
    /\ hpc \in Copied => copy = scan
    /\ hpc \in Sized => seenSize = archive.size
    /\ hpc \in Bounded => archive.defect # "layout"
    /\ hpc \in Inspected => archive.defect = "none"
    /\ identity = NoFile \/ hpc \in Inspected \cup {"rejected"}
    /\ hpc \in Inspected => identity = archive.image
    /\ hpc \in Described => scan.image = identity
    /\ hpc \in {"read_source", "copy", "read_copy", "hash_archive", "hash_sbom"} =>
          expected = scan.size
    /\ hpc \in Hashed => hash = archive
    /\ hpc \in Written => manifest = TrueManifest
    /\ hpc \in Read => output = archive.image
    /\ hpc \in Uploaded => artifact = [archive |-> archive, sbom |-> copy,
                                       manifest |-> manifest, stray |-> stray]

\* The identity that inspect_archive found is the one that the manifest states, and
\* that the build job hands on, unless the manifest was changed in between.
OutputIsIdentity ==
    ~forged => /\ hpc \in {"final", "output"} => manifest.image = identity
               /\ hpc \in Read => output = identity

HandoffInv ==
    /\ changes \in Nat
    /\ forged \in BOOLEAN
    /\ changes = 0 => Undisturbed
    /\ OutputIsIdentity
    /\ HonestCandidateIsAccepted
    /\ LoadedWasExamined

\* Nothing has been looked at.
LEMMA HandoffInitInv == HandoffInit => HandoffInv
<1> SUFFICES ASSUME HandoffInit
             PROVE  HandoffInv
  OBVIOUS
<1>1. Undisturbed
  BY DEF HandoffInit, Undisturbed, Uploaded, Read, Written, Hashed, Copied, Described,
     Inspected, Bounded, Sized, Inventoried
<1>2. OutputIsIdentity /\ HonestCandidateIsAccepted /\ LoadedWasExamined
  BY DEF HandoffInit, OutputIsIdentity, HonestCandidateIsAccepted, LoadedWasExamined,
     Uploaded, Read
<1>3. changes \in Nat /\ forged \in BOOLEAN
  BY DEF HandoffInit
<1> QED BY <1>1, <1>2, <1>3 DEF HandoffInv

\* Every pass keeps the invariant; so does a change of the files, which ends what
\* is claimed of undisturbed ones.
LEMMA HandoffStepInv == HandoffInv /\ [HandoffNext]_hvars => HandoffInv'
<1> SUFFICES ASSUME HandoffInv, [HandoffNext]_hvars
             PROVE  HandoffInv'
  OBVIOUS
<1> USE HandoffAssumption DEF HandoffInv, Undisturbed, HonestCandidateIsAccepted,
        OutputIsIdentity, LoadedWasExamined, TrueManifest, Archives, Sboms, Defects,
        Inputs, Found, Sent, To, Reject, Uploaded, Read, Written, Hashed, Copied,
        Described, Inspected, Bounded, Sized, Inventoried
<1>1. CASE Export
  BY <1>1 DEF Export
<1>2. CASE StartInventory
  BY <1>2 DEF StartInventory
<1>3. CASE LstatArchive
  BY <1>3 DEF LstatArchive
<1>4. CASE Preflight
  BY <1>4 DEF Preflight
<1>5. CASE InspectArchive
  BY <1>5 DEF InspectArchive
<1>6. CASE LstatSource
  BY <1>6 DEF LstatSource, LstatSbom
<1>7. CASE ReadSource
  BY <1>7 DEF ReadSource, ReadSbom, Describes
<1>8. CASE RestatSource
  BY <1>8 DEF RestatSource, LstatSbom
<1>9. CASE CopySbom
  BY <1>9 DEF CopySbom
<1>10. CASE LstatCopy
  BY <1>10 DEF LstatCopy, LstatSbom
<1>11. CASE ReadCopy
  BY <1>11 DEF ReadCopy, ReadSbom, Describes
<1>12. CASE RestatCopy
  BY <1>12 DEF RestatCopy, LstatSbom
<1>13. CASE HashArchive
  BY <1>13 DEF HashArchive
<1>14. CASE WriteManifest
  BY <1>14 DEF WriteManifest
<1>15. CASE FinalInventory
  BY <1>15 DEF FinalInventory
<1>16. CASE ReadOutput
  BY <1>16 DEF ReadOutput
<1>17. CASE Upload
  BY <1>17 DEF Upload
<1>18. CASE Validate
  BY <1>18 DEF Validate, FilesMatch, IdentityMatches, OutputMatches, SubjectMatches
<1>19. CASE Change
  <2>1. changes' \in Nat /\ changes' # 0
    BY <1>19 DEF Change
  <2>2. hpc' = hpc /\ hpc # "loaded" /\ output' = output /\ identity' = identity
    BY <1>19 DEF Change
  <2>3. CASE hpc \in {"final", "output"} /\ forged'
    BY <1>19, <2>1, <2>2, <2>3
  <2>4. CASE ~(hpc \in {"final", "output"} /\ forged')
    <3>1. forged' = forged /\ (manifest' = manifest \/ hpc = "upload")
      BY <1>19, <2>4 DEF Change
    <3> QED BY <2>1, <2>2, <3>1
  <2> QED BY <2>3, <2>4
<1>20. CASE UNCHANGED hvars
  BY <1>20 DEF hvars
<1> QED BY <1>1, <1>2, <1>3, <1>4, <1>5, <1>6, <1>7, <1>8, <1>9, <1>10, <1>11,
           <1>12, <1>13, <1>14, <1>15, <1>16, <1>17, <1>18, <1>19, <1>20
       DEF HandoffNext

\* HandoffInv holds in every state, however often and whenever the files change.
THEOREM HandoffInvariant == HandoffSpec => []HandoffInv
  BY HandoffInitInv, HandoffStepInv, PTL DEF HandoffSpec

\* What the publisher loads, and the SBOM that it attests, are of the image that
\* create_candidate took apart, unless the manifest was changed before the build job
\* read it back.
THEOREM LoadedWasExaminedTheorem == HandoffSpec => []LoadedWasExamined
<1>1. HandoffInv => LoadedWasExamined
  BY DEF HandoffInv
<1> QED BY <1>1, HandoffInvariant, PTL

\* No pass refuses what an earlier pass made of undisturbed files.
THEOREM HonestCandidateIsAcceptedTheorem == HandoffSpec => []HonestCandidateIsAccepted
<1>1. HandoffInv => HonestCandidateIsAccepted
  BY DEF HandoffInv
<1> QED BY <1>1, HandoffInvariant, PTL
=============================================================================
