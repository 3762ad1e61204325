------------------------- MODULE ReleasePublication -------------------------
(***************************************************************************)
(* publish-container.yml and the release scripts it calls.  A published    *)
(* GitHub release starts a workflow run, which qualifies the commit,       *)
(* authenticates the signed tag, builds a candidate image, and promotes it *)
(* in the registry: a version alias and a source alias, which must never   *)
(* move again, two attestations, and at last the alias "latest".           *)
(*                                                                         *)
(* Meanwhile tags are moved, other releases are published, jobs are        *)
(* cancelled and rerun, and commands fail with or without an effect.  The  *)
(* registry is only written by these jobs: it has no conditional write,    *)
(* and the workflow cannot exclude other writers.                          *)
(*                                                                         *)
(* An image is a commit and a build of it: rebuilding may give the same    *)
(* configuration or another one.  Its manifest digest also depends on its  *)
(* form (the compression of the layers), which an OCI archive fixes and a  *)
(* classic one leaves to the push.                                         *)
(***************************************************************************)
EXTENDS Integers, Functions

CONSTANTS
    Runs, Tags, Commits,
    Merged,        \* commits of the main branch
    TagObjects,    \* annotated tags: the name and commit inside, an approved signature
    NoTag,         \* a ref that is absent or not an annotated tag
    Builds, Forms,
    Classic,       \* a classic archive: the form is chosen by the push
    Eligible,      \* whether releases are eligible for latest: no suffix, no prerelease
    Absent,        \* an alias that does not exist
    MaxAttempts,   \* bound on the attempts of all runs together
    MaxMoves       \* bound on the changes of tag refs

ASSUME ReleaseAssumption ==
    /\ TagObjects \subseteq [name: Tags, commit: Commits, approved: BOOLEAN]
    /\ NoTag \notin TagObjects
    /\ Merged \subseteq Commits
    /\ Classic \notin Forms
    /\ Absent \notin [commit: Commits, build: Builds, form: Forms]
    /\ Eligible \subseteq BOOLEAN
    /\ MaxAttempts \in Nat /\ MaxMoves \in Nat

VARIABLES
    ref, moves,                \* the repository's tags
    version, source, latest,   \* the aliases of the registry
    provenance, sbom,          \* digests with an attestation of each kind
    pc,
    event,      \* of each run: tag, commit and eligibility of latest, fixed by the release
    attempt,
    auth,       \* the tag object that was authenticated
    cand,       \* the candidate handed over by the build
    seen,       \* what the publisher saw at the version alias
    selected,   \* selected_digest
    report,     \* publication_state
    made        \* history: aliases that this attempt has written

Digests == [commit: Commits, build: Builds, form: Forms]
Git == <<ref, moves>>
Registry == <<version, source, latest, provenance, sbom>>
rvars == <<Git, Registry, pc, event, attempt, auth, cand, seen, selected, report, made>>

Publisher ==
    {"recheck", "inspect_version", "inspect_source", "push", "pushed", "copy_source", "copy_version", "post_version", "post_source",
     "provenance", "sbom", "latest", "latest_check"}
Active == Publisher \cup {"authorize", "build", "wait"}
Failed == {"failed", "failed_build", "failed_publish"}
Ended == Failed \cup {"done"}

NoEvent == [tag |-> "none"]
NoCandidate == [attempt |-> 0]

ReleaseInit ==
    /\ ref \in [Tags -> TagObjects] /\ moves = 0
    /\ \A t \in Tags : ref[t].name = t
    /\ version = [t \in Tags |-> Absent] /\ source = [c \in Commits |-> Absent]
    /\ latest = Absent /\ provenance = {} /\ sbom = {}
    /\ pc = [r \in Runs |-> "none"] /\ event = [r \in Runs |-> NoEvent]
    /\ attempt = [r \in Runs |-> 0] /\ auth = [r \in Runs |-> NoTag]
    /\ cand = [r \in Runs |-> NoCandidate]
    /\ seen = [r \in Runs |-> Absent]
    /\ selected = [r \in Runs |-> Absent]
    /\ report = [r \in Runs |-> "none"] /\ made = [r \in Runs |-> {}]
-----------------------------------------------------------------------------
Tag(r) == event[r].tag
Sha(r) == event[r].commit

Goto(r, l) == pc' = [pc EXCEPT ![r] = l]
Say(r, s) == report' = [report EXCEPT ![r] = s]
Made(r, a) == made' = [made EXCEPT ![r] = @ \cup {a}]

\* Where a run stands when one of its jobs fails.
FailedAt(l) ==
    IF l \in Publisher \cup {"wait"} THEN "failed_publish"
    ELSE IF l = "build" THEN "failed_build" ELSE "failed"

Fails(r) == Goto(r, FailedAt(pc[r]))

Before == <<event, attempt, auth, cand>>
Facts == <<seen, selected, report, made>>

\* The concurrency group of the workflow: one run of a tag at a time.
TagFree(r) == \A q \in Runs \ {r} : pc[q] \in Active => Tag(q) # Tag(r)

\* Defect: the publisher group is keyed by the tag.
PublisherFreePerTag(r) ==
    \A q \in Runs \ {r} : pc[q] \in Publisher => Tag(q) # Tag(r)

\* The concurrency group of the publish job: one publisher of the package.
PublisherFree(r) == \A q \in Runs \ {r} : pc[q] \notin Publisher
-----------------------------------------------------------------------------
(* The event, the authorization and the build *)

\* A release is published for a tag; the event's commit is the tag's, then.
ReleaseEvent(r) ==
    /\ pc[r] = "none"
    /\ \E t \in Tags, e \in Eligible :
          /\ ref[t] # NoTag
          /\ event' = [event EXCEPT ![r] =
                          [tag |-> t, commit |-> ref[t].commit, eligible |-> e]]
    /\ Goto(r, "queued")
    /\ UNCHANGED <<Git, Registry, attempt, auth, cand, Facts>>

NewAttempt(r) ==
    /\ attempt' = [attempt EXCEPT ![r] = @ + 1]
    /\ selected' = [selected EXCEPT ![r] = Absent]
    /\ report' = [report EXCEPT ![r] = "none"]
    /\ made' = [made EXCEPT ![r] = {}]

StartWorkflow(r) ==
    /\ pc[r] = "queued" /\ TagFree(r)
    /\ Goto(r, "authorize")
    /\ auth' = [auth EXCEPT ![r] = NoTag]
    /\ cand' = [cand EXCEPT ![r] = NoCandidate]
    /\ NewAttempt(r)
    /\ UNCHANGED <<Git, Registry, event, seen>>

\* Defect: the commit is not compared with the event's.
ValidTagObjectAnyCommit(o, t, c) == o.name = t

\* validate_tag_object: the object tags this commit under this very name.
ValidTagObject(o, t, c) == o.name = t /\ o.commit = c

\* verify_release_signature: one good signature, by an approved key.
ApprovedSignature(o) == o.approved

\* The qualification jobs have all passed, the tag's ref is read, and its object
\* is validated.  An object never changes, so only the reading of the ref matters.
Authorize(r) ==
    /\ pc[r] = "authorize"
    /\ auth' = [auth EXCEPT ![r] = ref[Tag(r)]]
    /\ IF /\ auth'[r] # NoTag
          /\ ValidTagObject(auth'[r], Tag(r), Sha(r)) /\ ApprovedSignature(auth'[r])
          /\ Sha(r) \in Merged
       THEN Goto(r, "build") ELSE Fails(r)
    /\ UNCHANGED <<Git, Registry, event, attempt, cand, Facts>>

\* The manifest of create_candidate binds the image to the run's attempt.
Candidate(r, b, f) ==
    [commit |-> Sha(r), build |-> b, form |-> f, attempt |-> attempt[r]]

\* The image is built, tested, scanned and exported.
Build(r) ==
    /\ pc[r] = "build"
    /\ \E b \in Builds, f \in Forms \cup {Classic} :
          cand' = [cand EXCEPT ![r] = Candidate(r, b, f)]
    /\ Goto(r, "wait")
    /\ UNCHANGED <<Git, Registry, event, attempt, auth, Facts>>
-----------------------------------------------------------------------------
(* The publish job up to its first mutation *)

StartPublish(r) ==
    /\ pc[r] = "wait" /\ PublisherFree(r)
    /\ Goto(r, "recheck")
    /\ UNCHANGED <<Git, Registry, Before, Facts>>

\* Defect: an earlier attempt's artifact will do.
HandoffValidAnyAttempt(r) == cand[r].commit = Sha(r)

\* The artifact's manifest names this attempt and commit.
HandoffValid(r) == cand[r].attempt = attempt[r] /\ cand[r].commit = Sha(r)

\* The tag still is the object that was authenticated, and the artifact is valid.
Recheck(r) ==
    /\ pc[r] = "recheck"
    /\ IF ref[Tag(r)] = auth[r] /\ HandoffValid(r)
       THEN Goto(r, "inspect_version") ELSE Fails(r)
    /\ UNCHANGED <<Git, Registry, Before, Facts>>

\* inspect_alias, of the version
InspectVersion(r) ==
    /\ \/ pc[r] = "inspect_version" /\ Goto(r, "inspect_source")
       \/ pc[r] = "post_version" /\ Goto(r, "post_source")
    /\ seen' = [seen EXCEPT ![r] = version[Tag(r)]]
    /\ UNCHANGED <<Git, Registry, Before, selected, report, made>>

\* verify_digest_identity: configuration, layers, and the manifest of an OCI archive.
Identity(r, d) ==
    /\ d.commit = cand[r].commit /\ d.build = cand[r].build
    /\ cand[r].form # Classic => d.form = cand[r].form

\* The source alias is inspected.  Aliases that exist are reused if they agree
\* and are the candidate.
InspectSource(r) ==
    /\ pc[r] = "inspect_source"
    /\ LET here == source[Sha(r)]
           present == {seen[r], here} \ {Absent}
       IN  \/ /\ present = {}
              /\ Goto(r, "push")
              /\ UNCHANGED selected
           \/ \E d \in present :
                 /\ selected' = [selected EXCEPT ![r] = d]
                 /\ IF present # {d} \/ ~Identity(r, d) THEN Fails(r)
                    ELSE Goto(r, IF here = Absent THEN "copy_source"
                                 ELSE IF seen[r] = Absent THEN "copy_version"
                                 ELSE "post_version")
    /\ seen' = [seen EXCEPT ![r] = Absent]
    /\ UNCHANGED <<Git, Registry, Before, report, made>>
-----------------------------------------------------------------------------
(* The mutations.  A command that fails may have had its effect. *)

\* Defect: publication_state is set when docker push has returned.
PushReportLate(r) ==
    /\ pc[r] = "push"
    /\ \/ \E f \in IF cand[r].form = Classic THEN Forms ELSE {cand[r].form} :
             /\ version' = [version EXCEPT ![Tag(r)] =
                               [commit |-> cand[r].commit, build |-> cand[r].build,
                                form |-> f]]
             /\ Made(r, "version")
             /\ \/ Goto(r, "pushed") /\ Say(r, "version_uncertain")
                \/ Fails(r) /\ UNCHANGED report
       \/ Fails(r) /\ UNCHANGED <<version, made, report>>
    /\ UNCHANGED <<Git, source, latest, provenance, sbom, Before, seen, selected>>

Push(r) ==
    /\ pc[r] = "push"
    /\ Say(r, "version_uncertain")
    /\ \/ \E f \in IF cand[r].form = Classic THEN Forms ELSE {cand[r].form} :
             /\ version' = [version EXCEPT ![Tag(r)] =
                               [commit |-> cand[r].commit, build |-> cand[r].build,
                                form |-> f]]
             /\ Made(r, "version")
             /\ Goto(r, "pushed") \/ Fails(r)
       \/ Fails(r) /\ UNCHANGED <<version, made>>
    /\ UNCHANGED <<Git, source, latest, provenance, sbom, Before, seen, selected>>

\* The pushed alias is read back, and what it is gets verified.
Pushed(r) ==
    /\ pc[r] = "pushed"
    /\ version[Tag(r)] # Absent
    /\ selected' = [selected EXCEPT ![r] = version[Tag(r)]]
    /\ Say(r, "version_confirmed")
    /\ IF Identity(r, selected'[r]) THEN Goto(r, "copy_source") ELSE Fails(r)
    /\ UNCHANGED <<Git, Registry, Before, seen, made>>

\* copy_alias
CopySource(r) ==
    /\ pc[r] = "copy_source"
    /\ Say(r, "source_uncertain")
    /\ \/ /\ source' = [source EXCEPT ![Sha(r)] = selected[r]]
          /\ Made(r, "source")
          /\ Goto(r, "post_version") \/ Fails(r)
       \/ Fails(r) /\ UNCHANGED <<source, made>>
    /\ UNCHANGED <<Git, version, latest, provenance, sbom, Before, seen, selected>>

CopyVersion(r) ==
    /\ pc[r] = "copy_version"
    /\ Say(r, "version_copy_uncertain")
    /\ \/ /\ version' = [version EXCEPT ![Tag(r)] = selected[r]]
          /\ Made(r, "version")
          /\ Goto(r, "post_version") \/ Fails(r)
       \/ Fails(r) /\ UNCHANGED <<version, made>>
    /\ UNCHANGED <<Git, source, latest, provenance, sbom, Before, seen, selected>>

\* The postcheck compares both aliases, and verifies the digest once more.
PostSource(r) ==
    /\ pc[r] = "post_source"
    /\ IF seen[r] = selected[r] /\ source[Sha(r)] = selected[r]
       THEN /\ Say(r, "aliases_confirmed")
            /\ IF Identity(r, selected[r]) THEN Goto(r, "provenance") ELSE Fails(r)
       ELSE Fails(r) /\ UNCHANGED report
    /\ seen' = [seen EXCEPT ![r] = Absent]
    /\ UNCHANGED <<Git, Registry, Before, selected, made>>

\* Defect: a failed upload does not fail the job.
AttestProvenanceContinues(r) ==
    /\ pc[r] = "provenance"
    /\ provenance' \in {provenance, provenance \cup {selected[r]}}
    /\ Goto(r, "sbom")
    /\ UNCHANGED <<Git, version, source, latest, sbom, Before, Facts>>

AttestProvenance(r) ==
    /\ pc[r] = "provenance"
    /\ \/ /\ provenance' = provenance \cup {selected[r]}
          /\ Goto(r, "sbom") \/ Fails(r)
       \/ Fails(r) /\ UNCHANGED provenance
    /\ UNCHANGED <<Git, version, source, latest, sbom, Before, Facts>>

AttestSbom(r) ==
    /\ pc[r] = "sbom"
    /\ \/ /\ sbom' = sbom \cup {selected[r]}
          /\ Goto(r, "latest") \/ Fails(r)
       \/ Fails(r) /\ UNCHANGED sbom
    /\ UNCHANGED <<Git, version, source, latest, provenance, Before, Facts>>

\* PUBLISH_LATEST
Promotes(r) == event[r].eligible

PromoteLatest(r) ==
    /\ pc[r] = "latest"
    /\ IF ~Promotes(r)
       THEN Goto(r, "done") /\ UNCHANGED <<latest, report, made>>
       ELSE /\ Say(r, "latest_uncertain")
            /\ \/ /\ latest' = selected[r]
                  /\ Made(r, "latest")
                  /\ Goto(r, "latest_check") \/ Fails(r)
               \/ Fails(r) /\ UNCHANGED <<latest, made>>
    /\ UNCHANGED <<Git, version, source, provenance, sbom, Before, seen, selected>>

LatestCheck(r) ==
    /\ pc[r] = "latest_check"
    /\ IF latest = selected[r] THEN Goto(r, "done") ELSE Fails(r)
    /\ UNCHANGED <<Git, Registry, Before, Facts>>
-----------------------------------------------------------------------------
(* Failures, reruns, and the repository *)

\* A job is cancelled or runs out of time, a check fails, or the registry's
\* answer is ambiguous.
Abort(r) ==
    /\ pc[r] \in Active \cup {"queued"}
    /\ Fails(r)
    /\ seen' = [seen EXCEPT ![r] = Absent]
    /\ UNCHANGED <<Git, Registry, Before, selected, report, made>>

MayRerun == FoldFunction(+, 0, attempt) < MaxAttempts

\* "Re-run all jobs" and "Re-run failed jobs": the latter keeps the outputs of
\* the jobs that have succeeded.
RerunAll(r) ==
    /\ pc[r] \in Ended /\ MayRerun
    /\ Goto(r, "queued")
    /\ UNCHANGED <<Git, Registry, Before, Facts>>

RerunFailed(r) ==
    /\ pc[r] \in {"failed_build", "failed_publish"}
    /\ MayRerun /\ TagFree(r)
    /\ Goto(r, IF pc[r] = "failed_build" THEN "build" ELSE "wait")
    /\ NewAttempt(r)
    /\ UNCHANGED <<Git, Registry, event, auth, cand, seen>>

MoveTag(t) ==
    /\ moves < MaxMoves
    /\ moves' = moves + 1
    /\ \E o \in TagObjects \cup {NoTag} : ref' = [ref EXCEPT ![t] = o]
    /\ UNCHANGED <<Registry, Before, pc, Facts>>

Step(r) ==
    \/ StartWorkflow(r) \/ Authorize(r) \/ Build(r)
    \/ StartPublish(r) \/ Recheck(r) \/ InspectVersion(r) \/ InspectSource(r)
    \/ Push(r) \/ Pushed(r) \/ CopySource(r) \/ CopyVersion(r) \/ PostSource(r)
    \/ AttestProvenance(r) \/ AttestSbom(r) \/ PromoteLatest(r) \/ LatestCheck(r)

ReleaseNext ==
    \/ \E r \in Runs : Step(r) \/ ReleaseEvent(r) \/ Abort(r) \/ RerunAll(r) \/ RerunFailed(r)
    \/ \E t \in Tags : MoveTag(t)

ReleaseSpec == ReleaseInit /\ [][ReleaseNext]_rvars

-----------------------------------------------------------------------------
\* A version alias names an image of a commit that an approved signer tagged with
\* that very version and that is part of main, although tags are moved between
\* the event, the authorization and the publication; a source alias names an
\* image of its own commit.
AliasesAreAuthorized ==
    /\ \A t \in Tags : version[t] # Absent =>
          /\ version[t].commit \in Merged
          /\ \E o \in TagObjects : o.name = t /\ o.commit = version[t].commit /\ o.approved
    /\ \A c \in Commits : source[c] # Absent => source[c].commit = c

\* No run, rerun or race of two releases ever moves a version or source alias
\* that exists, or removes it.
AliasesNeverMove ==
    [][/\ \A t \in Tags : version[t] # Absent => version'[t] = version[t]
       /\ \A c \in Commits : source[c] # Absent => source'[c] = source[c]]_rvars

\* A run that succeeds leaves both aliases at one digest, which is the candidate
\* that this attempt tested, with both attestations.
PublishedIsComplete ==
    \A r \in Runs : pc[r] = "done" =>
        /\ version[Tag(r)] = selected[r] /\ source[Sha(r)] = selected[r]
        /\ Identity(r, selected[r]) /\ cand[r].attempt = attempt[r]
        /\ selected[r] \in provenance \cap sbom

\* "latest" is only ever a completely published image of a release that is
\* eligible: both of its immutable aliases and both attestations exist.
LatestIsComplete ==
    latest # Absent =>
        /\ latest \in provenance \cap sbom
        /\ source[latest.commit] = latest
        /\ \E r \in Runs : event[r] # NoEvent /\ event[r].eligible /\ version[Tag(r)] = latest

\* What a failed publisher says of the registry is so, also when the command
\* that failed had its effect: that it changed nothing, or which aliases stand.
ReportIsTrue ==
    \A r \in Runs : pc[r] = "failed_publish" =>
        /\ report[r] = "none" => made[r] = {}
        /\ report[r] \in {"version_confirmed", "source_uncertain"} =>
              version[Tag(r)] = selected[r]
        /\ report[r] = "version_copy_uncertain" => source[Sha(r)] = selected[r]
        /\ report[r] \in {"aliases_confirmed", "latest_uncertain"} =>
              version[Tag(r)] = selected[r] /\ source[Sha(r)] = selected[r]
        /\ "latest" \in made[r] => report[r] = "latest_uncertain"
=============================================================================
