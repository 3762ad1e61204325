-------------------------- MODULE CandidateHandoff --------------------------
(***************************************************************************)
(* The handoff of a release candidate.  create_candidate of                *)
(* release_candidate.py looks at the image archive and at the SBOM several *)
(* times, each time by name, and writes a manifest that states the         *)
(* identity of the image and the hashes of both files.  The build job then *)
(* reads the identity from the manifest and hands it on as its output,     *)
(* apart from the three files, which are uploaded.  The publish job        *)
(* validates what it has downloaded against itself and against that output *)
(* before it loads the image.                                              *)
(*                                                                         *)
(* Meanwhile the files change on the build runner: a file that was         *)
(* inspected need not be the one that is hashed, copied or uploaded.  A    *)
(* file is its content; a hash is equal if and only if the content is.     *)
(***************************************************************************)
EXTENDS Integers

CONSTANTS
    Images,       \* image identities: the configuration, which names the layers
    Sizes,        \* sizes of files
    NoFile,       \* nothing there, or no regular file with a single link
    MaxChanges    \* bound on the changes made by others

\* What is wrong with an archive: nothing, the shape of the tar file, or what is in it.
Defects == {"none", "layout", "content"}

Archives == [image: Images, size: Sizes, defect: Defects]
Sboms == [image: Images, size: Sizes]

ASSUME HandoffAssumption ==
    /\ NoFile \notin Archives \cup Sboms
    /\ Sizes \subseteq Nat /\ MaxChanges \in Nat

VARIABLES
    archive,     \* release-candidate.tar
    copy,        \* the SBOM in the handoff directory
    manifest,    \* candidate-manifest.json
    stray,       \* another file is in the directory
    scan,        \* the SBOM that the scanner wrote
    changes,
    hpc,
    seenSize,    \* archive_info.st_size
    identity,    \* archive_identity
    expected,    \* the size of the SBOM that the next read must have
    hash,        \* of the archive
    output,      \* config_digest, the output of the build job
    artifact,    \* what was uploaded
    forged       \* history: the manifest was changed before output was taken from it

Inputs == <<archive, copy, stray, scan, changes, forged>>
Found == <<seenSize, identity, expected, hash>>
Sent == <<output, artifact>>
hvars == <<Inputs, manifest, hpc, Found, Sent>>

HandoffInit ==
    /\ archive = NoFile /\ scan = NoFile /\ copy = NoFile
    /\ manifest = NoFile /\ stray = FALSE /\ changes = 0
    /\ hpc = "start"
    /\ seenSize = 0 /\ identity = NoFile /\ expected = 0 /\ hash = NoFile
    /\ output = NoFile /\ artifact = NoFile /\ forged = FALSE

To(l) == hpc' = l
Reject == To("rejected")

\* The image is exported, and the scanner writes its SBOM; the directory may also
\* hold what it should not.
Export ==
    /\ hpc = "start"
    /\ archive' \in Archives /\ scan' \in Sboms
    /\ copy' \in Sboms \cup {NoFile} /\ stray' \in BOOLEAN
    /\ To("inventory")
    /\ UNCHANGED <<changes, forged, manifest, Found, Sent>>
-----------------------------------------------------------------------------
(* create_candidate *)

StartInventory ==
    /\ hpc = "inventory"
    /\ IF archive # NoFile /\ copy = NoFile /\ ~stray
       THEN To("lstat_archive") ELSE Reject
    /\ UNCHANGED <<Inputs, manifest, Found, Sent>>

LstatArchive ==
    /\ hpc = "lstat_archive"
    /\ IF archive = NoFile
       THEN Reject /\ UNCHANGED seenSize
       ELSE To("preflight") /\ seenSize' = archive.size
    /\ UNCHANGED <<Inputs, manifest, identity, expected, hash, Sent>>

\* _preflight_archive bounds the archive before tarfile, which opens it again.
Preflight ==
    /\ hpc = "preflight"
    /\ IF archive # NoFile /\ archive.defect # "layout" THEN To("inspect") ELSE Reject
    /\ UNCHANGED <<Inputs, manifest, Found, Sent>>

\* inspect_archive: the digests are computed from the bytes, so a parsed archive
\* is the image it claims to be.  A member, a link, a layer or a digest that should
\* not be there or is wrong is refused.
InspectArchive ==
    /\ hpc = "inspect"
    /\ IF archive = NoFile \/ archive.defect = "content"
       THEN Reject /\ UNCHANGED identity
       ELSE To("lstat_source") /\ identity' = archive.image
    /\ UNCHANGED <<Inputs, manifest, seenSize, expected, hash, Sent>>

\* The file that is read at l, and the size it gets: the lstat of _read_json and
\* of _regular_file.
LstatSbom(at, file, next) ==
    /\ hpc = at
    /\ IF file = NoFile
       THEN Reject /\ UNCHANGED expected
       ELSE To(next) /\ expected' = file.size
    /\ UNCHANGED <<Inputs, manifest, seenSize, identity, hash, Sent>>

\* validate_spdx
Describes(s, image) == s.image = image

\* The read of _read_json, and validate_spdx.
ReadSbom(at, file, next) ==
    /\ hpc = at
    /\ IF file # NoFile /\ file.size = expected /\ Describes(file, identity)
       THEN To(next) ELSE Reject
    /\ UNCHANGED <<Inputs, manifest, Found, Sent>>

LstatSource == LstatSbom("lstat_source", scan, "read_source")
ReadSource == ReadSbom("read_source", scan, "restat_source")
RestatSource == LstatSbom("restat_source", scan, "copy")

\* _copy_exclusive
CopySbom ==
    /\ hpc = "copy"
    /\ IF copy = NoFile /\ scan # NoFile /\ scan.size = expected
       THEN To("lstat_copy") /\ copy' = scan
       ELSE Reject /\ UNCHANGED copy
    /\ UNCHANGED <<archive, stray, scan, changes, forged, manifest, Found, Sent>>

LstatCopy == LstatSbom("lstat_copy", copy, "read_copy")
ReadCopy == ReadSbom("read_copy", copy, "restat_copy")
RestatCopy == LstatSbom("restat_copy", copy, "hash_archive")

\* _sha256
HashArchive ==
    /\ hpc = "hash_archive"
    /\ IF archive # NoFile /\ archive.size = seenSize
       THEN To("hash_sbom") /\ hash' = archive
       ELSE Reject /\ UNCHANGED hash
    /\ UNCHANGED <<Inputs, manifest, seenSize, identity, expected, Sent>>

\* Defect: the manifest states the identity of the archive that was hashed.
WriteManifestOfHashed ==
    /\ hpc = "hash_sbom"
    /\ IF copy # NoFile /\ copy.size = expected
       THEN /\ manifest' = [archive |-> hash, size |-> seenSize, image |-> hash.image,
                            sbom |-> copy, sbomSize |-> expected]
            /\ To("final")
       ELSE Reject /\ UNCHANGED manifest
    /\ UNCHANGED <<Inputs, Found, Sent>>

\* The SBOM is hashed, and the manifest is written to a new file.
WriteManifest ==
    /\ hpc = "hash_sbom"
    /\ IF copy # NoFile /\ copy.size = expected
       THEN /\ manifest' = [archive |-> hash, size |-> seenSize, image |-> identity,
                            sbom |-> copy, sbomSize |-> expected]
            /\ To("final")
       ELSE Reject /\ UNCHANGED manifest
    /\ UNCHANGED <<Inputs, Found, Sent>>

\* Defect: the SBOM is missing in the expected inventory.
FinalInventoryWithoutSbom ==
    /\ hpc = "final"
    /\ IF archive # NoFile /\ copy = NoFile /\ ~stray THEN To("output") ELSE Reject
    /\ UNCHANGED <<Inputs, manifest, Found, Sent>>

FinalInventory ==
    /\ hpc = "final"
    /\ IF archive # NoFile /\ copy # NoFile /\ ~stray THEN To("output") ELSE Reject
    /\ UNCHANGED <<Inputs, manifest, Found, Sent>>

\* "Finalize verified release candidate": the manifest is read back.
ReadOutput ==
    /\ hpc = "output"
    /\ output' = manifest.image
    /\ To("upload")
    /\ UNCHANGED <<Inputs, manifest, Found, artifact>>

\* The directory is uploaded as it is now.  The artifact's own digest, checked
\* by the download, makes sure that it arrives unchanged.
Upload ==
    /\ hpc = "upload"
    /\ artifact' = [archive |-> archive, sbom |-> copy, manifest |-> manifest,
                    stray |-> stray]
    /\ To("validate")
    /\ UNCHANGED <<Inputs, manifest, Found, output>>
-----------------------------------------------------------------------------
(* The publish job: "Validate candidate handoff independently" *)

\* validate_file, of both files.
FilesMatch(a) ==
    /\ a.archive.size = a.manifest.size /\ a.archive = a.manifest.archive
    /\ a.sbom.size = a.manifest.sbomSize /\ a.sbom = a.manifest.sbom

\* inspect_archive once more, against the manifest.
IdentityMatches(a) == a.archive.defect = "none" /\ a.archive.image = a.manifest.image

\* The output of the build job, TESTED_CONFIG_DIGEST.
OutputMatches(a) == a.manifest.image = output

\* The publisher's own validate_spdx, with the identity of the archive's bytes.
SubjectMatches(a) == a.sbom.image = a.archive.image

Validate ==
    /\ hpc = "validate"
    /\ IF /\ artifact.archive # NoFile /\ artifact.sbom # NoFile /\ ~artifact.stray
          /\ FilesMatch(artifact)
          /\ IdentityMatches(artifact) /\ OutputMatches(artifact)
          /\ SubjectMatches(artifact)
       THEN To("loaded") ELSE Reject
    /\ UNCHANGED <<Inputs, manifest, Found, Sent>>
-----------------------------------------------------------------------------
\* A manifest that somebody else made, of any two files.
Forge ==
    \E a \in Archives, i \in Images, s \in Sboms :
        manifest' = [archive |-> a, size |-> a.size, image |-> i,
                     sbom |-> s, sbomSize |-> s.size]

\* Something else writes to the build runner's files.
Change ==
    /\ hpc \notin {"start", "validate", "loaded", "rejected"} /\ changes < MaxChanges
    /\ changes' = changes + 1
    /\ \/ archive' \in Archives \cup {NoFile} /\ UNCHANGED <<copy, stray, scan, forged, manifest>>
       \/ copy' \in Sboms \cup {NoFile} /\ UNCHANGED <<archive, stray, scan, forged, manifest>>
       \/ scan' \in Sboms \cup {NoFile} /\ UNCHANGED <<archive, copy, stray, forged, manifest>>
       \/ stray' = ~stray /\ UNCHANGED <<archive, copy, scan, forged, manifest>>
       \/ /\ hpc \in {"final", "output", "upload"} /\ Forge
          /\ forged' = (forged \/ hpc # "upload")
          /\ UNCHANGED <<archive, copy, stray, scan>>
    /\ UNCHANGED <<hpc, Found, Sent>>

HandoffNext ==
    \/ Export \/ StartInventory \/ LstatArchive \/ Preflight \/ InspectArchive
    \/ LstatSource \/ ReadSource \/ RestatSource \/ CopySbom
    \/ LstatCopy \/ ReadCopy \/ RestatCopy
    \/ HashArchive \/ WriteManifest \/ FinalInventory \/ ReadOutput \/ Upload \/ Validate
    \/ Change

HandoffSpec == HandoffInit /\ [][HandoffNext]_hvars
-----------------------------------------------------------------------------
\* The image that the publisher loads and the SBOM that it will attest are of the very
\* image that create_candidate took apart, although every file may change between two
\* looks at it and on its way to the upload.  What nothing protects is the manifest
\* until the build job has read it back: one that was changed before that decides what
\* is published, and then the three still belong together.
LoadedWasExamined ==
    hpc = "loaded" =>
        /\ artifact.archive.image = output /\ artifact.sbom.image = output
        /\ ~forged => output = identity

\* A candidate is refused for a reason: no pass of create_candidate or of the
\* publish job refuses what an earlier pass made.  If the directory held just a
\* well-formed archive, the SBOM describes its image and nobody disturbed the
\* files, the candidate is accepted.
HonestCandidateIsAccepted ==
    hpc = "rejected" /\ changes = 0 =>
        \/ stray \/ archive.defect # "none"
        \/ scan.image # archive.image
        \/ copy # NoFile /\ identity = NoFile
=============================================================================
