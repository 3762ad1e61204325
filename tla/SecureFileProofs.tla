-------------------------- MODULE SecureFileProofs --------------------------
(***************************************************************************)
(* FileInv is an invariant of open_secure_file and snapshot_known_hosts,   *)
(* for any number of files and inode numbers and however often other       *)
(* processes rename, recreate and change the files.                        *)
(***************************************************************************)
EXTENDS SecureFile, TLAPS

\* The invariant holds before the file is looked at.
LEMMA FileInitInv == Init => FileInv
<1> SUFFICES ASSUME Init
             PROVE  FileInv
  OBVIOUS
<1>1. {nofollow, json, directory, failed, told} \subseteq BOOLEAN
  BY DEF Init
<1> QED BY <1>1, FilesAssumption DEF Init, FileInv, FileTypeOK, Locations, Accepted,
           Opened, Names, NoInode, Direct, Distinct, CopyAccountedFor

\* Every step of the code and of the other processes keeps the invariant.  The
\* argument turns on LstatAfter: a file with the number that was looked at, and a
\* name that is no link and has that number now, can only be the open file,
\* because an open file keeps its number and numbers are distinct.
LEMMA FileStepInv == FileInv /\ [Next]_fvars => FileInv'
<1> SUFFICES ASSUME FileInv, [Next]_fvars
             PROVE  FileInv'
  OBVIOUS
<1> USE FilesAssumption DEF FileInv, FileTypeOK, Locations, Accepted, Opened, Names,
        NoInode, Direct, Disk, Call, Opening, Removal, Distinct, CopyAccountedFor
<1>1. CASE Rebind
  BY <1>1 DEF Rebind, Change
<1>2. CASE LstatBefore
  BY <1>2 DEF LstatBefore, Refuse
<1>3. CASE StartNoFollow
  BY <1>3 DEF StartNoFollow
<1>4. CASE Open
  BY <1>4 DEF Open, CanOpen
<1>5. CASE OpenFails
  BY <1>5 DEF OpenFails, Refuse
<1>6. CASE Interrupted
  BY <1>6 DEF Interrupted, Refuse
<1>7. CASE Fstat
  BY <1>7 DEF Fstat, Refuse
<1>8. CASE LstatAfter
  BY <1>8 DEF LstatAfter, Refuse, SameFile
<1>9. CASE CheckMetadata
  BY <1>9 DEF CheckMetadata, Refuse
<1>10. CASE Fdopen
  BY <1>10 DEF Fdopen
<1>11. CASE Read
  BY <1>11 DEF Read
<1>12. CASE Mkdtemp
  <2>1. {nofollow', json', directory', failed', told'} \subseteq BOOLEAN
    BY <1>12, Zenon DEF Mkdtemp
  <2> QED BY <1>12, <2>1 DEF Mkdtemp
<1>13. CASE WriteSnapshot
  <2>1. {nofollow', json', directory', failed', told'} \subseteq BOOLEAN
    BY <1>13, Zenon DEF WriteSnapshot
  <2> QED BY <1>13, <2>1 DEF WriteSnapshot
<1>14. CASE Session
  BY <1>14 DEF Session
<1>15. CASE Remove
  BY <1>15 DEF Remove
<1>16. ASSUME NEW f \in Files, Chmod(f)
       PROVE  FileInv'
  BY <1>16 DEF Chmod, Change
<1>17. ASSUME NEW f \in Files, Recreate(f)
       PROVE  FileInv'
  BY <1>17 DEF Recreate, Change
<1>18. CASE UNCHANGED fvars
  BY <1>18 DEF fvars
<1> QED BY <1>1, <1>2, <1>3, <1>4, <1>5, <1>6, <1>7, <1>8, <1>9, <1>10, <1>11, <1>12,
           <1>13, <1>14, <1>15, <1>16, <1>17, <1>18
       DEF Next

\* FileInv holds in every state.
THEOREM FileInvariant == FileSpec => []FileInv
  BY FileInitInv, FileStepInv, PTL DEF FileSpec

\* What is read was a regular file of a trusted owner, and is the file that the
\* descriptor was checked on.
THEOREM FileReadIsTrusted == FileSpec => []ReadIsTrusted
<1>1. FileInv => ReadIsTrusted
  BY DEF FileInv, ReadIsTrusted, Accepted, Opened
<1> QED BY <1>1, FileInvariant, PTL

\* With O_NOFOLLOW or with the two lstat calls alike, the configured name itself
\* was the file that is read.
THEOREM FileNeverThroughLink == FileSpec => []NeverThroughLink
<1>1. FileInv => NeverThroughLink
  BY DEF FileInv, NeverThroughLink
<1> QED BY <1>1, FileInvariant, PTL

\* On every way out the descriptor is closed, the session's error is the one that is
\* raised, and a copy that stays behind is mentioned unless JSON mode discards the
\* warning of a session that had failed already.
THEOREM FileCleanupIsAccountedFor == FileSpec => []CleanupIsAccountedFor
<1>1. FileInv => CleanupIsAccountedFor
  BY DEF FileInv, CleanupIsAccountedFor, Opened
<1> QED BY <1>1, FileInvariant, PTL
=============================================================================
