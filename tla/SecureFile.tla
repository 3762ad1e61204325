----------------------------- MODULE SecureFile -----------------------------
(***************************************************************************)
(* open_secure_file of secure_file.py, and its longest caller,             *)
(* snapshot_known_hosts of aruba_cert_renewer.py: the file that holds the  *)
(* trusted SSH host keys is opened safely, copied into a private directory *)
(* for the time of one SSH session, and the copy is removed.               *)
(*                                                                         *)
(* Meanwhile other processes rename files and links over the configured    *)
(* name, change owners and modes, and delete files whose inode numbers are *)
(* then used again.  Where the platform has O_NOFOLLOW a final link is     *)
(* refused by the kernel; elsewhere the code compares an lstat before the  *)
(* open and one after it with the descriptor.                              *)
(***************************************************************************)
EXTENDS Integers

CONSTANTS
    Files,       \* file objects
    NoFile,      \* no file
    Inodes,      \* inode numbers
    MaxChanges   \* bound on what other processes do during a call

ASSUME FilesAssumption ==
    /\ NoFile \notin Files
    /\ Inodes \subseteq Nat \ {0}
    /\ MaxChanges \in Nat

VARIABLES
    nofollow,    \* the platform has O_NOFOLLOW
    json,        \* --output json: json_main disables logging and discards stderr
    name,        \* what the path is: [to |-> a file or NoFile, link |-> BOOLEAN]
    ino,         \* inode number of each file
    regular,     \* of each file: a regular file
    trusted,     \* of each file: owned by root or this user, not writable by others
    changes,
    pc,
    fd,          \* the file object that is open, or NoFile
    before,      \* st_ino of the lstat before the open
    opened,      \* the fstat result: inode number, regular, trusted
    directory,   \* the temporary directory exists
    failed,      \* an exception of the body, on its way through the finally clause
    result,      \* "none", "ok", or the exception that the caller gets
    told,        \* a failed removal was raised, or its warning came out
    bound        \* history: files the name itself was, at or after the open

Disk == <<name, ino, regular, trusted, changes>>
Call == <<pc, fd, before, opened, result>>
fvars == <<nofollow, json, Disk, Call, directory, failed, told, bound>>

Names == [to: Files \cup {NoFile}, link: BOOLEAN]
Status == [ino: Inodes, regular: BOOLEAN, trusted: BOOLEAN]
NoInode == 0

\* Two files that exist never have the same number.
Distinct(n) == \A f, g \in Files : f # g => n[f] # n[g]

Init ==
    /\ nofollow \in BOOLEAN /\ json \in BOOLEAN
    /\ name \in Names
    /\ ino \in {n \in [Files -> Inodes] : Distinct(n)}
    /\ regular \in [Files -> BOOLEAN] /\ trusted \in [Files -> BOOLEAN]
    /\ changes = 0
    /\ pc = "start" /\ fd = NoFile /\ before = NoInode
    /\ opened = [ino |-> NoInode, regular |-> FALSE, trusted |-> FALSE]
    /\ directory = FALSE /\ failed = FALSE /\ told = FALSE /\ result = "none"
    /\ bound = {}
-----------------------------------------------------------------------------
(* The other processes *)

Direct == IF name.link \/ name.to = NoFile THEN {} ELSE {name.to}

Change ==
    /\ pc # "done" /\ changes < MaxChanges
    /\ changes' = changes + 1
    /\ UNCHANGED <<nofollow, json, Call, directory, failed, told>>

\* rename, unlink or symlink at the configured path.
Rebind ==
    /\ Change
    /\ name' \in Names
    /\ bound' = IF fd # NoFile /\ ~name'.link /\ name'.to # NoFile
                THEN bound \cup {name'.to} ELSE bound
    /\ UNCHANGED <<ino, regular, trusted>>

\* chmod or chown.
Chmod(f) ==
    /\ Change
    /\ trusted' = [trusted EXCEPT ![f] = ~@]
    /\ UNCHANGED <<name, ino, regular, bound>>

\* A file that nothing holds is deleted, and a new one takes its place, perhaps
\* with the number of another deleted file.
Recreate(f) ==
    /\ Change
    /\ name.to # f /\ fd # f
    /\ \E n \in Inodes : /\ ino' = [ino EXCEPT ![f] = n]
                         /\ Distinct(ino')
    /\ \E r, t \in BOOLEAN : /\ regular' = [regular EXCEPT ![f] = r]
                             /\ trusted' = [trusted EXCEPT ![f] = t]
    /\ UNCHANGED <<name, bound>>
-----------------------------------------------------------------------------
(* open_secure_file *)

\* Every exception after the open closes the descriptor.
Refuse ==
    /\ pc' = "done" /\ result' = "refused"
    /\ fd' = NoFile

Opening == <<Disk, nofollow, json, directory, failed, told>>

\* _lstat_for_fallback, on a platform without O_NOFOLLOW: a link or anything
\* but a regular file is refused, and so is a name that lstat cannot inspect.
LstatBefore ==
    /\ pc = "start" /\ ~nofollow
    /\ \/ /\ name.to \in Files /\ ~name.link /\ regular[name.to]
          /\ before' = ino[name.to]
          /\ pc' = "open"
          /\ UNCHANGED <<fd, result>>
       \/ /\ Refuse
          /\ UNCHANGED before
    /\ UNCHANGED <<Opening, opened, bound>>

StartNoFollow ==
    /\ pc = "start" /\ nofollow
    /\ pc' = "open"
    /\ UNCHANGED <<Opening, fd, before, opened, result, bound>>

\* What os.open can open.
CanOpen == name.to \in Files /\ ~(nofollow /\ name.link)

Open ==
    /\ pc = "open" /\ CanOpen
    /\ fd' = name.to
    /\ bound' = Direct
    /\ pc' = "fstat"
    /\ UNCHANGED <<Opening, before, opened, result>>

\* ELOOP, ENOENT, EACCES: the error is classified and raised.
OpenFails ==
    /\ pc = "open"
    /\ Refuse
    /\ UNCHANGED <<Opening, before, opened, bound>>

\* An OSError of fstat, lstat or fdopen, or an exception such as an interrupt.
Interrupted ==
    /\ pc \in {"fstat", "after", "check", "fdopen"}
    /\ Refuse
    /\ UNCHANGED <<Opening, before, opened, bound>>

Fstat ==
    /\ pc = "fstat"
    /\ opened' = [ino |-> ino[fd], regular |-> regular[fd], trusted |-> trusted[fd]]
    /\ IF ~regular[fd]
       THEN Refuse
       ELSE /\ pc' = IF nofollow THEN "check" ELSE "after"
            /\ UNCHANGED <<fd, result>>
    /\ UNCHANGED <<Opening, before, bound>>

\* Defect: the descriptor is compared with the first lstat only.
SameFileOnceOnly == opened.ino = before

\* The name still is the file that was looked at and opened.
SameFile ==
    /\ name.to \in Files /\ ~name.link
    /\ ino[name.to] = before
    /\ opened.ino = before

LstatAfter ==
    /\ pc = "after"
    /\ IF SameFile
       THEN pc' = "check" /\ UNCHANGED <<fd, result>>
       ELSE Refuse
    /\ UNCHANGED <<Opening, before, opened, bound>>

\* Defect: the mode is looked up again by name.
CheckMetadataByName ==
    /\ pc = "check"
    /\ IF name.to \in Files /\ trusted[name.to]
       THEN pc' = "fdopen" /\ UNCHANGED <<fd, result>>
       ELSE Refuse
    /\ UNCHANGED <<Opening, before, opened, bound>>

\* _check_opened_metadata
CheckMetadata ==
    /\ pc = "check"
    /\ IF opened.regular /\ opened.trusted
       THEN pc' = "fdopen" /\ UNCHANGED <<fd, result>>
       ELSE Refuse
    /\ UNCHANGED <<Opening, before, opened, bound>>

Fdopen ==
    /\ pc = "fdopen"
    /\ pc' = "read"
    /\ UNCHANGED <<Opening, fd, before, opened, result, bound>>
-----------------------------------------------------------------------------
(* snapshot_known_hosts *)

\* The file is read, at most one byte over its limit, and closed.
Read ==
    /\ pc = "read"
    /\ fd' = NoFile
    /\ \/ pc' = "mkdtemp" /\ UNCHANGED result
       \/ pc' = "done" /\ result' = "refused"
    /\ UNCHANGED <<Opening, before, opened, bound>>

Mkdtemp ==
    /\ pc = "mkdtemp"
    /\ \/ pc' = "write" /\ directory' = TRUE /\ UNCHANGED result
       \/ pc' = "done" /\ result' = "refused" /\ UNCHANGED directory
    /\ UNCHANGED <<Disk, nofollow, json, fd, before, opened, failed, told, bound>>

\* The mode of the directory is checked, and the copy is written.
WriteSnapshot ==
    /\ pc = "write"
    /\ \/ pc' = "session" /\ UNCHANGED failed
       \/ pc' = "remove" /\ failed' = TRUE
    /\ UNCHANGED <<Disk, nofollow, json, fd, before, opened, directory, told, result, bound>>

\* The SSH session, which may end with an exception.
Session ==
    /\ pc = "session"
    /\ pc' = "remove"
    /\ failed' \in BOOLEAN
    /\ UNCHANGED <<Disk, nofollow, json, fd, before, opened, directory, told, result, bound>>

Removal == <<Disk, nofollow, json, fd, before, opened, failed, bound>>

\* Defect: an error of rmtree takes the place of the session's.
RemoveHidesError ==
    /\ pc = "remove"
    /\ \/ directory' = FALSE /\ UNCHANGED told /\ result' = IF failed THEN "session" ELSE "ok"
       \/ UNCHANGED directory /\ told' = TRUE /\ result' = "not_removed"
    /\ pc' = "done"
    /\ UNCHANGED Removal

\* The finally clause: an error of rmtree is raised, but only logged when the session
\* has failed already.
Remove ==
    /\ pc = "remove"
    /\ \/ directory' = FALSE /\ UNCHANGED told /\ result' = IF failed THEN "session" ELSE "ok"
       \/ /\ UNCHANGED directory
          /\ result' = IF failed THEN "session" ELSE "not_removed"
          /\ told' = (~failed \/ ~json)
    /\ pc' = "done"
    /\ UNCHANGED Removal

Next ==
    \/ Rebind \/ \E f \in Files : Chmod(f) \/ Recreate(f)
    \/ LstatBefore \/ StartNoFollow \/ Open \/ OpenFails \/ Interrupted
    \/ Fstat \/ LstatAfter \/ CheckMetadata \/ Fdopen
    \/ Read \/ Mkdtemp \/ WriteSnapshot \/ Session \/ Remove

FileSpec == Init /\ [][Next]_fvars
-----------------------------------------------------------------------------
Locations == {"start", "open", "fstat", "after", "check", "fdopen", "read",
              "mkdtemp", "write", "session", "remove", "done"}
Accepted == {"read", "mkdtemp", "write", "session", "remove"}

FileTypeOK ==
    /\ {nofollow, json, directory, failed, told} \subseteq BOOLEAN
    /\ name \in Names
    /\ ino \in [Files -> Inodes] /\ Distinct(ino)
    /\ regular \in [Files -> BOOLEAN] /\ trusted \in [Files -> BOOLEAN]
    /\ changes \in 0..MaxChanges
    /\ pc \in Locations
    /\ fd \in Files \cup {NoFile}
    /\ before \in Inodes \cup {NoInode}
    /\ opened.ino \in Inodes \cup {NoInode}
    /\ {opened.regular, opened.trusted} \subseteq BOOLEAN
    /\ result \in {"none", "ok", "refused", "session", "not_removed"}
    /\ bound \subseteq Files

\* What becomes of the error of the session and of a copy that is not removed.
CopyAccountedFor ==
    /\ failed => result = "session"
    /\ directory => result # "ok" /\ (told \/ (json /\ failed))

\* Why the properties hold.  The descriptor is open between the open and the
\* read and never else; what fstat said of it stays true except for its mode;
\* and the name's own file is among those recorded while it is open.
Opened == {"fstat", "after", "check", "fdopen", "read"}
FileInv ==
    /\ FileTypeOK
    /\ fd # NoFile <=> pc \in Opened
    /\ fd # NoFile => Direct \subseteq bound
    /\ pc \in Opened \ {"fstat"} => opened.ino = ino[fd] /\ opened.regular
    /\ pc \in {"fdopen"} \cup Accepted => opened.regular /\ opened.trusted
    /\ pc \in {"fstat", "check", "fdopen", "read"} /\ nofollow => fd \in bound
    /\ pc \in {"check", "fdopen", "read"} => fd \in bound
    /\ pc = "after" => ~nofollow
    /\ pc \in {"open", "fstat", "after"} /\ ~nofollow => before \in Inodes
    /\ failed => pc \in {"remove", "done"}
    /\ directory => pc \in {"write", "session", "remove", "done"}
    /\ told => pc = "done"
    /\ pc = "done" => CopyAccountedFor

\* A file is only read if it, and not a file that was put in its place, was a
\* regular file of a trusted owner that no one else may write, when it was open.
ReadIsTrusted ==
    /\ pc \in Accepted => opened.regular /\ opened.trusted
    /\ pc = "read" => opened.ino = ino[fd]

\* A file is never reached through a link in place of the configured name: the
\* name itself was the opened file, at the open or later, even where the inode
\* number of a deleted file is used again and the platform lacks O_NOFOLLOW.
NeverThroughLink == pc = "read" => fd \in bound

\* On every way out the descriptor is closed, the error of the session is the one
\* the caller gets, and no call that leaves a copy of the host keys behind succeeds.
\* The copy that stays is mentioned, except in JSON mode after a failed session,
\* whose warning json_main discards: there nobody learns of it.
CleanupIsAccountedFor == pc = "done" => fd = NoFile /\ CopyAccountedFor
=============================================================================
