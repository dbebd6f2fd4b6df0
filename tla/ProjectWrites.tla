---------------------------- MODULE ProjectWrites ----------------------------
(***************************************************************************)
(* Writers of one project's files: saves (of the editor, of Artus features *)
(* and of the site definition), AI edits being applied, and deletions.     *)
(* Each is a transaction of PostgreSQL at READ COMMITTED: a statement sees *)
(* what is committed and what its own transaction wrote, and waits for the *)
(* rows it writes.  A save writes the project's row and then the file, in  *)
(* the order of the unit of work; an AI edit locks its files and then      *)
(* writes the project's row.  Both end with a snapshot of all files.       *)
(***************************************************************************)
EXTENDS Naturals

CONSTANTS
    SaveTargets,  \* of each save: the file it writes
    EditTargets,  \* of each AI edit: the files it writes
    DropTargets,  \* of each deletion: its file
    ProjectFiles,
    NoWriter

Savers == DOMAIN SaveTargets
Editors == DOMAIN EditTargets
Droppers == DOMAIN DropTargets
Writers == Savers \cup Editors \cup Droppers

ASSUME WritersAssumption ==
    /\ SaveTargets \in [Savers -> ProjectFiles] /\ DropTargets \in [Droppers -> ProjectFiles]
    /\ EditTargets \in [Editors -> SUBSET ProjectFiles]
    /\ NoWriter \notin Writers

VARIABLES
    text,      \* committed text of each file: the writer of it, "original" or "absent"
    fileLock,  \* who has each file's row (or its name) locked
    rowOwner,  \* who has the project's row locked
    writer,    \* where each writer stands
    base,      \* the text each writer read before it locked anything
    copied,    \* the files as a writer's snapshot has them
    shot       \* the last snapshot that was committed

writeVars == <<text, fileLock, rowOwner, writer, base, copied, shot>>

Targets(w) ==
    IF w \in Savers THEN {SaveTargets[w]}
    ELSE IF w \in Editors THEN EditTargets[w] ELSE {DropTargets[w]}

Over == {"saved", "conflict", "collided", "gone", "aborted", "deleted", "missing"}
Texts == Writers \cup {"original", "absent"}

WritesInit ==
    /\ text \in [ProjectFiles -> {"original", "absent"}]
    /\ fileLock = [f \in ProjectFiles |-> NoWriter]
    /\ rowOwner = NoWriter
    /\ writer = [w \in Writers |-> "new"]
    /\ base = [w \in Writers |-> text]
    /\ copied = [w \in Writers |-> text]
    /\ shot = text

At(w, state) == writer' = [writer EXCEPT ![w] = state]
Free(w) ==
    /\ fileLock' = [f \in ProjectFiles |-> IF fileLock[f] = w THEN NoWriter ELSE fileLock[f]]
    /\ rowOwner' = IF rowOwner = w THEN NoWriter ELSE rowOwner

\* The rows of its targets as the writer reads them, without a lock: a save's
\* own SELECT, the versions an AI edit was dispatched with.
ReadFirst(w) ==
    /\ writer[w] = "new"
    /\ base' = [base EXCEPT ![w] = text]
    /\ At(w, IF w \in Savers THEN "flushing" ELSE "locking")
    /\ UNCHANGED <<text, fileLock, rowOwner, copied, shot>>

----
(* stage_code_update and save_code.                                        *)

MutFlushProject(w) ==
    /\ writer[w] = "flushing"
    /\ At(w, "writing")
    /\ UNCHANGED <<text, fileLock, rowOwner, base, copied, shot>>

\* UPDATE projects, the first statement of the flush.
FlushProject(w) ==
    /\ writer[w] = "flushing" /\ rowOwner = NoWriter
    /\ rowOwner' = w
    /\ At(w, "writing")
    /\ UNCHANGED <<text, fileLock, base, copied, shot>>

\* UPDATE or INSERT of the file, as the first read found it: an update of a
\* row that was deleted and an insert of a name that was taken both raise.
FlushFile(w) ==
    LET f == SaveTargets[w]
    IN  /\ w \in Savers /\ writer[w] = "writing" /\ fileLock[f] = NoWriter
        /\ IF (base[w][f] = "absent") = (text[f] = "absent")
           THEN /\ fileLock' = [fileLock EXCEPT ![f] = w]
                /\ At(w, "copying")
                /\ UNCHANGED rowOwner
           ELSE /\ At(w, IF text[f] = "absent" THEN "gone" ELSE "collided")
                /\ Free(w)
        /\ UNCHANGED <<text, base, copied, shot>>

\* The files as the transaction sees them: what is committed, and its own.
Seen(w) == [f \in ProjectFiles |-> IF f \in Targets(w) THEN w ELSE text[f]]

\* _snapshot
CopyFiles(w) ==
    /\ writer[w] = "copying"
    /\ copied' = [copied EXCEPT ![w] = Seen(w)]
    /\ At(w, "committing")
    /\ UNCHANGED <<text, fileLock, rowOwner, base, shot>>

CommitWrite(w) ==
    /\ writer[w] = "committing"
    /\ text' = Seen(w)
    /\ shot' = copied[w]
    /\ At(w, "saved")
    /\ Free(w)
    /\ UNCHANGED <<base, copied>>

----
(* stage_file_updates, in the transaction that applies the edit.           *)

\* SELECT ... FOR UPDATE locks the rows one after the other; a row that is not
\* there is not locked.
LockFile(w) ==
    /\ w \in Editors /\ writer[w] = "locking"
    /\ \E f \in EditTargets[w] :
          /\ fileLock[f] = NoWriter /\ text[f] # "absent"
          /\ fileLock' = [fileLock EXCEPT ![f] = w]
    /\ UNCHANGED <<text, rowOwner, writer, base, copied, shot>>

\* All rows that exist are locked.
Locked(w) == \A f \in EditTargets[w] : text[f] = "absent" \/ fileLock[f] = w

MutTestVersions(w) ==
    /\ w \in Editors /\ writer[w] = "locking" /\ Locked(w)
    /\ At(w, IF \A f \in EditTargets[w] : text[f] = base[w][f] /\ text[f] # "absent"
             THEN "staging" ELSE "conflict")
    /\ UNCHANGED <<text, fileLock, rowOwner, base, copied, shot>>

\* A file that is missing, or is not the version that was dispatched, ends it.
TestVersions(w) ==
    /\ w \in Editors /\ writer[w] = "locking" /\ Locked(w)
    /\ IF \A f \in EditTargets[w] : text[f] = base[w][f] /\ text[f] # "absent"
       THEN At(w, "staging") /\ UNCHANGED <<fileLock, rowOwner>>
       ELSE At(w, "conflict") /\ Free(w)
    /\ UNCHANGED <<text, base, copied, shot>>

\* The flush writes the project's row after the locks of the files.
StageEdit(w) ==
    /\ writer[w] = "staging" /\ rowOwner = NoWriter
    /\ rowOwner' = w
    /\ At(w, "copying")
    /\ UNCHANGED <<text, fileLock, base, copied, shot>>

----
(* delete_file: neither the project's row nor a snapshot is written.       *)

DeleteFile(w) ==
    LET f == DropTargets[w]
    IN  /\ w \in Droppers /\ writer[w] = "locking" /\ fileLock[f] = NoWriter
        /\ At(w, IF base[w][f] = "absent" THEN "missing" ELSE "deleted")
        /\ text' = IF base[w][f] = "absent" THEN text ELSE [text EXCEPT ![f] = "absent"]
        /\ UNCHANGED <<fileLock, rowOwner, base, copied, shot>>

----
(* PostgreSQL fails one transaction of a cycle of waiting ones.            *)

WaitsFor(v, w) ==
    \/ v \in Savers /\ writer[v] = "flushing" /\ rowOwner = w
    \/ v \in Savers /\ writer[v] = "writing" /\ fileLock[SaveTargets[v]] = w
    \/ v \in Editors /\ writer[v] = "staging" /\ rowOwner = w
    \/ /\ v \in Editors /\ writer[v] = "locking"
       /\ \A f \in EditTargets[v] : text[f] # "absent" => fileLock[f] # NoWriter
       /\ \E f \in EditTargets[v] : fileLock[f] = w /\ w # v

\* Each of them waits for one of them, and has one waiting.
Cycle(C) ==
    /\ C # {}
    /\ \A v \in C : (\E w \in C : WaitsFor(v, w)) /\ (\E w \in C : WaitsFor(w, v))

DeadlockDetected ==
    /\ \E C \in SUBSET Writers :
          Cycle(C) /\ \E v \in C : At(v, "aborted") /\ Free(v)
    /\ UNCHANGED <<text, base, copied, shot>>

WriterStep(w) ==
    \/ FlushProject(w) \/ FlushFile(w) \/ CopyFiles(w) \/ CommitWrite(w)
    \/ LockFile(w) \/ TestVersions(w) \/ StageEdit(w) \/ DeleteFile(w)

\* Requests begin, and what has begun goes on.
WritesNext == (\E w \in Writers : ReadFirst(w) \/ WriterStep(w)) \/ DeadlockDetected

WritesSpec == WritesInit /\ [][WritesNext]_writeVars

\* While a transaction that has begun can go on, one does.
WritesFairness ==
    WF_writeVars(\/ \E w \in Writers : writer[w] # "new" /\ WriterStep(w)
                 \/ DeadlockDetected)

----
(* Properties.                                                             *)

\* Every part of the state has its type.
WritesTypeOK ==
    /\ text \in [ProjectFiles -> Texts] /\ shot \in [ProjectFiles -> Texts]
    /\ fileLock \in [ProjectFiles -> Writers \cup {NoWriter}]
    /\ rowOwner \in Writers \cup {NoWriter}
    /\ writer \in [Writers -> Over \cup {"new", "flushing", "writing", "copying", "committing",
                                        "locking", "staging"}]
    /\ base \in [Writers -> [ProjectFiles -> Texts]]
    /\ copied \in [Writers -> [ProjectFiles -> Texts]]

\* The last snapshot of the project is the project: whatever saves and edits
\* overlapped, it has the text of every file, but for deletions, which write
\* none.  No lock is taken for it; it is the update of the project's row that
\* makes writers take turns.
SnapshotIsWhole == \A f \in ProjectFiles : text[f] \in {shot[f], "absent"}

\* Nobody waits for ever, although a save locks the project's row before the
\* file's and an AI edit the other way round, and an edit that finds another
\* version gives up what it has locked: in the end every writer that has begun
\* is over.
WritesEnd == <>[](\A w \in Writers : writer[w] \in Over \cup {"new"})
=============================================================================
