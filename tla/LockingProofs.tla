---------------------------- MODULE LockingProofs ----------------------------
(***************************************************************************)
(* What the locks of the database are for: theorems about the writers of a *)
(* project's files (ProjectWrites) and about the saved structural results  *)
(* (StructuralResults), for any writers, files, requests, designs,         *)
(* configurations and processes; about what an edit is told of the         *)
(* earlier ones (Conversations), which is derived under the project's      *)
(* lock, for any requests, limits and numbers of edits; and about the      *)
(* capture of a structure (StructuralProjection), whose results those are, *)
(* for any members, designs and settings.                                  *)
(***************************************************************************)
EXTENDS ProjectWrites, StructuralResults, Conversations, StructuralProjection, CountingLemmas,
        FiniteSetTheorems, SequenceTheorems, TLAPS

(***************************************************************************)
(* The writers of a project's files: the row of the project is their turn. *)
(***************************************************************************)

\* The project's row is the turn of who writes: it is taken by the first
\* statement of the flush, or after the files, and kept until the end.
OneTurn ==
    \A w \in Writers : writer[w] \in {"writing", "copying", "committing"} => rowOwner = w

\* A snapshot that was taken is still what the commit will make of the files,
\* but for deletions.
CopyHolds ==
    \A w \in Writers : writer[w] = "committing" =>
        \A f \in ProjectFiles :
            IF f \in Targets(w) THEN copied[w][f] = w ELSE text[f] \in {copied[w][f], "absent"}

WritesInv == WritesTypeOK /\ OneTurn /\ CopyHolds /\ SnapshotIsWhole

----
(* Types.                                                                  *)

LEMMA WritesInitInv == WritesInit => WritesInv
  BY DEF WritesInit, WritesInv, WritesTypeOK, OneTurn, CopyHolds, SnapshotIsWhole, Texts, Over

\* What a writer sees is a text of every file.
LEMMA SeenType ==
    ASSUME WritesTypeOK, NEW w \in Writers
    PROVE  Seen(w) \in [ProjectFiles -> Texts]
  BY DEF WritesTypeOK, Seen, Texts

\* Freeing locks keeps their types, and takes the row from nobody else.
LEMMA FreeStep ==
    ASSUME WritesTypeOK, NEW w \in Writers, Free(w)
    PROVE  /\ fileLock' \in [ProjectFiles -> Writers \cup {NoWriter}]
           /\ rowOwner' \in Writers \cup {NoWriter}
           /\ \A v \in Writers : v # w /\ rowOwner = v => rowOwner' = v
  BY DEF WritesTypeOK, Free

LEMMA TypeStep ==
    ASSUME WritesTypeOK, WritesNext
    PROVE  WritesTypeOK'
<1> USE DEF WritesTypeOK, At, Over
<1>1. ASSUME NEW w \in Writers, ReadFirst(w) PROVE WritesTypeOK'
  BY <1>1 DEF ReadFirst
<1>2. ASSUME NEW w \in Writers, FlushProject(w) PROVE WritesTypeOK'
  BY <1>2 DEF FlushProject
<1>3. ASSUME NEW w \in Writers, FlushFile(w) PROVE WritesTypeOK'
 <2>1. CASE Free(w)
   BY <1>3, <2>1, FreeStep DEF FlushFile
 <2>2. CASE ~Free(w)
   BY <1>3, <2>2 DEF FlushFile
 <2> QED BY <2>1, <2>2
<1>4. ASSUME NEW w \in Writers, CopyFiles(w) PROVE WritesTypeOK'
  BY <1>4, SeenType DEF CopyFiles
<1>5. ASSUME NEW w \in Writers, CommitWrite(w) PROVE WritesTypeOK'
  BY <1>5, SeenType, FreeStep DEF CommitWrite
<1>6. ASSUME NEW w \in Writers, LockFile(w) PROVE WritesTypeOK'
  BY <1>6 DEF LockFile
<1>7. ASSUME NEW w \in Writers, TestVersions(w) PROVE WritesTypeOK'
 <2>1. CASE Free(w)
   BY <1>7, <2>1, FreeStep DEF TestVersions
 <2>2. CASE ~Free(w)
   BY <1>7, <2>2 DEF TestVersions
 <2> QED BY <2>1, <2>2
<1>8. ASSUME NEW w \in Writers, StageEdit(w) PROVE WritesTypeOK'
  BY <1>8 DEF StageEdit
<1>9. ASSUME NEW w \in Writers, DeleteFile(w) PROVE WritesTypeOK'
  BY <1>9 DEF DeleteFile, Texts
<1>10. ASSUME DeadlockDetected PROVE WritesTypeOK'
  BY <1>10, FreeStep DEF DeadlockDetected
<1> QED
  BY <1>1, <1>2, <1>3, <1>4, <1>5, <1>6, <1>7, <1>8, <1>9, <1>10 DEF WritesNext, WriterStep

----
(* Turns and snapshots.                                                    *)

\* One writer goes elsewhere, and nobody else loses the row.
LEMMA TurnStep ==
    ASSUME WritesTypeOK, OneTurn, NEW w \in Writers, NEW state, At(w, state),
           state \in {"writing", "copying", "committing"} => rowOwner' = w,
           \A v \in Writers : v # w /\ rowOwner = v => rowOwner' = v
    PROVE  OneTurn'
  BY DEF WritesTypeOK, OneTurn, At

LEMMA OneTurnKept ==
    ASSUME WritesTypeOK, OneTurn, WritesNext
    PROVE  OneTurn'
<1>0. NoWriter \notin Writers
  BY WritersAssumption
<1>1. ASSUME NEW w \in Writers, ReadFirst(w) PROVE OneTurn'
  BY <1>1, TurnStep DEF ReadFirst
<1>2. ASSUME NEW w \in Writers, FlushProject(w) PROVE OneTurn'
  BY <1>0, <1>2, TurnStep DEF FlushProject
<1>3. ASSUME NEW w \in Writers, FlushFile(w) PROVE OneTurn'
  BY <1>3, TurnStep, FreeStep DEF FlushFile, OneTurn
<1>4. ASSUME NEW w \in Writers, CopyFiles(w) PROVE OneTurn'
  BY <1>4, TurnStep DEF CopyFiles, OneTurn
<1>5. ASSUME NEW w \in Writers, CommitWrite(w) PROVE OneTurn'
  BY <1>5, TurnStep, FreeStep DEF CommitWrite
<1>6. ASSUME NEW w \in Writers, LockFile(w) PROVE OneTurn'
  BY <1>6 DEF LockFile, OneTurn
<1>7. ASSUME NEW w \in Writers, TestVersions(w) PROVE OneTurn'
  BY <1>7, TurnStep, FreeStep DEF TestVersions
<1>8. ASSUME NEW w \in Writers, StageEdit(w) PROVE OneTurn'
  BY <1>0, <1>8, TurnStep DEF StageEdit
<1>9. ASSUME NEW w \in Writers, DeleteFile(w) PROVE OneTurn'
  BY <1>9, TurnStep DEF DeleteFile
<1>10. ASSUME DeadlockDetected PROVE OneTurn'
  BY <1>10, TurnStep, FreeStep DEF DeadlockDetected
<1> QED
  BY <1>1, <1>2, <1>3, <1>4, <1>5, <1>6, <1>7, <1>8, <1>9, <1>10 DEF WritesNext, WriterStep

\* A step in which no file gets a new text and no snapshot is taken.
Quiet ==
    /\ \A f \in ProjectFiles : text'[f] \in {text[f], "absent"}
    /\ UNCHANGED <<copied, shot>>
    /\ \A w \in Writers : writer'[w] = "committing" => writer[w] = "committing"

LEMMA QuietStep ==
    ASSUME WritesInv, Quiet
    PROVE  CopyHolds' /\ SnapshotIsWhole'
  BY DEF WritesInv, WritesTypeOK, Quiet, CopyHolds, SnapshotIsWhole, Targets

LEMMA CopyStep ==
    ASSUME WritesInv, NEW w \in Writers, CopyFiles(w)
    PROVE  CopyHolds' /\ SnapshotIsWhole'
  BY DEF WritesInv, WritesTypeOK, CopyFiles, At, Seen, CopyHolds, SnapshotIsWhole, Targets

LEMMA CommitStep ==
    ASSUME WritesInv, NEW w \in Writers, CommitWrite(w)
    PROVE  CopyHolds' /\ SnapshotIsWhole'
<1>1. SnapshotIsWhole'
  BY DEF WritesInv, WritesTypeOK, CommitWrite, Seen, CopyHolds, SnapshotIsWhole
<1>2. \A v \in Writers : writer'[v] # "committing"
  BY DEF WritesInv, WritesTypeOK, OneTurn, CommitWrite, At
<1>3. CopyHolds'
  BY <1>2 DEF CopyHolds
<1> QED BY <1>1, <1>3

LEMMA WritesStepInv == WritesInv /\ [WritesNext]_writeVars => WritesInv'
<1> SUFFICES ASSUME WritesInv, [WritesNext]_writeVars PROVE WritesInv'
  OBVIOUS
<1>1. CASE UNCHANGED writeVars
  BY <1>1 DEF writeVars, WritesInv, WritesTypeOK, OneTurn, CopyHolds, SnapshotIsWhole, Targets
<1>2. CASE WritesNext
 <2> USE <1>2
 <2>1. WritesTypeOK' /\ OneTurn'
   BY TypeStep, OneTurnKept DEF WritesInv
 <2>2. ASSUME NEW w \in Writers, WriterStep(w) \/ ReadFirst(w), ~CopyFiles(w), ~CommitWrite(w)
       PROVE  Quiet
   BY <2>2 DEF WriterStep, ReadFirst, FlushProject, FlushFile, LockFile, TestVersions, StageEdit,
               DeleteFile, At, Quiet, WritesInv, WritesTypeOK
 <2>3. ASSUME DeadlockDetected PROVE Quiet
   BY <2>3 DEF DeadlockDetected, At, Quiet, WritesInv, WritesTypeOK
 <2>4. CopyHolds' /\ SnapshotIsWhole'
   BY <2>2, <2>3, QuietStep, CopyStep, CommitStep DEF WritesNext
 <2> QED BY <2>1, <2>4 DEF WritesInv
<1> QED BY <1>1, <1>2

\* Every part of the writers' state has its type, in every reachable state.
THEOREM WritesTypeCorrect == WritesSpec => []WritesTypeOK
<1>1. WritesInv => WritesTypeOK
  BY DEF WritesInv
<1> QED BY <1>1, WritesInitInv, WritesStepInv, PTL DEF WritesSpec

\* The last snapshot is the project (repositories.py, save_code and
\* stage_file_updates): no save, edit or deletion, overlapping as they may, leaves
\* a snapshot without the text of another.
THEOREM SnapshotCorrect == WritesSpec => []SnapshotIsWhole
<1>1. WritesInv => SnapshotIsWhole
  BY DEF WritesInv
<1> QED BY <1>1, WritesInitInv, WritesStepInv, PTL DEF WritesSpec

----
(***************************************************************************)
(* Saved structural results: the advisory lock with its second look, and   *)
(* the locks of rows.                                                      *)
(***************************************************************************)

\* Analyses and exports have states of their own, and a key once they have begun.
Kinds ==
    /\ \A a \in Analyses : asked[a].state \in AnalysisStates
    /\ \A e \in Exports : asked[e].state \in ExportStates
    /\ \A r \in Transactions : asked[r].state # "new" => asked[r].key \in Keys

\* From its second look to its end an analysis has the key's advisory lock.
Alone ==
    \A a \in Analyses :
        asked[a].state \in {"locked", "solving", "storing"} => advisory[asked[a].key] = a

\* It solves only what cannot be read, and meanwhile nobody else writes that.
Needed ==
    \A a \in Analyses :
        asked[a].state \in {"solving", "storing"} => ~row[asked[a].key].valid

\* Who goes on past a row that cannot be read has deleted it, and keeps it locked.
Deleted ==
    \A a \in Analyses :
        LET k == asked[a].key
        IN  asked[a].state \in {"waiting", "locked", "solving", "storing"}
                /\ row[k].id # 0 /\ ~row[k].valid
            => rowLock[k] = a

\* An export goes on only with the key its user reviewed, and then with the row
\* it selected, locked.
SelectedBy(e) ==
    /\ asked[e].state \in {"selecting", "holding", "writing", "created", "reused"} =>
          asked[e].key = reviewed[e] /\ seen[e] # 0
    /\ asked[e].state \in {"holding", "writing"} =>
          rowLock[asked[e].key] = e /\ row[asked[e].key].id = seen[e]
    /\ asked[e].state = "writing" =>
          row[asked[e].key].valid /\ <<asked[e].key, seen[e]>> \notin reports
Selected == \A e \in Exports : SelectedBy(e)

\* A report is of a row that is there and can be read.
Reported ==
    \A k \in Keys, n \in Nat : <<k, n>> \in reports => row[k].id = n /\ row[k].valid

\* Nobody finds written what it had found missing.
NoCollision == \A r \in Transactions : asked[r].state # "collided"

\* What was handed out.
HandedOut ==
    \A e \in Exports :
        asked[e].state \in {"created", "reused"} => <<asked[e].key, seen[e]>> \in reports

\* The types, of what the proofs read and of the rest.
AskedType ==
    asked \in [Transactions -> [state : AnalysisStates \cup ExportStates,
                               key : Keys \cup {<<"none", "none">>}]]
RowsType ==
    /\ row \in [Keys -> [id : Nat, valid : BOOLEAN]]
    /\ rowLock \in [Keys -> Transactions \cup {Nobody}]
    /\ advisory \in [Keys -> Analyses \cup {Nobody}]
ReportsType ==
    /\ reviewed \in [Exports -> Keys \cup {<<"none", "none">>}]
    /\ seen \in [Exports -> Nat]
    /\ reports \subseteq Keys \X Nat
InputsType ==
    /\ design \in Designs /\ compiles \in 0..MaxCompiles
    /\ revisions \in Seq(Configurations)
    /\ save \in [Saves -> [state : {"new", "unchanged", "adding", "saved", "collided"},
                           digest : Configurations \cup {"none"}, saw : Nat]]
    /\ \A s \in Saves : save[s].state = "adding" => save[s].digest \in Configurations
ShownType ==
    /\ server \in [Analyses -> Servers]
    /\ progress \in [Servers -> {Idle} \cup [state : {"running", "complete", "failed"}, key : Keys]]

ResultsInv ==
    /\ AskedType /\ RowsType /\ ReportsType /\ InputsType /\ ShownType /\ Kinds /\ Alone /\ Needed /\ Deleted
    /\ Selected /\ Reported /\ NoCollision /\ HandedOut

----
LEMMA InvTypes == ResultsInv => ResultsTypeOK
  BY DEF ResultsInv, ResultsTypeOK, AskedType, RowsType, ReportsType, InputsType, ShownType

LEMMA InvShows == ResultsInv => NoDuplicateSolve /\ ReportIsOfReviewed
<1> SUFFICES ASSUME ResultsInv PROVE NoDuplicateSolve /\ ReportIsOfReviewed
  OBVIOUS
<1>1. NoDuplicateSolve
  BY DEF ResultsInv, NoDuplicateSolve, Solving, NoCollision, Alone, Needed
<1>2. ReportIsOfReviewed
 <2> SUFFICES ASSUME NEW e \in Exports, asked[e].state \in {"created", "reused"}
              PROVE  /\ asked[e].key = reviewed[e]
                     /\ row[reviewed[e]] = [id |-> seen[e], valid |-> TRUE]
                     /\ <<reviewed[e], seen[e]>> \in reports
   BY DEF ReportIsOfReviewed
 <2>1. asked[e].key = reviewed[e] /\ <<reviewed[e], seen[e]>> \in reports
   BY DEF ResultsInv, Selected, SelectedBy, HandedOut
 <2>2. reviewed[e] \in Keys /\ seen[e] \in Nat
   BY <2>1 DEF ResultsInv, Kinds, ReportsType, Transactions
 <2>3. row[reviewed[e]].id = seen[e] /\ row[reviewed[e]].valid
   BY <2>1, <2>2 DEF ResultsInv, Reported
 <2>4. row[reviewed[e]] \in [id : Nat, valid : BOOLEAN]
   BY <2>2 DEF ResultsInv, RowsType
 <2> QED BY <2>1, <2>3, <2>4
<1> QED BY <1>1, <1>2

LEMMA ResultsInitInv == ResultsInit => ResultsInv
<1> SUFFICES ASSUME ResultsInit PROVE ResultsInv
  OBVIOUS
<1>1. \A r \in Transactions : asked[r].state = "new"
  BY DEF ResultsInit
<1>2. AskedType /\ ReportsType
  BY DEF ResultsInit, AskedType, ReportsType, AnalysisStates
<1>7. RowsType
 <2>1. ASSUME NEW k \in Keys PROVE row[k] \in [id : Nat, valid : BOOLEAN]
  <3>1. row[k] = [id |-> 0, valid |-> FALSE] \/ row[k] = [id |-> 1, valid |-> FALSE]
    BY DEF ResultsInit
  <3>2. [id |-> 0, valid |-> FALSE] \in [id : Nat, valid : BOOLEAN]
    OBVIOUS
  <3>3. [id |-> 1, valid |-> FALSE] \in [id : Nat, valid : BOOLEAN]
    OBVIOUS
  <3> QED BY <3>1, <3>2, <3>3
 <2>2. row \in [Keys -> [id : Nat, valid : BOOLEAN]]
   BY <2>1 DEF ResultsInit
 <2> QED BY <2>2 DEF ResultsInit, RowsType
<1>3. InputsType /\ ShownType
  BY ResultsAssumption DEF ResultsInit, InputsType, ShownType
<1>4. Kinds /\ NoCollision /\ Reported
  BY <1>1 DEF ResultsInit, Kinds, NoCollision, Reported, AnalysisStates, ExportStates, Transactions
<1>5. Alone /\ Needed /\ Deleted
  BY <1>1 DEF Alone, Needed, Deleted, Transactions
<1>6. Selected /\ HandedOut
  BY <1>1 DEF Selected, SelectedBy, HandedOut, Transactions
<1> QED BY <1>2, <1>3, <1>4, <1>5, <1>6, <1>7 DEF ResultsInv

----
(* What the steps do.                                                      *)

\* One request goes on with its key, the others stay.
Moves(r, from, to) ==
    /\ asked[r].state \in from /\ asked'[r].state \in to /\ asked'[r].key = asked[r].key
    /\ \A s \in Transactions \ {r} : asked'[s] = asked[s]

LEMMA GoesStep ==
    ASSUME AskedType, NEW r \in Transactions,
           NEW state \in AnalysisStates \cup ExportStates, Goes(r, state)
    PROVE  AskedType' /\ Moves(r, {asked[r].state}, {state})
  BY DEF AskedType, Goes, Moves

\* Nobody but r loses a lock.
OthersKeep(r) ==
    \A k \in Keys : /\ rowLock[k] \notin {r, Nobody} => rowLock'[k] = rowLock[k]
                    /\ advisory[k] \notin {r, Nobody} => advisory'[k] = advisory[k]

LEMMA LocksStep ==
    ASSUME RowsType, NEW r,
           rowLock' = Released(r, rowLock) \/ rowLock' = rowLock,
           advisory' = Released(r, advisory) \/ advisory' = advisory
    PROVE  /\ rowLock' \in [Keys -> Transactions \cup {Nobody}]
           /\ advisory' \in [Keys -> Analyses \cup {Nobody}]
           /\ OthersKeep(r)
<1>1. rowLock' \in [Keys -> Transactions \cup {Nobody}]
  BY DEF RowsType, Released
<1>2. advisory' \in [Keys -> Analyses \cup {Nobody}]
  BY DEF RowsType, Released
<1>3. OthersKeep(r)
  BY DEF RowsType, Released, OthersKeep
<1> QED BY <1>1, <1>2, <1>3

LEMMA LatestType == InputsType => Latest \in Configurations \cup {"none"}
  BY DEF InputsType, Latest, LatestOf

\* The rest of the state, as most steps leave it.
SameRows == UNCHANGED <<row, reports>>
SameExports == UNCHANGED <<reviewed, seen>>

LEMMA LookAgainStep ==
    ASSUME ResultsInv, NEW a \in Analyses, LookAgain(a)
    PROVE  /\ AskedType' /\ RowsType' /\ SameRows /\ SameExports /\ OthersKeep(a)
           /\ \/ Moves(a, {"locked"}, {"hit"})
              \/ /\ Moves(a, {"locked"}, {"solving"}) /\ ~row[asked[a].key].valid
                 /\ UNCHANGED <<rowLock, advisory>>
<1> USE DEF ResultsInv, Transactions, SameRows, SameExports, LookAgain
<1>1. /\ AskedType'
      /\ IF row[asked[a].key].valid THEN Moves(a, {"locked"}, {"hit"})
                                     ELSE Moves(a, {"locked"}, {"solving"})
  BY GoesStep DEF AnalysisStates
<1>2. RowsType' /\ OthersKeep(a)
  BY LocksStep DEF RowsType
<1> QED BY <1>1, <1>2

\* A solve finds no row that can be read when it stores its own.
LEMMA StoreStep ==
    ASSUME ResultsInv, NEW a \in Analyses, Store(a)
    PROVE  LET k == asked[a].key
           IN  /\ AskedType' /\ RowsType' /\ SameExports /\ OthersKeep(a)
               /\ Moves(a, {"storing"}, {"calculated"}) /\ k \in Keys /\ ~row[k].valid
               /\ row'[k].id = row[k].id + 1 /\ row'[k].valid
               /\ \A l \in Keys \ {k} : row'[l] = row[l]
               /\ reports' = reports \ {<<k, row[k].id>>}
<1> DEFINE k == asked[a].key
<1> USE DEF ResultsInv, Transactions, SameExports
<1>1. asked[a].state = "storing" /\ k \in Keys /\ ~row[k].valid
  BY DEF Store, Needed, Kinds
<1>2. /\ Goes(a, "calculated") /\ reports' = reports \ {<<k, row[k].id>>}
      /\ row' = [row EXCEPT ![k] = [id |-> @.id + 1, valid |-> TRUE]]
      /\ advisory' = Released(a, advisory) /\ rowLock' = Released(a, rowLock)
      /\ SameExports
  BY <1>1 DEF Store
<1>3. AskedType' /\ Moves(a, {"storing"}, {"calculated"})
  BY <1>1, <1>2, GoesStep DEF AnalysisStates
<1>4. row' \in [Keys -> [id : Nat, valid : BOOLEAN]]
  BY <1>1, <1>2 DEF RowsType
<1>5. RowsType' /\ OthersKeep(a)
  BY <1>2, <1>4, LocksStep DEF RowsType
<1>6. /\ row'[k].id = row[k].id + 1 /\ row'[k].valid
      /\ \A l \in Keys \ {k} : row'[l] = row[l]
  BY <1>1, <1>2 DEF RowsType
<1> QED BY <1>1, <1>2, <1>3, <1>5, <1>6

LEMMA SolveFailsStep ==
    ASSUME ResultsInv, NEW a \in Analyses, SolveFails(a)
    PROVE  /\ AskedType' /\ RowsType' /\ SameRows /\ SameExports /\ OthersKeep(a)
           /\ Moves(a, {"solving", "storing"}, {"failed"})
<1> USE DEF ResultsInv, Transactions, SameRows, SameExports, SolveFails
<1>1. AskedType' /\ Moves(a, {"solving", "storing"}, {"failed"})
  BY GoesStep DEF AnalysisStates, Moves
<1>2. RowsType' /\ OthersKeep(a)
  BY LocksStep DEF RowsType
<1> QED BY <1>1, <1>2

LEMMA LockRowStep ==
    ASSUME ResultsInv, NEW e \in Exports, LockRow(e)
    PROVE  /\ AskedType' /\ RowsType' /\ SameRows /\ SameExports /\ OthersKeep(e)
           /\ \/ Moves(e, {"selecting"}, {"missing"})
              \/ /\ Moves(e, {"selecting"}, {"holding"})
                 /\ row[asked[e].key].id = seen[e] /\ rowLock'[asked[e].key] = e
<1> USE DEF ResultsInv, Transactions, SameRows, SameExports, LockRow
<1>1. /\ AskedType'
      /\ IF row[asked[e].key].id = seen[e] THEN Moves(e, {"selecting"}, {"holding"})
                                            ELSE Moves(e, {"selecting"}, {"missing"})
  BY GoesStep DEF ExportStates
<1>2. asked[e].key \in Keys
  BY DEF Kinds
<1>3. /\ RowsType' /\ OthersKeep(e)
      /\ row[asked[e].key].id = seen[e] => rowLock'[asked[e].key] = e
  BY <1>2 DEF RowsType, OthersKeep
<1> QED BY <1>1, <1>3

LEMMA LookForReportStep ==
    ASSUME ResultsInv, NEW e \in Exports, LookForReport(e)
    PROVE  /\ AskedType' /\ RowsType' /\ SameRows /\ SameExports /\ OthersKeep(e)
           /\ \/ Moves(e, {"holding"}, {"reused"}) /\ <<asked[e].key, seen[e]>> \in reports
              \/ Moves(e, {"holding"}, {"blocked"})
              \/ /\ Moves(e, {"holding"}, {"writing"}) /\ UNCHANGED rowLock
                 /\ <<asked[e].key, seen[e]>> \notin reports /\ row[asked[e].key].valid
<1> USE DEF ResultsInv, Transactions, SameRows, SameExports, LookForReport, Ended
<1>1. /\ AskedType'
      /\ \/ Moves(e, {"holding"}, {"reused"}) /\ <<asked[e].key, seen[e]>> \in reports
         \/ Moves(e, {"holding"}, {"blocked"})
         \/ /\ Moves(e, {"holding"}, {"writing"}) /\ UNCHANGED rowLock
            /\ <<asked[e].key, seen[e]>> \notin reports /\ row[asked[e].key].valid
  BY GoesStep DEF ExportStates
<1>2. RowsType' /\ OthersKeep(e)
  BY LocksStep DEF RowsType
<1> QED BY <1>1, <1>2

\* What analyses see of an export that locks or looks.
LEMMA ExportStays ==
    ASSUME ResultsInv, NEW e \in Exports, LockRow(e) \/ LookForReport(e)
    PROVE  /\ \A a \in Analyses : asked'[a] = asked[a]
           /\ UNCHANGED row /\ OthersKeep(e)
<1>1. ASSUME LockRow(e) PROVE Moves(e, {"selecting"}, {"missing", "holding"})
  BY <1>1, LockRowStep DEF Moves
<1>2. ASSUME LookForReport(e) PROVE Moves(e, {"holding"}, {"reused", "blocked", "writing"})
  BY <1>2, LookForReportStep DEF Moves
<1> QED
  BY <1>1, <1>2, LockRowStep, LookForReportStep, ResultsAssumption DEF Moves, SameRows, Transactions

LEMMA WriteReportStep ==
    ASSUME ResultsInv, NEW e \in Exports, WriteReport(e)
    PROVE  /\ AskedType' /\ RowsType' /\ SameExports /\ OthersKeep(e) /\ UNCHANGED row
           /\ Moves(e, {"writing"}, {"created"})
           /\ reports' = reports \cup {<<asked[e].key, seen[e]>>}
<1> USE DEF ResultsInv, Transactions, SameExports, WriteReport, Ended
<1>1. <<asked[e].key, seen[e]>> \notin reports
  BY DEF Selected, SelectedBy
<1>2. AskedType' /\ Moves(e, {"writing"}, {"created"})
  BY <1>1, GoesStep DEF ExportStates
<1>3. RowsType' /\ OthersKeep(e)
  BY LocksStep DEF RowsType
<1> QED BY <1>2, <1>3
----
(* The invariant, part by part.                                            *)

LEMMA AskedTypeKept ==
    ASSUME ResultsInv, ResultsNext
    PROVE  AskedType'
<1> USE ResultsAssumption DEF ResultsInv, Transactions, AskedType, Kinds, AnalysisStates, ExportStates
<1>1. ASSUME NewProjection PROVE AskedType'
  BY <1>1 DEF NewProjection
<1>2. ASSUME NEW s \in Saves, ReadLatest(s) \/ AddRevision(s) PROVE AskedType'
  BY <1>2 DEF ReadLatest, AddRevision
<1>3. ASSUME NEW p \in Servers, EvictProgress(p) PROVE AskedType'
  BY <1>3 DEF EvictProgress
<1>4. ASSUME NEW a \in Analyses, ReadDesign(a) PROVE AskedType'
  BY <1>4 DEF ReadDesign, Keys, InputsType
<1>5. ASSUME NEW a \in Analyses, ReadConfiguration(a) PROVE AskedType'
  BY <1>5, LatestType DEF ReadConfiguration, Keys
<1>6. ASSUME NEW a \in Analyses, Look(a) PROVE AskedType'
  BY <1>6 DEF Look, Goes
<1>7. ASSUME NEW a \in Analyses, DeleteInvalid(a) PROVE AskedType'
  BY <1>7 DEF DeleteInvalid, Goes
<1>8. ASSUME NEW a \in Analyses, Acquire(a) PROVE AskedType'
  BY <1>8 DEF Acquire, Goes
<1>9. ASSUME NEW a \in Analyses, LookAgain(a) PROVE AskedType'
  BY <1>9, LookAgainStep DEF Moves, OthersKeep, SameRows, SameExports
<1>10. ASSUME NEW a \in Analyses, Solved(a) PROVE AskedType'
  BY <1>10 DEF Solved, Goes
<1>11. ASSUME NEW a \in Analyses, Store(a) PROVE AskedType'
  BY <1>11, StoreStep DEF Moves, OthersKeep, SameRows, SameExports
<1>12. ASSUME NEW a \in Analyses, SolveFails(a) PROVE AskedType'
  BY <1>12, SolveFailsStep DEF Moves, OthersKeep, SameRows, SameExports
<1>13. ASSUME NEW e \in Exports, ReadDesign(e) PROVE AskedType'
  BY <1>13 DEF ReadDesign, Keys, InputsType
<1>14. ASSUME NEW e \in Exports, ReadConfiguration(e) PROVE AskedType'
  BY <1>14, LatestType DEF ReadConfiguration, Keys
<1>15. ASSUME NEW e \in Exports, Compare(e) PROVE AskedType'
  BY <1>15 DEF Compare, Goes
<1>16. ASSUME NEW e \in Exports, LockRow(e) PROVE AskedType'
  BY <1>16, LockRowStep DEF Moves, OthersKeep, SameRows, SameExports
<1>17. ASSUME NEW e \in Exports, LookForReport(e) PROVE AskedType'
  BY <1>17, LookForReportStep DEF Moves, OthersKeep, SameRows, SameExports
<1>18. ASSUME NEW e \in Exports, WriteReport(e) PROVE AskedType'
  BY <1>18, WriteReportStep DEF Moves, OthersKeep, SameRows, SameExports
<1> QED
  BY <1>1, <1>2, <1>3, <1>4, <1>5, <1>6, <1>7, <1>8, <1>9,
     <1>10, <1>11, <1>12, <1>13, <1>14, <1>15, <1>16, <1>17, <1>18
  DEF ResultsNext, AnalysisStep, ExportStep

LEMMA KindsKept ==
    ASSUME ResultsInv, ResultsNext
    PROVE  Kinds'
<1> USE ResultsAssumption DEF ResultsInv, Transactions, AskedType, Kinds, AnalysisStates, ExportStates
<1>1. ASSUME NewProjection PROVE Kinds'
  BY <1>1 DEF NewProjection
<1>2. ASSUME NEW s \in Saves, ReadLatest(s) \/ AddRevision(s) PROVE Kinds'
  BY <1>2 DEF ReadLatest, AddRevision
<1>3. ASSUME NEW p \in Servers, EvictProgress(p) PROVE Kinds'
  BY <1>3 DEF EvictProgress
<1>4. ASSUME NEW a \in Analyses, ReadDesign(a) PROVE Kinds'
  BY <1>4 DEF ReadDesign, Keys, InputsType
<1>5. ASSUME NEW a \in Analyses, ReadConfiguration(a) PROVE Kinds'
  BY <1>5, LatestType DEF ReadConfiguration, Keys
<1>6. ASSUME NEW a \in Analyses, Look(a) PROVE Kinds'
  BY <1>6 DEF Look, Goes
<1>7. ASSUME NEW a \in Analyses, DeleteInvalid(a) PROVE Kinds'
  BY <1>7 DEF DeleteInvalid, Goes
<1>8. ASSUME NEW a \in Analyses, Acquire(a) PROVE Kinds'
  BY <1>8 DEF Acquire, Goes
<1>9. ASSUME NEW a \in Analyses, LookAgain(a) PROVE Kinds'
  BY <1>9, LookAgainStep DEF Moves, OthersKeep, SameRows, SameExports
<1>10. ASSUME NEW a \in Analyses, Solved(a) PROVE Kinds'
  BY <1>10 DEF Solved, Goes
<1>11. ASSUME NEW a \in Analyses, Store(a) PROVE Kinds'
  BY <1>11, StoreStep DEF Moves, OthersKeep, SameRows, SameExports
<1>12. ASSUME NEW a \in Analyses, SolveFails(a) PROVE Kinds'
  BY <1>12, SolveFailsStep DEF Moves, OthersKeep, SameRows, SameExports
<1>13. ASSUME NEW e \in Exports, ReadDesign(e) PROVE Kinds'
  BY <1>13 DEF ReadDesign, Keys, InputsType
<1>14. ASSUME NEW e \in Exports, ReadConfiguration(e) PROVE Kinds'
  BY <1>14, LatestType DEF ReadConfiguration, Keys
<1>15. ASSUME NEW e \in Exports, Compare(e) PROVE Kinds'
  BY <1>15 DEF Compare, Goes
<1>16. ASSUME NEW e \in Exports, LockRow(e) PROVE Kinds'
  BY <1>16, LockRowStep DEF Moves, OthersKeep, SameRows, SameExports
<1>17. ASSUME NEW e \in Exports, LookForReport(e) PROVE Kinds'
  BY <1>17, LookForReportStep DEF Moves, OthersKeep, SameRows, SameExports
<1>18. ASSUME NEW e \in Exports, WriteReport(e) PROVE Kinds'
  BY <1>18, WriteReportStep DEF Moves, OthersKeep, SameRows, SameExports
<1> QED
  BY <1>1, <1>2, <1>3, <1>4, <1>5, <1>6, <1>7, <1>8, <1>9,
     <1>10, <1>11, <1>12, <1>13, <1>14, <1>15, <1>16, <1>17, <1>18
  DEF ResultsNext, AnalysisStep, ExportStep

LEMMA RowsTypeKept ==
    ASSUME ResultsInv, ResultsNext
    PROVE  RowsType'
<1> USE ResultsAssumption DEF ResultsInv, Transactions, AskedType, RowsType, Kinds
<1>1. ASSUME NewProjection PROVE RowsType'
  BY <1>1 DEF NewProjection
<1>2. ASSUME NEW s \in Saves, ReadLatest(s) \/ AddRevision(s) PROVE RowsType'
  BY <1>2 DEF ReadLatest, AddRevision
<1>3. ASSUME NEW p \in Servers, EvictProgress(p) PROVE RowsType'
  BY <1>3 DEF EvictProgress
<1>4. ASSUME NEW a \in Analyses, ReadDesign(a) PROVE RowsType'
  BY <1>4 DEF ReadDesign
<1>5. ASSUME NEW a \in Analyses, ReadConfiguration(a) PROVE RowsType'
  BY <1>5 DEF ReadConfiguration
<1>6. ASSUME NEW a \in Analyses, Look(a) PROVE RowsType'
  BY <1>6 DEF Look, Goes
<1>7. ASSUME NEW a \in Analyses, DeleteInvalid(a) PROVE RowsType'
  BY <1>7 DEF DeleteInvalid, Goes
<1>8. ASSUME NEW a \in Analyses, Acquire(a) PROVE RowsType'
  BY <1>8 DEF Acquire, Goes
<1>9. ASSUME NEW a \in Analyses, LookAgain(a) PROVE RowsType'
  BY <1>9, LookAgainStep DEF Moves, OthersKeep, SameRows, SameExports
<1>10. ASSUME NEW a \in Analyses, Solved(a) PROVE RowsType'
  BY <1>10 DEF Solved, Goes
<1>11. ASSUME NEW a \in Analyses, Store(a) PROVE RowsType'
  BY <1>11, StoreStep DEF Moves, OthersKeep, SameRows, SameExports
<1>12. ASSUME NEW a \in Analyses, SolveFails(a) PROVE RowsType'
  BY <1>12, SolveFailsStep DEF Moves, OthersKeep, SameRows, SameExports
<1>13. ASSUME NEW e \in Exports, ReadDesign(e) PROVE RowsType'
  BY <1>13 DEF ReadDesign
<1>14. ASSUME NEW e \in Exports, ReadConfiguration(e) PROVE RowsType'
  BY <1>14 DEF ReadConfiguration
<1>15. ASSUME NEW e \in Exports, Compare(e) PROVE RowsType'
  BY <1>15 DEF Compare, Goes
<1>16. ASSUME NEW e \in Exports, LockRow(e) PROVE RowsType'
  BY <1>16, LockRowStep DEF Moves, OthersKeep, SameRows, SameExports
<1>17. ASSUME NEW e \in Exports, LookForReport(e) PROVE RowsType'
  BY <1>17, LookForReportStep DEF Moves, OthersKeep, SameRows, SameExports
<1>18. ASSUME NEW e \in Exports, WriteReport(e) PROVE RowsType'
  BY <1>18, WriteReportStep DEF Moves, OthersKeep, SameRows, SameExports
<1> QED
  BY <1>1, <1>2, <1>3, <1>4, <1>5, <1>6, <1>7, <1>8, <1>9,
     <1>10, <1>11, <1>12, <1>13, <1>14, <1>15, <1>16, <1>17, <1>18
  DEF ResultsNext, AnalysisStep, ExportStep

LEMMA AloneKept ==
    ASSUME ResultsInv, ResultsNext
    PROVE  Alone'
<1> USE ResultsAssumption DEF ResultsInv, Transactions, AskedType, RowsType, Alone, Kinds
<1>1. ASSUME NewProjection PROVE Alone'
  BY <1>1 DEF NewProjection
<1>2. ASSUME NEW s \in Saves, ReadLatest(s) \/ AddRevision(s) PROVE Alone'
  BY <1>2 DEF ReadLatest, AddRevision
<1>3. ASSUME NEW p \in Servers, EvictProgress(p) PROVE Alone'
  BY <1>3 DEF EvictProgress
<1>4. ASSUME NEW a \in Analyses, ReadDesign(a) PROVE Alone'
  BY <1>4 DEF ReadDesign
<1>5. ASSUME NEW a \in Analyses, ReadConfiguration(a) PROVE Alone'
  BY <1>5 DEF ReadConfiguration
<1>6. ASSUME NEW a \in Analyses, Look(a) PROVE Alone'
  BY <1>6 DEF Look, Goes
<1>7. ASSUME NEW a \in Analyses, DeleteInvalid(a) PROVE Alone'
  BY <1>7 DEF DeleteInvalid, Goes
<1>8. ASSUME NEW a \in Analyses, Acquire(a) PROVE Alone'
  BY <1>8 DEF Acquire, Goes
<1>9. ASSUME NEW a \in Analyses, LookAgain(a) PROVE Alone'
  BY <1>9, LookAgainStep DEF Moves, OthersKeep, SameRows, SameExports
<1>10. ASSUME NEW a \in Analyses, Solved(a) PROVE Alone'
  BY <1>10 DEF Solved, Goes
<1>11. ASSUME NEW a \in Analyses, Store(a) PROVE Alone'
  BY <1>11, StoreStep DEF Moves, OthersKeep, SameRows, SameExports
<1>12. ASSUME NEW a \in Analyses, SolveFails(a) PROVE Alone'
  BY <1>12, SolveFailsStep DEF Moves, OthersKeep, SameRows, SameExports
<1>13. ASSUME NEW e \in Exports, ReadDesign(e) PROVE Alone'
  BY <1>13 DEF ReadDesign
<1>14. ASSUME NEW e \in Exports, ReadConfiguration(e) PROVE Alone'
  BY <1>14 DEF ReadConfiguration
<1>15. ASSUME NEW e \in Exports, Compare(e) PROVE Alone'
  BY <1>15 DEF Compare, Goes
<1>16. ASSUME NEW e \in Exports, LockRow(e) PROVE Alone'
  BY <1>16, ExportStays DEF OthersKeep
<1>17. ASSUME NEW e \in Exports, LookForReport(e) PROVE Alone'
  BY <1>17, ExportStays DEF OthersKeep
<1>18. ASSUME NEW e \in Exports, WriteReport(e) PROVE Alone'
  BY <1>18, WriteReportStep DEF Moves, OthersKeep, SameRows, SameExports
<1> QED
  BY <1>1, <1>2, <1>3, <1>4, <1>5, <1>6, <1>7, <1>8, <1>9,
     <1>10, <1>11, <1>12, <1>13, <1>14, <1>15, <1>16, <1>17, <1>18
  DEF ResultsNext, AnalysisStep, ExportStep

LEMMA NeededKept ==
    ASSUME ResultsInv, ResultsNext
    PROVE  Needed'
<1> USE ResultsAssumption DEF ResultsInv, Transactions, AskedType, RowsType, Alone, Needed, Kinds
<1>1. ASSUME NewProjection PROVE Needed'
  BY <1>1 DEF NewProjection
<1>2. ASSUME NEW s \in Saves, ReadLatest(s) \/ AddRevision(s) PROVE Needed'
  BY <1>2 DEF ReadLatest, AddRevision
<1>3. ASSUME NEW p \in Servers, EvictProgress(p) PROVE Needed'
  BY <1>3 DEF EvictProgress
<1>4. ASSUME NEW a \in Analyses, ReadDesign(a) PROVE Needed'
  BY <1>4 DEF ReadDesign
<1>5. ASSUME NEW a \in Analyses, ReadConfiguration(a) PROVE Needed'
  BY <1>5 DEF ReadConfiguration
<1>6. ASSUME NEW a \in Analyses, Look(a) PROVE Needed'
  BY <1>6 DEF Look, Goes
<1>7. ASSUME NEW a \in Analyses, DeleteInvalid(a) PROVE Needed'
  BY <1>7 DEF DeleteInvalid, Goes
<1>8. ASSUME NEW a \in Analyses, Acquire(a) PROVE Needed'
  BY <1>8 DEF Acquire, Goes
<1>9. ASSUME NEW a \in Analyses, LookAgain(a) PROVE Needed'
  BY <1>9, LookAgainStep DEF Moves, OthersKeep, SameRows, SameExports
<1>10. ASSUME NEW a \in Analyses, Solved(a) PROVE Needed'
  BY <1>10 DEF Solved, Goes
<1>11. ASSUME NEW a \in Analyses, Store(a) PROVE Needed'
  BY <1>11, StoreStep DEF Moves, OthersKeep, SameRows, SameExports
<1>12. ASSUME NEW a \in Analyses, SolveFails(a) PROVE Needed'
  BY <1>12, SolveFailsStep DEF Moves, OthersKeep, SameRows, SameExports
<1>13. ASSUME NEW e \in Exports, ReadDesign(e) PROVE Needed'
  BY <1>13 DEF ReadDesign
<1>14. ASSUME NEW e \in Exports, ReadConfiguration(e) PROVE Needed'
  BY <1>14 DEF ReadConfiguration
<1>15. ASSUME NEW e \in Exports, Compare(e) PROVE Needed'
  BY <1>15 DEF Compare, Goes
<1>16. ASSUME NEW e \in Exports, LockRow(e) PROVE Needed'
  BY <1>16, LockRowStep DEF Moves, OthersKeep, SameRows, SameExports
<1>17. ASSUME NEW e \in Exports, LookForReport(e) PROVE Needed'
  BY <1>17, LookForReportStep DEF Moves, OthersKeep, SameRows, SameExports
<1>18. ASSUME NEW e \in Exports, WriteReport(e) PROVE Needed'
  BY <1>18, WriteReportStep DEF Moves, OthersKeep, SameRows, SameExports
<1> QED
  BY <1>1, <1>2, <1>3, <1>4, <1>5, <1>6, <1>7, <1>8, <1>9,
     <1>10, <1>11, <1>12, <1>13, <1>14, <1>15, <1>16, <1>17, <1>18
  DEF ResultsNext, AnalysisStep, ExportStep

LEMMA DeletedKept ==
    ASSUME ResultsInv, ResultsNext
    PROVE  Deleted'
<1> USE ResultsAssumption DEF ResultsInv, Transactions, AskedType, RowsType, Deleted, Kinds
<1>1. ASSUME NewProjection PROVE Deleted'
  BY <1>1 DEF NewProjection
<1>2. ASSUME NEW s \in Saves, ReadLatest(s) \/ AddRevision(s) PROVE Deleted'
  BY <1>2 DEF ReadLatest, AddRevision
<1>3. ASSUME NEW p \in Servers, EvictProgress(p) PROVE Deleted'
  BY <1>3 DEF EvictProgress
<1>4. ASSUME NEW a \in Analyses, ReadDesign(a) PROVE Deleted'
  BY <1>4 DEF ReadDesign
<1>5. ASSUME NEW a \in Analyses, ReadConfiguration(a) PROVE Deleted'
  BY <1>5 DEF ReadConfiguration
<1>6. ASSUME NEW a \in Analyses, Look(a) PROVE Deleted'
  BY <1>6 DEF Look, Goes
<1>7. ASSUME NEW a \in Analyses, DeleteInvalid(a) PROVE Deleted'
  BY <1>7 DEF DeleteInvalid, Goes
<1>8. ASSUME NEW a \in Analyses, Acquire(a) PROVE Deleted'
  BY <1>8 DEF Acquire, Goes
<1>9. ASSUME NEW a \in Analyses, LookAgain(a) PROVE Deleted'
  BY <1>9, LookAgainStep DEF Moves, OthersKeep, SameRows, SameExports
<1>10. ASSUME NEW a \in Analyses, Solved(a) PROVE Deleted'
  BY <1>10 DEF Solved, Goes
<1>11. ASSUME NEW a \in Analyses, Store(a) PROVE Deleted'
  BY <1>11, StoreStep DEF Moves, OthersKeep, SameRows, SameExports
<1>12. ASSUME NEW a \in Analyses, SolveFails(a) PROVE Deleted'
  BY <1>12, SolveFailsStep DEF Moves, OthersKeep, SameRows, SameExports
<1>13. ASSUME NEW e \in Exports, ReadDesign(e) PROVE Deleted'
  BY <1>13 DEF ReadDesign
<1>14. ASSUME NEW e \in Exports, ReadConfiguration(e) PROVE Deleted'
  BY <1>14 DEF ReadConfiguration
<1>15. ASSUME NEW e \in Exports, Compare(e) PROVE Deleted'
  BY <1>15 DEF Compare, Goes
<1>16. ASSUME NEW e \in Exports, LockRow(e) PROVE Deleted'
  BY <1>16, ExportStays DEF OthersKeep
<1>17. ASSUME NEW e \in Exports, LookForReport(e) PROVE Deleted'
  BY <1>17, ExportStays DEF OthersKeep
<1>18. ASSUME NEW e \in Exports, WriteReport(e) PROVE Deleted'
  BY <1>18, WriteReportStep DEF Moves, OthersKeep, SameRows, SameExports
<1> QED
  BY <1>1, <1>2, <1>3, <1>4, <1>5, <1>6, <1>7, <1>8, <1>9,
     <1>10, <1>11, <1>12, <1>13, <1>14, <1>15, <1>16, <1>17, <1>18
  DEF ResultsNext, AnalysisStep, ExportStep

\* An export stays selected while another request goes on, which loses it no lock,
\* and leaves the row that it holds, and reports it nothing of that row.
LEMMA OthersStaySelected ==
    ASSUME ResultsInv, NEW r \in Transactions, NEW e \in Exports, r # e,
           asked'[e] = asked[e], SameExports, OthersKeep(r),
           asked[e].state \in {"holding", "writing"} =>
              /\ row'[asked[e].key] = row[asked[e].key]
              /\ \A n : <<asked[e].key, n>> \in reports' => <<asked[e].key, n>> \in reports
    PROVE  SelectedBy(e)'
<1>1. SelectedBy(e)
  BY DEF ResultsInv, Selected
<1>2. asked[e].state \in {"holding", "writing"} =>
         rowLock[asked[e].key] = e /\ rowLock'[asked[e].key] = e
  BY <1>1, ResultsAssumption DEF SelectedBy, OthersKeep, ResultsInv, Kinds, Transactions
<1>3. SelectedBy(e)' <=>
         /\ asked[e].state \in {"selecting", "holding", "writing", "created", "reused"} =>
               asked[e].key = reviewed[e] /\ seen[e] # 0
         /\ asked[e].state \in {"holding", "writing"} =>
               rowLock'[asked[e].key] = e /\ row'[asked[e].key].id = seen[e]
         /\ asked[e].state = "writing" =>
               row'[asked[e].key].valid /\ <<asked[e].key, seen[e]>> \notin reports'
  BY DEF SelectedBy, SameExports
<1> QED BY <1>1, <1>2, <1>3 DEF SelectedBy

LEMMA SelectedKept ==
    ASSUME ResultsInv, ResultsNext
    PROVE  Selected'
<1> USE ResultsAssumption DEF ResultsInv, Transactions
<1>1. ASSUME NewProjection PROVE Selected'
  BY <1>1 DEF NewProjection, Selected, SelectedBy
<1>2. ASSUME NEW s \in Saves, ReadLatest(s) \/ AddRevision(s) PROVE Selected'
  BY <1>2 DEF ReadLatest, AddRevision, Selected, SelectedBy
<1>3. ASSUME NEW p \in Servers, EvictProgress(p) PROVE Selected'
  BY <1>3 DEF EvictProgress, Selected, SelectedBy
<1>4. ASSUME NEW a \in Analyses, ReadDesign(a) PROVE Selected'
  BY <1>4 DEF ReadDesign, AskedType, Selected, SelectedBy
<1>5. ASSUME NEW a \in Analyses, ReadConfiguration(a) PROVE Selected'
  BY <1>5 DEF ReadConfiguration, AskedType, Selected, SelectedBy
<1>6. ASSUME NEW a \in Analyses, Look(a) PROVE Selected'
  BY <1>6 DEF Look, Goes, AskedType, Selected, SelectedBy
<1>7. ASSUME NEW a \in Analyses, DeleteInvalid(a) PROVE Selected'
  BY <1>7 DEF DeleteInvalid, Goes, AskedType, RowsType, Selected, SelectedBy
<1>8. ASSUME NEW a \in Analyses, Acquire(a) PROVE Selected'
  BY <1>8 DEF Acquire, Goes, AskedType, Selected, SelectedBy
<1>9. ASSUME NEW a \in Analyses, LookAgain(a) PROVE Selected'
  BY <1>9, LookAgainStep, OthersStaySelected DEF Moves, SameRows, Selected
<1>10. ASSUME NEW a \in Analyses, Solved(a) PROVE Selected'
  BY <1>10 DEF Solved, Goes, AskedType, Selected, SelectedBy
<1>11. ASSUME NEW a \in Analyses, Store(a) PROVE Selected'
 <2> SUFFICES ASSUME NEW e \in Exports PROVE SelectedBy(e)'
   BY DEF Selected
 <2>1. asked[a].state = "storing" /\ asked[a].key \in Keys /\ ~row[asked[a].key].valid
   BY <1>11, StoreStep DEF Moves
 <2>2. asked[e].state \in {"holding", "writing"} => asked[e].key # asked[a].key
  <3>1. row[asked[a].key].id # 0 => rowLock[asked[a].key] = a
    BY <2>1 DEF Deleted
  <3>2. asked[e].state \in {"holding", "writing"} =>
           rowLock[asked[e].key] = e /\ row[asked[e].key].id # 0
    BY DEF Selected, SelectedBy
  <3> QED BY <3>1, <3>2
 <2>3. asked[e].state \in {"holding", "writing"} => asked[e].key \in Keys
   BY DEF Kinds
 <2> QED BY <1>11, <2>2, <2>3, StoreStep, OthersStaySelected DEF Moves
<1>12. ASSUME NEW a \in Analyses, SolveFails(a) PROVE Selected'
  BY <1>12, SolveFailsStep, OthersStaySelected DEF Moves, SameRows, Selected
<1>13. ASSUME NEW e \in Exports, ReadDesign(e) PROVE Selected'
  BY <1>13 DEF ReadDesign, AskedType, ReportsType, Selected, SelectedBy
<1>14. ASSUME NEW e \in Exports, ReadConfiguration(e) PROVE Selected'
  BY <1>14 DEF ReadConfiguration, AskedType, Selected, SelectedBy
<1>15. ASSUME NEW e \in Exports, Compare(e) PROVE Selected'
  BY <1>15 DEF Compare, Goes, AskedType, ReportsType, Selected, SelectedBy
<1>16. ASSUME NEW e \in Exports, LockRow(e) PROVE Selected'
 <2>1. ASSUME NEW x \in Exports, x # e PROVE SelectedBy(x)'
   BY <1>16, <2>1, LockRowStep, ExportStays, OthersStaySelected DEF Moves, SameRows
 <2>2. SelectedBy(e)'
   BY <1>16, LockRowStep DEF Moves, SameRows, SameExports, Selected, SelectedBy
 <2> QED BY <2>1, <2>2 DEF Selected
<1>17. ASSUME NEW e \in Exports, LookForReport(e) PROVE Selected'
 <2>1. ASSUME NEW x \in Exports, x # e PROVE SelectedBy(x)'
   BY <1>17, <2>1, LookForReportStep, ExportStays, OthersStaySelected DEF Moves, SameRows
 <2>2. SelectedBy(e)'
   BY ZenonT(60), <1>17, LookForReportStep DEF Moves, SameRows, SameExports, Selected, SelectedBy
 <2> QED BY <2>1, <2>2 DEF Selected
<1>18. ASSUME NEW e \in Exports, WriteReport(e) PROVE Selected'
 <2>1. ASSUME NEW x \in Exports, x # e PROVE SelectedBy(x)'
  <3>1. asked[e].state = "writing" /\ rowLock[asked[e].key] = e
    BY <1>18 DEF WriteReport, Selected, SelectedBy
  <3>2. asked[x].state \in {"holding", "writing"} => asked[e].key # asked[x].key
    BY ZenonT(60), <2>1, <3>1 DEF Selected, SelectedBy
  <3> QED BY <1>18, <2>1, <3>2, WriteReportStep, OthersStaySelected DEF Moves
 <2>2. SelectedBy(e)'
   BY <1>18, WriteReportStep DEF Moves, SameExports, Selected, SelectedBy
 <2> QED BY <2>1, <2>2 DEF Selected
<1> QED
  BY <1>1, <1>2, <1>3, <1>4, <1>5, <1>6, <1>7, <1>8, <1>9,
     <1>10, <1>11, <1>12, <1>13, <1>14, <1>15, <1>16, <1>17, <1>18
  DEF ResultsNext, AnalysisStep, ExportStep

LEMMA ReportedKept ==
    ASSUME ResultsInv, ResultsNext
    PROVE  Reported'
<1> USE ResultsAssumption DEF ResultsInv, Transactions, AskedType, RowsType, ReportsType, Reported, Selected, SelectedBy, Kinds
<1>1. ASSUME NewProjection PROVE Reported'
  BY <1>1 DEF NewProjection
<1>2. ASSUME NEW s \in Saves, ReadLatest(s) \/ AddRevision(s) PROVE Reported'
  BY <1>2 DEF ReadLatest, AddRevision
<1>3. ASSUME NEW p \in Servers, EvictProgress(p) PROVE Reported'
  BY <1>3 DEF EvictProgress
<1>4. ASSUME NEW a \in Analyses, ReadDesign(a) PROVE Reported'
  BY <1>4 DEF ReadDesign
<1>5. ASSUME NEW a \in Analyses, ReadConfiguration(a) PROVE Reported'
  BY <1>5 DEF ReadConfiguration
<1>6. ASSUME NEW a \in Analyses, Look(a) PROVE Reported'
  BY <1>6 DEF Look, Goes
<1>7. ASSUME NEW a \in Analyses, DeleteInvalid(a) PROVE Reported'
  BY <1>7 DEF DeleteInvalid, Goes
<1>8. ASSUME NEW a \in Analyses, Acquire(a) PROVE Reported'
  BY <1>8 DEF Acquire, Goes
<1>9. ASSUME NEW a \in Analyses, LookAgain(a) PROVE Reported'
  BY <1>9, LookAgainStep DEF Moves, OthersKeep, SameRows, SameExports
<1>10. ASSUME NEW a \in Analyses, Solved(a) PROVE Reported'
  BY <1>10 DEF Solved, Goes
<1>11. ASSUME NEW a \in Analyses, Store(a) PROVE Reported'
  BY <1>11, StoreStep DEF Moves, OthersKeep, SameRows, SameExports
<1>12. ASSUME NEW a \in Analyses, SolveFails(a) PROVE Reported'
  BY <1>12, SolveFailsStep DEF Moves, OthersKeep, SameRows, SameExports
<1>13. ASSUME NEW e \in Exports, ReadDesign(e) PROVE Reported'
  BY <1>13 DEF ReadDesign
<1>14. ASSUME NEW e \in Exports, ReadConfiguration(e) PROVE Reported'
  BY <1>14 DEF ReadConfiguration
<1>15. ASSUME NEW e \in Exports, Compare(e) PROVE Reported'
  BY <1>15 DEF Compare, Goes
<1>16. ASSUME NEW e \in Exports, LockRow(e) PROVE Reported'
  BY <1>16, LockRowStep DEF SameRows
<1>17. ASSUME NEW e \in Exports, LookForReport(e) PROVE Reported'
 <2>1. SameRows
   BY <1>17, LookForReportStep
 <2> QED BY <2>1 DEF SameRows
<1>18. ASSUME NEW e \in Exports, WriteReport(e) PROVE Reported'
  BY <1>18, WriteReportStep DEF Moves, OthersKeep, SameRows, SameExports
<1> QED
  BY <1>1, <1>2, <1>3, <1>4, <1>5, <1>6, <1>7, <1>8, <1>9,
     <1>10, <1>11, <1>12, <1>13, <1>14, <1>15, <1>16, <1>17, <1>18
  DEF ResultsNext, AnalysisStep, ExportStep

LEMMA NoCollisionKept ==
    ASSUME ResultsInv, ResultsNext
    PROVE  NoCollision'
<1> USE ResultsAssumption DEF ResultsInv, Transactions, AskedType, NoCollision, Kinds
<1>1. ASSUME NewProjection PROVE NoCollision'
  BY <1>1 DEF NewProjection
<1>2. ASSUME NEW s \in Saves, ReadLatest(s) \/ AddRevision(s) PROVE NoCollision'
  BY <1>2 DEF ReadLatest, AddRevision
<1>3. ASSUME NEW p \in Servers, EvictProgress(p) PROVE NoCollision'
  BY <1>3 DEF EvictProgress
<1>4. ASSUME NEW a \in Analyses, ReadDesign(a) PROVE NoCollision'
  BY <1>4 DEF ReadDesign
<1>5. ASSUME NEW a \in Analyses, ReadConfiguration(a) PROVE NoCollision'
  BY <1>5 DEF ReadConfiguration
<1>6. ASSUME NEW a \in Analyses, Look(a) PROVE NoCollision'
  BY <1>6 DEF Look, Goes
<1>7. ASSUME NEW a \in Analyses, DeleteInvalid(a) PROVE NoCollision'
  BY <1>7 DEF DeleteInvalid, Goes
<1>8. ASSUME NEW a \in Analyses, Acquire(a) PROVE NoCollision'
  BY <1>8 DEF Acquire, Goes
<1>9. ASSUME NEW a \in Analyses, LookAgain(a) PROVE NoCollision'
  BY <1>9, LookAgainStep DEF Moves, OthersKeep, SameRows, SameExports
<1>10. ASSUME NEW a \in Analyses, Solved(a) PROVE NoCollision'
  BY <1>10 DEF Solved, Goes
<1>11. ASSUME NEW a \in Analyses, Store(a) PROVE NoCollision'
  BY <1>11, StoreStep DEF Moves, OthersKeep, SameRows, SameExports
<1>12. ASSUME NEW a \in Analyses, SolveFails(a) PROVE NoCollision'
  BY <1>12, SolveFailsStep DEF Moves, OthersKeep, SameRows, SameExports
<1>13. ASSUME NEW e \in Exports, ReadDesign(e) PROVE NoCollision'
  BY <1>13 DEF ReadDesign
<1>14. ASSUME NEW e \in Exports, ReadConfiguration(e) PROVE NoCollision'
  BY <1>14 DEF ReadConfiguration
<1>15. ASSUME NEW e \in Exports, Compare(e) PROVE NoCollision'
  BY <1>15 DEF Compare, Goes
<1>16. ASSUME NEW e \in Exports, LockRow(e) PROVE NoCollision'
  BY <1>16, LockRowStep DEF Moves, OthersKeep, SameRows, SameExports
<1>17. ASSUME NEW e \in Exports, LookForReport(e) PROVE NoCollision'
  BY <1>17, LookForReportStep DEF Moves, OthersKeep, SameRows, SameExports
<1>18. ASSUME NEW e \in Exports, WriteReport(e) PROVE NoCollision'
  BY <1>18, WriteReportStep DEF Moves, OthersKeep, SameRows, SameExports
<1> QED
  BY <1>1, <1>2, <1>3, <1>4, <1>5, <1>6, <1>7, <1>8, <1>9,
     <1>10, <1>11, <1>12, <1>13, <1>14, <1>15, <1>16, <1>17, <1>18
  DEF ResultsNext, AnalysisStep, ExportStep

LEMMA HandedOutKept ==
    ASSUME ResultsInv, ResultsNext
    PROVE  HandedOut'
<1> USE ResultsAssumption DEF ResultsInv, Transactions, AskedType, ReportsType, HandedOut, Selected, SelectedBy, Reported, Kinds
<1>1. ASSUME NewProjection PROVE HandedOut'
  BY <1>1 DEF NewProjection
<1>2. ASSUME NEW s \in Saves, ReadLatest(s) \/ AddRevision(s) PROVE HandedOut'
  BY <1>2 DEF ReadLatest, AddRevision
<1>3. ASSUME NEW p \in Servers, EvictProgress(p) PROVE HandedOut'
  BY <1>3 DEF EvictProgress
<1>4. ASSUME NEW a \in Analyses, ReadDesign(a) PROVE HandedOut'
  BY <1>4 DEF ReadDesign
<1>5. ASSUME NEW a \in Analyses, ReadConfiguration(a) PROVE HandedOut'
  BY <1>5 DEF ReadConfiguration
<1>6. ASSUME NEW a \in Analyses, Look(a) PROVE HandedOut'
  BY <1>6 DEF Look, Goes
<1>7. ASSUME NEW a \in Analyses, DeleteInvalid(a) PROVE HandedOut'
  BY <1>7 DEF DeleteInvalid, Goes
<1>8. ASSUME NEW a \in Analyses, Acquire(a) PROVE HandedOut'
  BY <1>8 DEF Acquire, Goes
<1>9. ASSUME NEW a \in Analyses, LookAgain(a) PROVE HandedOut'
  BY SMTT(30), <1>9, LookAgainStep DEF Moves, OthersKeep, SameRows, SameExports
<1>10. ASSUME NEW a \in Analyses, Solved(a) PROVE HandedOut'
  BY <1>10 DEF Solved, Goes
<1>11. ASSUME NEW a \in Analyses, Store(a) PROVE HandedOut'
  BY <1>11, StoreStep DEF Moves, OthersKeep, SameRows, SameExports
<1>12. ASSUME NEW a \in Analyses, SolveFails(a) PROVE HandedOut'
  BY <1>12, SolveFailsStep DEF Moves, OthersKeep, SameRows, SameExports
<1>13. ASSUME NEW e \in Exports, ReadDesign(e) PROVE HandedOut'
  BY <1>13 DEF ReadDesign
<1>14. ASSUME NEW e \in Exports, ReadConfiguration(e) PROVE HandedOut'
  BY <1>14 DEF ReadConfiguration
<1>15. ASSUME NEW e \in Exports, Compare(e) PROVE HandedOut'
  BY <1>15 DEF Compare, Goes
<1>16. ASSUME NEW e \in Exports, LockRow(e) PROVE HandedOut'
  BY <1>16, LockRowStep DEF Moves, OthersKeep, SameRows, SameExports
<1>17. ASSUME NEW e \in Exports, LookForReport(e) PROVE HandedOut'
 <2>1. SameRows /\ SameExports
   BY <1>17, LookForReportStep
 <2>2. CASE Moves(e, {"holding"}, {"reused"}) /\ <<asked[e].key, seen[e]>> \in reports
   BY <2>1, <2>2 DEF Moves, SameRows, SameExports
 <2>3. CASE Moves(e, {"holding"}, {"blocked"}) \/ Moves(e, {"holding"}, {"writing"})
   BY <2>1, <2>3 DEF Moves, SameRows, SameExports
 <2> QED BY <1>17, <2>2, <2>3, LookForReportStep
<1>18. ASSUME NEW e \in Exports, WriteReport(e) PROVE HandedOut'
  BY <1>18, WriteReportStep DEF Moves, OthersKeep, SameRows, SameExports
<1> QED
  BY <1>1, <1>2, <1>3, <1>4, <1>5, <1>6, <1>7, <1>8, <1>9,
     <1>10, <1>11, <1>12, <1>13, <1>14, <1>15, <1>16, <1>17, <1>18
  DEF ResultsNext, AnalysisStep, ExportStep

LEMMA InputsTypeKept ==
    ASSUME ResultsInv, ResultsNext
    PROVE  InputsType'
<1> USE ResultsAssumption DEF ResultsInv, InputsType
<1>1. ASSUME NewProjection PROVE InputsType'
  BY <1>1 DEF NewProjection
<1>2. ASSUME NEW s \in Saves, ReadLatest(s) PROVE InputsType'
  BY <1>2 DEF ReadLatest
<1>3. ASSUME NEW s \in Saves, AddRevision(s) PROVE InputsType'
 <2>1. save[s].digest \in Configurations
   BY <1>3 DEF AddRevision
 <2>2. revisions \in Seq(Configurations)
   OBVIOUS
 <2>3. Append(revisions, save[s].digest) \in Seq(Configurations)
   BY <2>1, <2>2, AppendProperties
 <2>4. revisions' \in {revisions, Append(revisions, save[s].digest)}
   BY <1>3 DEF AddRevision
 <2>5. revisions' \in Seq(Configurations)
   BY <2>2, <2>3, <2>4
 <2> QED BY <1>3, <2>5 DEF AddRevision
<1>4. ASSUME UNCHANGED <<design, compiles, revisions, save>> PROVE InputsType'
  BY <1>4
<1> QED
  BY <1>1, <1>2, <1>3, <1>4
  DEF ResultsNext, AnalysisStep, ExportStep, EvictProgress, ReadDesign, ReadConfiguration, Look,
      DeleteInvalid, Acquire, LookAgain, Solved, Store, SolveFails, Compare, LockRow,
      LookForReport, WriteReport

LEMMA ReportsTypeKept ==
    ASSUME ResultsInv, ResultsNext
    PROVE  ReportsType'
<1> USE ResultsAssumption DEF ResultsInv, Transactions
<1>1. ASSUME UNCHANGED <<reviewed, seen, reports>> PROVE ReportsType'
  BY <1>1 DEF ReportsType
<1>2. ASSUME NEW r \in Transactions, ReadDesign(r) PROVE ReportsType'
  BY <1>2 DEF ReadDesign, ReportsType, AskedType
<1>3. ASSUME NEW e \in Exports, Compare(e) PROVE ReportsType'
 <2>1. row[asked[e].key].id \in Nat
   BY <1>3 DEF Compare, Kinds, RowsType
 <2> QED BY <1>3, <2>1 DEF Compare, ReportsType
<1>4. ASSUME NEW a \in Analyses, Store(a) PROVE ReportsType'
  BY <1>4 DEF Store, ReportsType
<1>5. ASSUME NEW e \in Exports, WriteReport(e) PROVE ReportsType'
 <2>1. asked[e].key \in Keys
   BY <1>5 DEF WriteReport, Kinds
 <2> QED BY <1>5, <2>1 DEF WriteReport, ReportsType
<1> QED
  BY <1>1, <1>2, <1>3, <1>4, <1>5
  DEF ResultsNext, AnalysisStep, ExportStep, NewProjection, ReadLatest, AddRevision, EvictProgress,
      ReadConfiguration, Look, DeleteInvalid, Acquire, LookAgain, Solved, SolveFails, LockRow,
      LookForReport

LEMMA ShownTypeKept ==
    ASSUME ResultsInv, ResultsNext
    PROVE  ShownType'
<1> USE DEF ResultsInv, ShownType
<1>1. ASSUME UNCHANGED <<server, progress>> PROVE ShownType'
  BY <1>1
<1>2. ASSUME NEW a \in Analyses, LookAgain(a) PROVE ShownType'
 <2>1. asked[a].key \in Keys
   BY <1>2 DEF LookAgain, Kinds, Transactions
 <2> QED BY <1>2, <2>1 DEF LookAgain, Begun
<1>3. ASSUME NEW a \in Analyses, NEW state \in {"failed", "complete"},
             progress' = Finished(a, state), UNCHANGED server
      PROVE  ShownType'
 <2>1. CASE progress[server[a]] = Idle
   BY <1>3, <2>1 DEF Finished
 <2>2. CASE progress[server[a]] # Idle
  <3>1. progress[server[a]] \in [state : {"running", "complete", "failed"}, key : Keys]
    BY <2>2
  <3> QED BY <1>3, <2>2, <3>1 DEF Finished
 <2> QED BY <2>1, <2>2
<1>4. ASSUME NEW a \in Analyses, Store(a) \/ SolveFails(a) PROVE ShownType'
  BY <1>3, <1>4 DEF Store, SolveFails
<1>5. ASSUME NEW p \in Servers, EvictProgress(p) PROVE ShownType'
  BY <1>5 DEF EvictProgress
<1> QED
  BY <1>1, <1>2, <1>4, <1>5
  DEF ResultsNext, AnalysisStep, ExportStep, NewProjection, ReadLatest, AddRevision, ReadDesign,
      ReadConfiguration, Look, DeleteInvalid, Acquire, Solved, Compare, LockRow, LookForReport,
      WriteReport

LEMMA ResultsStepInv == ResultsInv /\ [ResultsNext]_resultsVars => ResultsInv'
<1> SUFFICES ASSUME ResultsInv, [ResultsNext]_resultsVars PROVE ResultsInv'
  OBVIOUS
<1>1. CASE UNCHANGED resultsVars
 <2>1. AskedType' /\ RowsType' /\ ReportsType' /\ InputsType' /\ ShownType'
   BY <1>1 DEF resultsVars, ResultsInv, AskedType, RowsType, ReportsType, InputsType, ShownType
 <2>2. Kinds' /\ Alone' /\ Needed' /\ Deleted'
   BY <1>1 DEF resultsVars, ResultsInv, Kinds, Alone, Needed, Deleted
 <2>3. Selected' /\ Reported' /\ NoCollision' /\ HandedOut'
   BY <1>1 DEF resultsVars, ResultsInv, Selected, SelectedBy, Reported, NoCollision, HandedOut
 <2> QED BY <2>1, <2>2, <2>3 DEF ResultsInv
<1>2. CASE ResultsNext
  BY <1>2, AskedTypeKept, RowsTypeKept, ReportsTypeKept, InputsTypeKept, ShownTypeKept, KindsKept,
     AloneKept, NeededKept, DeletedKept, SelectedKept, ReportedKept, NoCollisionKept, HandedOutKept
  DEF ResultsInv
<1> QED BY <1>1, <1>2

LEMMA ResultsInvariant == ResultsSpec => []ResultsInv
  BY ResultsInitInv, ResultsStepInv, PTL DEF ResultsSpec

\* Every part of the saved results has its type, in every reachable state.
THEOREM ResultsTypeCorrect == ResultsSpec => []ResultsTypeOK
  BY ResultsInvariant, InvTypes, PTL

\* The advisory lock with the second look under it leaves one solve of a key, and
\* none of what can be read; nobody fails on a row another wrote first
\* (_solve_cached_structural_analysis).
THEOREM SolveCorrect == ResultsSpec => []NoDuplicateSolve
  BY ResultsInvariant, InvShows, PTL

\* An export hands out the one report of the result its user reviewed
\* (_active_report_export).
THEOREM ReportCorrect == ResultsSpec => []ReportIsOfReviewed
  BY ResultsInvariant, InvShows, PTL

(***************************************************************************)
(* What an edit is told of the earlier ones.  The context is good: it is   *)
(* the end of what came before the edit, within the limits.  A fold takes  *)
(* a context from edit to edit, so what it is about is said of any         *)
(* sequence of edits h, and not of `chats` only: a step makes another.     *)
(***************************************************************************)
Turn(h, i) == h[i].prompt # BlankPrompt /\ h[i].status # "unclear"

CostIn(h, price, talked) == FoldLeft(LAMBDA sum, i : sum + price[h[i].prompt], 0, talked)

NewestIn(h, lines, limit) ==
    LET fits(n) == CostIn(h, LineCost, SubSeq(lines, n + 1, Len(lines))) <= limit
        n == CHOOSE n \in 0..Len(lines) : fits(n) /\ \A k \in 0..(n - 1) : ~fits(k)
    IN  SubSeq(lines, n + 1, Len(lines))

AdvanceIn(h, talk, i) ==
    LET turns == Append(talk.recent, i)
        lines(n) == IF n = 0 THEN talk.summary
                    ELSE NewestIn(h, talk.summary \o SubSeq(turns, 1, n), MaxSummary)
        rest(n) == SubSeq(turns, n + 1, Len(turns))
        fits(n) == Len(rest(n)) <= MaxTurns
                   /\ (rest(n) = <<>> \/ CostIn(h, LineCost, lines(n)) + CostIn(h, TurnCost, rest(n)) <= MaxRendered)
        folded == CHOOSE n \in 0..Len(turns) : fits(n) /\ \A k \in 0..(n - 1) : ~fits(k)
    IN  [summary |-> NewestIn(h, lines(folded), MaxRendered - CostIn(h, TurnCost, rest(folded))),
         recent |-> rest(folded)]

LEMMA AdvanceIsIn == ASSUME NEW talk, NEW i PROVE Advance(talk, i) = AdvanceIn(chats, talk, i)
  BY DEF Advance, AdvanceIn, NewestLines, NewestIn, LinesCost, TurnsCost, CostIn, Rendered

----
(* The folds of the modules, as what they do with one element.             *)
Costs(price) == [kind |-> "costs", price |-> price]
Overs == [kind |-> "over"]
Turns == [kind |-> "turns"]
Talks == [kind |-> "talks"]
Placing == [kind |-> "placing"]
Nearing == [kind |-> "nearing"]

\* The ports that are cut at x.
PortsAt(cuts, x) == {cut.port : cut \in {k \in cuts : k.at = x}}

\* The stations with what is cut at x.
Placed(cuts, made, x) ==
    IF PortsAt(cuts, x) = {} THEN made
    ELSE IF made # <<>> /\ x - Last(made).at <= 1
    THEN [made EXCEPT ![Len(made)].ports = @ \cup PortsAt(cuts, x)]
    ELSE Append(made, [at |-> x, ports |-> PortsAt(cuts, x), first |-> FirstOf(PortsAt(cuts, x))])

FoldStep(h, how, done, i) ==
    IF how.kind = "costs" THEN done + how.price[h[i].prompt]
    ELSE IF how.kind = "over" THEN IF h[i].status # "active" THEN Append(done, i) ELSE done
    ELSE IF how.kind = "turns" THEN IF Turn(h, i) THEN Append(done, i) ELSE done
    ELSE IF how.kind = "placing"
    THEN Placed(h, done, i)
    ELSE IF how.kind = "nearing" THEN done \cup UNION {t \in h : t \cap done # {}}
    ELSE IF Turn(h, i) THEN AdvanceIn(h, done, i) ELSE done

FoldTo(g, h, how, b, c, n) ==
    g = [T \in SUBSET (1..n) |->
            IF T = {} THEN b ELSE FoldStep(h, how, g[T \ {Max(T)}], c[Max(T)])]

LEMMA FoldMore ==
    ASSUME NEW h, NEW how, NEW b, NEW c, NEW n \in Nat, \E g : FoldTo(g, h, how, b, c, n)
    PROVE  \E g : FoldTo(g, h, how, b, c, n + 1)
<1>1. PICK g : FoldTo(g, h, how, b, c, n)
  OBVIOUS
<1>2. PICK m : m = n + 1
  OBVIOUS
<1>3. PICK f : f = [T \in SUBSET (1..m) |->
                       IF T = {} THEN b
                       ELSE FoldStep(h, how, g[T \ {Max(T)}], c[Max(T)])]
  OBVIOUS
<1>4. ASSUME NEW T \in SUBSET (1..n) PROVE f[T] = g[T]
 <2>1. T \in SUBSET (1..m)
   BY <1>2
 <2>2. g[T] = IF T = {} THEN b ELSE FoldStep(h, how, g[T \ {Max(T)}], c[Max(T)])
   BY <1>1, Zenon DEF FoldTo
 <2> QED BY <1>3, <2>1, <2>2, Zenon
<1>5. ASSUME NEW T \in SUBSET (1..m), T # {} PROVE T \ {Max(T)} \in SUBSET (1..n)
 <2>1. Max(T) \in T /\ \A y \in T : Max(T) >= y
  <3>1. m \in Nat
    BY <1>2
  <3> QED BY <1>5, <3>1, MaxOfPart
 <2>2. ASSUME NEW x \in T \ {Max(T)} PROVE x \in 1..n
  <3>1. PICK y : y = Max(T)
    OBVIOUS
  <3>2. y \in 1..m /\ x \in 1..m /\ y >= x /\ x # y
    BY <2>1, <3>1
  <3> QED BY <1>2, <3>2
 <2> QED BY <2>2
<1>6. ASSUME NEW T \in SUBSET (1..m), T # {} PROVE f[T \ {Max(T)}] = g[T \ {Max(T)}]
  BY <1>4, <1>5, <1>6
<1>7. FoldTo(f, h, how, b, c, m)
  BY <1>3, <1>6, Zenon DEF FoldTo
<1> QED BY <1>2, <1>7

LEMMA SomeFold ==
    ASSUME NEW h, NEW how, NEW b, NEW c
    PROVE  \A n \in Nat : \E g : FoldTo(g, h, how, b, c, n)
<1> DEFINE T == {n \in Nat : \E g : FoldTo(g, h, how, b, c, n)}
<1>1. 0 \in T
 <2>1. PICK g : g = [U \in SUBSET (1..0) |-> b]
   OBVIOUS
 <2>2. \A U \in SUBSET (1..0) : U = {}
   OBVIOUS
 <2>3. FoldTo(g, h, how, b, c, 0)
   BY <2>1, <2>2, Zenon DEF FoldTo
 <2> QED BY <2>3
<1>2. \A n \in Nat : n \in T => n + 1 \in T
  BY FoldMore
<1> HIDE DEF T
<1>3. \A n \in Nat : n \in T
  BY <1>1, <1>2, AllNaturals
<1> QED BY <1>3 DEF T

\* The same, one element after the other.
Folds(f, h, how, b, c, n) ==
    /\ f[0] = b
    /\ \A k \in 0..(n - 1) : f[k + 1] = FoldStep(h, how, f[k], c[k + 1])

Folded(h, how, b, c, n) == (CHOOSE g : FoldTo(g, h, how, b, c, n))[1..n]

LEMMA FoldSteps ==
    ASSUME NEW h, NEW how, NEW b, NEW c, NEW n \in Nat
    PROVE  \E f : Folds(f, h, how, b, c, n) /\ Folded(h, how, b, c, n) = f[n]
<1>0. PICK g : g = CHOOSE x : FoldTo(x, h, how, b, c, n)
  OBVIOUS
<1>1. FoldTo(g, h, how, b, c, n)
  BY <1>0, SomeFold
<1>2. PICK f : f = [k \in 0..n |-> g[1..k]]
  OBVIOUS
<1>3. ASSUME NEW T \in SUBSET (1..n)
      PROVE  g[T] = IF T = {} THEN b ELSE FoldStep(h, how, g[T \ {Max(T)}], c[Max(T)])
  BY <1>1, Zenon DEF FoldTo
<1>4. f[0] = b
 <2>1. 1..0 = {} /\ 0 \in 0..n
   OBVIOUS
 <2> QED BY <1>2, <1>3, <2>1
<1>5. ASSUME NEW k \in 0..(n - 1) PROVE f[k + 1] = FoldStep(h, how, f[k], c[k + 1])
 <2>1. PICK m : m = k + 1
   OBVIOUS
 <2>2. m \in Nat \ {0} /\ m - 1 = k /\ m \in 0..n /\ k \in 0..n /\ m <= n
   BY <2>1
 <2>3. Max(1..m) = m /\ (1..m) \ {Max(1..m)} = 1..k
   BY <2>2, MaxOfRange
 <2>4. 1..m \in SUBSET (1..n) /\ 1..m # {}
  <3>1. \A i \in 1..m : i \in 1..n
    BY <2>2
  <3>2. m \in 1..m
    BY <2>2
  <3> QED BY <3>1, <3>2
 <2>5. g[1..m] = FoldStep(h, how, g[1..k], c[m])
   BY <1>3, <2>3, <2>4
 <2> QED BY <1>2, <2>1, <2>2, <2>5
<1>6. f[n] = g[1..n]
  BY <1>2
<1> QED BY <1>0, <1>4, <1>5, <1>6 DEF Folds, Folded

LEMMA CostFolded ==
    ASSUME NEW h, NEW price, NEW c, NEW n, DOMAIN c = 1..n
    PROVE  CostIn(h, price, c) = Folded(h, Costs(price), 0, c, n)
  BY DEF CostIn, FoldLeft, MapThenFoldSet, Folded, FoldTo, FoldStep, Costs

LEMMA BeforeFolded ==
    ASSUME NEW i \in Nat \ {0}
    PROVE  Before(i) = Folded(chats, Turns, <<>>, [k \in 1..(i - 1) |-> k], i - 1)
  BY DEF Before, Those, FoldLeft, MapThenFoldSet, Folded, FoldTo, FoldStep, Turns, HasTurn, Turn

LEMMA OverFolded ==
    ASSUME NEW n \in Nat
    PROVE  Those(LAMBDA i : chats[i].status # "active", n)
              = Folded(chats, Overs, <<>>, [k \in 1..n |-> k], n)
  BY DEF Those, FoldLeft, MapThenFoldSet, Folded, FoldTo, FoldStep, Overs

LEMMA TalkFolded ==
    ASSUME NEW c, NEW n, DOMAIN c = 1..n
    PROVE  FoldLeft(LAMBDA talk, i : IF HasTurn(i) THEN Advance(talk, i) ELSE talk, NoTalk, c)
              = Folded(chats, Talks, NoTalk, c, n)
<1> QED BY AdvanceIsIn DEF FoldLeft, MapThenFoldSet, Folded, FoldTo, FoldStep, Talks, HasTurn, Turn
----
(* What turns and lines cost.                                              *)
Prompted(h) == \A i \in DOMAIN h : h[i].prompt \in Prompts

CostsTo(f, h, price, c) ==
    /\ f[0] = 0
    /\ \A k \in 0..(Len(c) - 1) : f[k + 1] = f[k] + price[h[c[k + 1]].prompt]
    /\ \A k \in 0..Len(c) : f[k] \in Nat

LEMMA CostSteps ==
    ASSUME NEW h, Prompted(h), NEW price \in [Prompts -> Nat], NEW c \in Seq(DOMAIN h)
    PROVE  \E f : CostsTo(f, h, price, c) /\ CostIn(h, price, c) = f[Len(c)]
<1>1. PICK n \in Nat : n = Len(c)
  OBVIOUS
<1>2. DOMAIN c = 1..n
  BY <1>1
<1>3. PICK f : Folds(f, h, Costs(price), 0, c, n) /\ CostIn(h, price, c) = f[n]
 <2>1. PICK f : Folds(f, h, Costs(price), 0, c, n) /\ Folded(h, Costs(price), 0, c, n) = f[n]
   BY FoldSteps
 <2> QED BY <1>2, <2>1, CostFolded
<1>4. ASSUME NEW k \in 0..(n - 1) PROVE f[k + 1] = f[k] + price[h[c[k + 1]].prompt]
  BY <1>3 DEF Folds, FoldStep, Costs
<1> DEFINE T == {k \in Nat : k <= n => f[k] \in Nat}
<1>5. 0 \in T
  BY <1>3 DEF Folds
<1>6. ASSUME NEW k \in Nat, k \in T PROVE k + 1 \in T
 <2>1. CASE k + 1 <= n
  <3>1. f[k] \in Nat /\ k \in 0..(n - 1)
    BY <1>6, <2>1
  <3>2. c[k + 1] \in DOMAIN h
    BY <1>1, <2>1
  <3>3. price[h[c[k + 1]].prompt] \in Nat
    BY <3>2 DEF Prompted
  <3> QED BY <1>4, <3>1, <3>3
 <2> QED BY <2>1
<1> HIDE DEF T
<1>7. \A k \in Nat : k \in T
  BY <1>5, <1>6, AllNaturals
<1>8. \A k \in 0..n : f[k] \in Nat
  BY <1>7 DEF T
<1>9. f[0] = 0
  BY <1>3 DEF Folds
<1> QED BY <1>1, <1>3, <1>4, <1>8, <1>9 DEF CostsTo

LEMMA CostType ==
    ASSUME NEW h, Prompted(h), NEW price \in [Prompts -> Nat], NEW c \in Seq(DOMAIN h)
    PROVE  CostIn(h, price, c) \in Nat /\ (c = <<>> => CostIn(h, price, c) = 0)
<1>1. PICK f : CostsTo(f, h, price, c) /\ CostIn(h, price, c) = f[Len(c)]
  BY CostSteps
<1> QED BY <1>1 DEF CostsTo

\* The end of a sequence.
IsEnd(s, t) ==
    /\ Len(s) <= Len(t)
    /\ \A k \in 1..Len(s) : s[k] = t[Len(t) - Len(s) + k]

LEMMA CostOfEnd ==
    ASSUME NEW h, Prompted(h), NEW price \in [Prompts -> Nat],
           NEW c \in Seq(DOMAIN h), NEW t \in Seq(DOMAIN h), IsEnd(c, t)
    PROVE  CostIn(h, price, c) <= CostIn(h, price, t)
<1>1. PICK f : CostsTo(f, h, price, c) /\ CostIn(h, price, c) = f[Len(c)]
  BY CostSteps
<1>2. PICK g : CostsTo(g, h, price, t) /\ CostIn(h, price, t) = g[Len(t)]
  BY CostSteps
<1>3. PICK n \in Nat, m \in Nat : n = Len(c) /\ m = Len(t)
  OBVIOUS
<1>10. n <= m /\ \A k \in 1..n : c[k] = t[m - n + k]
  BY <1>3, Zenon DEF IsEnd
<1>11. m - n \in Nat
  BY <1>3, <1>10
<1>4. PICK d \in Nat : d = m - n
  BY <1>11
<1> DEFINE T == {k \in Nat : k <= n => f[k] <= g[d + k]}
<1>5. 0 \in T
 <2>1. d \in 0..m
   BY <1>4
 <2>2. g[d] \in Nat /\ f[0] = 0
   BY <1>1, <1>2, <1>3, <2>1 DEF CostsTo
 <2> QED BY <2>2
<1>6. ASSUME NEW k \in Nat, k \in T PROVE k + 1 \in T
 <2>1. CASE k + 1 <= n
  <3>1. k \in 0..(n - 1) /\ d + k \in 0..(m - 1) /\ d + k + 1 = d + (k + 1)
    BY <1>4, <2>1
  <3>2. f[k] \in Nat /\ g[d + k] \in Nat /\ f[k] <= g[d + k]
    BY <1>1, <1>2, <1>3, <1>6, <2>1, <3>1 DEF CostsTo
  <3>3. c[k + 1] = t[d + k + 1] /\ c[k + 1] \in DOMAIN h
   <4>1. k + 1 \in 1..n /\ m - n + (k + 1) = d + k + 1
     BY <1>3, <1>4, <2>1
   <4>2. c[k + 1] \in DOMAIN h
     BY <1>3, <4>1
   <4>3. c[k + 1] = t[m - n + (k + 1)]
     BY <1>10, <4>1
   <4> QED BY <4>1, <4>2, <4>3
  <3>4. price[h[c[k + 1]].prompt] \in Nat
    BY <3>3 DEF Prompted
  <3>5. f[k + 1] = f[k] + price[h[c[k + 1]].prompt]
    BY <1>1, <1>3, <3>1 DEF CostsTo
  <3>6. g[d + k + 1] = g[d + k] + price[h[c[k + 1]].prompt]
    BY <1>2, <1>3, <3>1, <3>3 DEF CostsTo
  <3> QED BY <3>1, <3>2, <3>4, <3>5, <3>6
 <2> QED BY <2>1
<1> HIDE DEF T
<1>7. n \in T
  BY <1>5, <1>6, AllNaturals
<1>8. f[n] <= g[m]
  BY <1>4, <1>7 DEF T
<1> QED BY <1>1, <1>2, <1>3, <1>8

LEMMA CostOfOne ==
    ASSUME NEW h, Prompted(h), NEW price \in [Prompts -> Nat], NEW c \in Seq(DOMAIN h), Len(c) = 1
    PROVE  CostIn(h, price, c) = price[h[c[1]].prompt]
<1>1. PICK f : CostsTo(f, h, price, c) /\ CostIn(h, price, c) = f[Len(c)]
  BY CostSteps
<1>2. f[0 + 1] = f[0] + price[h[c[0 + 1]].prompt] /\ f[0] = 0
  BY <1>1 DEF CostsTo
<1>3. c[1] \in DOMAIN h
  OBVIOUS
<1>4. price[h[c[1]].prompt] \in Nat
  BY <1>3 DEF Prompted
<1> QED BY <1>1, <1>2, <1>4

----
(* Ends of sequences.                                                      *)
LEMMA EndOfEnd ==
    ASSUME NEW S, NEW r \in Seq(S), NEW s \in Seq(S), NEW t \in Seq(S), IsEnd(r, s), IsEnd(s, t)
    PROVE  IsEnd(r, t)
<1>1. ASSUME NEW k \in 1..Len(r) PROVE r[k] = t[Len(t) - Len(r) + k]
 <2>1. PICK j : j = Len(s) - Len(r) + k
   OBVIOUS
 <2>2. j \in 1..Len(s) /\ r[k] = s[j] /\ Len(t) - Len(s) + j = Len(t) - Len(r) + k
   BY <2>1 DEF IsEnd
 <2> QED BY <2>2 DEF IsEnd
<1> QED BY <1>1 DEF IsEnd

LEMMA EndWithMore ==
    ASSUME NEW S, NEW s \in Seq(S), NEW t \in Seq(S), NEW u \in Seq(S), IsEnd(s, t)
    PROVE  IsEnd(s \o u, t \o u)
<1>1. PICK a : a = s \o u
  OBVIOUS
<1>2. PICK b : b = t \o u
  OBVIOUS
<1>3. /\ Len(a) = Len(s) + Len(u) /\ \A k \in 1..Len(s) : a[k] = s[k]
      /\ \A k \in (Len(s) + 1)..(Len(s) + Len(u)) : a[k] = u[k - Len(s)]
  BY <1>1
<1>4. /\ Len(b) = Len(t) + Len(u) /\ \A k \in 1..Len(t) : b[k] = t[k]
      /\ \A k \in (Len(t) + 1)..(Len(t) + Len(u)) : b[k] = u[k - Len(t)]
  BY <1>2
<1>5. /\ Len(s) \in Nat /\ Len(t) \in Nat /\ Len(u) \in Nat /\ Len(s) <= Len(t)
      /\ \A k \in 1..Len(s) : s[k] = t[Len(t) - Len(s) + k]
  BY DEF IsEnd
<1>6. ASSUME NEW k \in 1..Len(a) PROVE a[k] = b[Len(b) - Len(a) + k]
 <2>1. PICK j : j = Len(t) - Len(s) + k
   OBVIOUS
 <2>2. j = Len(b) - Len(a) + k /\ j \in Int
   BY <1>3, <1>4, <1>5, <2>1
 <2>3. CASE k <= Len(s)
  <3>1. k \in 1..Len(s) /\ j \in 1..Len(t)
    BY <1>3, <1>5, <2>1, <2>3
  <3>2. a[k] = s[k] /\ s[k] = t[j] /\ b[j] = t[j]
    BY <1>3, <1>4, <1>5, <2>1, <3>1
  <3> QED BY <2>2, <3>2
 <2>4. CASE k > Len(s)
  <3>1. /\ k \in (Len(s) + 1)..(Len(s) + Len(u)) /\ j \in (Len(t) + 1)..(Len(t) + Len(u))
        /\ k - Len(s) = j - Len(t)
    BY <1>3, <1>5, <2>1, <2>4
  <3>2. a[k] = u[k - Len(s)] /\ b[j] = u[j - Len(t)]
    BY <1>3, <1>4, <3>1
  <3> QED BY <2>2, <3>1, <3>2
 <2> QED BY <1>3, <1>5, <2>3, <2>4
<1>7. Len(a) <= Len(b)
  BY <1>3, <1>4, <1>5
<1> QED BY <1>1, <1>2, <1>6, <1>7 DEF IsEnd

IsJoined(a, s, t) == a = s \o t

LEMMA JoinedIs ==
    ASSUME NEW S, NEW s \in Seq(S), NEW t \in Seq(S), NEW c, IsJoined(c, s, t)
    PROVE  /\ c \in Seq(S) /\ Len(s) \in Nat /\ Len(t) \in Nat /\ Len(c) = Len(s) + Len(t)
           /\ \A k \in 1..Len(s) : c[k] = s[k]
           /\ \A k \in (Len(s) + 1)..(Len(s) + Len(t)) : c[k] = t[k - Len(s)]
<1>1. Len(s) \in Nat /\ Len(t) \in Nat /\ c \in Seq(S) /\ Len(c) = Len(s) + Len(t)
  BY DEF IsJoined
<1>2. \A k \in 1..Len(s) : c[k] = s[k]
  BY DEF IsJoined
<1>3. \A k \in (Len(s) + 1)..(Len(s) + Len(t)) : c[k] = t[k - Len(s)]
  BY DEF IsJoined
<1> QED BY <1>1, <1>2, <1>3

LEMMA ThreeParts ==
    ASSUME NEW S, NEW s \in Seq(S), NEW t \in Seq(S), NEW u \in Seq(S),
           NEW a, IsJoined(a, s, t), NEW b, IsJoined(b, t, u), NEW x, IsJoined(x, a, u)
    PROVE  IsJoined(x, s, b)
<1>3. PICK c : IsJoined(c, a, u)
  BY DEF IsJoined
<1>4. PICK d : IsJoined(d, s, b)
  BY DEF IsJoined
<1>5. PICK l, m, n : l = Len(s) /\ m = Len(t) /\ n = Len(u)
  OBVIOUS
<1>7. /\ a \in Seq(S) /\ Len(a) = l + m /\ l \in Nat /\ m \in Nat
      /\ \A k \in 1..l : a[k] = s[k]
      /\ \A k \in (l + 1)..(l + m) : a[k] = t[k - l]
  BY <1>5, JoinedIs
<1>11. /\ b \in Seq(S) /\ Len(b) = m + n /\ n \in Nat
       /\ \A k \in 1..m : b[k] = t[k]
       /\ \A k \in (m + 1)..(m + n) : b[k] = u[k - m]
  BY <1>5, JoinedIs
<1>6. l \in Nat /\ m \in Nat /\ n \in Nat
  BY <1>7, <1>11
<1>14. PICK lm, mn : lm = l + m /\ mn = m + n
  OBVIOUS
<1>15. /\ c \in Seq(S) /\ Len(c) = lm + n
       /\ \A k \in 1..lm : c[k] = a[k]
       /\ \A k \in (lm + 1)..(lm + n) : c[k] = u[k - lm]
 <2>1. /\ c \in Seq(S) /\ Len(c) = Len(a) + Len(u)
       /\ \A k \in 1..Len(a) : c[k] = a[k]
       /\ \A k \in (Len(a) + 1)..(Len(a) + Len(u)) : c[k] = u[k - Len(a)]
  <3>1. a \in Seq(S)
    BY <1>7
  <3> QED BY <1>3, <3>1, JoinedIs
 <2>2. Len(a) = lm /\ Len(u) = n
   BY <1>5, <1>7, <1>14
 <2> QED BY <2>1, <2>2, Zenon
<1>16. /\ d \in Seq(S) /\ Len(d) = l + mn
       /\ \A k \in 1..l : d[k] = s[k]
       /\ \A k \in (l + 1)..(l + mn) : d[k] = b[k - l]
 <2>1. /\ d \in Seq(S) /\ Len(d) = Len(s) + Len(b)
       /\ \A k \in 1..Len(s) : d[k] = s[k]
       /\ \A k \in (Len(s) + 1)..(Len(s) + Len(b)) : d[k] = b[k - Len(s)]
  <3>1. b \in Seq(S)
    BY <1>11
  <3> QED BY <1>4, <3>1, JoinedIs
 <2>2. Len(s) = l /\ Len(b) = mn
   BY <1>5, <1>11, <1>14
 <2> QED BY <2>1, <2>2, Zenon
<1>12. /\ Len(c) = l + m + n /\ \A k \in 1..(l + m) : c[k] = a[k]
       /\ \A k \in (l + m + 1)..(l + m + n) : c[k] = u[k - (l + m)]
  BY <1>14, <1>15
<1>13. /\ Len(d) = l + m + n /\ \A k \in 1..l : d[k] = s[k]
       /\ \A k \in (l + 1)..(l + m + n) : d[k] = b[k - l]
 <2>1. l + mn = l + m + n
   BY <1>6, <1>14
 <2> QED BY <1>16, <2>1
<1>10. Len(c) = l + m + n /\ Len(d) = l + m + n
  BY <1>12, <1>13
<1>8. ASSUME NEW k \in 1..(l + m + n) PROVE c[k] = d[k]
 <2>1. CASE k <= l
  <3>1. k \in 1..l /\ k \in 1..(l + m)
    BY <1>6, <2>1
  <3>2. c[k] = a[k]
    BY <1>12, <3>1, Zenon
  <3>3. a[k] = s[k]
    BY <1>7, <3>1, Zenon
  <3>4. d[k] = s[k]
    BY <1>13, <3>1, Zenon
  <3> QED BY <3>2, <3>3, <3>4
 <2>2. CASE k > l /\ k <= l + m
  <3>1. k \in (l + 1)..(l + m) /\ k \in 1..(l + m) /\ k - l \in 1..m /\ k \in (l + 1)..(l + m + n)
    BY <1>6, <2>2
  <3>2. c[k] = a[k]
    BY <1>12, <3>1, Zenon
  <3>3. a[k] = t[k - l]
    BY <1>7, <3>1, Zenon
  <3>4. d[k] = b[k - l]
    BY <1>13, <3>1, Zenon
  <3>5. b[k - l] = t[k - l]
    BY <1>11, <3>1, Zenon
  <3> QED BY <3>2, <3>3, <3>4, <3>5
 <2>3. CASE k > l + m
  <3>1. /\ k \in (l + m + 1)..(l + m + n) /\ k - l \in (m + 1)..(m + n)
        /\ k \in (l + 1)..(l + m + n) /\ k - (l + m) = k - l - m
    BY <1>6, <2>3
  <3>2. c[k] = u[k - (l + m)]
    BY <1>12, <3>1, Zenon
  <3>3. d[k] = b[k - l]
    BY <1>13, <3>1, Zenon
  <3>4. b[k - l] = u[k - l - m]
    BY <1>11, <3>1, Zenon
  <3> QED BY <3>1, <3>2, <3>3, <3>4
 <2> QED BY <1>6, <2>1, <2>2, <2>3
<1>9. c = d
 <2>1. c \in Seq(S) /\ d \in Seq(S)
   BY <1>15, <1>16
 <2>2. Len(c) = Len(d) /\ \A k \in 1..Len(c) : c[k] = d[k]
   BY <1>8, <1>10
 <2> QED BY <2>1, <2>2, SeqEqual
<1> QED BY <1>3, <1>4, <1>9 DEF IsJoined

LEMMA RestIsEnd ==
    ASSUME NEW S, NEW t \in Seq(S), NEW n \in 0..Len(t)
    PROVE  /\ SubSeq(t, n + 1, Len(t)) \in Seq(S)
           /\ Len(SubSeq(t, n + 1, Len(t))) = Len(t) - n
           /\ IsEnd(SubSeq(t, n + 1, Len(t)), t)
<1>1. SubSeq(t, n + 1, Len(t)) \in Seq(S) /\ Len(SubSeq(t, n + 1, Len(t))) = Len(t) - n
  OBVIOUS
<1>2. \A k \in 1..(Len(t) - n) : SubSeq(t, n + 1, Len(t))[k] = t[n + k]
  OBVIOUS
<1>3. \A k \in 1..(Len(t) - n) : n + k = Len(t) - (Len(t) - n) + k
  OBVIOUS
<1>4. PICK s : s = SubSeq(t, n + 1, Len(t))
  OBVIOUS
<1>5. \A k \in 1..Len(s) : s[k] = t[Len(t) - Len(s) + k]
  BY <1>1, <1>2, <1>3, <1>4
<1>6. Len(s) <= Len(t)
  BY <1>1, <1>4
<1> QED BY <1>1, <1>4, <1>5, <1>6 DEF IsEnd

LEMMA EndIsSuffix ==
    ASSUME NEW S, NEW s \in Seq(S), NEW t \in Seq(S), IsEnd(s, t)
    PROVE  IsSuffix(s, t)
<1>1. PICK r : r = Reverse(s)
  OBVIOUS
<1>2. PICK q : q = Reverse(t)
  OBVIOUS
<1>3. /\ r \in Seq(S) /\ Len(r) = Len(s) /\ \A i \in 1..Len(s) : r[i] = s[Len(s) - i + 1]
      /\ q \in Seq(S) /\ Len(q) = Len(t) /\ \A i \in 1..Len(t) : q[i] = t[Len(t) - i + 1]
  BY <1>1, <1>2 DEF Reverse
<1>4. \A i \in 1..Len(r) : r[i] = q[i]
 <2>1. ASSUME NEW i \in 1..Len(r) PROVE r[i] = q[i]
  <3>1. Len(s) - i + 1 \in 1..Len(s) /\ i \in 1..Len(t)
        /\ Len(t) - Len(s) + (Len(s) - i + 1) = Len(t) - i + 1
    BY <1>3 DEF IsEnd
  <3> QED BY <1>3, <3>1 DEF IsEnd
 <2> QED BY <2>1
<1>5. Len(r) <= Len(q)
  BY <1>3 DEF IsEnd
<1>6. SubSeq(r, 1, Len(r)) = SubSeq(q, 1, Len(r))
  BY <1>3, <1>4, <1>5
<1> QED BY <1>1, <1>2, <1>5, <1>6 DEF IsSuffix, IsPrefix

----
(* What a context keeps.                                                   *)
OneLineFits(h, i, limit) == LineCost[h[i].prompt] <= limit

LEMMA NewestIsEnd ==
    ASSUME NEW h, Prompted(h), NEW c \in Seq(DOMAIN h), NEW limit \in Nat
    PROVE  /\ NewestIn(h, c, limit) \in Seq(DOMAIN h)
           /\ IsEnd(NewestIn(h, c, limit), c)
           /\ CostIn(h, LineCost, NewestIn(h, c, limit)) <= limit
           /\ c # <<>> /\ OneLineFits(h, c[Len(c)], limit) => NewestIn(h, c, limit) # <<>>
<1> DEFINE Suffices(n) == CostIn(h, LineCost, SubSeq(c, n + 1, Len(c))) <= limit
<1>0. PICK m \in Nat : m = Len(c)
  OBVIOUS
<1>1. ASSUME NEW n \in 0..m
      PROVE  /\ SubSeq(c, n + 1, Len(c)) \in Seq(DOMAIN h)
             /\ Len(SubSeq(c, n + 1, Len(c))) = m - n
             /\ IsEnd(SubSeq(c, n + 1, Len(c)), c)
  BY <1>0, RestIsEnd
<1>2. LineCost \in [Prompts -> Nat]
  BY ConversationAssumption
<1>3. Suffices(m)
 <2>1. SubSeq(c, m + 1, Len(c)) = <<>>
   BY <1>0
 <2>3. <<>> \in Seq(DOMAIN h)
   OBVIOUS
 <2>4. CostIn(h, LineCost, <<>>) = 0
   BY <1>2, <2>3, CostType
 <2>2. CostIn(h, LineCost, SubSeq(c, m + 1, Len(c))) = 0
   BY <2>1, <2>4
 <2> QED BY <2>2
<1> HIDE DEF Suffices
<1>4. PICK n \in {k \in 0..m : Suffices(k)} : \A k \in {j \in 0..m : Suffices(j)} : n <= k
 <2>1. m \in {k \in 0..m : Suffices(k)} /\ {k \in 0..m : Suffices(k)} \in SUBSET Nat
   BY <1>3
 <2> QED BY <2>1, LeastNatural
<1>5. n \in 0..m /\ Suffices(n) /\ \A k \in 0..(n - 1) : ~Suffices(k)
 <2>1. ASSUME NEW k \in 0..(n - 1), Suffices(k) PROVE FALSE
  <3>1. k \in {j \in 0..m : Suffices(j)} /\ k < n
    BY <1>4, <2>1
  <3> QED BY <1>4, <3>1
 <2> QED BY <1>4, <2>1
<1>6. PICK x : x = CHOOSE j \in 0..m : Suffices(j) /\ \A k \in 0..(j - 1) : ~Suffices(k)
  OBVIOUS
<1>7. x \in 0..m /\ Suffices(x) /\ \A k \in 0..(x - 1) : ~Suffices(k)
  BY <1>5, <1>6
<1>8. NewestIn(h, c, limit) = SubSeq(c, x + 1, Len(c))
  BY <1>0, <1>6, Zenon DEF NewestIn, Suffices
<1>9. ASSUME c # <<>>, OneLineFits(h, c[Len(c)], limit) PROVE x < m
 <2>1. m > 0
   BY <1>0, <1>9
 <2>2. PICK k \in 0..m : k = m - 1
   BY <2>1
 <2>3. PICK s \in Seq(DOMAIN h) : s = SubSeq(c, k + 1, Len(c))
   BY <1>1
 <2>4. Len(s) = 1 /\ s[1] = c[Len(c)]
   BY <1>0, <2>1, <2>2, <2>3
 <2>5. CostIn(h, LineCost, s) = LineCost[h[c[Len(c)]].prompt]
   BY <1>2, <2>4, CostOfOne
 <2>6. Suffices(k)
   BY <1>9, <2>3, <2>5 DEF OneLineFits, Suffices
 <2> QED BY <1>7, <2>2, <2>6
<1>10. ASSUME c # <<>>, OneLineFits(h, c[Len(c)], limit) PROVE NewestIn(h, c, limit) # <<>>
 <2>1. x < m
   BY <1>9, <1>10
 <2>2. Len(NewestIn(h, c, limit)) = m - x /\ x \in Nat
   BY <1>1, <1>7, <1>8
 <2>3. Len(NewestIn(h, c, limit)) # 0
   BY <1>0, <2>1, <2>2
 <2> QED BY <2>3
<1>11. CostIn(h, LineCost, NewestIn(h, c, limit)) <= limit
  BY <1>7, <1>8 DEF Suffices
<1> QED BY <1>1, <1>7, <1>8, <1>10, <1>11

Talk(h) == [summary : Seq(DOMAIN h), recent : Seq(DOMAIN h)]
Told(talk) == talk.summary \o talk.recent

WithinLimits(h, talk) ==
    /\ Len(talk.recent) <= MaxTurns
    /\ CostIn(h, LineCost, talk.summary) <= MaxSummary
    /\ CostIn(h, LineCost, talk.summary) + CostIn(h, TurnCost, talk.recent) <= MaxRendered

\* No line takes more than a summary may have, or a whole context.  Lines are clipped
\* (compact_turn_line) far below both, unless nearly every character is one that has
\* to be escaped; where this fails, an edit may be told nothing.
LinesFit == \A prompt \in Prompts : LineCost[prompt] <= MaxSummary /\ LineCost[prompt] <= MaxRendered

\* What advancing keeps is the end of what there was and the new turn, within the
\* limits, and it is never nothing.
LEMMA AdvanceKeepsEnd ==
    ASSUME LinesFit, NEW h, Prompted(h), NEW talk \in Talk(h), NEW i \in DOMAIN h,
           CostIn(h, LineCost, talk.summary) <= MaxSummary
    PROVE  /\ AdvanceIn(h, talk, i) \in Talk(h)
           /\ IsEnd(Told(AdvanceIn(h, talk, i)), Told(talk) \o <<i>>)
           /\ Told(AdvanceIn(h, talk, i)) # <<>>
           /\ WithinLimits(h, AdvanceIn(h, talk, i))
<1> DEFINE Lines(n) == IF n = 0 THEN talk.summary
                       ELSE NewestIn(h, talk.summary \o SubSeq(Append(talk.recent, i), 1, n), MaxSummary)
           Rest(n) == SubSeq(Append(talk.recent, i), n + 1, Len(Append(talk.recent, i)))
           Suffices(n) == Len(Rest(n)) <= MaxTurns
                   /\ (Rest(n) = <<>> \/ CostIn(h, LineCost, Lines(n)) + CostIn(h, TurnCost, Rest(n)) <= MaxRendered)
<1>30. Append(talk.recent, i) \in Seq(DOMAIN h)
  BY DEF Talk
<1>0. PICK turns \in Seq(DOMAIN h) : turns = Append(talk.recent, i)
  BY <1>30
<1>1. PICK summary \in Seq(DOMAIN h) : summary = talk.summary
  BY DEF Talk
<1>2. PICK m \in Nat : m = Len(turns)
  OBVIOUS
<1>3. /\ MaxTurns \in Nat /\ MaxSummary \in Nat /\ MaxRendered \in Nat
      /\ LineCost \in [Prompts -> Nat] /\ TurnCost \in [Prompts -> Nat]
  BY ConversationAssumption
<1>4. m > 0 /\ turns[m] = i /\ talk.recent \in Seq(DOMAIN h) /\ turns = talk.recent \o <<i>>
  BY <1>0, <1>2 DEF Talk
<1>5. Suffices(m)
 <2>1. Rest(m) = <<>>
   BY <1>0, <1>2
 <2>2. PICK r : r = Rest(m)
   OBVIOUS
 <2>3. r = <<>>
   BY <2>1, <2>2
 <2>4. Len(r) <= MaxTurns
   BY <1>3, <2>3
 <2> QED BY <2>2, <2>3, <2>4, Zenon
<1>6. \A n \in 0..m : /\ Rest(n) \in Seq(DOMAIN h) /\ Len(Rest(n)) = m - n
                      /\ IsEnd(Rest(n), turns)
  BY <1>0, <1>2, RestIsEnd
<1>7. AdvanceIn(h, talk, i) =
        LET n == CHOOSE n \in 0..m : Suffices(n) /\ \A k \in 0..(n - 1) : ~Suffices(k)
        IN  [summary |-> NewestIn(h, Lines(n), MaxRendered - CostIn(h, TurnCost, Rest(n))),
             recent |-> Rest(n)]
 <2>1. AdvanceIn(h, talk, i) =
         LET n == CHOOSE n \in 0..Len(Append(talk.recent, i)) :
                     Suffices(n) /\ \A k \in 0..(n - 1) : ~Suffices(k)
         IN  [summary |-> NewestIn(h, Lines(n), MaxRendered - CostIn(h, TurnCost, Rest(n))),
              recent |-> Rest(n)]
   BY Zenon DEF AdvanceIn
 <2> HIDE DEF Suffices, Lines, Rest
 <2> QED BY <1>0, <1>2, <2>1
<1> HIDE DEF Suffices
<1>8. PICK n \in {k \in 0..m : Suffices(k)} : \A k \in {j \in 0..m : Suffices(j)} : n <= k
 <2>1. m \in {k \in 0..m : Suffices(k)} /\ {k \in 0..m : Suffices(k)} \in SUBSET Nat
   BY <1>5
 <2> QED BY <2>1, LeastNatural
<1>9. n \in 0..m /\ Suffices(n) /\ \A k \in 0..(n - 1) : ~Suffices(k)
 <2>1. ASSUME NEW k \in 0..(n - 1), Suffices(k) PROVE FALSE
  <3>1. k \in {j \in 0..m : Suffices(j)} /\ k < n
    BY <1>8, <2>1
  <3> QED BY <1>8, <3>1
 <2> QED BY <1>8, <2>1
<1>10. PICK x : x = CHOOSE j \in 0..m : Suffices(j) /\ \A k \in 0..(j - 1) : ~Suffices(k)
  OBVIOUS
<1>11. x \in 0..m /\ Suffices(x)
  BY <1>9, <1>10
<1>12. PICK rest : rest = Rest(x)
  OBVIOUS
<1>13. PICK lines : lines = Lines(x)
  OBVIOUS
<1>14. PICK kept : kept = NewestIn(h, lines, MaxRendered - CostIn(h, TurnCost, rest))
  OBVIOUS
<1>15. AdvanceIn(h, talk, i) = [summary |-> kept, recent |-> rest]
  BY <1>7, <1>10, <1>12, <1>13, <1>14, Zenon
<1>16. rest \in Seq(DOMAIN h) /\ Len(rest) = m - x /\ IsEnd(rest, turns)
  BY <1>6, <1>11, <1>12
<1>17. Len(rest) <= MaxTurns
       /\ (rest = <<>> \/ CostIn(h, LineCost, lines) + CostIn(h, TurnCost, rest) <= MaxRendered)
  BY <1>11, <1>12, <1>13 DEF Suffices
<1> HIDE DEF Rest
<1>18. PICK folded \in Seq(DOMAIN h) : folded = SubSeq(turns, 1, x)
 <2>1. SubSeq(turns, 1, x) \in Seq(DOMAIN h)
   BY <1>2, <1>11
 <2> QED BY <2>1
<1>19. folded \o rest = turns
 <2>1. SubSeq(turns, 1, x) \o SubSeq(turns, x + 1, m) = SubSeq(turns, 1, m)
  <3>1. /\ 1 \in 1..(Len(turns) + 1) /\ x \in (1 - 1)..Len(turns) /\ m \in x..Len(turns)
        /\ turns \in Seq(DOMAIN h)
    BY <1>0, <1>2, <1>11
  <3> QED BY <3>1, ConcatAdjacentSubSeq
 <2>2. SubSeq(turns, 1, m) = turns
   BY <1>2, SubSeqFull
 <2>3. rest = SubSeq(turns, x + 1, m)
   BY <1>0, <1>2, <1>12 DEF Rest
 <2> QED BY <1>18, <2>1, <2>2, <2>3
<1>20. lines = IF x = 0 THEN summary ELSE NewestIn(h, summary \o folded, MaxSummary)
  BY <1>0, <1>1, <1>13, <1>18
<1> HIDE DEF Lines
<1>21. summary \o folded \in Seq(DOMAIN h)
  OBVIOUS
<1>22. /\ lines \in Seq(DOMAIN h) /\ IsEnd(lines, summary \o folded)
       /\ CostIn(h, LineCost, lines) <= MaxSummary
 <2>1. CASE x = 0
  <3>1. folded = <<>>
    BY <1>18, <2>1
  <3>2. summary \o folded = summary
    BY <3>1
  <3>3. IsEnd(summary, summary)
    BY DEF IsEnd
  <3> QED BY <1>1, <1>20, <2>1, <3>2, <3>3
 <2>2. CASE x # 0
   BY <1>3, <1>20, <1>21, <2>2, NewestIsEnd
 <2> QED BY <2>1, <2>2
<1>23. CostIn(h, LineCost, lines) \in Nat /\ CostIn(h, TurnCost, rest) \in Nat
       /\ (rest = <<>> => CostIn(h, TurnCost, rest) = 0)
  BY <1>3, <1>16, <1>22, CostType
<1>24. PICK limit \in Nat : limit = MaxRendered - CostIn(h, TurnCost, rest)
 <2>1. MaxRendered - CostIn(h, TurnCost, rest) \in Nat
   BY <1>3, <1>17, <1>23
 <2> QED BY <2>1
<1>25. /\ kept \in Seq(DOMAIN h) /\ IsEnd(kept, lines) /\ CostIn(h, LineCost, kept) <= limit
       /\ lines # <<>> /\ OneLineFits(h, lines[Len(lines)], limit) => kept # <<>>
  BY <1>14, <1>22, <1>24, NewestIsEnd
<1>26. IsEnd(kept \o rest, Told(talk) \o <<i>>)
 <2>1. IsEnd(kept, summary \o folded)
   BY <1>21, <1>22, <1>25, EndOfEnd
 <2>5. PICK a : a = summary \o folded
   OBVIOUS
 <2>2. IsEnd(kept \o rest, a \o rest)
   BY <1>16, <1>21, <1>25, <2>1, <2>5, EndWithMore
 <2>3. a \o rest = summary \o turns
  <3>1. /\ summary \in Seq(DOMAIN h) /\ folded \in Seq(DOMAIN h) /\ rest \in Seq(DOMAIN h)
        /\ a = summary \o folded /\ turns = folded \o rest
    BY <1>1, <1>16, <1>18, <1>19, <2>5
  <3>2. PICK all : all = a \o rest
    OBVIOUS
  <3>3. IsJoined(a, summary, folded) /\ IsJoined(turns, folded, rest) /\ IsJoined(all, a, rest)
    BY <3>1, <3>2 DEF IsJoined
  <3>4. IsJoined(all, summary, turns)
    BY <3>1, <3>3, ThreeParts
  <3> QED BY <3>2, <3>4 DEF IsJoined
 <2>4. Told(talk) \o <<i>> = summary \o turns
  <3>1. <<i>> \in Seq(DOMAIN h)
    OBVIOUS
  <3>3. Told(talk) = summary \o talk.recent
    BY <1>1 DEF Told
  <3> HIDE DEF Told
  <3>2. summary \in Seq(DOMAIN h) /\ talk.recent \in Seq(DOMAIN h)
    BY <1>1, <1>4
  <3>4. PICK all : all = Told(talk) \o <<i>>
    OBVIOUS
  <3>5. PICK one : one = <<i>>
    OBVIOUS
  <3>6. IsJoined(Told(talk), summary, talk.recent) /\ IsJoined(turns, talk.recent, one)
        /\ IsJoined(all, Told(talk), one)
    BY <1>4, <3>3, <3>4, <3>5 DEF IsJoined
  <3>7. IsJoined(all, summary, turns)
    BY <3>1, <3>2, <3>5, <3>6, ThreeParts
  <3> QED BY <3>4, <3>7 DEF IsJoined
 <2> QED BY <2>2, <2>3, <2>4
<1>27. kept \o rest # <<>>
 <2>1. CASE rest # <<>>
   BY <1>16, <1>25, <2>1
 <2>2. CASE rest = <<>>
  <3>1. x = m /\ folded = turns /\ limit = MaxRendered
   <4>1. x = m
     BY <1>11, <1>16, <2>2
   <4>2. folded = turns
     BY <1>2, <1>18, <4>1, SubSeqFull
   <4> QED BY <1>3, <1>23, <1>24, <2>2, <4>1, <4>2
  <3>8. summary \o turns \in Seq(DOMAIN h)
    BY <1>0, <1>1
  <3>2. PICK all \in Seq(DOMAIN h) : all = summary \o turns
    BY <3>8
  <3>3. all # <<>> /\ all[Len(all)] = i
    BY <1>2, <1>4, <3>2
  <3>4. OneLineFits(h, i, MaxSummary) /\ OneLineFits(h, i, MaxRendered)
    BY DEF OneLineFits, LinesFit, Prompted
  <3>5. lines # <<>>
   <4>1. lines = NewestIn(h, all, MaxSummary)
     BY <1>4, <1>20, <3>1, <3>2
   <4> QED BY <1>3, <3>3, <3>4, <4>1, NewestIsEnd
  <3>6. lines[Len(lines)] = i
   <4>1. Len(lines) \in 1..Len(lines) /\ Len(all) - Len(lines) + Len(lines) = Len(all)
     BY <1>22, <3>5
   <4>2. lines[Len(lines)] = all[Len(all) - Len(lines) + Len(lines)]
     BY <1>22, <3>1, <3>2, <4>1 DEF IsEnd
   <4> QED BY <3>3, <4>1, <4>2
  <3>7. kept # <<>>
    BY <1>25, <3>1, <3>4, <3>5, <3>6
  <3> QED BY <1>16, <1>25, <3>7
 <2> QED BY <2>1, <2>2
<1>28. CostIn(h, LineCost, kept) <= MaxSummary /\ CostIn(h, LineCost, kept) \in Nat
 <2>1. CostIn(h, LineCost, kept) <= CostIn(h, LineCost, lines)
   BY <1>3, <1>22, <1>25, CostOfEnd
 <2>2. CostIn(h, LineCost, kept) \in Nat
   BY <1>3, <1>25, CostType
 <2> QED BY <1>3, <1>22, <1>23, <2>1, <2>2
<1>29. CostIn(h, LineCost, kept) + CostIn(h, TurnCost, rest) <= MaxRendered
  BY <1>3, <1>23, <1>24, <1>25, <1>28
<1> QED BY <1>15, <1>16, <1>17, <1>25, <1>26, <1>27, <1>28, <1>29 DEF Talk, Told, WithinLimits

----
(* The edits that have a turn, before one.                                 *)
BeforeIn(h, i) == Folded(h, Turns, <<>>, [k \in 1..(i - 1) |-> k], i - 1)

SameSteps(h, g, how, c, d, n) ==
    \A k \in 1..n : \A x : FoldStep(h, how, x, c[k]) = FoldStep(g, how, x, d[k])

\* Folds of one kind over the same beginning agree on it.
LEMMA FoldsAgree ==
    ASSUME NEW h, NEW g, NEW how, NEW b, NEW c, NEW d, NEW n \in Nat, NEW m \in Nat, n <= m,
           NEW f, Folds(f, h, how, b, c, n), NEW e, Folds(e, g, how, b, d, m),
           SameSteps(h, g, how, c, d, n)
    PROVE  \A k \in 0..n : f[k] = e[k]
<1> DEFINE T == {k \in Nat : k <= n => f[k] = e[k]}
<1>1. 0 \in T
  BY DEF Folds
<1>2. ASSUME NEW k \in Nat, k \in T PROVE k + 1 \in T
 <2>1. CASE k + 1 <= n
  <3>1. k \in 0..(n - 1) /\ k \in 0..(m - 1) /\ k + 1 \in 1..n
    BY <2>1
  <3>2. f[k + 1] = FoldStep(h, how, f[k], c[k + 1]) /\ e[k + 1] = FoldStep(g, how, e[k], d[k + 1])
    BY <3>1 DEF Folds
  <3> QED BY <1>2, <2>1, <3>1, <3>2 DEF SameSteps
 <2> QED BY <2>1
<1> HIDE DEF T
<1>3. \A k \in Nat : k \in T
  BY <1>1, <1>2, AllNaturals
<1> QED BY <1>3 DEF T

LEMMA BeforeFirst == ASSUME NEW h PROVE BeforeIn(h, 1) = <<>>
<1>1. PICK c : c = [k \in 1..(1 - 1) |-> k]
  OBVIOUS
<1>2. PICK f : Folds(f, h, Turns, <<>>, c, 0) /\ Folded(h, Turns, <<>>, c, 0) = f[0]
  BY FoldSteps
<1>3. 1 - 1 = 0
  OBVIOUS
<1> QED BY <1>1, <1>2, <1>3 DEF BeforeIn, Folds

LEMMA BeforeNext ==
    ASSUME NEW h, NEW i \in Nat \ {0}
    PROVE  BeforeIn(h, i + 1) = IF Turn(h, i) THEN Append(BeforeIn(h, i), i) ELSE BeforeIn(h, i)
<1>1. PICK n \in Nat : n = i - 1
 <2>1. i - 1 \in Nat
   OBVIOUS
 <2> QED BY <2>1
<1>2. PICK c : c = [k \in 1..n |-> k]
  OBVIOUS
<1>3. PICK d : d = [k \in 1..i |-> k]
  OBVIOUS
<1>4. PICK f : Folds(f, h, Turns, <<>>, c, n) /\ Folded(h, Turns, <<>>, c, n) = f[n]
  BY FoldSteps
<1>5. PICK e : Folds(e, h, Turns, <<>>, d, i) /\ Folded(h, Turns, <<>>, d, i) = e[i]
  BY FoldSteps
<1>6. SameSteps(h, h, Turns, c, d, n)
 <2>1. \A k \in 1..n : k \in 1..i
   BY <1>1
 <2> QED BY <1>2, <1>3, <2>1 DEF SameSteps
<1>13. n <= i
  BY <1>1
<1>14. \A k \in 0..n : f[k] = e[k]
  BY <1>4, <1>5, <1>6, <1>13, FoldsAgree
<1>7. f[n] = e[n]
  BY <1>14
<1>8. n \in 0..(i - 1) /\ n + 1 = i /\ i \in 1..i /\ i + 1 - 1 = i
  BY <1>1
<1>9. e[i] = FoldStep(h, Turns, e[n], d[i])
  BY <1>5, <1>8 DEF Folds
<1>10. e[i] = IF Turn(h, i) THEN Append(e[n], i) ELSE e[n]
  BY <1>3, <1>8, <1>9 DEF FoldStep, Turns
<1>11. BeforeIn(h, i) = f[n]
  BY <1>1, <1>2, <1>4 DEF BeforeIn
<1>12. BeforeIn(h, i + 1) = e[i]
  BY <1>3, <1>5, <1>8 DEF BeforeIn
<1> QED BY <1>7, <1>10, <1>11, <1>12

LEMMA BeforeType ==
    ASSUME NEW h, NEW i \in Nat \ {0}
    PROVE  BeforeIn(h, i) \in Seq({j \in 1..(i - 1) : Turn(h, j)})
<1> DEFINE T == {n \in Nat : BeforeIn(h, n + 1) \in Seq({j \in 1..n : Turn(h, j)})}
<1>1. 0 \in T
 <2>1. 0 + 1 = 1
   OBVIOUS
 <2>2. BeforeIn(h, 0 + 1) = <<>>
   BY <2>1, BeforeFirst
 <2>3. PICK S : S = {j \in 1..0 : Turn(h, j)}
   OBVIOUS
 <2>4. <<>> \in Seq(S)
   OBVIOUS
 <2> QED BY <2>2, <2>3, <2>4
<1>2. ASSUME NEW n \in Nat, n \in T PROVE n + 1 \in T
 <2>1. PICK s : s = BeforeIn(h, n + 1)
   OBVIOUS
 <2>2. s \in Seq({j \in 1..(n + 1) : Turn(h, j)})
  <3>1. s \in Seq({j \in 1..n : Turn(h, j)})
    BY <1>2, <2>1
  <3>2. {j \in 1..n : Turn(h, j)} \subseteq {j \in 1..(n + 1) : Turn(h, j)}
    OBVIOUS
  <3> QED BY <3>1, <3>2, SeqMonotonic
 <2>3. BeforeIn(h, n + 1 + 1) = IF Turn(h, n + 1) THEN Append(s, n + 1) ELSE s
   BY <2>1, BeforeNext
 <2>4. BeforeIn(h, n + 1 + 1) \in Seq({j \in 1..(n + 1) : Turn(h, j)})
  <3>1. CASE Turn(h, n + 1)
   <4>1. n + 1 \in {j \in 1..(n + 1) : Turn(h, j)}
     BY <3>1
   <4>2. Append(s, n + 1) \in Seq({j \in 1..(n + 1) : Turn(h, j)})
     BY <2>2, <4>1, AppendProperties
   <4> QED BY <2>3, <3>1, <4>2
  <3>2. CASE ~Turn(h, n + 1)
    BY <2>2, <2>3, <3>2
  <3> QED BY <3>1, <3>2
 <2> QED BY <2>4
<1> HIDE DEF T
<1>3. \A n \in Nat : n \in T
  BY <1>1, <1>2, AllNaturals
<1>4. i - 1 \in Nat /\ i - 1 + 1 = i
  OBVIOUS
<1>5. i - 1 \in T
  BY <1>3, <1>4
<1> QED BY <1>4, <1>5 DEF T

\* What came before an edit stays what it was.
LEMMA BeforeStays ==
    ASSUME NEW h, NEW g, NEW i \in Nat \ {0}, \A k \in 1..(i - 1) : Turn(h, k) = Turn(g, k)
    PROVE  BeforeIn(h, i) = BeforeIn(g, i)
<1>1. PICK n \in Nat : n = i - 1
 <2>1. i - 1 \in Nat
   OBVIOUS
 <2> QED BY <2>1
<1>2. PICK c : c = [k \in 1..n |-> k]
  OBVIOUS
<1>4. PICK f : Folds(f, h, Turns, <<>>, c, n) /\ Folded(h, Turns, <<>>, c, n) = f[n]
  BY FoldSteps
<1>5. PICK e : Folds(e, g, Turns, <<>>, c, n) /\ Folded(g, Turns, <<>>, c, n) = e[n]
  BY FoldSteps
<1>6. SameSteps(h, g, Turns, c, c, n)
  BY <1>1, <1>2 DEF FoldStep, Turns, SameSteps
<1>8. \A k \in 0..n : f[k] = e[k]
  BY <1>4, <1>5, <1>6, FoldsAgree
<1>7. f[n] = e[n]
  BY <1>8
<1> QED BY <1>1, <1>2, <1>4, <1>5, <1>7 DEF BeforeIn

----
(* A good context for an edit: the end of what came before, within the     *)
(* limits, with something of it if anything came since a given edit.       *)
GoodTalk(h, talk, i, since) ==
    /\ talk \in Talk(h)
    /\ IsEnd(Told(talk), BeforeIn(h, i))
    /\ WithinLimits(h, talk)
    /\ (\E j \in 1..(i - 1) : j >= since /\ Turn(h, j)) => Told(talk) # <<>>

LEMMA ToldType == ASSUME NEW h, NEW talk \in Talk(h) PROVE Told(talk) \in Seq(DOMAIN h)
<1>1. talk.summary \in Seq(DOMAIN h) /\ talk.recent \in Seq(DOMAIN h)
  BY DEF Talk
<1> QED BY <1>1 DEF Told

LEMMA BeforeInDomain ==
    ASSUME NEW S, NEW h \in Seq(S), NEW i \in 1..(Len(h) + 1)
    PROVE  BeforeIn(h, i) \in Seq(DOMAIN h)
<1>1. BeforeIn(h, i) \in Seq({j \in 1..(i - 1) : Turn(h, j)})
  BY BeforeType
<1>2. {j \in 1..(i - 1) : Turn(h, j)} \subseteq DOMAIN h
  OBVIOUS
<1> QED BY <1>1, <1>2, SeqMonotonic

LEMMA NothingIsGood ==
    ASSUME NEW S, NEW h \in Seq(S), Prompted(h), NEW i \in 1..(Len(h) + 1)
    PROVE  GoodTalk(h, NoTalk, i, i)
<1>1. <<>> \in Seq(DOMAIN h) /\ Len(<<>>) = 0 /\ <<>> \o <<>> = <<>>
  OBVIOUS
<1>2. NoTalk \in Talk(h) /\ NoTalk.summary = <<>> /\ NoTalk.recent = <<>>
  BY <1>1 DEF NoTalk, Talk
<1>3. Told(NoTalk) = <<>>
  BY <1>1, <1>2 DEF Told
<1>4. IsEnd(<<>>, BeforeIn(h, i))
 <2>1. Len(BeforeIn(h, i)) \in Nat
   BY BeforeInDomain
 <2> QED BY <1>1, <2>1 DEF IsEnd
<1>5. CostIn(h, LineCost, <<>>) = 0 /\ CostIn(h, TurnCost, <<>>) = 0
  BY <1>1, CostType, ConversationAssumption
<1>6. WithinLimits(h, NoTalk)
  BY <1>1, <1>2, <1>5, ConversationAssumption DEF WithinLimits
<1>7. ~\E j \in 1..(i - 1) : j >= i /\ Turn(h, j)
  OBVIOUS
<1> QED BY <1>2, <1>3, <1>4, <1>6, <1>7 DEF GoodTalk

LEMMA AdvanceIsGood ==
    ASSUME LinesFit, NEW S, NEW h \in Seq(S), Prompted(h), NEW i \in 1..Len(h), Turn(h, i),
           NEW talk, NEW since, GoodTalk(h, talk, i, since), NEW later
    PROVE  GoodTalk(h, AdvanceIn(h, talk, i), i + 1, later)
<1>1. /\ talk \in Talk(h) /\ i \in DOMAIN h /\ CostIn(h, LineCost, talk.summary) <= MaxSummary
      /\ IsEnd(Told(talk), BeforeIn(h, i))
  BY DEF GoodTalk, WithinLimits
<1>2. PICK new : new = AdvanceIn(h, talk, i)
  OBVIOUS
<1>3. /\ new \in Talk(h) /\ IsEnd(Told(new), Told(talk) \o <<i>>) /\ Told(new) # <<>>
      /\ WithinLimits(h, new)
  BY <1>1, <1>2, AdvanceKeepsEnd
<1>4. Told(talk) \in Seq(DOMAIN h) /\ Told(new) \in Seq(DOMAIN h) /\ <<i>> \in Seq(DOMAIN h)
  BY <1>1, <1>3, ToldType
<1>5. PICK s : s = BeforeIn(h, i)
  OBVIOUS
<1>6. s \in Seq(DOMAIN h)
  BY <1>5, BeforeInDomain
<1>7. BeforeIn(h, i + 1) = Append(s, i)
 <2>1. i \in Nat \ {0}
   OBVIOUS
 <2> QED BY <1>5, <2>1, BeforeNext
<1>8. Append(s, i) = s \o <<i>>
  BY <1>1, <1>6, AppendIsConcat
<1>9. IsEnd(Told(talk) \o <<i>>, s \o <<i>>)
  BY <1>1, <1>4, <1>5, <1>6, EndWithMore
<1>10. IsEnd(Told(new), s \o <<i>>)
 <2>1. Told(talk) \o <<i>> \in Seq(DOMAIN h) /\ s \o <<i>> \in Seq(DOMAIN h)
   BY <1>4, <1>6
 <2> QED BY <1>3, <1>4, <1>9, <2>1, EndOfEnd
<1> QED BY <1>2, <1>3, <1>7, <1>8, <1>10 DEF GoodTalk

\* A context that is built again from the edits since one.
LEMMA RebuiltIsGood ==
    ASSUME LinesFit, NEW S, NEW h \in Seq(S), Prompted(h), NEW since \in 1..(Len(h) + 1), NEW c, NEW m,
           m = Len(h) + 1 - since, \A k \in 1..m : c[k] = since + k - 1
    PROVE  GoodTalk(h, Folded(h, Talks, NoTalk, c, m), Len(h) + 1, since)
<1>1. m \in Nat /\ since \in Nat /\ since >= 1 /\ Len(h) \in Nat /\ since + m = Len(h) + 1
  OBVIOUS
<1>2. PICK f : Folds(f, h, Talks, NoTalk, c, m) /\ Folded(h, Talks, NoTalk, c, m) = f[m]
  BY <1>1, FoldSteps
<1> DEFINE T == {k \in Nat : k <= m => GoodTalk(h, f[k], since + k, since)}
<1>3. 0 \in T
 <2>1. f[0] = NoTalk /\ since + 0 = since
   BY <1>1, <1>2 DEF Folds
 <2> QED BY <2>1, NothingIsGood
<1>4. ASSUME NEW k \in Nat, k \in T PROVE k + 1 \in T
 <2>1. CASE k + 1 <= m
  <3>1. PICK i : i = since + k
    OBVIOUS
  <3>2. i \in 1..Len(h) /\ k + 1 \in 1..m /\ k \in 0..(m - 1) /\ c[k + 1] = i /\ since + (k + 1) = i + 1
    BY <1>1, <2>1, <3>1
  <3>3. GoodTalk(h, f[k], i, since)
    BY <1>4, <2>1, <3>1
  <3>4. f[k + 1] = IF Turn(h, i) THEN AdvanceIn(h, f[k], i) ELSE f[k]
   <4>1. f[k + 1] = FoldStep(h, Talks, f[k], c[k + 1])
     BY <1>2, <3>2 DEF Folds
   <4> QED BY <3>2, <4>1 DEF FoldStep, Talks
  <3>5. CASE Turn(h, i)
   <4>1. GoodTalk(h, AdvanceIn(h, f[k], i), i + 1, since)
     BY <3>2, <3>3, <3>5, AdvanceIsGood
   <4> QED BY <3>2, <3>4, <3>5, <4>1
  <3>6. CASE ~Turn(h, i)
   <4>1. BeforeIn(h, i + 1) = BeforeIn(h, i)
     BY <3>2, <3>6, BeforeNext
   <4>2. (\E j \in 1..(i + 1 - 1) : j >= since /\ Turn(h, j))
            => \E j \in 1..(i - 1) : j >= since /\ Turn(h, j)
     BY <3>2, <3>6
   <4>5. /\ f[k] \in Talk(h) /\ IsEnd(Told(f[k]), BeforeIn(h, i + 1)) /\ WithinLimits(h, f[k])
         /\ (\E j \in 1..(i - 1) : j >= since /\ Turn(h, j)) => Told(f[k]) # <<>>
     BY <3>3, <4>1, Zenon DEF GoodTalk
   <4>6. (\E j \in 1..(i + 1 - 1) : j >= since /\ Turn(h, j)) => Told(f[k]) # <<>>
     BY <4>2, <4>5
   <4>7. PICK t : t = f[k]
     OBVIOUS
   <4>8. PICK j : j = i + 1
     OBVIOUS
   <4>9. /\ t \in Talk(h) /\ IsEnd(Told(t), BeforeIn(h, j)) /\ WithinLimits(h, t)
         /\ (\E e \in 1..(j - 1) : e >= since /\ Turn(h, e)) => Told(t) # <<>>
    <5>1. 1..(i + 1 - 1) = 1..(j - 1)
     <6>1. i \in Int
       BY <3>2
     <6> QED BY <4>8, <6>1
    <5>2. (\E e \in 1..(j - 1) : e >= since /\ Turn(h, e)) => Told(t) # <<>>
      BY <4>6, <4>7, <5>1, Zenon
    <5> QED BY <4>5, <4>7, <4>8, <5>2, Zenon
   <4>10. GoodTalk(h, t, j, since)
     BY <4>9 DEF GoodTalk
   <4>3. GoodTalk(h, f[k], i + 1, since)
     BY <4>7, <4>8, <4>10
   <4>4. GoodTalk(h, f[k + 1], since + (k + 1), since)
     BY <3>2, <3>4, <3>6, <4>3
   <4> QED BY <4>4
  <3> QED BY <3>5, <3>6
 <2> QED BY <2>1
<1> HIDE DEF T
<1>5. m \in T
  BY <1>1, <1>3, <1>4, AllNaturals
<1>6. GoodTalk(h, f[m], since + m, since)
  BY <1>1, <1>5 DEF T
<1> QED BY <1>1, <1>2, <1>6

----
(* The edits of a project.                                                 *)
AnyTalk == [summary : Seq(Nat), recent : Seq(Nat)]
Chats == [prompt : Prompts, status : {"active", "over", "unclear"}, context : AnyTalk \cup {NoContext}]

ConversationInv ==
    /\ chats \in Seq(Chats)
    /\ \A i \in DOMAIN chats : chats[i].status = "active" => i = Len(chats)
    /\ \A i \in DOMAIN chats :
          chats[i].context # NoContext => GoodTalk(chats, chats[i].context, i, i - MaxRows)

LEMMA ListedIsLast ==
    ASSUME ConversationInv, ~Active
    PROVE  /\ Listed \in Seq(Nat)
           /\ Len(Listed) = IF Len(chats) > MaxRows THEN MaxRows ELSE Len(chats)
           /\ \A k \in 1..Len(Listed) : Listed[k] = Len(chats) - Len(Listed) + k
<1>1. PICK n : n = Len(chats)
  OBVIOUS
<1>2. n \in Nat /\ DOMAIN chats = 1..n
  BY <1>1 DEF ConversationInv
<1>3. PICK c : c = [k \in 1..n |-> k]
  OBVIOUS
<1>4. PICK f : Folds(f, chats, Overs, <<>>, c, n) /\ Folded(chats, Overs, <<>>, c, n) = f[n]
  BY <1>2, FoldSteps
<1> DEFINE T == {k \in Nat : k <= n => /\ f[k] \in Seq(Nat) /\ Len(f[k]) = k
                                     /\ \A j \in 1..k : f[k][j] = j}
<1>5. 0 \in T
 <2>1. PICK s : s = f[0]
   OBVIOUS
 <2>2. s = <<>>
   BY <1>4, <2>1 DEF Folds
 <2>3. s \in Seq(Nat) /\ Len(s) = 0 /\ \A j \in 1..0 : s[j] = j
   BY <2>2
 <2> QED BY <2>1, <2>3
<1>6. ASSUME NEW k \in Nat, k \in T PROVE k + 1 \in T
 <2>1. CASE k + 1 <= n
  <3>1. k \in 0..(n - 1) /\ k + 1 \in 1..n /\ k <= n
    BY <1>2, <2>1
  <3>2. f[k + 1] = FoldStep(chats, Overs, f[k], c[k + 1])
    BY <1>4, <3>1 DEF Folds
  <3>3. chats[k + 1].status # "active"
    BY <1>2, <3>1 DEF Active
  <3>4. f[k + 1] = Append(f[k], k + 1)
    BY <1>3, <3>1, <3>2, <3>3 DEF FoldStep, Overs
  <3>5. PICK s : s = f[k]
    OBVIOUS
  <3>6. s \in Seq(Nat) /\ Len(s) = k /\ \A j \in 1..k : s[j] = j
    BY <1>6, <3>1, <3>5
  <3>7. PICK r : r = Append(s, k + 1)
    OBVIOUS
  <3>8. r \in Seq(Nat) /\ Len(r) = k + 1 /\ \A j \in 1..(k + 1) : r[j] = j
    BY <3>6, <3>7
  <3>9. f[k + 1] = r
    BY <3>4, <3>5, <3>7
  <3> QED BY <3>8, <3>9
 <2> QED BY <2>1
<1> HIDE DEF T
<1>7. n \in T
  BY <1>2, <1>5, <1>6, AllNaturals
<1>8. PICK over : over = f[n]
  OBVIOUS
<1>9. over \in Seq(Nat) /\ Len(over) = n /\ \A j \in 1..n : over[j] = j
  BY <1>2, <1>7, <1>8 DEF T
<1>10. Those(LAMBDA i : chats[i].status # "active", n) = over
  BY <1>2, <1>3, <1>4, <1>8, OverFolded
<1>11. Listed = SubSeq(over, IF n > MaxRows THEN n - MaxRows + 1 ELSE 1, n)
  BY <1>1, <1>9, <1>10 DEF Listed
<1>12. MaxRows \in Nat \ {0}
  BY ConversationAssumption
<1>13. PICK a : a = IF n > MaxRows THEN n - MaxRows + 1 ELSE 1
  OBVIOUS
<1>14. a \in 1..(n + 1) /\ (n > 0 => a <= n) /\ n - a + 1 = IF n > MaxRows THEN MaxRows ELSE n
  BY <1>2, <1>12, <1>13
<1>15. PICK s : s = SubSeq(over, a, n)
  OBVIOUS
<1>16. s \in Seq(Nat) /\ Len(s) = n - a + 1 /\ \A k \in 1..(n - a + 1) : s[k] = a + k - 1
  BY <1>2, <1>9, <1>14, <1>15
<1>17. \A k \in 1..Len(s) : s[k] = n - Len(s) + k
  BY <1>2, <1>14, <1>16
<1> QED BY <1>1, <1>11, <1>13, <1>14, <1>15, <1>16, <1>17

LEMMA PromptedChats == ASSUME NEW h \in Seq(Chats) PROVE Prompted(h)
<1>1. ASSUME NEW i \in DOMAIN h PROVE h[i].prompt \in Prompts
 <2>1. h[i] \in Chats
   OBVIOUS
 <2> QED BY <2>1 DEF Chats
<1> QED BY <1>1 DEF Prompted

LEMMA NextIsGood ==
    ASSUME LinesFit, ConversationInv, ~Active
    PROVE  GoodTalk(chats, NextContext, Len(chats) + 1, Len(chats) + 1 - MaxRows)
<1>1. PICK n \in Nat : n = Len(chats)
  BY DEF ConversationInv
<1>2. PICK m : m = Len(Listed)
  OBVIOUS
<1>3. /\ m = IF n > MaxRows THEN MaxRows ELSE n
      /\ Listed \in Seq(Nat) /\ \A k \in 1..m : Listed[k] = n - m + k
      /\ MaxRows \in Nat \ {0}
  BY <1>1, <1>2, ListedIsLast, ConversationAssumption
<1>4. m \in Nat /\ m <= n /\ (m = 0 => n = 0) /\ DOMAIN chats = 1..n /\ chats \in Seq(Chats)
  BY <1>1, <1>3 DEF ConversationInv
<1>5. Prompted(chats)
  BY <1>4, PromptedChats
<1>6. CASE Listed = <<>>
 <2>1. n = 0
   BY <1>2, <1>4, <1>6
 <2>2. NextContext = NoTalk
   BY <1>6 DEF NextContext
 <2>3. GoodTalk(chats, NoTalk, n + 1, n + 1)
   BY <1>1, <1>4, <1>5, NothingIsGood
 <2>4. ~\E j \in 1..(n + 1 - 1) : j >= n + 1 - MaxRows /\ Turn(chats, j)
   BY <2>1
 <2>5. GoodTalk(chats, NoTalk, n + 1, n + 1 - MaxRows)
   BY <2>3, <2>4 DEF GoodTalk
 <2> QED BY <1>1, <2>2, <2>5
<1>7. CASE Listed # <<>> /\ chats[Last(Listed)].context # NoContext /\ HasTurn(Last(Listed))
 <2>1. m # 0
   BY <1>2, <1>3, <1>7, EmptySeq
 <2>5. m \in 1..m /\ n - m + m = n /\ n \in 1..n
   BY <1>4, <2>1
 <2>2. Last(Listed) = n /\ n \in 1..n
   BY <1>2, <1>3, <2>5 DEF Last
 <2>3. NextContext = AdvanceIn(chats, chats[n].context, n)
   BY <1>7, <2>2, AdvanceIsIn DEF NextContext
 <2>4. GoodTalk(chats, chats[n].context, n, n - MaxRows) /\ Turn(chats, n)
   BY <1>4, <1>7, <2>2 DEF ConversationInv, HasTurn, Turn
 <2> QED BY <1>1, <1>4, <1>5, <2>2, <2>3, <2>4, AdvanceIsGood
<1>8. CASE Listed # <<>> /\ ~(chats[Last(Listed)].context # NoContext /\ HasTurn(Last(Listed)))
 <2>1. NextContext = Folded(chats, Talks, NoTalk, Listed, m)
  <3>1. DOMAIN Listed = 1..m
    BY <1>2, <1>3, LenProperties
  <3>2. NextContext = FoldLeft(LAMBDA talk, i : IF HasTurn(i) THEN Advance(talk, i) ELSE talk, NoTalk, Listed)
    BY <1>8 DEF NextContext
  <3> QED BY <3>1, <3>2, TalkFolded
 <2>2. PICK a : a = n + 1 - m
   OBVIOUS
 <2>3. /\ a \in 1..(n + 1) /\ m = n + 1 - a /\ \A k \in 1..m : Listed[k] = a + k - 1
       /\ \A j \in 1..n : j >= n + 1 - MaxRows => j >= a
   BY <1>3, <1>4, <2>2
 <2>4. GoodTalk(chats, Folded(chats, Talks, NoTalk, Listed, m), n + 1, a)
   BY <1>1, <1>4, <1>5, <2>3, RebuiltIsGood
 <2>5. PICK t : t = Folded(chats, Talks, NoTalk, Listed, m)
   OBVIOUS
 <2>6. (\E j \in 1..(n + 1 - 1) : j >= n + 1 - MaxRows /\ Turn(chats, j))
          => \E j \in 1..(n + 1 - 1) : j >= a /\ Turn(chats, j)
   BY <1>1, <2>3
 <2>7. GoodTalk(chats, t, n + 1, n + 1 - MaxRows)
   BY <2>4, <2>5, <2>6 DEF GoodTalk
 <2> QED BY <1>1, <2>1, <2>5, <2>7
<1> QED BY <1>6, <1>7, <1>8

\* What is good stays good when edits are added or end, as it is about earlier ones.
LEMMA GoodStays ==
    ASSUME NEW S, NEW h \in Seq(S), NEW g \in Seq(S), Prompted(h), Prompted(g), Len(h) <= Len(g),
           \A k \in DOMAIN h : Turn(h, k) = Turn(g, k) /\ h[k].prompt = g[k].prompt,
           NEW i \in 1..(Len(h) + 1), NEW talk, NEW since, GoodTalk(h, talk, i, since)
    PROVE  GoodTalk(g, talk, i, since)
<1>1. DOMAIN h = 1..Len(h) /\ DOMAIN g = 1..Len(g) /\ DOMAIN h \subseteq DOMAIN g
  OBVIOUS
<1>2. Seq(DOMAIN h) \subseteq Seq(DOMAIN g)
  BY <1>1, SeqMonotonic
<1>3. talk \in Talk(h) /\ talk \in Talk(g)
  BY <1>2 DEF GoodTalk, Talk
<1>4. BeforeIn(g, i) = BeforeIn(h, i)
 <2>1. \A k \in 1..(i - 1) : Turn(h, k) = Turn(g, k)
   BY <1>1
 <2> QED BY <2>1, BeforeStays
<1>5. ASSUME NEW price \in [Prompts -> Nat], NEW c \in Seq(DOMAIN h)
      PROVE  CostIn(g, price, c) = CostIn(h, price, c)
 <2>1. \A k \in DOMAIN c : h[c[k]].prompt = g[c[k]].prompt
   OBVIOUS
 <2>2. PICK n \in Nat : n = Len(c)
   OBVIOUS
 <2>3. DOMAIN c = 1..n
   BY <2>2
 <2>9. SameSteps(h, g, Costs(price), c, c, n)
   BY <2>1, <2>3 DEF SameSteps, FoldStep, Costs
 <2>4. PICK f : Folds(f, h, Costs(price), 0, c, n) /\ Folded(h, Costs(price), 0, c, n) = f[n]
   BY <2>2, FoldSteps
 <2>5. PICK e : Folds(e, g, Costs(price), 0, c, n) /\ Folded(g, Costs(price), 0, c, n) = e[n]
   BY <2>2, FoldSteps
 <2>6. \A k \in 0..n : f[k] = e[k]
   BY <2>2, <2>4, <2>5, <2>9, FoldsAgree
 <2>7. f[n] = e[n]
   BY <2>2, <2>6
 <2>8. CostIn(g, price, c) = Folded(g, Costs(price), 0, c, n)
       /\ CostIn(h, price, c) = Folded(h, Costs(price), 0, c, n)
   BY <2>3, CostFolded
 <2> QED BY <2>4, <2>5, <2>7, <2>8
<1>6. /\ CostIn(g, LineCost, talk.summary) = CostIn(h, LineCost, talk.summary)
      /\ CostIn(g, TurnCost, talk.recent) = CostIn(h, TurnCost, talk.recent)
  BY <1>3, <1>5, ConversationAssumption DEF Talk
<1>7. WithinLimits(g, talk)
  BY <1>6 DEF GoodTalk, WithinLimits
<1>8. (\E j \in 1..(i - 1) : j >= since /\ Turn(g, j)) => \E j \in 1..(i - 1) : j >= since /\ Turn(h, j)
  BY <1>1
<1> QED BY <1>3, <1>4, <1>7, <1>8 DEF GoodTalk

LEMMA InitIsGood == ConversationInit => ConversationInv
<1> SUFFICES ASSUME ConversationInit PROVE ConversationInv
  OBVIOUS
<1>1. /\ chats \in Seq([prompt : Prompts, status : {"active", "over", "unclear"}, context : {NoContext}])
      /\ \A i \in DOMAIN chats : chats[i].status = "active" => i = Len(chats)
  BY ConversationAssumption DEF ConversationInit
<1>2. [prompt : Prompts, status : {"active", "over", "unclear"}, context : {NoContext}] \subseteq Chats
  BY DEF Chats
<1>3. chats \in Seq(Chats)
  BY <1>1, <1>2, SeqMonotonic
<1>4. ASSUME NEW i \in DOMAIN chats PROVE chats[i].context = NoContext
 <2>1. PICK R : R = [prompt : Prompts, status : {"active", "over", "unclear"}, context : {NoContext}]
   OBVIOUS
 <2>2. chats \in Seq(R)
   BY <1>1, <2>1
 <2>3. chats[i] \in R
   BY <2>2
 <2> QED BY <2>1, <2>3
<1> QED BY <1>1, <1>3, <1>4 DEF ConversationInv

LEMMA StartKeepsGood ==
    ASSUME LinesFit, ConversationInv, NEW prompt \in Prompts, StartChat(prompt)
    PROVE  ConversationInv'
<1>1. PICK n \in Nat : n = Len(chats)
  BY DEF ConversationInv
<1>2. PICK talk : talk = NextContext
  OBVIOUS
<1>3. GoodTalk(chats, talk, n + 1, n + 1 - MaxRows)
  BY <1>1, <1>2, NextIsGood DEF StartChat
<1>4. PICK new : new = [prompt |-> prompt, status |-> "active", context |-> talk]
  OBVIOUS
<1>5. PICK h : h = chats
  OBVIOUS
<1>6. PICK g : g = chats'
  OBVIOUS
<1>7. g = Append(h, new)
  BY <1>2, <1>4, <1>5, <1>6 DEF StartChat
<1>8. new \in Chats
 <2>1. talk \in Talk(chats)
   BY <1>3 DEF GoodTalk
 <2>2. Seq(DOMAIN chats) \subseteq Seq(Nat)
  <3>1. DOMAIN chats \subseteq Nat
    BY DEF ConversationInv
  <3> QED BY <3>1, SeqMonotonic
 <2>3. talk \in AnyTalk
   BY <2>1, <2>2 DEF Talk, AnyTalk
 <2> QED BY <1>4, <2>3 DEF Chats
<1>9. h \in Seq(Chats) /\ Len(h) = n
  BY <1>1, <1>5 DEF ConversationInv
<1>10. /\ g \in Seq(Chats) /\ Len(g) = n + 1 /\ g[n + 1] = new
       /\ \A k \in 1..n : g[k] = h[k]
  BY <1>7, <1>8, <1>9, AppendProperties
<1>11. Prompted(h) /\ Prompted(g)
  BY <1>9, <1>10, PromptedChats
<1>12. \A k \in DOMAIN h : Turn(h, k) = Turn(g, k) /\ h[k].prompt = g[k].prompt
  BY <1>9, <1>10 DEF Turn
<1>13. ASSUME NEW i \in 1..(n + 1), NEW t, NEW since, GoodTalk(h, t, i, since) PROVE GoodTalk(g, t, i, since)
  BY <1>9, <1>10, <1>11, <1>12, <1>13, GoodStays
<1>14. ASSUME NEW i \in DOMAIN g PROVE g[i].status = "active" => i = Len(g)
 <2>1. CASE i \in 1..n
   BY <1>5, <1>9, <1>10, <2>1 DEF StartChat, Active
 <2> QED BY <1>10, <2>1
<1>15. ASSUME NEW i \in DOMAIN g, g[i].context # NoContext PROVE GoodTalk(g, g[i].context, i, i - MaxRows)
 <2>1. CASE i \in 1..n
  <3>1. GoodTalk(h, h[i].context, i, i - MaxRows)
    BY <1>5, <1>9, <1>10, <1>15, <2>1 DEF ConversationInv
  <3> QED BY <1>10, <1>13, <2>1, <3>1
 <2>2. CASE i = n + 1
  <3>1. g[i].context = talk
    BY <1>4, <1>10, <2>2
  <3>2. GoodTalk(h, talk, i, i - MaxRows)
   <4>1. h = chats /\ i = n + 1 /\ MaxRows \in Nat
     BY <1>5, <2>2, ConversationAssumption
   <4> QED BY <1>3, <4>1
  <3> QED BY <1>13, <2>2, <3>1, <3>2
 <2> QED BY <1>10, <2>1, <2>2
<1> QED BY <1>6, <1>10, <1>14, <1>15 DEF ConversationInv

LEMMA EndKeepsGood ==
    ASSUME ConversationInv, EndChat
    PROVE  ConversationInv'
<1>1. PICK n \in Nat : n = Len(chats)
  BY DEF ConversationInv
<1>2. PICK h : h = chats
  OBVIOUS
<1>3. PICK g : g = chats'
  OBVIOUS
<1>4. h \in Seq(Chats) /\ Len(h) = n
  BY <1>1, <1>2 DEF ConversationInv
<1>5. n \in 1..n /\ h[n].status = "active"
  BY <1>1, <1>2, <1>4 DEF EndChat, Active, ConversationInv
<1>6. PICK over : over = [h[n] EXCEPT !.status = "over"]
  OBVIOUS
<1>7. g = [h EXCEPT ![n] = over]
  BY <1>1, <1>2, <1>3, <1>6 DEF EndChat
<1>8. h[n] \in Chats
  BY <1>4, <1>5
<1>9. over \in Chats /\ over.prompt = h[n].prompt /\ over.context = h[n].context /\ over.status = "over"
  BY <1>6, <1>8 DEF Chats
<1>10. /\ g \in Seq(Chats) /\ Len(g) = n /\ g[n] = over
       /\ \A k \in 1..n : k # n => g[k] = h[k]
  BY <1>4, <1>5, <1>7, <1>9
<1>11. Prompted(h) /\ Prompted(g)
  BY <1>4, <1>10, PromptedChats
<1>12. \A k \in DOMAIN h : Turn(h, k) = Turn(g, k) /\ h[k].prompt = g[k].prompt
  BY <1>4, <1>5, <1>9, <1>10 DEF Turn
<1>13. ASSUME NEW i \in DOMAIN g PROVE g[i].status = "active" => i = Len(g)
 <2>1. i \in 1..n
   BY <1>10
 <2>2. CASE i = n
   BY <1>10, <2>2
 <2>3. CASE i # n
   BY <1>2, <1>4, <1>10, <2>1, <2>3 DEF ConversationInv
 <2> QED BY <2>2, <2>3
<1>14. ASSUME NEW i \in DOMAIN g, g[i].context # NoContext PROVE GoodTalk(g, g[i].context, i, i - MaxRows)
 <2>1. i \in 1..n /\ g[i].context = h[i].context
   BY <1>4, <1>9, <1>10
 <2>2. GoodTalk(h, h[i].context, i, i - MaxRows)
   BY <1>2, <1>4, <1>14, <2>1 DEF ConversationInv
 <2>3. i \in 1..(Len(h) + 1) /\ Len(h) <= Len(g)
   BY <1>4, <1>10, <2>1
 <2>4. GoodTalk(g, h[i].context, i, i - MaxRows)
   BY <1>4, <1>10, <1>11, <1>12, <2>2, <2>3, GoodStays
 <2> QED BY <2>1, <2>4
<1>15. \A i \in DOMAIN g : g[i].status = "active" => i = Len(g)
  BY <1>13
<1> QED BY <1>3, <1>10, <1>14, <1>15 DEF ConversationInv

LEMMA InvTellsHistory == ConversationInv => HistoryIsTold
<1> SUFFICES ASSUME ConversationInv, NEW i \in DOMAIN chats, chats[i].context # NoContext,
                    NEW talk, talk = chats[i].context
             PROVE  LET told == talk.summary \o talk.recent
                    IN  /\ IsSuffix(told, Before(i))
                        /\ (\E k \in DOMAIN Before(i) : Before(i)[k] >= i - MaxRows) => told # <<>>
                        /\ Len(talk.recent) <= MaxTurns /\ LinesCost(talk.summary) <= MaxSummary
                        /\ Rendered(talk.summary, talk.recent) <= MaxRendered
  BY DEF HistoryIsTold
<1>1. GoodTalk(chats, talk, i, i - MaxRows)
  BY DEF ConversationInv
<1>2. chats \in Seq(Chats) /\ i \in 1..Len(chats) /\ i \in 1..(Len(chats) + 1) /\ i \in Nat \ {0}
  BY DEF ConversationInv
<1>3. Before(i) = BeforeIn(chats, i)
  BY <1>2, BeforeFolded DEF BeforeIn
<1>4. PICK before : before = BeforeIn(chats, i)
  OBVIOUS
<1>5. before \in Seq(DOMAIN chats) /\ before \in Seq({j \in 1..(i - 1) : Turn(chats, j)})
  BY <1>2, <1>4, BeforeInDomain, BeforeType
<1>6. /\ talk \in Talk(chats) /\ IsEnd(Told(talk), before) /\ WithinLimits(chats, talk)
      /\ (\E j \in 1..(i - 1) : j >= i - MaxRows /\ Turn(chats, j)) => Told(talk) # <<>>
  BY <1>1, <1>4 DEF GoodTalk
<1>10. Told(talk) \in Seq(DOMAIN chats)
  BY <1>6, ToldType
<1>7. IsSuffix(Told(talk), before)
  BY <1>5, <1>6, <1>10, EndIsSuffix
<1>8. ASSUME NEW k \in DOMAIN before, before[k] >= i - MaxRows PROVE Told(talk) # <<>>
 <2>1. before[k] \in {j \in 1..(i - 1) : Turn(chats, j)}
   BY <1>5
 <2>2. PICK j : j = before[k]
   OBVIOUS
 <2>3. j \in 1..(i - 1) /\ j >= i - MaxRows /\ Turn(chats, j)
   BY <1>8, <2>1, <2>2
 <2> QED BY <1>6, <2>3
<1>9. /\ Len(talk.recent) <= MaxTurns /\ LinesCost(talk.summary) <= MaxSummary
      /\ Rendered(talk.summary, talk.recent) <= MaxRendered
 <2>1. LinesCost(talk.summary) = CostIn(chats, LineCost, talk.summary)
       /\ TurnsCost(talk.recent) = CostIn(chats, TurnCost, talk.recent)
   BY Zenon DEF LinesCost, TurnsCost, CostIn
 <2> QED BY <1>6, <2>1 DEF WithinLimits, Rendered
<1> QED BY <1>3, <1>4, <1>7, <1>8, <1>9 DEF Told

\* What the agent is told of earlier edits is the end of the project's history, with
\* the last that is listed and within the limits, whether each context went on from
\* the one before or was built again from the rows (next_conversation_context,
\* advance_conversation_context), as long as every line can be kept.
THEOREM HistoryCorrect == LinesFit => (ConversationSpec => []HistoryIsTold)
<1> SUFFICES ASSUME LinesFit PROVE ConversationSpec => []HistoryIsTold
  OBVIOUS
<1>1. ConversationInit => ConversationInv
  BY InitIsGood
<1>2. ConversationInv /\ [ConversationNext]_chats => ConversationInv'
 <2> SUFFICES ASSUME ConversationInv, [ConversationNext]_chats PROVE ConversationInv'
   OBVIOUS
 <2>1. CASE EndChat
   BY <2>1, EndKeepsGood
 <2>2. ASSUME NEW prompt \in Prompts, StartChat(prompt) PROVE ConversationInv'
   BY <2>2, StartKeepsGood
 <2>3. CASE UNCHANGED chats
   BY <2>3 DEF ConversationInv
 <2> QED BY <2>1, <2>2, <2>3 DEF ConversationNext
<1> QED BY <1>1, <1>2, InvTellsHistory, PTL DEF ConversationSpec

(***************************************************************************)
(* The projection of a design and the capture made of it: where stations    *)
(* lie, what segments they leave, what classes the ties of ports make, and   *)
(* what the contract asks of what a request builds.                          *)
(***************************************************************************)

LEMMA StationsFolded ==
    ASSUME NEW d, NEW c
    PROVE  Stations(d, c) = Folded(Cuts(d, c), Placing, <<>>, [i \in 1 .. Length[c] + 1 |-> i - 1],
                                   Length[c] + 1)
  BY DEF Stations, FoldLeft, MapThenFoldSet, Folded, FoldTo, FoldStep, Placing, Placed, PortsAt

LEMMA TiedFolded ==
    ASSUME NEW ties, NEW port
    PROVE  Tied(ties, port) = Folded(ties, Nearing, {port}, [i \in 1 .. Cardinality(ties) |-> i],
                                     Cardinality(ties))
  BY DEF Tied, FoldLeft, MapThenFoldSet, Folded, FoldTo, FoldStep, Nearing, Placing

\* Every cut is of a port, at a place of the member, and a port has one cut.
LEMMA CutsPlaced ==
    ASSUME NEW d, NEW c \in Beams
    PROVE  /\ \A k \in Cuts(d, c) : k.at \in 0..Length[c] /\ k.port \in DOMAIN Rank
           /\ \A k, l \in Cuts(d, c) : k.port = l.port => k.at = l.at
           /\ \E k \in Cuts(d, c) : k.at = 0
<1>1. Length[c] \in Nat /\ {"start", "end"} \subseteq DOMAIN Rank
  BY ProjectionAssumption
<1>2. PICK from : from = [at |-> 0, port |-> "start"]
  OBVIOUS
<1>3. PICK to : to = [at |-> Length[c], port |-> "end"]
  OBVIOUS
<1>4. PICK Q : Q = {q \in Fabricated(d, c) :
                      /\ d.at[<<c, q>>] \in -1 .. Length[c] + 1
                      /\ d.off[<<c, q>>] <= Permitted(d, c, q) + 1}
  OBVIOUS
<1>5. Q \subseteq DOMAIN Rank \ {"start", "end"}
  BY <1>4 DEF Fabricated
<1>6. Cuts(d, c) = {from, to} \cup {[at |-> Clamped(d.at[<<c, p>>], Length[c]), port |-> p] : p \in Q}
  BY <1>2, <1>3, <1>4 DEF Cuts
<1>7. ASSUME NEW q \in Q PROVE Clamped(d.at[<<c, q>>], Length[c]) \in 0..Length[c]
 <2>1. PICK x : x = d.at[<<c, q>>]
   OBVIOUS
 <2>2. x \in Int
   BY <1>1, <1>4, <2>1
 <2> QED BY <1>1, <2>1, <2>2 DEF Clamped
<1>8. ASSUME NEW k \in Cuts(d, c)
      PROVE  \/ k.at = 0 /\ k.port = "start"
             \/ k.at = Length[c] /\ k.port = "end"
             \/ k.port \in Q /\ k.at = Clamped(d.at[<<c, k.port>>], Length[c])
 <2>1. CASE k = from
   BY <1>2, <2>1
 <2>2. CASE k = to
   BY <1>3, <2>2
 <2>3. CASE k # from /\ k # to
  <3>1. PICK p \in Q : k = [at |-> Clamped(d.at[<<c, p>>], Length[c]), port |-> p]
    BY <1>6, <2>3
  <3>2. k.port = p /\ k.at = Clamped(d.at[<<c, p>>], Length[c])
    BY <3>1
  <3> QED BY <3>2
 <2> QED BY <2>1, <2>2, <2>3
<1>9. \A k \in Cuts(d, c) : k.at \in 0..Length[c] /\ k.port \in DOMAIN Rank
 <2>1. ASSUME NEW k \in Cuts(d, c) PROVE k.at \in 0..Length[c] /\ k.port \in DOMAIN Rank
  <3>1. CASE k.at = 0 /\ k.port = "start"
    BY <1>1, <3>1
  <3>2. CASE k.at = Length[c] /\ k.port = "end"
    BY <1>1, <3>2
  <3>3. CASE k.port \in Q /\ k.at = Clamped(d.at[<<c, k.port>>], Length[c])
    BY <1>5, <1>7, <3>3, Zenon
  <3> QED BY <1>8, <3>1, <3>2, <3>3
 <2> QED BY <2>1
<1>10. ASSUME NEW k \in Cuts(d, c), NEW l \in Cuts(d, c), k.port = l.port PROVE k.at = l.at
  BY <1>5, <1>8, <1>10
<1>11. from \in Cuts(d, c) /\ from.at = 0
  BY <1>2, <1>6
<1> QED BY <1>9, <1>10, <1>11

\* The first of some ports is one of them.
LEMMA FirstIsOne ==
    ASSUME NEW ports \in SUBSET (DOMAIN Rank), ports # {}
    PROVE  FirstOf(ports) \in ports
<1>1. PICK T : T = {Rank[p] : p \in ports}
  OBVIOUS
<1>2. T \in SUBSET Nat /\ T # {}
  BY <1>1, ProjectionAssumption
<1>3. PICK x \in T : \A y \in T : x <= y
  BY <1>2, LeastNatural
<1>4. \E p \in ports : \A q \in ports : Rank[p] <= Rank[q]
  BY <1>1, <1>3
<1> QED BY <1>4 DEF FirstOf

Station == [at : Int, ports : SUBSET (DOMAIN Rank), first : DOMAIN Rank]

\* The stations of a member whose cuts were taken up to place x, and not x.
StationsTo(cuts, s, x) ==
    /\ s \in Seq(Station)
    /\ x > 0 => Len(s) > 0 /\ s[1].at = 0
    /\ \A i \in 1..Len(s) : s[i].at \in 0..(x - 1) /\ s[i].first \in s[i].ports
    /\ \A i, j \in 1..Len(s) : i < j => s[i].at < s[j].at
    /\ \A i \in 1..Len(s) : \A p \in s[i].ports :
          \E k \in cuts : /\ k.port = p /\ s[i].at <= k.at /\ k.at < x
                          /\ \A j \in 1..Len(s) : i < j => k.at < s[j].at

LEMMA StationsAre ==
    ASSUME NEW cuts, NEW s, NEW x,
           s \in Seq(Station), x > 0 => Len(s) > 0 /\ s[1].at = 0,
           \A i \in 1..Len(s) : s[i].at \in 0..(x - 1) /\ s[i].first \in s[i].ports,
           \A i, j \in 1..Len(s) : i < j => s[i].at < s[j].at,
           \A i \in 1..Len(s) : \A p \in s[i].ports :
              \E k \in cuts : /\ k.port = p /\ s[i].at <= k.at /\ k.at < x
                              /\ \A j \in 1..Len(s) : i < j => k.at < s[j].at
    PROVE  StationsTo(cuts, s, x)
  BY Zenon DEF StationsTo

LEMMA StationMerged ==
    ASSUME NEW hi \in Nat, NEW cuts, \A k \in cuts : k.at \in 0..hi /\ k.port \in DOMAIN Rank,
           NEW x \in Nat, NEW s, StationsTo(cuts, s, x), s # <<>>,
           NEW t, t = [s EXCEPT ![Len(s)].ports = @ \cup PortsAt(cuts, x)]
    PROVE  StationsTo(cuts, t, x + 1)
<1>1. PICK n : n = Len(s)
  OBVIOUS
<1>2. s \in Seq(Station) /\ n \in Nat /\ n > 0 /\ DOMAIN s = 1..n
  BY <1>1 DEF StationsTo
<1>3. PICK e : e = [s[n] EXCEPT !.ports = @ \cup PortsAt(cuts, x)]
  OBVIOUS
<1>4. s[n] \in Station /\ PortsAt(cuts, x) \subseteq DOMAIN Rank
  BY <1>2 DEF PortsAt
<1>5. /\ e \in Station /\ e.at = s[n].at /\ e.first = s[n].first
      /\ e.ports = s[n].ports \cup PortsAt(cuts, x)
  BY <1>3, <1>4 DEF Station
<1>6. t = [s EXCEPT ![n] = e]
  BY <1>1, <1>3
<1>7. t \in Seq(Station) /\ Len(t) = n
 <2>1. t \in [1..n -> Station]
  <3>1. t = [i \in 1..n |-> IF i = n THEN e ELSE s[i]]
    BY <1>2, <1>6
  <3>2. \A i \in 1..n : s[i] \in Station
    BY <1>2
  <3> QED BY <1>5, <3>1, <3>2, Zenon
 <2>2. DOMAIN t = 1..n
   BY <1>2, <1>6
 <2> QED BY <1>2, <2>1, <2>2
<1>8. t[n] = e /\ \A i \in 1..n : i # n => t[i] = s[i]
  BY <1>2, <1>6
<1>9. \A i \in 1..n : t[i].at = s[i].at /\ t[i].first = s[i].first /\ s[i].ports \subseteq t[i].ports
  BY <1>5, <1>8
<1>10. x + 1 > 0 => n > 0 /\ t[1].at = 0
 <2>1. 1 \in 1..n
   BY <1>2
 <2>2. s[1].at = 0
   BY <1>1, <1>2, <2>1 DEF StationsTo
 <2> QED BY <1>2, <1>9, <2>1, <2>2
<1>11. \A i \in 1..n : t[i].at \in 0..x /\ t[i].first \in t[i].ports
  BY <1>1, <1>9 DEF StationsTo
<1>12. \A i, j \in 1..n : i < j => t[i].at < t[j].at
  BY <1>1, <1>9 DEF StationsTo
<1>13. ASSUME NEW i \in 1..n, NEW p \in t[i].ports
       PROVE  \E k \in cuts : /\ k.port = p /\ t[i].at <= k.at /\ k.at < x + 1
                              /\ \A j \in 1..n : i < j => k.at < t[j].at
 <2>1. CASE p \in s[i].ports
  <3>1. PICK k \in cuts : /\ k.port = p /\ s[i].at <= k.at /\ k.at < x
                          /\ \A j \in 1..n : i < j => k.at < s[j].at
    BY <1>1, <2>1 DEF StationsTo
  <3>2. k.at \in Int /\ k.at < x + 1
    BY <3>1
  <3> QED BY <1>9, <3>1, <3>2
 <2>2. CASE p \notin s[i].ports
  <3>1. i = n /\ p \in PortsAt(cuts, x)
    BY <1>5, <1>8, <1>13, <2>2
  <3>2. PICK k \in cuts : k.at = x /\ k.port = p
    BY <3>1 DEF PortsAt
  <3>3. s[n].at \in 0..(x - 1)
    BY <1>1, <1>2 DEF StationsTo
  <3>4. t[i].at <= k.at /\ k.at < x + 1
    BY <1>9, <3>1, <3>2, <3>3
  <3>5. \A j \in 1..n : ~(i < j)
    BY <1>2, <3>1
  <3> QED BY <3>2, <3>4, <3>5
 <2> QED BY <2>1, <2>2
<1>14. x + 1 - 1 = x
  OBVIOUS
<1> QED BY <1>7, <1>10, <1>11, <1>12, <1>13, <1>14 DEF StationsTo

LEMMA StationMade ==
    ASSUME NEW hi \in Nat, NEW cuts, \A k \in cuts : k.at \in 0..hi /\ k.port \in DOMAIN Rank,
           NEW x \in Nat, NEW s, StationsTo(cuts, s, x), PortsAt(cuts, x) # {}, s = <<>> => x = 0,
           NEW t, t = Append(s, [at |-> x, ports |-> PortsAt(cuts, x), first |-> FirstOf(PortsAt(cuts, x))])
    PROVE  StationsTo(cuts, t, x + 1)
<1>1. PICK n : n = Len(s)
  OBVIOUS
<1>2. s \in Seq(Station) /\ n \in Nat /\ DOMAIN s = 1..n
  BY <1>1 DEF StationsTo
<1>3. PICK e : e = [at |-> x, ports |-> PortsAt(cuts, x), first |-> FirstOf(PortsAt(cuts, x))]
  OBVIOUS
<1>4. PortsAt(cuts, x) \subseteq DOMAIN Rank
  BY DEF PortsAt
<1>5. e \in Station /\ e.at = x /\ e.ports = PortsAt(cuts, x) /\ e.first \in e.ports
  BY <1>3, <1>4, FirstIsOne DEF Station
<1>6. t \in Seq(Station) /\ Len(t) = n + 1 /\ t[n + 1] = e /\ \A i \in 1..n : t[i] = s[i]
  BY <1>1, <1>2, <1>3, <1>5
<1>7. \A i \in 1..n : s[i].at \in 0..(x - 1) /\ s[i].first \in s[i].ports
  BY <1>1 DEF StationsTo
<1>8. x + 1 > 0 => n + 1 > 0 /\ t[1].at = 0
 <2>1. CASE n = 0
  <3>1. s = <<>>
    BY <1>1, <1>2, <2>1
  <3>2. t[1] = e
    BY <1>6, <2>1
  <3> QED BY <1>5, <2>1, <3>1, <3>2
 <2>2. CASE n > 0
  <3>1. 1 \in 1..n /\ t[1] = s[1]
    BY <1>2, <1>6, <2>2
  <3>2. x > 0
    BY <1>7, <3>1
  <3>3. s[1].at = 0
    BY <1>1, <3>2 DEF StationsTo
  <3> QED BY <1>2, <3>1, <3>3
 <2> QED BY <1>2, <2>1, <2>2
<1>9. \A i \in 1..(n + 1) : i \in 1..n \/ i = n + 1
  BY <1>2
<1>10. \A i \in 1..(n + 1) : t[i].at \in 0..x /\ t[i].first \in t[i].ports
  BY <1>5, <1>6, <1>7, <1>9
<1>11. ASSUME NEW i \in 1..(n + 1), NEW j \in 1..(n + 1), i < j PROVE t[i].at < t[j].at
 <2>1. i \in 1..n
   BY <1>2, <1>11
 <2>2. CASE j \in 1..n
   BY <1>1, <1>6, <1>11, <2>1, <2>2 DEF StationsTo
 <2>3. CASE j = n + 1
   BY <1>5, <1>6, <1>7, <2>1, <2>3
 <2> QED BY <1>9, <2>2, <2>3
<1>12. ASSUME NEW i \in 1..(n + 1), NEW p \in t[i].ports
       PROVE  \E k \in cuts : /\ k.port = p /\ t[i].at <= k.at /\ k.at < x + 1
                              /\ \A j \in 1..(n + 1) : i < j => k.at < t[j].at
 <2>1. CASE i \in 1..n
  <3>1. PICK k \in cuts : /\ k.port = p /\ s[i].at <= k.at /\ k.at < x
                          /\ \A j \in 1..n : i < j => k.at < s[j].at
    BY <1>1, <1>6, <1>12, <2>1 DEF StationsTo
  <3>2. k.at \in Int /\ k.at < x + 1
    BY <3>1
  <3>3. \A j \in 1..(n + 1) : i < j => k.at < t[j].at
    BY <1>5, <1>6, <1>9, <3>1
  <3> QED BY <1>6, <2>1, <3>1, <3>2, <3>3
 <2>2. CASE i = n + 1
  <3>1. PICK k \in cuts : k.at = x /\ k.port = p
    BY <1>5, <1>6, <1>12, <2>2 DEF PortsAt
  <3>2. \A j \in 1..(n + 1) : ~(i < j)
    BY <1>2, <2>2
  <3> QED BY <1>5, <1>6, <2>2, <3>1, <3>2
 <2> QED BY <1>9, <2>1, <2>2
<1>13. x + 1 - 1 = x
  OBVIOUS
<1>14. Len(t) = n + 1
  BY <1>6
<1>20. PICK y : y = x + 1
  OBVIOUS
<1>15. \A i \in 1..Len(t) : t[i].at \in 0..(y - 1) /\ t[i].first \in t[i].ports
  BY <1>10, <1>13, <1>14, <1>20
<1>16. \A i, j \in 1..Len(t) : i < j => t[i].at < t[j].at
  BY <1>11, <1>14
<1>17. \A i \in 1..Len(t) : \A p \in t[i].ports :
          \E k \in cuts : /\ k.port = p /\ t[i].at <= k.at /\ k.at < y
                          /\ \A j \in 1..Len(t) : i < j => k.at < t[j].at
  BY <1>12, <1>14, <1>20
<1>18. y > 0 => Len(t) > 0 /\ t[1].at = 0
  BY <1>8, <1>14, <1>20
<1>19. t \in Seq(Station)
  BY <1>6
<1>21. StationsTo(cuts, t, y)
 <2> HIDE DEF StationsTo
 <2> QED BY ONLY <1>15, <1>16, <1>17, <1>18, <1>19, StationsAre, SMTT(30)
<1> QED BY <1>20, <1>21

\* The stations of a member.
LEMMA StationsPlaced ==
    ASSUME NEW d, NEW c \in Beams
    PROVE  StationsTo(Cuts(d, c), Stations(d, c), Length[c] + 1)
<1>1. PICK hi : hi = Length[c]
  OBVIOUS
<1>2. hi \in Nat
  BY <1>1, ProjectionAssumption
<1>3. PICK cuts : cuts = Cuts(d, c)
  OBVIOUS
<1>4. /\ \A k \in cuts : k.at \in 0..hi /\ k.port \in DOMAIN Rank
      /\ \E k \in cuts : k.at = 0
  BY <1>1, <1>3, CutsPlaced
<1>5. PICK q : q = [i \in 1 .. hi + 1 |-> i - 1]
  OBVIOUS
<1>6. PICK how : how = Placing
  OBVIOUS
<1>7. PICK n \in Nat : n = hi + 1
  BY <1>2
<1>8. PICK b : b = <<>>
  OBVIOUS
<1>9. Stations(d, c) = Folded(cuts, how, b, q, n)
  BY <1>1, <1>3, <1>5, <1>6, <1>7, <1>8, StationsFolded
<1>10. PICK f : Folds(f, cuts, how, b, q, n) /\ Folded(cuts, how, b, q, n) = f[n]
  BY FoldSteps
<1> DEFINE T == {k \in Nat : k <= n => StationsTo(cuts, f[k], k)}
<1>11. 0 \in T
 <2>1. f[0] = <<>>
   BY <1>8, <1>10 DEF Folds
 <2>2. f[0] \in Seq(Station) /\ 1..Len(f[0]) = {}
   BY <2>1
 <2>3. StationsTo(cuts, f[0], 0)
  <3>1. ~(0 > 0)
    OBVIOUS
  <3> QED BY <2>2, <3>1, Zenon DEF StationsTo
 <2> QED BY <2>3
<1>12. ASSUME NEW k \in Nat, k \in T PROVE k + 1 \in T
 <2>1. SUFFICES ASSUME k + 1 <= n PROVE StationsTo(cuts, f[k + 1], k + 1)
   OBVIOUS
 <2>2. StationsTo(cuts, f[k], k) /\ k \in 0..(n - 1) /\ k + 1 \in 1..(hi + 1)
   BY <1>7, <1>12, <2>1
 <2>3. f[k + 1] = FoldStep(cuts, how, f[k], q[k + 1]) /\ q[k + 1] = k
   BY <1>5, <1>10, <2>2 DEF Folds
 <2>4. how.kind = "placing"
   BY <1>6 DEF Placing
 <2>5. PICK s : s = f[k]
   OBVIOUS
 <2>6. StationsTo(cuts, s, k)
   BY <2>2, <2>5
 <2>7. s = <<>> => k = 0
  <3>1. k > 0 => Len(s) > 0
    BY <2>6 DEF StationsTo
  <3> QED BY <3>1
 <2>8. CASE PortsAt(cuts, k) = {}
  <3>1. f[k + 1] = s
    BY <2>3, <2>4, <2>5, <2>8 DEF FoldStep, Placed
  <3>2. k # 0
    BY <1>4, <2>8 DEF PortsAt
  <3>3. /\ s \in Seq(Station) /\ Len(s) > 0 /\ s[1].at = 0
        /\ \A i \in 1..Len(s) : s[i].at \in 0..(k - 1) /\ s[i].first \in s[i].ports
        /\ \A i, j \in 1..Len(s) : i < j => s[i].at < s[j].at
    BY <2>6, <3>2 DEF StationsTo
  <3>4. ASSUME NEW i \in 1..Len(s), NEW p \in s[i].ports
        PROVE  \E l \in cuts : /\ l.port = p /\ s[i].at <= l.at /\ l.at < k + 1
                               /\ \A j \in 1..Len(s) : i < j => l.at < s[j].at
   <4>1. PICK l \in cuts : /\ l.port = p /\ s[i].at <= l.at /\ l.at < k
                           /\ \A j \in 1..Len(s) : i < j => l.at < s[j].at
     BY <2>6, <3>4 DEF StationsTo
   <4>2. l.at < k + 1
     BY <1>2, <1>4, <4>1
   <4> QED BY <4>1, <4>2
  <3>5. \A i \in 1..Len(s) : s[i].at \in 0..k /\ s[i].first \in s[i].ports
    BY <3>3
  <3>6. k + 1 - 1 = k
    OBVIOUS
  <3>7. StationsTo(cuts, s, k + 1)
    BY <3>3, <3>4, <3>5, <3>6 DEF StationsTo
  <3> QED BY <3>1, <3>7
 <2>9. CASE PortsAt(cuts, k) # {} /\ s # <<>> /\ k - Last(s).at <= 1
  <3>1. PICK t : t = [s EXCEPT ![Len(s)].ports = @ \cup PortsAt(cuts, k)]
    OBVIOUS
  <3>2. f[k + 1] = t
    BY <2>3, <2>4, <2>5, <2>9, <3>1 DEF FoldStep, Placed
  <3>3. StationsTo(cuts, t, k + 1)
    BY <1>2, <1>4, <2>6, <2>9, <3>1, StationMerged
  <3> QED BY <3>2, <3>3
 <2>10. CASE PortsAt(cuts, k) # {} /\ ~(s # <<>> /\ k - Last(s).at <= 1)
  <3>1. PICK t : t = Append(s, [at |-> k, ports |-> PortsAt(cuts, k),
                                first |-> FirstOf(PortsAt(cuts, k))])
    OBVIOUS
  <3>2. f[k + 1] = t
    BY <2>3, <2>4, <2>5, <2>10, <3>1 DEF FoldStep, Placed
  <3>3. StationsTo(cuts, t, k + 1)
    BY <1>2, <1>4, <2>6, <2>7, <2>10, <3>1, StationMade
  <3> QED BY <3>2, <3>3
 <2> QED BY <2>8, <2>9, <2>10
<1> HIDE DEF T
<1>13. n \in T
  BY <1>11, <1>12, AllNaturals
<1>14. StationsTo(cuts, f[n], n)
  BY <1>13 DEF T
<1> QED BY <1>1, <1>3, <1>7, <1>9, <1>10, <1>14

----
(* The classes of ports.                                                   *)

\* A way to take the elements of the subsets of G one by one, and what ties them on it.
Picking(ch, G) == DOMAIN ch = SUBSET G /\ \A s \in SUBSET G : s # {} => ch[s] \in s
TieRuns(it, D, ch) == it = [s \in D |-> IF s = {} THEN {} ELSE Tie(it[s \ {ch[s]}], ch[s])]

LEMMA SomePicking ==
    ASSUME NEW G
    PROVE  \E ch : Picking(ch, G) /\ \A s \in SUBSET G : ch[s] = CHOOSE x \in s : TRUE
<1> DEFINE ch == [s \in SUBSET G |-> CHOOSE x \in s : TRUE]
<1>1. ASSUME NEW s \in SUBSET G PROVE ch[s] = (CHOOSE x \in s : TRUE) /\ (s # {} => ch[s] \in s)
 <2>1. ch[s] = CHOOSE x \in s : TRUE
   BY Zenon
 <2>2. s # {} => (CHOOSE x \in s : TRUE) \in s
   BY Zenon
 <2> QED BY <2>1, <2>2, Zenon
<1>2. DOMAIN ch = SUBSET G
  BY Zenon
<1> HIDE DEF ch
<1> QED BY <1>1, <1>2, Zenon DEF Picking

LEMMA LevelTies ==
    ASSUME NEW G, IsFiniteSet(G), NEW ch, Picking(ch, G), NEW n \in Nat
    PROVE  \E it : TieRuns(it, {s \in SUBSET G : Cardinality(s) <= n}, ch)
<1> DEFINE Level(k) == {s \in SUBSET G : Cardinality(s) <= k}
           N == {k \in Nat : \E it : TieRuns(it, Level(k), ch)}
<1>0. ASSUME NEW s \in SUBSET G
      PROVE  /\ IsFiniteSet(s) /\ Cardinality(s) \in Nat
             /\ Cardinality(s) = 0 <=> s = {}
             /\ \A x \in s : Cardinality(s \ {x}) = Cardinality(s) - 1
  BY FS_Subset, FS_CardinalityType, FS_EmptySet, FS_RemoveElement
<1>1. 0 \in N
 <2> DEFINE none == [s \in Level(0) |-> {}]
 <2>1. \A s \in Level(0) : s = {}
   BY <1>0
 <2>2. none = [s \in Level(0) |-> IF s = {} THEN {} ELSE Tie(none[s \ {ch[s]}], ch[s])]
   BY <2>1, Zenon
 <2>3. \E it : it = [s \in Level(0) |-> IF s = {} THEN {} ELSE Tie(it[s \ {ch[s]}], ch[s])]
   BY <2>2, Zenon
 <2>4. \E it : TieRuns(it, Level(0), ch)
   BY <2>3, Zenon DEF TieRuns
 <2> QED BY <2>4, Zenon
<1>2. ASSUME NEW k \in Nat, k \in N PROVE k + 1 \in N
 <2>1. PICK it : TieRuns(it, Level(k), ch)
   BY <1>2
 <2> DEFINE more == [s \in Level(k + 1) |-> IF s = {} THEN {} ELSE Tie(it[s \ {ch[s]}], ch[s])]
 <2>2. ASSUME NEW s \in Level(k) PROVE s \in Level(k + 1) /\ more[s] = it[s]
  <3>1. s \in Level(k + 1)
    BY <1>0
  <3>2. it[s] = IF s = {} THEN {} ELSE Tie(it[s \ {ch[s]}], ch[s])
   <4> HIDE DEF Level
   <4> QED BY <2>1, <2>2, Zenon DEF TieRuns
  <3>3. more[s] = IF s = {} THEN {} ELSE Tie(it[s \ {ch[s]}], ch[s])
   <4> HIDE DEF Level
   <4> QED BY <3>1, Zenon
  <3> QED BY <3>1, <3>2, <3>3, Zenon
 <2>3. ASSUME NEW s \in Level(k + 1), s # {} PROVE s \ {ch[s]} \in Level(k)
   BY <1>0, <2>3 DEF Picking
 <2>4. ASSUME NEW s \in Level(k + 1), s # {} PROVE more[s \ {ch[s]}] = it[s \ {ch[s]}]
  <3> HIDE DEF more, Level
  <3> QED BY <2>2, <2>3, <2>4, Zenon
 <2>5. ASSUME NEW s \in Level(k + 1)
       PROVE  more[s] = IF s = {} THEN {} ELSE Tie(more[s \ {ch[s]}], ch[s])
  <3>1. more[s] = IF s = {} THEN {} ELSE Tie(it[s \ {ch[s]}], ch[s])
   <4> HIDE DEF Level
   <4> QED BY Zenon
  <3> HIDE DEF more, Level
  <3> QED BY <2>4, <3>1, Zenon
 <2>6. TieRuns(more, Level(k + 1), ch)
  <3>1. more = [s \in Level(k + 1) |-> more[s]]
   <4> HIDE DEF Level
   <4> QED BY Zenon
  <3>2. [s \in Level(k + 1) |-> more[s]]
          = [s \in Level(k + 1) |-> IF s = {} THEN {} ELSE Tie(more[s \ {ch[s]}], ch[s])]
   <4> HIDE DEF more, Level
   <4> QED BY <2>5, Zenon
  <3> HIDE DEF more, Level
  <3> QED BY <3>1, <3>2, Zenon DEF TieRuns
 <2> HIDE DEF more, Level
 <2> QED BY <2>6
<1> HIDE DEF N
<1>3. n \in N
  BY <1>1, <1>2, AllNaturals
<1> QED BY <1>3 DEF N

\* The classes of the subsets of some groups, each from one group less.
LEMMA TieAllRuns ==
    ASSUME NEW G, IsFiniteSet(G)
    PROVE  \E it : /\ it[{}] = {} /\ it[G] = TieAll(G)
                   /\ \A s \in SUBSET G : s # {} => \E x \in s : it[s] = Tie(it[s \ {x}], x)
<1>1. PICK ch : Picking(ch, G) /\ \A s \in SUBSET G : ch[s] = CHOOSE x \in s : TRUE
  BY SomePicking
<1>2. PICK n : n = Cardinality(G)
  OBVIOUS
<1>3. n \in Nat /\ \A s \in SUBSET G : Cardinality(s) <= n
  BY <1>2, FS_CardinalityType, FS_Subset
<1>4. {s \in SUBSET G : Cardinality(s) <= n} = SUBSET G
  BY <1>3
<1>5. \E it : TieRuns(it, {s \in SUBSET G : Cardinality(s) <= n}, ch)
  BY <1>1, <1>3, LevelTies
<1>6. PICK run : TieRuns(run, SUBSET G, ch)
  BY <1>4, <1>5, Zenon
<1>7. run = [s \in SUBSET G |-> IF s = {} THEN {}
                ELSE Tie(run[s \ {CHOOSE x \in s : TRUE}], CHOOSE x \in s : TRUE)]
 <2>1. [s \in SUBSET G |-> IF s = {} THEN {} ELSE Tie(run[s \ {ch[s]}], ch[s])]
         = [s \in SUBSET G |-> IF s = {} THEN {}
               ELSE Tie(run[s \ {CHOOSE x \in s : TRUE}], CHOOSE x \in s : TRUE)]
   BY <1>1, Zenon
 <2> QED BY <1>6, <2>1, Zenon DEF TieRuns
<1>8. PICK it : /\ it = [s \in SUBSET G |-> IF s = {} THEN {}
                          ELSE Tie(it[s \ {CHOOSE x \in s : TRUE}], CHOOSE x \in s : TRUE)]
                /\ TieAll(G) = it[G]
  BY <1>7, Zenon DEF TieAll, FoldSet, MapThenFoldSet
<1>9. it[{}] = {}
  BY <1>8, Zenon
<1>10. ASSUME NEW s \in SUBSET G, s # {} PROVE \E x \in s : it[s] = Tie(it[s \ {x}], x)
 <2>1. (CHOOSE x \in s : TRUE) \in s
   BY <1>10, Zenon
 <2>2. it[s] = Tie(it[s \ {CHOOSE x \in s : TRUE}], CHOOSE x \in s : TRUE)
   BY <1>8, <1>10, Zenon
 <2> QED BY <2>1, <2>2, Zenon
<1> QED BY <1>8, <1>9, <1>10, Zenon

\* Set S takes in every group that it meets.
ClosedTo(S, groups) == \A g \in groups : g \cap S # {} => g \subseteq S

\* The classes of some groups: apart from each other, each group in one of them,
\* and none larger than what a set that is closed to the groups holds.
ClassesOf(classes, groups) ==
    /\ \A k, l \in classes : k # l => k \cap l = {}
    /\ \A g \in groups : g # {} => \E k \in classes : g \subseteq k
    /\ \A S : ClosedTo(S, groups) => \A k \in classes : k \cap S # {} => k \subseteq S

LEMMA TieAddsOne ==
    ASSUME NEW classes, NEW groups, NEW g, ClassesOf(classes, groups)
    PROVE  ClassesOf(Tie(classes, g), groups \cup {g})
<1>1. CASE g = {}
 <2>1. Tie(classes, g) = classes
   BY <1>1 DEF Tie
 <2>2. \A S : ClosedTo(S, groups \cup {g}) => ClosedTo(S, groups)
   BY DEF ClosedTo
 <2> QED BY <1>1, <2>1, <2>2 DEF ClassesOf
<1>2. CASE g # {}
 <2>1. PICK met : met = {k \in classes : k \cap g # {}}
   OBVIOUS
 <2>2. PICK one : one = g \cup UNION met
   OBVIOUS
 <2>3. PICK new : new = Tie(classes, g)
   OBVIOUS
 <2>4. new = (classes \ met) \cup {one}
   BY <1>2, <2>1, <2>2, <2>3 DEF Tie
 <2>5. \A k, l \in classes : k # l => k \cap l = {}
   BY DEF ClassesOf
 <2>6. ASSUME NEW k \in classes \ met PROVE k \cap one = {}
  <3>1. k \cap g = {}
    BY <2>1
  <3>2. \A l \in met : k \cap l = {}
    BY <2>1, <2>5
  <3> QED BY <2>2, <3>1, <3>2
 <2>7. \A k, l \in new : k # l => k \cap l = {}
   BY <2>4, <2>5, <2>6
 <2>8. ASSUME NEW h \in groups \cup {g}, h # {} PROVE \E k \in new : h \subseteq k
  <3>1. CASE h = g
    BY <2>2, <2>4, <3>1
  <3>2. CASE h # g
   <4>1. PICK k \in classes : h \subseteq k
     BY <2>8, <3>2 DEF ClassesOf
   <4>2. CASE k \in met
     BY <2>2, <2>4, <4>1, <4>2
   <4>3. CASE k \notin met
     BY <2>4, <4>1, <4>3
   <4> QED BY <4>2, <4>3
  <3> QED BY <3>1, <3>2
 <2>9. ASSUME NEW S, ClosedTo(S, groups \cup {g}), NEW k \in new, k \cap S # {} PROVE k \subseteq S
  <3>1. ClosedTo(S, groups) /\ (g \cap S # {} => g \subseteq S)
    BY <2>9 DEF ClosedTo
  <3>2. \A l \in classes : l \cap S # {} => l \subseteq S
    BY <3>1 DEF ClassesOf
  <3>3. CASE k \in classes
    BY <2>9, <3>2, <3>3
  <3>4. CASE k = one
   <4>1. g \cap S # {}
    <5>1. CASE \E l \in met : l \cap S # {}
     <6>1. PICK l \in met : l \cap S # {}
       BY <5>1
     <6>2. l \subseteq S /\ l \cap g # {}
       BY <2>1, <3>2, <6>1
     <6> QED BY <6>2
    <5>2. CASE ~\E l \in met : l \cap S # {}
      BY <2>2, <2>9, <3>4, <5>2
    <5> QED BY <5>1, <5>2
   <4>2. g \subseteq S
     BY <3>1, <4>1
   <4>3. \A l \in met : l \subseteq S
     BY <2>1, <3>2, <4>2
   <4> QED BY <2>2, <3>4, <4>2, <4>3
  <3> QED BY <2>4, <3>3, <3>4
 <2>10. ClassesOf(new, groups \cup {g})
   BY <2>7, <2>8, <2>9 DEF ClassesOf
 <2> QED BY <2>3, <2>10
<1> QED BY <1>1, <1>2

LEMMA ClassesRight ==
    ASSUME NEW G, IsFiniteSet(G)
    PROVE  ClassesOf(TieAll(G), G)
<1>1. PICK it : /\ it[{}] = {} /\ it[G] = TieAll(G)
                /\ \A s \in SUBSET G : s # {} => \E x \in s : it[s] = Tie(it[s \ {x}], x)
  BY TieAllRuns
<1> DEFINE N == {n \in Nat : \A s \in SUBSET G : Cardinality(s) = n => ClassesOf(it[s], s)}
<1>2. ASSUME NEW s \in SUBSET G
      PROVE  /\ IsFiniteSet(s) /\ Cardinality(s) \in Nat
             /\ Cardinality(s) = 0 <=> s = {}
             /\ \A x \in s : Cardinality(s \ {x}) = Cardinality(s) - 1
  BY FS_Subset, FS_CardinalityType, FS_EmptySet, FS_RemoveElement
<1>3. 0 \in N
 <2>1. ClassesOf({}, {})
   BY DEF ClassesOf
 <2> QED BY <1>1, <1>2, <2>1
<1>4. ASSUME NEW n \in Nat, n \in N PROVE n + 1 \in N
 <2>1. SUFFICES ASSUME NEW s \in SUBSET G, Cardinality(s) = n + 1 PROVE ClassesOf(it[s], s)
   BY <1>4
 <2>2. s # {}
   BY <1>2, <2>1
 <2>3. PICK x \in s : it[s] = Tie(it[s \ {x}], x)
   BY <1>1, <2>2
 <2>4. PICK r : r = s \ {x}
   OBVIOUS
 <2>5. r \in SUBSET G /\ Cardinality(r) = n /\ s = r \cup {x}
   BY <1>2, <2>1, <2>3, <2>4
 <2>6. ClassesOf(it[r], r)
   BY <1>4, <2>5
 <2>7. PICK c : c = it[r]
   OBVIOUS
 <2>8. ClassesOf(Tie(c, x), r \cup {x})
   BY <2>6, <2>7, TieAddsOne
 <2> QED BY <2>3, <2>4, <2>5, <2>7, <2>8
<1> HIDE DEF N
<1>5. Cardinality(G) \in N
  BY <1>2, <1>3, <1>4, AllNaturals
<1> QED BY <1>1, <1>5 DEF N

----
(* The ports a chain of ties leads to.                                     *)
LEMMA TiedRight ==
    ASSUME NEW ties, IsFiniteSet(ties), NEW port
    PROVE  /\ port \in Tied(ties, port)
           /\ ClosedTo(Tied(ties, port), ties)
           /\ \A S : port \in S /\ ClosedTo(S, ties) => Tied(ties, port) \subseteq S
<1>1. PICK n : n = Cardinality(ties)
  OBVIOUS
<1>2. n \in Nat
  BY <1>1, FS_CardinalityType
<1>3. PICK how : how = Nearing
  OBVIOUS
<1>4. PICK q : q = [i \in 1..n |-> i]
  OBVIOUS
<1>5. PICK b : b = {port}
  OBVIOUS
<1>6. Tied(ties, port) = Folded(ties, how, b, q, n)
  BY <1>1, <1>3, <1>4, <1>5, TiedFolded
<1>7. PICK f : Folds(f, ties, how, b, q, n) /\ Folded(ties, how, b, q, n) = f[n]
  BY <1>2, FoldSteps
<1>8. ASSUME NEW k \in 0..(n - 1) PROVE f[k + 1] = f[k] \cup UNION {t \in ties : t \cap f[k] # {}}
 <2>1. f[k + 1] = FoldStep(ties, how, f[k], q[k + 1])
   BY <1>7 DEF Folds
 <2>2. how.kind = "nearing"
   BY <1>3 DEF Nearing
 <2> QED BY <2>1, <2>2 DEF FoldStep
<1>9. f[0] = {port}
  BY <1>5, <1>7 DEF Folds
<1> DEFINE Held(k) == {t \in ties : t \cap f[k] # {} /\ t \subseteq f[k]}
           T == {k \in Nat : k <= n => /\ port \in f[k]
                                       /\ \A S : port \in S /\ ClosedTo(S, ties) => f[k] \subseteq S
                                       /\ ClosedTo(f[k], ties) \/ Cardinality(Held(k)) >= k}
<1>10. ASSUME NEW k \in Nat
       PROVE  /\ IsFiniteSet(Held(k)) /\ Cardinality(Held(k)) \in Nat
              /\ Cardinality(Held(k)) <= n
              /\ Cardinality(Held(k)) = n => Held(k) = ties
 <2>1. Held(k) \in SUBSET ties
   OBVIOUS
 <2> HIDE DEF Held
 <2> QED BY <1>1, <2>1, FS_Subset, FS_CardinalityType
<1>11. 0 \in T
 <2>1. Cardinality(Held(0)) >= 0
   BY <1>10
 <2> HIDE DEF Held
 <2> QED BY <1>9, <2>1
<1>12. ASSUME NEW k \in Nat, k \in T PROVE k + 1 \in T
 <2>1. SUFFICES ASSUME k + 1 <= n
                PROVE  /\ port \in f[k + 1]
                       /\ \A S : port \in S /\ ClosedTo(S, ties) => f[k + 1] \subseteq S
                       /\ ClosedTo(f[k + 1], ties) \/ Cardinality(Held(k + 1)) >= k + 1
  <3> HIDE DEF Held
  <3> QED OBVIOUS
 <2>2. /\ port \in f[k] /\ k \in 0..(n - 1)
       /\ \A S : port \in S /\ ClosedTo(S, ties) => f[k] \subseteq S
       /\ ClosedTo(f[k], ties) \/ Cardinality(Held(k)) >= k
  <3> HIDE DEF Held
  <3> QED BY <1>2, <1>12, <2>1
 <2>3. f[k + 1] = f[k] \cup UNION {t \in ties : t \cap f[k] # {}}
   BY <1>8, <2>2
 <2>4. port \in f[k + 1] /\ f[k] \subseteq f[k + 1]
   BY <2>2, <2>3
 <2>5. ASSUME NEW S, port \in S, ClosedTo(S, ties) PROVE f[k + 1] \subseteq S
  <3>1. f[k] \subseteq S
    BY <2>2, <2>5
  <3>2. \A t \in ties : t \cap f[k] # {} => t \subseteq S
    BY <2>5, <3>1 DEF ClosedTo
  <3> QED BY <2>3, <3>1, <3>2
 <2>6. CASE ClosedTo(f[k], ties)
  <3>1. f[k + 1] = f[k]
    BY <2>3, <2>6 DEF ClosedTo
  <3> QED BY <2>4, <2>5, <2>6, <3>1
 <2>7. CASE ~ClosedTo(f[k], ties)
  <3>1. PICK t \in ties : t \cap f[k] # {} /\ ~(t \subseteq f[k])
    BY <2>7 DEF ClosedTo
  <3>2. t \subseteq f[k + 1] /\ t \cap f[k + 1] # {}
    BY <2>3, <3>1
  <3>3. Held(k) \subseteq Held(k + 1) /\ t \in Held(k + 1) /\ t \notin Held(k)
    BY <2>4, <3>1, <3>2
  <3>4. k + 1 \in Nat
    OBVIOUS
  <3>5. IsFiniteSet(Held(k + 1)) /\ Cardinality(Held(k + 1)) \in Nat /\ Cardinality(Held(k)) \in Nat
    BY <1>10, <3>4
  <3>6. Cardinality(Held(k)) < Cardinality(Held(k + 1))
   <4> HIDE DEF Held
   <4>1. PICK A : A = Held(k)
     OBVIOUS
   <4>2. PICK B : B = Held(k + 1)
     OBVIOUS
   <4>3. IsFiniteSet(B) /\ A \in SUBSET B /\ A # B
     BY <3>3, <3>5, <4>1, <4>2
   <4>4. Cardinality(A) <= Cardinality(B) /\ Cardinality(A) # Cardinality(B)
     BY <4>3, FS_Subset
   <4> QED BY <3>5, <4>1, <4>2, <4>4
  <3> HIDE DEF Held
  <3>7. Cardinality(Held(k)) >= k
    BY <2>2, <2>7
  <3>8. Cardinality(Held(k + 1)) >= k + 1
    BY <3>5, <3>6, <3>7
  <3> QED BY <2>4, <2>5, <3>8
 <2> QED BY <2>6, <2>7
<1>13. n \in T
 <2> HIDE DEF T
 <2> QED BY <1>2, <1>11, <1>12, AllNaturals
<1>14. /\ port \in f[n] /\ \A S : port \in S /\ ClosedTo(S, ties) => f[n] \subseteq S
       /\ ClosedTo(f[n], ties) \/ Cardinality(Held(n)) >= n
 <2> HIDE DEF Held
 <2> QED BY <1>2, <1>13
<1>15. ClosedTo(f[n], ties)
 <2>1. SUFFICES ASSUME Cardinality(Held(n)) >= n PROVE ClosedTo(f[n], ties)
   BY <1>14
 <2>2. Held(n) = ties
  <3> HIDE DEF Held
  <3> QED BY <1>2, <1>10, <2>1
 <2> QED BY <2>2 DEF ClosedTo
<1> QED BY <1>6, <1>7, <1>14, <1>15

\* The stations of a member: the first at its start, all apart, no port in two of them.
LEMMA StationsAlong ==
    ASSUME NEW d, NEW c \in Beams, NEW s, s = Stations(d, c)
    PROVE  /\ s \in Seq(Station) /\ Len(s) > 0 /\ s[1].at = 0
           /\ \A i \in 1..Len(s) : /\ s[i].at \in 0..Length[c] /\ s[i].first \in s[i].ports
                                   /\ s[i].ports \subseteq DOMAIN Rank
           /\ \A i, j \in 1..Len(s) : i < j => s[i].at < s[j].at
           /\ \A i, j \in 1..Len(s) : i # j => s[i].ports \cap s[j].ports = {}
<1>1. StationsTo(Cuts(d, c), s, Length[c] + 1) /\ Length[c] \in Nat
  BY StationsPlaced, ProjectionAssumption
<1>2. PICK cuts : cuts = Cuts(d, c)
  OBVIOUS
<1>3. PICK hi \in Nat : hi = Length[c] + 1
  BY <1>1
<1>4. StationsTo(cuts, s, hi)
  BY <1>1, <1>2, <1>3
<1>5. /\ s \in Seq(Station) /\ Len(s) > 0 /\ s[1].at = 0
      /\ \A i \in 1..Len(s) : s[i].at \in 0..(hi - 1) /\ s[i].first \in s[i].ports
      /\ \A i, j \in 1..Len(s) : i < j => s[i].at < s[j].at
  BY <1>1, <1>3, <1>4 DEF StationsTo
<1>6. ASSUME NEW i \in 1..Len(s), NEW j \in 1..Len(s), i < j, NEW p \in s[i].ports, p \in s[j].ports
      PROVE  FALSE
 <2>1. PICK k \in cuts : k.port = p /\ k.at < s[j].at
   BY <1>4, <1>6 DEF StationsTo
 <2>2. PICK l \in cuts : l.port = p /\ s[j].at <= l.at
   BY <1>4, <1>6 DEF StationsTo
 <2>3. k.at = l.at /\ k.at \in 0..Length[c]
   BY <1>2, <2>1, <2>2, CutsPlaced
 <2>4. s[j].at \in Int
   BY <1>5
 <2> QED BY <1>1, <2>1, <2>2, <2>3, <2>4
<1>7. \A i, j \in 1..Len(s) : i < j \/ j < i \/ i = j
  BY <1>5
<1>8. \A i \in 1..Len(s) : s[i] \in Station
  BY <1>5
<1>9. \A i \in 1..Len(s) : s[i].ports \subseteq DOMAIN Rank
  BY <1>8 DEF Station
<1>10. hi - 1 = Length[c]
  BY <1>1, <1>3
<1>11. \A i, j \in 1..Len(s) : i # j => s[i].ports \cap s[j].ports = {}
  BY <1>6, <1>7
<1> QED BY <1>5, <1>9, <1>10, <1>11

\* The segments of a member lie between its stations.
LEMMA SegmentsAlong ==
    ASSUME NEW d, NEW c \in Beams, NEW s, s = Stations(d, c), NEW g, g = SegmentsOf(d, c)
    PROVE  /\ DOMAIN g = 1 .. (Len(s) - 1) /\ Len(g) = Len(s) - 1
           /\ \A i \in DOMAIN g :
                 /\ i \in 1..Len(s) /\ i + 1 \in 1..Len(s)
                 /\ g[i].component = c /\ g[i].index = i
                 /\ g[i].starts = s[i] /\ g[i].ends = s[i + 1]
                 /\ g[i].from = s[i].at /\ g[i].to = s[i + 1].at
                 /\ g[i].from \in 0..Length[c] /\ g[i].to \in 0..Length[c] /\ g[i].from < g[i].to
<1>1. g = [i \in 1 .. Len(s) - 1 |->
            [component |-> c, index |-> i, from |-> s[i].at, to |-> s[i + 1].at,
             starts |-> s[i], ends |-> s[i + 1]]]
  BY DEF SegmentsOf
<1>2. /\ s \in Seq(Station) /\ Len(s) > 0 /\ Length[c] \in Nat
      /\ \A i \in 1..Len(s) : s[i].at \in 0..Length[c]
      /\ \A i, j \in 1..Len(s) : i < j => s[i].at < s[j].at
  BY StationsAlong, ProjectionAssumption
<1>3. Len(s) \in Nat
  BY <1>2
<1>4. DOMAIN g = 1 .. (Len(s) - 1) /\ Len(g) = Len(s) - 1
  BY <1>1, <1>2, <1>3
<1>5. ASSUME NEW i \in DOMAIN g
      PROVE  /\ i \in 1..Len(s) /\ i + 1 \in 1..Len(s)
             /\ g[i].component = c /\ g[i].index = i
             /\ g[i].starts = s[i] /\ g[i].ends = s[i + 1]
             /\ g[i].from = s[i].at /\ g[i].to = s[i + 1].at
             /\ g[i].from \in 0..Length[c] /\ g[i].to \in 0..Length[c] /\ g[i].from < g[i].to
 <2>1. i \in 1 .. (Len(s) - 1)
   BY <1>4, <1>5
 <2>2. i \in 1..Len(s) /\ i + 1 \in 1..Len(s) /\ i < i + 1
   BY <1>3, <2>1
 <2>3. g[i] = [component |-> c, index |-> i, from |-> s[i].at, to |-> s[i + 1].at,
               starts |-> s[i], ends |-> s[i + 1]]
   BY <1>1, <2>1
 <2>4. s[i].at < s[i + 1].at /\ s[i].at \in 0..Length[c] /\ s[i + 1].at \in 0..Length[c]
   BY <1>2, <2>2
 <2> QED BY <2>2, <2>3, <2>4
<1> QED BY <1>4, <1>5

\* A member that has segments has a station more.
LEMMA MoreStations ==
    ASSUME NEW d, NEW c \in Beams, HasSegments(d, c)
    PROVE  Len(Stations(d, c)) \in Nat /\ Len(Stations(d, c)) > 1
<1>1. PICK s : s = Stations(d, c)
  OBVIOUS
<1>2. PICK g : g = SegmentsOf(d, c)
  OBVIOUS
<1>3. s \in Seq(Station) /\ Len(s) > 0
  BY <1>1, StationsAlong
<1>4. DOMAIN g = 1 .. (Len(s) - 1) /\ Len(g) = Len(s) - 1
  BY <1>1, <1>2, SegmentsAlong
<1>5. ASSUME Len(s) = 1 PROVE FALSE
 <2>1. g = [i \in 1 .. Len(s) - 1 |->
         [component |-> c, index |-> i, from |-> s[i].at, to |-> s[i + 1].at,
          starts |-> s[i], ends |-> s[i + 1]]]
   BY <1>1, <1>2 DEF SegmentsOf
 <2>2. DOMAIN g = 1..Len(g) /\ Len(g) = 0
   BY <1>4, <1>5
 <2>3. g = [i \in 1..Len(g) |-> g[i]]
   BY <1>4, <2>1
 <2>4. g \in Seq(Range(g))
   BY <2>2, <2>3 DEF Range
 <2>5. g = <<>>
   BY <2>2, <2>4, EmptySeq
 <2> QED BY <1>2, <2>5 DEF HasSegments
<1>6. PICK l \in Nat : l = Len(s)
  BY <1>3
<1>7. l > 1
  BY <1>3, <1>5, <1>6
<1> QED BY <1>1, <1>6, <1>7

\* The segments of a design are those of its members.
LEMMA SegmentIs ==
    ASSUME NEW d
    PROVE  /\ \A m \in Segments(d) : /\ m.component \in Beams
                                     /\ m.index \in DOMAIN SegmentsOf(d, m.component)
                                     /\ m = SegmentsOf(d, m.component)[m.index]
           /\ \A c \in Beams : \A n \in DOMAIN SegmentsOf(d, c) : SegmentsOf(d, c)[n] \in Segments(d)
<1>1. ASSUME NEW m \in Segments(d)
      PROVE  /\ m.component \in Beams /\ m.index \in DOMAIN SegmentsOf(d, m.component)
             /\ m = SegmentsOf(d, m.component)[m.index]
 <2>1. PICK c \in Beams : m \in Range(SegmentsOf(d, c))
   BY DEF Segments
 <2>2. PICK n \in DOMAIN SegmentsOf(d, c) : m = SegmentsOf(d, c)[n]
   BY <2>1 DEF Range
 <2>3. m.component = c /\ m.index = n
   BY <2>2, SegmentsAlong
 <2> QED BY <2>1, <2>2, <2>3
<1>2. ASSUME NEW c \in Beams, NEW n \in DOMAIN SegmentsOf(d, c)
      PROVE  SegmentsOf(d, c)[n] \in Segments(d)
 <2>1. SegmentsOf(d, c)[n] \in Range(SegmentsOf(d, c))
   BY DEF Range
 <2> QED BY <2>1 DEF Segments
<1> QED BY <1>1, <1>2

\* A segment is found by its member and its number.
LEMMA SegmentFound ==
    ASSUME NEW d, NEW c \in Beams, NEW n \in DOMAIN SegmentsOf(d, c)
    PROVE  (CHOOSE m \in Segments(d) : <<m.component, m.index>> = <<c, n>>) = SegmentsOf(d, c)[n]
<1>1. PICK g : g = SegmentsOf(d, c)[n]
  OBVIOUS
<1>2. g \in Segments(d) /\ g.component = c /\ g.index = n
  BY <1>1, SegmentIs, SegmentsAlong
<1>3. ASSUME NEW m \in Segments(d), <<m.component, m.index>> = <<c, n>> PROVE m = g
 <2>1. m.component = c /\ m.index = n
   BY <1>3
 <2> QED BY <1>1, <2>1, SegmentIs
<1> QED BY <1>1, <1>2, <1>3

\* Every distance of a member that has segments is on one of them, and on no other.
LEMMA SegmentsTile ==
    ASSUME NEW d, NEW c \in Beams, HasSegments(d, c), NEW x \in Nat
    PROVE  /\ LengthOf(d, c) \in 0..Length[c]
           /\ x < LengthOf(d, c) =>
                 \E n \in DOMAIN SegmentsOf(d, c) :
                    SegmentsOf(d, c)[n].from <= x /\ x < SegmentsOf(d, c)[n].to
           /\ \A n, m \in DOMAIN SegmentsOf(d, c) :
                 /\ SegmentsOf(d, c)[n].from <= x /\ x < SegmentsOf(d, c)[n].to
                 /\ SegmentsOf(d, c)[m].from <= x /\ x < SegmentsOf(d, c)[m].to
                 => n = m
           /\ \A n \in DOMAIN SegmentsOf(d, c) : SegmentsOf(d, c)[n].to <= LengthOf(d, c)
<1>1. PICK s : s = Stations(d, c)
  OBVIOUS
<1>2. PICK g : g = SegmentsOf(d, c)
  OBVIOUS
<1>3. /\ s \in Seq(Station) /\ Len(s) > 0 /\ s[1].at = 0 /\ Length[c] \in Nat
      /\ \A i \in 1..Len(s) : s[i].at \in 0..Length[c]
      /\ \A i, j \in 1..Len(s) : i < j => s[i].at < s[j].at
  BY <1>1, StationsAlong, ProjectionAssumption
<1>4. /\ DOMAIN g = 1 .. (Len(s) - 1) /\ Len(g) = Len(s) - 1
      /\ \A i \in DOMAIN g : g[i].from = s[i].at /\ g[i].to = s[i + 1].at
  BY <1>1, <1>2, SegmentsAlong
<1>5. PICK l : l = Len(s)
  OBVIOUS
<1>6. l \in Nat /\ l > 1
  BY <1>1, <1>5, MoreStations
<1>7. l - 1 \in DOMAIN g /\ LengthOf(d, c) = s[l].at /\ s[l].at \in 0..Length[c]
 <2>1. l - 1 \in 1..(Len(s) - 1) /\ l \in 1..Len(s)
   BY <1>5, <1>6
 <2>2. LengthOf(d, c) = g[Len(g)].to
   BY <1>2 DEF LengthOf, Last
 <2>3. g[l - 1].to = s[l].at
  <3>1. PICK k : k = l - 1
    OBVIOUS
  <3>2. k + 1 = l /\ k \in DOMAIN g
    BY <1>4, <1>6, <2>1, <3>1
  <3> QED BY <1>4, <3>1, <3>2
 <2> QED BY <1>3, <1>4, <1>5, <2>1, <2>2, <2>3
<1>8. ASSUME x < LengthOf(d, c)
      PROVE  \E n \in DOMAIN g : g[n].from <= x /\ x < g[n].to
 <2>1. PICK T : T = {i \in 1..l : x < s[i].at}
   OBVIOUS
 <2>2. l \in T /\ T \in SUBSET Nat
   BY <1>6, <1>7, <1>8, <2>1
 <2>3. PICK k \in T : \A j \in T : k <= j
   BY <2>2, LeastNatural
 <2>4. k \in 1..l /\ x < s[k].at
   BY <2>1
 <2>5. k # 1
   BY <1>3, <2>4
 <2>6. PICK n : n = k - 1
   OBVIOUS
 <2>7. n \in 1..(l - 1) /\ n + 1 = k /\ n \in 1..l /\ n < k
   BY <1>6, <2>4, <2>5, <2>6
 <2>8. ~(x < s[n].at)
   BY <1>6, <2>1, <2>3, <2>7
 <2>9. s[n].at \in Int
   BY <1>3, <1>5, <2>7
 <2>10. n \in DOMAIN g
   BY <1>4, <1>5, <2>7
 <2>11. g[n].from = s[n].at /\ g[n].to = s[k].at
   BY <1>4, <2>7, <2>10
 <2>12. s[n].at <= x
   BY <2>8, <2>9
 <2> QED BY <2>4, <2>10, <2>11, <2>12
<1>9. ASSUME NEW i \in 1..l, NEW j \in 1..l, i <= j PROVE s[i].at <= s[j].at
  BY <1>3, <1>5, <1>9
<1>10. ASSUME NEW n \in DOMAIN g, NEW m \in DOMAIN g, n < m, g[n].from <= x, x < g[n].to,
              g[m].from <= x, x < g[m].to
       PROVE  FALSE
 <2>1. n + 1 \in 1..l /\ m \in 1..l /\ n + 1 <= m
   BY <1>4, <1>5, <1>6, <1>10
 <2>2. s[n + 1].at <= s[m].at
   BY <1>9, <2>1
 <2>3. s[n + 1].at \in Int /\ s[m].at \in Int
   BY <1>3, <1>5, <2>1
 <2>4. x < s[n + 1].at /\ s[m].at <= x
   BY <1>4, <1>10
 <2> QED BY <2>2, <2>3, <2>4
<1>11. \A n, m \in DOMAIN g : n < m \/ m < n \/ n = m
  BY <1>3, <1>4
<1>12. ASSUME NEW n \in DOMAIN g PROVE g[n].to <= LengthOf(d, c)
 <2>1. n + 1 \in 1..l /\ l \in 1..l /\ n + 1 <= l
   BY <1>4, <1>5, <1>6, <1>12
 <2>2. s[n + 1].at <= s[l].at
   BY <1>9, <2>1
 <2> QED BY <1>4, <1>7, <1>12, <2>2
<1> QED BY <1>2, <1>7, <1>8, <1>10, <1>11, <1>12

\* The segments an interval falls on.
LEMMA OverlapIs ==
    ASSUME NEW d, NEW load, NEW g, g = SegmentsOf(d, load.component), NEW n \in DOMAIN g
    PROVE  n \in Overlapped(d, load) <=> LowEnd(load, g[n]) < HighEnd(d, load, g[n])
  BY DEF Overlapped

\* The parts of intervals are those of each interval on the segments it falls on.
LEMMA SplitIs ==
    ASSUME NEW d, NEW loads
    PROVE  /\ DOMAIN Split(d, loads) = UNION {{i} \X Overlapped(d, loads[i]) : i \in DOMAIN loads}
           /\ \A i \in DOMAIN loads : \A n \in Overlapped(d, loads[i]) : <<i, n>> \in DOMAIN Split(d, loads)
           /\ \A p \in DOMAIN Split(d, loads) :
                 p = <<p[1], p[2]>> /\ p[1] \in DOMAIN loads /\ p[2] \in Overlapped(d, loads[p[1]])
<1>1. PICK D : D = UNION {{i} \X Overlapped(d, loads[i]) : i \in DOMAIN loads}
  OBVIOUS
<1>2. DOMAIN Split(d, loads) = D
  BY <1>1, Zenon DEF Split
<1>3. ASSUME NEW i \in DOMAIN loads, NEW n \in Overlapped(d, loads[i]) PROVE <<i, n>> \in D
  BY <1>1, <1>3
<1>4. ASSUME NEW p \in D
      PROVE  p = <<p[1], p[2]>> /\ p[1] \in DOMAIN loads /\ p[2] \in Overlapped(d, loads[p[1]])
 <2>1. PICK i \in DOMAIN loads : p \in {i} \X Overlapped(d, loads[i])
   BY <1>1, <1>4
 <2>2. PICK R : R = Overlapped(d, loads[i])
   OBVIOUS
 <2>3. p = <<p[1], p[2]>> /\ p[1] = i /\ p[2] \in R
   BY <2>1, <2>2
 <2> QED BY <2>2, <2>3
<1> QED BY <1>1, <1>2, <1>3, <1>4

\* The part of an interval on a segment that it falls on.
LEMMA PartIs ==
    ASSUME NEW d, NEW loads, NEW i \in DOMAIN loads, NEW load, load = loads[i],
           NEW n \in Overlapped(d, load), NEW t, t = SegmentsOf(d, load.component)[n]
    PROVE  /\ <<i, n>> \in DOMAIN Split(d, loads)
           /\ Split(d, loads)[<<i, n>>].id
                 = <<load.id, IF Overlapped(d, load) = {n} THEN 0
                              ELSE n - Min(Overlapped(d, load)) + 1>>
           /\ Split(d, loads)[<<i, n>>].member = <<load.component, n>>
           /\ Split(d, loads)[<<i, n>>].from = LowEnd(load, t) - t.from
           /\ Split(d, loads)[<<i, n>>].to = HighEnd(d, load, t) - t.from
<1>1. PICK D : D = UNION {{j} \X Overlapped(d, loads[j]) : j \in DOMAIN loads}
  OBVIOUS
<1>2. Split(d, loads) =
         [p \in D |->
            [id |-> <<loads[p[1]].id,
                      IF Overlapped(d, loads[p[1]]) = {p[2]} THEN 0
                      ELSE p[2] - Min(Overlapped(d, loads[p[1]])) + 1>>,
             member |-> <<loads[p[1]].component, p[2]>>,
             from |-> LowEnd(loads[p[1]], SegmentsOf(d, loads[p[1]].component)[p[2]])
                         - SegmentsOf(d, loads[p[1]].component)[p[2]].from,
             to |-> HighEnd(d, loads[p[1]], SegmentsOf(d, loads[p[1]].component)[p[2]])
                         - SegmentsOf(d, loads[p[1]].component)[p[2]].from]]
  BY <1>1, Zenon DEF Split
<1>3. PICK p : p = <<i, n>>
  OBVIOUS
<1>4. p \in D /\ p[1] = i /\ p[2] = n /\ p \in DOMAIN Split(d, loads)
 <2>1. n \in Overlapped(d, loads[i])
   OBVIOUS
 <2>2. <<i, n>> \in DOMAIN Split(d, loads)
   BY <2>1, SplitIs, Zenon
 <2>3. DOMAIN Split(d, loads) = D
   BY <1>1, SplitIs
 <2> QED BY <1>3, <2>2, <2>3
<1>5. Split(d, loads)[p] =
          [id |-> <<load.id, IF Overlapped(d, load) = {n} THEN 0
                             ELSE n - Min(Overlapped(d, load)) + 1>>,
           member |-> <<load.component, n>>,
           from |-> LowEnd(load, t) - t.from, to |-> HighEnd(d, load, t) - t.from]
  BY <1>2, <1>4, Zenon
<1>6. PICK a : a = <<load.id, IF Overlapped(d, load) = {n} THEN 0
                              ELSE n - Min(Overlapped(d, load)) + 1>>
  OBVIOUS
<1>7. PICK b : b = <<load.component, n>>
  OBVIOUS
<1>8. PICK e : e = LowEnd(load, t) - t.from
  OBVIOUS
<1>9. PICK f : f = HighEnd(d, load, t) - t.from
  OBVIOUS
<1>10. Split(d, loads)[p] = [id |-> a, member |-> b, from |-> e, to |-> f]
  BY <1>5, <1>6, <1>7, <1>8, <1>9, Zenon
<1>11. /\ Split(d, loads)[p].id = a /\ Split(d, loads)[p].member = b
       /\ Split(d, loads)[p].from = e /\ Split(d, loads)[p].to = f
  BY ONLY <1>10
<1> QED BY <1>3, <1>4, <1>6, <1>7, <1>8, <1>9, <1>11, Zenon

\* A line load that fits lies within the segments of its member.
LEMMA LoadWithin ==
    ASSUME NEW d, NEW load, load.from \in Nat, load.to \in Nat, load.component \in Beams,
           HasSegments(d, load.component), EndOf(d, load) <= LengthOf(d, load.component)
    PROVE  EndOf(d, load) \in Nat
<1>1. LengthOf(d, load.component) \in Nat
 <2>1. PICK c \in Beams : c = load.component
   OBVIOUS
 <2>2. LengthOf(d, c) \in 0..Length[c] /\ Length[c] \in Nat
   BY <2>1, SegmentsTile, ProjectionAssumption
 <2> QED BY <2>1, <2>2
<1> QED BY <1>1 DEF EndOf

\* Where an interval falls on a segment.
LEMMA PartLies ==
    ASSUME NEW d, NEW load, load.from \in Nat, EndOf(d, load) \in Nat,
           NEW t, t.from \in Nat, t.to \in Nat, t.from < t.to
    PROVE  /\ LowEnd(load, t) \in Nat /\ HighEnd(d, load, t) \in Nat
           /\ t.from <= LowEnd(load, t) /\ HighEnd(d, load, t) <= t.to
           /\ \A x \in Nat : (LowEnd(load, t) <= x /\ x < HighEnd(d, load, t))
                                <=> /\ t.from <= x /\ x < t.to
                                    /\ load.from <= x /\ x < EndOf(d, load)
  BY DEF LowEnd, HighEnd

\* What fits, of the settings.
LEMMA LinesFitted ==
    ASSUME NEW d, NEW k \in Saved, Fits(d, k)
    PROVE  /\ k.lines \in Seq(Range(k.lines))
           /\ \A load \in Range(k.lines) :
                 /\ load.component \in Beams /\ HasSegments(d, load.component)
                 /\ load.from \in Nat /\ load.to \in Nat /\ EndOf(d, load) \in Nat
                 /\ EndOf(d, load) <= LengthOf(d, load.component)
                 /\ load.from < EndOf(d, load)
<1>1. k.lines \in Seq(Range(k.lines))
  BY ProjectionAssumption
<1>2. ASSUME NEW load \in Range(k.lines)
      PROVE  /\ load.component \in Beams /\ HasSegments(d, load.component)
             /\ load.from \in Nat /\ load.to \in Nat /\ EndOf(d, load) \in Nat
             /\ EndOf(d, load) <= LengthOf(d, load.component)
             /\ load.from < EndOf(d, load)
 <2>1. load.from \in Nat /\ load.to \in Nat
   BY ProjectionAssumption
 <2>2. /\ HasSegments(d, load.component) /\ load.from < EndOf(d, load)
       /\ EndOf(d, load) <= LengthOf(d, load.component)
   BY DEF Fits, LineFits
 <2>3. load.component \in Beams
   BY <2>2 DEF HasSegments
 <2>4. EndOf(d, load) \in Nat
   BY <2>1, <2>2, <2>3, LoadWithin
 <2> QED BY <2>1, <2>2, <2>3, <2>4
<1> QED BY <1>1, <1>2

\* A distance of a configured load that the member has is loaded once, any other not at all.
LEMMA LoadCarried ==
    ASSUME NEW d, NEW k \in Saved, Fits(d, k), Distinct(Ids(k.lines)),
           capture.derived.lines = Split(d, k.lines), capture.derived.members = Segments(d),
           NEW load \in Range(k.lines), NEW x \in Nat
    PROVE  Cardinality(Loading(load, x)) = IF load.from <= x /\ x < EndOf(d, load) THEN 1 ELSE 0
<1>1. PICK loads : loads = k.lines
  OBVIOUS
<1>2. PICK c : c = load.component
  OBVIOUS
<1>3. /\ c \in Beams /\ HasSegments(d, c) /\ load.from \in Nat /\ EndOf(d, load) \in Nat
      /\ EndOf(d, load) <= LengthOf(d, c)
  BY <1>2, LinesFitted
<1>4. PICK g : g = SegmentsOf(d, c)
  OBVIOUS
<1>5. PICK i \in DOMAIN loads : load = loads[i]
  BY <1>1 DEF Range
<1>6. ASSUME NEW j \in DOMAIN loads, loads[j].id = load.id PROVE j = i
 <2>1. Ids(loads)[i] = loads[i].id /\ Ids(loads)[j] = loads[j].id /\ DOMAIN Ids(loads) = DOMAIN loads
   BY DEF Ids
 <2> QED BY <1>1, <1>5, <1>6, <2>1 DEF Distinct
<1>7. ASSUME NEW n \in DOMAIN g
      PROVE  /\ g[n].component = c /\ g[n].from \in Nat /\ g[n].to \in Nat /\ g[n].from < g[n].to
             /\ LowEnd(load, g[n]) \in Nat /\ HighEnd(d, load, g[n]) \in Nat
             /\ (LowEnd(load, g[n]) <= x /\ x < HighEnd(d, load, g[n]))
                                <=> /\ g[n].from <= x /\ x < g[n].to
                                    /\ load.from <= x /\ x < EndOf(d, load)
 <2>1. PICK t : t = g[n]
   OBVIOUS
 <2>2. Length[c] \in Nat /\ g[n].component = c
       /\ t.from \in 0..Length[c] /\ t.to \in 0..Length[c] /\ t.from < t.to
   BY <1>3, <1>4, <1>7, <2>1, SegmentsAlong, ProjectionAssumption
 <2>3. t.from \in Nat /\ t.to \in Nat /\ t.from < t.to
   BY <2>2
 <2> QED BY <1>3, <2>1, <2>2, <2>3, PartLies
<1>8. PICK lines : lines = Split(d, loads)
  OBVIOUS
<1>9. ASSUME NEW n \in Overlapped(d, load)
      PROVE  /\ n \in DOMAIN g /\ <<i, n>> \in DOMAIN lines
             /\ lines[<<i, n>>].id[1] = load.id /\ lines[<<i, n>>].member = <<c, n>>
             /\ g[n].from + lines[<<i, n>>].from = LowEnd(load, g[n])
             /\ g[n].from + lines[<<i, n>>].to = HighEnd(d, load, g[n])
 <2>1. n \in DOMAIN g
   BY <1>2, <1>4, <1>9 DEF Overlapped
 <2>3. /\ <<i, n>> \in DOMAIN lines
       /\ lines[<<i, n>>].id[1] = load.id /\ lines[<<i, n>>].member = <<c, n>>
       /\ lines[<<i, n>>].from = LowEnd(load, g[n]) - g[n].from
       /\ lines[<<i, n>>].to = HighEnd(d, load, g[n]) - g[n].from
  <3>1. PICK u : u = g[n]
    OBVIOUS
  <3>2. /\ <<i, n>> \in DOMAIN Split(d, loads)
        /\ Split(d, loads)[<<i, n>>].id
              = <<load.id, IF Overlapped(d, load) = {n} THEN 0
                           ELSE n - Min(Overlapped(d, load)) + 1>>
        /\ Split(d, loads)[<<i, n>>].member = <<load.component, n>>
        /\ Split(d, loads)[<<i, n>>].from = LowEnd(load, u) - u.from
        /\ Split(d, loads)[<<i, n>>].to = HighEnd(d, load, u) - u.from
    BY <1>2, <1>4, <1>5, <1>9, <3>1, PartIs
  <3>3. Split(d, loads)[<<i, n>>].id[1] = load.id
    BY <3>2
  <3> QED BY <1>2, <1>8, <3>1, <3>2, <3>3, Zenon
 <2>4. g[n].from \in Nat /\ LowEnd(load, g[n]) \in Nat /\ HighEnd(d, load, g[n]) \in Nat
   BY <1>7, <2>1
 <2>5. PICK a \in Nat : a = g[n].from
   BY <2>4
 <2>6. PICK b \in Nat : b = LowEnd(load, g[n])
   BY <2>4
 <2>7. PICK e \in Nat : e = HighEnd(d, load, g[n])
   BY <2>4
 <2>8. a + (b - a) = b /\ a + (e - a) = e
   OBVIOUS
 <2> QED BY <2>1, <2>3, <2>5, <2>6, <2>7, <2>8
<1>10. ASSUME NEW p \in Loading(load, x)
       PROVE  /\ p = <<i, p[2]>> /\ p[2] \in DOMAIN g
              /\ LowEnd(load, g[p[2]]) <= x /\ x < HighEnd(d, load, g[p[2]])
 <2>1. PICK part : part = lines[p]
   OBVIOUS
 <2>2. PICK s : s = CHOOSE m \in Segments(d) : <<m.component, m.index>> = part.member
   OBVIOUS
 <2>3. /\ p \in DOMAIN lines /\ part.id[1] = load.id /\ s.component = load.component
       /\ s.from + part.from <= x /\ x < s.from + part.to
   BY <1>1, <1>8, <1>10, <2>1, <2>2 DEF Loading
 <2>4. p = <<p[1], p[2]>> /\ p[1] \in DOMAIN loads /\ p[2] \in Overlapped(d, loads[p[1]])
   BY <1>8, <2>3, SplitIs
 <2>5. part.id[1] = loads[p[1]].id
  <3>1. PICK j \in DOMAIN loads : j = p[1]
    BY <2>4
  <3>2. PICK n \in Overlapped(d, loads[j]) : n = p[2]
    BY <2>4, <3>1
  <3>3. p = <<j, n>>
    BY <2>4, <3>1, <3>2
  <3>4. PICK own : own = loads[j]
    OBVIOUS
  <3>5. PICK t : t = SegmentsOf(d, own.component)[n]
    OBVIOUS
  <3>6. Split(d, loads)[<<j, n>>].id
          = <<own.id, IF Overlapped(d, own) = {n} THEN 0
                      ELSE n - Min(Overlapped(d, own)) + 1>>
    BY <3>4, <3>5, PartIs
  <3>7. Split(d, loads)[<<j, n>>].id[1] = own.id
    BY <3>6
  <3> QED BY <1>8, <2>1, <3>1, <3>3, <3>4, <3>7, Zenon
 <2>6. p[1] = i
   BY <1>6, <2>3, <2>4, <2>5
 <2>7. p[2] \in Overlapped(d, load) /\ p = <<i, p[2]>>
   BY <1>5, <2>4, <2>6
 <2>8. /\ p[2] \in DOMAIN g /\ part.member = <<c, p[2]>>
       /\ g[p[2]].from + part.from = LowEnd(load, g[p[2]])
       /\ g[p[2]].from + part.to = HighEnd(d, load, g[p[2]])
   BY <1>9, <2>1, <2>7
 <2>9. s = g[p[2]]
   BY <1>3, <1>4, <2>2, <2>8, SegmentFound
 <2> QED BY <2>3, <2>7, <2>8, <2>9
<1>11. ASSUME NEW n \in DOMAIN g, g[n].from <= x, x < g[n].to, load.from <= x, x < EndOf(d, load)
       PROVE  <<i, n>> \in Loading(load, x)
 <2>1. LowEnd(load, g[n]) <= x /\ x < HighEnd(d, load, g[n])
       /\ LowEnd(load, g[n]) \in Nat /\ HighEnd(d, load, g[n]) \in Nat
   BY <1>7, <1>11
 <2>2. n \in Overlapped(d, load)
  <3>1. LowEnd(load, g[n]) < HighEnd(d, load, g[n])
    BY <2>1
  <3> QED BY <1>2, <1>4, <1>11, <3>1, OverlapIs
 <2>3. PICK p : p = <<i, n>>
   OBVIOUS
 <2>4. PICK part : part = lines[p]
   OBVIOUS
 <2>5. PICK s : s = CHOOSE m \in Segments(d) : <<m.component, m.index>> = part.member
   OBVIOUS
 <2>6. /\ p \in DOMAIN lines /\ part.id[1] = load.id /\ part.member = <<c, n>>
       /\ g[n].from + part.from = LowEnd(load, g[n]) /\ g[n].from + part.to = HighEnd(d, load, g[n])
   BY <1>9, <2>2, <2>3, <2>4
 <2>7. s = g[n] /\ s.component = load.component
  <3>1. (CHOOSE m \in Segments(d) : <<m.component, m.index>> = <<c, n>>) = g[n]
    BY <1>3, <1>4, <1>11, SegmentFound
  <3> QED BY <1>2, <1>7, <1>11, <2>5, <2>6, <3>1
 <2>8. s.from + part.from <= x /\ x < s.from + part.to
   BY <2>1, <2>6, <2>7
 <2>9. p \in Loading(load, x)
   BY <1>1, <1>8, <2>4, <2>5, <2>6, <2>7, <2>8 DEF Loading
 <2> QED BY <2>3, <2>9
<1>12. CASE load.from <= x /\ x < EndOf(d, load)
 <2>1. x < LengthOf(d, c)
  <3>1. LengthOf(d, c) \in Int
    BY <1>3, SegmentsTile
  <3> QED BY <1>3, <1>12, <3>1
 <2>2. PICK n \in DOMAIN g : g[n].from <= x /\ x < g[n].to
   BY <1>3, <1>4, <2>1, SegmentsTile
 <2>3. <<i, n>> \in Loading(load, x)
   BY <1>11, <1>12, <2>2
 <2>4. ASSUME NEW p \in Loading(load, x) PROVE p = <<i, n>>
  <3>1. PICK m : m = p[2]
    OBVIOUS
  <3>2. /\ p = <<i, m>> /\ m \in DOMAIN g
        /\ LowEnd(load, g[m]) <= x /\ x < HighEnd(d, load, g[m])
    BY <1>10, <2>4, <3>1
  <3>3. g[m].from <= x /\ x < g[m].to
    BY <1>7, <3>2
  <3>4. m = n
    BY <1>3, <1>4, <2>2, <3>2, <3>3, SegmentsTile
  <3> QED BY <3>2, <3>4
 <2>5. Loading(load, x) = {<<i, n>>}
   BY <2>3, <2>4
 <2>6. Cardinality(Loading(load, x)) = 1
   BY <2>5, FS_Singleton
 <2> QED BY <1>12, <2>6
<1>13. CASE ~(load.from <= x /\ x < EndOf(d, load))
 <2>1. Loading(load, x) = {}
   BY <1>7, <1>10, <1>13
 <2> QED BY <1>13, <2>1, FS_EmptySet
<1> QED BY <1>12, <1>13

\* A station of a member that has segments.
AtStation(d, c, station) == c \in Beams /\ HasSegments(d, c) /\ station \in Range(Stations(d, c))

\* The ends of the segments are the stations of the members that have segments.
LEMMA EndsAre ==
    ASSUME NEW d
    PROVE  /\ \A s \in Segments(d) : AtStation(d, s.component, s.starts) /\ AtStation(d, s.component, s.ends)
           /\ \A c, station : AtStation(d, c, station) =>
                 \E s \in Segments(d) : s.component = c /\ station \in {s.starts, s.ends}
<1>1. ASSUME NEW s \in Segments(d)
      PROVE  AtStation(d, s.component, s.starts) /\ AtStation(d, s.component, s.ends)
 <2>1. PICK c : c = s.component
   OBVIOUS
 <2>2. PICK n : n = s.index
   OBVIOUS
 <2>3. c \in Beams /\ n \in DOMAIN SegmentsOf(d, c) /\ s = SegmentsOf(d, c)[n]
   BY <2>1, <2>2, SegmentIs
 <2>4. PICK st : st = Stations(d, c)
   OBVIOUS
 <2>5. s.starts = st[n] /\ s.ends = st[n + 1] /\ n \in 1..Len(st) /\ n + 1 \in 1..Len(st)
   BY <2>3, <2>4, SegmentsAlong
 <2>6. st \in Seq(Station)
   BY <2>3, <2>4, StationsAlong
 <2>7. s.starts \in Range(st) /\ s.ends \in Range(st)
   BY <2>5, <2>6 DEF Range
 <2>8. HasSegments(d, c)
  <3>1. DOMAIN <<>> = {}
    OBVIOUS
  <3> QED BY <2>3, <3>1 DEF HasSegments
 <2> QED BY <2>1, <2>3, <2>4, <2>7, <2>8 DEF AtStation
<1>2. ASSUME NEW c, NEW station, AtStation(d, c, station)
      PROVE  \E s \in Segments(d) : s.component = c /\ station \in {s.starts, s.ends}
 <2>1. PICK st : st = Stations(d, c)
   OBVIOUS
 <2>2. c \in Beams /\ HasSegments(d, c) /\ station \in Range(st)
   BY <1>2, <2>1 DEF AtStation
 <2>3. st \in Seq(Station) /\ Len(st) \in Nat /\ Len(st) > 1
   BY <2>1, <2>2, StationsAlong, MoreStations
 <2>4. PICK i \in 1..Len(st) : station = st[i]
   BY <2>2, <2>3 DEF Range
 <2>5. PICK g : g = SegmentsOf(d, c)
   OBVIOUS
 <2>6. DOMAIN g = 1 .. (Len(st) - 1)
   BY <2>1, <2>2, <2>5, SegmentsAlong
 <2>7. CASE i < Len(st)
  <3>1. i \in DOMAIN g
    BY <2>3, <2>6, <2>7
  <3>2. g[i] \in Segments(d) /\ g[i].component = c /\ g[i].starts = st[i]
    BY <2>1, <2>2, <2>5, <3>1, SegmentIs, SegmentsAlong
  <3> QED BY <2>4, <3>2
 <2>8. CASE i = Len(st)
  <3>1. PICK j : j = i - 1
    OBVIOUS
  <3>2. j \in DOMAIN g /\ j + 1 = i
    BY <2>3, <2>6, <2>8, <3>1
  <3>3. g[j] \in Segments(d) /\ g[j].component = c /\ g[j].ends = st[i]
    BY <2>1, <2>2, <2>5, <3>2, SegmentIs, SegmentsAlong
  <3> QED BY <2>4, <3>3
 <2> QED BY <2>3, <2>7, <2>8
<1> QED BY <1>1, <1>2

\* Ports of different stations are different; each station has a first.
LEMMA EndsApart ==
    ASSUME NEW d
    PROVE  /\ \A c, station : AtStation(d, c, station) =>
                 station.first \in station.ports /\ <<c, station.first>> \in Pairs(c, station.ports)
           /\ \A b, c, st, su :
                 /\ AtStation(d, b, st) /\ AtStation(d, c, su)
                 /\ Pairs(b, st.ports) \cap Pairs(c, su.ports) # {}
                 => b = c /\ st = su
<1>1. ASSUME NEW c, NEW station, AtStation(d, c, station)
      PROVE  station.first \in station.ports
 <2>1. PICK s : s = Stations(d, c)
   OBVIOUS
 <2>2. c \in Beams /\ station \in Range(s)
   BY <1>1, <2>1 DEF AtStation
 <2>3. s \in Seq(Station) /\ \A i \in 1..Len(s) : s[i].first \in s[i].ports
   BY <2>1, <2>2, StationsAlong
 <2> QED BY <2>2, <2>3 DEF Range
<1>2. ASSUME NEW b, NEW c, NEW st, NEW su, AtStation(d, b, st), AtStation(d, c, su),
             Pairs(b, st.ports) \cap Pairs(c, su.ports) # {}
      PROVE  b = c /\ st = su
 <2>1. PICK p \in st.ports, q \in su.ports : <<b, p>> = <<c, q>>
   BY <1>2 DEF Pairs
 <2>2. b = c /\ p = q
   BY <2>1
 <2>3. PICK s : s = Stations(d, c)
   OBVIOUS
 <2>4. c \in Beams /\ st \in Range(s) /\ su \in Range(s)
   BY <1>2, <2>2, <2>3 DEF AtStation
 <2>5. s \in Seq(Station) /\ \A i, j \in 1..Len(s) : i # j => s[i].ports \cap s[j].ports = {}
   BY <2>3, <2>4, StationsAlong
 <2>6. PICK i \in 1..Len(s) : st = s[i]
   BY <2>4, <2>5 DEF Range
 <2>7. PICK j \in 1..Len(s) : su = s[j]
   BY <2>4, <2>5 DEF Range
 <2>8. p \in s[i].ports \cap s[j].ports
   BY <2>1, <2>2, <2>6, <2>7
 <2>9. i = j
   BY <2>5, <2>8
 <2> QED BY <2>2, <2>6, <2>7, <2>9
<1>3. ASSUME NEW c, NEW station, AtStation(d, c, station)
      PROVE  <<c, station.first>> \in Pairs(c, station.ports)
  BY <1>1, <1>3 DEF Pairs
<1> QED BY <1>1, <1>2, <1>3

\* The groups whose ports the projection makes one are the ties: the joints and the stations.
LEMMA TiesAre ==
    ASSUME NEW d
    PROVE  /\ PortTies(d) = JointGroups(d) \cup StationGroups(d)
           /\ \A t : t \in PortTies(d) <=>
                 \/ \E j \in Joints(d) : t = Range(j.ports)
                 \/ \E c, station : AtStation(d, c, station) /\ t = Pairs(c, station.ports)
<1>1. PICK U : U = UNION {{Pairs(c, s.ports) : s \in Range(Stations(d, c))} :
                            c \in {b \in Beams : HasSegments(d, b)}}
  OBVIOUS
<1>2. ASSUME NEW t
      PROVE  t \in U <=> \E c, station : AtStation(d, c, station) /\ t = Pairs(c, station.ports)
  BY <1>1 DEF AtStation
<1>3. ASSUME NEW t
      PROVE  t \in StationGroups(d)
                <=> \E s \in Segments(d) : t \in {Pairs(s.component, s.starts.ports),
                                                  Pairs(s.component, s.ends.ports)}
  BY DEF StationGroups
<1>4. U = StationGroups(d)
 <2>1. ASSUME NEW t \in U PROVE t \in StationGroups(d)
  <3>1. PICK c, station : AtStation(d, c, station) /\ t = Pairs(c, station.ports)
    BY <1>2, <2>1
  <3>2. PICK s \in Segments(d) : s.component = c /\ station \in {s.starts, s.ends}
    BY <3>1, EndsAre
  <3> QED BY <1>3, <3>1, <3>2
 <2>2. ASSUME NEW t \in StationGroups(d) PROVE t \in U
  <3>1. PICK s \in Segments(d) : t \in {Pairs(s.component, s.starts.ports),
                                        Pairs(s.component, s.ends.ports)}
    BY <1>3, <2>2
  <3>2. AtStation(d, s.component, s.starts) /\ AtStation(d, s.component, s.ends)
    BY EndsAre
  <3> QED BY <1>2, <3>1, <3>2
 <2> QED BY <2>1, <2>2
<1>5. PortTies(d) = JointGroups(d) \cup U
  BY <1>1 DEF PortTies
<1> QED BY <1>2, <1>4, <1>5 DEF JointGroups

\* What a function makes of a finite set is finite.
LEMMA ImageFinite ==
    ASSUME NEW S, IsFiniteSet(S), NEW f, DOMAIN f = S
    PROVE  IsFiniteSet(Range(f))
<1>1. PICK T : T = Range(f)
  OBVIOUS
<1>2. PICK h : h = [x \in S |-> f[x]]
  OBVIOUS
<1>3. h \in [S -> T] /\ \A t \in T : \E x \in S : h[x] = t
  BY <1>1, <1>2 DEF Range
<1>4. h \in Surjection(S, T)
  BY <1>3 DEF Surjection
<1> QED BY <1>1, <1>4, FS_Surjection

LEMMA RangeFinite ==
    ASSUME NEW S, NEW s \in Seq(S)
    PROVE  IsFiniteSet(Range(s))
<1>1. DOMAIN s = 1..Len(s) /\ Len(s) \in Nat
  OBVIOUS
<1>2. IsFiniteSet(1..Len(s))
 <2>1. 1 \in Int /\ Len(s) \in Int
   BY <1>1
 <2> QED BY <2>1, FS_Interval
<1> QED BY <1>1, <1>2, ImageFinite

LEMMA TiesFinite ==
    ASSUME NEW d \in Compiled
    PROVE  IsFiniteSet(PortTies(d))
<1>1. IsFiniteSet(JointGroups(d))
 <2>1. d.joints \in Seq(Joints(d))
   BY ProjectionAssumption
 <2>2. IsFiniteSet(Joints(d))
   BY <2>1, RangeFinite DEF Joints
 <2>3. PICK f : f = [j \in Joints(d) |-> Range(j.ports)]
   OBVIOUS
 <2>4. DOMAIN f = Joints(d) /\ JointGroups(d) = Range(f)
   BY <2>3 DEF JointGroups, Range
 <2> QED BY <2>2, <2>4, ImageFinite
<1>2. PICK B : B = {b \in Beams : HasSegments(d, b)}
  OBVIOUS
<1>3. IsFiniteSet(B)
 <2>1. B \in SUBSET DOMAIN Kind /\ IsFiniteSet(DOMAIN Kind)
   BY <1>2, ProjectionAssumption DEF Beams
 <2> QED BY <2>1, FS_Subset
<1>4. ASSUME NEW c \in B
      PROVE  IsFiniteSet({Pairs(c, s.ports) : s \in Range(Stations(d, c))})
 <2>1. PICK S : S = Range(Stations(d, c))
   OBVIOUS
 <2>2. Stations(d, c) \in Seq(Station)
   BY <1>2, <1>4, StationsAlong
 <2>3. IsFiniteSet(S)
   BY <2>1, <2>2, RangeFinite
 <2>4. PICK f : f = [s \in S |-> Pairs(c, s.ports)]
   OBVIOUS
 <2>5. DOMAIN f = S /\ Range(f) = {Pairs(c, s.ports) : s \in S}
   BY <2>4 DEF Range
 <2>6. IsFiniteSet(Range(f))
   BY <2>3, <2>5, ImageFinite
 <2> QED BY <2>1, <2>5, <2>6
<1>5. PICK f : f = [c \in B |-> {Pairs(c, s.ports) : s \in Range(Stations(d, c))}]
  OBVIOUS
<1>6. DOMAIN f = B /\ Range(f) = {{Pairs(c, s.ports) : s \in Range(Stations(d, c))} : c \in B}
  BY <1>5 DEF Range
<1>7. IsFiniteSet(Range(f))
  BY <1>3, <1>6, ImageFinite
<1>8. \A T \in Range(f) : IsFiniteSet(T)
  BY <1>4, <1>6
<1>9. IsFiniteSet(UNION Range(f))
  BY <1>7, <1>8, FS_UNION
<1>10. PortTies(d) = JointGroups(d) \cup UNION Range(f)
  BY <1>2, <1>6 DEF PortTies
<1> QED BY <1>1, <1>9, <1>10, FS_Union

----
(* Nodes.                                                                  *)

\* The class of a station's ports.
ClassAt(d, c, station) == CHOOSE k \in PortClasses(d) : Pairs(c, station.ports) \subseteq k

LEMMA ClassAtIs ==
    ASSUME NEW d \in Compiled, NEW c, NEW station, AtStation(d, c, station)
    PROVE  /\ ClassAt(d, c, station) \in PortClasses(d)
           /\ Pairs(c, station.ports) \subseteq ClassAt(d, c, station)
           /\ Pairs(c, station.ports) # {}
<1>1. IsFiniteSet(PortTies(d)) /\ PortTies(d) = JointGroups(d) \cup StationGroups(d)
  BY TiesFinite, TiesAre
<1>2. ClassesOf(PortClasses(d), PortTies(d))
  BY <1>1, ClassesRight DEF PortClasses
<1>3. Pairs(c, station.ports) \in PortTies(d)
  BY TiesAre
<1>4. Pairs(c, station.ports) # {}
  BY EndsApart
<1>5. \E k \in PortClasses(d) : Pairs(c, station.ports) \subseteq k
  BY <1>2, <1>3, <1>4 DEF ClassesOf
<1> QED BY <1>4, <1>5 DEF ClassAt

\* A class takes in every tie it meets; it holds what ties lead to from any port of it.
LEMMA ClassIs ==
    ASSUME NEW d \in Compiled
    PROVE  /\ \A k, l \in PortClasses(d) : k # l => k \cap l = {}
           /\ \A k \in PortClasses(d) : ClosedTo(k, PortTies(d))
           /\ \A k \in PortClasses(d) : \A S :
                 ClosedTo(S, PortTies(d)) /\ k \cap S # {} => k \subseteq S
           /\ \A k \in PortClasses(d) : \A p \in k : Tied(PortTies(d), p) = k
<1>1. IsFiniteSet(PortTies(d)) /\ PortTies(d) = JointGroups(d) \cup StationGroups(d)
  BY TiesFinite, TiesAre
<1>2. ClassesOf(PortClasses(d), PortTies(d))
  BY <1>1, ClassesRight DEF PortClasses
<1>3. \A k, l \in PortClasses(d) : k # l => k \cap l = {}
  BY <1>2 DEF ClassesOf
<1>4. \A S : ClosedTo(S, PortTies(d)) => \A k \in PortClasses(d) : k \cap S # {} => k \subseteq S
  BY <1>2 DEF ClassesOf
<1>5. ASSUME NEW k \in PortClasses(d) PROVE ClosedTo(k, PortTies(d))
 <2>1. ASSUME NEW g \in PortTies(d), g \cap k # {} PROVE g \subseteq k
  <3>1. PICK l \in PortClasses(d) : g \subseteq l
    BY <1>2, <2>1 DEF ClassesOf
  <3>2. l = k
    BY <1>3, <2>1, <3>1
  <3> QED BY <3>1, <3>2
 <2> QED BY <2>1 DEF ClosedTo
<1>6. ASSUME NEW k \in PortClasses(d), NEW p \in k PROVE Tied(PortTies(d), p) = k
 <2>1. /\ p \in Tied(PortTies(d), p) /\ ClosedTo(Tied(PortTies(d), p), PortTies(d))
       /\ \A S : p \in S /\ ClosedTo(S, PortTies(d)) => Tied(PortTies(d), p) \subseteq S
   BY <1>1, TiedRight
 <2>2. k \subseteq Tied(PortTies(d), p)
   BY <1>4, <1>6, <2>1
 <2>3. Tied(PortTies(d), p) \subseteq k
   BY <1>5, <1>6, <2>1
 <2> QED BY <2>2, <2>3
<1> QED BY <1>3, <1>4, <1>5, <1>6

\* A joint of two known ports or more, or not a connection.
LEMMA LoneJoint ==
    ASSUME NEW j, ~Connects(j), NEW c \in Beams, NEW p, <<c, p>> \in Range(j.ports)
    PROVE  JointEffect(j, c) = "refused"
<1>1. \A i, k \in KnownPlaces(j) : i = k
  BY DEF Connects
<1>2. PICK i \in DOMAIN j.ports : j.ports[i] = <<c, p>>
  BY DEF Range
<1>3. i \in KnownPlaces(j)
  BY <1>2 DEF KnownPlaces, Facets, Beams
<1>4. KnownPorts(j) = {<<c, p>>}
  BY <1>1, <1>2, <1>3 DEF KnownPorts
<1>5. \A q \in KnownPorts(j) : q[1] = c
  BY <1>4
<1>6. OtherKinds(j, c) = {}
  BY <1>5 DEF OtherKinds
<1>7. "ground" \notin OtherKinds(j, c) /\ "member" \notin OtherKinds(j, c)
  BY <1>6
<1> QED BY <1>7 DEF JointEffect

\* A joint with a port in the class of a segment's end is a connection.
LEMMA ClassJoints ==
    ASSUME NEW d \in Compiled, Analysable(d), NEW c, NEW station, AtStation(d, c, station),
           NEW j \in Joints(d), Range(j.ports) \cap ClassAt(d, c, station) # {}
    PROVE  Connects(j)
<1> SUFFICES ASSUME ~Connects(j) PROVE FALSE
  OBVIOUS
<1>1. PICK k : k = ClassAt(d, c, station)
  OBVIOUS
<1>2. k \in PortClasses(d) /\ Pairs(c, station.ports) \subseteq k /\ Pairs(c, station.ports) # {}
  BY <1>1, ClassAtIs
<1>3. "refused" \notin Effects(d) /\ PortsAreJoinedOnce(d)
  BY DEF Analysable
<1>4. ASSUME NEW b, NEW st, AtStation(d, b, st), Range(j.ports) \cap Pairs(b, st.ports) # {}
      PROVE  FALSE
 <2>1. PICK s \in Segments(d) : s.component = b /\ st \in {s.starts, s.ends}
   BY <1>4, EndsAre
 <2>2. b \in Beams
   BY <1>4 DEF AtStation
 <2>3. PICK p \in st.ports : <<b, p>> \in Range(j.ports)
   BY <1>4 DEF Pairs
 <2>4. JointEffect(j, b) = "refused"
   BY <2>2, <2>3, LoneJoint
 <2>5. j \in EndJoints(d, b, st)
   BY <1>4 DEF EndJoints
 <2>6. j \in EndJoints(d, s.component, s.starts) \cup EndJoints(d, s.component, s.ends)
   BY <2>1, <2>5
 <2>7. JointEffect(j, s.component) \in Effects(d)
   BY <2>6 DEF Effects
 <2> QED BY <1>3, <2>1, <2>4, <2>7
<1>5. PICK S : S = k \ Range(j.ports)
  OBVIOUS
<1>6. ClosedTo(S, PortTies(d))
 <2>1. ASSUME NEW g \in PortTies(d), g \cap S # {} PROVE g \subseteq S
  <3>1. g \subseteq k
    BY <1>2, <1>5, <2>1, ClassIs DEF ClosedTo
  <3>2. CASE \E i \in Joints(d) : g = Range(i.ports)
   <4>1. PICK i \in Joints(d) : g = Range(i.ports)
     BY <3>2
   <4>2. PICK n \in DOMAIN d.joints : i = d.joints[n]
     BY DEF Joints, Range
   <4>3. PICK m \in DOMAIN d.joints : j = d.joints[m]
     BY DEF Joints, Range
   <4>4. n # m
     BY <1>5, <2>1, <4>1, <4>2, <4>3
   <4>5. g \cap Range(j.ports) = {}
     BY <1>3, <4>1, <4>2, <4>3, <4>4 DEF PortsAreJoinedOnce
   <4> QED BY <1>5, <3>1, <4>5
  <3>3. CASE \E b, st : AtStation(d, b, st) /\ g = Pairs(b, st.ports)
   <4>1. PICK b, st : AtStation(d, b, st) /\ g = Pairs(b, st.ports)
     BY <3>3
   <4>2. g \cap Range(j.ports) = {}
     BY <1>4, <4>1
   <4> QED BY <1>5, <3>1, <4>2
  <3> QED BY <2>1, <3>2, <3>3, TiesAre
 <2> QED BY <2>1 DEF ClosedTo
<1>7. Pairs(c, station.ports) \cap Range(j.ports) = {}
  BY <1>4
<1>8. k \cap S # {}
  BY <1>2, <1>5, <1>7
<1>9. k \subseteq S
  BY <1>2, <1>6, <1>8, ClassIs
<1> QED BY <1>1, <1>5, <1>9

\* The joints of a station's node.
NodeIds(d, c, station) ==
    {j.id : j \in {k \in Joints(d) : Range(k.ports) \cap ClassAt(d, c, station) # {}}}

LEMMA KeyIs ==
    ASSUME NEW d, NEW c, NEW station
    PROVE  NodeKey(PortClasses(d), d, c, station) =
              [joints |-> NodeIds(d, c, station),
               port |-> IF NodeIds(d, c, station) = {} THEN <<c, station.first>> ELSE <<>>]
  BY Zenon DEF NodeKey, ClassAt, NodeIds

\* Two ends of segments have one key exactly when they are of one class.
LEMMA KeysAre ==
    ASSUME NEW d \in Compiled, Analysable(d), ConnectionsDiffer(d),
           NEW b, NEW st, AtStation(d, b, st), NEW c, NEW su, AtStation(d, c, su)
    PROVE  NodeKey(PortClasses(d), d, b, st) = NodeKey(PortClasses(d), d, c, su)
              <=> ClassAt(d, b, st) = ClassAt(d, c, su)
<1>1. PICK k : k = ClassAt(d, b, st)
  OBVIOUS
<1>2. PICK l : l = ClassAt(d, c, su)
  OBVIOUS
<1>3. /\ k \in PortClasses(d) /\ Pairs(b, st.ports) \subseteq k /\ Pairs(b, st.ports) # {}
      /\ l \in PortClasses(d) /\ Pairs(c, su.ports) \subseteq l /\ Pairs(c, su.ports) # {}
      /\ <<b, st.first>> \in k /\ <<c, su.first>> \in l
  BY <1>1, <1>2, ClassAtIs, EndsApart
<1>4. PICK A : A = NodeIds(d, b, st)
  OBVIOUS
<1>5. PICK B : B = NodeIds(d, c, su)
  OBVIOUS
<1>6. PICK P : P = <<b, st.first>>
  OBVIOUS
<1>7. PICK Q : Q = <<c, su.first>>
  OBVIOUS
<1>8. /\ NodeKey(PortClasses(d), d, b, st) = [joints |-> A, port |-> IF A = {} THEN P ELSE <<>>]
      /\ NodeKey(PortClasses(d), d, c, su) = [joints |-> B, port |-> IF B = {} THEN Q ELSE <<>>]
  BY <1>4, <1>5, <1>6, <1>7, KeyIs
<1>9. /\ A = {j.id : j \in {i \in Joints(d) : Range(i.ports) \cap k # {}}}
      /\ B = {j.id : j \in {i \in Joints(d) : Range(i.ports) \cap l # {}}}
  BY <1>1, <1>2, <1>4, <1>5 DEF NodeIds
<1>10. ASSUME k = l
       PROVE  NodeKey(PortClasses(d), d, b, st) = NodeKey(PortClasses(d), d, c, su)
 <2>1. A = B
   BY <1>9, <1>10
 <2>2. CASE A # {}
   BY <1>8, <2>1, <2>2
 <2>3. CASE A = {}
  <3>1. \A j \in Joints(d) : Range(j.ports) \cap k = {}
    BY <1>9, <2>3
  <3>2. PICK S : S = Pairs(b, st.ports)
    OBVIOUS
  <3>3. ClosedTo(S, PortTies(d))
   <4>1. ASSUME NEW g \in PortTies(d), g \cap S # {} PROVE g \subseteq S
    <5>1. ~\E j \in Joints(d) : g = Range(j.ports)
      BY <1>3, <3>1, <3>2, <4>1
    <5>2. PICK e, sv : AtStation(d, e, sv) /\ g = Pairs(e, sv.ports)
      BY <4>1, <5>1, TiesAre
    <5>3. e = b /\ sv = st
      BY <3>2, <4>1, <5>2, EndsApart
    <5> QED BY <3>2, <5>2, <5>3
   <4> QED BY <4>1 DEF ClosedTo
  <3>4. k \subseteq S
    BY <1>3, <3>2, <3>3, ClassIs
  <3>5. Pairs(b, st.ports) \cap Pairs(c, su.ports) # {}
    BY <1>3, <1>10, <3>2, <3>4
  <3>6. b = c /\ st = su
    BY <3>5, EndsApart
  <3> QED BY <3>6
 <2> QED BY <2>2, <2>3
<1>11. ASSUME NodeKey(PortClasses(d), d, b, st) = NodeKey(PortClasses(d), d, c, su)
       PROVE  k = l
 <2>1. A = B /\ (A = {} => P = Q)
   BY <1>8, <1>11
 <2>2. CASE A = {}
  <3>1. P \in k /\ P \in l
    BY <1>3, <1>6, <1>7, <2>1, <2>2
  <3> QED BY <1>3, <3>1, ClassIs
 <2>3. CASE A # {}
  <3>1. PICK x \in A : x \in B
    BY <2>1, <2>3
  <3>2. PICK i \in Joints(d) : Range(i.ports) \cap k # {} /\ x = i.id
    BY <1>9
  <3>3. PICK j \in Joints(d) : Range(j.ports) \cap l # {} /\ x = j.id
    BY <1>9, <3>1
  <3>4. Connects(i) /\ Connects(j)
    BY <1>1, <1>2, <3>2, <3>3, ClassJoints
  <3>5. PICK n \in DOMAIN d.joints : i = d.joints[n]
    BY DEF Joints, Range
  <3>6. PICK m \in DOMAIN d.joints : j = d.joints[m]
    BY DEF Joints, Range
  <3>7. i = j
    BY <3>2, <3>3, <3>4, <3>5, <3>6 DEF ConnectionsDiffer
  <3>8. Range(i.ports) \in PortTies(d)
    BY TiesAre
  <3>9. Range(i.ports) \subseteq k
    BY <1>3, <3>2, <3>8, ClassIs DEF ClosedTo
  <3>10. k \cap l # {}
    BY <3>3, <3>7, <3>9
  <3> QED BY <1>3, <3>10, ClassIs
 <2> QED BY <2>2, <2>3
<1> QED BY <1>1, <1>2, <1>10, <1>11

\* The ends of segments are one node exactly when ties lead from one to the other.
LEMMA NodesTied ==
    ASSUME layout \in Compiled, Analysable(layout), ConnectionsDiffer(layout),
           capture.derived.members = Segments(layout)
    PROVE  NodesAreTied
<1>1. PICK d : d = layout
  OBVIOUS
<1>2. PICK classes : classes = PortClasses(d)
  OBVIOUS
<1>3. PICK ties : ties = PortTies(d)
  OBVIOUS
<1>4. PICK ends : ends = UNION {{<<s.component, s.starts>>, <<s.component, s.ends>>} :
                                   s \in capture.derived.members}
  OBVIOUS
<1>5. PICK key : key = [end \in ends |-> NodeKey(classes, d, end[1], end[2])]
  OBVIOUS
<1>6. PICK reach : reach = [end \in ends |-> Tied(ties, <<end[1], end[2].first>>)]
  OBVIOUS
<1>7. ASSUME NEW x \in ends PROVE AtStation(d, x[1], x[2])
 <2>1. PICK s \in Segments(d) : x \in {<<s.component, s.starts>>, <<s.component, s.ends>>}
   BY <1>1, <1>4
 <2>2. AtStation(d, s.component, s.starts) /\ AtStation(d, s.component, s.ends)
   BY EndsAre
 <2> QED BY <2>1, <2>2
<1>8. ASSUME NEW x \in ends, NEW y \in ends
      PROVE  key[x] = key[y] <=> reach[x] \cap Pairs(y[1], y[2].ports) # {}
 <2>1. PICK b, st : b = x[1] /\ st = x[2]
   OBVIOUS
 <2>2. PICK c, su : c = y[1] /\ su = y[2]
   OBVIOUS
 <2>3. AtStation(d, b, st) /\ AtStation(d, c, su) /\ d \in Compiled
   BY <1>1, <1>7, <2>1, <2>2
 <2>4. key[x] = key[y] <=> ClassAt(d, b, st) = ClassAt(d, c, su)
   BY <1>1, <1>2, <1>5, <2>1, <2>2, <2>3, KeysAre
 <2>5. PICK k : k = ClassAt(d, b, st)
   OBVIOUS
 <2>6. PICK l : l = ClassAt(d, c, su)
   OBVIOUS
 <2>7. /\ k \in PortClasses(d) /\ l \in PortClasses(d)
       /\ Pairs(b, st.ports) \subseteq k /\ Pairs(c, su.ports) \subseteq l /\ Pairs(c, su.ports) # {}
       /\ <<b, st.first>> \in k
   BY <2>3, <2>5, <2>6, ClassAtIs, EndsApart
 <2>8. reach[x] = k
   BY <1>3, <1>6, <2>1, <2>3, <2>7, ClassIs
 <2>9. k = l <=> k \cap Pairs(c, su.ports) # {}
   BY <2>3, <2>7, ClassIs
 <2> QED BY <2>2, <2>4, <2>5, <2>6, <2>8, <2>9
<1> DEFINE Ends == UNION {{<<s.component, s.starts>>, <<s.component, s.ends>>} :
                             s \in capture.derived.members}
           Key == [end \in Ends |-> NodeKey(PortClasses(layout), layout, end[1], end[2])]
           Reach == [end \in Ends |-> Tied(PortTies(layout), <<end[1], end[2].first>>)]
<1>9. ends = Ends
  BY <1>4
<1>10. key = Key
  BY <1>1, <1>2, <1>5, <1>9, Zenon
<1>11. reach = Reach
  BY <1>1, <1>3, <1>6, <1>9, Zenon
<1>12. \A x, y \in Ends : Key[x] = Key[y] <=> Reach[x] \cap Pairs(y[1], y[2].ports) # {}
 <2> HIDE DEF Ends, Key, Reach
 <2> QED BY <1>8, <1>9, <1>10, <1>11
<1> QED BY <1>12, Zenon DEF NodesAreTied

LEMMA MemberFound ==
    ASSUME NEW d, NEW x, x.members = Segments(d), NEW c \in Beams,
           NEW n \in DOMAIN SegmentsOf(d, c), NEW t, t = SegmentsOf(d, c)[n]
    PROVE  /\ IsMember(x, <<c, n>>) /\ SpanOf(x, <<c, n>>) = t.to - t.from
           /\ t.from \in Nat /\ t.to \in Nat /\ t.from < t.to
<1>1. t \in Segments(d) /\ t.component = c /\ t.index = n
  BY SegmentIs, SegmentsAlong
<1>2. IsMember(x, <<c, n>>)
  BY <1>1 DEF IsMember
<1>3. (CHOOSE m \in x.members : <<m.component, m.index>> = <<c, n>>) = t
  BY SegmentFound
<1>4. SpanOf(x, <<c, n>>) = t.to - t.from
  BY <1>3 DEF SpanOf
<1>5. t.from \in 0..Length[c] /\ t.to \in 0..Length[c] /\ t.from < t.to /\ Length[c] \in Nat
  BY SegmentsAlong, ProjectionAssumption
<1> QED BY <1>2, <1>4, <1>5

\* Intervals of members that have segments.
OnMembers(d, loads) ==
    \A i \in DOMAIN loads :
        /\ loads[i].component \in Beams /\ HasSegments(d, loads[i].component)
        /\ loads[i].from \in Nat /\ EndOf(d, loads[i]) \in Nat

\* A part of an interval lies on its segment.
LEMMA PartInside ==
    ASSUME NEW d, NEW x, x.members = Segments(d), NEW loads, OnMembers(d, loads),
           NEW p \in DOMAIN Split(d, loads)
    PROVE  Inside(x, Split(d, loads)[p])
<1>1. p = <<p[1], p[2]>> /\ p[1] \in DOMAIN loads /\ p[2] \in Overlapped(d, loads[p[1]])
  BY SplitIs
<1>2. PICK i \in DOMAIN loads : i = p[1]
  BY <1>1
<1>3. PICK load : load = loads[i]
  OBVIOUS
<1>4. PICK n : n = p[2]
  OBVIOUS
<1>5. p = <<i, n>> /\ n \in Overlapped(d, load)
  BY <1>1, <1>2, <1>3, <1>4
<1>6. PICK c : c = load.component
  OBVIOUS
<1>7. c \in Beams /\ load.from \in Nat /\ EndOf(d, load) \in Nat
  BY <1>3, <1>6 DEF OnMembers
<1>8. PICK t : t = SegmentsOf(d, load.component)[n]
  OBVIOUS
<1>9. n \in DOMAIN SegmentsOf(d, c) /\ LowEnd(load, t) < HighEnd(d, load, t)
  BY <1>5, <1>6, <1>8 DEF Overlapped
<1>10. /\ IsMember(x, <<c, n>>) /\ SpanOf(x, <<c, n>>) = t.to - t.from
       /\ t.from \in Nat /\ t.to \in Nat /\ t.from < t.to
  BY <1>6, <1>7, <1>8, <1>9, MemberFound
<1>11. /\ LowEnd(load, t) \in Nat /\ HighEnd(d, load, t) \in Nat
       /\ t.from <= LowEnd(load, t) /\ HighEnd(d, load, t) <= t.to
  BY <1>7, <1>10, PartLies
<1>12. PICK part : part = Split(d, loads)[p]
  OBVIOUS
<1>13. /\ Split(d, loads)[<<i, n>>].member = <<load.component, n>>
       /\ Split(d, loads)[<<i, n>>].from = LowEnd(load, t) - t.from
       /\ Split(d, loads)[<<i, n>>].to = HighEnd(d, load, t) - t.from
  BY <1>3, <1>5, <1>8, PartIs
<1>14. /\ part.member = <<c, n>> /\ part.from = LowEnd(load, t) - t.from
       /\ part.to = HighEnd(d, load, t) - t.from
  BY <1>5, <1>6, <1>12, <1>13
<1>15. PICK low \in Nat : low = LowEnd(load, t)
  BY <1>11
<1>16. PICK high \in Nat : high = HighEnd(d, load, t)
  BY <1>11
<1>17. PICK a \in Nat : a = t.from
  BY <1>10
<1>18. PICK b \in Nat : b = t.to
  BY <1>10
<1>19. a <= low /\ high <= b /\ low < high
  BY <1>9, <1>11, <1>15, <1>16, <1>17, <1>18
<1>20. 0 <= low - a /\ low - a < high - a /\ high - a <= b - a
  BY <1>19
<1>21. part.from = low - a /\ part.to = high - a /\ SpanOf(x, part.member) = b - a
  BY <1>10, <1>14, <1>15, <1>16, <1>17, <1>18
<1> QED BY <1>10, <1>12, <1>14, <1>20, <1>21 DEF Inside

\* Parts have different names where the intervals have.
LEMMA PartsDiffer ==
    ASSUME NEW d, NEW loads, OnMembers(d, loads), Distinct(Ids(loads))
    PROVE  Distinct(Ids(Split(d, loads)))
<1>1. PICK parts : parts = Split(d, loads)
  OBVIOUS
<1>2. DOMAIN Ids(parts) = DOMAIN parts /\ \A p \in DOMAIN parts : Ids(parts)[p] = parts[p].id
  BY DEF Ids
<1>3. ASSUME NEW p \in DOMAIN parts, NEW q \in DOMAIN parts, parts[p].id = parts[q].id
      PROVE  p = q
 <2>1. /\ p = <<p[1], p[2]>> /\ p[1] \in DOMAIN loads /\ p[2] \in Overlapped(d, loads[p[1]])
       /\ q = <<q[1], q[2]>> /\ q[1] \in DOMAIN loads /\ q[2] \in Overlapped(d, loads[q[1]])
   BY <1>1, <1>3, SplitIs
 <2>2. PICK i \in DOMAIN loads : i = p[1]
   BY <2>1
 <2>3. PICK j \in DOMAIN loads : j = q[1]
   BY <2>1
 <2>4. PICK n : n = p[2]
   OBVIOUS
 <2>5. PICK m : m = q[2]
   OBVIOUS
 <2>6. PICK load : load = loads[i]
   OBVIOUS
 <2>7. PICK other : other = loads[j]
   OBVIOUS
 <2>8. /\ p = <<i, n>> /\ n \in Overlapped(d, load)
       /\ q = <<j, m>> /\ m \in Overlapped(d, other)
   BY <2>1, <2>2, <2>3, <2>4, <2>5, <2>6, <2>7
 <2>9. PICK t : t = SegmentsOf(d, load.component)[n]
   OBVIOUS
 <2>10. PICK u : u = SegmentsOf(d, other.component)[m]
   OBVIOUS
 <2>11. parts[p].id = <<load.id, IF Overlapped(d, load) = {n} THEN 0
                                 ELSE n - Min(Overlapped(d, load)) + 1>>
   BY <1>1, <2>6, <2>8, <2>9, PartIs
 <2>12. parts[q].id = <<other.id, IF Overlapped(d, other) = {m} THEN 0
                                  ELSE m - Min(Overlapped(d, other)) + 1>>
   BY <1>1, <2>7, <2>8, <2>10, PartIs
 <2>13. load.id = other.id
  <3>1. PICK v : v = IF Overlapped(d, load) = {n} THEN 0 ELSE n - Min(Overlapped(d, load)) + 1
    OBVIOUS
  <3>2. PICK w : w = IF Overlapped(d, other) = {m} THEN 0 ELSE m - Min(Overlapped(d, other)) + 1
    OBVIOUS
  <3>3. <<load.id, v>> = <<other.id, w>>
    BY <1>3, <2>11, <2>12, <3>1, <3>2, Zenon
  <3> QED BY ONLY <3>3
 <2>14. i = j /\ load = other
  <3>1. Ids(loads)[i] = load.id /\ Ids(loads)[j] = other.id /\ DOMAIN Ids(loads) = DOMAIN loads
    BY <2>6, <2>7 DEF Ids
  <3>2. i = j
    BY <2>13, <3>1 DEF Distinct
  <3> QED BY <2>6, <2>7, <3>2
 <2>15. PICK R : R = Overlapped(d, load)
   OBVIOUS
 <2>16. R \subseteq Nat /\ n \in R /\ m \in R
  <3>1. load.component \in Beams
    BY <2>6 DEF OnMembers
  <3>2. PICK c \in Beams : c = load.component
    BY <3>1
  <3>3. Stations(d, c) \in Seq(Station)
    BY StationsAlong
  <3>4. DOMAIN SegmentsOf(d, c) = 1 .. (Len(Stations(d, c)) - 1)
    BY SegmentsAlong
  <3>5. DOMAIN SegmentsOf(d, c) \subseteq Nat
    BY <3>3, <3>4
  <3>6. R \subseteq DOMAIN SegmentsOf(d, c)
    BY <2>15, <3>2 DEF Overlapped
  <3> QED BY <2>8, <2>14, <2>15, <3>5, <3>6
 <2>17. PICK r \in Nat : r = Min(R)
  <3>1. PICK y \in R : \A z \in R : y <= z
    BY <2>16, LeastNatural
  <3>2. Min(R) \in R
    BY <3>1 DEF Min
  <3> QED BY <2>16, <3>2
 <2>18. (IF R = {n} THEN 0 ELSE n - r + 1) = IF R = {m} THEN 0 ELSE m - r + 1
  <3>1. PICK a : a = IF R = {n} THEN 0 ELSE n - r + 1
    OBVIOUS
  <3>2. PICK b : b = IF R = {m} THEN 0 ELSE m - r + 1
    OBVIOUS
  <3>3. <<load.id, a>> = <<load.id, b>>
    BY <1>3, <2>11, <2>12, <2>14, <2>15, <2>17, <3>1, <3>2, Zenon
  <3>4. a = b
    BY ONLY <3>3
  <3> QED BY <3>1, <3>2, <3>4
 <2>19. n \in Nat /\ m \in Nat
   BY <2>16
 <2>20. n = m
  <3>1. CASE R = {n} \/ R = {m}
    BY <2>16, <3>1
  <3>2. CASE R # {n} /\ R # {m}
    BY <2>17, <2>18, <2>19, <3>2
  <3> QED BY <3>1, <3>2
 <2> QED BY <2>8, <2>14, <2>20
<1> QED BY <1>1, <1>2, <1>3 DEF Distinct

\* What fits of the lengths to verify, and of the loads at points.
LEMMA LengthsFit ==
    ASSUME NEW d, NEW k \in Saved, Fits(d, k)
    PROVE  /\ OnMembers(d, k.lines) /\ OnMembers(d, k.lengths)
           /\ \A i \in DOMAIN k.lengths : EndOf(d, k.lengths[i]) <= LengthOf(d, k.lengths[i].component)
<1>1. ASSUME NEW i \in DOMAIN k.lines
      PROVE  /\ k.lines[i].component \in Beams /\ HasSegments(d, k.lines[i].component)
             /\ k.lines[i].from \in Nat /\ EndOf(d, k.lines[i]) \in Nat
 <2>1. k.lines[i] \in Range(k.lines)
   BY DEF Range
 <2> QED BY <2>1, LinesFitted
<1>2. ASSUME NEW i \in DOMAIN k.lengths
      PROVE  /\ k.lengths[i].component \in Beams /\ HasSegments(d, k.lengths[i].component)
             /\ k.lengths[i].from \in Nat /\ EndOf(d, k.lengths[i]) \in Nat
             /\ EndOf(d, k.lengths[i]) <= LengthOf(d, k.lengths[i].component)
 <2>1. PICK load : load = k.lengths[i]
   OBVIOUS
 <2>2. load \in Range(k.lengths)
   BY <2>1 DEF Range
 <2>3. load.from \in Nat /\ load.to \in Nat
   BY <2>2, ProjectionAssumption
 <2>4. HasSegments(d, load.component) /\ EndOf(d, load) <= LengthOf(d, load.component)
   BY <2>2 DEF Fits, LengthFits
 <2>5. load.component \in Beams
   BY <2>4 DEF HasSegments
 <2>6. EndOf(d, load) \in Nat
   BY <2>3, <2>4, <2>5, LoadWithin
 <2> QED BY <2>1, <2>3, <2>4, <2>5, <2>6
<1> QED BY <1>1, <1>2 DEF OnMembers

\* A point load that fits goes to a segment of its member, and lies on it.
LEMMA PointPlaced ==
    ASSUME NEW d, NEW k \in Saved, Fits(d, k), NEW x, x.members = Segments(d),
           NEW load \in Range(k.points), NEW point, point = PointOnSegment(d, load)
    PROVE  /\ point.id = load.id
           /\ IsMember(x, point.member) /\ point.at \in 0 .. SpanOf(x, point.member)
<1>1. PICK c : c = load.component
  OBVIOUS
<1>2. PICK y : y = load.at
  OBVIOUS
<1>3. y \in Nat /\ c \in Beams /\ HasSegments(d, c) /\ y <= LengthOf(d, c)
  BY <1>1, <1>2, ProjectionAssumption DEF Fits, PointFits, HasSegments
<1>4. PICK g : g = SegmentsOf(d, c)
  OBVIOUS
<1>5. PICK Covers : Covers = {n \in DOMAIN g : y \in g[n].from .. g[n].to}
  OBVIOUS
<1>6. \A n \in DOMAIN g : g[n].from \in Nat /\ g[n].to \in Nat /\ g[n].from < g[n].to
 <2>1. ASSUME NEW n \in DOMAIN g PROVE g[n].from \in Nat /\ g[n].to \in Nat /\ g[n].from < g[n].to
  <3>1. PICK t : t = g[n]
    OBVIOUS
  <3>2. t.from \in Nat /\ t.to \in Nat /\ t.from < t.to
    BY <1>3, <1>4, <3>1, MemberFound
  <3> QED BY <3>1, <3>2
 <2> QED BY <2>1
<1>7. Covers # {}
 <2>1. LengthOf(d, c) \in Nat
  <3>1. LengthOf(d, c) \in 0..Length[c] /\ Length[c] \in Nat
    BY <1>3, SegmentsTile, ProjectionAssumption
  <3> QED BY <3>1
 <2>2. CASE y < LengthOf(d, c)
  <3>1. PICK n \in DOMAIN g : g[n].from <= y /\ y < g[n].to
    BY <1>3, <1>4, <2>2, SegmentsTile
  <3>2. y \in g[n].from .. g[n].to
    BY <1>3, <1>6, <3>1
  <3> QED BY <1>5, <3>2
 <2>3. CASE y = LengthOf(d, c)
  <3>1. PICK s : s = Stations(d, c)
    OBVIOUS
  <3>2. Len(s) \in Nat /\ Len(s) > 1 /\ DOMAIN g = 1 .. (Len(s) - 1) /\ Len(g) = Len(s) - 1
    BY <1>3, <1>4, <3>1, MoreStations, SegmentsAlong
  <3>3. PICK n : n = Len(g)
    OBVIOUS
  <3>4. n \in DOMAIN g
    BY <3>2, <3>3
  <3>5. g[n].to = y
    BY <1>4, <2>3, <3>3 DEF LengthOf, Last
  <3>6. g[n].from \in Nat /\ g[n].from < y
    BY <1>6, <3>4, <3>5
  <3>7. y \in g[n].from .. g[n].to
    BY <1>3, <3>5, <3>6
  <3> QED BY <1>5, <3>4, <3>7
 <2> QED BY <1>3, <2>1, <2>2, <2>3
<1>8. PICK i : i = CHOOSE n \in DOMAIN g : /\ y \in g[n].from .. g[n].to
                                           /\ \A m \in 1 .. n - 1 : y \notin g[m].from .. g[m].to
  OBVIOUS
<1>9. DOMAIN g \subseteq Nat /\ \A n \in DOMAIN g : \A m \in 1 .. n - 1 : m \in DOMAIN g
 <2>1. PICK s : s = Stations(d, c)
   OBVIOUS
 <2>2. Len(s) \in Nat /\ DOMAIN g = 1 .. (Len(s) - 1)
   BY <1>3, <1>4, <2>1, MoreStations, SegmentsAlong
 <2> QED BY <2>2
<1>10. i \in DOMAIN g /\ y \in g[i].from .. g[i].to
 <2>1. Covers \in SUBSET Nat
   BY <1>5, <1>9
 <2>2. PICK n \in Covers : \A m \in Covers : n <= m
   BY <1>7, <2>1, LeastNatural
 <2>3. n \in DOMAIN g /\ n \in Nat /\ y \in g[n].from .. g[n].to
   BY <1>5, <1>9
 <2>4. ASSUME NEW m \in 1 .. n - 1 PROVE y \notin g[m].from .. g[m].to
  <3>1. m \in DOMAIN g /\ m < n /\ m \in Nat
    BY <1>9, <2>3, <2>4
  <3>2. m \notin Covers
    BY <2>2, <2>3, <3>1
  <3> QED BY <1>5, <3>1, <3>2
 <2> QED BY <1>8, <2>3, <2>4
<1>11. PICK t : t = g[i]
  OBVIOUS
<1>12. point = [id |-> load.id, member |-> <<c, i>>, at |-> y - t.from]
  BY <1>1, <1>2, <1>4, <1>8, <1>11, Zenon DEF PointOnSegment
<1>13. point.id = load.id /\ point.member = <<c, i>> /\ point.at = y - t.from
  BY <1>12
<1>14. IsMember(x, <<c, i>>) /\ SpanOf(x, <<c, i>>) = t.to - t.from
  BY <1>3, <1>4, <1>10, <1>11, MemberFound
<1>15. PICK a \in Nat : a = t.from
  BY <1>6, <1>10, <1>11
<1>16. PICK b \in Nat : b = t.to
  BY <1>6, <1>10, <1>11
<1>17. y \in a..b
  BY <1>10, <1>11, <1>15, <1>16
<1>18. y - a \in 0 .. (b - a)
  BY <1>3, <1>17
<1> QED BY <1>13, <1>14, <1>15, <1>16, <1>18

\* The sides of a connection are components of two of its ports.
LEMMA TopologyHeld ==
    ASSUME NEW d, NEW x, x.members = Segments(d), x.connections = Connections(d),
           ConnectionsDiffer(d), \A j \in Joints(d) : Connects(j) => Sides(j)[1] # Sides(j)[2]
    PROVE  TopologyIsSound(d, x)
<1>1. ASSUME NEW c \in x.connections PROVE c.source # c.target
 <2>1. PICK j \in Joints(d) : /\ Connects(j)
                              /\ c = [id |-> j.id, source |-> Sides(j)[1], target |-> Sides(j)[2]]
   BY <1>1 DEF Connections
 <2>2. PICK u, v : u = Sides(j)[1] /\ v = Sides(j)[2]
   OBVIOUS
 <2>3. u # v
   BY <2>1, <2>2
 <2>4. c.source = u /\ c.target = v
   BY <2>1, <2>2
 <2> QED BY <2>3, <2>4
<1>2. ASSUME NEW m \in x.members PROVE Kind[m.component] = "member" /\ m.from # m.to
 <2>1. PICK c : c = m.component
   OBVIOUS
 <2>2. PICK n : n = m.index
   OBVIOUS
 <2>3. c \in Beams /\ n \in DOMAIN SegmentsOf(d, c) /\ m = SegmentsOf(d, c)[n]
   BY <1>2, <2>1, <2>2, SegmentIs
 <2>4. m.from \in Nat /\ m.to \in Nat /\ m.from < m.to
   BY <2>3, MemberFound
 <2>5. Kind[c] = "member"
   BY <2>3 DEF Beams
 <2> QED BY <2>1, <2>4, <2>5
<1> QED BY <1>1, <1>2 DEF TopologyIsSound

\* The places that may brace a member at a joint.
BracesAt(d, j, c) ==
    {i \in KnownPlaces(j) :
        /\ j.ports[i][1] # c
        /\ <<c, j.ports[i][1]>> \in Restrains
        /\ \E s \in Segments(d) :
              /\ s.component = j.ports[i][1]
              /\ \/ j.id \in NodeKey(PortClasses(d), d, s.component, s.starts).joints
                 \/ j.id \in NodeKey(PortClasses(d), d, s.component, s.ends).joints}

CandidateAt(d, at) ==
    [connection |-> at[1].id, member |-> <<at[2].component, at[2].index>>,
     brace |-> at[1].ports[Min(BracesAt(d, at[1], at[2].component))][1],
     distance |-> IF at[1].id \in NodeKey(PortClasses(d), d, at[2].component, at[2].starts).joints
                  THEN 0 ELSE at[2].to - at[2].from]

LEMMA CandidatesAre ==
    ASSUME NEW d, NEW n \in Candidates(d)
    PROVE  \E at \in Joints(d) \X Segments(d) :
              /\ at[2].component \in {p[1] : p \in KnownPorts(at[1])}
              /\ BracesAt(d, at[1], at[2].component) # {}
              /\ n = CandidateAt(d, at)
  BY Zenon DEF Candidates, BracesAt, CandidateAt

\* A restraint is found on a segment, at an end of it, at a connection.
LEMMA CandidateIs ==
    ASSUME NEW d, NEW n \in Candidates(d)
    PROVE  \E j \in Joints(d), s \in Segments(d) :
              /\ Connects(j) /\ n.connection = j.id /\ n.member = <<s.component, s.index>>
              /\ n.distance \in {0, s.to - s.from}
<1>1. PICK at \in Joints(d) \X Segments(d) :
              /\ at[2].component \in {p[1] : p \in KnownPorts(at[1])}
              /\ BracesAt(d, at[1], at[2].component) # {}
              /\ n = CandidateAt(d, at)
  BY CandidatesAre
<1>2. PICK j \in Joints(d) : j = at[1]
  OBVIOUS
<1>3. PICK s \in Segments(d) : s = at[2]
  OBVIOUS
<1>4. PICK c : c = s.component
  OBVIOUS
<1>5. PICK i \in KnownPlaces(j) : j.ports[i][1] # c
  BY <1>1, <1>2, <1>3, <1>4 DEF BracesAt
<1>6. PICK p \in KnownPorts(j) : p[1] = c
  BY <1>1, <1>2, <1>3, <1>4
<1>7. PICK m \in KnownPlaces(j) : p = j.ports[m]
  BY DEF KnownPorts
<1>8. Connects(j)
  BY <1>5, <1>6, <1>7 DEF Connects
<1>9. PICK b : b = at[1].ports[Min(BracesAt(d, at[1], at[2].component))][1]
  OBVIOUS
<1>10. PICK far : far = IF at[1].id \in NodeKey(PortClasses(d), d, at[2].component, at[2].starts).joints
                        THEN 0 ELSE at[2].to - at[2].from
  OBVIOUS
<1>11. PICK id, member : id = j.id /\ member = <<s.component, s.index>>
  OBVIOUS
<1>12. n = [connection |-> id, member |-> member, brace |-> b, distance |-> far]
  BY <1>1, <1>2, <1>3, <1>9, <1>10, <1>11, Zenon DEF CandidateAt
<1>13. n.connection = id /\ n.member = member /\ n.distance = far
  BY ONLY <1>12
<1>14. far \in {0, s.to - s.from}
  BY <1>3, <1>10
<1> QED BY <1>8, <1>11, <1>13, <1>14

\* The lengths that are verified lie on segments, each under a name of its own.
LEMMA LengthsHeld ==
    ASSUME NEW d, NEW k \in Saved, Fits(d, k), Distinct(Ids(k.lengths)), ~NothingToVerify(d, k),
           NEW x, x.members = Segments(d), NEW lengths, lengths = StabilityLengths(d, k)
    PROVE  /\ DOMAIN lengths # {} /\ Distinct(Ids(lengths))
           /\ \A i \in DOMAIN lengths : Inside(x, lengths[i])
<1>1. CASE k.lengths = <<>>
 <2>1. lengths = [s \in Untensioned(d) |-> FullLength(s)]
   BY <1>1 DEF StabilityLengths
 <2>2. DOMAIN lengths = Untensioned(d) /\ Untensioned(d) # {}
   BY <1>1, <2>1 DEF NothingToVerify
 <2>3. ASSUME NEW s \in Untensioned(d)
       PROVE  /\ lengths[s].id = <<<<s.component, s.index>>, 0>>
              /\ lengths[s].member = <<s.component, s.index>>
              /\ lengths[s].from = 0 /\ lengths[s].to = s.to - s.from
   BY <2>1, <2>3 DEF FullLength
 <2>4. ASSUME NEW s \in Untensioned(d) PROVE Inside(x, lengths[s])
  <3>1. s \in Segments(d)
    BY DEF Untensioned
  <3>2. PICK c \in Beams : c = s.component
    BY <3>1, SegmentIs
  <3>3. PICK n \in DOMAIN SegmentsOf(d, c) : n = s.index /\ s = SegmentsOf(d, c)[n]
    BY <3>1, <3>2, SegmentIs
  <3>4. /\ IsMember(x, <<c, n>>) /\ SpanOf(x, <<c, n>>) = s.to - s.from
        /\ s.from \in Nat /\ s.to \in Nat /\ s.from < s.to
    BY <3>3, MemberFound
  <3>5. PICK a \in Nat : a = s.from
    BY <3>4
  <3>6. PICK b \in Nat : b = s.to
    BY <3>4
  <3>7. 0 < b - a /\ 0 <= 0 /\ b - a <= b - a
    BY <3>4, <3>5, <3>6
  <3>8. PICK part : part = lengths[s]
    OBVIOUS
  <3>9. /\ part.member = <<c, n>> /\ part.from = 0 /\ part.to = b - a
        /\ SpanOf(x, part.member) = b - a
    BY <2>3, <2>4, <3>2, <3>3, <3>4, <3>5, <3>6, <3>8
  <3> QED BY <3>4, <3>7, <3>8, <3>9 DEF Inside
 <2>5. ASSUME NEW s \in Untensioned(d), NEW t \in Untensioned(d), lengths[s].id = lengths[t].id
       PROVE  s = t
  <3>1. <<<<s.component, s.index>>, 0>> = <<<<t.component, t.index>>, 0>>
    BY <2>3, <2>5
  <3>2. s.component = t.component /\ s.index = t.index
    BY <3>1
  <3>3. s \in Segments(d) /\ t \in Segments(d)
    BY DEF Untensioned
  <3> QED BY <3>2, <3>3, SegmentIs
 <2>6. Distinct(Ids(lengths))
   BY <2>2, <2>5 DEF Distinct, Ids
 <2> QED BY <2>2, <2>4, <2>6
<1>2. CASE k.lengths # <<>>
 <2>1. lengths = Split(d, k.lengths)
   BY <1>2 DEF StabilityLengths
 <2>2. OnMembers(d, k.lengths)
   BY LengthsFit
 <2>3. Distinct(Ids(lengths))
   BY <2>1, <2>2, PartsDiffer
 <2>4. \A i \in DOMAIN lengths : Inside(x, lengths[i])
   BY <2>1, <2>2, PartInside
 <2>5. DOMAIN lengths # {}
  <3>1. PICK length \in Range(k.lengths) : ~(length.from >= EndOf(d, length))
    BY <1>2 DEF NothingToVerify
  <3>2. PICK i \in DOMAIN k.lengths : length = k.lengths[i]
    BY DEF Range
  <3>3. PICK c : c = length.component
    OBVIOUS
  <3>4. PICK y : y = length.from
    OBVIOUS
  <3>5. /\ c \in Beams /\ HasSegments(d, c) /\ y \in Nat /\ EndOf(d, length) \in Nat
        /\ EndOf(d, length) <= LengthOf(d, c)
    BY <2>2, <3>2, <3>3, <3>4, LengthsFit DEF OnMembers
  <3>6. y < EndOf(d, length)
    BY <3>1, <3>4, <3>5
  <3>7. y < LengthOf(d, c)
   <4>1. LengthOf(d, c) \in Int
     BY <3>5, SegmentsTile
   <4> QED BY <3>5, <3>6, <4>1
  <3>8. PICK n \in DOMAIN SegmentsOf(d, c) :
            SegmentsOf(d, c)[n].from <= y /\ y < SegmentsOf(d, c)[n].to
    BY <3>5, <3>7, SegmentsTile
  <3>9. PICK t : t = SegmentsOf(d, c)[n]
    OBVIOUS
  <3>10. t.from \in Nat /\ t.to \in Nat /\ t.from < t.to
    BY <3>5, <3>9, MemberFound
  <3>11. LowEnd(length, t) <= y /\ y < HighEnd(d, length, t)
         /\ LowEnd(length, t) \in Nat /\ HighEnd(d, length, t) \in Nat
    BY <3>4, <3>5, <3>6, <3>8, <3>9, <3>10, PartLies
  <3>12. LowEnd(length, t) < HighEnd(d, length, t)
    BY <3>5, <3>11
  <3>13. n \in Overlapped(d, length)
    BY <3>3, <3>8, <3>9, <3>12 DEF Overlapped
  <3>14. <<i, n>> \in DOMAIN Split(d, k.lengths)
    BY <3>2, <3>3, <3>9, <3>13, PartIs
  <3> QED BY <2>1, <3>14
 <2> QED BY <2>3, <2>4, <2>5
<1> QED BY <1>1, <1>2

\* The members whose sections are verified are segments, each once.
LEMMA CheckedHeld ==
    ASSUME NEW d, NEW k \in Saved, Fits(d, k), Distinct(k.checked),
           NEW x, x.members = Segments(d), NEW checked, checked = CheckedMembers(d, k)
    PROVE  Distinct(checked) /\ \A i \in DOMAIN checked : IsMember(x, checked[i])
<1>1. CASE k.checked = <<>>
 <2>1. checked = [s \in Untensioned(d) |-> <<s.component, s.index>>]
   BY <1>1 DEF CheckedMembers
 <2>2. \A s \in Untensioned(d) : s \in Segments(d)
   BY DEF Untensioned
 <2>3. \A s \in Untensioned(d) : IsMember(x, checked[s])
   BY <2>1, <2>2 DEF IsMember
 <2>4. ASSUME NEW s \in Untensioned(d), NEW t \in Untensioned(d), checked[s] = checked[t]
       PROVE  s = t
  <3>1. s.component = t.component /\ s.index = t.index
    BY <2>1, <2>4
  <3> QED BY <2>2, <3>1, SegmentIs
 <2>5. Distinct(checked)
   BY <2>1, <2>4 DEF Distinct
 <2> QED BY <2>1, <2>3, <2>5
<1>2. CASE k.checked # <<>>
 <2>1. PICK D : D = UNION {{i} \X (DOMAIN SegmentsOf(d, k.checked[i])) : i \in DOMAIN k.checked}
   OBVIOUS
 <2>2. checked = [p \in D |-> <<k.checked[p[1]], p[2]>>]
   BY <1>2, <2>1 DEF CheckedMembers
 <2>3. ASSUME NEW p \in D
       PROVE  /\ p = <<p[1], p[2]>> /\ p[1] \in DOMAIN k.checked
              /\ p[2] \in DOMAIN SegmentsOf(d, k.checked[p[1]])
  <3>1. PICK i \in DOMAIN k.checked : p \in {i} \X (DOMAIN SegmentsOf(d, k.checked[i]))
    BY <2>1, <2>3
  <3>2. PICK R : R = DOMAIN SegmentsOf(d, k.checked[i])
    OBVIOUS
  <3>3. p = <<p[1], p[2]>> /\ p[1] = i /\ p[2] \in R
    BY <3>1, <3>2
  <3> QED BY <3>2, <3>3
 <2>4. ASSUME NEW p \in D PROVE IsMember(x, checked[p])
  <3>1. PICK c : c = k.checked[p[1]]
    OBVIOUS
  <3>2. PICK n : n = p[2]
    OBVIOUS
  <3>3. c \in Range(k.checked)
    BY <2>3, <2>4, <3>1 DEF Range
  <3>4. c \in Beams
    BY <3>3 DEF Fits, HasSegments
  <3>5. n \in DOMAIN SegmentsOf(d, c)
    BY <2>3, <2>4, <3>1, <3>2
  <3>6. IsMember(x, <<c, n>>)
    BY <3>4, <3>5, MemberFound
  <3> QED BY <2>2, <2>4, <3>1, <3>2, <3>6
 <2>5. ASSUME NEW p \in D, NEW q \in D, checked[p] = checked[q] PROVE p = q
  <3>1. <<k.checked[p[1]], p[2]>> = <<k.checked[q[1]], q[2]>>
    BY <2>2, <2>5
  <3>2. PICK a, b : a = k.checked[p[1]] /\ b = k.checked[q[1]]
    OBVIOUS
  <3>3. <<a, p[2]>> = <<b, q[2]>>
    BY <3>1, <3>2
  <3>4. a = b /\ p[2] = q[2]
    BY ONLY <3>3
  <3>5. p[1] \in DOMAIN k.checked /\ q[1] \in DOMAIN k.checked
    BY <2>3, <2>5
  <3>6. p[1] = q[1]
    BY <3>2, <3>4, <3>5 DEF Distinct
  <3>7. p = <<p[1], p[2]>> /\ q = <<q[1], q[2]>>
    BY <2>3, <2>5
  <3> QED BY <3>4, <3>6, <3>7
 <2>6. Distinct(checked) /\ DOMAIN checked = D
   BY <2>2, <2>5 DEF Distinct
 <2> QED BY <2>4, <2>6
<1> QED BY <1>1, <1>2

\* What the contract asks of a capture holds of what a request builds, but for what
\* nobody checked before.
LEMMA CaptureHeld ==
    ASSUME NEW d, NEW k \in Saved, Fits(d, k), ConnectionsDiffer(d), ~NothingToVerify(d, k),
           \A j \in Joints(d) : Connects(j) => Sides(j)[1] # Sides(j)[2],
           Distinct(Ids(k.points)), Distinct(Ids(k.lines)), Distinct(k.checked),
           Distinct(Ids(k.lengths))
    PROVE  ContractAccepts(d, Derived(d, k))
<1>1. PICK lengths : lengths = StabilityLengths(d, k)
  OBVIOUS
<1>2. PICK candidates : candidates = Candidates(d)
  OBVIOUS
<1>3. PICK x : x = Derived(d, k)
  OBVIOUS
<1>4. /\ x.connections = Connections(d) /\ x.members = Segments(d)
      /\ x.points = [i \in DOMAIN k.points |-> PointOnSegment(d, k.points[i])]
      /\ x.lines = Split(d, k.lines)
      /\ x.checked = CheckedMembers(d, k)
      /\ x.lengths = [i \in DOMAIN lengths |-> WithRestraints(lengths[i], candidates)]
      /\ x.candidates = {c \in candidates : \E i \in DOMAIN lengths : lengths[i].member = c.member}
  BY <1>1, <1>2, <1>3 DEF Derived, CaptureWith
<1>5. TopologyIsSound(d, x)
  BY <1>4, TopologyHeld
<1>6. ASSUME NEW i \in DOMAIN k.points
      PROVE  /\ x.points[i].id = k.points[i].id
             /\ IsMember(x, x.points[i].member)
             /\ x.points[i].at \in 0 .. SpanOf(x, x.points[i].member)
 <2>1. PICK load : load = k.points[i]
   OBVIOUS
 <2>2. PICK point : point = PointOnSegment(d, load)
   OBVIOUS
 <2>3. load \in Range(k.points)
   BY <2>1 DEF Range
 <2>4. /\ point.id = load.id
       /\ IsMember(x, point.member) /\ point.at \in 0 .. SpanOf(x, point.member)
   BY <1>4, <2>2, <2>3, PointPlaced
 <2>5. x.points[i] = point
   BY <1>4, <2>1, <2>2
 <2> QED BY <2>1, <2>4, <2>5
<1>7. DOMAIN x.points = DOMAIN k.points
  BY <1>4
<1>8. OnMembers(d, k.lines)
  BY LengthsFit
<1>9. \A p \in DOMAIN x.lines : Inside(x, x.lines[p])
  BY <1>4, <1>8, PartInside
<1>10. ActionsAreInside(x)
  BY <1>6, <1>7, <1>9 DEF ActionsAreInside
<1>11. Distinct(x.checked) /\ \A i \in DOMAIN x.checked : IsMember(x, x.checked[i])
  BY <1>4, CheckedHeld
<1>12. /\ DOMAIN lengths # {} /\ Distinct(Ids(lengths))
       /\ \A i \in DOMAIN lengths : Inside(x, lengths[i])
  BY <1>1, <1>4, LengthsHeld
<1>13. ASSUME NEW i \in DOMAIN lengths
       PROVE  /\ x.lengths[i].id = lengths[i].id /\ Inside(x, x.lengths[i])
              /\ x.lengths[i].startsAt \cup x.lengths[i].endsAt
                    \subseteq {c \in x.candidates : c.member = x.lengths[i].member}
 <2>1. PICK l : l = lengths[i]
   OBVIOUS
 <2>2. PICK At1 : At1 = {n \in candidates : n.member = l.member /\ n.distance = l.from}
   OBVIOUS
 <2>3. PICK At2 : At2 = {n \in candidates : n.member = l.member /\ n.distance = l.to}
   OBVIOUS
 <2>4. x.lengths[i] = [id |-> l.id, member |-> l.member, from |-> l.from, to |-> l.to,
                       startsAt |-> At1, endsAt |-> At2]
   BY <1>4, <2>1, <2>2, <2>3 DEF WithRestraints
 <2>5. PICK m : m = x.lengths[i]
   OBVIOUS
 <2>6. /\ m.id = l.id /\ m.member = l.member /\ m.from = l.from /\ m.to = l.to
       /\ m.startsAt = At1 /\ m.endsAt = At2
   BY <2>4, <2>5
 <2>7. Inside(x, m)
   BY <1>12, <2>1, <2>6 DEF Inside
 <2>8. ASSUME NEW n \in At1 \cup At2 PROVE n \in x.candidates /\ n.member = m.member
  <3>1. n \in candidates /\ n.member = l.member
    BY <2>2, <2>3, <2>8
  <3> QED BY <1>4, <2>1, <2>6, <3>1
 <2> QED BY <2>1, <2>5, <2>6, <2>7, <2>8
<1>14. DOMAIN x.lengths = DOMAIN lengths
  BY <1>4
<1>15. ASSUME NEW n \in x.candidates
       PROVE  /\ IsMember(x, n.member)
              /\ n.connection \in {c.id : c \in x.connections}
              /\ n.distance <= SpanOf(x, n.member)
 <2>1. n \in Candidates(d)
   BY <1>2, <1>4, <1>15
 <2>2. PICK j \in Joints(d), s \in Segments(d) :
           /\ Connects(j) /\ n.connection = j.id /\ n.member = <<s.component, s.index>>
           /\ n.distance \in {0, s.to - s.from}
   BY <2>1, CandidateIs
 <2>3. PICK c \in Beams : c = s.component
   BY SegmentIs
 <2>4. PICK i \in DOMAIN SegmentsOf(d, c) : i = s.index /\ s = SegmentsOf(d, c)[i]
   BY <2>3, SegmentIs
 <2>5. /\ IsMember(x, <<c, i>>) /\ SpanOf(x, <<c, i>>) = s.to - s.from
       /\ s.from \in Nat /\ s.to \in Nat /\ s.from < s.to
   BY <1>4, <2>3, <2>4, MemberFound
 <2>6. n.member = <<c, i>>
   BY <2>2, <2>3, <2>4
 <2>7. n.distance <= SpanOf(x, n.member)
   BY <2>2, <2>5, <2>6
 <2>8. n.connection \in {e.id : e \in x.connections}
  <3>1. PICK e : e = [id |-> j.id, source |-> Sides(j)[1], target |-> Sides(j)[2]]
    OBVIOUS
  <3>2. e \in Connections(d) /\ e.id = j.id
    BY <2>2, <3>1 DEF Connections
  <3> QED BY <1>4, <2>2, <3>2
 <2> QED BY <2>5, <2>6, <2>7, <2>8
<1>16. ChecksAreSound(x)
  BY <1>11, <1>12, <1>13, <1>14, <1>15 DEF ChecksAreSound
<1>17. Distinct(Ids(x.points)) /\ Distinct(Ids(x.lengths))
 <2>1. Ids(x.points) = Ids(k.points)
   BY <1>6, <1>7, Zenon DEF Ids
 <2>2. Ids(x.lengths) = Ids(lengths)
   BY <1>13, <1>14, Zenon DEF Ids
 <2> QED BY <1>12, <2>1, <2>2, Zenon
<1>18. Distinct(Ids(x.lines))
  BY <1>4, <1>8, PartsDiffer
<1>19. IdsAreDistinct(x)
  BY <1>11, <1>17, <1>18 DEF IdsAreDistinct
<1> QED BY <1>3, <1>5, <1>10, <1>16, <1>19 DEF ContractAccepts

----
(* The specification.                                                      *)

\* The capture is what the request makes of the design and the settings there are.
ProjectionInv ==
    /\ layout \in Compiled /\ settings \in Saved
    /\ \/ capture = NoCapture
       \/ capture = [outcome |-> "refused"]
       \/ /\ Analysable(layout) /\ Fits(layout, settings)
          /\ capture = Judged(layout, Derived(layout, settings))

LEMMA ProjectionHolds == ProjectionSpec => []ProjectionInv
<1>1. ProjectionInit => ProjectionInv
  BY DEF ProjectionInit, ProjectionInv
<1>2. ProjectionInv /\ [ProjectionNext]_projectionVars => ProjectionInv'
 <2> SUFFICES ASSUME ProjectionInv, [ProjectionNext]_projectionVars PROVE ProjectionInv'
   OBVIOUS
 <2>1. CASE Recompile
   BY <2>1 DEF ProjectionInv, Recompile
 <2>2. CASE SaveSettings
   BY <2>2 DEF ProjectionInv, SaveSettings
 <2>3. CASE Unanalysable
   BY <2>3 DEF ProjectionInv, Unanalysable
 <2>4. CASE Capture
  <3>1. layout' = layout /\ settings' = settings
    BY <2>4 DEF Capture
  <3>2. /\ Analysable(layout) /\ Fits(layout, settings)
        /\ capture' = Judged(layout, Derived(layout, settings))
    BY <2>4 DEF Capture
  <3> QED BY <3>1, <3>2 DEF ProjectionInv
 <2>5. CASE UNCHANGED projectionVars
   BY <2>5 DEF ProjectionInv, projectionVars
 <2> QED BY <2>1, <2>2, <2>3, <2>4, <2>5 DEF ProjectionNext
<1> QED BY <1>1, <1>2, PTL DEF ProjectionSpec

LEMMA JudgedRight ==
    ASSUME ProjectionInv
    PROVE  CaptureIsSound
<1>1. PICK d : d = layout
  OBVIOUS
<1>2. PICK k : k = settings
  OBVIOUS
<1>3. PICK x : x = Derived(d, k)
  OBVIOUS
<1>4. d \in Compiled /\ k \in Saved
  BY <1>1, <1>2 DEF ProjectionInv
<1>5. CASE capture = NoCapture \/ capture = [outcome |-> "refused"]
 <2>1. capture.outcome # "invalid" /\ capture.outcome # "accepted"
   BY <1>5 DEF NoCapture
 <2> QED BY <2>1 DEF CaptureIsSound, CaptureIsValid, LoadIsCarried, NodesAreTied
<1>6. CASE Analysable(d) /\ Fits(d, k) /\ capture = Judged(d, x)
 <2>1. CASE ContractAccepts(d, x)
  <3>1. capture.outcome = "accepted" /\ capture.derived = x
    BY <1>6, <2>1 DEF Judged
  <3>2. x.lines = Split(d, k.lines) /\ x.members = Segments(d)
    BY <1>3 DEF Derived, CaptureWith
  <3>3. CaptureIsValid
    BY <3>1 DEF CaptureIsValid
  <3>4. ConnectionsDiffer(d)
    BY <2>1 DEF ContractAccepts, TopologyIsSound
  <3>5. NodesAreTied
    BY <1>1, <1>4, <1>6, <3>1, <3>2, <3>4, NodesTied
  <3>6. LoadIsCarried
   <4>1. ASSUME Distinct(Ids(k.lines)), NEW load \in Range(k.lines),
                NEW y \in 0 .. Length[load.component] - 1
         PROVE  Cardinality(Loading(load, y))
                   = IF load.from <= y /\ y < EndOf(d, load) THEN 1 ELSE 0
    <5>1. load.component \in Beams
      BY <1>4, <1>6, LinesFitted
    <5>2. y \in Nat
      BY <5>1, ProjectionAssumption
    <5> QED BY <1>4, <1>6, <3>1, <3>2, <4>1, <5>2, LoadCarried
   <4> QED BY <1>1, <1>2, <4>1 DEF LoadIsCarried
  <3> QED BY <3>3, <3>5, <3>6 DEF CaptureIsSound
 <2>2. CASE ~ContractAccepts(d, x)
  <3>1. capture.outcome = "invalid"
    BY <1>6, <2>2 DEF Judged
  <3>2. CaptureIsValid
   <4> SUFFICES ASSUME ~CaptureIsValid PROVE FALSE
     OBVIOUS
   <4>1. /\ ConnectionsDiffer(d)
         /\ \A j \in Joints(d) : Connects(j) => Sides(j)[1] # Sides(j)[2]
         /\ Distinct(Ids(k.points)) /\ Distinct(Ids(k.lines)) /\ Distinct(k.checked)
         /\ Distinct(Ids(k.lengths)) /\ ~NothingToVerify(d, k)
     BY <1>1, <1>2, <3>1 DEF CaptureIsValid
   <4> QED BY <1>3, <1>4, <1>6, <2>2, <4>1, CaptureHeld
  <3> QED BY <3>1, <3>2 DEF CaptureIsSound, LoadIsCarried, NodesAreTied
 <2> QED BY <2>1, <2>2
<1> QED BY <1>1, <1>2, <1>3, <1>5, <1>6 DEF ProjectionInv

\* For any members, designs and settings, a capture keeps the loads and the joints
\* of its design, and is refused by its own contract only for what neither the
\* compile nor a save of the settings checks.
THEOREM ProjectionCorrect == ProjectionSpec => []CaptureIsSound
BY ProjectionHolds, JudgedRight, PTL
=============================================================================
