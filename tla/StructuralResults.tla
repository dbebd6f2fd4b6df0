-------------------------- MODULE StructuralResults --------------------------
(***************************************************************************)
(* The saved results of the Structural workbench, for one project and the  *)
(* governing combination: the analysis cache, the configuration revisions  *)
(* and the report exports.  All three are rows of PostgreSQL that API      *)
(* processes write at the same time, each statement on its own snapshot.   *)
(*                                                                         *)
(* A result is found by its key, which stands for everything it was        *)
(* calculated from: here the compiled design and the configuration.  A     *)
(* request that finds none takes the key's advisory lock, looks again and  *)
(* calculates.  A row the code can no longer read is deleted on the way,   *)
(* and the deletion keeps the row locked until the transaction ends.       *)
(***************************************************************************)
EXTENDS Naturals, Sequences

CONSTANTS
    Analyses,        \* requests for the workbench or the analysis
    Exports,         \* requests for a report
    Saves,           \* requests to save a configuration
    Servers,         \* API processes
    Designs,         \* digests of compiled designs
    Configurations,  \* digests of configurations
    MaxCompiles,     \* bound: compiles that change the design
    Nobody           \* holds a lock nobody holds

ASSUME ResultsAssumption ==
    /\ MaxCompiles \in Nat
    /\ Nobody \notin Analyses \cup Exports
    /\ Analyses \cap Exports = {}

VARIABLES
    design,     \* digest of the latest structural projection
    compiles,   \* compiles so far
    revisions,  \* configuration revisions, in order
    save,       \* of each save: its state, its digest, the revisions it saw
    row,        \* of each key: the id of its row (0: none) and whether it can be read
    rowLock,    \* who has the row of a key locked
    advisory,   \* who has the advisory lock of a key
    asked,      \* of each analysis and export: its state and its key
    reviewed,   \* the key an export names
    seen,       \* the id of the row an export selected
    reports,    \* ids of rows that have a report
    server,     \* the process an analysis runs in
    progress    \* of each process: the progress it shows

resultsVars == <<design, compiles, revisions, save, row, rowLock, advisory, asked, reviewed,
                 seen, reports, server, progress>>

Keys == Designs \X (Configurations \cup {"none"})
Transactions == Analyses \cup Exports

AnalysisStates == {"new", "loading", "looking", "deleting", "waiting", "locked", "solving",
                   "storing", "hit", "calculated", "failed", "collided"}
ExportStates == {"new", "loading", "comparing", "selecting", "holding", "writing", "stale",
                 "missing", "blocked", "collided", "created", "reused"}
Idle == [state |-> "idle", key |-> "none"]

\* Digest of the latest revision, of none.
LatestOf(n) == IF n = 0 THEN "none" ELSE revisions[n]
Latest == LatestOf(Len(revisions))

ResultsInit ==
    /\ design \in Designs /\ compiles = 0
    /\ revisions = <<>>
    /\ save = [s \in Saves |-> [state |-> "new", digest |-> "none", saw |-> 0]]
    /\ row \in [Keys -> {[id |-> 0, valid |-> FALSE], [id |-> 1, valid |-> FALSE]}]
    /\ rowLock = [k \in Keys |-> Nobody]
    /\ advisory = [k \in Keys |-> Nobody]
    /\ asked = [r \in Transactions |-> [state |-> "new", key |-> <<"none", "none">>]]
    /\ reviewed = [e \in Exports |-> <<"none", "none">>]
    /\ seen = [e \in Exports |-> 0]
    /\ reports = {}
    /\ server \in [Analyses -> Servers]
    /\ progress = [p \in Servers |-> Idle]

----
(* Inputs: the compiled design, and the configuration.                     *)

\* A compile result brings another structural projection.
NewProjection ==
    /\ compiles < MaxCompiles
    /\ compiles' = compiles + 1
    /\ design' \in Designs \ {design}
    /\ UNCHANGED <<revisions, save, row, rowLock, advisory, asked, reviewed, seen, reports,
                   server, progress>>

\* put_active_configuration, up to its reading of the latest revision: saving
\* what is the latest already changes nothing.
ReadLatest(s) ==
    /\ save[s].state = "new"
    /\ \E digest \in Configurations :
          save' = [save EXCEPT ![s] =
              [state |-> IF Latest = digest THEN "unchanged" ELSE "adding",
               digest |-> digest, saw |-> Len(revisions)]]
    /\ UNCHANGED <<design, compiles, revisions, row, rowLock, advisory, asked, reviewed, seen,
                   reports, server, progress>>

\* The revision after the one it saw is added, or is there already: then the
\* unique constraint fails the request.
AddRevision(s) ==
    /\ save[s].state = "adding"
    /\ IF Len(revisions) = save[s].saw
       THEN /\ save' = [save EXCEPT ![s].state = "saved"]
            /\ revisions' = Append(revisions, save[s].digest)
       ELSE /\ save' = [save EXCEPT ![s].state = "collided"]
            /\ UNCHANGED revisions
    /\ UNCHANGED <<design, compiles, row, rowLock, advisory, asked, reviewed, seen, reports,
                   server, progress>>

----
(* _load_active_capture_context reads the design and then the              *)
(* configuration.                                                          *)

Goes(r, state) == asked' = [asked EXCEPT ![r].state = state]

ReadDesign(r) ==
    /\ asked[r].state = "new"
    /\ IF r \in Exports
       THEN \E a \in Analyses :   \* the user has seen an analysis
               /\ asked[a].state \in {"hit", "calculated"}
               /\ reviewed' = [reviewed EXCEPT ![r] = asked[a].key]
       ELSE UNCHANGED reviewed
    /\ asked' = [asked EXCEPT ![r] = [state |-> "loading", key |-> <<design, "none">>]]
    /\ UNCHANGED <<design, compiles, revisions, save, row, rowLock, advisory, seen, reports,
                   server, progress>>

ReadConfiguration(r) ==
    /\ asked[r].state = "loading"
    /\ asked' = [asked EXCEPT ![r] =
           [state |-> IF r \in Exports THEN "comparing" ELSE "looking",
            key |-> <<@.key[1], Latest>>]]
    /\ UNCHANGED <<design, compiles, revisions, save, row, rowLock, advisory, reviewed, seen,
                   reports, server, progress>>

----
(* _solve_cached_structural_analysis.                                      *)

\* get_cached_structural_analysis, before the lock is asked for.
Look(a) ==
    LET found == row[asked[a].key]
    IN  /\ asked[a].state = "looking"
        /\ Goes(a, IF found.id = 0 THEN "waiting" ELSE IF found.valid THEN "hit" ELSE "deleting")
        /\ UNCHANGED <<design, compiles, revisions, save, row, rowLock, advisory, reviewed, seen,
                       reports, server, progress>>

\* The row that cannot be read is deleted in this transaction, which waits
\* while another one has it locked; by then it may have been replaced.
DeleteInvalid(a) ==
    LET k == asked[a].key
    IN  /\ asked[a].state = "deleting" /\ rowLock[k] = Nobody
        /\ Goes(a, "waiting")
        /\ rowLock' = IF row[k].valid THEN rowLock ELSE [rowLock EXCEPT ![k] = a]
        /\ UNCHANGED <<design, compiles, revisions, save, row, advisory, reviewed, seen, reports,
                       server, progress>>

\* acquire_structural_analysis_lock
Acquire(a) ==
    LET k == asked[a].key
    IN  /\ asked[a].state = "waiting" /\ advisory[k] = Nobody
        /\ Goes(a, "locked")
        /\ advisory' = [advisory EXCEPT ![k] = a]
        /\ UNCHANGED <<design, compiles, revisions, save, row, rowLock, reviewed, seen, reports,
                       server, progress>>

\* The transaction of a ends: its locks are free again.
Released(a, locks) == [k \in Keys |-> IF locks[k] = a THEN Nobody ELSE locks[k]]

\* _begin_structural_progress: whatever the process showed is replaced.
Begun(a) == [progress EXCEPT ![server[a]] = [state |-> "running", key |-> asked[a].key]]

MutLookAgain(a) ==
    /\ asked[a].state = "locked"
    /\ Goes(a, "solving")
    /\ progress' = Begun(a)
    /\ UNCHANGED <<design, compiles, revisions, save, row, rowLock, advisory, reviewed, seen,
                   reports, server>>

\* The second look, under the lock: what is there is used, else the solve begins.
LookAgain(a) ==
    /\ asked[a].state = "locked"
    /\ IF row[asked[a].key].valid
       THEN /\ Goes(a, "hit")
            /\ advisory' = Released(a, advisory) /\ rowLock' = Released(a, rowLock)
            /\ UNCHANGED progress
       ELSE /\ Goes(a, "solving")
            /\ progress' = Begun(a)
            /\ UNCHANGED <<advisory, rowLock>>
    /\ UNCHANGED <<design, compiles, revisions, save, row, reviewed, seen, reports, server>>

\* solve_project_structural returned.
Solved(a) ==
    /\ asked[a].state = "solving"
    /\ Goes(a, "storing")
    /\ UNCHANGED <<design, compiles, revisions, save, row, rowLock, advisory, reviewed, seen,
                   reports, server, progress>>

\* _finish_structural_progress, whatever the process shows by then.
Finished(a, state) ==
    IF progress[server[a]] = Idle THEN progress
    ELSE [progress EXCEPT ![server[a]].state = state]

\* The row is added and the transaction commits, with its deletion of the row
\* that was there (and of that row's report).  Ids grow.
Store(a) ==
    LET k == asked[a].key
    IN  /\ asked[a].state = "storing"
        /\ IF row[k].valid
           THEN /\ Goes(a, "collided")
                /\ progress' = Finished(a, "failed")
                /\ UNCHANGED <<row, reports>>
           ELSE /\ Goes(a, "calculated")
                /\ progress' = Finished(a, "complete")
                /\ row' = [row EXCEPT ![k] = [id |-> @.id + 1, valid |-> TRUE]]
                /\ reports' = reports \ {<<k, row[k].id>>}
        /\ advisory' = Released(a, advisory) /\ rowLock' = Released(a, rowLock)
        /\ UNCHANGED <<design, compiles, revisions, save, reviewed, seen, server>>

MutSolveFails(a) ==
    /\ asked[a].state \in {"solving", "storing"}
    /\ Goes(a, "failed")
    /\ progress' = Finished(a, "failed")
    /\ rowLock' = Released(a, rowLock)
    /\ UNCHANGED <<design, compiles, revisions, save, row, advisory, reviewed, seen, reports,
                   server>>

\* The solve or the write raises: everything is rolled back.
SolveFails(a) ==
    /\ asked[a].state \in {"solving", "storing"}
    /\ Goes(a, "failed")
    /\ progress' = Finished(a, "failed")
    /\ advisory' = Released(a, advisory) /\ rowLock' = Released(a, rowLock)
    /\ UNCHANGED <<design, compiles, revisions, save, row, reviewed, seen, reports, server>>

\* Another scope's progress needs the place of this one's.
EvictProgress(p) ==
    /\ progress' = [progress EXCEPT ![p] = Idle]
    /\ UNCHANGED <<design, compiles, revisions, save, row, rowLock, advisory, asked, reviewed,
                   seen, reports, server>>

----
(* _active_report_export.                                                  *)

MutCompare(e) ==
    LET k == asked[e].key
    IN  /\ asked[e].state = "comparing"
        /\ Goes(e, IF row[k].id = 0 THEN "missing" ELSE "selecting")
        /\ seen' = [seen EXCEPT ![e] = row[k].id]
        /\ UNCHANGED <<design, compiles, revisions, save, row, rowLock, advisory, reviewed,
                       reports, server, progress>>

\* The key the user reviewed must be the current one; then the row is
\* selected for update.
Compare(e) ==
    LET k == asked[e].key
    IN  /\ asked[e].state = "comparing"
        /\ Goes(e, IF reviewed[e] # k THEN "stale"
                   ELSE IF row[k].id = 0 THEN "missing" ELSE "selecting")
        /\ seen' = [seen EXCEPT ![e] = row[k].id]
        /\ UNCHANGED <<design, compiles, revisions, save, row, rowLock, advisory, reviewed,
                       reports, server, progress>>

\* The lock is there, or the row has gone with the transaction that had it.
LockRow(e) ==
    LET k == asked[e].key
    IN  /\ asked[e].state = "selecting" /\ rowLock[k] = Nobody
        /\ IF row[k].id = seen[e]
           THEN Goes(e, "holding") /\ rowLock' = [rowLock EXCEPT ![k] = e]
           ELSE Goes(e, "missing") /\ UNCHANGED rowLock
        /\ UNCHANGED <<design, compiles, revisions, save, row, advisory, reviewed, seen, reports,
                       server, progress>>

Ended(e, state) == Goes(e, state) /\ rowLock' = Released(e, rowLock)

\* A report of the row is reused; one that can be read but has open checks, or
\* cannot be read, ends the request; else the report is built.
LookForReport(e) ==
    /\ asked[e].state = "holding"
    /\ \/ <<asked[e].key, seen[e]>> \in reports /\ Ended(e, "reused")
       \/ <<asked[e].key, seen[e]>> \notin reports /\ Ended(e, "blocked")
       \/ /\ <<asked[e].key, seen[e]>> \notin reports /\ row[asked[e].key].valid
          /\ Goes(e, "writing") /\ UNCHANGED rowLock
    /\ UNCHANGED <<design, compiles, revisions, save, row, advisory, reviewed, seen, reports,
                   server, progress>>

WriteReport(e) ==
    LET report == <<asked[e].key, seen[e]>>
    IN  /\ asked[e].state = "writing"
        /\ Ended(e, IF report \in reports THEN "collided" ELSE "created")
        /\ reports' = reports \cup {report}
        /\ UNCHANGED <<design, compiles, revisions, save, row, advisory, reviewed, seen, server,
                       progress>>

AnalysisStep(a) ==
    \/ ReadDesign(a) \/ ReadConfiguration(a) \/ Look(a) \/ DeleteInvalid(a) \/ Acquire(a)
    \/ LookAgain(a) \/ Solved(a) \/ Store(a) \/ SolveFails(a)

ExportStep(e) ==
    \/ ReadDesign(e) \/ ReadConfiguration(e) \/ Compare(e) \/ LockRow(e)
    \/ LookForReport(e) \/ WriteReport(e)

ResultsNext ==
    \/ NewProjection
    \/ \E s \in Saves : ReadLatest(s) \/ AddRevision(s)
    \/ \E a \in Analyses : AnalysisStep(a)
    \/ \E e \in Exports : ExportStep(e)
    \/ \E p \in Servers : EvictProgress(p)

ResultsSpec == ResultsInit /\ [][ResultsNext]_resultsVars

\* While a request that has begun can go on, one does; a solve ends, one way or
\* the other.
ResultsFairness ==
    WF_resultsVars(\/ \E a \in Analyses : asked[a].state # "new" /\ AnalysisStep(a)
                   \/ \E e \in Exports : asked[e].state # "new" /\ ExportStep(e))

----
(* Properties.                                                             *)

\* Every part of the state has its type.
ResultsTypeOK ==
    /\ design \in Designs /\ compiles \in 0..MaxCompiles
    /\ revisions \in Seq(Configurations)
    /\ save \in [Saves -> [state : {"new", "unchanged", "adding", "saved", "collided"},
                           digest : Configurations \cup {"none"}, saw : Nat]]
    /\ row \in [Keys -> [id : Nat, valid : BOOLEAN]]
    /\ rowLock \in [Keys -> Transactions \cup {Nobody}]
    /\ advisory \in [Keys -> Analyses \cup {Nobody}]
    /\ asked \in [Transactions -> [state : AnalysisStates \cup ExportStates,
                                   key : Keys \cup {<<"none", "none">>}]]
    /\ reviewed \in [Exports -> Keys \cup {<<"none", "none">>}]
    /\ seen \in [Exports -> Nat]
    /\ reports \subseteq Keys \X Nat
    /\ server \in [Analyses -> Servers]
    /\ progress \in [Servers -> {Idle} \cup [state : {"running", "complete", "failed"}, key : Keys]]

Solving(k) == {a \in Analyses : asked[a].key = k /\ asked[a].state \in {"solving", "storing"}}

\* Concurrent requests do not calculate one thing twice: a key has at most one
\* solve at a time, and none while its result can be read, also when the first
\* solve failed or the row had to be replaced.  No request, of a solve or a report,
\* fails on a row that another wrote first: what one finds missing it writes
\* before anybody else can.
NoDuplicateSolve ==
    /\ \A r \in Transactions : asked[r].state # "collided"
    /\ \A k \in Keys :
           /\ \A a, b \in Solving(k) : a = b
           /\ row[k].valid => Solving(k) = {}

\* An export hands out the report of a result that is still there, can be
\* read and has the key its user reviewed; that report is the only one.
ReportIsOfReviewed ==
    \A e \in Exports :
        asked[e].state \in {"created", "reused"} =>
            /\ asked[e].key = reviewed[e] /\ row[reviewed[e]] = [id |-> seen[e], valid |-> TRUE]
            /\ <<reviewed[e], seen[e]>> \in reports

\* Every request that begins is answered in the end: no two of them wait for
\* each other, with the advisory lock and the row locks of deletions and reports.
RequestsAreAnswered ==
    <>[](\A r \in Transactions :
            asked[r].state \in {"new", "hit", "calculated", "failed", "collided", "stale",
                               "missing", "blocked", "created", "reused"})
=============================================================================
