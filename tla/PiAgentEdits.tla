----------------------------- MODULE PiAgentEdits -----------------------------
(***************************************************************************)
(* AI edits of one project's source.  The API commits a job with the       *)
(* manifest of file versions it dispatches, a Pi agent worker edits a copy *)
(* and publishes a result, and the API's result consumer bills the         *)
(* execution, stages the edit on the files and finishes the job.           *)
(*                                                                         *)
(* Rows are protected by SELECT ... FOR UPDATE in some places and by       *)
(* nothing in others.  A transaction that holds a row lock over several    *)
(* steps is a task here (JobLocked, FileLocked and ProjectLocked say who   *)
(* holds what); every write of a row waits for its lock, reads never wait. *)
(***************************************************************************)
EXTENDS Naturals, FiniteSets

CONSTANTS
    Jobs,        \* AI edit jobs of the project
    Replicas,    \* API processes: one event loop and one consumer each
    Pollers,     \* threads that reconcile stale jobs: the status and history
                 \* endpoints
    MaxDeliver,  \* pi_agent_max_deliver: deliveries of one stored message
    MaxCopies,   \* bound: times one job's request is stored
    MaxVersion   \* bound: user saves stop at this file version

ASSUME ConstantsAssumption ==
    /\ MaxDeliver \in Nat \ {0}
    /\ MaxCopies \in Nat \ {0}
    /\ MaxVersion \in Nat \ {0}

VARIABLES
    row,        \* the llm_edit_jobs row of each job
    age,        \* time since the job was created, in the steps of Ages
    runAge,     \* time since it was dispatched, in the steps of RunAges
    manifest,   \* file version in the job's dispatched manifest
    file,       \* version of the file the edits are about, 0: deleted
    edited,     \* version the job's edit wrote, 0: none
    billed,     \* executions whose usage event the billing stream holds
    recorded,   \* llm_usage_records of executions
    submit,     \* where the start endpoint's handling of the job stands
    duty,       \* per replica, what the consumer coroutine is working on
    reaping,    \* per poller, the stale job it has read, not yet locked
    copies,     \* times the job's request was stored
    requests,   \* agent requests stored in the stream, deliverable
    running,    \* requests delivered to a worker and not yet acked
    results     \* agent results stored in the stream, deliverable

jobVars == <<row, age, runAge, manifest>>
sourceVars == <<file, edited>>
usageVars == <<billed, recorded>>
streamVars == <<copies, requests, running, results>>
vars == <<jobVars, sourceVars, usageVars, submit, duty, reaping, streamVars>>

----
(* Rows, messages and process states.                                      *)

Active == {"queued", "running"}
Terminal == {"succeeded", "failed"}
Statuses == {"absent"} \cup Active \cup Terminal
Codes == {"none", "agent_error", "file_conflict", "worker_lost"}

\* dispatched: the request payload holds a dispatched_at.
Rows == [status : Statuses, code : Codes, dispatched : BOOLEAN]
AbsentRow == [status |-> "absent", code |-> "none", dispatched |-> FALSE]

\* 0, past the running limit ((timeout + ack_wait) * max_deliver + 60), past
\* the queued limit (stream max age + 60).
Ages == 0..2
RunningLimit == 1
QueuedLimit == 2
\* The same running limit, counted from the dispatch.
RunAges == 0..1

Verdicts == {"changed", "unchanged", "failed"}
Copies == 1..MaxCopies
\* An execution is one delivery of one stored request.
Executions == [job : Jobs, copy : Copies, delivery : 1..MaxDeliver]
Requests == [job : Jobs, copy : Copies, left : 1..MaxDeliver]
Runs == [execution : Executions, left : 0..MaxDeliver, published : BOOLEAN]
Results == [execution : Executions, verdict : Verdicts, left : 1..MaxDeliver]
Taken == [execution : Executions, verdict : Verdicts, left : 0..MaxDeliver]
UsageRecords == [execution : Executions, status : {"completed", "failed"}]

SubmitStates == {"new", "checked", "publishing", "marking", "done"}

Idle == [task |-> "none"]
ResultTasks == {"check", "bill", "apply", "locked", "staged", "conflict", "ack"}
SweepTasks == {"listed", "send", "mark"}
\* dated: the payload in the session's object holds a dispatched_at.
ReadTasks == {"read", "resend", "refuse"}
Duties == {Idle}
    \cup [task : ResultTasks, msg : Taken]
    \cup [task : SweepTasks, job : Jobs]
    \cup [task : ReadTasks, job : Jobs, dated : BOOLEAN]

NoJob == [task |-> "none"]
Reapings == {NoJob} \cup [task : {"reap"}, job : Jobs]

TypeOK ==
    /\ row \in [Jobs -> Rows]
    /\ age \in [Jobs -> Ages]
    /\ runAge \in [Jobs -> RunAges]
    /\ manifest \in [Jobs -> Nat]
    /\ file \in Nat
    /\ edited \in [Jobs -> Nat]
    /\ billed \subseteq Executions
    /\ recorded \subseteq UsageRecords
    /\ submit \in [Jobs -> SubmitStates]
    /\ duty \in [Replicas -> Duties]
    /\ reaping \in [Pollers -> Reapings]
    /\ copies \in [Jobs -> 0..MaxCopies]
    /\ requests \subseteq Requests
    /\ running \subseteq Runs
    /\ results \subseteq Results

Init ==
    /\ row = [j \in Jobs |-> AbsentRow]
    /\ age = [j \in Jobs |-> 0]
    /\ runAge = [j \in Jobs |-> 0]
    /\ manifest = [j \in Jobs |-> 0]
    /\ file = 1
    /\ edited = [j \in Jobs |-> 0]
    /\ billed = {}
    /\ recorded = {}
    /\ submit = [j \in Jobs |-> "new"]
    /\ duty = [r \in Replicas |-> Idle]
    /\ reaping = [p \in Pollers |-> NoJob]
    /\ copies = [j \in Jobs |-> 0]
    /\ requests = {}
    /\ running = {}
    /\ results = {}

----
(* Row locks.                                                              *)

\* The consumer holds the job row from its second SELECT ... FOR UPDATE to
\* the commit.
JobLocked(j) ==
    \E r \in Replicas : duty[r].task \in {"locked", "staged"}
                        /\ duty[r].msg.execution.job = j

MutFileLocked == FALSE

\* stage_file_updates holds the file rows it compared until the commit.
FileLocked == \E r \in Replicas : duty[r].task = "staged"

MutProjectLocked == FALSE

\* The start endpoint holds the project row while it looks for an active job.
ProjectLocked == \E j \in Jobs : submit[j] = "checked"

MutFree(r) == duty[r].task \notin {"locked", "staged", "conflict"}

\* A replica's event loop is not inside a section without an await.
Free(r) ==
    duty[r].task \notin {"locked", "staged", "conflict", "read", "resend", "refuse"}

MutStale(j) ==
    /\ row[j].status = "running"
    /\ IF row[j].dispatched THEN runAge[j] > 0 ELSE age[j] >= RunningLimit

\* pi_agent_job_stale, on the row as it is in the database.
Stale(j) ==
    \/ row[j].status = "queued" /\ age[j] >= QueuedLimit
    \/ /\ row[j].status = "running"
       /\ IF row[j].dispatched THEN runAge[j] > 0 ELSE age[j] >= RunningLimit

Finish(j, status, code) ==
    row' = [row EXCEPT ![j].status = status, ![j].code = code]

MutDispatch(j) ==
    /\ row' = [row EXCEPT ![j] =
            [status |-> "running", code |-> "none", dispatched |-> TRUE]]
    /\ runAge' = [runAge EXCEPT ![j] = 0]

\* mark_job_dispatched: an UPDATE of the row if it is still queued.
Dispatch(j) ==
    IF row[j].status = "queued"
    THEN /\ row' = [row EXCEPT ![j] =
                [status |-> "running", code |-> "none", dispatched |-> TRUE]]
         /\ runAge' = [runAge EXCEPT ![j] = 0]
    ELSE UNCHANGED <<row, runAge>>

----
(* Time and the user.                                                      *)

Aged(j) ==
    /\ row[j].status \in Active
    /\ age[j] < QueuedLimit
    /\ age' = [age EXCEPT ![j] = @ + 1]
    /\ UNCHANGED <<row, runAge, manifest, sourceVars, usageVars, submit, duty,
                   reaping, streamVars>>

\* A dispatch is never older than its job.
RunAged(j) ==
    /\ row[j].status = "running"
    /\ runAge[j] = 0
    /\ age[j] >= RunningLimit
    /\ runAge' = [runAge EXCEPT ![j] = 1]
    /\ UNCHANGED <<row, age, manifest, sourceVars, usageVars, submit, duty,
                   reaping, streamVars>>

\* stage_code_update: the last write wins, on the project and the file row.
Save ==
    /\ file \in 1..(MaxVersion - 1)
    /\ ~FileLocked
    /\ ~ProjectLocked
    /\ file' = file + 1
    /\ UNCHANGED <<jobVars, edited, usageVars, submit, duty, reaping, streamVars>>

DeleteFile ==
    /\ file > 0
    /\ ~FileLocked
    /\ file' = 0
    /\ UNCHANGED <<jobVars, edited, usageVars, submit, duty, reaping, streamVars>>

----
(* The start endpoint.                                                     *)

\* 409 without a trace if an edit of the project is active; otherwise the
\* manifest is taken from the file rows while the project row stays locked.
\* The replica a request is at is not kept: others may be inside meanwhile.
StartCheck(r, j) ==
    /\ submit[j] = "new"
    /\ Free(r)
    /\ ~ProjectLocked
    /\ \A k \in Jobs : row[k].status \notin Active
    /\ file > 0
    /\ submit' = [submit EXCEPT ![j] = "checked"]
    /\ manifest' = [manifest EXCEPT ![j] = file]
    /\ UNCHANGED <<row, age, runAge, sourceVars, usageVars, duty, reaping,
                   streamVars>>

StartCommit(j) ==
    /\ submit[j] = "checked"
    /\ row' = [row EXCEPT ![j] =
                  [status |-> "queued", code |-> "none", dispatched |-> FALSE]]
    /\ submit' = [submit EXCEPT ![j] = "publishing"]
    /\ UNCHANGED <<age, runAge, manifest, sourceVars, usageVars, duty, reaping,
                   streamVars>>

\* A limit, an oversized command or any other error before the commit.
StartRolledBack(j) ==
    /\ submit[j] = "checked"
    /\ submit' = [submit EXCEPT ![j] = "done"]
    /\ UNCHANGED <<jobVars, sourceVars, usageVars, duty, reaping, streamVars>>

\* The id is the same every time: the stream drops a repeated one as long as
\* its duplicate window holds the first.  Bound: MaxCopies.
StoreRequest(j) ==
    \/ /\ copies[j] < MaxCopies
       /\ copies' = [copies EXCEPT ![j] = @ + 1]
       /\ requests' = requests \cup
             {[job |-> j, copy |-> copies[j] + 1, left |-> MaxDeliver]}
    \/ copies[j] > 0 /\ UNCHANGED <<copies, requests>>

StartPublished(j) ==
    /\ submit[j] = "publishing"
    /\ StoreRequest(j)
    /\ submit' = [submit EXCEPT ![j] = "marking"]
    /\ UNCHANGED <<jobVars, sourceVars, usageVars, duty, reaping, running,
                   results>>

\* The stream may hold the request; the client is told 202 and the job stays
\* queued.
StartPublishRaised(j) ==
    /\ submit[j] = "publishing"
    /\ StoreRequest(j) \/ UNCHANGED <<copies, requests>>
    /\ submit' = [submit EXCEPT ![j] = "done"]
    /\ UNCHANGED <<jobVars, sourceVars, usageVars, duty, reaping, running,
                   results>>

StartMark(r, j) ==
    /\ submit[j] = "marking"
    /\ Free(r)
    /\ ~JobLocked(j)
    /\ Dispatch(j)
    /\ submit' = [submit EXCEPT ![j] = "done"]
    /\ UNCHANGED <<age, manifest, sourceVars, usageVars, duty, reaping, streamVars>>

\* The process stops, or the second commit raises.
StartDies(j) ==
    /\ submit[j] \in {"publishing", "marking"}
    /\ submit' = [submit EXCEPT ![j] = "done"]
    /\ UNCHANGED <<jobVars, sourceVars, usageVars, duty, reaping, streamVars>>

----
(* The stream and the worker.                                              *)

MutRedelivered(m) == {m}

\* What becomes of a delivered message that was not acked.
Redelivered(m) == IF m.left > 0 THEN {m} ELSE {}

RequestOf(w) ==
    [job |-> w.execution.job, copy |-> w.execution.copy, left |-> w.left]

\* Every delivery is an execution of its own.
Deliver(m) ==
    /\ requests' = requests \ {m}
    /\ running' = running \cup
          {[execution |-> [job |-> m.job, copy |-> m.copy,
                           delivery |-> MaxDeliver - m.left + 1],
            left |-> m.left - 1, published |-> FALSE]}
    /\ UNCHANGED <<jobVars, sourceVars, usageVars, submit, duty, reaping,
                   copies, results>>

PublishResult(w, verdict) ==
    /\ ~w.published
    /\ running' = (running \ {w}) \cup {[w EXCEPT !.published = TRUE]}
    /\ results' = results \cup
          {[execution |-> w.execution, verdict |-> verdict, left |-> MaxDeliver]}
    /\ UNCHANGED <<jobVars, sourceVars, usageVars, submit, duty, reaping,
                   copies, requests>>

AckRequest(w) ==
    /\ w.published
    /\ running' = running \ {w}
    /\ UNCHANGED <<jobVars, sourceVars, usageVars, submit, duty, reaping,
                   copies, requests, results>>

\* SIGTERM, a failed publish or a failed heartbeat: nak.  A killed pod ends
\* the same way when ack_wait passes.
WorkerLost(w) ==
    /\ running' = running \ {w}
    /\ requests' = requests \cup
          (IF w.left > 0 THEN {RequestOf(w)} ELSE {})
    /\ UNCHANGED <<jobVars, sourceVars, usageVars, submit, duty, reaping,
                   copies, results>>

\* Heartbeats of a worker that is cut off are lost: the request is delivered
\* again while the first execution goes on.
WorkerCutOff(w) ==
    /\ w.left > 0
    /\ running' = (running \ {w}) \cup {[w EXCEPT !.left = 0]}
    /\ requests' = requests \cup {RequestOf(w)}
    /\ UNCHANGED <<jobVars, sourceVars, usageVars, submit, duty, reaping,
                   copies, results>>

\* The stream is at its limit of bytes or age: the oldest messages go.
Discarded ==
    /\ \/ \E m \in requests : requests' = requests \ {m} /\ UNCHANGED results
       \/ \E m \in results : results' = results \ {m} /\ UNCHANGED requests
    /\ UNCHANGED <<jobVars, sourceVars, usageVars, submit, duty, reaping,
                   copies, running>>

----
(* The result consumer.                                                    *)

Known(execution) == \E u \in recorded : u.execution = execution

Turn(r, task) == duty' = [duty EXCEPT ![r].task = task]

TakeResult(r, m) ==
    /\ duty[r] = Idle
    /\ results' = results \ {m}
    /\ duty' = [duty EXCEPT
                   ![r] = [task |-> "check", msg |-> [m EXCEPT !.left = @ - 1]]]
    /\ UNCHANGED <<jobVars, sourceVars, usageVars, submit, reaping, copies,
                   requests, running>>

MutCheckResult(r) ==
    /\ duty[r].task = "check"
    /\ ~JobLocked(duty[r].msg.execution.job)
    /\ Turn(r, IF Known(duty[r].msg.execution) THEN "ack" ELSE "apply")
    /\ UNCHANGED <<jobVars, sourceVars, usageVars, submit, reaping, streamVars>>

\* Locked, looked at, and rolled back before the billing event is published.
CheckResult(r) ==
    /\ duty[r].task = "check"
    /\ ~JobLocked(duty[r].msg.execution.job)
    /\ Turn(r, IF Known(duty[r].msg.execution) THEN "ack" ELSE "bill")
    /\ UNCHANGED <<jobVars, sourceVars, usageVars, submit, reaping, streamVars>>

\* The event id is made of the execution.
BillResult(r) ==
    /\ duty[r].task = "bill"
    /\ billed' = billed \cup {duty[r].msg.execution}
    /\ Turn(r, "apply")
    /\ UNCHANGED <<jobVars, sourceVars, recorded, submit, reaping, streamVars>>

Nak(r) ==
    /\ results' = results \cup Redelivered(duty[r].msg)
    /\ duty' = [duty EXCEPT ![r] = Idle]

\* The publish raised: the billing stream may hold the event.
BillRaises(r) ==
    /\ duty[r].task = "bill"
    /\ billed' = billed \/ billed' = billed \cup {duty[r].msg.execution}
    /\ Nak(r)
    /\ UNCHANGED <<jobVars, sourceVars, recorded, submit, reaping, copies,
                   requests, running>>

Completion(verdict) == IF verdict = "failed" THEN "failed" ELSE "completed"

Record(execution, status) ==
    recorded' = recorded \cup {[execution |-> execution, status |-> status]}

\* The execution has been recorded meanwhile, or its job is over: then only
\* its usage is recorded.
ApplyDuplicate(r) ==
    /\ duty[r].task = "apply"
    /\ LET m == duty[r].msg
           j == m.execution.job
       IN /\ ~JobLocked(j)
          /\ \/ Known(m.execution) /\ UNCHANGED recorded
             \/ /\ ~Known(m.execution)
                /\ row[j].status \in Terminal
                /\ Record(m.execution, Completion(m.verdict))
    /\ Turn(r, "ack")
    /\ UNCHANGED <<jobVars, sourceVars, billed, submit, reaping, streamVars>>

\* The job row stays locked from here to the commit.
ApplyLock(r) ==
    /\ duty[r].task = "apply"
    /\ LET e == duty[r].msg.execution
       IN ~JobLocked(e.job) /\ ~Known(e) /\ row[e.job].status \in Active
    /\ Turn(r, "locked")
    /\ UNCHANGED <<jobVars, sourceVars, usageVars, submit, reaping, streamVars>>

\* A failed or unchanged outcome, or the failure recorded for a conflict.
Applied(r, status, code, usage) ==
    /\ Finish(duty[r].msg.execution.job, status, code)
    /\ Record(duty[r].msg.execution, usage)
    /\ Turn(r, "ack")
    /\ UNCHANGED <<age, runAge, manifest, billed, submit, reaping, streamVars>>

ApplyFailure(r) ==
    /\ duty[r].task = "locked"
    /\ duty[r].msg.verdict = "failed"
    /\ Applied(r, "failed", "agent_error", "failed")
    /\ UNCHANGED sourceVars

ApplyUnchanged(r) ==
    /\ duty[r].task = "locked"
    /\ duty[r].msg.verdict = "unchanged"
    /\ Applied(r, "succeeded", "none", "completed")
    /\ UNCHANGED sourceVars

\* stage_file_updates locks the file rows and compares their versions with
\* the manifest; a difference raises FileVersionConflictError.
StageFiles(r) ==
    /\ duty[r].task = "locked"
    /\ duty[r].msg.verdict = "changed"
    /\ ~FileLocked
    /\ file > 0
    /\ Turn(r, IF file = manifest[duty[r].msg.execution.job]
               THEN "staged" ELSE "conflict")
    /\ UNCHANGED <<jobVars, sourceVars, usageVars, submit, reaping, streamVars>>

\* A file of the edit is gone: "invalid", acked, and the job is left as it is.
StageMissing(r) ==
    /\ duty[r].task = "locked"
    /\ duty[r].msg.verdict = "changed"
    /\ ~FileLocked
    /\ file = 0
    /\ Turn(r, "ack")
    /\ UNCHANGED <<jobVars, sourceVars, usageVars, submit, reaping, streamVars>>

\* Files, snapshot, usage and job commit together; the project row, which the
\* flush updates too, must be free.
ApplyEdit(r) ==
    /\ duty[r].task = "staged"
    /\ ~ProjectLocked
    /\ file' = file + 1
    /\ edited' = [edited EXCEPT ![duty[r].msg.execution.job] = file + 1]
    /\ Applied(r, "succeeded", "none", "completed")

\* The conflict rolled everything back: the row is locked and read again.
ApplyConflict(r) ==
    /\ duty[r].task = "conflict"
    /\ LET j == duty[r].msg.execution.job
       IN /\ ~JobLocked(j)
          /\ row[j].status \in Active
    /\ Applied(r, "failed", "file_conflict", "failed")
    /\ UNCHANGED sourceVars

\* Meanwhile the job ended: acked, without a usage record.
IgnoreConflict(r) ==
    /\ duty[r].task = "conflict"
    /\ ~JobLocked(duty[r].msg.execution.job)
    /\ row[duty[r].msg.execution.job].status \in Terminal
    /\ Turn(r, "ack")
    /\ UNCHANGED <<jobVars, sourceVars, usageVars, submit, reaping, streamVars>>

\* The database raises (a deadlock with a save, an edit that changes no
\* content, a lost connection): rollback and nak.
ApplyRaises(r) ==
    /\ duty[r].task \in {"check", "apply", "locked", "staged", "conflict"}
    /\ Nak(r)
    /\ UNCHANGED <<jobVars, sourceVars, usageVars, submit, reaping, copies,
                   requests, running>>

AckResult(r) ==
    /\ duty[r].task = "ack"
    /\ duty' = [duty EXCEPT ![r] = Idle]
    /\ UNCHANGED <<jobVars, sourceVars, usageVars, submit, reaping, streamVars>>

\* ack_wait passes while the consumer is at it: the result is delivered again.
ResultRedelivered(r) ==
    /\ duty[r].task \in ResultTasks
    /\ duty[r].msg.left > 0
    /\ results' = results \cup {duty[r].msg}
    /\ duty' = [duty EXCEPT ![r].msg.left = 0]
    /\ UNCHANGED <<jobVars, sourceVars, usageVars, submit, reaping, copies,
                   requests, running>>

----
(* Republishing of queued jobs, by the consumer coroutine.                 *)

\* The queued jobs of all projects are read at once; the ones before this one
\* are republished first.
SweepList(r, j) ==
    /\ duty[r] = Idle
    /\ row[j].status = "queued"
    /\ duty' = [duty EXCEPT ![r] = [task |-> "listed", job |-> j]]
    /\ UNCHANGED <<jobVars, sourceVars, usageVars, submit, reaping, streamVars>>

\* The job is the first of the list, or its row was expired by a commit for
\* an earlier one and is read again, whatever its status is by now.  The 30 s
\* back-off since the last attempt may be over at any time.
SweepRead(r, j) ==
    /\ \/ duty[r] = Idle /\ row[j].status = "queued"
       \/ duty[r].task = "listed" /\ duty[r].job = j
    /\ duty' = [duty EXCEPT
                   ![r] = [task |-> "read", job |-> j, dated |-> row[j].dispatched]]
    /\ UNCHANGED <<jobVars, sourceVars, usageVars, submit, reaping, streamVars>>

\* The files are compared with the manifest, without a lock.
SweepFiles(r) ==
    /\ duty[r].task = "read"
    /\ Turn(r, IF file = manifest[duty[r].job] THEN "resend" ELSE "refuse")
    /\ UNCHANGED <<jobVars, sourceVars, usageVars, submit, reaping, streamVars>>

\* finish_job on the row read earlier, whatever has become of it.
SweepRefuse(r) ==
    /\ duty[r].task = "refuse"
    /\ ~JobLocked(duty[r].job)
    /\ Finish(duty[r].job, "failed", "file_conflict")
    /\ duty' = [duty EXCEPT ![r] = Idle]
    /\ UNCHANGED <<age, runAge, manifest, sourceVars, usageVars, submit, reaping,
                   streamVars>>

\* The attempt is written into the payload read earlier, and the whole
\* payload is written back.
SweepResend(r) ==
    /\ duty[r].task = "resend"
    /\ ~JobLocked(duty[r].job)
    /\ row' = [row EXCEPT ![duty[r].job].dispatched = duty[r].dated]
    /\ duty' = [duty EXCEPT ![r] = [task |-> "send", job |-> duty[r].job]]
    /\ UNCHANGED <<age, runAge, manifest, sourceVars, usageVars, submit, reaping,
                   streamVars>>

SweepSend(r) ==
    /\ duty[r].task = "send"
    /\ StoreRequest(duty[r].job)
    /\ Turn(r, "mark")
    /\ UNCHANGED <<jobVars, sourceVars, usageVars, submit, reaping, running,
                   results>>

SweepRaises(r) ==
    /\ duty[r].task = "send"
    /\ StoreRequest(duty[r].job) \/ UNCHANGED <<copies, requests>>
    /\ duty' = [duty EXCEPT ![r] = Idle]
    /\ UNCHANGED <<jobVars, sourceVars, usageVars, submit, reaping, running,
                   results>>

SweepMark(r) ==
    /\ duty[r].task = "mark"
    /\ ~JobLocked(duty[r].job)
    /\ Dispatch(duty[r].job)
    /\ duty' = [duty EXCEPT ![r] = Idle]
    /\ UNCHANGED <<age, manifest, sourceVars, usageVars, submit, reaping, streamVars>>

\* A replica stops: open transactions are rolled back, the result it had
\* taken is redelivered if a delivery is left.
ReplicaStops(r) ==
    /\ duty[r] # Idle
    /\ duty' = [duty EXCEPT ![r] = Idle]
    /\ results' = results \cup
          (IF duty[r].task \in ResultTasks THEN Redelivered(duty[r].msg) ELSE {})
    /\ UNCHANGED <<jobVars, sourceVars, usageVars, submit, reaping, copies,
                   requests, running>>

----
(* Reconciliation of stale jobs.                                           *)

ReapRead(p, j) ==
    /\ reaping[p] = NoJob
    /\ Stale(j)
    /\ reaping' = [reaping EXCEPT ![p] = [task |-> "reap", job |-> j]]
    /\ UNCHANGED <<jobVars, sourceVars, usageVars, submit, duty, streamVars>>

\* The consumer's own pass, between two results and without an await: a step for each
\* of the jobs that it takes in turn.
Reconcile(r, j) ==
    /\ duty[r] = Idle
    /\ Stale(j)
    /\ ~JobLocked(j)
    /\ Finish(j, "failed", "worker_lost")
    /\ UNCHANGED <<age, runAge, manifest, sourceVars, usageVars, submit, duty,
                   reaping, streamVars>>

\* The row is locked and judged again, but on the object the session already
\* holds: SELECT ... FOR UPDATE does not refresh it, so the second test sees
\* what the first one saw.
ReapCommit(p) ==
    /\ reaping[p] # NoJob
    /\ ~JobLocked(reaping[p].job)
    /\ Finish(reaping[p].job, "failed", "worker_lost")
    /\ reaping' = [reaping EXCEPT ![p] = NoJob]
    /\ UNCHANGED <<age, runAge, manifest, sourceVars, usageVars, submit, duty,
                   streamVars>>

----
Start(j) ==
    \/ \E r \in Replicas : StartCheck(r, j) \/ StartMark(r, j)
    \/ StartCommit(j)
    \/ StartRolledBack(j)
    \/ StartPublished(j)
    \/ StartPublishRaised(j)
    \/ StartDies(j)

Worker ==
    \/ \E m \in requests : Deliver(m)
    \/ \E w \in running :
          \/ \E v \in Verdicts : PublishResult(w, v)
          \/ AckRequest(w)
          \/ WorkerLost(w)
          \/ WorkerCutOff(w)

Apply(r) ==
    \/ ApplyFailure(r)
    \/ ApplyUnchanged(r)
    \/ StageFiles(r)
    \/ StageMissing(r)
    \/ ApplyEdit(r)
    \/ ApplyConflict(r)
    \/ IgnoreConflict(r)

Consumer(r) ==
    \/ \E m \in results : TakeResult(r, m)
    \/ CheckResult(r)
    \/ BillResult(r)
    \/ BillRaises(r)
    \/ ApplyDuplicate(r)
    \/ ApplyLock(r)
    \/ Apply(r)
    \/ ApplyRaises(r)
    \/ AckResult(r)
    \/ ResultRedelivered(r)

Sweep(r) ==
    \/ \E j \in Jobs : SweepList(r, j) \/ SweepRead(r, j) \/ Reconcile(r, j)
    \/ SweepFiles(r)
    \/ SweepRefuse(r)
    \/ SweepResend(r)
    \/ SweepSend(r)
    \/ SweepRaises(r)
    \/ SweepMark(r)

Next ==
    \/ Save \/ DeleteFile \/ Discarded
    \/ \E j \in Jobs : Aged(j) \/ RunAged(j) \/ Start(j)
    \/ Worker
    \/ \E r \in Replicas : Consumer(r) \/ Sweep(r) \/ ReplicaStops(r)
    \/ \E p \in Pollers :
          \/ \E j \in Jobs : ReapRead(p, j)
          \/ ReapCommit(p)

Spec == Init /\ [][Next]_vars

----
(* Safety.                                                                 *)

\* Two edits of a project are never active together, whichever processes
\* start, republish, apply and reconcile them.
OneActiveEdit ==
    \A j, k \in Jobs :
        row[j].status \in Active /\ row[k].status \in Active => j = k

\* An AI edit replaces exactly the version it was given: no save that was
\* committed between its dispatch and its own commit is overwritten.
EditReplacesWhatItSaw ==
    \A j \in Jobs : edited[j] # 0 => edited[j] = manifest[j] + 1

\* Every recorded execution was billed, once, and an edit in the source or a
\* job that reads succeeded has a completed one.
EditsAreAccounted ==
    /\ \A u \in recorded : u.execution \in billed
    /\ \A u, v \in recorded : u.execution = v.execution => u = v
    /\ \A j \in Jobs : edited[j] # 0 \/ row[j].status = "succeeded" =>
          \E u \in recorded : u.execution.job = j /\ u.status = "completed"

\* With one API process a running job knows when it was dispatched, so its
\* deadline is counted from there.
RunningIsDated ==
    \A j \in Jobs : row[j].status = "running" => row[j].dispatched

\* The plan's claim for reconciliation: a running job it may fail has had the
\* whole running limit since its dispatch.
StaleIsOverdue ==
    \A j \in Jobs : row[j].status = "running" /\ Stale(j) => runAge[j] > 0

\* The plan: a terminal job is immutable; at least its status is.
TerminalIsImmutable ==
    [][\A j \in Jobs :
          row[j].status \in Terminal => row'[j].status = row[j].status]_vars

----
(* Liveness.                                                               *)

\* A poller comes back as long as the client polls, and gets the row lock in
\* the end: row locks are granted in the order of their requests.
PollerFairness ==
    \E p \in Pollers :
        SF_vars(ReapCommit(p)) /\ \A j \in Jobs : SF_vars(ReapRead(p, j))

\* The consumer finishes the transactions it has opened.
TransactionFairness == \A r \in Replicas : WF_vars(Apply(r))

\* While someone polls, every committed edit ends, and the project can be
\* edited again, whatever is lost between the API and the worker.
PolledEditsSettle ==
    PollerFairness /\ TransactionFairness
    /\ (\A j \in Jobs : WF_vars(Aged(j)) /\ WF_vars(RunAged(j)))
    => \A j \in Jobs : row[j].status \in Active ~> row[j].status \in Terminal
=============================================================================
