----------------------------- MODULE CompileJobs -----------------------------
(***************************************************************************)
(* The compile pipeline: the API's compile endpoint commits a job row and  *)
(* publishes a request, a one-shot worker compiles it and publishes a      *)
(* result, and the API's result consumer writes the outcome.  Workers      *)
(* never touch the database.  Four writers compete for one row:            *)
(*                                                                         *)
(*   - the endpoint, which re-queues the job when publishing raised;       *)
(*   - the consumer's application of a result;                             *)
(*   - the consumer's recovery pass (republish, stale running jobs);       *)
(*   - every status poll, which may fail a stale job by itself.            *)
(*                                                                         *)
(* The first three load the row, decide in Python, and write it back       *)
(* without a lock, so each is a read step and a write step here.  The      *)
(* write changes only the columns that differ from what was read: that is  *)
(* what the ORM's unit of work sends to the database.                      *)
(***************************************************************************)
EXTENDS Naturals, FiniteSets

CONSTANTS
    Jobs,            \* compile jobs of one project
    Replicas,        \* API processes: one event loop and one consumer each
    MaxDeliver,      \* compile_max_deliver: deliveries of one stored message
    MaxCopies,       \* bound: messages of one job in flight at a time
    RetentionLimit   \* artifact_retention_limit: bundles kept per project

ASSUME ConstantsAssumption ==
    /\ MaxDeliver \in Nat \ {0}
    /\ MaxCopies \in Nat \ {0}
    /\ RetentionLimit \in Nat

VARIABLES
    row,        \* the compile_jobs row of each job
    age,        \* how long ago the job was created, in the steps of Ages
    stamp,      \* when the artifact bundle of the job was recorded, 0: no rows
    clock,      \* bundles recorded so far
    pruned,     \* jobs whose bundle retention has deleted at least once
    usage,      \* status billed by the job's compile_usage_records row
    submit,     \* where the compile endpoint's handling of the job stands
    segment,    \* per replica, the unlocked read-to-commit section its event
                \* loop is in: nothing else of the loop runs meanwhile
    duty,       \* per replica, what the consumer coroutine is working on
    requests,   \* compile requests stored in the stream, deliverable
    window,     \* jobs whose request id is still in the duplicate window
    running,    \* requests delivered to a worker and not yet acked
    results,    \* compile results stored in the stream, deliverable
    resultWindow \* <<job, verdict>> result ids still in the duplicate window

dbVars == <<row, stamp, clock, pruned, usage>>
streamVars == <<requests, window, running, results, resultWindow>>
vars == <<dbVars, age, submit, segment, duty, streamVars>>

----
(* Rows, messages and process states.                                      *)

Terminal == {"succeeded", "failed"}
Statuses == {"absent", "queued", "running"} \cup Terminal

\* error_code: every verdict that came from compiling (or from refusing to
\* compile) the source is "rejected"; the two codes recovery looks at, or
\* writes, are kept apart.
Codes == {"none", "publish_pending", "worker_lost", "rejected"}

Rows == [status : Statuses, code : Codes]
AbsentRow == [status |-> "absent", code |-> "none"]

\* Ages of a job: 0, then past the republish threshold (60 s), past the
\* running limit (compile_timeout_seconds + 30), past the queued limit
\* (compile_ack_wait_seconds, also the lease written at dispatch).
Ages == 0..3
RepublishAge == 1
RunningLimit == 2
QueuedLimit == 3

Copies == 1..MaxCopies
Verdicts == {"succeeded", "failed"}
\* A stored message has a delivery left, a delivered one may have none.
Requests == [job : Jobs, copy : Copies, left : 1..MaxDeliver]
Runs == [job : Jobs, copy : Copies, left : 0..MaxDeliver, published : BOOLEAN]
Results == [job : Jobs, verdict : Verdicts, copy : Copies, left : 1..MaxDeliver]
Taken == [job : Jobs, verdict : Verdicts, copy : Copies, left : 0..MaxDeliver]

SubmitStates == {"new", "publishing", "unpublished", "marking", "requeued", "done"}

NoSegment == [task |-> "none"]
Segments == {NoSegment}
    \cup [task : {"pending", "apply", "reap"}, job : Jobs, read : Rows]

Idle == [task |-> "none"]
Duties == {Idle}
    \cup [task : {"apply", "ack"}, msg : Taken]
    \cup [task : {"republish"}, job : Jobs, read : Rows]

TypeOK ==
    /\ row \in [Jobs -> Rows]
    /\ age \in [Jobs -> Ages]
    /\ stamp \in [Jobs -> Nat]
    /\ clock \in Nat
    /\ pruned \subseteq Jobs
    /\ usage \in [Jobs -> {"none"} \cup Terminal]
    /\ submit \in [Jobs -> SubmitStates]
    /\ segment \in [Replicas -> Segments]
    /\ duty \in [Replicas -> Duties]
    /\ requests \subseteq Requests
    /\ window \subseteq Jobs
    /\ running \subseteq Runs
    /\ results \subseteq Results
    /\ resultWindow \subseteq Jobs \X Verdicts

Init ==
    /\ row = [j \in Jobs |-> AbsentRow]
    /\ age = [j \in Jobs |-> 0]
    /\ stamp = [j \in Jobs |-> 0]
    /\ clock = 0
    /\ pruned = {}
    /\ usage = [j \in Jobs |-> "none"]
    /\ submit = [j \in Jobs |-> "new"]
    /\ segment = [r \in Replicas |-> NoSegment]
    /\ duty = [r \in Replicas |-> Idle]
    /\ requests = {}
    /\ window = {}
    /\ running = {}
    /\ results = {}
    /\ resultWindow = {}

----
(* Writing a row.                                                          *)

\* The session compares each assigned attribute with the value it loaded and
\* leaves an unchanged one out of the UPDATE.
Column(db, read, new) == IF new = read THEN db ELSE new

Flush(db, read, new) ==
    [status |-> Column(db.status, read.status, new.status),
     code   |-> Column(db.code, read.code, new.code)]

Finished(status, code) == [status |-> status, code |-> code]

PublishPending == [status |-> "queued", code |-> "publish_pending"]

Dispatched == [status |-> "running", code |-> "none"]

MutStaleQueued(j) == row[j].status # "absent" /\ age[j] >= QueuedLimit
MutQueuedOnce(j) ==
    row[j].status = "queued" /\ row[j].code = "none" /\ age[j] >= QueuedLimit

MutStaleRunning(j) == row[j].status = "running" /\ age[j] = RunningLimit

\* A row the running clause of reconcile_stale_job and stale_running_jobs
\* select: the lease or the claim is too old.
StaleRunning(j) == row[j].status = "running" /\ age[j] >= RunningLimit

StaleQueued(j) == row[j].status = "queued" /\ age[j] >= QueuedLimit

----
(* The stream.                                                             *)

\* Copies of j's messages that are somewhere between publish and ack.
InFlight(j) ==
    {m.copy : m \in {m \in requests \cup running \cup results : m.job = j}}
    \cup {duty[r].msg.copy :
             r \in {r \in Replicas : duty[r].task \in {"apply", "ack"}
                                     /\ duty[r].msg.job = j}}

\* Store j's request unless its id is a duplicate.  Bound: MaxCopies.
StoreRequest(j) ==
    IF j \in window
    THEN UNCHANGED <<requests, window>>
    ELSE \E c \in Copies \ InFlight(j) :
            /\ \A d \in Copies \ InFlight(j) : c <= d
            /\ requests' = requests
                    \cup {[job |-> j, copy |-> c, left |-> MaxDeliver]}
            /\ window' = window \cup {j}

MutRedelivered(m) == {m}

\* What becomes of a delivered message that was not acked.
Redelivered(m) == IF m.left > 0 THEN {m} ELSE {}

\* The duplicate window of a request or result id closes.
RequestIdForgotten(j) ==
    /\ j \in window
    /\ window' = window \ {j}
    /\ UNCHANGED <<dbVars, age, submit, segment, duty, requests, running,
                   results, resultWindow>>

ResultIdForgotten(id) ==
    /\ id \in resultWindow
    /\ resultWindow' = resultWindow \ {id}
    /\ UNCHANGED <<dbVars, age, submit, segment, duty, requests, window,
                   running, results>>

Aged(j) ==
    /\ row[j].status # "absent"
    /\ age[j] < QueuedLimit
    /\ age' = [age EXCEPT ![j] = @ + 1]
    /\ UNCHANGED <<dbVars, submit, segment, duty, streamVars>>

----
(* The compile endpoint (one request, on one replica's event loop).        *)

\* The source, the row and the file snapshot are committed together, already
\* marked running; the publish comes after.
DispatchCommit(j) ==
    /\ submit[j] = "new"
    /\ row' = [row EXCEPT ![j] = Dispatched]
    /\ submit' = [submit EXCEPT ![j] = "publishing"]
    /\ UNCHANGED <<stamp, clock, pruned, usage, age, segment, duty, streamVars>>

\* The command exceeds compile_request_max_bytes: committed as failed, 413.
RefuseOversized(j) ==
    /\ submit[j] = "new"
    /\ row' = [row EXCEPT ![j] = Finished("failed", "rejected")]
    /\ submit' = [submit EXCEPT ![j] = "done"]
    /\ UNCHANGED <<stamp, clock, pruned, usage, age, segment, duty, streamVars>>

\* Anything raised before the commit is rolled back with the job row, so the
\* handler that would record enqueue_failed finds no row.
SubmitRolledBack(j) ==
    /\ submit[j] = "new"
    /\ submit' = [submit EXCEPT ![j] = "done"]
    /\ UNCHANGED <<dbVars, age, segment, duty, streamVars>>

PublishAcked(j) ==
    /\ submit[j] = "publishing"
    /\ submit' = [submit EXCEPT ![j] = "done"]
    /\ StoreRequest(j)
    /\ UNCHANGED <<dbVars, age, segment, duty, running, results, resultWindow>>

\* connect, publish, flush or close raised: the stream may hold the request.
PublishRaised(j) ==
    /\ submit[j] = "publishing"
    /\ submit' = [submit EXCEPT ![j] = "unpublished"]
    /\ StoreRequest(j) \/ UNCHANGED <<requests, window>>
    /\ UNCHANGED <<dbVars, age, segment, duty, running, results, resultWindow>>

\* The process dies between the commit and the end of the handler.
EndpointDies(j) ==
    /\ submit[j] \in {"publishing", "unpublished"}
    /\ submit' = [submit EXCEPT ![j] = "done"]
    /\ UNCHANGED <<dbVars, age, segment, duty, streamVars>>

\* The except branch: rollback, then db.get loads the row as it is now.
PendingRead(r, j) ==
    /\ submit[j] = "unpublished"
    /\ segment[r] = NoSegment
    /\ segment' = [segment EXCEPT
                      ![r] = [task |-> "pending", job |-> j, read |-> row[j]]]
    /\ submit' = [submit EXCEPT ![j] = "marking"]
    /\ UNCHANGED <<dbVars, age, duty, streamVars>>

\* mark_job_publish_pending looks at nothing of the row it rewrites.
PendingCommit(r) ==
    /\ segment[r].task = "pending"
    /\ LET s == segment[r]
       IN /\ row' = [row EXCEPT ![s.job] =
                        Flush(@, s.read, PublishPending)]
          /\ submit' = [submit EXCEPT ![s.job] = "requeued"]
    /\ segment' = [segment EXCEPT ![r] = NoSegment]
    /\ UNCHANGED <<stamp, clock, pruned, usage, age, duty, streamVars>>

----
(* The worker.                                                             *)

Deliver(m) ==
    /\ requests' = requests \ {m}
    /\ running' = running \cup
          {[job |-> m.job, copy |-> m.copy, left |-> m.left - 1,
            published |-> FALSE]}
    /\ UNCHANGED <<dbVars, age, submit, segment, duty, window, results,
                   resultWindow>>

\* Every way a compile can end is one of two verdicts; the result's id is
\* made of the job and the verdict.
PublishResult(w, verdict) ==
    /\ ~w.published
    /\ running' = (running \ {w}) \cup {[w EXCEPT !.published = TRUE]}
    /\ IF <<w.job, verdict>> \in resultWindow
       THEN UNCHANGED <<results, resultWindow>>
       ELSE /\ results' = results \cup
                  {[job |-> w.job, verdict |-> verdict, copy |-> w.copy,
                    left |-> MaxDeliver]}
            /\ resultWindow' = resultWindow \cup {<<w.job, verdict>>}
    /\ UNCHANGED <<dbVars, age, submit, segment, duty, requests, window>>

AckRequest(w) ==
    /\ w.published
    /\ running' = running \ {w}
    /\ UNCHANGED <<dbVars, age, submit, segment, duty, requests, window,
                   results, resultWindow>>

\* The pod is killed, or anything raised and the request is nak'd.
WorkerLost(w) ==
    /\ running' = running \ {w}
    /\ requests' = requests \cup
          Redelivered([job |-> w.job, copy |-> w.copy, left |-> w.left])
    /\ UNCHANGED <<dbVars, age, submit, segment, duty, window, results,
                   resultWindow>>

----
(* The result consumer.                                                    *)

TakeResult(r, m) ==
    /\ duty[r] = Idle
    /\ segment[r] = NoSegment
    /\ results' = results \ {m}
    /\ duty' = [duty EXCEPT
                   ![r] = [task |-> "apply", msg |-> [m EXCEPT !.left = @ - 1]]]
    /\ UNCHANGED <<dbVars, age, submit, segment, requests, window, running,
                   resultWindow>>

\* A terminal job keeps its outcome and the message is acked.
IgnoreResult(r) ==
    /\ duty[r].task = "apply"
    /\ segment[r] = NoSegment
    /\ row[duty[r].msg.job].status \in Terminal
    /\ duty' = [duty EXCEPT ![r].task = "ack"]
    /\ UNCHANGED <<dbVars, age, submit, segment, streamVars>>

ApplyRead(r) ==
    /\ duty[r].task = "apply"
    /\ segment[r] = NoSegment
    /\ LET j == duty[r].msg.job
       IN /\ row[j].status \notin Terminal
          /\ segment' = [segment EXCEPT
                ![r] = [task |-> "apply", job |-> j, read |-> row[j]]]
    /\ UNCHANGED <<dbVars, age, submit, duty, streamVars>>

\* Bundle retention: only the RetentionLimit newest bundles keep their rows
\* (the endpoint of the setting is max(1, limit)).
KeepLatest == IF RetentionLimit = 0 THEN 1 ELSE RetentionLimit

MutRetained(s) ==
    [j \in Jobs |->
        IF Cardinality({k \in Jobs : s[k] \in 1..(s[j] - 1)}) < KeepLatest
        THEN s[j] ELSE 0]

Retained(s) ==
    [j \in Jobs |->
        IF Cardinality({k \in Jobs : s[k] > s[j]}) < KeepLatest THEN s[j] ELSE 0]

MutBilled(j, status) == [usage EXCEPT ![j] = status]

\* One usage row per job: an existing one is returned as it is.
Billed(j, status) ==
    IF usage[j] = "none" THEN [usage EXCEPT ![j] = status] ELSE usage

MutApplyFailure(r) ==
    /\ segment[r].task = "apply"
    /\ LET s == segment[r]
       IN /\ row' = [row EXCEPT ![s.job] =
                        Flush(@, s.read, Finished(duty[r].msg.verdict, "none"))]
          /\ usage' = Billed(s.job, duty[r].msg.verdict)
    /\ segment' = [segment EXCEPT ![r] = NoSegment]
    /\ duty' = [duty EXCEPT ![r].task = "ack"]
    /\ UNCHANGED <<stamp, clock, pruned, age, submit, streamVars>>

\* A failed result, or a success whose bundle does not verify.
ApplyFailure(r) ==
    /\ segment[r].task = "apply"
    /\ LET s == segment[r]
       IN /\ row' = [row EXCEPT ![s.job] =
                        Flush(@, s.read, Finished("failed", "rejected"))]
          /\ usage' = Billed(s.job, "failed")
    /\ segment' = [segment EXCEPT ![r] = NoSegment]
    /\ duty' = [duty EXCEPT ![r].task = "ack"]
    /\ UNCHANGED <<stamp, clock, pruned, age, submit, streamVars>>

\* Artifacts, row, usage and retention commit together.  Artifact rows are
\* unique per job and kind: with a bundle already there the insert raises.
ApplySuccess(r) ==
    /\ segment[r].task = "apply"
    /\ duty[r].msg.verdict = "succeeded"
    /\ stamp[segment[r].job] = 0
    /\ LET s == segment[r]
           recorded == [stamp EXCEPT ![s.job] = clock + 1]
       IN /\ row' = [row EXCEPT ![s.job] =
                        Flush(@, s.read, Finished("succeeded", "none"))]
          /\ stamp' = Retained(recorded)
          /\ pruned' = pruned \cup
                {j \in Jobs : recorded[j] > 0 /\ Retained(recorded)[j] = 0}
          /\ usage' = Billed(s.job, "succeeded")
    /\ clock' = clock + 1
    /\ segment' = [segment EXCEPT ![r] = NoSegment]
    /\ duty' = [duty EXCEPT ![r].task = "ack"]
    /\ UNCHANGED <<age, submit, streamVars>>

\* A unique constraint, or any other error of the transaction: rollback, nak.
ApplyRaises(r) ==
    /\ segment[r].task = "apply"
    /\ segment' = [segment EXCEPT ![r] = NoSegment]
    /\ results' = results \cup Redelivered(duty[r].msg)
    /\ duty' = [duty EXCEPT ![r] = Idle]
    /\ UNCHANGED <<dbVars, age, submit, requests, window, running, resultWindow>>

AckResult(r) ==
    /\ duty[r].task = "ack"
    /\ segment[r] = NoSegment
    /\ duty' = [duty EXCEPT ![r] = Idle]
    /\ UNCHANGED <<dbVars, age, submit, segment, streamVars>>

----
(* Recovery, by the consumer coroutine between two fetches.                *)

RepublishRead(r, j) ==
    /\ duty[r] = Idle
    /\ segment[r] = NoSegment
    /\ row[j].status = "queued"
    /\ row[j].code = "publish_pending"
    /\ age[j] >= RepublishAge
    /\ duty' = [duty EXCEPT
                   ![r] = [task |-> "republish", job |-> j, read |-> row[j]]]
    /\ UNCHANGED <<dbVars, age, submit, segment, streamVars>>

\* The publish awaits, so the row may have changed since it was read; the
\* job is not marked dispatched, and stays queued.
RepublishSend(r) ==
    /\ duty[r].task = "republish"
    /\ segment[r] = NoSegment
    /\ StoreRequest(duty[r].job)
    /\ duty' = [duty EXCEPT ![r] = Idle]
    /\ UNCHANGED <<dbVars, age, submit, segment, running, results, resultWindow>>

\* The snapshot no longer fits compile_request_max_bytes: failed, from the
\* row read earlier.
RepublishRefuse(r) ==
    /\ duty[r].task = "republish"
    /\ segment[r] = NoSegment
    /\ LET d == duty[r]
       IN row' = [row EXCEPT ![d.job] =
                     Flush(@, d.read, Finished("failed", "rejected"))]
    /\ duty' = [duty EXCEPT ![r] = Idle]
    /\ UNCHANGED <<stamp, clock, pruned, usage, age, submit, segment, streamVars>>

\* The publish raised: the rest of this pass is skipped.
RepublishRaises(r) ==
    /\ duty[r].task = "republish"
    /\ segment[r] = NoSegment
    /\ duty' = [duty EXCEPT ![r] = Idle]
    /\ UNCHANGED <<dbVars, age, submit, segment, streamVars>>

ReapRead(r, j) ==
    /\ duty[r] = Idle
    /\ segment[r] = NoSegment
    /\ StaleRunning(j)
    /\ segment' = [segment EXCEPT
                      ![r] = [task |-> "reap", job |-> j, read |-> row[j]]]
    /\ UNCHANGED <<dbVars, age, submit, duty, streamVars>>

ReapCommit(r) ==
    /\ segment[r].task = "reap"
    /\ LET s == segment[r]
       IN row' = [row EXCEPT ![s.job] =
                     Flush(@, s.read, Finished("failed", "worker_lost"))]
    /\ segment' = [segment EXCEPT ![r] = NoSegment]
    /\ UNCHANGED <<stamp, clock, pruned, usage, age, submit, duty, streamVars>>

\* A replica stops: its open transaction is rolled back, what it had taken
\* from the stream is redelivered if a delivery is left.  An ack that raises
\* ends the same way.
ReplicaStops(r) ==
    /\ segment[r] # NoSegment \/ duty[r] # Idle
    /\ segment' = [segment EXCEPT ![r] = NoSegment]
    /\ submit' = IF segment[r].task = "pending"
                 THEN [submit EXCEPT ![segment[r].job] = "done"]
                 ELSE submit
    /\ duty' = [duty EXCEPT ![r] = Idle]
    /\ results' = results \cup
          (IF duty[r].task \in {"apply", "ack"} THEN Redelivered(duty[r].msg)
                                                ELSE {})
    /\ UNCHANGED <<dbVars, age, requests, window, running, resultWindow>>

----
(* The status endpoint, in a worker thread: one conditional UPDATE.        *)

Poll(j) ==
    /\ StaleRunning(j) \/ StaleQueued(j)
    /\ row' = [row EXCEPT ![j] = Finished("failed", "worker_lost")]
    /\ UNCHANGED <<stamp, clock, pruned, usage, age, submit, segment, duty,
                   streamVars>>

----
Endpoint(j) ==
    \/ DispatchCommit(j)
    \/ RefuseOversized(j)
    \/ SubmitRolledBack(j)
    \/ PublishAcked(j)
    \/ PublishRaised(j)
    \/ EndpointDies(j)

Stream(j) ==
    \/ RequestIdForgotten(j)
    \/ \E v \in Verdicts : ResultIdForgotten(<<j, v>>)

Worker ==
    \/ \E m \in requests : Deliver(m)
    \/ \E w \in running :
          \/ \E v \in Verdicts : PublishResult(w, v)
          \/ AckRequest(w)
          \/ WorkerLost(w)

Apply(r) == ApplyFailure(r) \/ ApplySuccess(r) \/ ApplyRaises(r)

Consumer(r) ==
    \/ \E m \in results : TakeResult(r, m)
    \/ IgnoreResult(r)
    \/ ApplyRead(r)
    \/ Apply(r)
    \/ AckResult(r)

Republish(r) == RepublishSend(r) \/ RepublishRefuse(r) \/ RepublishRaises(r)

Recovery(r) ==
    \/ \E j \in Jobs : RepublishRead(r, j) \/ ReapRead(r, j)
    \/ Republish(r)
    \/ ReapCommit(r)

Next ==
    \/ \E j \in Jobs : Endpoint(j) \/ Stream(j) \/ Aged(j) \/ Poll(j)
    \/ Worker
    \/ \E r \in Replicas :
          \/ \E j \in Jobs : PendingRead(r, j)
          \/ PendingCommit(r)
          \/ Consumer(r)
          \/ Recovery(r)
          \/ ReplicaStops(r)

Spec == Init /\ [][Next]_vars

----
(* Safety.                                                                 *)

\* Whatever the four writers interleave, a job that reads succeeded has a
\* recorded bundle (retention may have deleted it since) and a usage row, and
\* a success is never billed for a job that has recorded none: the four
\* writes of apply_compile_result are one transaction.
SuccessIsComplete ==
    \A j \in Jobs :
        /\ row[j].status = "succeeded" =>
              (stamp[j] > 0 \/ j \in pruned) /\ usage[j] # "none"
        /\ usage[j] = "succeeded" => stamp[j] > 0 \/ j \in pruned

\* A second execution of a job, which republishing allows, never replaces the
\* artifacts that clients may already be showing, nor what was billed.
OutcomeIsWrittenOnce ==
    [][\A j \in Jobs :
          /\ stamp[j] > 0 /\ stamp'[j] > 0 => stamp'[j] = stamp[j]
          /\ usage[j] # "none" => usage'[j] = usage[j]]_vars

\* Retention keeps exactly the newest bundles of the project: it never holds
\* more than the limit and never deletes one while an older one stays.
HeldBundlesAreNewest ==
    {stamp[j] : j \in {j \in Jobs : stamp[j] > 0}}
        = {n \in 1..clock : n + KeepLatest > clock}

\* With one API process the rows clients see follow the abstract view.
View == INSTANCE CompileJobView WITH
            status <- [j \in Jobs |-> row[j].status],
            recorded <- {j \in Jobs : stamp[j] > 0 \/ j \in pruned},
            requeued <- {j \in Jobs : submit[j] = "requeued"}

ImplementsView == View!Spec

\* What the plans say of a finished job: its status never becomes another
\* final status ("double-completion prevented", billing plan).
NoDoubleCompletion ==
    [][\A j \in Jobs :
          row[j].status \in Terminal /\ row'[j].status \in Terminal
              => row'[j].status = row[j].status]_vars

\* What the hardening plan says of a publish that raised: polling eventually
\* shows the job's result.  At least, a recorded success never ends failed.
RecordedResultIsShown ==
    [][\A j \in Jobs :
          stamp[j] > 0 /\ row[j].status # "failed"
              => row'[j].status # "failed"]_vars

----
(* Liveness.  Each property names the fairness it needs.                   *)

Settled(j) == row[j].status \in {"absent"} \cup Terminal

\* While the client polls, every committed job ends for good, whatever else
\* stops: the poll fails what is too old to be running or queued.
PolledJobsSettle ==
    \A j \in Jobs :
        WF_vars(Aged(j)) /\ WF_vars(Poll(j)) => <>[]Settled(j)

\* The coroutine finishes what it started and, as long as the publishes of the
\* republish step do not raise for ever (which skips the rest of the pass) and
\* the process is not restarted for ever, gets to the running jobs again and
\* again.
Undisturbed == <>[][\A r \in Replicas : ~ReplicaStops(r) /\ ~RepublishRaises(r)]_vars

ConsumerFairness(r) ==
    /\ WF_vars(Apply(r))
    /\ WF_vars(IgnoreResult(r))
    /\ WF_vars(ApplyRead(r))
    /\ WF_vars(AckResult(r))
    /\ WF_vars(Republish(r))
    /\ WF_vars(PendingCommit(r))
    /\ WF_vars(ReapCommit(r))
    /\ \A j \in Jobs : SF_vars(ReapRead(r, j))

\* Nobody polling, the recovery pass alone still ends every running job.
RunningJobsAreReaped ==
    \A j \in Jobs :
        WF_vars(Aged(j)) /\ Undisturbed /\ (\A r \in Replicas : ConsumerFairness(r))
            => [](row[j].status = "running" => <>(row[j].status # "running"))
=============================================================================
