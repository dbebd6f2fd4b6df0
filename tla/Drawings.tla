------------------------------ MODULE Drawings ------------------------------
(***************************************************************************)
(* The Timus drafting data of one project: builds that clients trigger and *)
(* poll, and the views a download serves.  A build is a compile job of     *)
(* format timus_views, but its endpoint marks it running before it         *)
(* publishes the command and gives up a running one on its own, after      *)
(* TIMUS_BUILD_TIMEOUT_SECONDS.  Several API processes run the endpoints;  *)
(* the worker, the result consumer and the recovery pass are those of      *)
(* CompileJobs, here with one step each.                                   *)
(*                                                                         *)
(* The code compares times.  What the comparisons tell apart is kept       *)
(* instead: whether design.py was saved since the views were recorded, and *)
(* which builds failed since then.                                         *)
(***************************************************************************)
EXTENDS Naturals, Sequences, SequencesExt, FiniteSets

CONSTANTS
    Builds,    \* requests to build, each with the job it may create
    MaxEdits,  \* bound: saves of design.py
    MaxLost,   \* bound: commands and results the stream or the worker loses
    NoBuild

ASSUME DrawingsAssumption == MaxEdits \in Nat /\ MaxLost \in Nat /\ NoBuild \notin Builds

VARIABLES
    version,   \* of design.py
    views,     \* the latest artifact: its version, whether design.py is newer
    late,      \* builds that failed after the latest artifact was recorded
    build,     \* of each build: where its request stands, the job it found
    polled,    \* the job a poll of the status found abandoned
    job,       \* of each build: its job's status, age and source version
    made,      \* the jobs, in the order of their creation
    commands,  \* builds with a command in the stream or at a worker
    outcomes,  \* results in the stream
    applying,  \* the result the consumer has read its job for
    lost       \* messages lost so far

drawingVars == <<version, views, late, build, polled, job, made, commands, outcomes, applying,
                 lost>>

NoViews == [of |-> 0, outdated |-> FALSE]
InProgress == {"queued", "running"}
RequestStates == {"new", "found", "creating", "publishing", "unpublished", "answered"}
Verdicts == {"succeeded", "failed"}

\* Ages: within both limits, past TIMUS_BUILD_TIMEOUT_SECONDS (600 s), past
\* the recovery pass's compile_timeout_seconds + 30.
Ages == 0..2
Abandoned(b) == job[b].status = "running" /\ job[b].age >= 1

DrawingsInit ==
    /\ version = 1 /\ views = NoViews /\ late = {}
    /\ build = [b \in Builds |-> [state |-> "new", found |-> NoBuild]]
    /\ polled = NoBuild
    /\ job = [b \in Builds |-> [status |-> "absent", age |-> 0, of |-> 0]]
    /\ made = <<>> /\ commands = {} /\ outcomes = {}
    /\ applying = [of |-> NoBuild, verdict |-> "none"]
    /\ lost = 0

\* The queued or running job that was created last, if there is one.
Current ==
    LET open == SelectSeq(made, LAMBDA b : job[b].status \in InProgress)
    IN  IF open = <<>> THEN NoBuild ELSE Last(open)

\* finish_job(..., "failed"), whatever the job is by then.
Fails(b) == job' = [job EXCEPT ![b].status = "failed"] /\ late' = late \cup {b}

Request(b, state) == build' = [build EXCEPT ![b] = [state |-> state, found |-> NoBuild]]

----
(* trigger_drafting_build.                                                 *)

\* A job in progress answers the request, unless it is abandoned.
LookForBuild(b) ==
    /\ build[b].state = "new"
    /\ IF Current = NoBuild THEN Request(b, "creating")
       ELSE IF Abandoned(Current)
       THEN build' = [build EXCEPT ![b] = [state |-> "found", found |-> Current]]
       ELSE Request(b, "answered")
    /\ UNCHANGED <<version, views, late, polled, job, made, commands, outcomes, applying, lost>>

\* _expire_abandoned_timus_job: nothing is read again.
ExpireFound(b) ==
    /\ build[b].state = "found"
    /\ Fails(build[b].found)
    /\ Request(b, "creating")
    /\ UNCHANGED <<version, views, polled, made, commands, outcomes, applying, lost>>

Created(b, status) == [job EXCEPT ![b] = [status |-> status, age |-> 0, of |-> version]]

\* The job with its snapshot is committed as running, before the publish.
CreateBuild(b) ==
    /\ build[b].state = "creating"
    /\ job' = Created(b, "running") /\ made' = Append(made, b)
    /\ Request(b, "publishing")
    /\ UNCHANGED <<version, views, late, polled, commands, outcomes, applying, lost>>

\* The snapshot is too large for a message: 413.
RefuseBuild(b) ==
    /\ build[b].state = "creating"
    /\ job' = Created(b, "failed") /\ made' = Append(made, b) /\ late' = late \cup {b}
    /\ Request(b, "answered")
    /\ UNCHANGED <<version, views, polled, commands, outcomes, applying, lost>>

PublishBuild(b) ==
    /\ build[b].state = "publishing"
    /\ commands' = commands \cup {b}
    /\ Request(b, "answered")
    /\ UNCHANGED <<version, views, late, polled, job, made, outcomes, applying, lost>>

\* The publish raises; the stream may have stored the command.
PublishFails(b) ==
    /\ build[b].state = "publishing"
    /\ commands' \in {commands, commands \cup {b}}
    /\ Request(b, "unpublished")
    /\ UNCHANGED <<version, views, late, polled, job, made, outcomes, applying, lost>>

\* mark_job_publish_pending, whatever the job is by then: 503.
BuildPending(b) ==
    /\ build[b].state = "unpublished"
    /\ job' = [job EXCEPT ![b].status = "queued"]
    /\ Request(b, "answered")
    /\ UNCHANGED <<version, views, late, polled, made, commands, outcomes, applying, lost>>

\* The process stops in the middle of the request.
RequestDies(b) ==
    /\ build[b].state \notin {"new", "answered"}
    /\ Request(b, "answered")
    /\ UNCHANGED <<version, views, late, polled, job, made, commands, outcomes, applying, lost>>

----
(* get_drafting_status and the downloads.                                  *)

\* A poll that finds an abandoned job fails it, as the trigger does: it is not
\* read again.
PollReads ==
    /\ polled = NoBuild /\ Current # NoBuild /\ Abandoned(Current)
    /\ polled' = Current
    /\ UNCHANGED <<version, views, late, build, job, made, commands, outcomes, applying, lost>>

PollExpires ==
    /\ polled # NoBuild
    /\ Fails(polled)
    /\ polled' = NoBuild
    /\ UNCHANGED <<version, views, build, made, commands, outcomes, applying, lost>>

LastFailed == made # <<>> /\ job[Last(made)].status = "failed"

DraftingStatus ==
    IF Current # NoBuild THEN "building"
    ELSE IF views = NoViews THEN IF LastFailed THEN "failed" ELSE "none"
    ELSE IF views.outdated THEN "stale"
    ELSE IF LastFailed /\ Last(made) \in late THEN "failed" ELSE "ready"

\* _artifact_is_current_for_design: else the download answers 409.
Downloadable == views # NoViews /\ ~views.outdated

SaveDesign ==
    /\ version <= MaxEdits
    /\ version' = version + 1
    /\ views' = [views EXCEPT !.outdated = views # NoViews]
    /\ UNCHANGED <<late, build, polled, job, made, commands, outcomes, applying, lost>>

----
(* The worker, the result consumer and the recovery pass.                  *)

WorkerReports(b) ==
    /\ b \in commands
    /\ commands' = commands \ {b}
    /\ \E verdict \in Verdicts : outcomes' = outcomes \cup {[of |-> b, verdict |-> verdict]}
    /\ UNCHANGED <<version, views, late, build, polled, job, made, applying, lost>>

MessageLost ==
    /\ lost < MaxLost /\ lost' = lost + 1
    /\ \/ \E b \in commands : commands' = commands \ {b} /\ UNCHANGED outcomes
       \/ \E o \in outcomes : outcomes' = outcomes \ {o} /\ UNCHANGED commands
    /\ UNCHANGED <<version, views, late, build, polled, job, made, applying>>

NothingApplied == [of |-> NoBuild, verdict |-> "none"]

\* apply_compile_result reads the job: the result of one that is over is dropped.
ReadForResult ==
    /\ applying = NothingApplied
    /\ \E o \in outcomes :
          /\ outcomes' = outcomes \ {o}
          /\ applying' = IF job[o.of].status \in InProgress THEN o ELSE applying
    /\ UNCHANGED <<version, views, late, build, polled, job, made, commands, lost>>

RecordViews ==
    /\ applying.verdict = "succeeded"
    /\ views' = [of |-> job[applying.of].of, outdated |-> FALSE]
    /\ late' = {}
    /\ job' = [job EXCEPT ![applying.of].status = "succeeded"]
    /\ applying' = NothingApplied
    /\ UNCHANGED <<version, build, polled, made, commands, outcomes, lost>>

\* Retention counts the bundles of all formats: as many models compiled later
\* delete the views.
ViewsPruned ==
    /\ views # NoViews
    /\ views' = NoViews
    /\ UNCHANGED <<version, late, build, polled, job, made, commands, outcomes, applying, lost>>

RecordFailure ==
    /\ applying.verdict = "failed"
    /\ Fails(applying.of)
    /\ applying' = NothingApplied
    /\ UNCHANGED <<version, views, build, polled, made, commands, outcomes, lost>>

\* The recovery pass publishes a queued job's command again.
RepublishBuild(b) ==
    /\ job[b].status = "queued" /\ b \notin commands
    /\ commands' = commands \cup {b}
    /\ UNCHANGED <<version, views, late, build, polled, job, made, outcomes, applying, lost>>

MutRecoverBuild(b) ==
    /\ job[b].status = "running" /\ job[b].age = 2 /\ b \in commands
    /\ Fails(b)
    /\ UNCHANGED <<version, views, build, polled, made, commands, outcomes, applying, lost>>

\* It fails a running one that is past its limit.
RecoverBuild(b) ==
    /\ job[b].status = "running" /\ job[b].age = 2
    /\ Fails(b)
    /\ UNCHANGED <<version, views, build, polled, made, commands, outcomes, applying, lost>>

BuildAges(b) ==
    /\ job[b].status = "running" /\ job[b].age < 2
    /\ job' = [job EXCEPT ![b].age = @ + 1]
    /\ UNCHANGED <<version, views, late, build, polled, made, commands, outcomes, applying, lost>>

DrawingsNext ==
    \/ \E b \in Builds :
          \/ LookForBuild(b) \/ ExpireFound(b) \/ CreateBuild(b) \/ RefuseBuild(b)
          \/ PublishBuild(b) \/ PublishFails(b) \/ BuildPending(b) \/ RequestDies(b)
          \/ WorkerReports(b) \/ RepublishBuild(b) \/ RecoverBuild(b) \/ BuildAges(b)
    \/ PollReads \/ PollExpires \/ SaveDesign \/ MessageLost \/ ViewsPruned
    \/ ReadForResult \/ RecordViews \/ RecordFailure

DrawingsSpec == DrawingsInit /\ [][DrawingsNext]_drawingVars

\* Clients do not poll for ever; the consumer, the worker and the pass do what
\* there is to do, time passes, and a request goes on until its process stops.
DrawingsFairness ==
    /\ WF_drawingVars(ReadForResult \/ RecordViews \/ RecordFailure)
    /\ WF_drawingVars(\E b \in Builds : WorkerReports(b))
    /\ WF_drawingVars(\E b \in Builds : RepublishBuild(b) \/ RecoverBuild(b))
    /\ WF_drawingVars(\E b \in Builds : BuildAges(b))
    /\ WF_drawingVars(\E b \in Builds : \/ PublishBuild(b) \/ PublishFails(b)
                                         \/ BuildPending(b) \/ RequestDies(b))

----
(* Properties.                                                             *)

\* Every part of the state has its type.
DrawingsTypeOK ==
    /\ version \in 1..(MaxEdits + 1)
    /\ views \in [of : 0..version, outdated : BOOLEAN]
    /\ late \subseteq Builds /\ commands \subseteq Builds
    /\ polled \in Builds \cup {NoBuild}
    /\ build \in [Builds -> [state : RequestStates, found : Builds \cup {NoBuild}]]
    /\ job \in [Builds -> [status : {"absent"} \cup InProgress \cup Verdicts, age : Ages,
                           of : 0..version]]
    /\ made \in Seq(Builds)
    /\ outcomes \subseteq [of : Builds, verdict : Verdicts]
    /\ applying \in {NothingApplied} \cup [of : Builds, verdict : Verdicts]
    /\ lost \in 0..MaxLost

\* Drafting is not blocked for ever: although the endpoint commits the job as
\* running before it publishes, and may stop there, and although the command
\* or the result may be lost, the status stops saying "building".
BuildsEnd == DraftingStatus = "building" ~> DraftingStatus # "building"

\* Contradicted by the code: "stale-artifact rejection after design.py
\* changes" (docs/drafting/architectural-drawing-sets.md).  An artifact is as
\* old as its result, not as the snapshot it was built from.
ServedViewsAreCurrent == DraftingStatus = "ready" /\ Downloadable => views.of = version
=============================================================================
