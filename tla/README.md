# Tertius: a TLA+ model

Tertius is a CAD and structural design platform: a React UI, a FastAPI server,
PostgreSQL, NATS JetStream, one-shot worker pods and a GIS service. This directory
holds TLA+ modules of its protocols and of the decisions of its structural analysis,
TLC configurations that check them on small instances, and TLAPS proofs of the
properties that matter most. The modules are translated from `src/server` and, for the
site workbench, from `src/ui`; every definition names its lines in `PROJECT.json`
(`map`).

Contents: [parts](#the-system), [what is hard](#what-is-hard),
[modules](#the-modules), [runs and bounds](#runs),
[fairness](#fairness), [proofs](#proofs), [findings](#findings),
[observations](#observations-without-a-run), [not modelled](#not-modelled),
[plan](#plan).

## The system

One API process serves all sub-applications (`server/main.py`) and runs three
background coroutines in its lifespan (`main.py:133-143`): the compile result
consumer, the Pi agent result consumer and the observer of active jobs. Endpoints
are `async` (on the event loop) or plain functions (on a thread pool). State is in
PostgreSQL, READ COMMITTED, through SQLAlchemy sessions with `autoflush=False`;
messages are in JetStream. The Helm chart runs one replica with a rolling update,
so two API processes overlap at every deployment.

| Part | State | Operations | Module |
|---|---|---|---|
| Compile pipeline (`intus_server.py`, `compile_result_consumer.py`, `compile_job.py`) | `compile_jobs`, artifacts, usage rows; two stream subjects | start, poll, run, apply result, republish, fail stale, retain | `CompileJobs`, `CompileJobView` |
| Compile session (`tertius/session.py`, `graph.py`) | components, connections, nodes, cached parts | register, connect, finalise; record, rebind, replay a part | `DesignSession` |
| Component cache (`component_cache.py`) | two objects per entry and a manifest in the object store, a folder per pod | restore under a budget, hit, build, save, upload | `ComponentCache` |
| AI edits (`intus_server.py`, `pi_agent_result_consumer.py`, `pi_agent_job.py`) | `llm_edit_jobs` with the dispatched manifest, usage records; requests and results in a stream | start, run, bill, stage, apply, sweep, reconcile, poll | `PiAgentEdits` |
| Progress of AI edits (`pi_agent_progress.py`, `pi_agent_job.py`) | batcher, bounded queue, snapshot on the job row | batch, publish, retry, split, apply | `PiAgentProgress` |
| Agent process (`pi_agent_rpc.py`) | pending answers, bounded queue of events | request, read, settle, time out, stop | `PiAgentProcess` |
| Conversation of AI edits (`pi_agent_conversation.py`) | a context on each job | derive from the last one, rebuild from rows | `Conversations` |
| Project files (`repositories.py`) | files, snapshots, project row | save, delete, apply an edit | `ProjectWrites`, `PiAgentEdits` |
| Structural results (`structural_server.py`, `analysis_cache.py`, `report_exports.py`) | configuration revisions, cached analyses, reports | save, analyse under an advisory lock, review, export | `StructuralResults` |
| Structural authoring (`authoring_runtime.py`, `design_capture.py`, `contracts.py`) | a declaration being built | calls that declare structure, executed and read from the text; capture | `StructuralAuthoring` |
| Structural projection (`projections.py`, `structural_server.py`, `contracts.py`) | the compiled design, saved settings | cut into segments, tie nodes, move loads and checks, capture | `StructuralProjection` |
| Structural checks (`project_analysis.py`) | one analysis: stages, verdicts, evidence | ties, connections, braces, stability, deflections, gates, certificate | `StructuralChecks` |
| Site and wind (`site_definition.py`, `site_wind.py`, `site_server.py`, `SiteWorkbench.tsx`, `wind_surface_action_packs.py`) | `tertius_site.py`, the workbench's draft, evidence of multipliers | edit, save, patch, look up, adopt; loads of a portal frame | `SiteBasis`, `WindActions` |
| Timus drawings (`timus_server.py`) | drawing jobs, recorded views | trigger, expire, record, poll, download | `Drawings` |
| Sign-in (`auth.py`, `main.py`, `provisioning.py`) | session rows, the cookie, accounts | sign in, request, refresh, sign out, provision | `Sessions` |
| Share links, viewer (`share_links.py`, `extus_server.py`, `compile_result_consumer.py`) | links, bundles, scene assets of a tenant | create, revoke, rotate the key, receive, drop, view | `SharedViews` |
| GIS service (`gis_cache/`) | cached files, evidence store, address index | acquire, fall back, store, sync, restart | `GisCache` |
| Usage limits, sandbox, CAD runtime, engineering formulas, report texts, modelling library, UI, infra | | | [not modelled](#not-modelled) |

How they meet: the compile worker restores the component cache, runs the design in the
sandbox (where the compile session lives) and publishes a result, which the API applies;
the workbenches read what the compile left, each with its own cache and its own idea of
what is current. AI edits are compile-like jobs whose result is a change of project
files; their progress, their agent process and their conversation are parts of one edit
that share with it only the job's identity. A structural analysis goes design and
settings → projection → capture → checks → certificate, with the site's wind joining at
the projection. The result is cached by a key of its inputs.

What makes each part correct:

- Compile: a success has its bundle and its usage row; an outcome is written once;
  a job ends; what was recorded is what is shown; retention keeps the newest.
- Session and cache: a replayed part is a built one; a sidecar says an entry is whole;
  a manifest names what is stored; the budget holds.
- AI edits: one active edit per project; an edit replaces only what it saw; each
  execution is billed and recorded once; a job that is over stays so; an edit ends;
  its progress is of one execution, in order, before the result; the agent's failure is
  never overlooked; the agent is told the end of the history, whole.
- Files: a snapshot is the project; writers that wait for each other all end.
- Structural: one solve per input; a report is of the reviewed result; reading a
  declaration gives what running it gives; every load reaches the ground and is carried
  by the segments; a certificate is earned.
- Site and wind: evidence that counts as fresh was computed for this site; a load is
  of the wind of its face.
- Drawings, views: what is served is of the design; a build ends; a scene has its assets;
  a link opens its project only.
- Sign-in: an ended session stays ended; one user, one account.
- GIS: an answer can be served; a synced index is searchable.

## What is hard

`PROJECT.json` lists each hazard at its line. The main kinds:

- *Read, decide, write without a lock.* `apply_compile_result`, the republish step
  and the stale-job pass load a row, decide in Python and flush the changed columns
  in a later statement. A status poll writes the same row from another thread.
- *Two stores.* A row is committed before its message is published, and a message
  is acked after its row is committed. Each gap can be a crash.
- *At-least-once delivery.* Requests and results are redelivered after `ack_wait`,
  a cut-off worker goes on beside its replacement, and duplicate suppression ends
  with the stream's duplicate window.
- *Locks given up and taken again.* The AI edit consumer locks the job, releases it
  to publish the billing event, locks it again, and after a version conflict rolls
  back and locks it a third time.
- *Two API processes* during a rolling update: nothing keeps them apart but rows.
- *Two stores of one truth.* A design is executed and also read; a part is built and
  also replayed; settings are saved for one design and applied to another; evidence is
  computed for one site and shown with another. Each pair has to agree.
- *Entries made of several objects*, written one after the other by processes that
  overlap and stop: cache entries, manifests, an index and its replacement.

## The modules

### CompileJobs

`row` is the `compile_jobs` row (status, error code), `stamp`/`clock`/`pruned` the
artifact bundles and their retention, `usage` the billed status, `submit` where the
endpoint's coroutine stands, `duty` and `segment` what each replica's consumer is
doing, and `requests`, `running`, `results` the stream with its two duplicate windows.

An action is a statement sequence that nothing of the same event loop interrupts. A
transaction that reads, decides and writes without a lock is two actions (`ApplyRead`
and `ApplySuccess`/`ApplyFailure`, `RepublishRead` and `RepublishSend`, `ReapRead` and
`ReapCommit`, `PendingRead` and `PendingCommit`). `segment` keeps the event loop of a
replica inside one such section at a time: between them it never awaits. Only polls
(`Poll`, on a thread) and other replicas come in between. `Flush` writes the columns
that differ from what was read, which is what the unit of work sends: a column that the
code assigned its old value is not written.

`age` is abstract time: past the republish threshold (60 s), the running limit
(`compile_timeout_seconds` + 30) and the queued limit, in that order.

### CompileJobView

What a polling client may rely on with one API process: a job is committed running or
failed, ends, and a success has a bundle. It includes two movements against the grain
that the code makes: a late result may turn a failed job into a succeeded one, and the
endpoint's error handler may re-queue a job, once. `CompileJobs` implements it under
the mapping `View` (run `compile_solo`, theorem `ViewImplemented`).

### PiAgentEdits

`row` is the `llm_edit_jobs` row (status, code, whether the payload holds a dispatch
time), `manifest` the file version dispatched, `file`/`edited` the source, `billed`
and `recorded` the billing stream and the usage records, `submit` the start request,
`duty` the consumer coroutine of each replica, `reaping` the threads that serve
polls. The files an edit touches are one file: the code treats them alike.

Row locks are modelled by who holds them: `ProjectLocked` (the start endpoint between
its check and its commit), `JobLocked` (the consumer from its second
`SELECT ... FOR UPDATE` to the commit), `FileLocked` (`stage_file_updates`). A write
waits for the lock, a plain read does not. A result goes through
`TakeResult`, `CheckResult`, `BillResult`, then `ApplyLock` and one of
`ApplyFailure`, `ApplyUnchanged`, `StageFiles`/`ApplyEdit`, `StageMissing`, or
`ApplyConflict`/`IgnoreConflict` after the rollback of a version conflict, then
`AckResult`; `ApplyDuplicate` is the branch for what is over. An execution is one
delivery of one stored request, as the execution id is.

The sweep lists the queued jobs of all projects (`SweepList`), and reads each when it
comes to it (`SweepRead`: the first from the list itself, later ones again, because the
commit for an earlier one expires the session); then compares the files, refuses or
writes the payload back (`SweepResend`), publishes, and marks the job dispatched. The
write-back replaces the whole JSON payload by the one read, which the model keeps in
`dated`. `Reconcile` is the consumer's own pass over stale jobs; `ReapRead` and
`ReapCommit` the same by a poll, on a thread.

Three choices over-approximate the code: any replica may take a step of any start
request; the 30 s back-off between republications may always be over; the stream may
lose its oldest messages at any time.

### PiAgentProgress, PiAgentProcess, Conversations

`PiAgentProgress` has, per execution of a request, the `batcher` (what is pending, the
next number, the bounded queue, the timer), the `publisher` with its batch and attempts,
and `phase`; `stored` and `answers` are the batches and results the stream ever held
(they are applied in any order and again), `shown` is the snapshot on the row. The publisher retries, splits a batch that is too large and gives up; a full queue
gives progress back to the batcher. `startedAt` is what each worker's clock said, which
is all the consumer can order executions by.

`PiAgentProcess` is `run_pi_agent`: `step` is where it waits, `answered` and `queue` what
the reader task filed, `lines` what the agent wrote. The agent
writes any line at any time, breaks off, never answers or ignores being stopped; answers
overtake events; a burst overflows the queue.

`Conversations` has one variable, the project's edits (`chats`) with the context stored
on each. A turn costs what its kind of request does; limits are in the same unit.

### ComponentCache, DesignSession

In `ComponentCache` an object is absent, whole or corrupt (its name determines its
bytes): `folder` is a pod's, `object` the bucket's, `manifest` a project's. `stage` is
where a compile stands: it fetches, builds, and saves after its result is out; a pod
takes one compile after the other until its budget is used up, and may stop between any
two writes. `faults` are objects that expired or rotted.

`DesignSession` executes each statement of a design twice: by `session`, which replays
cached parts, and by `plain`, which always builds. `cadcache` is external and calls back
as the code registers it: validate before a save, rebind after, replay on a hit. Compiles
follow each other with the same cache and other statements.

### StructuralResults, Drawings, ProjectWrites

Each is a set of requests that run as transactions, one action per statement, with what
its statement saw kept in the request (`asked`, `build`, `writer`). `StructuralResults`
has the advisory lock per key, the row lock a deletion of an unreadable row keeps, and
the unique constraints that make a later writer wait or fail. `Drawings` keeps what the
comparisons of times tell apart. `ProjectWrites` has the row locks of files and project,
waiting, and PostgreSQL's deadlock detection (`DeadlockDetected`).

### StructuralAuthoring, StructuralProjection, StructuralChecks

`StructuralAuthoring` is a sequence of statements (`design_`), taken one after the other
by execution (`run`) and by reading (`reading`), each with its model; `captured` is what
the contracts make of the two. A *departure* is a statement other than the design's:
left out, or with something wrong or unusual in it (a keyword or an empty list that only
execution takes, an empty text, a `try` block, another point). Points are whole numbers; two within `Close` are one.

`StructuralProjection` computes, for one `layout` and one `settings` saved for any
layout, stations, segments, nodes, supports, releases, restraint candidates, loads and
checks, and what the contract says of them, in the order of the request.

`StructuralChecks` goes through the stages of one analysis (`stage`), from new over
topology, response, tension members, connections, bracing, member stability and diagrams
to the assembled document and its evidence, or ends refused or crashed. A frame gives
each resistance as known or lacking and each demand as within or over it.

### SiteBasis, WindActions

`SiteBasis` is the file (`file`, missing and unreadable included), one `draft` per
workbench with its save (`sending`) and its lookups (`asking`) under way, and the placement and terrain endpoints that read,
patch and write the file in two steps. What a saved site stands for (`FaceBasis`,
`Stale`, `Speed`) are operators over it. `WindActions` extends it: `phase` goes through
the steps of a request, from what is measured of the building (`shape`) to action cases,
surface loads, loads on members, combinations and sway checks (`combined`), in the order
of the code.

### Sessions, SharedViews, GisCache

`Sessions` is one browser: `jar` (its cookie), the session rows (`signed`), what the
provider knows (`grant`), accounts and the requests under way (`asking`), each statement
an action. `SharedViews` is what
results, owner and viewers do to one tenant: assets, bundles, links, the signing key, and
views that read link, project, bundle, scene and asset one after the other. `GisCache`
models file names that lead to file objects, because requests for one place share the
name of a temporary file; `sync` is the background thread that replaces the index.

### MC modules, proof modules

`MCCompileJobs` and `MCPiAgentEdits` add symmetry, bounds and, the first, a choice of two
instances (`mode`). `MCWorkers` joins eight parts and `MCApi` nine parts that share no
state: `focus` chooses one per behaviour and the others stay where they began, so a run
explores the sum of their state spaces and not the product. `MCStructuralChecks`,
`MCStructuralAuthoring`, `MCSiteBasis` and `MCWindActions` define the frames, designs,
tables and buildings.

The theorems are in eight modules: `CompileJobsProofs`, `PiAgentProofs`
(`PiAgentEdits`, `PiAgentProgress`), `WorkerProofs` (`PiAgentProcess`, `ComponentCache`,
`DesignSession`), `LockingProofs` (`ProjectWrites`, `StructuralResults`, `Conversations`,
`StructuralProjection`),
`AccessProofs` (`Sessions`, `SharedViews`), `SiteProofs` (`GisCache`, `SiteBasis`,
`StructuralChecks`, `WindActions`), `AuthoringProofs` (`StructuralAuthoring`) and
`CountingLemmas`, which the proofs about folds share. Definitions whose names start with `Mut` are altered forms of the code: each property of a passing run is shown to fail when
one of them replaces its original.

## Runs

| Run | Module | Instance | Shows |
|---|---|---|---|
| `compile_many` | `MCCompileJobs` | 1 job, 2 replicas, 2 copies; or 2 jobs, 1 replica, limit 0 | two processes and two copies of a request: one bundle, one bill; results in any order: exactly the newest bundle stays |
| `compile_solo` | `CompileJobs` | 1 job, 1 replica, 2 deliveries | the view is implemented, jobs end with or without polls |
| `compile_double`, `compile_shown` | `CompileJobs` | 1 job, 1 replica | violated: findings 1 and 2 |
| `pi_duo` | `MCPiAgentEdits` | 1 job, 2 replicas, 1 poller, 2 deliveries of a result | two processes on one result, saves in between |
| `pi_jobs` | `MCPiAgentEdits` | 2 jobs, 1 replica, nobody polls | a late result beside the next edit; what findings 3 and 4 refute holds here |
| `pi_terminal`, `pi_stale` | `MCPiAgentEdits` | 1 job, 1 replica and 1 poller; 1 job, 2 replicas | violated: findings 3 and 4 |
| `workers` | `MCWorkers` | eight parts, see below | progress, agent process, cache, session, GIS, sign-in, views, and a polled edit that ends |
| `api` | `MCApi` | nine parts, see below | results, drawings, writes, projection, checks, authoring, site, wind, conversation |
| `drawings` | `Drawings` | 1 build, 1 save | violated: finding 5 |
| `packs` | `MCStructuralChecks` | the frames | violated: finding 6 |

Distinct states: `compile_many` 543 k, `compile_solo` 72 k, `pi_duo` 1.9 M, `pi_jobs`
3.1 M, `workers` 559 k, `api` 199 k. The longest takes some three and a half minutes with
two workers. Run one with `tlc -workers 2 -config <run>.cfg <module>.tla`.

What the properties of the two joint runs say:

| Property | Of | Says |
|---|---|---|
| `ShownIsOneExecution` | `PiAgentProgress` | stored batches have no gap; a job's progress is of one execution, in order, and of the one whose result ended it |
| `ResultIsLast` | | no batch of an execution is stored behind its result |
| `ClosingEnds` (liveness) | | closing a batcher ends by its publisher alone |
| `SuccessSawEverything` | `PiAgentProcess` | a run succeeds only if nothing the agent wrote before was a failure, malformed or over a limit |
| `RunEndsClean` (liveness) | | a run ends and leaves no process |
| `CacheIsSound` | `ComponentCache` | a sidecar is written last, a manifest names what was stored, the budget is kept |
| `ReplayIsBuilding` | `DesignSession` | the session with replayed parts is the one that builds them, and fails when that does |
| `EntriesAreServable`, `SyncedIsSearchable` | `GisCache` | an answer can be served, what is left on disk is whole; a completed sync can be searched |
| `SessionsAreSound` | `Sessions` | an ended session stays ended and ended for a cause; one account with all its rows |
| `ViewsAreWhole` | `SharedViews` | a served scene has its assets; a link opens its project only; a newest bundle is always left |
| `PolledEditsSettle` (liveness) | `PiAgentEdits` | an edit that is polled ends |
| `NoDuplicateSolve`, `ReportIsOfReviewed`, `RequestsAreAnswered` (liveness) | `StructuralResults` | one solve per key; a report is of the reviewed result; every request is answered |
| `BuildsEnd` (liveness) | `Drawings` | the status stops saying "building" |
| `SnapshotIsWhole`, `WritesEnd` (liveness) | `ProjectWrites` | the last snapshot is the project; every writer ends |
| `CaptureIsSound` | `StructuralProjection` | a capture passes its contract whatever the settings were saved for, but for what neither the compile nor a save checks; each distance of a line load is loaded once; ends of segments share a node exactly when ties lead from one to the other |
| `BracesReachGround`, `CertificateIsEarned` | `StructuralChecks` | what a passing brace trace stands on; a drafted certificate stands on connections each shown to be within its resistance, by a calculation about its connectors, its own pack or its tie, on braces held to ground by two ends, and on members, restraints and wind with nothing missing |
| `DeclarationIsManifest`, `ManifestIsCaptured`, `DeclaredIsDerived` | `StructuralAuthoring`, `MCStructuralAuthoring` | reading agrees with execution; what execution generates is captured; load paths reach the ground, derived segments tile their member |
| `SiteIsSound` | `SiteBasis` | evidence that is not stale was computed for this site; the basis of a face is that of its worst sector |
| `WindIsCarried` | `WindActions` | loads meet the wind they are of, the envelope is loaded, opposite winds mirror each other, combinations have their loads |
| `HistoryIsTold` | `Conversations` | a context is the end of the history: nothing twice, out of order or left out in between, within the limits |

Bounds of the two pipelines:

- *One job, two replicas* contains every race for a row: the rows of other jobs are
  touched by none of these steps. What relates jobs has two; a third adds no new pair.
- *Two replicas* is what a rolling update makes (`replicaCount: 1`).
- `MaxDeliver` is 1 in the chart for compile requests, on purpose
  (`docs/configuration-and-secrets.md:66-72`); `compile_solo` and `pi_jobs` cover redelivery.
- `MaxCopies`: a request stored twice, past its duplicate window, gives two
  executions of one job; more copies repeat that.
- `MaxVersion` 2: one save after the dispatch is what a stale manifest needs.
- `RetentionLimit` 0 is clamped to one bundle by the code, and makes two jobs compete.
- `OneExecution` (`pi_duo`) stops a worker's second delivery, so that two deliveries
  of one *result* can be explored with two replicas. `OneInFlight` (`pi_jobs`) lets the
  stream and the worker hold one message at a time, beside the one the consumer is at.
  `NoForgetting` (`compile_many`) keeps the duplicate windows open.
- The polled edit of `workers` has 1 job, 1 replica, 1 poller, 1 delivery and 1 copy:
  who else acts on the row cannot keep it active.

Bounds of `workers`:

- *Progress*: two executions (`SecondIsShort`: the second follows the first and only
  numbers two events), a queue of one batch, a snapshot of two entries, two attempts.
  With less than two of each nothing overflows, splits or is retried.
- *Agent*: one turn, one tool, a queue of one event, three lines.
- *Cache*: two compiles of one project, two pods, two entries, a budget of one entry, one
  fault (`SecondIsLate`: pods and entries are interchangeable).
- *Session*: five parts (whole; reaching a marked or an unmarked piece outside; two that
  cannot be stored), two single pieces, three statements per compile.
- *GIS* (`Visits`, `GisBounds`): two requests of one place that share a sheet, three
  without one, two with one source, two with two sources, or the sync; one restart.
- *Sign-in* (`UsersBounds`): one user, a sign-in, two requests, a sign-out and a bearer
  token, with expiries at 1, 2 and 3 so that each can come first.
- *Views* (`ViewsBounds`): two bundles of one project, one without a scene, and one of
  another project with shared assets in the other order; one link, two keys, one view,
  retention 1, two deliveries. Two results meet before anybody looks; then one commits
  while a view reads.

Bounds of `api`:

- *Results* (`ResultsBounds`): two analyses, two exports, two saves, two designs; one key
  may have a result that cannot be read.
- *Drawings* (`DrawingsBounds`): two builds, one save of the design, one message lost.
- *Writes* (`WritesBounds`): three saves (two of one file), an edit of both files, a
  deletion.
- *Projection* (`EachOnce`): 160 designs of two members under 20 settings, with one
  recompile and one save: settings of one design meet another.
- *Checks*: 880 frames, a portal that earns its certificate and others that differ from it
  in a connection or two, the brace, a member, the ground or what is known of the actions, under 4
  requested combinations.
- *Authoring*: a design of 28 statements with one departure, a braced one with two (with
  derived segments) or one (with authored ones), and 36 whose joints are placed at any
  two positions.
- *Site* (`SiteBounds`): one workbench, one patching client, three edits, two bearings,
  heights and regions. An edit, an answer and a save in every order need three.
- *Wind*: 17 buildings on 7 sites under 10 settings, in quarter metres and hundredths,
  quotients rounded down. Rounding leaves the mirror property exact.
- *Conversation*: six edits of three kinds of request, limits of two turns, a summary of
  3 and a context of 6, three rows read back, and up to two edits from before contexts.

Deadlock is not checked: when all jobs and requests are over the system rests. That
nobody waits for ever is a liveness property where it is in question (`WritesEnd`,
`RequestsAreAnswered`, `ClosingEnds`, `RunEndsClean`). The runs check the type
definitions of the two pipelines; those of the other modules are theorems where a
proof needs them, and the runs check invariants that read every part of them.

## Fairness

- `PolledJobsSettle` assumes that time passes and that the client keeps polling
  (`Poll` of a stale job is one transaction on a thread of its own). Nothing is
  assumed of the consumer, the stream or the worker.
- `RunningJobsAreReaped` assumes no poll. The consumer coroutine loops for ever and
  each of its steps ends (`ConsumerFairness`); strong fairness of `ReapRead` says that
  it comes to the stale jobs again and again, although it is in between at other
  tasks. It needs `Undisturbed`: a publish that raises in the republish step ends the
  pass before the stale jobs are looked at, and does so for as long as it raises; a
  process that restarts for ever never gets there either.
- `PolledEditsSettle` assumes that time passes, that one client keeps polling and
  that its thread gets the row lock in the end (PostgreSQL grants row locks in the
  order of requests; hence strong fairness), and that the consumer finishes a
  transaction it has opened (`TransactionFairness`), since it holds the lock.
- `ClosingEnds` assumes that a publisher's next step happens (`PublisherFairness`; a
  publish call has a timeout), and not the drain timeout of the closing side.
- `RunEndsClean` assumes `ProcessFairness`: the run's time limit (an `asyncio` timeout)
  and the operating system's kill. Nothing is assumed of the agent.
- `RequestsAreAnswered` and `WritesEnd` assume that a request that has begun goes on
  while it can: one weak fairness condition over all of them, so that it is the locks
  and not the scheduler that let each end. `WritesFairness` includes PostgreSQL's
  deadlock detection.
- `BuildsEnd` assumes, by kind of step, that the consumer, the recovery pass, the worker,
  time and the endpoint go on (`DrawingsFairness`); messages may be lost and nobody has
  to poll.

The other modules are about safety only: their code has no promise that something
happens beyond that a request which is served ends.

## Proofs

All theorems hold for any values of the constants (jobs, replicas, pollers, pods, requests,
users, limits) that the assumption of the module allows (`ConstantsAssumption`,
`CacheAssumption`, ...): bounds are numbers, what a table must have, what a recorded
outcome names, which arguments a call has. `SiteCorrect` has a hypothesis besides, `MultipliersAreNumbers`, which TLC
cannot evaluate because the origins of multipliers are not a set; `ReplayCorrect` supposes
`MarksTellPieces`, without which the property fails; `HistoryCorrect` supposes `LinesFit`,
that no line of a summary takes more than a whole summary or context may have (a line has
at most 600 characters of the request and 400 of the outcome, and the limits are several
times that); and the theorems about one replica say so.

| Theorem | States |
|---|---|
| `CompileJobsProofs!TypeCorrect` | `TypeOK` |
| `CompileJobsProofs!SuccessCorrect` | `SuccessIsComplete` |
| `CompileJobsProofs!OutcomeCorrect` | `OutcomeIsWrittenOnce` |
| `CompileJobsProofs!RetentionCorrect` | `HeldBundlesAreNewest` |
| `CompileJobsProofs!ViewImplemented` | with one replica, `ImplementsView` |
| `PiAgentProofs!TypeCorrect` | `TypeOK` |
| `PiAgentProofs!OneEditCorrect` | `OneActiveEdit` |
| `PiAgentProofs!ReplaceCorrect` | `EditReplacesWhatItSaw` |
| `PiAgentProofs!AccountedCorrect` | `EditsAreAccounted` |
| `PiAgentProofs!DatedCorrect` | with one replica, `RunningIsDated` |
| `PiAgentProofs!ImmutableCorrect` | with one replica and no poller, `TerminalIsImmutable` |
| `PiAgentProofs!ProgressTypeCorrect`, `ShownCorrect` | `ProgressTypeOK`, `ShownIsOneExecution` |
| `PiAgentProofs!ResultStandsLast` | `ResultIsLast` |
| `WorkerProofs!ProcessTypeCorrect`, `SuccessSeen` | `ProcessTypeOK`, `SuccessSawEverything` |
| `WorkerProofs!CacheTypeCorrect`, `CacheCorrect` | `CacheTypeOK`, `CacheIsSound` |
| `WorkerProofs!ReplayCorrect` | `ReplayIsBuilding`, when marks tell pieces |
| `LockingProofs!WritesTypeCorrect`, `SnapshotCorrect` | `WritesTypeOK`, `SnapshotIsWhole` |
| `LockingProofs!ResultsTypeCorrect`, `SolveCorrect`, `ReportCorrect` | `ResultsTypeOK`, `NoDuplicateSolve`, `ReportIsOfReviewed` |
| `LockingProofs!HistoryCorrect` | `HistoryIsTold`, when lines fit |
| `AccessProofs!SessionsTypeCorrect`, `SessionsCorrect` | `SessionsTypeOK`, `SessionsAreSound` |
| `AccessProofs!SharedTypeCorrect`, `SharedCorrect` | `SharedTypeOK`, `ViewsAreWhole` |
| `SiteProofs!GisTypeCorrect`, `EntriesCorrect`, `SyncedCorrect` | `GisTypeOK`, `EntriesAreServable`, `SyncedIsSearchable` |
| `SiteProofs!SiteCorrect` | `SiteIsSound` |
| `SiteProofs!ChecksTypeCorrect`, `BracesCorrect`, `CertificateCorrect` | `ChecksTypeOK`, `BracesReachGround`, `CertificateIsEarned` |
| `SiteProofs!WindCorrect` | `WindIsCarried` |
| `LockingProofs!ProjectionCorrect` | `CaptureIsSound` |
| `AuthoringProofs!CaptureCorrect`, `DeclarationCorrect`, `DerivedCorrect` | `ManifestIsCaptured`, `DeclarationIsManifest`, `DeclaredIsDerived` |

*Compile.* `TypeOK` alone is not inductive: the end of an application rewrites the task
of the message in hand, so it must be known that there is one. `Linked` says that a
replica whose event loop is applying a result holds that result. `TypeOK /\ Linked` is
inductive, and the success and outcome theorems follow step by step.

*Retention.* The property counts the bundles that are newer than a held one. Recorded
bundles have consecutive and distinct stamps, so that count is a subtraction, and
pruning keeps the stamps of an interval that ends at the newest.

*Refinement.* `SoloInv` adds what one process gives: whatever is in the stream has a
row (`Committed`), a job is queued only because the endpoint's handler put it there
(`QueuedOnce`), and what a section has read is still there or a poll has failed it
(`ReadHolds`). `Flush` then maps each step to a step of the view or to a stutter.

*AI edits.* `IInv` is proved in one induction, part by part:

- `Traced`: a job has a row once its request is past the check; so manifests of
  existing jobs never change;
- `Exclusive`: while a start request holds the project row no edit is active and no
  other request is there; with it `OneActiveEdit` is inductive;
- `Held`: the holder of a job row sees it active and is alone;
- `Compared`: the holder of the file rows has the version of the manifest and is
  alone; with it and `Traced`, `EditReplacesWhatItSaw` is inductive;
- `Paid`: what is recorded is billed and of a job that is over, what is being applied
  is billed. With `Held` it shows that a held job's execution is not recorded yet,
  which the code tests only before it takes the files; so no record is written twice.

`HandStep`, `WritingSteps`, `RowStep`, `SubmitStep` and `SweepStep` go through all
actions once and say what a step does to a task, a row, a request or a sweep; the
parts of the invariant use them and not the actions. The two single-process theorems
add one conjunct each (`ReadIsDated`, `SweptIsActive`) and show that the findings
need what their runs give them: a second process, or a poll.

*The agent's run.* What the run has taken is a beginning of what the agent wrote, and the
queue goes on from there without a gap until it overflows; an overflow is itself a failure
that the run sees before it can succeed. So a run that has succeeded took everything up to
the line that settled it.

*Progress.* `FlowInv` follows an event from its number to the stream. What a batcher has
queued and pending rises to its next number; what its publisher is sending lies before
that (`Before`), and the stored batches of the execution before what is being sent, except
the one that an attempt has stored already, which is that piece (`SentBy`). `GoesOn` says
that a change of the batcher keeps all of it behind whatever it was behind; every method is
shown to go on, and then every action keeps the flow. The stream then has no gap, and
`ShowsOf` is kept by the consumer: an accepted batch begins above the last event shown.
Three definitions are recursive: the halving of a batch (`Pieces`), the chunks of a delta
and the size of a snapshot (folds). That their recursions have a solution is built up number
by number (`SomeHalves`, `SomeChunks`) from the least number principle, which the library
proves as `WFMin`.

*The result of an execution.* An execution that publishes its result has closed its batcher,
so nothing of its own is still to come; the deliveries, retries and copies on the way to the
stream bring batches back, and the stream's order puts each before the result. A job that a
result ended takes no batch any more.

*Component cache.* Everything a manifest names or a pod has loaded is backed by the store,
and what is backed stays so unless the store loses or spoils it, which is counted as a
fault. The budget is reserved before a download, so concurrent ones add up to less.

*Replay.* `RunOK` says of an execution of a body, after each element, that it has a token
for every name it gave and has reached every piece it joined; `Abreast` that the replay
and the building have the same session but for the shapes. A step keeps both, because a
name stands for what the body made or for a piece, and an entry is stored only when its
pieces have marks, by which `ById` finds the same token (`ByMark`). The executions are
folds, unrolled by `SomeSteps`. The mark of a piece must be no other component's
(`MarksTellPieces`): TLC shows that otherwise a later compile, in which another component
has the mark and the piece is missing, replays where building fails. Within one compile
`register_component` refuses the second of two equal marks; across compiles nothing does.

*Project writes.* Every writer locks the project's row first and holds it to its commit:
it is the turn. Rows that differ from the last snapshot belong to the writer whose turn it
is.

*Structural results.* A solve goes on only under the advisory lock and behind a second
look, and the row of a solve is written before the lock is given up; so a second solver of
the key finds it. A report is of the identifiers its reviewer confirmed, which the row
lock keeps in place until it is written.

*Conversations.* `GoodTalk` says of a context that it is an end of the turns before an edit
(`IsEnd`), within every limit, and not empty when a listed edit has a turn. Advancing by a
turn keeps it (`AdvanceIsGood`): what `fits` chooses first is an end of the summary, the
turns and the new one, and a line that fits alone is never dropped. So it does not matter
whether a context goes on from the stored one or is folded again from the rows
(`RebuiltIsGood`), which may reach back less far. `ConversationInv` says it of every stored
context: rows are only appended and only the last is active, so what was before an edit
stays. The model selects rows with a fold (`Those`) because the provers know nothing of
`SelectSeq`.

*Sessions.* A session in use by a request may be deleted, but no step puts one back; every
deletion names its cause. The unique keys make one of two first requests fail, and all
rows of an account are of one transaction.

*Shared views.* An asset that a committed scene names is held by it or by a scene of the
transaction that passed it over; a bundle that was pruned has a later stored one, and
among the later ones there is a last (the least number principle, through the library's
`WFMin`).

*GIS.* A temporary file belongs to the path of the request that made it, and whoever
writes a path of terrain writes an identifier whose manifest is stored. The index is taken
away only while the sync runs, and its state says so.

*Site.* Every holder of a definition (the file, drafts, saves in flight, lookups and
patches) has tables of what its evidence records, or typed ones. The faces are arithmetic:
each bearing modulo 360 is within 45 degrees of a face, and the speed of a sector is the
speed of the region times a number that does not depend on the interval, so the fastest
sector is the fastest for every event.

*Checks of a structure.* `ChecksInv` says of every check what its verdicts mean for the
frame, and not how they are found. A joint that passes is `Sound`: a calculation that is
about its connectors (`IsAbout`) knows each part and finds it within its resistance
(`Shows`), or, where the connectors select none, its own verified pack or its tie's
load does; and the fasteners of a tie at it hold (`FastenersHold`). `JointTells` shows it
for each way to a verdict. That a direct anchor is about one foundation rests on the
assertion that ends the analysis where its anchors are not (`AssertionRaises`). Likewise a
restraint holds or is not needed (`RestraintTells`), a stage of evidence that passes
stands for its checks (`EvidenceTells`) and a gate for its stages (`DocumentTells`). The certificate
then adds up. A brace takes more: `Explored` says that every component a search has seen is in its queue
or exhausted, and that the joints of a path lead to where it is. A visit keeps that, takes
one from the queue and adds one for each joint it puts behind it (`VisitKeeps`), so the
search ends within as many visits as there are joints and one (`InTime`). A path that is
found carries what it claims (`PathsFound`); where none is found, what was seen is an
island without ground (`NothingFound`). `ChecksAssumption` has what the capture validates
(unique connections, each between two components) and that facts are named as the model
names them.

*Wind.* `WindInv` says what each step leaves: the loads of a phase are a function of the
building as it was measured, the site's pressures are laid over all of them at once, the
cases have names of their own (`CasesAdded`: what was not in the way gives every name one
meaning), and the combinations are those of the cases. The four parts of `WindIsCarried`
then follow from those functions, for any building of portal frames:

- *Loads meet their wind*: a load names its case (`AllByPart`, `PartsName`), and the face
  of a case is the one whose wind pushes its way. A wall that meets the wind is pushed
  inwards because its net coefficient is positive (`WorstPushes`): every table of roofs
  and leeward walls is negative (`TabulatedWithin`), so the pressures inside are at most
  the outside one of a windward opening, and a sealed building's suction adds to it.
- *The envelope is loaded*: a name is that of one load (`NamesAreOwn`), and those of a
  case are its roofs and walls (`OwnAre`). The widths of the roofs are a sum over a set;
  it counts places (`SumCounts`), two rafters to every place of a frame's strip, and the
  strips, doubled, part twice the length of the building (`StripsApart`, `StripsCover`,
  `StripsWithin`), whatever the distances of the frames.
- *Opposite winds mirror*: a member and its image have the same length, area and strip,
  are at the same distance from the windward edge and meet opposite winds alike
  (`MeetsBoth`, `AlongAlike`); so their loads are alike but for the way they push
  (`AcrossTwins`, `AlongTwins`). The pressures inside agree because openings have images.
- *Loads are combined*: `AvailableHave` and `AvailableFor` say in which limit states a
  case acts, `SwayCarries` that the check of a direction finds the combination of its
  wind.

`WindAssumption` has what the compiled graph and the saved settings guarantee: lengths are
numbers, names of components and of cases are unique
(`project_configuration.py:175`), and the length of a member in the plane of a frame is
that of its extents. A proof attempt found one case the property had left out: a member of
a symmetric building whose middle is at X = 0 is its own image and is loaded as if on the
right (`LeftOf` is strict), so `Symmetric` asks that there is none.

*Authoring.* The contracts judge a whole declaration, the calls judge one record at a time
and never look again. `ModelOK` says what is left of the calls' checks: every record names
only what is registered, has what its kind must have and an identifier of its own
(`IsRegister`), and lies on its member. Each of the calls keeps it, refused ones included, since some have written before they raise
(`CallOK`, one lemma per call, joined in `ExecuteOK`); records are only added, so what a
record names stays (`Grows`). `EnvOK` says that the handles a design holds are of
registered records. `RunOK` is then an invariant of the execution, whatever statement
comes next. Of a model that the topology
check finds whole, `DeclaredAccepted` goes through the contracts: what
they ask and the calls do not are the gaps that `IsKnownGap` names. The path of a load is
another search than the topology check's, forwards from the load instead of closing a set;
`WalkTo` says what has been seen after so many steps, and a search that ends without
reaching the ground has seen everything downstream (`LoadHasPath`).
`StatementsAssumption` has what the calls' signatures ask: which arguments are
sequences, which numbers, that only `wind_surface_load` is given a wind basis, and that
only an assignment names a variable; and that the ids of authored segments tell them from
derived ones, by which the property knows what it is about (no action looks at it). The
proof changed the model in three places where it was looser than the code: a restraint
lies on its member's axis (`OnAxis`), a point load has one of four categories, and the end
of a call is a chain of conditions, whose order the alternatives of a CASE left open.

`DeclarationCorrect` is a simulation. As long as reading has passed nothing over, its
model and the one of execution are `Alike`: the same records of each kind, in the same
order (apart from what only execution keeps: restraints, geometry and refused names). `EnvKnown`
says that the variables a design holds stand, under their kind, for what reading has for
them, so both sides look up the same record. `ReadCallBoth` takes one call on both sides,
with one lemma per call: what execution accepts, reading accepts with the same record.
The cases need a word: one side puts a case again where the other keeps it, which changes
nothing, since a call that names a known case has its category and label checked. `Meets` is
then the invariant, whatever statement comes next (`MeetsOn`); the four ways in which the
two are known to differ end it by name.

`DerivedCorrect` is about what the code computes of a declaration. A captured path is
built by a search that keeps a queue of chains: `ChainsOK` says of each that it follows
connections in their direction, from the load, and returns nowhere. Derived segments go
through four folds, each with an invariant of its own: the restraints of a member are
sorted (`SortedTo`: in order, none lost), put into groups that nearly meet (`GroupedTo`:
groups rise strictly from 0, each restraint met lies within `Close` of its group, none to
come lies before the last group), closed at the member's end (`Bounds`), cut
(`BetweenTiles`) and joined over the members (`SegmentsAre`). `SegmentsOK` carries the
result through the rest of a run: no other call touches the segments (`ExecuteKeeps`, one
lemma per call), and a member registered later is not one that they name. The proof asked
for two changes of the model: restraints at one place keep the order they were
declared in (the code's sort is stable, the library's is any order), and the property
speaks of the set of a member's segments, so that their order in the record is not in it.

*Projection.* A capture is a function of one design and one settings, so the invariant
only says whose it is (`ProjectionInv`); the work is in what the function computes. The
stations of a member are a fold over its places with an invariant of its own
(`StationsTo`: they rise strictly from 0, each port lies between its station and the
next, and has one). So the segments tile the member (`SegmentsTile`), and of a line load
exactly one part loads each distance (`LoadCarried`), and each part lies on its segment
(`PartInside`). The classes of ports are a fold over a set, taken in any order:
`ClassesOf` says that they are apart, that each tie lies in one, and that none is larger
than a set closed to the ties (`ClassesRight`); a chain of ties leads to the same set
(`TiedRight`, which counts the ties held so far). Two ends of segments then have one class
exactly when a chain leads from one to the other, and one key exactly when they have one
class (`KeysAre`): a joint in the class of an end is a connection (`ClassJoints`), else it
would touch the end itself and the request would have been refused, and connections have
different ids. `CaptureHeld` goes through the contract clause by clause.
The proof found two things that the model had left out: the contract refuses a
verification for stability of no length at all (`contracts.py:446`), which happens when
every segment is a tension-only brace's or every saved length begins past its end
(`NothingToVerify`); and only the ids of joints that become connections have to differ.

Only model-checked, with what the provers lack:

- liveness: `WritesEnd`, `RequestsAreAnswered`, `BuildsEnd`, `PolledJobsSettle`,
  `PolledEditsSettle`, `RunningJobsAreReaped`, `ClosingEnds`, `RunEndsClean`. The
  temporal prover takes neither quantified fairness nor `ENABLED`.

## Findings

1. `compile_double`: the consumer looks at the job without a lock and writes it later.
   A poll that fails the job in between is overwritten with the success. The billing
   plan says that double completion is prevented by that look.
2. `compile_shown`: when the publish raises although the stream stored the request,
   the error handler re-queues the job whatever its status is by then. A job whose
   result is already recorded may be failed later, and the poll never shows the result.
3. `pi_terminal`: reconciliation locks a stale row and judges it again, but on the
   object its session already holds; the locking SELECT does not refresh it. A success
   committed in between is overwritten with `worker_lost`. The plan calls a terminal
   job immutable.
4. `pi_stale`: the sweep of one process writes back a payload it read before the other
   process dispatched the job. The dispatch time is lost and the running job is judged
   by its creation time, earlier than the plan's running limit.
5. `drawings`: the status and the download compare the time of the last save of
   `design.py` with the time at which the views were recorded. A save while a build is
   running is older than the views that build records, so views of the older source are
   served as current, against `docs/drafting/architectural-drawing-sets.md:27`.
6. `packs`: a calculation that applies to the connectors of a connection replaces the
   verdict and the utilisation of the connection's own verified pack, which a comment
   says remains authoritative. A connection over its pack's resistance can pass.

## Observations without a run

Seen while modelling. No document contradicts them, or they are outside what a run can
decide; they are not claims that the code is wrong.

Compile and edits:

- A republished compile command has no `quality`; when a succeeded job is re-queued and
  nobody polls, it is executed again and its second result fails on the unique constraint
  of its artifacts. A result whose files are gone is billed, acked and never recorded,
  and its job stays active until it is stale. A conflict found after the job ended is
  acked without a usage record.
- LLM limits count only recorded usage: edits active in several projects can together
  exceed a quota.
- An edit whose request is only blanks has no turn, so the next context is built again
  from at most 200 rows and the older summary is lost. A turn that is too long pushes all
  earlier ones into the summary for good.
- A save whose text equals what it first read does not write the content column (unit of
  work), so if another save committed in between, the file keeps the other's text and the
  snapshot has its own. `SnapshotIsWhole` assumes that each save writes a new text.
- Two configuration saves may read the same latest revision; the unique constraint
  refuses one.
- `update_features` (`artus_server.py:490-556`) corrupts a file with two assignments on
  one line, non-ASCII text before a value (byte offsets used as characters), or a value
  on another line than its assignment.

Structure:

- The design's builder accepts and the contract refuses: a segment that names a candidate
  of another member, a stability check whose directions leave the combination open, a
  model without load cases. `ManifestIsCaptured` excepts them by name.
- Reading stops at the first manifest, execution keeps the last; `name = other` leaves
  reading with the older handle; `x = model.connect(...)` and calls in a `try` block are
  passed over; empty texts are refused by execution only. `DeclarationIsManifest` excepts
  them by name.
- A brace with three incident connections has only two traced; a member's colour is of
  its worst segment, an unsupported one counting as -1; `"confirm" in reference.lower()`
  also matches "confirmed"; one assertion (`project_analysis.py:1974`) is not caught.

Site and wind:

- Column normals and upwind slopes test the sign of X (`structural_server.py:1573-1615`,
  `1880`): buildings stand across X = 0. The last strip's centroid lies beyond the
  building. Faces turn clockwise, action axes counter-clockwise.
- A plan (`docs/superpowers/plans/2026-08-13-mechanical-authoring-structural-workbench-realignment.md:533`)
  says that missing data blocks the Actions stage; fewer than two frames, non-transverse
  frames and open sides return early with the standards unchanged. The mark "concentrated
  roof-action receiver missing" is overwritten by the ultimate overlay.
- Sway checks look for the literal roles "portal column" and "portal rafter", the wind
  for the configured ones.
- Staleness compares no source release, standard edition or algorithm, against
  `docs/superpowers/plans/2026-08-09-directional-site-wind-multipliers.md:176`, nor the
  wind region. Adopting fewer components leaves earlier tables in place; an indicative
  terrain value stays when the height changes; heights with more than six decimals are
  rounded in the basis but hashed raw (`FineHeights`).
- The workbench does not retry an edit made during a save that fails; a save answered
  after another project was loaded advances its saved version, and writes the draft to
  whichever project is active; late answers restore older parts of a draft; patches can
  be lost between a read and a write.

Sign-in, views, GIS:

- A late answer to a request of an earlier session resets the cookie; the time a slow
  request read can shorten the idle expiry; refreshed tokens are lost when what follows
  fails; the cookie of a refused session is never cleared, since the exception replaces
  the response that clears it.
- A viewer that loaded a scene gets 404 for its assets once a newer compile replaced it.
  Two results that list new assets in different orders can deadlock; one is redelivered.
- A stop between removing the old address index and renaming the new one
  (`gnaf.py:193-194`) leaves an empty database that a later sync calls ready. The second
  of two renames of one temporary file raises; concurrent ingests may overwrite a
  manifest's creation time.

## Not modelled

Some three tenths of the implementation's lines are mapped. The rest is, by size:

- *Engineering formulas* (`project_analysis.py`, `capacity_packs.py`, `site_wind_report.py`,
  `local_wind_analysis.py`): resistances and demands are real-number arithmetic whose
  result the models take as known or lacking, within or over. Tables and texts of
  reports. Which check decides, and on what, is in `StructuralChecks`.
- *Geometry*: the CAD runtime, Build123D, products, drawings and quantities of the
  `tertius` library, PDF layout, rasters, point-cloud tiles. Pure functions.
- *The user interface*, except the site workbench's draft; clients poll.
- *The compile sandbox*: a subprocess with limits; its outcome is the verdict a worker
  publishes. The workspace guard of the agent is a script inside a third-party process.
- `component_replay.py`, which only tests import and which the component cache replaced.
- `claim_job_for_command` and `finish_job_if_claim_current`, which no process calls.
- *Usage limits* only read what is recorded. The desktop and development logins, token
  signatures, membership tests of routes, project creation.
- Changes of the AI provider's configuration between dispatch and republication
  (`dispatch_config_error`): another reason for `SweepRefuse`.
- The read-modify-write of Artus features and of site patches before their save: the last
  writer wins, by intention or not; `ProjectWrites` begins at the save.
- Fixtures of structural results, self-weight, sections, geometry handles' moves and
  mirrors, literal declarations of earlier designs.
- Deployment, scripts and migrations: read for replica counts and limits.

Abstractions to know of:

- A file version is the `updated_at` of its row; two saves at one instant are not
  told apart by the code, the model assumes that they are.
- A result of an AI edit published twice is one message in `PiAgentEdits`.
- Two replicas that commit bundles at the same time each prune what they see, so the
  limit can be exceeded for a while: `compile_many` checks retention with one replica,
  `SharedViews` that the newest one stays with several results.
- In `PiAgentEdits`, `ApplyRaises` stands for the lock cycle between a save and an
  applied edit; `ProjectWrites` has the cycle itself.
- Lists ordered by creation time assume that the clocks of API processes agree.

## Plan

Done: the two pipelines, the parts around them (progress, agent,
cache, session, drawings, results, writes, conversation, sign-in, views, GIS), and the
structural chain from the design to the certificate with the wind.

Next, in this order:

1. Composition of `PiAgentProgress` with `PiAgentEdits`: the result that ends a job and
   its progress on one row.
2. The rest of the site: local terrain analysis as one more evidence store.
