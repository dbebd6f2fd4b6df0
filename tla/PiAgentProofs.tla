----------------------------- MODULE PiAgentProofs ----------------------------
(***************************************************************************)
(* Theorems about AI edits, for any sets of jobs, replicas and pollers and *)
(* any value of the bounds; and about the progress of one edit, for any    *)
(* deliveries of its request, any limits and any events: what the stream   *)
(* stores of an execution has no gap, what a job shows is of one execution *)
(* and in order, and the result of an execution stands behind all of its   *)
(* batches.                                                                *)
(***************************************************************************)
EXTENDS PiAgentEdits, PiAgentProgress, CountingLemmas, FiniteSetTheorems,
        SequenceTheorems, TLAPS

----
(* The induction.  None of the three properties below is inductive alone:  *)
(* each rests on who may hold what while it waits for a lock.              *)

Existing(j) == row[j].status # "absent"

\* A job has a row once it is past the check, and whoever works on it for the
\* sweep or the reconciliation found that row.
Traced ==
    /\ \A j \in Jobs : submit[j] \in {"new", "checked"} => ~Existing(j)
    /\ \A j \in Jobs : edited[j] # 0 => Existing(j)
    /\ \A r \in Replicas :
          duty[r].task \in SweepTasks \cup ReadTasks => Existing(duty[r].job)
    /\ \A p \in Pollers : reaping[p] # NoJob => Existing(reaping[p].job)

\* The project lock: while one request is between its check and its commit,
\* no edit is active and no other request is there.
Exclusive ==
    \A j \in Jobs : submit[j] = "checked" =>
        \A k \in Jobs : /\ row[k].status \notin Active
                        /\ submit[k] = "checked" => k = j

\* The job lock: its holder sees an active job, and holds it alone.
Holds(r, j) ==
    duty[r].task \in {"locked", "staged"} /\ duty[r].msg.execution.job = j

Held ==
    \A r \in Replicas, j \in Jobs : Holds(r, j) =>
        /\ row[j].status \in Active
        /\ \A q \in Replicas : Holds(q, j) => q = r

\* The file lock: its holder has compared the version, and holds it alone.
Compared ==
    \A r, q \in Replicas :
        duty[r].task = "staged" =>
            /\ file = manifest[duty[r].msg.execution.job]
            /\ duty[q].task = "staged" => r = q

\* What is recorded is billed and belongs to a job that is over; what is being
\* applied is billed.
Paid ==
    /\ \A u \in recorded : u.execution \in billed
                           /\ row[u.execution.job].status \in Terminal
    /\ \A r \in Replicas :
          duty[r].task \in {"apply", "locked", "staged", "conflict"}
              => duty[r].msg.execution \in billed

IInv ==
    /\ TypeOK /\ Traced /\ Exclusive /\ Held /\ Compared /\ Paid
    /\ OneActiveEdit /\ EditReplacesWhatItSaw /\ EditsAreAccounted

----
(* Types.                                                                  *)

LEMMA InitType == Init => TypeOK
BY ConstantsAssumption
   DEF Init, TypeOK, AbsentRow, Rows, Statuses, Codes, Ages, RunAges,
       SubmitStates, Duties, Idle, Reapings, NoJob

LEMMA FinishType ==
    ASSUME TypeOK, NEW j \in Jobs, NEW status \in Terminal, NEW code \in Codes,
           Finish(j, status, code)
    PROVE  row' \in [Jobs -> Rows]
BY DEF Finish, TypeOK, Rows, Statuses

LEMMA DispatchType ==
    ASSUME TypeOK, NEW j \in Jobs, Dispatch(j)
    PROVE  row' \in [Jobs -> Rows] /\ runAge' \in [Jobs -> RunAges]
<1>1. [status |-> "running", code |-> "none", dispatched |-> TRUE] \in Rows
  BY DEF Rows, Statuses, Active, Codes
<1>2. 0 \in RunAges
  BY DEF RunAges
<1> QED BY <1>1, <1>2 DEF Dispatch, TypeOK

LEMMA StoreType ==
    ASSUME TypeOK, NEW j \in Jobs,
           StoreRequest(j) \/ UNCHANGED <<copies, requests>>
    PROVE  copies' \in [Jobs -> 0..MaxCopies] /\ requests' \subseteq Requests
<1>1. CASE StoreRequest(j)
 <2>1. CASE copies[j] < MaxCopies
  <3>1. copies[j] + 1 \in 1..MaxCopies
    BY <2>1, ConstantsAssumption DEF TypeOK
  <3>2. [job |-> j, copy |-> copies[j] + 1, left |-> MaxDeliver] \in Requests
    BY <3>1, ConstantsAssumption DEF Requests, Copies
  <3> QED BY <1>1, <3>1, <3>2 DEF StoreRequest, TypeOK
 <2> QED BY <1>1, <2>1 DEF StoreRequest, TypeOK
<1> QED BY <1>1 DEF TypeOK

LEMMA StartType ==
    ASSUME TypeOK, NEW j \in Jobs, Start(j)
    PROVE  TypeOK'
<1> USE DEF SubmitStates, jobVars, sourceVars, usageVars, streamVars
<1>1. ASSUME NEW r \in Replicas, StartCheck(r, j) PROVE TypeOK'
  BY <1>1 DEF StartCheck, TypeOK
<1>2. ASSUME NEW r \in Replicas, StartMark(r, j) PROVE TypeOK'
  BY <1>2, DispatchType DEF StartMark, TypeOK
<1>3. CASE StartCommit(j)
  BY <1>3 DEF StartCommit, TypeOK, Rows, Statuses, Active, Codes
<1>4. CASE StartRolledBack(j) \/ StartDies(j)
  BY <1>4 DEF StartRolledBack, StartDies, TypeOK
<1>5. CASE StartPublished(j) \/ StartPublishRaised(j)
  BY <1>5, StoreType DEF StartPublished, StartPublishRaised, TypeOK
<1> QED BY <1>1, <1>2, <1>3, <1>4, <1>5 DEF Start

LEMMA WorkerType ==
    ASSUME TypeOK, Worker
    PROVE  TypeOK'
<1> USE DEF jobVars, sourceVars, usageVars
<1>1. ASSUME NEW m \in requests, Deliver(m) PROVE TypeOK'
 <2>1. m \in Requests
   BY DEF TypeOK
 <2>2. /\ m.job \in Jobs /\ m.copy \in Copies /\ m.left - 1 \in 0..MaxDeliver
       /\ MaxDeliver - m.left + 1 \in 1..MaxDeliver
   BY <2>1, ConstantsAssumption DEF Requests
 <2>3. [execution |-> [job |-> m.job, copy |-> m.copy,
                       delivery |-> MaxDeliver - m.left + 1],
        left |-> m.left - 1, published |-> FALSE] \in Runs
   BY <2>2 DEF Runs, Executions
 <2> QED BY <1>1, <2>3 DEF Deliver, TypeOK
<1>2. ASSUME NEW w \in running PROVE w \in Runs
  BY DEF TypeOK
<1>3. ASSUME NEW w \in running, NEW v \in Verdicts, PublishResult(w, v)
      PROVE  TypeOK'
 <2>1. [w EXCEPT !.published = TRUE] \in Runs
   BY <1>2 DEF Runs
 <2>2. [execution |-> w.execution, verdict |-> v, left |-> MaxDeliver] \in Results
   BY <1>2, ConstantsAssumption DEF Runs, Results
 <2> QED BY <1>3, <2>1, <2>2 DEF PublishResult, TypeOK
<1>4. ASSUME NEW w \in running, AckRequest(w) PROVE TypeOK'
  BY <1>4 DEF AckRequest, TypeOK
<1>5. ASSUME NEW w \in running, w.left > 0 PROVE RequestOf(w) \in Requests
  BY <1>2, <1>5 DEF RequestOf, Runs, Requests, Executions
<1>6. ASSUME NEW w \in running, WorkerLost(w) PROVE TypeOK'
  BY <1>5, <1>6 DEF WorkerLost, TypeOK
<1>7. ASSUME NEW w \in running, WorkerCutOff(w) PROVE TypeOK'
 <2>1. [w EXCEPT !.left = 0] \in Runs
   BY <1>2, ConstantsAssumption DEF Runs
 <2> QED BY <1>5, <1>7, <2>1 DEF WorkerCutOff, TypeOK
<1> QED BY <1>1, <1>3, <1>4, <1>6, <1>7 DEF Worker

LEMMA EnvironmentType ==
    ASSUME TypeOK,
           Save \/ DeleteFile \/ Discarded \/ \E j \in Jobs : Aged(j) \/ RunAged(j)
    PROVE  TypeOK'
<1> USE DEF jobVars, sourceVars, usageVars, streamVars
<1>1. CASE Save \/ DeleteFile \/ Discarded
  BY <1>1 DEF Save, DeleteFile, Discarded, TypeOK
<1>2. ASSUME NEW j \in Jobs, Aged(j) \/ RunAged(j) PROVE TypeOK'
  BY <1>2 DEF Aged, RunAged, TypeOK, Ages, RunAges, QueuedLimit
<1> QED BY <1>1, <1>2

\* A task in the consumer's hands carries what its kind carries.
LEMMA HandledType ==
    ASSUME TypeOK, NEW r \in Replicas, duty[r].task \in ResultTasks
    PROVE  /\ duty[r] \in [task : ResultTasks, msg : Taken]
           /\ duty[r].msg \in Taken
           /\ duty[r].msg.execution \in Executions
           /\ duty[r].msg.execution.job \in Jobs
<1>1. duty[r] \in Duties
  BY DEF TypeOK
<1>2. duty[r] \in [task : ResultTasks, msg : Taken]
  BY <1>1 DEF Duties, Idle, ResultTasks, SweepTasks, ReadTasks
<1> QED BY <1>2 DEF Taken, Executions

LEMMA SweptType ==
    ASSUME TypeOK, NEW r \in Replicas, duty[r].task \in SweepTasks \cup ReadTasks
    PROVE  /\ duty[r].job \in Jobs
           /\ duty[r].task \in SweepTasks => duty[r] \in [task : SweepTasks, job : Jobs]
           /\ duty[r].task \in ReadTasks =>
                 duty[r] \in [task : ReadTasks, job : Jobs, dated : BOOLEAN]
<1>1. duty[r] \in Duties
  BY DEF TypeOK
<1>2. \/ duty[r] \in [task : SweepTasks, job : Jobs]
      \/ duty[r] \in [task : ReadTasks, job : Jobs, dated : BOOLEAN]
  BY <1>1 DEF Duties, Idle, ResultTasks, SweepTasks, ReadTasks
<1> QED BY <1>2 DEF SweepTasks, ReadTasks

LEMMA TurnType ==
    ASSUME TypeOK, NEW r \in Replicas, NEW task \in ResultTasks,
           duty[r].task \in ResultTasks, Turn(r, task)
    PROVE  /\ duty' \in [Replicas -> Duties]
           /\ duty'[r].task = task /\ duty'[r].msg = duty[r].msg
           /\ \A q \in Replicas : q # r => duty'[q] = duty[q]
<1>1. duty[r] \in [task : ResultTasks, msg : Taken]
  BY HandledType
<1>2. [duty[r] EXCEPT !.task = task] \in [task : ResultTasks, msg : Taken]
  BY <1>1
<1>3. duty' = [duty EXCEPT ![r] = [duty[r] EXCEPT !.task = task]]
  BY DEF Turn
<1>4. duty'[r] = [duty[r] EXCEPT !.task = task] /\ \A q \in Replicas : q # r => duty'[q] = duty[q]
  BY <1>3 DEF TypeOK
<1> QED BY <1>1, <1>2, <1>3, <1>4 DEF TypeOK, Duties

LEMMA ResultBack ==
    ASSUME TypeOK, NEW r \in Replicas, duty[r].task \in ResultTasks
    PROVE  Redelivered(duty[r].msg) \subseteq Results
BY HandledType DEF Redelivered, Taken, Results

LEMMA NakType ==
    ASSUME TypeOK, NEW r \in Replicas, duty[r].task \in ResultTasks, Nak(r)
    PROVE  results' \subseteq Results /\ duty' \in [Replicas -> Duties]
BY ResultBack DEF Nak, TypeOK, Duties

LEMMA RecordType ==
    ASSUME TypeOK, NEW r \in Replicas, duty[r].task \in ResultTasks,
           NEW status \in {"completed", "failed"},
           Record(duty[r].msg.execution, status)
    PROVE  recorded' \subseteq UsageRecords
BY HandledType DEF Record, UsageRecords, TypeOK

LEMMA AppliedType ==
    ASSUME TypeOK, NEW r \in Replicas, duty[r].task \in ResultTasks,
           NEW status \in Terminal, NEW code \in Codes,
           NEW usage \in {"completed", "failed"},
           Applied(r, status, code, usage),
           file' \in Nat, edited' \in [Jobs -> Nat]
    PROVE  TypeOK'
<1>1. duty[r].msg.execution.job \in Jobs /\ "ack" \in ResultTasks
  BY HandledType DEF ResultTasks
<1> QED BY <1>1, FinishType, RecordType, TurnType DEF Applied, TypeOK, streamVars

LEMMA ConsumerType ==
    ASSUME TypeOK, NEW r \in Replicas, Consumer(r)
    PROVE  TypeOK'
<1> USE DEF jobVars, sourceVars, usageVars, streamVars
<1>1. {"check", "bill", "apply", "locked", "staged", "conflict", "ack"} = ResultTasks
  BY DEF ResultTasks
<1>2. {"failed", "succeeded"} \subseteq Terminal
      /\ {"none", "agent_error", "file_conflict"} \subseteq Codes
  BY DEF Terminal, Codes
<1>3. ASSUME NEW m \in results, TakeResult(r, m) PROVE TypeOK'
 <2>1. [m EXCEPT !.left = @ - 1] \in Taken
   BY ConstantsAssumption DEF TypeOK, Results, Taken
 <2>2. [task |-> "check", msg |-> [m EXCEPT !.left = @ - 1]] \in Duties
   BY <2>1 DEF Duties, ResultTasks
 <2> QED BY <1>3, <2>2 DEF TakeResult, TypeOK
<1>4. CASE CheckResult(r) \/ ApplyLock(r) \/ StageFiles(r) \/ StageMissing(r)
           \/ IgnoreConflict(r)
 <2>1. duty[r].task \in ResultTasks /\ duty' \in [Replicas -> Duties]
   BY <1>1, <1>4, TurnType
      DEF CheckResult, ApplyLock, StageFiles, StageMissing, IgnoreConflict
 <2> QED BY <1>4, <2>1
         DEF CheckResult, ApplyLock, StageFiles, StageMissing, IgnoreConflict, TypeOK
<1>5. CASE BillResult(r)
  BY <1>1, <1>5, TurnType, HandledType DEF BillResult, TypeOK
<1>6. CASE BillRaises(r)
  BY <1>1, <1>6, NakType, HandledType DEF BillRaises, TypeOK
<1>7. CASE ApplyDuplicate(r)
 <2>1. Completion(duty[r].msg.verdict) \in {"completed", "failed"}
   BY DEF Completion
 <2>2. recorded' \subseteq UsageRecords
   BY <1>1, <1>7, <2>1, RecordType DEF ApplyDuplicate, TypeOK
 <2> QED BY <1>1, <1>7, <2>2, TurnType DEF ApplyDuplicate, TypeOK
<1>8. CASE ApplyFailure(r) \/ ApplyUnchanged(r) \/ ApplyConflict(r)
 <2>1. file' \in Nat /\ edited' \in [Jobs -> Nat]
   BY <1>8 DEF ApplyFailure, ApplyUnchanged, ApplyConflict, TypeOK
 <2> QED BY <1>1, <1>2, <1>8, <2>1, AppliedType
         DEF ApplyFailure, ApplyUnchanged, ApplyConflict
<1>9. CASE ApplyEdit(r)
 <2>1. file + 1 \in Nat /\ edited \in [Jobs -> Nat]
   BY DEF TypeOK
 <2>2. file' \in Nat /\ edited' \in [Jobs -> Nat]
   BY <1>9, <2>1 DEF ApplyEdit
 <2> QED BY <1>1, <1>2, <1>9, <2>2, AppliedType DEF ApplyEdit
<1>10. CASE ApplyRaises(r)
  BY <1>1, <1>10, NakType DEF ApplyRaises, TypeOK
<1>11. CASE AckResult(r)
  BY <1>11 DEF AckResult, TypeOK, Duties
<1>12. CASE ResultRedelivered(r)
 <2>1. duty[r] \in [task : ResultTasks, msg : Taken]
   BY <1>12, HandledType DEF ResultRedelivered
 <2>2. [duty[r] EXCEPT !.msg.left = 0] \in [task : ResultTasks, msg : Taken]
   BY <2>1, ConstantsAssumption DEF Taken
 <2>3. duty' = [duty EXCEPT ![r] = [duty[r] EXCEPT !.msg.left = 0]]
   BY <1>12 DEF ResultRedelivered
 <2>4. duty[r].msg \in Results
   BY <1>12, <2>1 DEF ResultRedelivered, Taken, Results
 <2> QED BY <1>12, <2>2, <2>3, <2>4 DEF ResultRedelivered, TypeOK, Duties
<1> QED BY <1>3, <1>4, <1>5, <1>6, <1>7, <1>8, <1>9, <1>10, <1>11, <1>12
        DEF Consumer, Apply

LEMMA SweepType ==
    ASSUME TypeOK, NEW r \in Replicas, Sweep(r) \/ ReplicaStops(r)
    PROVE  TypeOK'
<1> USE DEF jobVars, sourceVars, usageVars, streamVars
<1>1. ASSUME NEW j \in Jobs, SweepList(r, j) PROVE TypeOK'
  BY <1>1 DEF SweepList, TypeOK, Duties, SweepTasks
<1>2. ASSUME NEW j \in Jobs, SweepRead(r, j) PROVE TypeOK'
 <2>1. [task |-> "read", job |-> j, dated |-> row[j].dispatched] \in Duties
   BY DEF TypeOK, Rows, Duties, ReadTasks
 <2> QED BY <1>2, <2>1 DEF SweepRead, TypeOK
<1>3. CASE SweepFiles(r)
 <2>1. duty[r] \in [task : ReadTasks, job : Jobs, dated : BOOLEAN]
   BY <1>3, SweptType DEF SweepFiles, ReadTasks
 <2>2. \A task \in ReadTasks : [duty[r] EXCEPT !.task = task] \in Duties
   BY <2>1 DEF Duties
 <2>3. PICK task \in {"resend", "refuse"} : duty' = [duty EXCEPT ![r] = [duty[r] EXCEPT !.task = task]]
   BY <1>3 DEF SweepFiles, Turn
 <2>4. duty' \in [Replicas -> Duties]
   BY <2>2, <2>3 DEF TypeOK, ReadTasks
 <2> QED BY <1>3, <2>4 DEF SweepFiles, TypeOK
<1>4. CASE SweepRefuse(r)
 <2>1. duty[r].job \in Jobs
   BY <1>4, SweptType DEF SweepRefuse, ReadTasks
 <2> QED BY <1>4, <2>1, FinishType DEF SweepRefuse, TypeOK, Duties, Terminal, Codes
<1>5. CASE SweepResend(r)
 <2>1. duty[r].job \in Jobs /\ duty[r].dated \in BOOLEAN
   BY <1>5, SweptType DEF SweepResend, ReadTasks
 <2>2. row' \in [Jobs -> Rows]
   BY <1>5, <2>1 DEF SweepResend, TypeOK, Rows
 <2>3. duty' \in [Replicas -> Duties]
   BY <1>5, <2>1 DEF SweepResend, TypeOK, Duties, SweepTasks
 <2> QED BY <1>5, <2>2, <2>3 DEF SweepResend, TypeOK
<1>6. CASE SweepSend(r) \/ SweepRaises(r)
 <2>1. duty[r] \in [task : SweepTasks, job : Jobs]
   BY <1>6, SweptType DEF SweepSend, SweepRaises, SweepTasks
 <2>2. [duty[r] EXCEPT !.task = "mark"] \in Duties
   BY <2>1 DEF Duties, SweepTasks
 <2>3. duty' \in [Replicas -> Duties]
   BY <1>6, <2>2 DEF SweepSend, SweepRaises, Turn, TypeOK, Duties
 <2>4. copies' \in [Jobs -> 0..MaxCopies] /\ requests' \subseteq Requests
   BY <1>6, <2>1, StoreType DEF SweepSend, SweepRaises
 <2> QED BY <1>6, <2>3, <2>4 DEF SweepSend, SweepRaises, TypeOK
<1>7. CASE SweepMark(r)
 <2>1. duty[r].job \in Jobs
   BY <1>7, SweptType DEF SweepMark, SweepTasks
 <2> QED BY <1>7, <2>1, DispatchType DEF SweepMark, TypeOK, Duties
<1>8. ASSUME NEW j \in Jobs, Reconcile(r, j) PROVE TypeOK'
  BY <1>8, FinishType DEF Reconcile, TypeOK, Terminal, Codes
<1>9. CASE ReplicaStops(r)
  BY <1>9, ResultBack DEF ReplicaStops, TypeOK, Duties
<1> QED BY <1>1, <1>2, <1>3, <1>4, <1>5, <1>6, <1>7, <1>8, <1>9 DEF Sweep

LEMMA ReapType ==
    ASSUME TypeOK, NEW p \in Pollers,
           ReapCommit(p) \/ \E j \in Jobs : ReapRead(p, j)
    PROVE  TypeOK'
<1> USE DEF sourceVars, usageVars, streamVars
<1>1. ASSUME NEW j \in Jobs, ReapRead(p, j) PROVE TypeOK'
  BY <1>1 DEF ReapRead, TypeOK, Reapings, jobVars
<1>2. CASE ReapCommit(p)
 <2>1. reaping[p].job \in Jobs
   BY <1>2 DEF ReapCommit, TypeOK, Reapings
 <2> QED BY <1>2, <2>1, FinishType
         DEF ReapCommit, TypeOK, Reapings, Terminal, Codes
<1> QED BY <1>1, <1>2

LEMMA TypeStep == TypeOK /\ [Next]_vars => TypeOK'
<1> SUFFICES ASSUME TypeOK, [Next]_vars PROVE TypeOK'
  OBVIOUS
<1>1. CASE UNCHANGED vars
  BY <1>1 DEF vars, jobVars, sourceVars, usageVars, streamVars, TypeOK
<1>2. CASE Next
  BY <1>2, StartType, WorkerType, EnvironmentType, ConsumerType, SweepType, ReapType
     DEF Next
<1> QED BY <1>1, <1>2

\* Every variable keeps to its type, whatever the endpoint, the stream, the
\* workers, the consumers, the sweeps and the polls interleave.
THEOREM TypeCorrect == Spec => []TypeOK
BY InitType, TypeStep, PTL DEF Spec

----
(* What one step does to a consumer's task, to a row and to a submission.  *)

\* A task moves along the result handler, and keeps its execution.
LEMMA HandStep ==
    ASSUME TypeOK, Next, NEW r \in Replicas,
           duty'[r].task \in {"apply", "locked", "staged", "conflict"}
    PROVE  /\ duty[r].task \in ResultTasks
           /\ duty'[r].msg.execution = duty[r].msg.execution
           /\ \/ duty'[r].task = duty[r].task
              \/ duty'[r].task = "apply" /\ BillResult(r)
              \/ duty'[r].task = "locked" /\ ApplyLock(r)
              \/ duty'[r].task \in {"staged", "conflict"} /\ StageFiles(r)
<1> DEFINE Goal == /\ duty[r].task \in ResultTasks
                   /\ duty'[r].msg.execution = duty[r].msg.execution
                   /\ \/ duty'[r].task = duty[r].task
                      \/ duty'[r].task = "apply" /\ BillResult(r)
                      \/ duty'[r].task = "locked" /\ ApplyLock(r)
                      \/ duty'[r].task \in {"staged", "conflict"} /\ StageFiles(r)
<1>1. CASE duty'[r] = duty[r]
  BY <1>1 DEF ResultTasks
<1>2. CASE UNCHANGED duty
  BY <1>1, <1>2
<1>3. ASSUME NEW q \in Replicas, Consumer(q) PROVE Goal
 <2>1. ASSUME NEW m \in results, TakeResult(q, m) PROVE Goal
   BY <1>1, <2>1 DEF TakeResult, TypeOK
 <2>2. CASE CheckResult(q)
  <3>1. PICK task \in {"ack", "bill"} : Turn(q, task) /\ duty[q].task \in ResultTasks
    BY <2>2 DEF CheckResult, ResultTasks
  <3> QED BY <1>1, <3>1, TurnType DEF ResultTasks
 <2>3. CASE BillResult(q)
   BY <1>1, <2>3, TurnType DEF BillResult, ResultTasks
 <2>4. CASE ApplyLock(q)
   BY <1>1, <2>4, TurnType DEF ApplyLock, ResultTasks
 <2>5. CASE StageFiles(q)
  <3>1. PICK task \in {"staged", "conflict"} : Turn(q, task) /\ duty[q].task \in ResultTasks
    BY <2>5 DEF StageFiles, ResultTasks
  <3> QED BY <1>1, <2>5, <3>1, TurnType DEF ResultTasks
 <2>6. CASE ApplyDuplicate(q) \/ StageMissing(q) \/ IgnoreConflict(q)
            \/ ApplyFailure(q) \/ ApplyUnchanged(q) \/ ApplyEdit(q) \/ ApplyConflict(q)
  <3>1. duty[q].task \in ResultTasks /\ "ack" \in ResultTasks /\ Turn(q, "ack")
    BY <2>6 DEF ApplyDuplicate, StageMissing, IgnoreConflict, ApplyFailure,
       ApplyUnchanged, ApplyEdit, ApplyConflict, Applied, ResultTasks
  <3> QED BY <1>1, <3>1, TurnType
 <2>7. CASE BillRaises(q) \/ ApplyRaises(q) \/ AckResult(q)
   BY <1>1, <2>7 DEF BillRaises, ApplyRaises, AckResult, Nak, TypeOK, Idle
 <2>8. CASE ResultRedelivered(q)
  <3>1. duty[q] \in [task : ResultTasks, msg : Taken]
    BY <2>8, HandledType DEF ResultRedelivered
  <3>2. duty' = [duty EXCEPT ![q] = [duty[q] EXCEPT !.msg.left = 0]]
    BY <2>8 DEF ResultRedelivered
  <3>3. [duty[q] EXCEPT !.msg.left = 0].task = duty[q].task
        /\ [duty[q] EXCEPT !.msg.left = 0].msg.execution = duty[q].msg.execution
    BY <3>1 DEF Taken
  <3> QED BY <1>1, <3>1, <3>2, <3>3 DEF TypeOK
 <2> QED BY <1>3, <2>1, <2>2, <2>3, <2>4, <2>5, <2>6, <2>7, <2>8 DEF Consumer, Apply
<1>4. ASSUME NEW q \in Replicas, Sweep(q) \/ ReplicaStops(q) PROVE Goal
 <2>1. ASSUME NEW j \in Jobs, SweepList(q, j) \/ SweepRead(q, j) \/ Reconcile(q, j)
       PROVE  Goal
   BY <1>1, <2>1 DEF SweepList, SweepRead, Reconcile, TypeOK
 <2>2. CASE SweepFiles(q) \/ SweepSend(q)
  <3>1. PICK task \in {"resend", "refuse", "mark"} :
           duty' = [duty EXCEPT ![q] = [duty[q] EXCEPT !.task = task]]
           /\ duty[q].task \in SweepTasks \cup ReadTasks
    BY <2>2 DEF SweepFiles, SweepSend, Turn, SweepTasks, ReadTasks
  <3>2. [duty[q] EXCEPT !.task = task].task = task
    BY <3>1, SweptType
  <3> QED BY <1>1, <3>1, <3>2 DEF TypeOK
 <2>3. CASE SweepRefuse(q) \/ SweepResend(q) \/ SweepRaises(q) \/ SweepMark(q) \/ ReplicaStops(q)
   BY <1>1, <2>3 DEF SweepRefuse, SweepResend, SweepRaises, SweepMark,
      ReplicaStops, TypeOK, Idle
 <2> QED BY <1>4, <2>1, <2>2, <2>3 DEF Sweep
<1>5. ASSUME \/ Save \/ DeleteFile \/ Discarded \/ Worker
             \/ \E j \in Jobs : Aged(j) \/ RunAged(j) \/ Start(j)
             \/ \E p \in Pollers : ReapCommit(p) \/ \E j \in Jobs : ReapRead(p, j)
      PROVE  UNCHANGED duty
  BY <1>5 DEF Save, DeleteFile, Discarded, Worker, Deliver, PublishResult, AckRequest,
     WorkerLost, WorkerCutOff, Aged, RunAged, Start, StartCheck, StartCommit,
     StartRolledBack, StartPublished, StartPublishRaised, StartMark, StartDies,
     ReapRead, ReapCommit
<1> QED BY <1>2, <1>3, <1>4, <1>5 DEF Next

LEMMA FinishStep ==
    ASSUME TypeOK, NEW j \in Jobs, NEW k \in Jobs, NEW status, NEW code,
           Finish(k, status, code)
    PROVE  IF j = k THEN row'[j].status = status ELSE row'[j] = row[j]
BY DEF Finish, TypeOK, Rows

LEMMA DispatchStep ==
    ASSUME TypeOK, NEW j \in Jobs, NEW k \in Jobs, Dispatch(k)
    PROVE  \/ row'[j].status = row[j].status
           \/ j = k /\ row[j].status = "queued" /\ row'[j].status = "running"
BY DEF Dispatch, TypeOK, Rows

\* The consumer's commits that finish a job.
Finishes(r) ==
    ApplyFailure(r) \/ ApplyUnchanged(r) \/ ApplyEdit(r) \/ ApplyConflict(r)

\* The steps that write a row, and the ones that write the source or a usage
\* record.
LEMMA WritingSteps ==
    ASSUME Next
    PROVE  /\ \/ UNCHANGED row
              \/ \E k \in Jobs : StartCommit(k) \/ \E r \in Replicas : StartMark(r, k)
              \/ \E r \in Replicas : \/ Finishes(r) \/ SweepRefuse(r) \/ SweepResend(r)
                                     \/ SweepMark(r) \/ \E k \in Jobs : Reconcile(r, k)
              \/ \E p \in Pollers : ReapCommit(p)
           /\ \/ UNCHANGED <<edited, recorded>>
              \/ \E r \in Replicas : Finishes(r) \/ ApplyDuplicate(r)
           /\ \/ UNCHANGED file
              \/ ~FileLocked
              \/ \E r \in Replicas : ApplyEdit(r)
           /\ billed \subseteq billed'
<1> DEFINE Goal == /\ \/ UNCHANGED row
                      \/ \E k \in Jobs : StartCommit(k) \/ \E r \in Replicas : StartMark(r, k)
                      \/ \E r \in Replicas : \/ Finishes(r) \/ SweepRefuse(r) \/ SweepResend(r)
                                             \/ SweepMark(r) \/ \E k \in Jobs : Reconcile(r, k)
                      \/ \E p \in Pollers : ReapCommit(p)
                   /\ \/ UNCHANGED <<edited, recorded>>
                      \/ \E r \in Replicas : Finishes(r) \/ ApplyDuplicate(r)
                   /\ \/ UNCHANGED file
                      \/ ~FileLocked
                      \/ \E r \in Replicas : ApplyEdit(r)
                   /\ billed \subseteq billed'
<1> USE DEF jobVars, sourceVars, usageVars
<1>1. CASE Save \/ DeleteFile \/ Discarded \/ Worker
  BY <1>1 DEF Save, DeleteFile, Discarded, Worker, Deliver, PublishResult, AckRequest,
     WorkerLost, WorkerCutOff
<1>2. ASSUME NEW j \in Jobs, Aged(j) \/ RunAged(j) \/ Start(j) PROVE Goal
  BY <1>2 DEF Aged, RunAged, Start, StartCheck, StartCommit, StartRolledBack,
     StartPublished, StartPublishRaised, StartMark, StartDies
<1>3. ASSUME NEW r \in Replicas, Consumer(r) PROVE Goal
  BY <1>3 DEF Consumer, Apply, Finishes, Applied, TakeResult, CheckResult, BillResult, BillRaises,
     ApplyDuplicate, ApplyLock, StageFiles, StageMissing, IgnoreConflict, ApplyRaises,
     AckResult, ResultRedelivered, ApplyFailure, ApplyUnchanged, ApplyConflict, ApplyEdit
<1>4. ASSUME NEW r \in Replicas, Sweep(r) \/ ReplicaStops(r) PROVE Goal
  BY <1>4 DEF Sweep, SweepList, SweepRead, Reconcile, SweepFiles, SweepRefuse,
     SweepResend, SweepSend, SweepRaises, SweepMark, ReplicaStops
<1>5. ASSUME NEW p \in Pollers, ReapCommit(p) \/ \E j \in Jobs : ReapRead(p, j) PROVE Goal
  BY <1>5 DEF ReapCommit, ReapRead
<1> QED BY <1>1, <1>2, <1>3, <1>4, <1>5 DEF Next

\* A commit that finishes a job was made by a consumer that held it, or that
\* found nobody holding it, and is recorded with its usage.
LEMMA FinishesStep ==
    ASSUME TypeOK, Held, NEW r \in Replicas, Finishes(r)
    PROVE  LET e == duty[r].msg.execution
           IN /\ duty[r].task \in {"locked", "staged", "conflict"}
              /\ e \in Executions
              /\ row[e.job].status \in Active
              /\ row'[e.job].status \in Terminal
              /\ \A k \in Jobs : k # e.job => row'[k] = row[k]
              /\ \A q \in Replicas, k \in Jobs : k = e.job => ~Holds(q, k)'
              /\ \E usage \in {"completed", "failed"} :
                    /\ recorded' = recorded \cup {[execution |-> e, status |-> usage]}
                    /\ row'[e.job].status = "succeeded" => usage = "completed"
                    /\ ApplyEdit(r) => usage = "completed"
              /\ \A j \in Jobs : edited'[j] # edited[j] => j = e.job /\ ApplyEdit(r)
              /\ UNCHANGED <<manifest, submit>>
<1> DEFINE e == duty[r].msg.execution
<1>1. PICK status \in Terminal, code \in Codes, usage \in {"completed", "failed"} :
         /\ Applied(r, status, code, usage)
         /\ status = "succeeded" => usage = "completed"
         /\ ApplyEdit(r) => usage = "completed"
  BY DEF Finishes, ApplyFailure, ApplyUnchanged, ApplyEdit, ApplyConflict, Terminal, Codes
<1>2. duty[r].task \in {"locked", "staged", "conflict"} /\ duty[r].task \in ResultTasks
  BY DEF Finishes, ApplyFailure, ApplyUnchanged, ApplyEdit, ApplyConflict, ResultTasks
<1>3. e \in Executions /\ e.job \in Jobs
  BY <1>2, HandledType
<1>4. /\ duty[r].task \in {"locked", "staged"} => Holds(r, e.job)
      /\ duty[r].task = "conflict" => ~JobLocked(e.job) /\ row[e.job].status \in Active
  BY <1>2 DEF Holds, Finishes, ApplyFailure, ApplyUnchanged, ApplyEdit, ApplyConflict
<1>5. row[e.job].status \in Active /\ \A q \in Replicas : Holds(q, e.job) => q = r
  BY <1>2, <1>3, <1>4 DEF Held, JobLocked, Holds
<1>6. row'[e.job].status = status /\ \A k \in Jobs : k # e.job => row'[k] = row[k]
  BY <1>1, <1>3, FinishStep DEF Applied
<1>7. duty'[r].task = "ack" /\ \A q \in Replicas : q # r => duty'[q] = duty[q]
  BY <1>1, <1>2, TurnType DEF Applied, ResultTasks
<1>8. \A q \in Replicas, k \in Jobs : k = e.job => ~Holds(q, k)'
  BY <1>5, <1>7 DEF Holds
<1>9. \A j \in Jobs : edited'[j] # edited[j] => j = e.job /\ ApplyEdit(r)
  BY <1>3 DEF Finishes, ApplyFailure, ApplyUnchanged, ApplyEdit, ApplyConflict,
     sourceVars, TypeOK
<1>10. UNCHANGED <<manifest, submit>>
  BY <1>1 DEF Applied
<1> QED BY <1>1, <1>2, <1>3, <1>5, <1>6, <1>8, <1>9, <1>10 DEF Applied, Record

\* What a step does to the status of a row: nothing, the commit of a request,
\* a dispatch of a queued job, or the end of a job that exists.  The last two
\* wait for the row's lock.
LEMMA RowStep ==
    ASSUME TypeOK, Traced, Held, Next, NEW j \in Jobs
    PROVE  \/ row'[j].status = row[j].status
           \/ StartCommit(j) /\ row'[j].status = "queued"
           \/ /\ row[j].status = "queued" /\ row'[j].status = "running"
              /\ \A r \in Replicas : ~Holds(r, j)'
           \/ /\ Existing(j) /\ row'[j].status \in Terminal
              /\ \A r \in Replicas : ~Holds(r, j)'
              /\ \/ row'[j].status # "succeeded"
                 \/ \E r \in Replicas : Finishes(r) /\ duty[r].msg.execution.job = j
<1> DEFINE Goal == \/ row'[j].status = row[j].status
                   \/ StartCommit(j) /\ row'[j].status = "queued"
                   \/ /\ row[j].status = "queued" /\ row'[j].status = "running"
                      /\ \A r \in Replicas : ~Holds(r, j)'
                   \/ /\ Existing(j) /\ row'[j].status \in Terminal
                      /\ \A r \in Replicas : ~Holds(r, j)'
                      /\ \/ row'[j].status # "succeeded"
                         \/ \E r \in Replicas : Finishes(r) /\ duty[r].msg.execution.job = j
<1> USE DEF Terminal
<1>1. ASSUME NEW k \in Jobs, StartCommit(k) PROVE Goal
  BY <1>1 DEF StartCommit, TypeOK
<1>2. ASSUME NEW k \in Jobs, NEW r \in Replicas, StartMark(r, k) PROVE Goal
  BY <1>2, DispatchStep DEF StartMark, JobLocked, Holds
<1>3. ASSUME NEW r \in Replicas, Finishes(r) PROVE Goal
  BY <1>3, FinishesStep DEF Existing, Active
<1>4. ASSUME NEW r \in Replicas, SweepRefuse(r) PROVE Goal
 <2>1. duty[r].job \in Jobs /\ Existing(duty[r].job)
   BY <1>4, SweptType DEF SweepRefuse, ReadTasks, Traced
 <2>2. \A q \in Replicas, k \in Jobs : Holds(q, k)' => Holds(q, k)
   BY <1>4 DEF SweepRefuse, Holds, TypeOK, Idle
 <2>3. \A q \in Replicas : ~Holds(q, duty[r].job)
   BY <1>4 DEF SweepRefuse, JobLocked, Holds
 <2> QED BY <1>4, <2>1, <2>2, <2>3, FinishStep DEF SweepRefuse
<1>5. ASSUME NEW r \in Replicas, SweepResend(r) PROVE Goal
  BY <1>5 DEF SweepResend, TypeOK, Rows
<1>6. ASSUME NEW r \in Replicas, SweepMark(r) PROVE Goal
 <2>1. duty[r].job \in Jobs
   BY <1>6, SweptType DEF SweepMark, SweepTasks
 <2>2. \A q \in Replicas, k \in Jobs : Holds(q, k)' => Holds(q, k)
   BY <1>6 DEF SweepMark, Holds, TypeOK, Idle
 <2>3. \A q \in Replicas : ~Holds(q, duty[r].job)
   BY <1>6 DEF SweepMark, JobLocked, Holds
 <2> QED BY <1>6, <2>1, <2>2, <2>3, DispatchStep DEF SweepMark
<1>7. ASSUME NEW r \in Replicas, NEW k \in Jobs, Reconcile(r, k) PROVE Goal
 <2>1. Existing(k)
   BY <1>7 DEF Reconcile, Stale, Existing
 <2> QED BY <1>7, <2>1, FinishStep DEF Reconcile, JobLocked, Holds
<1>8. ASSUME NEW p \in Pollers, ReapCommit(p) PROVE Goal
 <2>1. reaping[p].job \in Jobs /\ Existing(reaping[p].job)
   BY <1>8 DEF ReapCommit, TypeOK, Reapings, Traced
 <2> QED BY <1>8, <2>1, FinishStep DEF ReapCommit, JobLocked, Holds
<1> QED BY <1>1, <1>2, <1>3, <1>4, <1>5, <1>6, <1>7, <1>8, WritingSteps

\* A request is new or at its check only if it was new before; it gets to the
\* check with the project row locked, free of other edits.
LEMMA SubmitStep ==
    ASSUME TypeOK, Next, NEW j \in Jobs
    PROVE  /\ submit'[j] = "new" => submit[j] = "new"
           /\ submit'[j] = "checked" =>
                 \/ submit[j] = "checked" /\ ~StartCommit(j)
                 \/ /\ submit[j] = "new" /\ ~ProjectLocked
                    /\ \A k \in Jobs : row[k].status \notin Active
                    /\ \A k \in Jobs : k # j => submit'[k] = submit[k]
                    /\ UNCHANGED row
           /\ submit[j] = "new" \/ manifest'[j] = manifest[j]
<1> DEFINE Goal == /\ submit'[j] = "new" => submit[j] = "new"
                   /\ submit'[j] = "checked" =>
                         \/ submit[j] = "checked" /\ ~StartCommit(j)
                         \/ /\ submit[j] = "new" /\ ~ProjectLocked
                            /\ \A k \in Jobs : row[k].status \notin Active
                            /\ \A k \in Jobs : k # j => submit'[k] = submit[k]
                            /\ UNCHANGED row
                   /\ submit[j] = "new" \/ manifest'[j] = manifest[j]
<1>1. CASE UNCHANGED <<submit, manifest>>
  BY <1>1 DEF StartCommit, TypeOK
<1>2. ASSUME NEW k \in Jobs, Start(k) PROVE Goal
 <2>1. ASSUME NEW r \in Replicas, StartCheck(r, k) PROVE Goal
   BY <2>1 DEF StartCheck, StartCommit, TypeOK
 <2>2. CASE k = j /\ submit' = [submit EXCEPT ![k] = "publishing"] /\ UNCHANGED manifest
   BY <2>2 DEF TypeOK
 <2>3. ASSUME NEW state \in {"publishing", "marking", "done"},
              submit' = [submit EXCEPT ![k] = state], UNCHANGED manifest
       PROVE  Goal
   BY <2>3 DEF StartCommit, TypeOK
 <2> QED BY <1>2, <2>1, <2>3 DEF Start, StartCommit, StartRolledBack,
         StartPublished, StartPublishRaised, StartMark, StartDies, jobVars
<1>3. CASE ~(\E k \in Jobs : Start(k))
 <2>1. UNCHANGED <<submit, manifest>>
  <3> USE DEF jobVars
  <3>1. CASE Save \/ DeleteFile \/ Discarded \/ Worker \/ \E k \in Jobs : Aged(k) \/ RunAged(k)
    BY <3>1 DEF Save, DeleteFile, Discarded, Worker, Deliver, PublishResult,
       AckRequest, WorkerLost, WorkerCutOff, Aged, RunAged
  <3>2. ASSUME NEW r \in Replicas, Consumer(r) PROVE UNCHANGED <<submit, manifest>>
    BY <3>2 DEF Consumer, Apply, Applied, TakeResult, CheckResult, BillResult,
       BillRaises, ApplyDuplicate, ApplyLock, StageFiles, StageMissing, IgnoreConflict,
       ApplyRaises, AckResult, ResultRedelivered, ApplyFailure, ApplyUnchanged,
       ApplyConflict, ApplyEdit
  <3>3. ASSUME NEW r \in Replicas, Sweep(r) \/ ReplicaStops(r)
        PROVE  UNCHANGED <<submit, manifest>>
    BY <3>3 DEF Sweep, SweepList, SweepRead, Reconcile, SweepFiles, SweepRefuse,
       SweepResend, SweepSend, SweepRaises, SweepMark, ReplicaStops
  <3>4. ASSUME NEW p \in Pollers, ReapCommit(p) \/ \E k \in Jobs : ReapRead(p, k)
        PROVE  UNCHANGED <<submit, manifest>>
    BY <3>4 DEF ReapCommit, ReapRead
  <3> QED BY <1>3, <3>1, <3>2, <3>3, <3>4 DEF Next
 <2> QED BY <1>1, <2>1
<1> QED BY <1>2, <1>3

\* A sweep task was there before, with the same job and what it had read, or
\* has just been taken up for a row it found.
LEMMA SweepStep ==
    ASSUME TypeOK, Next, NEW r \in Replicas, duty'[r].task \in SweepTasks \cup ReadTasks
    PROVE  /\ \/ /\ duty[r].task \in SweepTasks \cup ReadTasks
                 /\ duty'[r].job = duty[r].job
              \/ \E j \in Jobs : /\ duty'[r].job = j
                                 /\ row[j].status = "queued" /\ UNCHANGED row
           /\ duty'[r].task \in ReadTasks =>
                 \/ duty'[r] = duty[r]
                 \/ UNCHANGED row /\ duty'[r].dated = row[duty'[r].job].dispatched
                 \/ UNCHANGED row /\ duty[r].task \in ReadTasks
                    /\ duty'[r].job = duty[r].job /\ duty'[r].dated = duty[r].dated
<1> DEFINE Goal == /\ \/ /\ duty[r].task \in SweepTasks \cup ReadTasks
                         /\ duty'[r].job = duty[r].job
                      \/ \E j \in Jobs : /\ duty'[r].job = j
                                         /\ row[j].status = "queued" /\ UNCHANGED row
                   /\ duty'[r].task \in ReadTasks =>
                         \/ duty'[r] = duty[r]
                         \/ UNCHANGED row /\ duty'[r].dated = row[duty'[r].job].dispatched
                         \/ UNCHANGED row /\ duty[r].task \in ReadTasks
                            /\ duty'[r].job = duty[r].job /\ duty'[r].dated = duty[r].dated
<1>1. CASE duty'[r] = duty[r]
  BY <1>1
<1>2. duty'[r].task \notin ResultTasks /\ duty'[r] # Idle
  BY DEF ResultTasks, SweepTasks, ReadTasks, Idle
<1>3. ASSUME NEW q \in Replicas, Consumer(q) PROVE duty'[r] = duty[r]
 <2>1. ASSUME NEW task \in ResultTasks, duty[q].task \in ResultTasks, Turn(q, task)
       PROVE  duty'[r] = duty[r]
   BY <1>2, <2>1, TurnType
 <2>2. CASE \E m \in results : TakeResult(q, m)
   BY <1>2, <2>2 DEF TakeResult, TypeOK, ResultTasks
 <2>3. CASE BillRaises(q) \/ ApplyRaises(q) \/ AckResult(q)
   BY <1>2, <2>3 DEF BillRaises, ApplyRaises, AckResult, Nak, TypeOK
 <2>4. CASE ResultRedelivered(q)
  <3>1. duty[q] \in [task : ResultTasks, msg : Taken]
        /\ duty' = [duty EXCEPT ![q] = [duty[q] EXCEPT !.msg.left = 0]]
    BY <2>4, HandledType DEF ResultRedelivered
  <3>2. [duty[q] EXCEPT !.msg.left = 0].task \in ResultTasks
    BY <3>1 DEF Taken
  <3> QED BY <1>2, <3>1, <3>2 DEF TypeOK
 <2>5. CASE \/ CheckResult(q) \/ BillResult(q) \/ ApplyDuplicate(q) \/ ApplyLock(q)
            \/ Apply(q)
   BY <2>1, <2>5 DEF CheckResult, BillResult, ApplyDuplicate, ApplyLock, Apply,
      ApplyFailure, ApplyUnchanged, StageFiles, StageMissing, ApplyEdit, ApplyConflict,
      IgnoreConflict, Applied, ResultTasks
 <2> QED BY <1>3, <2>2, <2>3, <2>4, <2>5 DEF Consumer
<1>4. ASSUME NEW q \in Replicas, Sweep(q) \/ ReplicaStops(q) PROVE Goal
 <2>1. ASSUME NEW j \in Jobs, SweepList(q, j) PROVE Goal
   BY <1>1, <2>1 DEF SweepList, TypeOK, ReadTasks, jobVars
 <2>2. ASSUME NEW j \in Jobs, SweepRead(q, j) PROVE Goal
   BY <1>1, <2>2 DEF SweepRead, TypeOK, SweepTasks, jobVars
 <2>3. ASSUME NEW j \in Jobs, Reconcile(q, j) PROVE Goal
   BY <1>1, <2>3 DEF Reconcile
 <2>4. CASE SweepFiles(q)
  <3>1. duty[q] \in [task : ReadTasks, job : Jobs, dated : BOOLEAN]
    BY <2>4, SweptType DEF SweepFiles, ReadTasks
  <3>2. PICK task : duty' = [duty EXCEPT ![q] = [duty[q] EXCEPT !.task = task]]
    BY <2>4 DEF SweepFiles, Turn
  <3>3. [duty[q] EXCEPT !.task = task].job = duty[q].job
        /\ [duty[q] EXCEPT !.task = task].dated = duty[q].dated
    BY <3>1
  <3> QED BY <1>1, <2>4, <3>1, <3>2, <3>3 DEF SweepFiles, TypeOK, jobVars
 <2>5. CASE SweepSend(q)
  <3>1. duty[q] \in [task : SweepTasks, job : Jobs]
    BY <2>5, SweptType DEF SweepSend, SweepTasks
  <3>2. [duty[q] EXCEPT !.task = "mark"].job = duty[q].job
        /\ [duty[q] EXCEPT !.task = "mark"].task = "mark"
    BY <3>1
  <3> QED BY <1>1, <2>5, <3>1, <3>2 DEF SweepSend, Turn, TypeOK, ReadTasks
 <2>6. CASE SweepResend(q)
   BY <1>1, <2>6 DEF SweepResend, TypeOK, ReadTasks
 <2>7. CASE SweepRefuse(q) \/ SweepRaises(q) \/ SweepMark(q) \/ ReplicaStops(q)
   BY <1>1, <1>2, <2>7 DEF SweepRefuse, SweepRaises, SweepMark, ReplicaStops, TypeOK
 <2> QED BY <1>4, <2>1, <2>2, <2>3, <2>4, <2>5, <2>6, <2>7 DEF Sweep
<1>5. ASSUME \/ Save \/ DeleteFile \/ Discarded \/ Worker
             \/ \E j \in Jobs : Aged(j) \/ RunAged(j) \/ Start(j)
             \/ \E p \in Pollers : ReapCommit(p) \/ \E j \in Jobs : ReapRead(p, j)
      PROVE  UNCHANGED duty
  BY <1>5 DEF Save, DeleteFile, Discarded, Worker, Deliver, PublishResult, AckRequest,
     WorkerLost, WorkerCutOff, Aged, RunAged, Start, StartCheck, StartCommit,
     StartRolledBack, StartPublished, StartPublishRaised, StartMark, StartDies,
     ReapRead, ReapCommit
<1> QED BY <1>1, <1>3, <1>4, <1>5 DEF Next

\* The sweep and the polls go on with the job they had, or take one they read.
LEMMA SweptStep ==
    ASSUME TypeOK, Traced, Next
    PROVE  /\ \A r \in Replicas : duty'[r].task \in SweepTasks \cup ReadTasks =>
                 duty'[r].job \in Jobs /\ Existing(duty'[r].job)
           /\ \A p \in Pollers : reaping'[p] # NoJob =>
                 reaping'[p].job \in Jobs /\ Existing(reaping'[p].job)
<1>1. ASSUME NEW r \in Replicas, duty[r].task \in SweepTasks \cup ReadTasks
      PROVE  duty[r].job \in Jobs /\ Existing(duty[r].job)
  BY <1>1, SweptType DEF Traced
<1>2. ASSUME NEW r \in Replicas, duty'[r].task \in SweepTasks \cup ReadTasks
      PROVE  duty'[r].job \in Jobs /\ Existing(duty'[r].job)
  BY <1>1, <1>2, SweepStep DEF Existing
<1>3. ASSUME NEW p \in Pollers, reaping'[p] # NoJob
      PROVE  reaping'[p].job \in Jobs /\ Existing(reaping'[p].job)
 <2>1. CASE reaping'[p] = reaping[p]
   BY <1>3, <2>1 DEF TypeOK, Reapings, Traced
 <2>2. ASSUME NEW q \in Pollers, NEW j \in Jobs, ReapRead(q, j)
       PROVE  reaping'[p] = reaping[p] \/ (reaping'[p].job = j /\ Existing(j))
   BY <2>2 DEF ReapRead, Stale, Existing, TypeOK
 <2>3. ASSUME NEW q \in Pollers, ReapCommit(q) PROVE reaping'[p] = reaping[p]
   BY <1>3, <2>3 DEF ReapCommit, TypeOK
 <2>4. ASSUME NEW r \in Replicas, Consumer(r) \/ Sweep(r) \/ ReplicaStops(r)
       PROVE  UNCHANGED reaping
   BY <2>4 DEF Consumer, Apply, Applied, TakeResult, CheckResult, BillResult,
      BillRaises, ApplyDuplicate, ApplyLock, StageFiles, StageMissing, IgnoreConflict,
      ApplyRaises, AckResult, ResultRedelivered, ApplyFailure, ApplyUnchanged,
      ApplyConflict, ApplyEdit, Sweep, SweepList, SweepRead, Reconcile, SweepFiles,
      SweepRefuse, SweepResend, SweepSend, SweepRaises, SweepMark, ReplicaStops
 <2>5. ASSUME Save \/ DeleteFile \/ Discarded \/ Worker
              \/ \E j \in Jobs : Aged(j) \/ RunAged(j) \/ Start(j)
       PROVE  UNCHANGED reaping
   BY <2>5 DEF Save, DeleteFile, Discarded, Worker, Deliver, PublishResult,
      AckRequest, WorkerLost, WorkerCutOff, Aged, RunAged, Start, StartCheck,
      StartCommit, StartRolledBack, StartPublished, StartPublishRaised, StartMark,
      StartDies
 <2> QED BY <2>1, <2>2, <2>3, <2>4, <2>5 DEF Next
<1> QED BY <1>1, <1>2, <1>3

----
(* Each part of the invariant is kept.                                     *)

LEMMA ExistingStays ==
    ASSUME TypeOK, Traced, Held, Next, NEW j \in Jobs
    PROVE  /\ Existing(j) => Existing(j)'
           /\ Existing(j) => ~StartCommit(j)
           /\ ~Existing(j) => ~Existing(j)' \/ StartCommit(j)
           /\ Existing(j) => manifest'[j] = manifest[j]
<1>1. submit[j] \in {"new", "checked"} => ~Existing(j)
  BY DEF Traced
<1>2. Existing(j) => ~StartCommit(j) /\ manifest'[j] = manifest[j]
  BY <1>1, SubmitStep DEF StartCommit
<1> QED BY <1>2, RowStep DEF Existing, Terminal

\* A lock that is held was held, or is just being taken.
LEMMA HoldsStep ==
    ASSUME TypeOK, Next, NEW r \in Replicas, NEW j \in Jobs, Holds(r, j)'
    PROVE  Holds(r, j) \/ (ApplyLock(r) /\ duty[r].msg.execution.job = j)
<1>1. duty'[r].task \in {"locked", "staged"} /\ duty'[r].msg.execution.job = j
  BY DEF Holds
<1> QED BY <1>1, HandStep DEF Holds, StageFiles

LEMMA TracedStep ==
    ASSUME TypeOK, Traced, Held, Next
    PROVE  Traced'
<1>1. ASSUME NEW j \in Jobs, submit'[j] \in {"new", "checked"} PROVE ~Existing(j)'
 <2>1. submit[j] \in {"new", "checked"} /\ ~StartCommit(j)
   BY <1>1, SubmitStep DEF StartCommit, TypeOK
 <2> QED BY <2>1, ExistingStays DEF Traced
<1>2. ASSUME NEW j \in Jobs, edited'[j] # 0 PROVE Existing(j)'
 <2>1. CASE edited'[j] = edited[j]
   BY <1>2, <2>1, ExistingStays DEF Traced
 <2>2. CASE edited'[j] # edited[j]
  <3>1. PICK r \in Replicas : Finishes(r) \/ ApplyDuplicate(r)
    BY <2>2, WritingSteps
  <3>2. CASE Finishes(r)
    BY <2>2, <3>2, FinishesStep DEF Existing, Terminal
  <3> QED BY <2>2, <3>1, <3>2 DEF ApplyDuplicate, sourceVars
 <2> QED BY <2>1, <2>2
<1>3. ASSUME NEW r \in Replicas, duty'[r].task \in SweepTasks \cup ReadTasks
      PROVE  Existing(duty[r].job)'
 <2>1. PICK j \in Jobs : duty'[r].job = j /\ Existing(j)
   BY <1>3, SweptStep
 <2> QED BY <2>1, ExistingStays DEF Existing
<1>4. ASSUME NEW p \in Pollers, reaping'[p] # NoJob PROVE Existing(reaping[p].job)'
 <2>1. PICK j \in Jobs : reaping'[p].job = j /\ Existing(j)
   BY <1>4, SweptStep
 <2> QED BY <2>1, ExistingStays DEF Existing
<1> QED BY <1>1, <1>2, <1>3, <1>4 DEF Traced

\* A job is active only if it was, or if its request has just been committed.
LEMMA ActiveStep ==
    ASSUME TypeOK, Traced, Held, Next, NEW j \in Jobs, row'[j].status \in Active
    PROVE  row[j].status \in Active \/ StartCommit(j)
BY RowStep DEF Active, Terminal

LEMMA OneActiveStep ==
    ASSUME TypeOK, Traced, Held, Exclusive, OneActiveEdit, Next
    PROVE  OneActiveEdit'
<1> SUFFICES ASSUME NEW j \in Jobs, NEW k \in Jobs,
                    row'[j].status \in Active, row'[k].status \in Active
             PROVE  j = k
  BY DEF OneActiveEdit
<1>1. ASSUME NEW a \in Jobs, NEW b \in Jobs, StartCommit(a), row'[b].status \in Active
      PROVE  a = b
  BY <1>1, ActiveStep DEF StartCommit, Exclusive
<1>2. CASE StartCommit(j) \/ StartCommit(k)
  BY <1>1, <1>2
<1>3. CASE row[j].status \in Active /\ row[k].status \in Active
  BY <1>3 DEF OneActiveEdit
<1> QED BY <1>2, <1>3, ActiveStep

LEMMA ExclusiveStep ==
    ASSUME TypeOK, Traced, Held, Exclusive, Next
    PROVE  Exclusive'
<1> SUFFICES ASSUME NEW j \in Jobs, submit'[j] = "checked", NEW k \in Jobs
             PROVE  /\ row'[k].status \notin Active
                    /\ submit'[k] = "checked" => k = j
  BY DEF Exclusive
<1>1. CASE submit[j] = "checked" /\ ~StartCommit(j)
 <2>1. row[k].status \notin Active /\ (submit[k] = "checked" => k = j)
   BY <1>1 DEF Exclusive
 <2>2. ~StartCommit(k)
   BY <1>1, <2>1 DEF StartCommit
 <2>3. submit'[k] = "checked" => submit[k] = "checked"
   BY <1>1, SubmitStep DEF ProjectLocked
 <2> QED BY <2>1, <2>2, <2>3, ActiveStep
<1>2. CASE /\ submit[j] = "new" /\ ~ProjectLocked
           /\ \A i \in Jobs : row[i].status \notin Active
           /\ \A i \in Jobs : i # j => submit'[i] = submit[i]
           /\ UNCHANGED row
  BY <1>2 DEF ProjectLocked
<1> QED BY <1>1, <1>2, SubmitStep

LEMMA HeldStep ==
    ASSUME TypeOK, Traced, Held, Next
    PROVE  Held'
<1> SUFFICES ASSUME NEW r \in Replicas, NEW j \in Jobs, Holds(r, j)'
             PROVE  /\ row'[j].status \in Active
                    /\ \A q \in Replicas : Holds(q, j)' => q = r
  BY DEF Held, Holds
<1>1. row[j].status \in Active
  BY HoldsStep DEF Held, ApplyLock
<1>2. row'[j].status \in Active
  BY <1>1, RowStep, ExistingStays DEF Existing, Active
<1>3. ASSUME NEW q \in Replicas, Holds(q, j)' PROVE q = r
 <2>1. ASSUME NEW a \in Replicas, NEW b \in Replicas, Holds(b, j)', ApplyLock(a),
              duty[a].msg.execution.job = j
       PROVE  b = a
  <3>1. ~Holds(b, j)
    BY <2>1 DEF ApplyLock, JobLocked, Holds
  <3>2. ApplyLock(b)
    BY <2>1, <3>1, HoldsStep
  <3>3. b # a => duty'[b] = duty[b]
    BY <2>1, TurnType DEF ApplyLock, ResultTasks
  <3> QED BY <2>1, <3>2, <3>3 DEF ApplyLock, Holds
 <2> QED BY <1>3, <2>1, HoldsStep DEF Held
<1> QED BY <1>2, <1>3

LEMMA ComparedStep ==
    ASSUME TypeOK, Traced, Held, Compared, Next
    PROVE  Compared'
<1>1. ASSUME NEW r \in Replicas, duty'[r].task = "staged"
      PROVE  /\ duty[r].msg.execution \in Executions
             /\ duty'[r].msg.execution = duty[r].msg.execution
             /\ file = manifest[duty[r].msg.execution.job]
             /\ row[duty[r].msg.execution.job].status \in Active
             /\ \/ duty[r].task = "staged"
                \/ StageFiles(r) /\ ~FileLocked
 <2>1. /\ duty[r].task \in ResultTasks
       /\ duty'[r].msg.execution = duty[r].msg.execution
       /\ duty[r].task = "staged" \/ StageFiles(r)
   BY <1>1, HandStep
 <2>2. duty[r].msg.execution \in Executions /\ duty[r].msg.execution.job \in Jobs
   BY <2>1, HandledType
 <2>3. row[duty[r].msg.execution.job].status \in Active
   BY <2>1, <2>2 DEF Held, Holds, StageFiles
 <2>4. ASSUME StageFiles(r)
       PROVE  file = manifest[duty[r].msg.execution.job] /\ ~FileLocked
  <3>1. duty'[r].task = IF file = manifest[duty[r].msg.execution.job]
                        THEN "staged" ELSE "conflict"
    BY <2>1, <2>4, TurnType DEF StageFiles, ResultTasks
  <3> QED BY <1>1, <2>4, <3>1 DEF StageFiles
 <2> QED BY <2>1, <2>2, <2>3, <2>4 DEF Compared
<1>2. ASSUME NEW r \in Replicas, duty'[r].task = "staged"
      PROVE  file' = manifest'[duty'[r].msg.execution.job]
 <2>1. PICK j \in Jobs : duty[r].msg.execution.job = j
   BY <1>2, <1>1 DEF Executions
 <2>2. manifest'[j] = manifest[j]
   BY <1>2, <1>1, <2>1, ExistingStays DEF Existing, Active
 <2>3. file' = file
  <3>1. CASE StageFiles(r)
    BY <3>1 DEF StageFiles, sourceVars
  <3>2. CASE duty[r].task = "staged"
   <4>1. FileLocked
     BY <3>2 DEF FileLocked
   <4>2. ASSUME NEW q \in Replicas, ApplyEdit(q) PROVE FALSE
    <5>1. duty[q].task = "staged" /\ Turn(q, "ack")
      BY <4>2 DEF ApplyEdit, Applied
    <5>2. duty'[q].task = "ack"
      BY <5>1, TurnType DEF ResultTasks
    <5> QED BY <1>2, <3>2, <5>1, <5>2 DEF Compared
   <4> QED BY <4>1, <4>2, WritingSteps
  <3> QED BY <1>2, <1>1, <3>1, <3>2
 <2> QED BY <1>2, <1>1, <2>1, <2>2, <2>3
<1>3. ASSUME NEW r \in Replicas, NEW q \in Replicas,
             duty'[r].task = "staged", duty'[q].task = "staged"
      PROVE  r = q
 <2>1. CASE duty[r].task = "staged" /\ duty[q].task = "staged"
   BY <2>1 DEF Compared
 <2>2. ASSUME NEW a \in Replicas, NEW b \in Replicas,
              duty'[b].task = "staged", StageFiles(a), ~FileLocked
       PROVE  a = b
  <3>1. duty[b].task # "staged"
    BY <2>2 DEF FileLocked
  <3>2. a # b => duty'[b] = duty[b]
   <4>1. PICK task \in {"staged", "conflict"} : Turn(a, task) /\ duty[a].task \in ResultTasks
     BY <2>2 DEF StageFiles, ResultTasks
   <4> QED BY <4>1, TurnType DEF ResultTasks
  <3> QED BY <2>2, <3>1, <3>2
 <2> QED BY <1>1, <1>3, <2>1, <2>2
<1> QED BY <1>2, <1>3 DEF Compared

LEMMA ReplaceStep ==
    ASSUME TypeOK, Traced, Held, Compared, EditReplacesWhatItSaw, Next
    PROVE  EditReplacesWhatItSaw'
<1> SUFFICES ASSUME NEW j \in Jobs, edited'[j] # 0
             PROVE  edited'[j] = manifest'[j] + 1
  BY DEF EditReplacesWhatItSaw
<1>1. CASE edited'[j] = edited[j]
  BY <1>1, ExistingStays DEF Traced, EditReplacesWhatItSaw
<1>2. CASE edited'[j] # edited[j]
 <2>1. PICK r \in Replicas : ApplyEdit(r) /\ duty[r].msg.execution.job = j
  <3>1. PICK r \in Replicas : Finishes(r) \/ ApplyDuplicate(r)
    BY <1>2, WritingSteps
  <3>2. Finishes(r)
    BY <1>2, <3>1 DEF ApplyDuplicate, sourceVars
  <3> QED BY <1>2, <3>2, FinishesStep
 <2>2. edited'[j] = file + 1
   BY <2>1 DEF ApplyEdit, TypeOK
 <2>3. file = manifest[j] /\ manifest'[j] = manifest[j]
   BY <2>1 DEF ApplyEdit, Applied, Compared
 <2> QED BY <2>2, <2>3
<1> QED BY <1>1, <1>2

\* At most one execution is recorded by a step: one that was billed and not
\* recorded before, of a job that is over after the step.
LEMMA RecordStep ==
    ASSUME TypeOK, Held, Paid, Next
    PROVE  \/ UNCHANGED recorded
           \/ \E e \in billed, usage \in {"completed", "failed"} :
                 /\ recorded' = recorded \cup {[execution |-> e, status |-> usage]}
                 /\ ~Known(e)
                 /\ e.job \in Jobs /\ row'[e.job].status \in Terminal
<1>1. CASE UNCHANGED recorded
  BY <1>1
<1>2. ASSUME NEW r \in Replicas, Finishes(r)
      PROVE  \E e \in billed, usage \in {"completed", "failed"} :
                /\ recorded' = recorded \cup {[execution |-> e, status |-> usage]}
                /\ ~Known(e)
                /\ e.job \in Jobs /\ row'[e.job].status \in Terminal
 <2>1. PICK e : e = duty[r].msg.execution
   OBVIOUS
 <2>2. e \in billed /\ e \in Executions
   BY <1>2, <2>1, FinishesStep DEF Paid
 <2>3. ~Known(e)
   BY <1>2, <2>1, FinishesStep DEF Paid, Known, Active, Terminal
 <2> QED BY <1>2, <2>1, <2>2, <2>3, FinishesStep DEF Executions
<1>3. ASSUME NEW r \in Replicas, ApplyDuplicate(r), ~UNCHANGED recorded
      PROVE  \E e \in billed, usage \in {"completed", "failed"} :
                /\ recorded' = recorded \cup {[execution |-> e, status |-> usage]}
                /\ ~Known(e)
                /\ e.job \in Jobs /\ row'[e.job].status \in Terminal
 <2>1. PICK e : e = duty[r].msg.execution
   OBVIOUS
 <2>2. e \in billed /\ e.job \in Jobs
   BY <1>3, <2>1, HandledType DEF ApplyDuplicate, Paid, ResultTasks
 <2>3. /\ ~Known(e) /\ row[e.job].status \in Terminal /\ UNCHANGED row
       /\ Record(e, Completion(duty[r].msg.verdict))
   BY <1>3, <2>1 DEF ApplyDuplicate, jobVars
 <2>4. Completion(duty[r].msg.verdict) \in {"completed", "failed"}
   BY DEF Completion
 <2> QED BY <2>2, <2>3, <2>4 DEF Record
<1> QED BY <1>1, <1>2, <1>3, WritingSteps

LEMMA PaidStep ==
    ASSUME TypeOK, Traced, Held, Paid, Next
    PROVE  Paid'
<1>1. ASSUME NEW u \in recorded'
      PROVE  u.execution \in billed' /\ row'[u.execution.job].status \in Terminal
 <2>1. CASE u \in recorded
  <3>1. u.execution.job \in Jobs /\ row[u.execution.job].status \in Terminal
        /\ u.execution \in billed
    BY <2>1 DEF Paid, TypeOK, UsageRecords, Executions
  <3>2. row'[u.execution.job].status \in Terminal
    BY <3>1, RowStep, ExistingStays DEF Existing, Terminal
  <3> QED BY <3>1, <3>2, WritingSteps
 <2>2. CASE u \notin recorded
   BY <1>1, <2>2, RecordStep, WritingSteps
 <2> QED BY <2>1, <2>2
<1>2. ASSUME NEW r \in Replicas,
             duty'[r].task \in {"apply", "locked", "staged", "conflict"}
      PROVE  duty'[r].msg.execution \in billed'
 <2>1. duty'[r].msg.execution = duty[r].msg.execution
   BY <1>2, HandStep
 <2>2. CASE BillResult(r)
   BY <2>1, <2>2 DEF BillResult
 <2>3. CASE ~BillResult(r)
  <3>1. duty[r].task \in {"apply", "locked", "staged", "conflict"}
    BY <1>2, <2>3, HandStep DEF ApplyLock, StageFiles
  <3> QED BY <2>1, <3>1, WritingSteps DEF Paid
 <2> QED BY <2>2, <2>3
<1> QED BY <1>1, <1>2 DEF Paid

LEMMA AccountedStep ==
    ASSUME TypeOK, Traced, Held, Paid, EditsAreAccounted, Next
    PROVE  EditsAreAccounted'
<1>1. \A u \in recorded' : u.execution \in billed'
  BY PaidStep DEF Paid
<1>2. ASSUME NEW u \in recorded', NEW v \in recorded', u.execution = v.execution
      PROVE  u = v
  BY <1>2, RecordStep DEF EditsAreAccounted, Known
<1>3. ASSUME NEW j \in Jobs, edited'[j] # 0 \/ row'[j].status = "succeeded"
      PROVE  \E u \in recorded' : u.execution.job = j /\ u.status = "completed"
 <2>1. CASE edited[j] # 0 \/ row[j].status = "succeeded"
   BY <2>1, RecordStep DEF EditsAreAccounted
 <2>2. CASE ~(edited[j] # 0 \/ row[j].status = "succeeded")
  <3>1. PICK r \in Replicas : /\ Finishes(r)
                              /\ duty[r].msg.execution.job = j
                              /\ row'[j].status = "succeeded" \/ ApplyEdit(r)
   <4>1. CASE edited'[j] # edited[j]
    <5>1. PICK r \in Replicas : Finishes(r) \/ ApplyDuplicate(r)
      BY <4>1, WritingSteps
    <5>2. Finishes(r)
      BY <4>1, <5>1 DEF ApplyDuplicate, sourceVars
    <5> QED BY <4>1, <5>2, FinishesStep
   <4>2. CASE edited'[j] = edited[j]
     BY <1>3, <2>2, <4>2, RowStep
   <4> QED BY <4>1, <4>2
  <3>2. recorded' = recorded \cup
           {[execution |-> duty[r].msg.execution, status |-> "completed"]}
    BY <3>1, FinishesStep
  <3> DEFINE u == [execution |-> duty[r].msg.execution, status |-> "completed"]
  <3>3. u \in recorded' /\ u.execution.job = j /\ u.status = "completed"
    BY <3>1, <3>2
  <3> QED BY <3>3
 <2> QED BY <2>1, <2>2
<1> QED BY <1>1, <1>2, <1>3 DEF EditsAreAccounted

LEMMA InitIInv == Init => IInv
BY InitType
   DEF Init, IInv, Traced, Exclusive, Held, Holds, Compared, Paid, OneActiveEdit,
       EditReplacesWhatItSaw, EditsAreAccounted, Existing, AbsentRow, Active,
       SweepTasks, ReadTasks, Idle

LEMMA StepIInv == IInv /\ [Next]_vars => IInv'
<1> SUFFICES ASSUME IInv, [Next]_vars PROVE IInv'
  OBVIOUS
<1>1. CASE UNCHANGED vars
  BY <1>1, TypeStep
     DEF vars, jobVars, sourceVars, usageVars, streamVars, IInv, Traced, Exclusive,
         Held, Holds, Compared, Paid, OneActiveEdit, EditReplacesWhatItSaw,
         EditsAreAccounted, Existing
<1>2. CASE Next
  BY <1>2, TypeStep, TracedStep, ExclusiveStep, HeldStep, ComparedStep, PaidStep,
     OneActiveStep, ReplaceStep, AccountedStep DEF IInv
<1> QED BY <1>1, <1>2

----

\* However requests, republishing, results and reconciliation interleave over
\* any number of API processes, a project has at most one active edit.
THEOREM OneEditCorrect == Spec => []OneActiveEdit
<1>1. IInv => OneActiveEdit
  BY DEF IInv
<1> QED BY <1>1, InitIInv, StepIInv, PTL DEF Spec

\* An AI edit never overwrites a save it has not seen.
THEOREM ReplaceCorrect == Spec => []EditReplacesWhatItSaw
<1>1. IInv => EditReplacesWhatItSaw
  BY DEF IInv
<1> QED BY <1>1, InitIInv, StepIInv, PTL DEF Spec

\* What is recorded was billed, an execution is recorded once, and no edit or
\* success goes unrecorded, through redelivery, duplicates and lost replicas.
THEOREM AccountedCorrect == Spec => []EditsAreAccounted
<1>1. IInv => EditsAreAccounted
  BY DEF IInv
<1> QED BY <1>1, InitIInv, StepIInv, PTL DEF Spec

----
(* A single API process: what several processes, or the polls, can break   *)
(* and one process alone cannot.                                           *)

SingleProcess == \A r, q \in Replicas : r = q

\* A republication that has read its row knows whether it was dispatched.
ReadIsDated ==
    \A r \in Replicas :
        duty[r].task \in ReadTasks /\ row[duty[r].job].status = "running"
            => duty[r].dated

\* The sweep works on active jobs.
SweptIsActive ==
    \A r \in Replicas :
        duty[r].task \in SweepTasks \cup ReadTasks
            => row[duty[r].job].status \in Active

----
(* Who starts a job and who ends it.                                       *)

LEMMA StartedBy ==
    ASSUME TypeOK, Traced, Held, Next, NEW j \in Jobs,
           row'[j].status = "running", row[j].status # "running"
    PROVE  \E r \in Replicas : StartMark(r, j) \/ SweepMark(r)
<1>1. ASSUME NEW k \in Jobs, NEW r \in Replicas, StartMark(r, k) PROVE StartMark(r, j)
  BY <1>1, DispatchStep DEF StartMark
<1>2. ASSUME NEW k \in Jobs, StartCommit(k) PROVE FALSE
  BY <1>2 DEF StartCommit, TypeOK
<1>3. ASSUME NEW r \in Replicas, Finishes(r) PROVE FALSE
  BY <1>3, FinishesStep DEF Terminal
<1>4. ASSUME NEW k \in Jobs, NEW status \in Terminal, NEW code, Finish(k, status, code)
      PROVE  FALSE
  BY <1>4, FinishStep DEF Terminal
<1>5. ASSUME NEW r \in Replicas, SweepRefuse(r) PROVE FALSE
  BY <1>4, <1>5, SweptType DEF SweepRefuse, ReadTasks, Terminal
<1>6. ASSUME NEW r \in Replicas, SweepResend(r) PROVE FALSE
  BY <1>6 DEF SweepResend, TypeOK, Rows
<1>7. ASSUME NEW r \in Replicas, NEW k \in Jobs, Reconcile(r, k) PROVE FALSE
  BY <1>4, <1>7 DEF Reconcile, Terminal
<1>8. ASSUME NEW p \in Pollers, ReapCommit(p) PROVE FALSE
  BY <1>4, <1>8 DEF ReapCommit, TypeOK, Reapings, Terminal
<1> QED BY <1>1, <1>2, <1>3, <1>5, <1>6, <1>7, <1>8, WritingSteps

LEMMA EndedBy ==
    ASSUME TypeOK, Traced, Held, Next, NEW j \in Jobs,
           row'[j].status \in Terminal, row'[j].status # row[j].status
    PROVE  \/ \E r \in Replicas : \/ Finishes(r) /\ duty[r].msg.execution.job = j
                                  \/ SweepRefuse(r) /\ duty[r].job = j
                                  \/ Reconcile(r, j)
           \/ \E p \in Pollers : ReapCommit(p)
<1>1. ASSUME NEW k \in Jobs, Dispatch(k) PROVE FALSE
  BY <1>1, DispatchStep DEF Terminal
<1>2. ASSUME NEW k \in Jobs, NEW r \in Replicas, StartMark(r, k) PROVE FALSE
  BY <1>1, <1>2 DEF StartMark
<1>3. ASSUME NEW k \in Jobs, StartCommit(k) PROVE FALSE
  BY <1>3 DEF StartCommit, TypeOK, Terminal
<1>4. ASSUME NEW r \in Replicas, Finishes(r) PROVE duty[r].msg.execution.job = j
  BY <1>4, FinishesStep
<1>5. ASSUME NEW r \in Replicas, SweepRefuse(r) PROVE duty[r].job = j
  BY <1>5, SweptType, FinishStep DEF SweepRefuse, ReadTasks
<1>6. ASSUME NEW r \in Replicas, SweepResend(r) PROVE FALSE
  BY <1>6 DEF SweepResend, TypeOK, Rows
<1>7. ASSUME NEW r \in Replicas, SweepMark(r) PROVE FALSE
  BY <1>1, <1>7, SweptType DEF SweepMark, SweepTasks
<1>8. ASSUME NEW r \in Replicas, NEW k \in Jobs, Reconcile(r, k) PROVE k = j
  BY <1>8, FinishStep DEF Reconcile
<1> QED BY <1>2, <1>3, <1>4, <1>5, <1>6, <1>7, <1>8, WritingSteps

----
(* Running jobs are dated.                                                 *)

LEMMA RunningDatedStep ==
    ASSUME TypeOK, Held, ReadIsDated, RunningIsDated, Next
    PROVE  RunningIsDated'
<1> SUFFICES ASSUME NEW j \in Jobs, row'[j].status = "running"
             PROVE  row'[j].dispatched
  BY DEF RunningIsDated
<1> DEFINE Same == row'[j].status = row[j].status /\ row'[j].dispatched = row[j].dispatched
<1>1. Same => row'[j].dispatched
  BY DEF RunningIsDated
<1>2. ASSUME NEW k \in Jobs, Dispatch(k) PROVE row'[j].dispatched
  BY <1>1, <1>2 DEF Dispatch, TypeOK
<1>3. ASSUME NEW k \in Jobs, StartCommit(k) PROVE Same
  BY <1>3 DEF StartCommit, TypeOK
<1>4. ASSUME NEW r \in Replicas, Finishes(r) PROVE Same
  BY <1>4, FinishesStep DEF Terminal
<1>5. ASSUME NEW k \in Jobs, NEW status \in Terminal, NEW code, Finish(k, status, code)
      PROVE  Same
  BY <1>5, FinishStep DEF Terminal
<1>6. ASSUME NEW r \in Replicas, SweepRefuse(r) PROVE Same
  BY <1>5, <1>6, SweptType DEF SweepRefuse, ReadTasks, Terminal
<1>7. ASSUME NEW r \in Replicas, SweepResend(r) PROVE row'[j].dispatched
  BY <1>1, <1>7 DEF SweepResend, ReadIsDated, ReadTasks, TypeOK, Rows
<1>8. ASSUME NEW r \in Replicas, SweepMark(r) PROVE row'[j].dispatched
  BY <1>2, <1>8, SweptType DEF SweepMark, SweepTasks
<1>9. ASSUME NEW r \in Replicas, NEW k \in Jobs, Reconcile(r, k) PROVE Same
  BY <1>5, <1>9 DEF Reconcile, Terminal
<1>10. ASSUME NEW p \in Pollers, ReapCommit(p) PROVE Same
  BY <1>5, <1>10 DEF ReapCommit, TypeOK, Reapings, Terminal
<1> QED BY <1>1, <1>2, <1>3, <1>4, <1>6, <1>7, <1>8, <1>9, <1>10, WritingSteps
        DEF StartMark

LEMMA ReadDatedStep ==
    ASSUME SingleProcess, TypeOK, Traced, Held, ReadIsDated, RunningIsDated, Next
    PROVE  ReadIsDated'
<1> SUFFICES ASSUME NEW r \in Replicas, duty'[r].task \in ReadTasks,
                    row'[duty'[r].job].status = "running"
             PROVE  duty'[r].dated
  BY DEF ReadIsDated
<1>1. PICK j \in Jobs : duty'[r].job = j
  BY SweptStep
<1>2. CASE UNCHANGED row
  BY <1>1, <1>2, SweepStep DEF ReadIsDated, RunningIsDated
<1>3. CASE duty'[r] = duty[r]
 <2>1. CASE row[j].status = "running"
   BY <1>1, <1>3, <2>1 DEF ReadIsDated
 <2>2. CASE row[j].status # "running"
  <3>1. PICK q \in Replicas : StartMark(q, j) \/ SweepMark(q)
    BY <1>1, <2>2, StartedBy
  <3>2. q = r
    BY DEF SingleProcess
  <3> QED BY <1>3, <3>1, <3>2 DEF StartMark, SweepMark, Free, ReadTasks
 <2> QED BY <2>1, <2>2
<1> QED BY <1>2, <1>3, SweepStep

DatedInv == IInv /\ ReadIsDated /\ RunningIsDated

\* With one API process, and any number of polls, the deadline of a running job
\* is counted from its dispatch.
THEOREM DatedCorrect == SingleProcess /\ Spec => []RunningIsDated
<1> SUFFICES ASSUME SingleProcess PROVE Spec => []RunningIsDated
  OBVIOUS
<1>1. Init => DatedInv
  BY InitIInv DEF Init, DatedInv, ReadIsDated, RunningIsDated, AbsentRow, Idle, ReadTasks
<1>2. DatedInv /\ [Next]_vars => DatedInv'
 <2> SUFFICES ASSUME DatedInv, [Next]_vars PROVE DatedInv'
   OBVIOUS
 <2>1. CASE UNCHANGED vars
   BY <2>1, StepIInv DEF vars, jobVars, DatedInv, ReadIsDated, RunningIsDated
 <2>2. CASE Next
   BY <2>2, StepIInv, RunningDatedStep, ReadDatedStep DEF DatedInv, IInv
 <2> QED BY <2>1, <2>2
<1>3. DatedInv => RunningIsDated
  BY DEF DatedInv
<1> QED BY <1>1, <1>2, <1>3, PTL DEF Spec

----
(* What is over stays over.                                                *)

LEMMA SweptActiveStep ==
    ASSUME SingleProcess, Pollers = {}, TypeOK, Traced, Held, SweptIsActive, Next
    PROVE  SweptIsActive'
<1> SUFFICES ASSUME NEW r \in Replicas, duty'[r].task \in SweepTasks \cup ReadTasks
             PROVE  row'[duty'[r].job].status \in Active
  BY DEF SweptIsActive
<1>1. PICK j \in Jobs : duty'[r].job = j
  BY SweptStep
<1>2. row[j].status \in Active
  BY <1>1, SweepStep DEF SweptIsActive, Active
<1>3. ASSUME row'[j].status \in Terminal PROVE FALSE
 <2>1. PICK q \in Replicas : \/ Finishes(q)
                             \/ SweepRefuse(q)
                             \/ Reconcile(q, j)
   BY <1>2, <1>3, EndedBy DEF Active, Terminal
 <2>2. q = r
   BY DEF SingleProcess
 <2>3. ~Finishes(r)
  <3>1. ASSUME Finishes(r) PROVE duty'[r].task = "ack"
   <4>1. duty[r].task \in ResultTasks /\ Turn(r, "ack")
     BY <3>1 DEF Finishes, ApplyFailure, ApplyUnchanged, ApplyEdit, ApplyConflict,
        Applied, ResultTasks
   <4> QED BY <4>1, TurnType DEF ResultTasks
  <3> QED BY <3>1 DEF SweepTasks, ReadTasks
 <2>4. ~SweepRefuse(r) /\ ~Reconcile(r, j)
   BY DEF SweepRefuse, Reconcile, TypeOK, Idle, SweepTasks, ReadTasks
 <2> QED BY <2>1, <2>2, <2>3, <2>4
<1> QED BY <1>1, <1>2, <1>3, RowStep DEF Active

ImmutableInv == IInv /\ SweptIsActive

\* With one API process and nobody polling, a job that is over keeps its status:
\* only a republication racing a poll, or another process, changes one.
THEOREM ImmutableCorrect ==
    SingleProcess /\ Pollers = {} /\ Spec => TerminalIsImmutable
<1> SUFFICES ASSUME SingleProcess, Pollers = {} PROVE Spec => TerminalIsImmutable
  OBVIOUS
<1>1. Init => ImmutableInv
  BY InitIInv DEF Init, ImmutableInv, SweptIsActive, Idle, SweepTasks, ReadTasks
<1>2. ImmutableInv /\ [Next]_vars => ImmutableInv'
 <2> SUFFICES ASSUME ImmutableInv, [Next]_vars PROVE ImmutableInv'
   OBVIOUS
 <2>1. CASE UNCHANGED vars
   BY <2>1, StepIInv DEF vars, jobVars, ImmutableInv, SweptIsActive
 <2>2. CASE Next
   BY <2>2, StepIInv, SweptActiveStep DEF ImmutableInv, IInv
 <2> QED BY <2>1, <2>2
<1>3. ImmutableInv /\ [Next]_vars =>
         [\A j \in Jobs :
             row[j].status \in Terminal => row'[j].status = row[j].status]_vars
 <2> SUFFICES ASSUME ImmutableInv, Next, NEW j \in Jobs, row[j].status \in Terminal
              PROVE  row'[j].status = row[j].status
   OBVIOUS
 <2>1. Existing(j) /\ row[j].status \notin Active
   BY DEF Existing, Active, Terminal
 <2>2. ASSUME row'[j].status # row[j].status PROVE FALSE
  <3>1. row'[j].status \in Terminal
    BY <2>1, <2>2, RowStep, ExistingStays DEF ImmutableInv, IInv, Terminal
  <3>2. PICK r \in Replicas : \/ Finishes(r) /\ duty[r].msg.execution.job = j
                              \/ SweepRefuse(r) /\ duty[r].job = j
                              \/ Reconcile(r, j)
    BY <2>2, <3>1, EndedBy DEF ImmutableInv, IInv
  <3>3. ~(Finishes(r) /\ duty[r].msg.execution.job = j)
    BY <2>1, FinishesStep DEF ImmutableInv, IInv
  <3>4. ~(SweepRefuse(r) /\ duty[r].job = j)
    BY <2>1 DEF ImmutableInv, SweptIsActive, SweepRefuse, ReadTasks
  <3>5. ~Reconcile(r, j)
    BY <2>1 DEF Reconcile, Stale, Active
  <3> QED BY <3>2, <3>3, <3>4, <3>5
 <2> QED BY <2>2
<1> QED BY <1>1, <1>2, <1>3, PTL DEF Spec, TerminalIsImmutable

----
(* The progress of one edit.                                              *)

(***************************************************************************)
(* Folds and the recursive halving.                                        *)
(***************************************************************************)
\* The sizes of no event and of one.
Sizes(g, c) ==
    g = [T \in SUBSET DOMAIN c |-> IF T = {} THEN 0 ELSE g[T \ {Max(T)}] + c[Max(T)].size]

LEMMA SizeIs ==
    ASSUME NEW c
    PROVE  SizeOf(c) = (CHOOSE g : Sizes(g, c))[DOMAIN c]
  BY DEF FoldLeft, MapThenFoldSet, Sizes, SizeOf

LEMMA SizeOfNone == SizeOf(<<>>) = 0
<1> DEFINE g == [T \in SUBSET DOMAIN <<>> |-> 0]
<1>1. DOMAIN <<>> = {}
  OBVIOUS
<1>2. Sizes(g, <<>>)
 <2>1. \A T \in SUBSET DOMAIN <<>> : T = {}
   BY <1>1
 <2> QED BY <2>1 DEF Sizes
<1>3. Sizes(CHOOSE h : Sizes(h, <<>>), <<>>)
  BY <1>2
<1>4. PICK h : h = (CHOOSE i : Sizes(i, <<>>))
  OBVIOUS
<1>5. h = [T \in SUBSET DOMAIN <<>> |->
              IF T = {} THEN 0 ELSE h[T \ {Max(T)}] + <<>>[Max(T)].size]
  BY <1>3, <1>4 DEF Sizes
<1>6. h[{}] = 0
  BY <1>1, <1>5
<1> QED BY <1>1, <1>4, <1>6, SizeIs

LEMMA SizeOfOne ==
    ASSUME NEW c, DOMAIN c = {1}, c[1].size \in Nat
    PROVE  SizeOf(c) = c[1].size
<1> DEFINE g == [T \in SUBSET DOMAIN c |-> IF T = {} THEN 0 ELSE c[1].size]
<1>1. \A T \in SUBSET DOMAIN c : T # {} => T = {1} /\ Max(T) = 1 /\ T \ {Max(T)} = {}
 <2>1. Max({1}) = 1
   BY DEF Max
 <2> QED BY <2>1
<1>2. Sizes(g, c)
 <2>1. ASSUME NEW T \in SUBSET DOMAIN c
       PROVE  g[T] = IF T = {} THEN 0 ELSE g[T \ {Max(T)}] + c[Max(T)].size
  <3>1. CASE T = {}
    BY <3>1
  <3>2. CASE T # {}
   <4>1. g[{}] = 0 /\ g[T] = c[1].size
     BY <3>2
   <4> QED BY <1>1, <3>2, <4>1
  <3> QED BY <3>1, <3>2
 <2>2. g = [T \in SUBSET DOMAIN c |-> g[T]]
   OBVIOUS
 <2> HIDE DEF g
 <2> QED BY <2>1, <2>2 DEF Sizes
<1> HIDE DEF g
<1>3. Sizes(CHOOSE h : Sizes(h, c), c)
  BY <1>2
<1>4. PICK h : h = (CHOOSE i : Sizes(i, c))
  OBVIOUS
<1>5. h = [T \in SUBSET DOMAIN c |-> IF T = {} THEN 0 ELSE h[T \ {Max(T)}] + c[Max(T)].size]
 <2>1. Sizes(h, c)
   BY <1>3, <1>4
 <2> QED BY <2>1, Zenon DEF Sizes
<1>6. h[{}] = 0
  BY <1>5
<1>7. h[{1}] = h[{1} \ {Max({1})}] + c[Max({1})].size
  BY <1>5
<1>8. h[{1}] = c[1].size
 <2>1. PICK T : T = {1}
   OBVIOUS
 <2>2. T \in SUBSET DOMAIN c /\ T # {}
   BY <2>1
 <2>3. T \ {Max(T)} = {} /\ Max(T) = 1
   BY <1>1, <2>2
 <2>4. h[T] = 0 + c[1].size
   BY <1>6, <1>7, <2>1, <2>3
 <2> QED BY <2>1, <2>4
<1> QED BY <1>4, <1>8, SizeIs

----
\* _publish_events halves a batch until its pieces fit.
First(s) == SubSeq(s, 1, Len(s) \div 2)
Second(s) == SubSeq(s, Len(s) \div 2 + 1, Len(s))
Halved(f, s) ==
    IF SizeOf(s) <= MaxEnvelope THEN <<s>>
    ELSE IF Len(s) <= 1 THEN <<>> ELSE f[First(s)] \o f[Second(s)]

UpTo(n) == {s \in Seq(Events) : Len(s) <= n}
HalvesTo(f, n) == f = [s \in UpTo(n) |-> Halved(f, s)]

LEMMA PiecesIs == Pieces = CHOOSE f : f = [s \in Seq(Events) |-> Halved(f, s)]
  BY DEF Pieces, Halved, First, Second

LEMMA Halves ==
    ASSUME NEW s \in Seq(Events), Len(s) > 1
    PROVE  /\ First(s) \in Seq(Events) /\ Second(s) \in Seq(Events)
           /\ Len(First(s)) = Len(s) \div 2 /\ Len(Second(s)) = Len(s) - Len(s) \div 2
           /\ Len(First(s)) \in 1..(Len(s) - 1) /\ Len(Second(s)) \in 1..(Len(s) - 1)
           /\ \A i \in 1..Len(First(s)) : First(s)[i] = s[i]
           /\ \A i \in 1..Len(Second(s)) : Second(s)[i] = s[Len(s) \div 2 + i]
<1>1. PICK n, h : n = Len(s) /\ h = n \div 2
  OBVIOUS
<1>2. n \in Nat /\ n > 1 /\ h \in 1..(n - 1) /\ h \in Nat
  BY <1>1, LenProperties
<1>3. \A i \in 1..n : s[i] \in Events
  BY <1>1, LenProperties
<1>4. /\ SubSeq(s, 1, h) \in Seq(Events) /\ Len(SubSeq(s, 1, h)) = h
      /\ \A i \in 1..h : SubSeq(s, 1, h)[i] = s[i]
  BY <1>2, <1>3, SubSeqProperties
<1>5. /\ SubSeq(s, h + 1, n) \in Seq(Events) /\ Len(SubSeq(s, h + 1, n)) = n - h
      /\ \A i \in 1..(n - h) : SubSeq(s, h + 1, n)[i] = s[h + i]
 <2>1. PICK k : k = h + 1
   OBVIOUS
 <2>2. k \in Int /\ n \in Int /\ k <= n /\ \A i \in k..n : s[i] \in Events
   BY <1>2, <1>3, <2>1
 <2>3. /\ SubSeq(s, k, n) \in Seq(Events) /\ Len(SubSeq(s, k, n)) = n - k + 1
       /\ \A i \in 1..(n - k + 1) : SubSeq(s, k, n)[i] = s[k + i - 1]
   BY <2>2, SubSeqProperties
 <2>4. n - k + 1 = n - h /\ \A i \in 1..(n - h) : k + i - 1 = h + i
   BY <1>2, <2>1
 <2> QED BY <2>1, <2>3, <2>4
<1> QED BY <1>1, <1>2, <1>4, <1>5 DEF First, Second

LEMMA HalvesMore ==
    ASSUME NEW n \in Nat, \E f : HalvesTo(f, n)
    PROVE  \E f : HalvesTo(f, n + 1)
<1>1. PICK f : HalvesTo(f, n)
  OBVIOUS
<1>2. PICK g : g = [s \in UpTo(n + 1) |-> Halved(f, s)]
  OBVIOUS
<1>3. ASSUME NEW s \in UpTo(n) PROVE g[s] = f[s]
 <2>1. s \in UpTo(n + 1) /\ f[s] = Halved(f, s)
   BY <1>1 DEF HalvesTo, UpTo
 <2> QED BY <1>2, <2>1
<1>4. ASSUME NEW s \in UpTo(n + 1) PROVE Halved(g, s) = Halved(f, s)
 <2>1. CASE Len(s) > 1
  <3>1. First(s) \in UpTo(n) /\ Second(s) \in UpTo(n)
    BY <2>1, Halves DEF UpTo
  <3> QED BY <1>3, <3>1 DEF Halved
 <2>2. CASE ~(Len(s) > 1)
  <3>1. Len(s) <= 1
    BY <2>2 DEF UpTo
  <3> QED BY <3>1 DEF Halved
 <2> QED BY <2>1, <2>2
<1>5. HalvesTo(g, n + 1)
  BY <1>2, <1>4, Zenon DEF HalvesTo
<1> QED BY <1>5

LEMMA SomeHalves == \A n \in Nat : \E f : HalvesTo(f, n)
<1> DEFINE T == {n \in Nat : \E f : HalvesTo(f, n)}
<1>1. 0 \in T
 <2>1. PICK f : f = [s \in UpTo(0) |-> IF SizeOf(s) <= MaxEnvelope THEN <<s>> ELSE <<>>]
   OBVIOUS
 <2>2. \A s \in UpTo(0) : Len(s) <= 1
   BY DEF UpTo
 <2>3. \A s \in UpTo(0) : Halved(f, s) = IF SizeOf(s) <= MaxEnvelope THEN <<s>> ELSE <<>>
   BY <2>2 DEF Halved
 <2>4. HalvesTo(f, 0)
   BY <2>1, <2>3, Zenon DEF HalvesTo
 <2> QED BY <2>4
<1>2. \A n \in Nat : n \in T => n + 1 \in T
  BY HalvesMore
<1> HIDE DEF T
<1>3. \A n \in Nat : n \in T
  BY <1>1, <1>2, AllNaturals
<1> QED BY <1>3 DEF T

\* Whatever they reach, they agree.
LEMMA HalvesAgree ==
    ASSUME NEW n \in Nat, NEW f, NEW m \in Nat, NEW g, HalvesTo(f, n), HalvesTo(g, m), n <= m
    PROVE  \A s \in UpTo(n) : f[s] = g[s]
<1> DEFINE T == {k \in Nat : k <= n => \A s \in UpTo(k) : f[s] = g[s]}
<1>1. ASSUME NEW s \in UpTo(n), Len(s) <= 1 PROVE f[s] = g[s]
 <2>1. s \in UpTo(m) /\ f[s] = Halved(f, s)
   BY <1>1 DEF HalvesTo, UpTo
 <2>2. g[s] = Halved(g, s)
   BY <2>1 DEF HalvesTo
 <2> QED BY <1>1, <2>1, <2>2 DEF Halved
<1>2. 0 \in T
 <2>1. \A s \in UpTo(0) : s \in UpTo(n) /\ Len(s) <= 1
   BY DEF UpTo
 <2> QED BY <1>1, <2>1
<1>3. ASSUME NEW k \in Nat, k \in T PROVE k + 1 \in T
 <2> SUFFICES ASSUME k + 1 <= n, NEW s \in UpTo(k + 1) PROVE f[s] = g[s]
   OBVIOUS
 <2>1. s \in UpTo(n) /\ s \in UpTo(m)
   BY DEF UpTo
 <2>2. CASE Len(s) > 1
  <3>1. First(s) \in UpTo(k) /\ Second(s) \in UpTo(k)
    BY <2>2, Halves DEF UpTo
  <3>2. f[First(s)] = g[First(s)] /\ f[Second(s)] = g[Second(s)]
    BY <1>3, <3>1
  <3>3. f[s] = Halved(f, s)
    BY <2>1 DEF HalvesTo
  <3>4. g[s] = Halved(g, s)
    BY <2>1 DEF HalvesTo
  <3> QED BY <3>2, <3>3, <3>4 DEF Halved
 <2>3. CASE ~(Len(s) > 1)
  <3>1. Len(s) <= 1
    BY <2>3 DEF UpTo
  <3> QED BY <1>1, <2>1, <3>1
 <2> QED BY <2>2, <2>3
<1> HIDE DEF T
<1>4. n \in T
  BY <1>2, <1>3, AllNaturals
<1> QED BY <1>4 DEF T

\* The recursion of the model has a solution, so Pieces follows it.
LEMMA PiecesHalve == \A s \in Seq(Events) : Pieces[s] = Halved(Pieces, s)
<1> DEFINE part(n) == CHOOSE f : HalvesTo(f, n)
<1>1. \A n \in Nat : HalvesTo(part(n), n)
  BY SomeHalves
<1> HIDE DEF part
<1>2. PICK g : g = [s \in Seq(Events) |-> Halved(part(Len(s)), s)]
  OBVIOUS
<1>3. ASSUME NEW s \in Seq(Events), NEW n \in Nat, Len(s) <= n PROVE g[s] = part(n)[s]
 <2>1. Len(s) \in Nat
   BY LenProperties
 <2>2. HalvesTo(part(Len(s)), Len(s)) /\ HalvesTo(part(n), n)
   BY <1>1, <2>1
 <2>3. s \in UpTo(Len(s))
   BY <2>1 DEF UpTo
 <2>4. part(Len(s))[s] = part(n)[s]
   BY <1>3, <2>1, <2>2, <2>3, HalvesAgree
 <2>5. part(Len(s))[s] = Halved(part(Len(s)), s)
   BY <2>2, <2>3 DEF HalvesTo
 <2> QED BY <1>2, <2>4, <2>5
<1>4. ASSUME NEW s \in Seq(Events) PROVE Halved(g, s) = Halved(part(Len(s)), s)
 <2>1. Len(s) \in Nat
   BY LenProperties
 <2>2. CASE Len(s) > 1
  <3>1. /\ First(s) \in Seq(Events) /\ Len(First(s)) <= Len(s)
        /\ Second(s) \in Seq(Events) /\ Len(Second(s)) <= Len(s)
    BY <2>1, <2>2, Halves
  <3>2. g[First(s)] = part(Len(s))[First(s)] /\ g[Second(s)] = part(Len(s))[Second(s)]
    BY <1>3, <2>1, <3>1
  <3> QED BY <3>2 DEF Halved
 <2>3. CASE ~(Len(s) > 1)
  <3>1. Len(s) <= 1
    BY <2>1, <2>3
  <3> QED BY <3>1 DEF Halved
 <2> QED BY <2>2, <2>3
<1>5. g = [s \in Seq(Events) |-> Halved(g, s)]
  BY <1>2, <1>4, Zenon
<1>6. Pieces = [s \in Seq(Events) |-> Halved(Pieces, s)]
  BY <1>5, PiecesIs
<1> QED BY <1>6

----
\* Sequence numbers rise within a sequence of events; all of one lie below all of another.
Rises(s) == \A i, j \in DOMAIN s : i < j => s[i].sequence < s[j].sequence
Below(s, t) == \A i \in DOMAIN s, j \in DOMAIN t : s[i].sequence < t[j].sequence
Within(s, t) == \A i \in DOMAIN s : \E j \in DOMAIN t : s[i] = t[j]

\* Sequences of events, each below those behind it.
InTurn(ss) ==
    /\ \A i \in DOMAIN ss : Rises(ss[i])
    /\ \A i, j \in DOMAIN ss : i < j => Below(ss[i], ss[j])
AllFull(ss) == \A i \in DOMAIN ss : ss[i] # <<>>
AllWithin(ss, s) == \A i \in DOMAIN ss : Within(ss[i], s)

WellCut(s) ==
    /\ Pieces[s] \in Seq(Seq(Events)) /\ InTurn(Pieces[s])
    /\ AllFull(Pieces[s]) /\ AllWithin(Pieces[s], s)

LEMMA CutTogether ==
    ASSUME NEW s \in Seq(Events), Rises(s), Len(s) > 1,
           NEW a \in Seq(Seq(Events)), InTurn(a), AllFull(a), AllWithin(a, First(s)),
           NEW b \in Seq(Seq(Events)), InTurn(b), AllFull(b), AllWithin(b, Second(s))
    PROVE  /\ a \o b \in Seq(Seq(Events)) /\ InTurn(a \o b)
           /\ AllFull(a \o b) /\ AllWithin(a \o b, s)
<1>1. PICK n, m, h, c : /\ n = Len(a) /\ m = Len(b) /\ h = Len(s) \div 2 /\ c = a \o b
  OBVIOUS
<1>2. /\ n \in Nat /\ m \in Nat /\ DOMAIN a = 1..n /\ DOMAIN b = 1..m
  BY <1>1, LenProperties
<1>3. /\ c \in Seq(Seq(Events)) /\ DOMAIN c = 1..(n + m)
      /\ \A i \in 1..(n + m) : c[i] = IF i <= n THEN a[i] ELSE b[i - n]
  BY <1>1, <1>2, ConcatProperties, LenProperties
<1>4. /\ DOMAIN First(s) = 1..h /\ DOMAIN Second(s) = 1..(Len(s) - h) /\ h \in 1..(Len(s) - 1)
      /\ \A i \in 1..h : First(s)[i] = s[i]
      /\ \A i \in 1..(Len(s) - h) : Second(s)[i] = s[h + i]
      /\ DOMAIN s = 1..Len(s) /\ Len(s) \in Nat
  BY <1>1, Halves, LenProperties
<1>5. Within(First(s), s) /\ Within(Second(s), s)
 <2>1. \A i \in 1..(Len(s) - h) : h + i \in 1..Len(s)
   BY <1>4
 <2>2. \A i \in 1..h : i \in 1..Len(s)
   BY <1>4
 <2> QED BY <1>4, <2>1, <2>2 DEF Within
<1>6. Below(First(s), Second(s))
 <2>1. ASSUME NEW i \in 1..h, NEW j \in 1..(Len(s) - h)
       PROVE  First(s)[i].sequence < Second(s)[j].sequence
  <3>1. i \in DOMAIN s /\ h + j \in DOMAIN s /\ i < h + j
    BY <1>4
  <3>2. s[i].sequence < s[h + j].sequence
    BY <3>1 DEF Rises
  <3> QED BY <1>4, <3>2
 <2> QED BY <1>4, <2>1 DEF Below
<1>7. ASSUME NEW i \in DOMAIN a, NEW j \in DOMAIN b PROVE Below(a[i], b[j])
  BY <1>6 DEF Below, AllWithin, Within
<1>8. \A i \in DOMAIN c : Rises(c[i]) /\ c[i] # <<>> /\ Within(c[i], s)
 <2>1. ASSUME NEW i \in DOMAIN c
       PROVE  \/ i \in DOMAIN a /\ c[i] = a[i]
              \/ i - n \in DOMAIN b /\ c[i] = b[i - n]
  <3>1. CASE i <= n
    BY <1>2, <1>3, <3>1
  <3>2. CASE ~(i <= n)
   <4>1. i \in 1..(n + m) /\ i - n \in 1..m
     BY <1>2, <1>3, <3>2
   <4> QED BY <1>2, <1>3, <3>2, <4>1
  <3> QED BY <3>1, <3>2
 <2>2. \A i \in DOMAIN a : Rises(a[i]) /\ a[i] # <<>> /\ Within(a[i], s)
   BY <1>5 DEF InTurn, AllFull, AllWithin, Within
 <2>3. \A i \in DOMAIN b : Rises(b[i]) /\ b[i] # <<>> /\ Within(b[i], s)
   BY <1>5 DEF InTurn, AllFull, AllWithin, Within
 <2> QED BY <2>1, <2>2, <2>3
<1>9. ASSUME NEW i \in DOMAIN c, NEW j \in DOMAIN c, i < j PROVE Below(c[i], c[j])
 <2>1. CASE j <= n
  <3>1. i \in DOMAIN a /\ j \in DOMAIN a /\ c[i] = a[i] /\ c[j] = a[j]
    BY <1>2, <1>3, <1>9, <2>1
  <3> QED BY <1>9, <3>1 DEF InTurn
 <2>2. CASE i <= n /\ j > n
  <3>1. i \in DOMAIN a /\ j - n \in DOMAIN b /\ c[i] = a[i] /\ c[j] = b[j - n]
    BY <1>2, <1>3, <1>9, <2>2
  <3> QED BY <1>7, <3>1
 <2>3. CASE i > n
  <3>1. /\ i - n \in DOMAIN b /\ j - n \in DOMAIN b /\ c[i] = b[i - n] /\ c[j] = b[j - n]
        /\ i - n < j - n
    BY <1>2, <1>3, <1>9, <2>3
  <3> QED BY <3>1 DEF InTurn
 <2> QED BY <1>2, <1>3, <2>1, <2>2, <2>3
<1> QED BY <1>1, <1>3, <1>8, <1>9 DEF InTurn, AllFull, AllWithin

LEMMA OneCut ==
    ASSUME NEW s \in Seq(Events), Rises(s), s # <<>>
    PROVE  /\ <<s>> \in Seq(Seq(Events)) /\ InTurn(<<s>>) /\ AllFull(<<s>>)
           /\ AllWithin(<<s>>, s)
<1>1. DOMAIN <<s>> = {1} /\ <<s>>[1] = s
  OBVIOUS
<1>2. <<s>> \in Seq(Seq(Events))
  OBVIOUS
<1> QED BY <1>1, <1>2 DEF InTurn, AllFull, AllWithin, Within

LEMMA NoCut ==
    ASSUME NEW s
    PROVE  <<>> \in Seq(Seq(Events)) /\ InTurn(<<>>) /\ AllFull(<<>>) /\ AllWithin(<<>>, s)
  BY EmptySeq DEF InTurn, AllFull, AllWithin

\* The pieces of a batch are its events in order.
LEMMA PiecesWellCut ==
    ASSUME NEW s \in Seq(Events), Rises(s), s # <<>>
    PROVE  WellCut(s)
<1> DEFINE T == {n \in Nat : \A t \in Seq(Events) :
                     Len(t) <= n /\ Rises(t) /\ t # <<>> => WellCut(t)}
<1>1. ASSUME NEW t \in Seq(Events), Rises(t), t # <<>>,
             SizeOf(t) <= MaxEnvelope \/ Len(t) <= 1
      PROVE  WellCut(t)
 <2>1. Pieces[t] = <<t>> \/ Pieces[t] = <<>>
   BY <1>1, PiecesHalve DEF Halved
 <2> QED BY <1>1, <2>1, OneCut, NoCut DEF WellCut
<1>2. 0 \in T
 <2>1. \A t \in Seq(Events) : t # <<>> => ~(Len(t) <= 0)
   BY EmptySeq
 <2> QED BY <2>1
<1>3. ASSUME NEW n \in Nat, n \in T PROVE n + 1 \in T
 <2> SUFFICES ASSUME NEW t \in Seq(Events), Len(t) <= n + 1, Rises(t), t # <<>>
              PROVE  WellCut(t)
   OBVIOUS
 <2>1. CASE SizeOf(t) <= MaxEnvelope \/ Len(t) <= 1
   BY <1>1, <2>1
 <2>2. CASE ~(SizeOf(t) <= MaxEnvelope) /\ ~(Len(t) <= 1)
  <3>1. Len(t) \in Nat /\ Len(t) > 1
    BY <2>2, LenProperties
  <3>2. PICK a, b, h : a = First(t) /\ b = Second(t) /\ h = Len(t) \div 2
    OBVIOUS
  <3>3. /\ a \in Seq(Events) /\ b \in Seq(Events) /\ Len(a) <= n /\ Len(b) <= n
        /\ Len(a) = h /\ Len(b) = Len(t) - h /\ h \in 1..(Len(t) - 1)
        /\ \A i \in 1..Len(a) : a[i] = t[i]
        /\ \A i \in 1..Len(b) : b[i] = t[h + i]
    BY <3>1, <3>2, Halves
  <3>4. /\ DOMAIN a = 1..h /\ DOMAIN b = 1..(Len(t) - h) /\ DOMAIN t = 1..Len(t)
    BY <3>3, LenProperties
  <3>5. Rises(a)
   <4>1. \A i \in DOMAIN a : i \in DOMAIN t /\ a[i] = t[i]
     BY <3>1, <3>3, <3>4
   <4> QED BY <4>1 DEF Rises
  <3>6. Rises(b)
   <4>1. \A i \in DOMAIN b : i \in Int /\ h + i \in DOMAIN t /\ b[i] = t[h + i]
     BY <3>1, <3>3, <3>4
   <4>2. ASSUME NEW i \in DOMAIN b, NEW j \in DOMAIN b, i < j
         PROVE  b[i].sequence < b[j].sequence
    <5>1. h + i < h + j
      BY <3>3, <4>1, <4>2
    <5> QED BY <4>1, <5>1 DEF Rises
   <4> QED BY <4>2 DEF Rises
  <3>7. a # <<>> /\ b # <<>>
    BY <3>1, <3>3, EmptySeq
  <3>8. WellCut(a) /\ WellCut(b)
    BY <1>3, <3>3, <3>5, <3>6, <3>7
  <3>9. Pieces[t] = Pieces[a] \o Pieces[b]
    BY <2>2, <3>2, PiecesHalve DEF Halved
  <3> QED BY <3>1, <3>2, <3>8, <3>9, CutTogether DEF WellCut
 <2> QED BY <2>1, <2>2
<1> HIDE DEF T
<1>4. Len(s) \in Nat /\ \A n \in Nat : n \in T
  BY <1>2, <1>3, AllNaturals, LenProperties
<1>5. Len(s) \in T
  BY <1>4
<1> QED BY <1>4, <1>5 DEF T

----
(* The batcher.                                                            *)

Batchers == [pending : Seq(Events), next : Nat, queue : Seq(Seq(Events)),
             timer : BOOLEAN, disabled : BOOLEAN]

\* Numbers below n.
Under(s, n) == \A i \in DOMAIN s : s[i].sequence < n

\* What is queued and what is pending rise to the next number.
BatcherOK(b) ==
    /\ b \in Batchers /\ Len(b.pending) <= MaxPending /\ Len(b.queue) <= MaxQueued
    /\ 0 < b.next /\ b.next <= MaxEvents + MaxDelta + 1
    /\ Rises(b.pending) /\ Under(b.pending, b.next) /\ InTurn(b.queue)
    /\ \A k \in DOMAIN b.queue : Under(b.queue[k], b.next) /\ Below(b.queue[k], b.pending)

\* s lies below everything that the batcher has or will number.
Before(s, b) ==
    /\ Under(s, b.next) /\ Below(s, b.pending)
    /\ \A k \in DOMAIN b.queue : Below(s, b.queue[k])

\* The batcher changes to c, which still follows whatever it followed.
GoesOn(b, c) == BatcherOK(c) /\ \A s \in Seq(Events) : Before(s, b) => Before(s, c)

LEMMA Onwards ==
    ASSUME NEW b, NEW c, NEW d, GoesOn(b, c), GoesOn(c, d)
    PROVE  GoesOn(b, d)
  BY DEF GoesOn

LEMMA Numbers ==
    ASSUME NEW s \in Seq(Events), NEW i \in DOMAIN s
    PROVE  s[i] \in Events /\ s[i].sequence \in Nat
<1>1. s[i] \in Events
  BY LenProperties, ElementOfSeq
<1> QED BY <1>1, ProgressAssumption DEF Events

LEMMA Stays == ASSUME NEW b, BatcherOK(b) PROVE GoesOn(b, b)
  BY DEF GoesOn

LEMMA FreshOK == BatcherOK(FreshBatcher)
<1>1. FreshBatcher \in Batchers /\ Len(FreshBatcher.pending) = 0 /\ Len(FreshBatcher.queue) = 0
  BY EmptySeq DEF FreshBatcher, Batchers
<1>2. DOMAIN FreshBatcher.pending = {} /\ DOMAIN FreshBatcher.queue = {} /\ FreshBatcher.next = 1
  BY DEF FreshBatcher
<1> QED BY <1>1, <1>2, ProgressAssumption DEF BatcherOK, Rises, Under, InTurn

\* An empty sequence is in order with everything.
LEMMA NothingIsBelow ==
    /\ Rises(<<>>) /\ \A n : Under(<<>>, n)
    /\ \A s : Below(s, <<>>) /\ Below(<<>>, s)
<1>1. DOMAIN <<>> = {}
  OBVIOUS
<1> QED BY <1>1 DEF Rises, Under, Below

\* The same numbers, the same order.
Alike(s, t) == DOMAIN s = DOMAIN t /\ \A i \in DOMAIN s : s[i].sequence = t[i].sequence

LEMMA AlikeGoesOn ==
    ASSUME NEW b, BatcherOK(b), NEW c \in Batchers, c.next = b.next, c.queue = b.queue,
           Len(c.pending) = Len(b.pending), Alike(b.pending, c.pending)
    PROVE  GoesOn(b, c)
  BY DEF BatcherOK, GoesOn, Before, Alike, Rises, Under, Below

LEMMA TimerGoesOn ==
    ASSUME NEW b, BatcherOK(b), NEW t \in BOOLEAN
    PROVE  GoesOn(b, [b EXCEPT !.timer = t])
<1>1. [b EXCEPT !.timer = t] \in Batchers
  BY DEF BatcherOK, Batchers
<1>2. /\ [b EXCEPT !.timer = t].next = b.next /\ [b EXCEPT !.timer = t].queue = b.queue
      /\ [b EXCEPT !.timer = t].pending = b.pending
  BY DEF BatcherOK, Batchers
<1> QED BY <1>1, <1>2, AlikeGoesOn DEF Alike

\* Without pending events and batches there is nothing out of order.
LEMMA EmptiedGoesOn ==
    ASSUME NEW b, BatcherOK(b), NEW c \in Batchers, c.next = b.next, c.queue = <<>>,
           c.pending = <<>>
    PROVE  GoesOn(b, c)
<1>1. Len(c.pending) = 0 /\ Len(c.queue) = 0 /\ DOMAIN c.queue = {}
  OBVIOUS
<1>2. BatcherOK(c)
  BY <1>1, NothingIsBelow, ProgressAssumption DEF BatcherOK, InTurn
<1> QED BY <1>1, <1>2, NothingIsBelow DEF GoesOn, Before

LEMMA DisabledGoesOn ==
    ASSUME NEW b, BatcherOK(b)
    PROVE  GoesOn(b, Disabled(b))
<1>1. Disabled(b) \in Batchers
  BY EmptySeq DEF BatcherOK, Batchers, Disabled
<1>2. Disabled(b).next = b.next /\ Disabled(b).queue = <<>> /\ Disabled(b).pending = <<>>
  BY DEF BatcherOK, Batchers, Disabled
<1> QED BY <1>1, <1>2, EmptiedGoesOn

\* A batch goes to the end of the queue.
LEMMA QueuedGoesOn ==
    ASSUME NEW b, BatcherOK(b), Len(b.queue) < MaxQueued,
           NEW c \in Batchers, c.next = b.next, c.pending = <<>>,
           NEW s \in Seq(Events), Rises(s), Under(s, b.next), c.queue = Append(b.queue, s),
           \A k \in DOMAIN b.queue : Below(b.queue[k], s),
           \A t \in Seq(Events) : Before(t, b) => Below(t, s)
    PROVE  GoesOn(b, c)
<1>1. PICK n, q : n = Len(b.queue) /\ q = c.queue
  OBVIOUS
<1>2. n \in Nat /\ DOMAIN b.queue = 1..n /\ b.queue \in Seq(Seq(Events))
  BY <1>1, LenProperties DEF BatcherOK, Batchers
<1>3. /\ DOMAIN q = 1..(n + 1) /\ Len(q) = n + 1 /\ q[n + 1] = s
      /\ \A i \in 1..n : q[i] = b.queue[i]
  BY <1>1, <1>2, AppendProperties, LenProperties
<1>4. \A k \in DOMAIN q : \/ k \in DOMAIN b.queue /\ q[k] = b.queue[k]
                          \/ k = n + 1 /\ q[k] = s
  BY <1>2, <1>3
<1>5. InTurn(q)
 <2>1. \A i \in DOMAIN q : Rises(q[i])
   BY <1>4 DEF BatcherOK, InTurn
 <2>2. ASSUME NEW i \in DOMAIN q, NEW j \in DOMAIN q, i < j PROVE Below(q[i], q[j])
  <3>1. i \in DOMAIN b.queue /\ q[i] = b.queue[i]
    BY <1>2, <1>3, <1>4, <2>2
  <3> QED BY <1>4, <2>2, <3>1 DEF BatcherOK, InTurn
 <2> QED BY <2>1, <2>2 DEF InTurn
<1>6. \A k \in DOMAIN q : Under(q[k], c.next) /\ Below(q[k], c.pending)
  BY <1>4, NothingIsBelow DEF BatcherOK
<1>7. BatcherOK(c)
 <2>1. Len(c.pending) <= MaxPending
   BY ProgressAssumption
 <2>2. Len(c.queue) <= MaxQueued
   BY <1>1, <1>2, <1>3, ProgressAssumption
 <2>3. Rises(c.pending) /\ Under(c.pending, c.next)
   BY NothingIsBelow
 <2>4. 0 < c.next /\ c.next <= MaxEvents + MaxDelta + 1
   BY DEF BatcherOK
 <2> QED BY <1>1, <1>5, <1>6, <2>1, <2>2, <2>3, <2>4 DEF BatcherOK
<1>8. ASSUME NEW t \in Seq(Events), Before(t, b) PROVE Before(t, c)
  BY <1>1, <1>4, <1>8, NothingIsBelow DEF Before
<1> QED BY <1>7, <1>8 DEF GoesOn

LEMMA FlushGoesOn ==
    ASSUME NEW b, BatcherOK(b)
    PROVE  /\ GoesOn(b, Flush(b)) /\ Flush(b).next = b.next
           /\ Flush(b).pending = <<>> /\ Flush(b).disabled \in BOOLEAN
<1>1. CASE b.pending = <<>>
 <2>1. Flush(b) = [b EXCEPT !.timer = FALSE]
   BY <1>1 DEF Flush
 <2>2. Flush(b).next = b.next /\ Flush(b).pending = <<>> /\ Flush(b).disabled \in BOOLEAN
   BY <1>1, <2>1 DEF BatcherOK, Batchers
 <2> QED BY <2>1, <2>2, TimerGoesOn
<1>2. CASE b.pending # <<>> /\ Len(b.queue) < MaxQueued
 <2>1. Flush(b) = [b EXCEPT !.timer = FALSE, !.queue = Append(@, b.pending), !.pending = <<>>]
   BY <1>2 DEF Flush
 <2>2. PICK c : c = Flush(b)
   OBVIOUS
 <2>3. Append(b.queue, b.pending) \in Seq(Seq(Events))
   BY AppendProperties DEF BatcherOK, Batchers
 <2>4. /\ c \in Batchers /\ c.next = b.next /\ c.pending = <<>>
       /\ c.queue = Append(b.queue, b.pending)
   BY <2>1, <2>2, <2>3, EmptySeq DEF BatcherOK, Batchers
 <2>5. /\ b.pending \in Seq(Events) /\ Rises(b.pending) /\ Under(b.pending, b.next)
       /\ \A k \in DOMAIN b.queue : Below(b.queue[k], b.pending)
   BY DEF BatcherOK, Batchers
 <2>6. \A t \in Seq(Events) : Before(t, b) => Below(t, b.pending)
   BY DEF Before
 <2>7. GoesOn(b, c)
   BY <1>2, <2>4, <2>5, <2>6, QueuedGoesOn
 <2> QED BY <2>2, <2>4, <2>7 DEF Batchers
<1>3. CASE b.pending # <<>> /\ ~(Len(b.queue) < MaxQueued)
 <2>1. PICK c : c = [b EXCEPT !.timer = FALSE]
   OBVIOUS
 <2>2. Flush(b) = Disabled(c)
   BY <1>3, <2>1 DEF Flush
 <2>3. GoesOn(b, c) /\ BatcherOK(c)
   BY <2>1, TimerGoesOn DEF GoesOn
 <2>4. GoesOn(c, Disabled(c))
   BY <2>3, DisabledGoesOn
 <2>5. c.next = b.next
   BY <2>1 DEF BatcherOK, Batchers
 <2>6. Disabled(c).next = c.next /\ Disabled(c).pending = <<>> /\ Disabled(c).disabled \in BOOLEAN
   BY <2>3 DEF BatcherOK, Batchers, Disabled
 <2> QED BY <2>2, <2>3, <2>4, <2>5, <2>6, Onwards
<1> QED BY <1>1, <1>2, <1>3

LEMMA NumberedGoesOn ==
    ASSUME NEW b, BatcherOK(b), Len(b.pending) < MaxPending, b.next <= MaxEvents + MaxDelta,
           NEW kind \in {"reasoning", "tool"}, NEW size \in 1..MaxText
    PROVE  GoesOn(b, Numbered(b, kind, size)) /\ Numbered(b, kind, size).next = b.next + 1
<1>1. PICK e, c, n : /\ e = [sequence |-> b.next, kind |-> kind, size |-> size]
                     /\ c = Numbered(b, kind, size) /\ n = Len(b.pending)
  OBVIOUS
<1>2. c = [b EXCEPT !.pending = Append(@, e), !.next = @ + 1]
  BY <1>1 DEF Numbered
<1>3. e \in Events /\ e.sequence = b.next
  BY <1>1, ProgressAssumption DEF Events, BatcherOK, Batchers
<1>4. b.pending \in Seq(Events) /\ n \in Nat /\ DOMAIN b.pending = 1..n /\ b.next \in Nat
  BY <1>1, LenProperties DEF BatcherOK, Batchers
<1>5. PICK p : p = Append(b.pending, e)
  OBVIOUS
<1>6. /\ p \in Seq(Events) /\ Len(p) = n + 1 /\ DOMAIN p = 1..(n + 1) /\ p[n + 1] = e
      /\ \A i \in 1..n : p[i] = b.pending[i]
  BY <1>1, <1>3, <1>4, <1>5, AppendProperties, LenProperties
<1>7. c \in Batchers /\ c.pending = p /\ c.next = b.next + 1 /\ c.queue = b.queue
 <2>1. b \in Batchers
   BY DEF BatcherOK
 <2>2. c.pending = p /\ c.next = b.next + 1 /\ c.queue = b.queue
   BY <1>2, <1>5, <2>1 DEF Batchers
 <2>3. c = [b EXCEPT !.pending = p, !.next = b.next + 1]
   BY <1>2, <1>5, <2>1 DEF Batchers
 <2>4. b.next + 1 \in Nat
   BY <1>4
 <2>5. c \in Batchers
   BY <1>6, <2>1, <2>3, <2>4 DEF Batchers
 <2> QED BY <2>2, <2>5
<1>8. \A i \in DOMAIN p : \/ i \in DOMAIN b.pending /\ p[i] = b.pending[i]
                          \/ i = n + 1 /\ p[i].sequence = b.next
  BY <1>3, <1>4, <1>6
<1>9. \A i \in DOMAIN b.pending : b.pending[i].sequence < b.next /\ b.pending[i].sequence \in Nat
  BY <1>4, Numbers DEF BatcherOK, Under
<1>10. Rises(p)
 <2> SUFFICES ASSUME NEW i \in DOMAIN p, NEW j \in DOMAIN p, i < j
              PROVE  p[i].sequence < p[j].sequence
   BY DEF Rises
 <2>1. i \in DOMAIN b.pending /\ p[i] = b.pending[i]
   BY <1>4, <1>6
 <2>2. CASE j = n + 1
   BY <1>3, <1>6, <1>9, <2>1, <2>2
 <2>3. CASE j # n + 1
  <3>1. j \in DOMAIN b.pending /\ p[j] = b.pending[j]
    BY <1>8, <2>3
  <3> QED BY <2>1, <3>1 DEF BatcherOK, Rises
 <2> QED BY <2>2, <2>3
<1>11. \A s : Under(s, b.next) /\ Below(s, b.pending) => Below(s, p)
  BY <1>8 DEF Under, Below
<1>12. ASSUME NEW s \in Seq(Events), Under(s, b.next) PROVE Under(s, b.next + 1)
  BY <1>4, <1>12, Numbers DEF Under
<1>13. BatcherOK(c)
 <2>1. Under(p, c.next)
   BY <1>4, <1>7, <1>8, <1>9 DEF Under
 <2>2. \A k \in DOMAIN b.queue : b.queue[k] \in Seq(Events)
   BY LenProperties, ElementOfSeq DEF BatcherOK, Batchers
 <2>3. \A k \in DOMAIN c.queue : Under(c.queue[k], c.next) /\ Below(c.queue[k], c.pending)
   BY <1>7, <1>11, <1>12, <2>2 DEF BatcherOK
 <2>4. Len(c.pending) <= MaxPending
   BY <1>1, <1>4, <1>6, <1>7, ProgressAssumption
 <2>5. 0 < c.next /\ c.next <= MaxEvents + MaxDelta + 1
   BY <1>4, <1>7, ProgressAssumption
 <2> QED BY <1>7, <1>10, <2>1, <2>3, <2>4, <2>5 DEF BatcherOK
<1>14. ASSUME NEW s \in Seq(Events), Before(s, b) PROVE Before(s, c)
  BY <1>7, <1>11, <1>12, <1>14 DEF Before
<1> QED BY <1>1, <1>7, <1>13, <1>14 DEF GoesOn

LEMMA RoomGoesOn ==
    ASSUME NEW b, BatcherOK(b)
    PROVE  /\ GoesOn(b, WithRoom(b)) /\ WithRoom(b).next = b.next
           /\ Len(WithRoom(b).pending) < MaxPending
<1>1. CASE Len(b.pending) >= MaxPending
 <2>1. WithRoom(b) = Flush(b) /\ Len(Flush(b).pending) = 0
   BY <1>1, FlushGoesOn DEF WithRoom
 <2> QED BY <2>1, FlushGoesOn, ProgressAssumption
<1>2. CASE ~(Len(b.pending) >= MaxPending)
 <2>1. WithRoom(b) = b
   BY <1>2 DEF WithRoom
 <2>2. Len(b.pending) \in Nat
   BY LenProperties DEF BatcherOK, Batchers
 <2> QED BY <1>2, <2>1, <2>2, Stays, ProgressAssumption
<1> QED BY <1>1, <1>2

LEMMA ToolGoesOn ==
    ASSUME NEW b, BatcherOK(b), b.next <= MaxEvents
    PROVE  GoesOn(b, ToolAdded(b))
<1>1. PICK c, d : c = WithRoom(b) /\ d = Numbered(c, "tool", 1)
  OBVIOUS
<1>2. GoesOn(b, c) /\ BatcherOK(c) /\ c.next = b.next /\ Len(c.pending) < MaxPending
  BY <1>1, RoomGoesOn DEF GoesOn
<1>3. c.next <= MaxEvents + MaxDelta /\ 1 \in 1..MaxText
  BY <1>2, ProgressAssumption DEF BatcherOK, Batchers
<1>4. GoesOn(c, d) /\ BatcherOK(d)
  BY <1>1, <1>2, <1>3, NumberedGoesOn DEF GoesOn
<1>5. GoesOn(d, Flush(d))
  BY <1>4, FlushGoesOn
<1>6. GoesOn(b, d)
  BY <1>2, <1>4, Onwards
<1>7. GoesOn(b, Flush(d))
  BY <1>5, <1>6, Onwards
<1> QED BY <1>1, <1>7 DEF ToolAdded

LEMMA ChunkGoesOn ==
    ASSUME NEW b, BatcherOK(b), b.next <= MaxEvents + MaxDelta, NEW size \in 1..MaxText
    PROVE  GoesOn(b, ChunkAdded(b, size)) /\ ChunkAdded(b, size).next <= b.next + 1
<1>1. PICK c : c = WithRoom(b)
  OBVIOUS
<1>2. GoesOn(b, c) /\ BatcherOK(c) /\ c.next = b.next /\ Len(c.pending) < MaxPending
  BY <1>1, RoomGoesOn DEF GoesOn
<1>3. b.next \in Nat
  BY DEF BatcherOK, Batchers
<1>4. CASE b.disabled \/ c.disabled
  BY <1>1, <1>2, <1>3, <1>4 DEF ChunkAdded
<1>5. CASE ~(b.disabled \/ c.disabled)
 <2>1. ChunkAdded(b, size) = Numbered(c, "reasoning", size)
   BY <1>1, <1>5 DEF ChunkAdded
 <2>2. GoesOn(c, Numbered(c, "reasoning", size)) /\ Numbered(c, "reasoning", size).next = c.next + 1
   BY <1>2, NumberedGoesOn
 <2>3. GoesOn(b, Numbered(c, "reasoning", size))
   BY <1>2, <2>2, Onwards
 <2> QED BY <1>2, <1>3, <2>1, <2>2, <2>3
<1> QED BY <1>4, <1>5

----
\* The chunks of a delta are added one by one, as a fold.
ChunksTo(g, b, c, n) ==
    g = [T \in SUBSET (1..n) |->
            IF T = {} THEN b ELSE ChunkAdded(g[T \ {Max(T)}], c[Max(T)])]

LEMMA ChunksFold ==
    ASSUME NEW b, NEW c, NEW n, DOMAIN c = 1..n
    PROVE  FoldLeft(ChunkAdded, b, c) = (CHOOSE g : ChunksTo(g, b, c, n))[1..n]
  BY DEF FoldLeft, MapThenFoldSet, ChunksTo

LEMMA ChunksMore ==
    ASSUME NEW b, NEW c, NEW n \in Nat, \E g : ChunksTo(g, b, c, n)
    PROVE  \E g : ChunksTo(g, b, c, n + 1)
<1>1. PICK g : ChunksTo(g, b, c, n)
  OBVIOUS
<1>2. PICK m : m = n + 1
  OBVIOUS
<1>3. PICK h : h = [T \in SUBSET (1..m) |->
                       IF T = {} THEN b
                       ELSE ChunkAdded(g[T \ {Max(T)}], c[Max(T)])]
  OBVIOUS
<1>4. ASSUME NEW T \in SUBSET (1..n) PROVE h[T] = g[T]
 <2>1. T \in SUBSET (1..m)
   BY <1>2
 <2>2. g[T] = IF T = {} THEN b ELSE ChunkAdded(g[T \ {Max(T)}], c[Max(T)])
   BY <1>1, Zenon DEF ChunksTo
 <2> QED BY <1>3, <2>1, <2>2, Zenon
<1>5. ASSUME NEW T \in SUBSET (1..m), T # {} PROVE T \ {Max(T)} \in SUBSET (1..n)
 <2>1. Max(T) \in T /\ \A y \in T : Max(T) >= y
  <3>1. m \in Nat
    BY <1>2
  <3> QED BY <1>5, <3>1, MaxOfPart
 <2>2. ASSUME NEW x \in T \ {Max(T)} PROVE x \in 1..n
  <3>1. PICK y : y = Max(T)
    OBVIOUS
  <3>2. y \in 1..m /\ x \in 1..m /\ y >= x /\ x # y
    BY <2>1, <3>1
  <3> QED BY <1>2, <3>2
 <2> QED BY <2>2
<1>6. ASSUME NEW T \in SUBSET (1..m), T # {} PROVE h[T \ {Max(T)}] = g[T \ {Max(T)}]
  BY <1>4, <1>5, <1>6
<1>7. ChunksTo(h, b, c, m)
  BY <1>3, <1>6, Zenon DEF ChunksTo
<1> QED BY <1>2, <1>7

LEMMA SomeChunks == ASSUME NEW b, NEW c PROVE \A n \in Nat : \E g : ChunksTo(g, b, c, n)
<1> DEFINE T == {n \in Nat : \E g : ChunksTo(g, b, c, n)}
<1>1. 0 \in T
 <2>1. PICK g : g = [U \in SUBSET (1..0) |-> b]
   OBVIOUS
 <2>2. \A U \in SUBSET (1..0) : U = {}
   OBVIOUS
 <2>3. ChunksTo(g, b, c, 0)
   BY <2>1, <2>2, Zenon DEF ChunksTo
 <2> QED BY <2>3
<1>2. \A n \in Nat : n \in T => n + 1 \in T
  BY ChunksMore
<1> HIDE DEF T
<1>3. \A n \in Nat : n \in T
  BY <1>1, <1>2, AllNaturals
<1> QED BY <1>3 DEF T

LEMMA ChunksGoOn ==
    ASSUME NEW b, BatcherOK(b), NEW c \in Seq(1..MaxText),
           b.next + Len(c) <= MaxEvents + MaxDelta + 1
    PROVE  GoesOn(b, FoldLeft(ChunkAdded, b, c))
<1>1. PICK n : n = Len(c)
  OBVIOUS
<1>2. n \in Nat /\ DOMAIN c = 1..n /\ b.next \in Nat /\ b.next + n <= MaxEvents + MaxDelta + 1
  BY <1>1, LenProperties DEF BatcherOK, Batchers
<1>3. PICK g : g = CHOOSE h : ChunksTo(h, b, c, n)
  OBVIOUS
<1>4. ChunksTo(g, b, c, n)
  BY <1>2, <1>3, SomeChunks
<1>5. ASSUME NEW T \in SUBSET (1..n)
      PROVE  g[T] = IF T = {} THEN b ELSE ChunkAdded(g[T \ {Max(T)}], c[Max(T)])
  BY <1>4, Zenon DEF ChunksTo
<1> DEFINE R == {k \in Nat : k <= n => /\ GoesOn(b, g[1..k]) /\ g[1..k].next <= b.next + k
                                       /\ BatcherOK(g[1..k])}
<1>6. 0 \in R
 <2>1. g[1..0] = b
  <3>1. 1..0 = {}
    OBVIOUS
  <3> QED BY <1>5, <3>1
 <2> QED BY <1>2, <2>1, Stays
<1>7. ASSUME NEW k \in Nat, k \in R PROVE k + 1 \in R
 <2> SUFFICES ASSUME k + 1 <= n
              PROVE  /\ GoesOn(b, g[1..(k + 1)]) /\ g[1..(k + 1)].next <= b.next + (k + 1)
                     /\ BatcherOK(g[1..(k + 1)])
   OBVIOUS
 <2>0. k <= n
   BY <1>2
 <2>a. GoesOn(b, g[1..k]) /\ g[1..k].next <= b.next + k /\ BatcherOK(g[1..k])
   BY <1>7, <2>0
 <2> HIDE DEF R
 <2>1. PICK d, s, m : d = g[1..k] /\ m = k + 1 /\ s = c[m]
   OBVIOUS
 <2>2. GoesOn(b, d) /\ BatcherOK(d) /\ d.next <= b.next + k /\ d.next \in Nat
   BY <2>a, <2>1 DEF BatcherOK, Batchers
 <2>b. m \in 1..n
   BY <1>2, <2>1
 <2>3. s \in 1..MaxText
   BY <1>1, <2>1, <2>b, ElementOfSeq
 <2>4. d.next <= MaxEvents + MaxDelta
   BY SMTT(30), <1>2, <2>2, ProgressAssumption
 <2>5. GoesOn(d, ChunkAdded(d, s)) /\ ChunkAdded(d, s).next <= d.next + 1
   BY <2>2, <2>3, <2>4, ChunkGoesOn
 <2>6. g[1..m] = ChunkAdded(d, s)
  <3>1. m \in Nat \ {0} /\ m - 1 = k
    BY <2>1
  <3>2. Max(1..m) = m /\ (1..m) \ {Max(1..m)} = 1..k
    BY <3>1, MaxOfRange
  <3>3. 1..m \in SUBSET (1..n) /\ 1..m # {}
   <4>1. m \in Nat /\ 1 <= m /\ m <= n
     BY <1>2, <2>b
   <4>2. \A i \in 1..m : i \in 1..n
     BY <1>2, <4>1
   <4>3. m \in 1..m
     BY <4>1
   <4> QED BY <4>2, <4>3
  <3> QED BY <1>5, <2>1, <3>2, <3>3
 <2>7. PICK e : e = ChunkAdded(d, s)
   OBVIOUS
 <2>8. GoesOn(b, e)
   BY <2>2, <2>5, <2>7, Onwards
 <2>9. BatcherOK(e) /\ e.next \in Nat
   BY <2>8 DEF GoesOn, BatcherOK, Batchers
 <2>10. e.next <= b.next + (k + 1)
   BY <1>2, <2>2, <2>5, <2>7, <2>9
 <2> QED BY <2>1, <2>6, <2>7, <2>8, <2>9, <2>10
<1> HIDE DEF R
<1>8. n \in R
  BY <1>2, <1>6, <1>7, AllNaturals
<1>9. GoesOn(b, g[1..n])
  BY <1>2, <1>8 DEF R
<1> QED BY <1>2, <1>3, <1>9, ChunksFold

\* A delta of r characters is cut into pieces of at most m: no more pieces than
\* characters, and none is empty.
LEMMA CutDelta ==
    ASSUME NEW m \in Nat \ {0}, NEW r \in Nat, NEW q, q = (r + m - 1) \div m
    PROVE  /\ q \in Nat /\ q <= r
           /\ \A i \in 1..q : r - (i - 1) * m >= 1
<1>1. q \in Int /\ m * q <= r + m - 1 /\ r + m - 1 < m * q + m
  OBVIOUS
<1>2. q >= 0
 <2>1. CASE q < 0
  <3>1. q + 1 <= 0
    BY <1>1, <2>1
  <3>2. m * (q + 1) <= 0
    BY <1>1, <3>1
  <3>3. m * (q + 1) = m * q + m
    BY <1>1
  <3> QED BY <1>1, <3>2, <3>3
 <2> QED BY <1>1, <2>1
<1>3. q <= r
 <2>1. CASE q > r
  <3>1. q >= r + 1
    BY <1>1, <2>1
  <3>2. m * q >= m * (r + 1)
    BY <1>1, <3>1
  <3>3. m * (r + 1) = m * r + m
    OBVIOUS
  <3>4. m * r >= r
    OBVIOUS
  <3> QED BY <1>1, <3>2, <3>3, <3>4
 <2> QED BY <1>1, <2>1
<1>4. ASSUME NEW i \in 1..q PROVE r - (i - 1) * m >= 1
 <2>1. m * i <= m * q
   BY <1>1
 <2>2. (i - 1) * m = m * i - m
   BY <1>1
 <2>3. m * i \in Int /\ m * q \in Int
   BY <1>1
 <2> QED BY <1>1, <2>1, <2>2, <2>3
<1> QED BY <1>1, <1>2, <1>3, <1>4

LEMMA MinOfTwo ==
    ASSUME NEW a \in Int, NEW b \in Int
    PROVE  Min({a, b}) = IF a <= b THEN a ELSE b
<1>1. CASE a <= b
 <2>1. a \in {a, b} /\ \A y \in {a, b} : a <= y
   BY <1>1
 <2>2. \A x \in {a, b} : (\A y \in {a, b} : x <= y) => x = a
   BY <1>1
 <2> QED BY <1>1, <2>1, <2>2 DEF Min
<1>2. CASE ~(a <= b)
 <2>1. b \in {a, b} /\ \A y \in {a, b} : b <= y
   BY <1>2
 <2>2. \A x \in {a, b} : (\A y \in {a, b} : x <= y) => x = b
   BY <1>2
 <2> QED BY <1>2, <2>1, <2>2 DEF Min
<1> QED BY <1>1, <1>2

LEMMA SequenceOf ==
    ASSUME NEW q \in Nat, NEW S, NEW c \in [1..q -> S]
    PROVE  c \in Seq(S) /\ Len(c) = q
  OBVIOUS

\* The last pending event grows: the same numbers.
LEMMA FilledGoesOn ==
    ASSUME NEW b, BatcherOK(b), b.pending # <<>>, NEW fill \in Nat,
           Last(b.pending).size + fill <= MaxText
    PROVE  GoesOn(b, [b EXCEPT !.pending[Len(b.pending)].size = @ + fill])
<1>1. PICK p, l, e : /\ p = b.pending /\ l = Len(p)
                     /\ e = [p[l] EXCEPT !.size = @ + fill]
  OBVIOUS
<1>2. p \in Seq(Events) /\ l \in Nat /\ l # 0 /\ DOMAIN p = 1..l
  BY <1>1, LenProperties, EmptySeq DEF BatcherOK, Batchers
<1>3. p[l] \in Events /\ Last(p) = p[l] /\ l \in DOMAIN p
  BY <1>1, <1>2, ElementOfSeq DEF Last
<1>4. e \in Events /\ e.sequence = p[l].sequence
 <2>1. p[l].size + fill \in 1..MaxText
   BY SMTT(30), <1>1, <1>3, ProgressAssumption DEF Events
 <2> QED BY <1>1, <1>3, <2>1 DEF Events
<1>5. PICK t : t = [p EXCEPT ![l] = e]
  OBVIOUS
<1>6. t \in Seq(Events) /\ Len(t) = Len(p) /\ DOMAIN t = DOMAIN p
  BY <1>1, <1>2, <1>3, <1>4, <1>5, ExceptSeq, LenProperties
<1>7. \A i \in DOMAIN p : p[i].sequence = t[i].sequence
  BY <1>2, <1>4, <1>5
<1>8. PICK c : c = [b EXCEPT !.pending[Len(b.pending)].size = @ + fill]
  OBVIOUS
<1>9. b \in Batchers
  BY DEF BatcherOK
<1>10. c = [b EXCEPT !.pending = t]
  BY <1>1, <1>5, <1>8, <1>9 DEF Batchers
<1>11. c \in Batchers /\ c.next = b.next /\ c.queue = b.queue /\ c.pending = t
  BY <1>6, <1>9, <1>10 DEF Batchers
<1>12. GoesOn(b, c)
  BY <1>1, <1>6, <1>7, <1>11, AlikeGoesOn DEF Alike
<1> QED BY <1>8, <1>12

LEMMA ReasoningGoesOn ==
    ASSUME NEW b, BatcherOK(b), b.next <= MaxEvents, NEW n \in 1..MaxDelta
    PROVE  GoesOn(b, ReasoningAdded(b, n))
<1>1. PICK f, fill, m, rest : /\ f = Space(b) /\ fill = Min({n, Space(b)})
                              /\ m = MaxText /\ rest = n - fill
  OBVIOUS
<1>2. m \in Nat \ {0} /\ n \in Nat /\ n <= MaxDelta /\ MaxDelta \in Nat /\ MaxEvents \in Nat
  BY <1>1, ProgressAssumption
<1>3. f \in Nat /\ (f # 0 => b.pending # <<>> /\ f = m - Last(b.pending).size)
 <2>1. CASE b.pending # <<>> /\ Last(b.pending).kind = "reasoning"
  <3>1. Len(b.pending) \in DOMAIN b.pending
    BY <2>1, LenProperties, EmptySeq DEF BatcherOK, Batchers
  <3>2. Last(b.pending) \in Events
    BY <3>1, Numbers DEF Last, BatcherOK, Batchers
  <3>3. f = m - Last(b.pending).size
    BY <1>1, <2>1 DEF Space
  <3>4. Last(b.pending).size \in 1..m
    BY <1>1, <3>2 DEF Events
  <3> QED BY <1>2, <2>1, <3>3, <3>4
 <2>2. CASE ~(b.pending # <<>> /\ Last(b.pending).kind = "reasoning")
   BY <1>1, <2>2 DEF Space
 <2> QED BY <2>1, <2>2
<1>4. fill \in Nat /\ fill <= n /\ fill <= f
  BY <1>1, <1>2, <1>3, MinOfTwo
<1>5. PICK c : c = IF fill = 0 THEN b
                   ELSE [b EXCEPT !.pending[Len(b.pending)].size = @ + fill]
  OBVIOUS
<1>6. GoesOn(b, c) /\ c.next = b.next
 <2>1. CASE fill = 0
   BY <1>5, <2>1, Stays
 <2>2. CASE fill # 0
  <3>1. b.pending # <<>> /\ f = m - Last(b.pending).size
    BY <1>3, <1>4, <2>2
  <3>2. Last(b.pending).size \in Nat
   <4>1. Len(b.pending) \in DOMAIN b.pending
     BY <3>1, LenProperties, EmptySeq DEF BatcherOK, Batchers
   <4>2. Last(b.pending) \in Events
     BY <4>1, Numbers DEF Last, BatcherOK, Batchers
   <4> QED BY <4>2, ProgressAssumption DEF Events
  <3>3. Last(b.pending).size + fill <= MaxText
    BY <1>1, <1>2, <1>4, <3>1, <3>2
  <3>4. GoesOn(b, [b EXCEPT !.pending[Len(b.pending)].size = @ + fill])
    BY <1>4, <3>1, <3>3, FilledGoesOn
  <3>5. c.next = b.next
    BY <1>5, <2>2 DEF BatcherOK, Batchers
  <3> QED BY <1>5, <2>2, <3>4, <3>5
 <2> QED BY <2>1, <2>2
<1>7. PICK q : q = (rest + m - 1) \div m
  OBVIOUS
<1>8. rest \in Nat /\ rest <= MaxDelta
  BY <1>1, <1>2, <1>4
<1>9. q \in Nat /\ q <= rest /\ \A i \in 1..q : rest - (i - 1) * m >= 1
  BY <1>2, <1>7, <1>8, CutDelta
<1>10. PICK chunks : chunks = [i \in 1..q |-> Min({MaxText, rest - (i - 1) * MaxText})]
  OBVIOUS
<1>11. chunks \in [1..q -> 1..MaxText]
 <2>1. ASSUME NEW i \in 1..q PROVE Min({MaxText, rest - (i - 1) * MaxText}) \in 1..MaxText
  <3>1. PICK x : x = rest - (i - 1) * m
    OBVIOUS
  <3>2. x >= 1 /\ x \in Int
    BY <1>2, <1>8, <1>9, <3>1
  <3>3. Min({m, x}) = IF m <= x THEN m ELSE x
    BY <1>2, <3>2, MinOfTwo
  <3> QED BY <1>1, <1>2, <3>1, <3>2, <3>3
 <2> QED BY <1>10, <2>1
<1>12. chunks \in Seq(1..MaxText) /\ Len(chunks) = q
  BY <1>9, <1>11, SequenceOf
<1>13. BatcherOK(c) /\ c.next \in Nat
  BY <1>6 DEF GoesOn, BatcherOK, Batchers
<1>14. c.next + Len(chunks) <= MaxEvents + MaxDelta + 1
  BY <1>2, <1>6, <1>8, <1>9, <1>12, <1>13
<1>15. GoesOn(c, FoldLeft(ChunkAdded, c, chunks))
  BY <1>12, <1>13, <1>14, ChunksGoOn
<1>16. ReasoningAdded(b, n) = FoldLeft(ChunkAdded, c, chunks)
  BY <1>1, <1>5, <1>7, <1>10 DEF ReasoningAdded
<1> QED BY <1>6, <1>15, <1>16, Onwards

LEMMA StoppedGoesOn ==
    ASSUME NEW b, BatcherOK(b), b.pending = <<>>, NEW done
    PROVE  GoesOn(b, Stopped(b, done))
<1>1. CASE b.disabled \/ done
  BY <1>1, Stays DEF Stopped
<1>2. CASE ~(b.disabled \/ done) /\ Len(b.queue) < MaxQueued
 <2>1. PICK c : c = Stopped(b, done)
   OBVIOUS
 <2>2. c = [b EXCEPT !.queue = Append(@, Stop)]
   BY <1>2, <2>1 DEF Stopped
 <2>3. <<>> \in Seq(Events) /\ Append(b.queue, <<>>) \in Seq(Seq(Events))
   BY EmptySeq, AppendProperties DEF BatcherOK, Batchers
 <2>4. c \in Batchers /\ c.next = b.next /\ c.pending = <<>> /\ c.queue = Append(b.queue, <<>>)
   BY <2>2, <2>3 DEF BatcherOK, Batchers, Stop
 <2> QED BY <1>2, <2>1, <2>3, <2>4, NothingIsBelow, QueuedGoesOn
<1>3. CASE ~(b.disabled \/ done) /\ ~(Len(b.queue) < MaxQueued)
  BY <1>3, DisabledGoesOn DEF Stopped
<1> QED BY <1>1, <1>2, <1>3

----
(* The publisher, and what is stored of one execution.                     *)

Publishers == [pieces : Seq(Seq(Events)), attempt : 0..Attempts,
               wire : {"none", "stored", "lost"}, batch : Nat \ {0}, done : BOOLEAN]

\* What is being published lies before what the batcher has.
FlowOK(b, p) ==
    /\ BatcherOK(b) /\ p \in Publishers
    /\ InTurn(p.pieces) /\ AllFull(p.pieces)
    /\ \A i \in DOMAIN p.pieces : Before(p.pieces[i], b)
    /\ p.done => p.pieces = <<>>
    /\ p.wire # "none" => p.pieces # <<>>
    /\ p.wire = "none" /\ ~p.done => p.attempt < Attempts

\* Batches in order, without a gap.
StoredOK(M) ==
    /\ \A m \in M : m \in Batches /\ m.events # <<>> /\ Rises(m.events)
    /\ \A m, k \in M : m.batch < k.batch => Below(m.events, k.events)
    /\ \A m \in M : \A n \in 1..m.batch : \E k \in M : k.batch = n

\* A publisher that works has sent all the batches before its own, and they lie before
\* all that it and the batcher have; its own may be stored already.
SentBy(M, b, p) ==
    /\ \A m \in M :
          \/ /\ m.batch < p.batch /\ Before(m.events, b)
             /\ \A i \in DOMAIN p.pieces : Below(m.events, p.pieces[i])
          \/ m.batch = p.batch /\ p.pieces # <<>> /\ m.events = p.pieces[1]
    /\ \A n \in 1..(p.batch - 1) : \E m \in M : m.batch = n
    /\ p.wire = "stored" => \E m \in M : m.batch = p.batch

InHand(M, b, p) == FlowOK(b, p) /\ StoredOK(M) /\ (~p.done => SentBy(M, b, p))

LEMMA Piece ==
    ASSUME NEW p \in Publishers
    PROVE  /\ \A i \in DOMAIN p.pieces : p.pieces[i] \in Seq(Events)
           /\ p.pieces = <<>> <=> DOMAIN p.pieces = {}
           /\ p.pieces # <<>> => 1 \in DOMAIN p.pieces /\ Head(p.pieces) = p.pieces[1]
<1>1. p.pieces \in Seq(Seq(Events))
  BY DEF Publishers
<1> QED BY <1>1, LenProperties, ElementOfSeq, EmptySeq

\* The batcher goes on, and the publisher does not notice.
LEMMA HeldGoesOn ==
    ASSUME NEW M, NEW b, NEW p, InHand(M, b, p), NEW c, GoesOn(b, c)
    PROVE  InHand(M, c, p)
<1>1. FlowOK(c, p)
  BY Piece DEF InHand, FlowOK, GoesOn
<1>2. \A m \in M : m.events \in Seq(Events)
  BY DEF InHand, StoredOK, Batches
<1> QED BY <1>1, <1>2 DEF InHand, SentBy, GoesOn

LEMMA HeldCancelled ==
    ASSUME NEW M, NEW b, NEW p, InHand(M, b, p), NEW c, BatcherOK(c)
    PROVE  InHand(M, c, Cancelled(p))
<1>1. p \in Publishers
  BY DEF InHand, FlowOK
<1>2. /\ Cancelled(p) \in Publishers /\ Cancelled(p).done /\ Cancelled(p).pieces = <<>>
      /\ Cancelled(p).wire = "none"
  BY <1>1, EmptySeq DEF Cancelled, Publishers
<1>3. DOMAIN Cancelled(p).pieces = {}
  BY <1>2
<1> QED BY <1>2, <1>3 DEF InHand, FlowOK, InTurn, AllFull

LEMMA HeldBecomes ==
    ASSUME NEW M, NEW b, NEW p, InHand(M, b, p), NEW c, GoesOn(b, c)
    PROVE  InHand(M, c, IF c.disabled THEN Cancelled(p) ELSE p)
  BY HeldGoesOn, HeldCancelled DEF GoesOn

LEMMA HeldStart == InHand({}, FreshBatcher, FreshPublisher)
<1>1. /\ FreshPublisher \in Publishers /\ DOMAIN FreshPublisher.pieces = {}
      /\ FreshPublisher.attempt = 0 /\ FreshPublisher.batch = 1
      /\ FreshPublisher.wire = "none" /\ FreshPublisher.done = FALSE
  BY EmptySeq, ProgressAssumption DEF FreshPublisher, Publishers
<1> QED BY <1>1, FreshOK, ProgressAssumption
        DEF InHand, FlowOK, StoredOK, SentBy, InTurn, AllFull

\* _publish_loop takes the next batch: its pieces take the batch's place in the order.
LEMMA HeldTake ==
    ASSUME NEW M, NEW b, NEW p, InHand(M, b, p), ~p.done, p.pieces = <<>>, b.queue # <<>>,
           NEW c, c = [b EXCEPT !.queue = Tail(@)],
           NEW q, q = IF Head(b.queue) = Stop THEN [p EXCEPT !.done = TRUE]
                      ELSE [p EXCEPT !.pieces = Pieces[Head(b.queue)]]
    PROVE  InHand(M, c, q)
<1>1. b \in Batchers /\ b.queue \in Seq(Seq(Events)) /\ p \in Publishers /\ BatcherOK(b)
  BY DEF InHand, FlowOK, BatcherOK, Batchers
<1>2. PICK n, t, h : n = Len(b.queue) /\ t = Tail(b.queue) /\ h = b.queue[1]
  OBVIOUS
<1>3. n \in Nat /\ n >= 1 /\ DOMAIN b.queue = 1..n /\ h = Head(b.queue)
  BY <1>1, <1>2, EmptySeq, LenProperties
<1>4. /\ t \in Seq(Seq(Events)) /\ Len(t) = n - 1 /\ DOMAIN t = 1..(n - 1)
      /\ \A i \in 1..(n - 1) : t[i] = b.queue[i + 1]
  BY <1>1, <1>2, <1>3, HeadTailProperties, LenProperties
<1>5. \A i \in DOMAIN t : i + 1 \in DOMAIN b.queue /\ t[i] = b.queue[i + 1] /\ 1 < i + 1
  BY <1>3, <1>4
<1>6. h \in Seq(Events) /\ 1 \in DOMAIN b.queue
  BY <1>1, <1>2, <1>3, ElementOfSeq
<1>7. c = [b EXCEPT !.queue = t]
  BY <1>1, <1>2 DEF Batchers
<1>8. /\ c \in Batchers /\ c.queue = t /\ c.pending = b.pending /\ c.next = b.next
  BY <1>1, <1>4, <1>7 DEF Batchers
<1>9. InTurn(t)
 <2>1. \A i \in DOMAIN t : Rises(t[i])
   BY <1>1, <1>5 DEF BatcherOK, InTurn
 <2>2. ASSUME NEW i \in DOMAIN t, NEW j \in DOMAIN t, i < j PROVE Below(t[i], t[j])
  <3>1. /\ i + 1 \in DOMAIN b.queue /\ j + 1 \in DOMAIN b.queue
        /\ t[i] = b.queue[i + 1] /\ t[j] = b.queue[j + 1]
    BY <1>5
  <3>2. i + 1 < j + 1
    BY <1>4, <2>2
  <3> QED BY <1>1, <3>1, <3>2 DEF BatcherOK, InTurn
 <2> QED BY <2>1, <2>2 DEF InTurn
<1>10. BatcherOK(c)
 <2>1. Len(c.queue) <= MaxQueued
   BY <1>1, <1>2, <1>3, <1>4, <1>8, ProgressAssumption DEF BatcherOK
 <2>2. \A k \in DOMAIN c.queue : Under(c.queue[k], c.next) /\ Below(c.queue[k], c.pending)
   BY <1>1, <1>5, <1>8 DEF BatcherOK
 <2> QED BY <1>1, <1>8, <1>9, <2>1, <2>2 DEF BatcherOK
<1>11. \A s : Before(s, b) => Before(s, c)
  BY <1>5, <1>8 DEF Before
<1>12. GoesOn(b, c)
  BY <1>10, <1>11 DEF GoesOn
<1>13. CASE h = Stop
 <2>1. /\ q \in Publishers /\ q.done /\ q.pieces = <<>> /\ q.wire = p.wire
   BY <1>1, <1>3, <1>13 DEF Publishers
 <2>2. p.wire = "none" /\ DOMAIN q.pieces = {}
   BY <2>1 DEF InHand, FlowOK
 <2> QED BY <1>10, <2>1, <2>2 DEF InHand, FlowOK, InTurn, AllFull
<1>14. CASE h # Stop
 <2>1. PICK u : u = Pieces[h]
   OBVIOUS
 <2>2. Rises(h)
   BY <1>1, <1>2, <1>6 DEF BatcherOK, InTurn
 <2>3. u \in Seq(Seq(Events)) /\ InTurn(u) /\ AllFull(u) /\ AllWithin(u, h)
   BY <1>6, <1>14, <2>1, <2>2, PiecesWellCut DEF WellCut, Stop
 <2>4. q = [p EXCEPT !.pieces = u]
   BY <1>3, <1>14, <2>1
 <2>5. /\ q \in Publishers /\ q.pieces = u /\ q.wire = p.wire /\ q.batch = p.batch
       /\ q.done = p.done /\ q.attempt = p.attempt
   BY <1>1, <2>3, <2>4 DEF Publishers
 <2>6. p.wire = "none" /\ p.attempt < Attempts
   BY DEF InHand, FlowOK
 <2>7. Under(h, c.next) /\ Below(h, c.pending) /\ \A k \in DOMAIN c.queue : Below(h, c.queue[k])
   BY <1>1, <1>2, <1>5, <1>6, <1>8 DEF BatcherOK, InTurn
 <2>8. \A i \in DOMAIN u : Before(u[i], c)
   BY <2>3, <2>7 DEF AllWithin, Within, Before, Under, Below
 <2>9. FlowOK(c, q)
   BY <1>10, <2>3, <2>5, <2>6, <2>8 DEF FlowOK
 <2>10. SentBy(M, b, p) /\ StoredOK(M)
   BY DEF InHand
 <2>11. ASSUME NEW m \in M
        PROVE  /\ m.batch < q.batch /\ Before(m.events, c)
               /\ \A i \in DOMAIN u : Below(m.events, u[i])
  <3>1. m.batch < p.batch /\ Before(m.events, b)
    BY <2>10 DEF SentBy
  <3>2. Below(m.events, h)
    BY <1>2, <1>6, <3>1 DEF Before
  <3>3. ASSUME NEW i \in DOMAIN u PROVE Below(m.events, u[i])
   <4>1. Within(u[i], h)
     BY <2>3 DEF AllWithin
   <4> QED BY <3>2, <4>1 DEF Within, Below
  <3>4. Before(m.events, c)
    BY <1>11, <3>1
  <3> QED BY <2>5, <3>1, <3>3, <3>4
 <2>12. SentBy(M, c, q)
   BY <2>5, <2>6, <2>10, <2>11 DEF SentBy
 <2> QED BY <2>9, <2>10, <2>12 DEF InHand
<1> QED BY <1>13, <1>14

\* An attempt to publish the first piece, as the next batch.
LEMMA HeldSend ==
    ASSUME NEW e \in Deliveries, NEW M, NEW b, NEW p, InHand(M, b, p), p.pieces # <<>>, p.wire = "none",
           NEW wire \in {"stored", "lost"},
           NEW q, q = [p EXCEPT !.wire = wire, !.attempt = @ + 1],
           NEW N, N = IF wire = "stored"
                      THEN M \cup {[execution |-> e, batch |-> p.batch, events |-> Head(p.pieces)]}
                      ELSE M
    PROVE  InHand(N, b, q)
<1>1. p \in Publishers /\ ~p.done /\ p.attempt < Attempts /\ p.batch \in Nat \ {0} /\ p.attempt \in Nat
  BY DEF InHand, FlowOK, Publishers
<1>2. /\ q \in Publishers /\ q.pieces = p.pieces /\ q.batch = p.batch /\ q.wire = wire
      /\ q.done = p.done
 <2>1. p.attempt + 1 \in 0..Attempts
   BY <1>1, ProgressAssumption
 <2>2. q = [p EXCEPT !.wire = wire, !.attempt = p.attempt + 1]
   BY <1>1 DEF Publishers
 <2> QED BY <1>1, <2>1, <2>2 DEF Publishers
<1>3. FlowOK(b, q)
  BY <1>2 DEF InHand, FlowOK
<1>4. PICK m : m = [execution |-> e, batch |-> p.batch, events |-> p.pieces[1]]
  OBVIOUS
<1>5. /\ p.pieces[1] \in Seq(Events) /\ 1 \in DOMAIN p.pieces /\ Head(p.pieces) = p.pieces[1]
      /\ p.pieces[1] # <<>> /\ Rises(p.pieces[1])
  BY <1>1, Piece DEF InHand, FlowOK, InTurn, AllFull
<1>6. m \in Batches /\ m.events = p.pieces[1] /\ m.batch = p.batch
  BY <1>1, <1>4, <1>5 DEF Batches
<1>7. N = IF wire = "stored" THEN M \cup {m} ELSE M
  BY <1>4, <1>5
<1>8. SentBy(M, b, p) /\ StoredOK(M)
  BY <1>1 DEF InHand
<1>9. \A k \in M : \/ k.batch < p.batch /\ Below(k.events, m.events)
                   \/ k.batch = p.batch /\ k.events = m.events
  BY <1>5, <1>6, <1>8 DEF SentBy
<1>10. \A k \in M : k.batch \in Nat \ {0}
  BY <1>8 DEF StoredOK, Batches
<1>11. StoredOK(N)
 <2>1. \A k \in N : k \in M \/ k = m
   BY <1>7
 <2>2. \A k \in N : k \in Batches /\ k.events # <<>> /\ Rises(k.events)
   BY <1>5, <1>6, <1>8, <2>1 DEF StoredOK
 <2>3. ASSUME NEW k \in N, NEW l \in N, k.batch < l.batch PROVE Below(k.events, l.events)
  <3>1. CASE k \in M /\ l \in M
    BY <1>8, <2>3, <3>1 DEF StoredOK
  <3>2. CASE k \in M /\ l = m
    BY <1>1, <1>6, <1>9, <1>10, <2>3, <3>2
  <3>3. CASE k = m
    BY <1>1, <1>6, <1>9, <1>10, <2>1, <2>3, <3>3
  <3> QED BY <2>1, <3>1, <3>2, <3>3
 <2>4. ASSUME NEW k \in N, NEW n \in 1..k.batch PROVE \E l \in N : l.batch = n
  <3>1. CASE k \in M
    BY <1>7, <1>8, <3>1 DEF StoredOK
  <3>2. CASE k = m /\ n = p.batch
    BY <1>6, <3>2
  <3>3. CASE k = m /\ n # p.batch
   <4>1. n \in 1..(p.batch - 1)
     BY <1>1, <1>6, <3>3
   <4> QED BY <1>7, <1>8, <4>1 DEF SentBy
  <3> QED BY <2>1, <3>1, <3>2, <3>3
 <2> QED BY <2>2, <2>3, <2>4 DEF StoredOK
<1>12. SentBy(N, b, q)
 <2>1. ASSUME NEW k \in N
       PROVE  \/ /\ k.batch < q.batch /\ Before(k.events, b)
                 /\ \A i \in DOMAIN q.pieces : Below(k.events, q.pieces[i])
              \/ k.batch = q.batch /\ q.pieces # <<>> /\ k.events = q.pieces[1]
   BY <1>2, <1>6, <1>7, <1>8 DEF SentBy
 <2>2. \A n \in 1..(q.batch - 1) : \E k \in N : k.batch = n
   BY <1>2, <1>7, <1>8 DEF SentBy
 <2>3. q.wire = "stored" => \E k \in N : k.batch = q.batch
   BY <1>2, <1>6, <1>7
 <2> QED BY <2>1, <2>2, <2>3 DEF SentBy
<1> QED BY <1>3, <1>11, <1>12 DEF InHand

\* The next piece becomes the next batch.
LEMMA HeldAcknowledged ==
    ASSUME NEW M, NEW b, NEW p, InHand(M, b, p), p.wire = "stored",
           NEW q, q = [p EXCEPT !.pieces = Tail(@), !.wire = "none", !.attempt = 0, !.batch = @ + 1]
    PROVE  InHand(M, b, q)
<1>1. p \in Publishers /\ p.pieces # <<>> /\ ~p.done /\ p.batch \in Nat \ {0}
  BY DEF InHand, FlowOK, Publishers
<1>2. PICK n, t : n = Len(p.pieces) /\ t = Tail(p.pieces)
  OBVIOUS
<1>3. n \in Nat /\ n >= 1 /\ DOMAIN p.pieces = 1..n /\ p.pieces \in Seq(Seq(Events))
  BY <1>1, <1>2, EmptySeq, LenProperties DEF Publishers
<1>4. /\ t \in Seq(Seq(Events)) /\ Len(t) = n - 1 /\ DOMAIN t = 1..(n - 1)
      /\ \A i \in 1..(n - 1) : t[i] = p.pieces[i + 1]
  BY <1>1, <1>2, <1>3, HeadTailProperties, LenProperties
<1>5. \A i \in DOMAIN t : i + 1 \in DOMAIN p.pieces /\ t[i] = p.pieces[i + 1] /\ 1 < i + 1
  BY <1>3, <1>4
<1>6. /\ q \in Publishers /\ q.pieces = t /\ q.wire = "none" /\ q.batch = p.batch + 1
      /\ q.done = p.done /\ q.attempt = 0
 <2>1. q = [p EXCEPT !.pieces = t, !.wire = "none", !.attempt = 0, !.batch = p.batch + 1]
   BY <1>1, <1>2 DEF Publishers
 <2>2. 0 \in 0..Attempts /\ p.batch + 1 \in Nat \ {0} /\ "none" \in {"none", "stored", "lost"}
   BY <1>1, ProgressAssumption
 <2>3. q \in Publishers
   BY <1>1, <1>4, <2>1, <2>2 DEF Publishers
 <2>4. q.pieces = t /\ q.wire = "none" /\ q.batch = p.batch + 1
   BY <1>1, <2>1 DEF Publishers
 <2>5. q.done = p.done /\ q.attempt = 0
   BY <1>1, <2>1 DEF Publishers
 <2> QED BY <2>3, <2>4, <2>5
<1>7. InTurn(t)
 <2>1. \A i \in DOMAIN t : Rises(t[i])
   BY <1>5 DEF InHand, FlowOK, InTurn
 <2>2. ASSUME NEW i \in DOMAIN t, NEW j \in DOMAIN t, i < j PROVE Below(t[i], t[j])
  <3>1. /\ i + 1 \in DOMAIN p.pieces /\ j + 1 \in DOMAIN p.pieces
        /\ t[i] = p.pieces[i + 1] /\ t[j] = p.pieces[j + 1]
    BY <1>5
  <3>2. i + 1 < j + 1
    BY <1>4, <2>2
  <3> QED BY <3>1, <3>2 DEF InHand, FlowOK, InTurn
 <2> QED BY <2>1, <2>2 DEF InTurn
<1>8. FlowOK(b, q)
 <2>1. AllFull(t) /\ \A i \in DOMAIN t : Before(t[i], b)
   BY <1>5 DEF InHand, FlowOK, AllFull
 <2>2. 0 < Attempts
   BY ProgressAssumption
 <2> QED BY <1>1, <1>6, <1>7, <2>1, <2>2 DEF InHand, FlowOK
<1>9. SentBy(M, b, p) /\ StoredOK(M)
  BY <1>1 DEF InHand
<1>10. \A m \in M : m.batch \in Nat
  BY <1>9 DEF StoredOK, Batches
<1>11. Before(p.pieces[1], b) /\ \A i \in DOMAIN t : Below(p.pieces[1], t[i])
  BY <1>3, <1>5 DEF InHand, FlowOK, InTurn
<1>12. SentBy(M, b, q)
 <2>1. ASSUME NEW m \in M
       PROVE  /\ m.batch < q.batch /\ Before(m.events, b)
              /\ \A i \in DOMAIN q.pieces : Below(m.events, q.pieces[i])
  <3>1. CASE /\ m.batch < p.batch /\ Before(m.events, b)
             /\ \A i \in DOMAIN p.pieces : Below(m.events, p.pieces[i])
    BY <1>1, <1>5, <1>6, <1>10, <3>1
  <3>2. CASE m.batch = p.batch /\ m.events = p.pieces[1]
    BY <1>1, <1>6, <1>11, <3>2
  <3> QED BY <1>9, <3>1, <3>2 DEF SentBy
 <2>2. ASSUME NEW k \in 1..(q.batch - 1) PROVE \E m \in M : m.batch = k
  <3>1. CASE k = p.batch
    BY <1>9, <3>1 DEF SentBy
  <3>2. CASE k # p.batch
   <4>1. k \in 1..(p.batch - 1)
     BY <1>1, <1>6, <3>2
   <4> QED BY <1>9, <4>1 DEF SentBy
  <3> QED BY <3>1, <3>2
 <2> QED BY <1>6, <2>1, <2>2 DEF SentBy
<1> QED BY <1>8, <1>9, <1>12 DEF InHand

\* A failed attempt is made again.
LEMMA HeldRetries ==
    ASSUME NEW M, NEW b, NEW p, InHand(M, b, p), p.wire # "none", p.attempt < Attempts,
           NEW q, q = [p EXCEPT !.wire = "none"]
    PROVE  InHand(M, b, q)
<1>1. p \in Publishers
  BY DEF InHand, FlowOK
<1>2. /\ q \in Publishers /\ q.pieces = p.pieces /\ q.wire = "none" /\ q.batch = p.batch
      /\ q.done = p.done /\ q.attempt = p.attempt
  BY <1>1 DEF Publishers
<1> QED BY <1>2 DEF InHand, FlowOK, SentBy

----
(* The flow of all executions.                                             *)

Moved(e) == phase[e] # "over" /\ ~publisher[e].done => SentBy(BatchesOf(e), batcher[e], publisher[e])

FlowInv ==
    /\ phase \in [Deliveries -> {"idle", "running", "closing", "over"}]
    /\ DOMAIN batcher = Deliveries /\ DOMAIN publisher = Deliveries
    /\ batcher = [e \in Deliveries |-> batcher[e]] /\ publisher = [e \in Deliveries |-> publisher[e]]
    /\ stored \subseteq Batches
    /\ \A e \in Deliveries : StoredOK(BatchesOf(e)) /\ FlowOK(batcher[e], publisher[e]) /\ Moved(e)

HeldOf(e) == InHand(BatchesOf(e), batcher[e], publisher[e])

LEMMA HeldFlow ==
    ASSUME FlowInv, NEW e \in Deliveries, phase[e] # "over"
    PROVE  HeldOf(e)
  BY DEF FlowInv, HeldOf, InHand, Moved

\* One execution changes, within its own batches.
LEMMA OneMoves ==
    ASSUME FlowInv, NEW e \in Deliveries, stored' \subseteq Batches,
           \A d \in Deliveries \ {e} : BatchesOf(d)' = BatchesOf(d),
           NEW b, batcher' = [batcher EXCEPT ![e] = b],
           NEW p, publisher' = [publisher EXCEPT ![e] = p],
           NEW f \in {"idle", "running", "closing", "over"}, phase' = [phase EXCEPT ![e] = f],
           InHand(BatchesOf(e)', b, p)
    PROVE  FlowInv'
<1>1. /\ batcher'[e] = b /\ publisher'[e] = p
      /\ \A d \in Deliveries \ {e} : batcher'[d] = batcher[d] /\ publisher'[d] = publisher[d]
                                     /\ phase'[d] = phase[d]
  BY DEF FlowInv
<1>2. /\ phase' \in [Deliveries -> {"idle", "running", "closing", "over"}]
      /\ DOMAIN batcher' = Deliveries /\ DOMAIN publisher' = Deliveries
  BY DEF FlowInv
<1>3. /\ batcher' = [d \in Deliveries |-> batcher'[d]]
      /\ publisher' = [d \in Deliveries |-> publisher'[d]]
  BY DEF FlowInv
<1>4. ASSUME NEW d \in Deliveries
      PROVE  (StoredOK(BatchesOf(d)) /\ FlowOK(batcher[d], publisher[d]) /\ Moved(d))'
 <2>1. CASE d = e
   BY <1>1, <2>1 DEF InHand, Moved
 <2>2. CASE d # e
  <3>1. StoredOK(BatchesOf(d)) /\ FlowOK(batcher[d], publisher[d]) /\ Moved(d)
    BY DEF FlowInv
  <3>2. /\ batcher'[d] = batcher[d] /\ publisher'[d] = publisher[d] /\ phase'[d] = phase[d]
        /\ BatchesOf(d)' = BatchesOf(d)
    BY <1>1, <2>2
  <3> QED BY <3>1, <3>2 DEF Moved
 <2> QED BY <2>1, <2>2
<1> QED BY <1>2, <1>3, <1>4 DEF FlowInv

\* As OneMoves, with nothing more stored.
LEMMA SameMoves ==
    ASSUME FlowInv, NEW e \in Deliveries, UNCHANGED stored,
           NEW b, batcher' = [batcher EXCEPT ![e] = b],
           NEW p, publisher' = [publisher EXCEPT ![e] = p],
           NEW f \in {"idle", "running", "closing", "over"}, phase' = [phase EXCEPT ![e] = f],
           InHand(BatchesOf(e), b, p)
    PROVE  FlowInv'
<1>1. BatchesOf(e)' = BatchesOf(e) /\ \A d \in Deliveries \ {e} : BatchesOf(d)' = BatchesOf(d)
  BY DEF BatchesOf
<1>2. stored' \subseteq Batches
  BY DEF FlowInv
<1> QED BY <1>1, <1>2, OneMoves

LEMMA BecomesMoves ==
    ASSUME FlowInv, NEW e \in Deliveries, phase[e] # "over", UNCHANGED stored,
           NEW f \in {"idle", "running", "closing", "over"}, phase' = [phase EXCEPT ![e] = f],
           NEW b, GoesOn(batcher[e], b), Becomes(e, b)
    PROVE  FlowInv'
<1>1. InHand(BatchesOf(e), batcher[e], publisher[e])
  BY HeldFlow DEF HeldOf
<1>2. PICK p : p = IF b.disabled THEN Cancelled(publisher[e]) ELSE publisher[e]
  OBVIOUS
<1>3. InHand(BatchesOf(e), b, p)
  BY <1>1, <1>2, HeldBecomes
<1>4. publisher' = [publisher EXCEPT ![e] = p]
  BY <1>2 DEF Becomes, FlowInv
<1>5. BatchesOf(e)' = BatchesOf(e) /\ \A d \in Deliveries \ {e} : BatchesOf(d)' = BatchesOf(d)
  BY DEF BatchesOf
<1>6. batcher' = [batcher EXCEPT ![e] = b] /\ stored' \subseteq Batches
  BY DEF Becomes, FlowInv
<1> QED BY <1>3, <1>4, <1>5, <1>6, OneMoves

LEMMA BatcherOf ==
    ASSUME FlowInv, NEW e \in Deliveries
    PROVE  BatcherOK(batcher[e])
  BY DEF FlowInv, FlowOK

\* An action that leaves the phases alone.
LEMMA SamePhase ==
    ASSUME FlowInv, NEW e \in Deliveries, UNCHANGED phase
    PROVE  phase' = [phase EXCEPT ![e] = phase[e]] /\ phase[e] \in {"idle", "running", "closing", "over"}
  BY DEF FlowInv

LEMMA FlowAdd == ASSUME FlowInv, NEW e \in Deliveries, AddEvent(e) PROVE FlowInv'
<1>1. PICK b : b = batcher[e]
  OBVIOUS
<1>2. /\ phase[e] = "running" /\ b.next <= MaxEvents /\ UNCHANGED <<phase, stored>>
      /\ \E c \in {ToolAdded(b)} \cup {ReasoningAdded(b, n) : n \in 1..MaxDelta} :
            Becomes(e, [c EXCEPT !.timer = @ \/ c.pending # <<>>])
  BY <1>1 DEF AddEvent
<1>3. PICK c : /\ c = ToolAdded(b) \/ \E n \in 1..MaxDelta : c = ReasoningAdded(b, n)
               /\ Becomes(e, [c EXCEPT !.timer = @ \/ c.pending # <<>>])
  BY <1>2
<1>4. GoesOn(b, c) /\ BatcherOK(c)
  BY <1>1, <1>2, <1>3, BatcherOf, ToolGoesOn, ReasoningGoesOn DEF GoesOn
<1>5. PICK t \in BOOLEAN : t = (c.timer \/ c.pending # <<>>)
  BY <1>4 DEF BatcherOK, Batchers
<1>6. [c EXCEPT !.timer = @ \/ c.pending # <<>>] = [c EXCEPT !.timer = t]
  BY <1>4, <1>5 DEF BatcherOK, Batchers
<1>7. PICK d : d = [c EXCEPT !.timer = t]
  OBVIOUS
<1>8. GoesOn(c, d)
  BY <1>4, <1>7, TimerGoesOn
<1>9. GoesOn(b, d) /\ Becomes(e, d)
  BY <1>3, <1>4, <1>6, <1>7, <1>8, Onwards
<1> QED BY <1>1, <1>2, <1>9, SamePhase, BecomesMoves

LEMMA FlowTimer == ASSUME FlowInv, NEW e \in Deliveries, TimerFires(e) PROVE FlowInv'
<1>1. /\ phase[e] = "running" /\ UNCHANGED <<phase, stored>>
      /\ Becomes(e, IF batcher[e].disabled THEN [batcher[e] EXCEPT !.timer = FALSE]
                    ELSE Flush(batcher[e]))
  BY DEF TimerFires
<1>2. PICK d : /\ d = [batcher[e] EXCEPT !.timer = FALSE] \/ d = Flush(batcher[e])
               /\ Becomes(e, d)
  BY <1>1
<1>3. GoesOn(batcher[e], d)
  BY <1>2, BatcherOf, TimerGoesOn, FlushGoesOn
<1> QED BY <1>1, <1>2, <1>3, SamePhase, BecomesMoves

LEMMA FlowClose == ASSUME FlowInv, NEW e \in Deliveries, CloseBatcher(e) PROVE FlowInv'
<1>1. /\ phase[e] = "running" /\ UNCHANGED stored /\ phase' = [phase EXCEPT ![e] = "closing"]
      /\ Becomes(e, Stopped(Flush(batcher[e]), publisher[e].done))
  BY DEF CloseBatcher
<1>2. PICK c, d : c = Flush(batcher[e]) /\ d = Stopped(c, publisher[e].done)
  OBVIOUS
<1>3. GoesOn(batcher[e], c) /\ BatcherOK(c) /\ c.pending = <<>>
  BY <1>2, BatcherOf, FlushGoesOn DEF GoesOn
<1>4. GoesOn(batcher[e], d)
  BY <1>2, <1>3, StoppedGoesOn, Onwards
<1> QED BY <1>1, <1>2, <1>4, BecomesMoves

LEMMA FlowDrain == ASSUME FlowInv, NEW e \in Deliveries, DrainTimesOut(e) PROVE FlowInv'
<1>1. /\ phase[e] = "closing" /\ UNCHANGED <<phase, stored>> /\ Becomes(e, Disabled(batcher[e]))
  BY DEF DrainTimesOut
<1> QED BY <1>1, BatcherOf, DisabledGoesOn, SamePhase, BecomesMoves

LEMMA SameStored ==
    ASSUME UNCHANGED stored
    PROVE  \A d : BatchesOf(d)' = BatchesOf(d)
  BY DEF BatchesOf

LEMMA FlowTake == ASSUME FlowInv, NEW e \in Deliveries, TakeBatch(e) PROVE FlowInv'
<1>1. PICK b, p, c, q :
          /\ b = batcher[e] /\ p = publisher[e] /\ c = [b EXCEPT !.queue = Tail(@)]
          /\ q = IF Head(b.queue) = Stop THEN [p EXCEPT !.done = TRUE]
                 ELSE [p EXCEPT !.pieces = Pieces[Head(b.queue)]]
  OBVIOUS
<1>2. /\ phase[e] # "over" /\ UNCHANGED <<phase, stored>>
      /\ ~p.done /\ p.pieces = <<>> /\ b.queue # <<>>
  BY <1>1 DEF TakeBatch
<1>3. InHand(BatchesOf(e), b, p)
  BY <1>1, <1>2, HeldFlow DEF HeldOf
<1>4. InHand(BatchesOf(e), c, q)
  BY <1>1, <1>2, <1>3, HeldTake
<1>5. batcher' = [batcher EXCEPT ![e] = c] /\ publisher' = [publisher EXCEPT ![e] = q]
  BY <1>1 DEF TakeBatch, FlowInv
<1>6. stored' \subseteq Batches
  BY <1>2 DEF FlowInv
<1> QED BY <1>2, <1>4, <1>5, <1>6, SamePhase, SameMoves

LEMMA FlowSend == ASSUME FlowInv, NEW e \in Deliveries, SendBatch(e) PROVE FlowInv'
<1>1. PICK p, m : /\ p = publisher[e]
                  /\ m = [execution |-> e, batch |-> p.batch, events |-> Head(p.pieces)]
  OBVIOUS
<1>2. PICK wire \in {"stored", "lost"} :
          /\ phase[e] # "over" /\ UNCHANGED <<phase, batcher>> /\ p.pieces # <<>> /\ p.wire = "none"
          /\ stored' = IF wire = "stored" THEN stored \cup {m} ELSE stored
          /\ publisher' = [publisher EXCEPT ![e].wire = wire, ![e].attempt = @ + 1]
  BY <1>1 DEF SendBatch
<1>3. PICK q : q = [p EXCEPT !.wire = wire, !.attempt = @ + 1]
  OBVIOUS
<1>4. InHand(BatchesOf(e), batcher[e], p)
  BY <1>1, <1>2, HeldFlow DEF HeldOf
<1>5. BatchesOf(e)' = IF wire = "stored" THEN BatchesOf(e) \cup {m} ELSE BatchesOf(e)
  BY <1>1, <1>2 DEF BatchesOf
<1>6. \A d \in Deliveries \ {e} : BatchesOf(d)' = BatchesOf(d)
  BY <1>1, <1>2 DEF BatchesOf
<1>7. InHand(BatchesOf(e)', batcher[e], q)
  BY <1>1, <1>2, <1>3, <1>4, <1>5, HeldSend
<1>8. stored' \subseteq Batches
 <2>1. p \in Publishers
   BY <1>4 DEF InHand, FlowOK
 <2>2. Head(p.pieces) \in Seq(Events) /\ p.batch \in Nat \ {0}
   BY <1>2, <2>1, Piece DEF Publishers
 <2>3. m \in Batches
   BY <1>1, <2>2 DEF Batches
 <2> QED BY <1>2, <2>3 DEF FlowInv
<1>9. publisher' = [publisher EXCEPT ![e] = q] /\ batcher' = [batcher EXCEPT ![e] = batcher[e]]
 <2>1. p \in Publishers
   BY <1>4 DEF InHand, FlowOK
 <2>2. q = [pieces |-> p.pieces, attempt |-> p.attempt + 1, wire |-> wire, batch |-> p.batch,
            done |-> p.done]
   BY <1>3, <2>1 DEF Publishers
 <2> QED BY <1>1, <1>2, <1>3 DEF FlowInv
<1> QED BY <1>2, <1>6, <1>7, <1>8, <1>9, SamePhase, OneMoves

LEMMA FlowAcknowledged == ASSUME FlowInv, NEW e \in Deliveries, BatchAcknowledged(e) PROVE FlowInv'
<1>1. PICK p, q : /\ p = publisher[e]
                  /\ q = [p EXCEPT !.pieces = Tail(@), !.wire = "none", !.attempt = 0, !.batch = @ + 1]
  OBVIOUS
<1>2. phase[e] # "over" /\ UNCHANGED <<phase, stored, batcher>> /\ p.wire = "stored"
  BY <1>1 DEF BatchAcknowledged
<1>5. publisher' = [publisher EXCEPT ![e] = q]
  BY <1>1 DEF BatchAcknowledged, FlowInv
<1>3. InHand(BatchesOf(e), batcher[e], q)
  BY <1>1, <1>2, HeldFlow, HeldAcknowledged DEF HeldOf
<1>4. batcher' = [batcher EXCEPT ![e] = batcher[e]] /\ stored' \subseteq Batches
  BY <1>2 DEF FlowInv
<1> QED BY <1>2, <1>3, <1>4, <1>5, SamePhase, SameMoves

LEMMA FlowFails == ASSUME FlowInv, NEW e \in Deliveries, BatchFails(e) PROVE FlowInv'
<1>1. PICK p, q : p = publisher[e] /\ q = [p EXCEPT !.wire = "none"]
  OBVIOUS
<1>2. phase[e] # "over" /\ UNCHANGED <<phase, stored>> /\ p.wire # "none"
  BY <1>1 DEF BatchFails
<1>3. CASE p.attempt < Attempts
 <2>1. UNCHANGED batcher /\ publisher' = [publisher EXCEPT ![e] = q]
   BY <1>1, <1>3 DEF BatchFails, FlowInv
 <2>2. InHand(BatchesOf(e), batcher[e], q)
   BY <1>1, <1>2, <1>3, HeldFlow, HeldRetries DEF HeldOf
 <2>3. batcher' = [batcher EXCEPT ![e] = batcher[e]] /\ stored' \subseteq Batches
   BY <1>2, <2>1 DEF FlowInv
 <2> QED BY <1>2, <2>1, <2>2, <2>3, SamePhase, SameMoves
<1>4. CASE ~(p.attempt < Attempts)
 <2>1. Becomes(e, Disabled(batcher[e]))
   BY <1>1, <1>4 DEF BatchFails
 <2> QED BY <1>2, <2>1, BatcherOf, DisabledGoesOn, SamePhase, BecomesMoves
<1> QED BY <1>3, <1>4

LEMMA FlowStart == ASSUME FlowInv, NEW e \in Deliveries, StartExecution(e) PROVE FlowInv'
<1>1. /\ phase[e] = "idle" /\ phase' = [phase EXCEPT ![e] = "running"]
      /\ UNCHANGED <<batcher, publisher, stored>>
  BY DEF StartExecution
<1>2. InHand(BatchesOf(e), batcher[e], publisher[e])
  BY <1>1, HeldFlow DEF HeldOf
<1>3. /\ batcher' = [batcher EXCEPT ![e] = batcher[e]] /\ stored' \subseteq Batches
      /\ publisher' = [publisher EXCEPT ![e] = publisher[e]]
  BY <1>1 DEF FlowInv
<1> QED BY <1>1, <1>2, <1>3, SameMoves

\* A batcher that is gone takes no part; what it stored stays as it is.
LEMMA FlowEnds == ASSUME FlowInv, NEW e \in Deliveries, Answer(e) \/ Abandon(e) PROVE FlowInv'
<1>1. /\ phase' = [phase EXCEPT ![e] = "over"] /\ UNCHANGED stored
      /\ batcher' = [batcher EXCEPT ![e] = FreshBatcher]
      /\ publisher' = [publisher EXCEPT ![e] = FreshPublisher]
  BY DEF Answer, Abandon
<1>2. FlowOK(FreshBatcher, FreshPublisher)
  BY HeldStart DEF InHand
<1>3. /\ batcher'[e] = FreshBatcher /\ publisher'[e] = FreshPublisher /\ phase'[e] = "over"
      /\ \A d \in Deliveries \ {e} : batcher'[d] = batcher[d] /\ publisher'[d] = publisher[d]
                                     /\ phase'[d] = phase[d]
  BY <1>1 DEF FlowInv
<1>4. /\ phase' \in [Deliveries -> {"idle", "running", "closing", "over"}]
      /\ DOMAIN batcher' = Deliveries /\ DOMAIN publisher' = Deliveries
      /\ stored' \subseteq Batches
  BY <1>1 DEF FlowInv
<1>5. /\ batcher' = [d \in Deliveries |-> batcher'[d]]
      /\ publisher' = [d \in Deliveries |-> publisher'[d]]
  BY <1>1 DEF FlowInv
<1>6. ASSUME NEW d \in Deliveries
      PROVE  (StoredOK(BatchesOf(d)) /\ FlowOK(batcher[d], publisher[d]) /\ Moved(d))'
 <2>1. StoredOK(BatchesOf(d)')
   BY <1>1, SameStored DEF FlowInv
 <2>2. CASE d = e
   BY <1>2, <1>3, <2>1, <2>2 DEF Moved
 <2>3. CASE d # e
   BY ZenonT(60), <1>1, <1>3, <2>1, <2>3, SameStored DEF FlowInv, Moved
 <2> QED BY <2>2, <2>3
<1> QED BY <1>4, <1>5, <1>6 DEF FlowInv

FlowVars == <<phase, batcher, publisher, stored>>

LEMMA FlowStays == ASSUME FlowInv, UNCHANGED FlowVars PROVE FlowInv'
  BY SameStored DEF FlowInv, FlowVars, Moved

LEMMA FlowStep == FlowInv /\ [ProgressNext]_progressVars => FlowInv'
<1> SUFFICES ASSUME FlowInv, [ProgressNext]_progressVars PROVE FlowInv'
  OBVIOUS
<1>1. CASE UNCHANGED FlowVars
  BY <1>1, FlowStays
<1>2. ASSUME NEW e \in Deliveries, ConsumeResult(e) PROVE FlowInv'
  BY <1>2, FlowStays DEF ConsumeResult, FlowVars
<1>3. ASSUME NEW m \in stored, ConsumeProgress(m) PROVE FlowInv'
  BY <1>3, FlowStays DEF ConsumeProgress, FlowVars
<1>4. CASE GiveUp
  BY <1>4, FlowStays DEF GiveUp, FlowVars
<1>5. CASE UNCHANGED progressVars
  BY <1>5, FlowStays DEF progressVars, FlowVars
<1> QED BY <1>2, <1>3, <1>4, <1>5, FlowStart, FlowAdd, FlowTimer, FlowClose, FlowTake, FlowSend,
           FlowAcknowledged, FlowFails, FlowDrain, FlowEnds DEF ProgressNext

LEMMA FlowInit == ProgressInit => FlowInv
<1> SUFFICES ASSUME ProgressInit PROVE FlowInv
  OBVIOUS
<1>1. stored = {} /\ \A e \in Deliveries : BatchesOf(e) = {}
  BY DEF ProgressInit, BatchesOf
<1>2. ASSUME NEW e \in Deliveries
      PROVE  StoredOK(BatchesOf(e)) /\ FlowOK(batcher[e], publisher[e]) /\ Moved(e)
 <2>1. batcher[e] = FreshBatcher /\ publisher[e] = FreshPublisher
   BY DEF ProgressInit
 <2> QED BY <1>1, <2>1, HeldStart DEF InHand, Moved
<1>3. /\ phase \in [Deliveries -> {"idle", "running", "closing", "over"}]
      /\ DOMAIN batcher = Deliveries /\ DOMAIN publisher = Deliveries
  BY DEF ProgressInit
<1>4. /\ batcher = [e \in Deliveries |-> batcher[e]]
      /\ publisher = [e \in Deliveries |-> publisher[e]]
  BY DEF ProgressInit
<1> QED BY <1>1, <1>2, <1>3, <1>4 DEF FlowInv

----
(* What the job shows.                                                     *)

\* The events shown of the stored batches M of one execution.
ShowsOf(M, s) ==
    /\ s.events \in Seq(Events) /\ s.events # <<>> /\ Rises(s.events)
    /\ s.batch \in Nat /\ s.truncated \in Nat
    /\ s.last = s.events[Len(s.events)].sequence
    /\ \A i \in DOMAIN s.events :
          /\ s.truncated < s.events[i].sequence
          /\ \E m \in M : m.batch <= s.batch /\ s.events[i] \in ToSet(m.events)
    /\ \E m \in M : m.batch = s.batch /\ Last(m.events) = Last(s.events)
    /\ Len(s.events) <= MaxShown /\ SizeOf(s.events) <= MaxShownSize

ShownInv ==
    \/ shown = NoProgress
    \/ shown.execution \in Deliveries /\ ShowsOf(BatchesOf(shown.execution), shown)

\* The last event alone fits, so there is a first that does.
LEMMA FirstIsKept ==
    ASSUME NEW s \in Seq(Events), s # <<>>
    PROVE  FirstKept(s) \in 1..Len(s) /\ Fits(s, FirstKept(s))
<1>1. PICK n : n = Len(s)
  OBVIOUS
<1>2. n \in Nat /\ n >= 1 /\ DOMAIN s = 1..n
  BY <1>1, EmptySeq, LenProperties
<1>3. s[n] \in Events
  BY <1>2, ElementOfSeq
<1>4. PICK k : k = SubSeq(s, n, n)
  OBVIOUS
<1>5. k \in Seq(Events) /\ Len(k) = n - n + 1 /\ \A i \in 1..(n - n + 1) : k[i] = s[n + i - 1]
 <2>1. \A i \in n..n : s[i] \in Events
   BY <1>3
 <2> QED BY <1>2, <1>4, <2>1, SubSeqProperties
<1>6. Len(k) = 1 /\ DOMAIN k = {1} /\ k[1] = s[n]
 <2>1. n - n + 1 = 1 /\ n + 1 - 1 = n
   BY <1>2
 <2> QED BY <1>5, <2>1, LenProperties
<1>7. SizeOf(k) = s[n].size /\ s[n].size <= MaxText
 <2>1. s[n].size \in Nat /\ s[n].size <= MaxText
   BY <1>3, ProgressAssumption DEF Events
 <2>2. k[1].size \in Nat
   BY <1>6, <2>1
 <2> QED BY <1>6, <2>1, <2>2, SizeOfOne
<1>8. s[n].size \in Nat /\ MaxText \in Nat /\ MaxShownSize \in Nat /\ MaxShownSize >= MaxText
      /\ MaxShown \in Nat /\ MaxShown >= 1
  BY <1>3, ProgressAssumption DEF Events
<1>9. Fits(s, n)
  BY <1>1, <1>4, <1>6, <1>7, <1>8 DEF Fits
<1> DEFINE T == {i \in 1..n : Fits(s, i)}
<1>10. T \in SUBSET Nat /\ n \in T
  BY <1>2, <1>9
<1> HIDE DEF T
<1>11. PICK f \in T : \A j \in T : f <= j
  BY <1>10, LeastNatural
<1>12. f \in 1..n /\ Fits(s, f)
  BY <1>11 DEF T
<1>13. \A j \in 1..(f - 1) : ~Fits(s, j)
 <2> SUFFICES ASSUME NEW j \in 1..(f - 1), Fits(s, j) PROVE FALSE
   OBVIOUS
 <2>1. j \in 1..n /\ j < f
   BY <1>2, <1>12
 <2>2. j \in T
   BY <2>1 DEF T
 <2> QED BY <1>10, <1>11, <2>1, <2>2
<1>14. \E i \in 1..Len(s) : Fits(s, i) /\ \A j \in 1..(i - 1) : ~Fits(s, j)
  BY <1>1, <1>12, <1>13
<1> QED BY <1>14 DEF FirstKept

\* What is kept of events in order is their end k, from f on; the event before lies below.
EndOf(s, f, k) ==
    /\ f \in 1..Len(s)
    /\ k \in Seq(Events) /\ k # <<>> /\ Rises(k)
    /\ k[Len(k)] = s[Len(s)] /\ Last(k) = Last(s)
    /\ Len(k) <= MaxShown /\ SizeOf(k) <= MaxShownSize
    /\ \A i \in DOMAIN k : \E j \in DOMAIN s :
          k[i] = s[j] /\ (f > 1 => s[f - 1].sequence < s[j].sequence)
    /\ f > 1 => f - 1 \in DOMAIN s

LEMMA KeptOf ==
    ASSUME NEW s \in Seq(Events), s # <<>>, Rises(s),
           NEW f, f = FirstKept(s), NEW k, k = SubSeq(s, f, Len(s))
    PROVE  EndOf(s, f, k)
<1>1. PICK n, l : n = Len(s) /\ l = Len(k)
  OBVIOUS
<1>2. n \in Nat /\ n >= 1 /\ DOMAIN s = 1..n
  BY <1>1, EmptySeq, LenProperties
<1>3. f \in 1..n /\ Fits(s, f)
  BY <1>1, FirstIsKept
<1>4. /\ k \in Seq(Events) /\ l = n - f + 1 /\ \A i \in 1..l : k[i] = s[f + i - 1]
 <2>1. \A i \in f..n : s[i] \in Events
   BY <1>2, <1>3, ElementOfSeq
 <2>2. k = SubSeq(s, f, n)
   BY <1>1
 <2> QED BY <1>1, <1>2, <1>3, <2>1, <2>2, SubSeqProperties
<1>5. l \in Nat /\ l >= 1 /\ DOMAIN k = 1..l
  BY <1>1, <1>2, <1>3, <1>4, LenProperties
<1>6. ASSUME NEW i \in 1..l PROVE f + i - 1 \in 1..n /\ k[i] = s[f + i - 1]
  BY <1>2, <1>3, <1>4
<1>7. k # <<>>
 <2>1. 1 \in DOMAIN k
   BY <1>5
 <2>2. DOMAIN <<>> = {}
   OBVIOUS
 <2> QED BY <2>1, <2>2
<1>8. k[l] = s[n] /\ Last(k) = k[l] /\ Last(s) = s[n]
 <2>1. f + l - 1 = n
   BY <1>2, <1>3, <1>4
 <2> QED BY <1>1, <1>4, <1>5, <2>1 DEF Last
<1>9. Rises(k)
 <2> SUFFICES ASSUME NEW i \in 1..l, NEW j \in 1..l, i < j
              PROVE  k[i].sequence < k[j].sequence
   BY <1>5 DEF Rises
 <2>1. f + i - 1 < f + j - 1
   BY <1>3
 <2> QED BY <1>2, <1>6, <2>1 DEF Rises
<1>10. ASSUME NEW i \in DOMAIN k
       PROVE  \E j \in DOMAIN s :
                 k[i] = s[j] /\ (f > 1 => s[f - 1].sequence < s[j].sequence)
 <2>1. f + i - 1 \in DOMAIN s /\ k[i] = s[f + i - 1]
   BY <1>2, <1>5, <1>6
 <2>2. ASSUME f > 1 PROVE s[f - 1].sequence < s[f + i - 1].sequence
  <3>1. f - 1 \in DOMAIN s /\ f - 1 < f + i - 1
    BY <1>2, <1>3, <1>5, <2>2
  <3> QED BY <2>1, <3>1 DEF Rises
 <2> QED BY <2>1, <2>2
<1>11. f > 1 => f - 1 \in DOMAIN s
  BY <1>2, <1>3
<1>12. Len(k) <= MaxShown /\ SizeOf(k) <= MaxShownSize
  BY <1>3 DEF Fits
<1> QED BY <1>1, <1>3, <1>4, <1>7, <1>8, <1>9, <1>10, <1>11, <1>12 DEF EndOf

\* Events put behind those they lie above.
LEMMA Together ==
    ASSUME NEW s \in Seq(Events), NEW t \in Seq(Events), Rises(s), Rises(t), Below(s, t), t # <<>>
    PROVE  /\ s \o t \in Seq(Events) /\ s \o t # <<>> /\ Rises(s \o t) /\ Last(s \o t) = Last(t)
           /\ (s \o t)[Len(s \o t)] = t[Len(t)]
           /\ \A i \in DOMAIN (s \o t) :
                 \/ \E j \in DOMAIN s : (s \o t)[i] = s[j]
                 \/ \E j \in DOMAIN t : (s \o t)[i] = t[j]
<1>1. PICK n, m, c : n = Len(s) /\ m = Len(t) /\ c = s \o t
  OBVIOUS
<1>2. /\ n \in Nat /\ m \in Nat /\ m >= 1 /\ DOMAIN s = 1..n /\ DOMAIN t = 1..m
  BY <1>1, EmptySeq, LenProperties
<1>3. /\ c \in Seq(Events) /\ Len(c) = n + m
      /\ \A i \in 1..(n + m) : c[i] = IF i <= n THEN s[i] ELSE t[i - n]
  BY <1>1, <1>2, ConcatProperties, LenProperties
<1>4. DOMAIN c = 1..(n + m)
  BY <1>3, LenProperties
<1>5. ASSUME NEW i \in DOMAIN c
      PROVE  \/ i \in DOMAIN s /\ c[i] = s[i]
             \/ i - n \in DOMAIN t /\ c[i] = t[i - n] /\ i > n
  BY <1>2, <1>3, <1>4
<1>6. c # <<>>
  BY <1>2, <1>3
<1>7. c[n + m] = t[m] /\ Last(c) = c[n + m] /\ Last(t) = t[m]
  BY <1>1, <1>2, <1>3 DEF Last
<1>8. Rises(c)
 <2> SUFFICES ASSUME NEW i \in DOMAIN c, NEW j \in DOMAIN c, i < j
              PROVE  c[i].sequence < c[j].sequence
   BY DEF Rises
 <2>1. CASE j \in DOMAIN s /\ c[j] = s[j]
  <3>1. i \in DOMAIN s /\ c[i] = s[i]
    BY <1>2, <1>3, <1>4, <2>1
  <3> QED BY <2>1, <3>1 DEF Rises
 <2>2. CASE j - n \in DOMAIN t /\ c[j] = t[j - n]
  <3>1. CASE i \in DOMAIN s /\ c[i] = s[i]
    BY <2>2, <3>1 DEF Below
  <3>2. CASE i - n \in DOMAIN t /\ c[i] = t[i - n]
   <4>1. i - n < j - n
     BY <1>2, <1>4
   <4> QED BY <2>2, <3>2, <4>1 DEF Rises
  <3> QED BY <1>5, <3>1, <3>2
 <2> QED BY <1>5, <2>1, <2>2
<1> QED BY <1>1, <1>3, <1>5, <1>6, <1>7, <1>8

\* A batch the consumer accepts: what is shown of its execution, or nothing, is followed by it.
LEMMA MergedShows ==
    ASSUME FlowInv, ShownInv, NEW message \in stored, ConsumeProgress(message)
    PROVE  ShownInv'
<1>1. PICK e, M, t, s : /\ e = message.execution /\ M = BatchesOf(e) /\ t = message.events
                        /\ s = Merged(message)
  OBVIOUS
<1>2. UNCHANGED stored /\ shown' = s /\ Accepts(message)
  BY <1>1 DEF ConsumeProgress
<1>3. e \in Deliveries /\ message \in M /\ StoredOK(M)
  BY <1>1 DEF FlowInv, Batches, BatchesOf
<1>4. t \in Seq(Events) /\ t # <<>> /\ Rises(t) /\ message.batch \in Nat
  BY <1>1, <1>3 DEF StoredOK, Batches
<1>5. PICK same : same = (shown.execution = e)
  OBVIOUS
<1>6. ASSUME same PROVE ShowsOf(M, shown) /\ message.batch > shown.batch /\ Head(t).sequence > shown.last
 <2>1. shown # NoProgress
  <3>1. NoProgress.execution = NoExecution /\ shown.execution = e
    BY <1>5, <1>6 DEF NoProgress
  <3> QED BY <1>3, <3>1, ProgressAssumption
 <2> QED BY <1>1, <1>2, <1>5, <1>6, <2>1 DEF Accepts, ShownInv
<1>7. PICK old : old = IF same THEN shown.events ELSE <<>>
  OBVIOUS
<1>8. PICK low : low = IF same THEN shown.truncated ELSE 0
  OBVIOUS
<1>9. PICK l : l = Len(t)
  OBVIOUS
<1>10. l \in Nat /\ l >= 1 /\ DOMAIN t = 1..l /\ Head(t) = t[1] /\ t[1].sequence \in Nat
  BY <1>4, <1>9, EmptySeq, LenProperties, Numbers
<1>11. ASSUME NEW j \in DOMAIN t
       PROVE  t[j].sequence \in Nat /\ t[j].sequence >= t[1].sequence /\ t[j].sequence > 0
 <2>1. t[j] \in Events
   BY <1>4, Numbers
 <2>2. t[j].sequence \in Nat /\ t[j].sequence > 0
   BY <2>1, ProgressAssumption DEF Events
 <2>3. j = 1 \/ 1 < j
   BY <1>10
 <2>4. 1 < j => t[1].sequence < t[j].sequence
   BY <1>4, <1>10 DEF Rises
 <2> QED BY <1>10, <2>2, <2>3, <2>4
<1>12. old \in Seq(Events) /\ Rises(old) /\ Below(old, t)
 <2>1. CASE ~same
   BY <1>7, <2>1, EmptySeq, NothingIsBelow
 <2>2. CASE same
  <3>1. old = shown.events /\ ShowsOf(M, shown)
    BY <1>6, <1>7, <2>2
  <3>2. PICK k : k = Len(old)
    OBVIOUS
  <3>3. k \in Nat /\ DOMAIN old = 1..k /\ shown.last = old[k].sequence
    BY <3>1, <3>2, LenProperties DEF ShowsOf
  <3>4. ASSUME NEW i \in DOMAIN old PROVE old[i].sequence \in Nat /\ old[i].sequence <= shown.last
   <4>1. old[i].sequence \in Nat /\ old[k].sequence \in Nat
     BY <3>1, <3>3, Numbers DEF ShowsOf
   <4>2. i = k \/ i < k
     BY <3>3
   <4>3. i < k => old[i].sequence < old[k].sequence
     BY <3>1, <3>3 DEF ShowsOf, Rises
   <4> QED BY <3>3, <4>1, <4>2, <4>3
  <3>5. ASSUME NEW i \in DOMAIN old, NEW j \in DOMAIN t PROVE old[i].sequence < t[j].sequence
   <4>1. t[1].sequence > shown.last /\ shown.last \in Nat
     BY <1>6, <1>10, <2>2, <3>1, <3>3, Numbers DEF ShowsOf
   <4> QED BY <1>10, <1>11, <3>4, <4>1
  <3> QED BY <3>1, <3>5 DEF ShowsOf, Below
 <2> QED BY <2>1, <2>2
<1>13. low \in Nat /\ \A i \in DOMAIN old : low < old[i].sequence
 <2>1. DOMAIN <<>> = {}
   OBVIOUS
 <2> QED BY <1>6, <1>7, <1>8, <2>1 DEF ShowsOf
<1>14. \A j \in DOMAIN t : low < t[j].sequence
 <2>1. CASE ~same
   BY <1>8, <1>11, <2>1
 <2>2. CASE same
  <3>1. PICK k : k = Len(old)
    OBVIOUS
  <3>2. old # <<>> /\ old \in Seq(Events)
    BY <1>6, <1>7, <2>2 DEF ShowsOf
  <3>3. k \in DOMAIN old
    BY <3>1, <3>2, EmptySeq, LenProperties
  <3>4. old[k].sequence \in Nat /\ low < old[k].sequence
    BY <1>13, <3>2, <3>3, Numbers
  <3>5. \A j \in DOMAIN t : old[k].sequence < t[j].sequence
    BY <1>12, <3>3 DEF Below
  <3> QED BY <1>11, <1>13, <3>4, <3>5
 <2> QED BY <2>1, <2>2
<1>15. PICK c : c = old \o t
  OBVIOUS
<1>16. /\ c \in Seq(Events) /\ c # <<>> /\ Rises(c) /\ Last(c) = Last(t) /\ c[Len(c)] = t[l]
       /\ \A i \in DOMAIN c : \/ \E j \in DOMAIN old : c[i] = old[j]
                              \/ \E j \in DOMAIN t : c[i] = t[j]
  BY <1>4, <1>9, <1>12, <1>15, Together
<1>17. PICK f, k : f = FirstKept(c) /\ k = SubSeq(c, f, Len(c))
  OBVIOUS
<1>18. /\ f \in 1..Len(c)
       /\ k \in Seq(Events) /\ k # <<>> /\ Rises(k)
       /\ k[Len(k)] = c[Len(c)] /\ Last(k) = Last(c)
       /\ Len(k) <= MaxShown /\ SizeOf(k) <= MaxShownSize
       /\ \A i \in DOMAIN k : \E j \in DOMAIN c :
             k[i] = c[j] /\ (f > 1 => c[f - 1].sequence < c[j].sequence)
       /\ f > 1 => f - 1 \in DOMAIN c
 <2>1. c \in Seq(Events) /\ c # <<>> /\ Rises(c)
   BY <1>16
 <2>2. EndOf(c, f, k)
   BY <1>17, <2>1, KeptOf
 <2> QED BY <2>2 DEF EndOf
<1>19. s = [execution |-> e, startedAt |-> startedAt[e], batch |-> message.batch,
            last |-> Last(t).sequence,
            truncated |-> IF f > 1 THEN c[f - 1].sequence ELSE low, events |-> k]
 <2>1. c = IF same THEN shown.events \o t ELSE t
  <3>1. <<>> \o t = t
    BY <1>4
  <3> QED BY <1>7, <1>15, <3>1
 <2>2. c = IF shown.execution = e THEN shown.events \o t ELSE t
   BY <1>5, <2>1
 <2>3. (IF f > 1 THEN c[f - 1].sequence ELSE low) =
           IF f > 1 THEN c[f - 1].sequence
           ELSE IF shown.execution = e THEN shown.truncated ELSE 0
   BY <1>5, <1>8
 <2> QED BY <1>1, <1>17, <2>2, <2>3 DEF Merged
<1>20. /\ s.execution = e /\ s.batch = message.batch /\ s.last = Last(t).sequence
       /\ s.truncated = (IF f > 1 THEN c[f - 1].sequence ELSE low) /\ s.events = k
  BY <1>19
<1>21. s.last = s.events[Len(s.events)].sequence
  BY <1>4, <1>9, <1>16, <1>18, <1>20 DEF Last
<1>22. s.truncated \in Nat
  BY <1>13, <1>16, <1>18, <1>20, Numbers
<1>23. ASSUME NEW i \in DOMAIN k
       PROVE  s.truncated < k[i].sequence
 <2>1. PICK j \in DOMAIN c : k[i] = c[j] /\ (f > 1 => c[f - 1].sequence < c[j].sequence)
   BY <1>18
 <2>2. low < c[j].sequence
   BY <1>13, <1>14, <1>16
 <2> QED BY <1>20, <2>1, <2>2
<1>24. ASSUME NEW i \in DOMAIN k
       PROVE  \E m \in M : m.batch <= s.batch /\ k[i] \in ToSet(m.events)
 <2>1. PICK j \in DOMAIN c : k[i] = c[j]
   BY <1>18
 <2>2. CASE \E h \in DOMAIN t : c[j] = t[h]
  <3>1. k[i] \in ToSet(message.events)
    BY <1>1, <2>1, <2>2 DEF ToSet
  <3> QED BY <1>3, <1>4, <1>20, <3>1
 <2>3. CASE \E h \in DOMAIN old : c[j] = old[h]
  <3>1. PICK h \in DOMAIN old : c[j] = old[h]
    BY <2>3
  <3>2. same
   <4>1. DOMAIN <<>> = {}
     OBVIOUS
   <4> QED BY <1>7, <3>1, <4>1
  <3>3. h \in DOMAIN shown.events /\ k[i] = shown.events[h]
    BY <1>7, <2>1, <3>1, <3>2
  <3>4. PICK m \in M : m.batch <= shown.batch /\ k[i] \in ToSet(m.events)
    BY <1>6, <3>2, <3>3 DEF ShowsOf
  <3>5. m.batch \in Nat /\ shown.batch \in Nat
    BY <1>3, <1>6, <3>2 DEF StoredOK, Batches, ShowsOf
  <3>6. m.batch <= s.batch
    BY <1>4, <1>6, <1>20, <3>2, <3>4, <3>5
  <3> QED BY <3>4, <3>6
 <2> QED BY <1>16, <2>2, <2>3
<1>25. \E m \in M : m.batch = s.batch /\ Last(m.events) = Last(s.events)
  BY <1>1, <1>3, <1>16, <1>18, <1>20
<1>26. ShowsOf(M, s)
  BY <1>4, <1>18, <1>20, <1>21, <1>22, <1>23, <1>24, <1>25 DEF ShowsOf
<1>27. BatchesOf(e)' = M
  BY <1>1, <1>2 DEF BatchesOf
<1> QED BY <1>2, <1>3, <1>20, <1>26, <1>27 DEF ShownInv

\* More may be stored meanwhile; what is shown stays covered.
LEMMA ShowsMore ==
    ASSUME NEW M, NEW N, M \subseteq N, NEW s, ShowsOf(M, s)
    PROVE  ShowsOf(N, s)
  BY DEF ShowsOf

LEMMA ShownStays ==
    ASSUME ShownInv, UNCHANGED shown, stored \subseteq stored'
    PROVE  ShownInv'
<1>1. \A e : BatchesOf(e) \subseteq BatchesOf(e)'
  BY DEF BatchesOf
<1>2. CASE shown = NoProgress
  BY <1>2 DEF ShownInv
<1>3. CASE shown.execution \in Deliveries /\ ShowsOf(BatchesOf(shown.execution), shown)
 <2>1. PICK e, s : s = shown /\ e = shown.execution
   OBVIOUS
 <2>2. BatchesOf(e) \subseteq BatchesOf(e)' /\ ShowsOf(BatchesOf(e), s) /\ e \in Deliveries
   BY <1>1, <1>3, <2>1
 <2>3. ShowsOf(BatchesOf(e)', s)
   BY <2>2, ShowsMore
 <2>4. shown' = s /\ shown'.execution = e
   BY <2>1
 <2> QED BY <2>2, <2>3, <2>4 DEF ShownInv
<1> QED BY <1>2, <1>3 DEF ShownInv

LEMMA ShownStep == FlowInv /\ ShownInv /\ [ProgressNext]_progressVars => ShownInv'
<1> SUFFICES ASSUME FlowInv, ShownInv, [ProgressNext]_progressVars PROVE ShownInv'
  OBVIOUS
<1>1. ASSUME NEW e \in Deliveries,
             \/ StartExecution(e) \/ AddEvent(e) \/ TimerFires(e) \/ CloseBatcher(e) \/ TakeBatch(e)
             \/ BatchAcknowledged(e) \/ BatchFails(e) \/ DrainTimesOut(e) \/ Answer(e) \/ Abandon(e)
      PROVE  UNCHANGED <<shown, stored>>
  BY <1>1 DEF StartExecution, AddEvent, TimerFires, CloseBatcher, TakeBatch, BatchAcknowledged,
              BatchFails, DrainTimesOut, Answer, Abandon
<1>2. ASSUME NEW e \in Deliveries, SendBatch(e) PROVE UNCHANGED shown /\ stored \subseteq stored'
  BY <1>2 DEF SendBatch
<1>3. ASSUME NEW e \in Deliveries, ConsumeResult(e) PROVE ShownInv'
 <2>1. UNCHANGED stored /\ (shown' = shown \/ shown' = NoProgress)
   BY <1>3 DEF ConsumeResult, Kept
 <2> QED BY <2>1, ShownStays DEF ShownInv
<1>4. ASSUME NEW message \in stored, ConsumeProgress(message) PROVE ShownInv'
  BY <1>4, MergedShows
<1>5. CASE GiveUp \/ UNCHANGED progressVars
  BY <1>5, ShownStays DEF GiveUp, progressVars
<1> QED BY <1>1, <1>2, <1>3, <1>4, <1>5, ShownStays DEF ProgressNext

\* What is started, and which execution's result ended the job.
EndType ==
    /\ startedAt \in [Deliveries -> Clock] /\ answers \subseteq Deliveries
    /\ active \in BOOLEAN /\ endedBy \in Deliveries \cup {NoExecution}

LEMMA EndTypeStep == EndType /\ [ProgressNext]_progressVars => EndType'
<1> SUFFICES ASSUME EndType, [ProgressNext]_progressVars PROVE EndType'
  OBVIOUS
<1> USE DEF EndType
<1>1. ASSUME NEW e \in Deliveries,
             \/ StartExecution(e) \/ AddEvent(e) \/ TimerFires(e) \/ CloseBatcher(e) \/ TakeBatch(e)
             \/ BatchAcknowledged(e) \/ BatchFails(e) \/ DrainTimesOut(e) \/ SendBatch(e) \/ Abandon(e)
      PROVE  UNCHANGED <<startedAt, answers, active, endedBy>>
  BY <1>1 DEF StartExecution, AddEvent, TimerFires, CloseBatcher, TakeBatch, BatchAcknowledged,
              BatchFails, DrainTimesOut, SendBatch, Abandon
<1>2. ASSUME NEW e \in Deliveries, Answer(e) \/ ConsumeResult(e) PROVE EndType'
  BY <1>2 DEF Answer, ConsumeResult
<1>3. ASSUME NEW message \in stored, ConsumeProgress(message) PROVE EndType'
  BY <1>3 DEF ConsumeProgress
<1>4. CASE GiveUp \/ UNCHANGED progressVars
  BY <1>4 DEF GiveUp, progressVars
<1> QED BY <1>1, <1>2, <1>3, <1>4 DEF ProgressNext

ProgressInv == FlowInv /\ ShownInv /\ EndType

LEMMA ProgressInvariant == ProgressSpec => []ProgressInv
<1>1. ProgressInit => ProgressInv
  BY FlowInit DEF ProgressInit, ProgressInv, ShownInv, EndType
<1>2. ProgressInv /\ [ProgressNext]_progressVars => ProgressInv'
  BY FlowStep, ShownStep, EndTypeStep DEF ProgressInv
<1> QED BY <1>1, <1>2, PTL DEF ProgressSpec

LEMMA FlowTypes ==
    ASSUME FlowInv, NEW e \in Deliveries
    PROVE  LET b == batcher[e] p == publisher[e]
           IN  /\ b.pending \in Seq(Events) /\ Len(b.pending) <= MaxPending
               /\ b.next \in 1..(MaxEvents + MaxDelta + 1)
               /\ b.queue \in Seq(Seq(Events)) /\ Len(b.queue) <= MaxQueued
               /\ b.timer \in BOOLEAN /\ b.disabled \in BOOLEAN
               /\ p.pieces \in Seq(Seq(Events))
               /\ p.attempt \in 0..Attempts /\ p.wire \in {"none", "stored", "lost"}
               /\ p.batch \in Nat \ {0} /\ p.done \in BOOLEAN
<1>1. PICK b, p : b = batcher[e] /\ p = publisher[e]
  OBVIOUS
<1>2. BatcherOK(b) /\ b \in Batchers /\ p \in Publishers
  BY <1>1 DEF FlowInv, FlowOK, BatcherOK
<1>3. b.next \in 1..(MaxEvents + MaxDelta + 1)
  BY <1>2, ProgressAssumption DEF BatcherOK, Batchers
<1> QED BY <1>1, <1>2, <1>3 DEF BatcherOK, Batchers, Publishers

LEMMA ProgressTypes == ProgressInv => ProgressTypeOK
<1> SUFFICES ASSUME ProgressInv PROVE ProgressTypeOK
  OBVIOUS
<1>1. FlowInv /\ ShownInv /\ EndType
  BY DEF ProgressInv
<1>2. /\ shown.execution \in Deliveries \cup {NoExecution}
      /\ Len(shown.events) <= MaxShown /\ SizeOf(shown.events) <= MaxShownSize
 <2>1. CASE shown = NoProgress
  <3>1. shown.execution = NoExecution /\ shown.events = <<>> /\ Len(<<>>) = 0
    BY <2>1 DEF NoProgress
  <3> QED BY <3>1, SizeOfNone, ProgressAssumption
 <2>2. CASE shown.execution \in Deliveries /\ ShowsOf(BatchesOf(shown.execution), shown)
   BY <2>2 DEF ShowsOf
 <2> QED BY <1>1, <2>1, <2>2 DEF ShownInv
<1> QED BY <1>1, <1>2, FlowTypes DEF ProgressTypeOK, FlowInv, EndType

LEMMA ProgressGapless == ProgressInv => BatchesHaveNoGap
<1> SUFFICES ASSUME ProgressInv, NEW e \in Deliveries
             PROVE  /\ \A m \in BatchesOf(e) : \A n \in 1..m.batch :
                          \E k \in BatchesOf(e) : k.batch = n
                    /\ \A m, k \in BatchesOf(e) :
                          m.batch < k.batch => Last(m.events).sequence < Head(k.events).sequence
  BY DEF BatchesHaveNoGap
<1>1. StoredOK(BatchesOf(e))
  BY DEF ProgressInv, FlowInv
<1>2. ASSUME NEW m \in BatchesOf(e), NEW k \in BatchesOf(e), m.batch < k.batch
      PROVE  Last(m.events).sequence < Head(k.events).sequence
 <2>1. Below(m.events, k.events)
   BY <1>1, <1>2 DEF StoredOK
 <2>2. ASSUME NEW s \in Seq(Events), s # <<>>
       PROVE  /\ Len(s) \in DOMAIN s /\ 1 \in DOMAIN s
              /\ Last(s) = s[Len(s)] /\ Head(s) = s[1]
   BY <2>2, EmptySeq, LenProperties DEF Last
 <2>3. /\ m.events \in Seq(Events) /\ m.events # <<>>
       /\ k.events \in Seq(Events) /\ k.events # <<>>
   BY <1>1 DEF StoredOK, Batches
 <2> QED BY <2>1, <2>2, <2>3 DEF Below
<1> QED BY <1>1, <1>2 DEF StoredOK

LEMMA ProgressInOrder == ProgressInv => ShownIsInOrder
<1> SUFFICES ASSUME ProgressInv, shown # NoProgress PROVE ShownIsInOrder
  BY DEF ShownIsInOrder
<1>1. PICK M : M = BatchesOf(shown.execution)
  OBVIOUS
<1>2. ShowsOf(M, shown)
  BY <1>1 DEF ProgressInv, ShownInv
<1>3. PICK sent : sent = {m \in M : m.batch <= shown.batch}
  OBVIOUS
<1>4. ASSUME NEW i \in DOMAIN shown.events
      PROVE  /\ \E m \in sent : shown.events[i] \in ToSet(m.events)
             /\ shown.events[i].sequence > shown.truncated
             /\ \A j \in 1..(i - 1) : shown.events[j].sequence < shown.events[i].sequence
 <2>1. \E m \in sent : shown.events[i] \in ToSet(m.events)
   BY <1>2, <1>3 DEF ShowsOf
 <2>2. PICK s : s = shown.events
   OBVIOUS
 <2>3. s \in Seq(Events) /\ Rises(s) /\ i \in DOMAIN s
   BY <1>2, <2>2 DEF ShowsOf
 <2>4. \A j \in 1..(i - 1) : j \in DOMAIN s /\ j < i
  <3>1. PICK n : n = Len(s)
    OBVIOUS
  <3>2. n \in Nat /\ DOMAIN s = 1..n
    BY <2>3, <3>1, LenProperties
  <3> QED BY <2>3, <3>2
 <2>5. \A j \in 1..(i - 1) : s[j].sequence < s[i].sequence
   BY <2>3, <2>4 DEF Rises
 <2>6. s[i].sequence > shown.truncated
  <3>1. s[i].sequence \in Nat /\ shown.truncated \in Nat /\ shown.truncated < s[i].sequence
    BY <1>2, <2>2, <2>3, Numbers DEF ShowsOf
  <3> QED BY <3>1
 <2> QED BY <2>1, <2>2, <2>5, <2>6
<1>5. \E m \in sent : m.batch = shown.batch /\ Last(m.events) = Last(shown.events)
 <2>1. PICK m \in M : m.batch = shown.batch /\ Last(m.events) = Last(shown.events)
   BY <1>2 DEF ShowsOf
 <2>2. m.batch <= shown.batch
   BY <1>2, <2>1 DEF ShowsOf
 <2> QED BY <1>3, <2>1, <2>2
<1> QED BY <1>1, <1>3, <1>4, <1>5 DEF ShownIsInOrder

----
(* An execution whose result is on the subject is over, and what a job     *)
(* shows is fixed when a result ends it.                                   *)

AnsweredAreOver == \A e \in answers : e \in Deliveries /\ phase[e] = "over"
PhaseType == phase \in [Deliveries -> {"idle", "running", "closing", "over"}]
EndedIsShown == endedBy # NoExecution => ~active /\ shown.execution \in {endedBy, NoExecution}
LastInv == AnsweredAreOver /\ PhaseType /\ EndedIsShown

LEMMA LastStep == LastInv /\ [ProgressNext]_progressVars => LastInv'
<1> SUFFICES ASSUME LastInv, [ProgressNext]_progressVars PROVE LastInv'
  OBVIOUS
<1> USE DEF LastInv, AnsweredAreOver, PhaseType, EndedIsShown
<1>1. ASSUME NEW e \in Deliveries, StartExecution(e) PROVE LastInv'
  BY <1>1 DEF StartExecution
<1>2. ASSUME NEW e \in Deliveries, AddEvent(e) \/ TimerFires(e) PROVE LastInv'
  BY <1>2 DEF AddEvent, TimerFires
<1>3. ASSUME NEW e \in Deliveries, CloseBatcher(e) PROVE LastInv'
  BY <1>3 DEF CloseBatcher
<1>4. ASSUME NEW e \in Deliveries, TakeBatch(e) \/ SendBatch(e) \/ BatchAcknowledged(e) PROVE LastInv'
  BY <1>4 DEF TakeBatch, SendBatch, BatchAcknowledged
<1>5. ASSUME NEW e \in Deliveries, BatchFails(e) \/ DrainTimesOut(e) PROVE LastInv'
  BY <1>5 DEF BatchFails, DrainTimesOut
<1>6. ASSUME NEW e \in Deliveries, Answer(e) \/ Abandon(e) PROVE LastInv'
  BY <1>6 DEF Answer, Abandon
<1>7. ASSUME NEW e \in Deliveries, ConsumeResult(e) PROVE LastInv'
 <2>1. Kept(e).execution \in {e, NoExecution}
   BY DEF Kept, NoProgress
 <2> QED BY <1>7, <2>1 DEF ConsumeResult
<1>8. ASSUME NEW message \in stored, ConsumeProgress(message) PROVE LastInv'
  BY <1>8 DEF ConsumeProgress, Accepts
<1>9. CASE GiveUp
  BY <1>9 DEF GiveUp
<1>10. CASE UNCHANGED progressVars
  BY <1>10 DEF progressVars
<1> QED BY <1>1, <1>2, <1>3, <1>4, <1>5, <1>6, <1>7, <1>8, <1>9, <1>10 DEF ProgressNext

LEMMA LastInvariant == ProgressSpec => []LastInv
<1>1. ProgressInit => LastInv
  BY DEF ProgressInit, LastInv, AnsweredAreOver, PhaseType, EndedIsShown
<1> QED BY <1>1, LastStep, PTL DEF ProgressSpec

\* Only a running or a closing execution stores a batch, and its own.
LEMMA StoredByRunning ==
    ASSUME LastInv, [ProgressNext]_progressVars
    PROVE  \A m \in stored' \ stored : phase[m.execution] \in {"running", "closing"}
<1>1. CASE \E e \in Deliveries : SendBatch(e)
  BY <1>1 DEF SendBatch
<1>2. CASE ~\E e \in Deliveries : SendBatch(e)
 <2>1. UNCHANGED stored
   BY <1>2 DEF ProgressNext, progressVars, StartExecution, AddEvent, TimerFires, CloseBatcher,
               TakeBatch, BatchAcknowledged, BatchFails, DrainTimesOut, Answer, Abandon,
               ConsumeResult, ConsumeProgress, GiveUp
 <2> QED BY <2>1
<1> QED BY <1>1, <1>2

LEMMA ProgressShown == ProgressInv /\ LastInv => ShownIsOneExecution
<1>1. LastInv => EndedJobShowsItsExecution
  BY DEF LastInv, EndedIsShown, EndedJobShowsItsExecution
<1> QED BY <1>1, ProgressGapless, ProgressInOrder DEF ShownIsOneExecution

----
(* Theorems.                                                               *)

\* For any deliveries, limits and events the batchers, publishers, batches and the
\* snapshot are well typed: no queue and no snapshot passes its limit.
THEOREM ProgressTypeCorrect == ProgressSpec => []ProgressTypeOK
  BY ProgressInvariant, ProgressTypes, PTL

\* However batches are halved, retried, repeated, reordered and delayed, and whatever of
\* them a full queue or a failing stream loses (_PiAgentProgressBatcher, _publish_events,
\* apply_progress_batch): the stream has the batches of an execution without a gap and in
\* order, and a job shows events of one execution, in order, the last of them of the batch
\* it names, and of the execution whose result ended it.
THEOREM ShownCorrect == ProgressSpec => []ShownIsOneExecution
  BY ProgressInvariant, LastInvariant, ProgressShown, PTL

\* No batch of an execution reaches the subject after its result
\* (_PiAgentProgressBatcher.close before the result is published), for any number of
\* deliveries of the request, lost acknowledgements and retries: who consumes the
\* subject in order has seen all of the progress when the result comes.
THEOREM ResultStandsLast == ProgressSpec => ResultIsLast
<1>1. LastInv /\ [ProgressNext]_progressVars
          => [\A e \in answers : \A m \in stored' \ stored : m.execution # e]_progressVars
  BY StoredByRunning DEF LastInv, AnsweredAreOver
<1> QED BY <1>1, LastInvariant, PTL DEF ProgressSpec, ResultIsLast

=============================================================================
