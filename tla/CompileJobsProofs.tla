-------------------------- MODULE CompileJobsProofs --------------------------
(***************************************************************************)
(* Theorems about the compile pipeline, for any sets of jobs and replicas  *)
(* and any value of the bounds.                                            *)
(***************************************************************************)
EXTENDS CompileJobs, FiniteSetTheorems, TLAPS

----
(* Operators.                                                              *)

LEMMA FlushType ==
    ASSUME NEW db \in Rows, NEW read \in Rows, NEW new \in Rows
    PROVE  Flush(db, read, new) \in Rows
BY DEF Flush, Column, Rows

LEMMA NewRowType ==
    /\ Dispatched \in Rows /\ PublishPending \in Rows
    /\ \A status \in Terminal, code \in Codes : Finished(status, code) \in Rows
BY DEF Dispatched, PublishPending, Finished, Rows, Statuses, Codes, Terminal

LEMMA RetainedType ==
    ASSUME NEW s \in [Jobs -> Nat]
    PROVE  Retained(s) \in [Jobs -> Nat]
BY DEF Retained

LEMMA BilledType ==
    ASSUME TypeOK, NEW j \in Jobs, NEW status \in Terminal
    PROVE  Billed(j, status) \in [Jobs -> {"none"} \cup Terminal]
BY DEF Billed, TypeOK

----
(* The induction.  A result is being applied only while its message is     *)
(* held: without that, TypeOK is not inductive, because the end of an      *)
(* application rewrites the task of the message.                           *)

Linked ==
    \A r \in Replicas :
        segment[r].task = "apply" =>
            duty[r].task = "apply" /\ duty[r].msg.job = segment[r].job

----
(* Types.                                                                  *)

LEMMA InitType == Init => TypeOK
BY DEF Init, TypeOK, Ages, AbsentRow, Rows, Statuses, Codes, SubmitStates,
       Segments, NoSegment, Duties, Idle

LEMMA StoreType ==
    ASSUME TypeOK, NEW j \in Jobs, StoreRequest(j)
    PROVE  requests' \subseteq Requests /\ window' \subseteq Jobs
BY ConstantsAssumption DEF StoreRequest, TypeOK, Requests

LEMMA EndpointType ==
    ASSUME TypeOK, NEW j \in Jobs, Endpoint(j)
    PROVE  TypeOK'
<1>1. CASE DispatchCommit(j)
  BY <1>1, NewRowType DEF DispatchCommit, TypeOK, SubmitStates, streamVars
<1>2. CASE RefuseOversized(j)
  BY <1>2, NewRowType DEF RefuseOversized, TypeOK, SubmitStates, streamVars, Terminal, Codes
<1>3. CASE SubmitRolledBack(j)
  BY <1>3 DEF SubmitRolledBack, TypeOK, SubmitStates, streamVars, dbVars
<1>4. CASE PublishAcked(j)
  BY <1>4, StoreType DEF PublishAcked, TypeOK, SubmitStates, dbVars
<1>5. CASE PublishRaised(j)
  BY <1>5, StoreType DEF PublishRaised, TypeOK, SubmitStates, dbVars
<1>6. CASE EndpointDies(j)
  BY <1>6 DEF EndpointDies, TypeOK, SubmitStates, streamVars, dbVars
<1> QED BY <1>1, <1>2, <1>3, <1>4, <1>5, <1>6 DEF Endpoint

LEMMA StreamType ==
    ASSUME TypeOK, NEW j \in Jobs, Stream(j) \/ Aged(j) \/ Poll(j)
    PROVE  TypeOK'
<1>1. CASE RequestIdForgotten(j)
  BY <1>1 DEF RequestIdForgotten, TypeOK, dbVars
<1>2. ASSUME NEW v \in Verdicts, ResultIdForgotten(<<j, v>>) PROVE TypeOK'
  BY <1>2 DEF ResultIdForgotten, TypeOK, dbVars
<1>3. CASE Aged(j)
  BY <1>3 DEF Aged, TypeOK, Ages, QueuedLimit, streamVars, dbVars
<1>4. CASE Poll(j)
  BY <1>4, NewRowType DEF Poll, TypeOK, Terminal, Codes, streamVars
<1> QED BY <1>1, <1>2, <1>3, <1>4 DEF Stream

LEMMA WorkerType ==
    ASSUME TypeOK, Worker
    PROVE  TypeOK'
<1>1. ASSUME NEW m \in requests, Deliver(m) PROVE TypeOK'
 <2>1. m \in Requests
   BY DEF TypeOK
 <2>2. m.job \in Jobs /\ m.copy \in Copies /\ m.left - 1 \in 0..MaxDeliver
   BY <2>1, ConstantsAssumption DEF Requests
 <2>3. [job |-> m.job, copy |-> m.copy, left |-> m.left - 1,
        published |-> FALSE] \in Runs
   BY <2>2 DEF Runs
 <2> QED BY <1>1, <2>3 DEF Deliver, TypeOK, dbVars
<1>2. ASSUME NEW w \in running, NEW v \in Verdicts, PublishResult(w, v)
      PROVE  TypeOK'
 <2>1. w \in Runs
   BY DEF TypeOK
 <2>2. [w EXCEPT !.published = TRUE] \in Runs
   BY <2>1 DEF Runs
 <2>3. [job |-> w.job, verdict |-> v, copy |-> w.copy, left |-> MaxDeliver]
          \in Results
   BY <2>1, ConstantsAssumption DEF Runs, Results
 <2>4. <<w.job, v>> \in Jobs \X Verdicts
   BY <2>1 DEF Runs
 <2> QED BY <1>2, <2>2, <2>3, <2>4 DEF PublishResult, TypeOK, dbVars
<1>3. ASSUME NEW w \in running, AckRequest(w) PROVE TypeOK'
  BY <1>3 DEF AckRequest, TypeOK, dbVars
<1>4. ASSUME NEW w \in running, WorkerLost(w) PROVE TypeOK'
  BY <1>4 DEF WorkerLost, Redelivered, TypeOK, Runs, Requests, dbVars
<1> QED BY <1>1, <1>2, <1>3, <1>4 DEF Worker

LEMMA SegmentType ==
    ASSUME TypeOK, NEW r \in Replicas, segment[r] # NoSegment
    PROVE  segment[r].job \in Jobs /\ segment[r].read \in Rows
BY DEF TypeOK, Segments

LEMMA DutyType ==
    ASSUME TypeOK, NEW r \in Replicas
    PROVE  /\ duty[r].task \in {"apply", "ack"} =>
                 /\ duty[r].msg \in Taken
                 /\ [duty[r] EXCEPT !.task = "ack"] \in Duties
                 /\ Redelivered(duty[r].msg) \subseteq Results
           /\ duty[r].task = "republish" =>
                 duty[r].job \in Jobs /\ duty[r].read \in Rows
<1>1. duty[r] \in Duties
  BY DEF TypeOK
<1>2. ASSUME duty[r].task \in {"apply", "ack"}
      PROVE  duty[r] \in [task : {"apply", "ack"}, msg : Taken]
  BY <1>1, <1>2 DEF Duties, Idle
<1>3. ASSUME NEW m \in Taken PROVE Redelivered(m) \subseteq Results
  BY DEF Redelivered, Taken, Results
<1>4. ASSUME duty[r].task = "republish"
      PROVE  duty[r] \in [task : {"republish"}, job : Jobs, read : Rows]
  BY <1>1, <1>4 DEF Duties, Idle
<1> QED BY <1>2, <1>3, <1>4 DEF Duties

LEMMA PendingType ==
    ASSUME TypeOK, NEW r \in Replicas, NEW j \in Jobs,
           PendingRead(r, j) \/ PendingCommit(r)
    PROVE  TypeOK'
<1>1. CASE PendingRead(r, j)
  BY <1>1 DEF PendingRead, TypeOK, Segments, SubmitStates, dbVars, streamVars
<1>2. CASE PendingCommit(r)
 <2>1. segment[r] # NoSegment
   BY <1>2 DEF PendingCommit, NoSegment
 <2>2. segment[r].job \in Jobs /\ segment[r].read \in Rows
   BY <2>1, SegmentType
 <2>3. row' \in [Jobs -> Rows]
   BY <1>2, <2>2, FlushType, NewRowType DEF PendingCommit, TypeOK
 <2> QED BY <1>2, <2>2, <2>3
         DEF PendingCommit, TypeOK, Segments, SubmitStates, streamVars
<1> QED BY <1>1, <1>2

LEMMA ConsumerType ==
    ASSUME TypeOK, Linked, NEW r \in Replicas, Consumer(r)
    PROVE  TypeOK'
<1>1. ASSUME NEW m \in results, TakeResult(r, m) PROVE TypeOK'
 <2>1. m \in Results
   BY DEF TypeOK
 <2>2. [m EXCEPT !.left = @ - 1] \in Taken
   BY <2>1, ConstantsAssumption DEF Results, Taken
 <2>3. [task |-> "apply", msg |-> [m EXCEPT !.left = @ - 1]] \in Duties
   BY <2>2 DEF Duties
 <2> QED BY <1>1, <2>3 DEF TakeResult, TypeOK, dbVars
<1>2. CASE IgnoreResult(r)
  BY <1>2, DutyType DEF IgnoreResult, TypeOK, dbVars, streamVars
<1>3. CASE ApplyRead(r)
 <2>1. duty[r].msg.job \in Jobs
   BY <1>3, DutyType DEF ApplyRead, Taken
 <2> QED BY <1>3, <2>1 DEF ApplyRead, TypeOK, Segments, dbVars, streamVars
<1>4. ASSUME Apply(r) PROVE TypeOK'
 <2>1. segment[r].task = "apply" /\ segment[r] # NoSegment
   BY <1>4 DEF Apply, ApplyFailure, ApplySuccess, ApplyRaises, NoSegment
 <2>2. segment[r].job \in Jobs /\ segment[r].read \in Rows
   BY <2>1, SegmentType
 <2>3. duty[r].task = "apply"
   BY <2>1 DEF Linked
 <2>4. duty' \in [Replicas -> Duties]
   BY ZenonT(60), <1>4, <2>3, DutyType DEF Apply, ApplyFailure, ApplySuccess, ApplyRaises,
      TypeOK, Duties
 <2>5. segment' \in [Replicas -> Segments]
   BY <1>4 DEF Apply, ApplyFailure, ApplySuccess, ApplyRaises, TypeOK, Segments
 <2>6. CASE ApplyFailure(r)
  <3>1. row' \in [Jobs -> Rows]
    BY <2>6, <2>2, FlushType, NewRowType DEF ApplyFailure, TypeOK, Terminal, Codes
  <3>2. usage' \in [Jobs -> {"none"} \cup Terminal]
    BY <2>6, <2>2, BilledType DEF ApplyFailure, Terminal
  <3> QED BY <2>4, <2>5, <2>6, <3>1, <3>2 DEF ApplyFailure, TypeOK, streamVars
 <2>7. CASE ApplySuccess(r)
  <3> DEFINE s == segment[r]
             recorded == [stamp EXCEPT ![s.job] = clock + 1]
  <3>1. row' \in [Jobs -> Rows]
    BY <2>7, <2>2, FlushType, NewRowType DEF ApplySuccess, TypeOK, Terminal, Codes
  <3>2. usage' \in [Jobs -> {"none"} \cup Terminal]
    BY <2>7, <2>2, BilledType DEF ApplySuccess, Terminal
  <3>3. stamp' \in [Jobs -> Nat] /\ clock' \in Nat
   <4>1. stamp \in [Jobs -> Nat] /\ clock \in Nat
     BY DEF TypeOK
   <4>2. clock + 1 \in Nat
     BY <4>1
   <4>3. ASSUME NEW n \in Nat PROVE [stamp EXCEPT ![s.job] = n] \in [Jobs -> Nat]
     BY <4>1
   <4>4. recorded \in [Jobs -> Nat]
     BY <4>2, <4>3
   <4> HIDE DEF recorded
   <4>5. Retained(recorded) \in [Jobs -> Nat]
     BY <4>4, RetainedType
   <4> QED BY <2>7, <4>2, <4>5 DEF ApplySuccess, recorded
  <3>4. pruned' \subseteq Jobs
    BY <2>7 DEF ApplySuccess, TypeOK
  <3> QED BY <2>4, <2>5, <2>7, <3>1, <3>2, <3>3, <3>4
          DEF ApplySuccess, TypeOK, streamVars
 <2>8. CASE ApplyRaises(r)
  <3>1. results' \subseteq Results
    BY <2>3, <2>8, DutyType DEF ApplyRaises, TypeOK
  <3> QED BY <2>4, <2>5, <2>8, <3>1 DEF ApplyRaises, TypeOK, dbVars
 <2> QED BY <1>4, <2>6, <2>7, <2>8 DEF Apply
<1>5. CASE AckResult(r)
  BY <1>5 DEF AckResult, TypeOK, Duties, dbVars, streamVars
<1> QED BY <1>1, <1>2, <1>3, <1>4, <1>5 DEF Consumer

LEMMA RecoveryType ==
    ASSUME TypeOK, NEW r \in Replicas, Recovery(r) \/ ReplicaStops(r)
    PROVE  TypeOK'
<1>1. ASSUME NEW j \in Jobs, RepublishRead(r, j) PROVE TypeOK'
  BY <1>1 DEF RepublishRead, TypeOK, Duties, dbVars, streamVars
<1>2. CASE RepublishSend(r)
 <2>1. duty[r].job \in Jobs
   BY <1>2, DutyType DEF RepublishSend
 <2>2. requests' \subseteq Requests /\ window' \subseteq Jobs
   BY <1>2, <2>1, StoreType DEF RepublishSend
 <2> QED BY <1>2, <2>2 DEF RepublishSend, TypeOK, Duties, dbVars
<1>3. CASE RepublishRefuse(r)
 <2>1. duty[r].job \in Jobs /\ duty[r].read \in Rows
   BY <1>3, DutyType DEF RepublishRefuse
 <2>2. row' \in [Jobs -> Rows]
   BY <1>3, <2>1, FlushType, NewRowType DEF RepublishRefuse, TypeOK, Terminal, Codes
 <2> QED BY <1>3, <2>2 DEF RepublishRefuse, TypeOK, Duties, streamVars
<1>4. CASE RepublishRaises(r)
  BY <1>4 DEF RepublishRaises, TypeOK, Duties, dbVars, streamVars
<1>5. ASSUME NEW j \in Jobs, ReapRead(r, j) PROVE TypeOK'
  BY <1>5 DEF ReapRead, TypeOK, Segments, dbVars, streamVars
<1>6. CASE ReapCommit(r)
 <2>1. segment[r].job \in Jobs /\ segment[r].read \in Rows
   BY <1>6, SegmentType DEF ReapCommit, NoSegment
 <2>2. row' \in [Jobs -> Rows]
   BY <1>6, <2>1, FlushType, NewRowType DEF ReapCommit, TypeOK, Terminal, Codes
 <2> QED BY <1>6, <2>2 DEF ReapCommit, TypeOK, Segments, streamVars
<1>7. CASE ReplicaStops(r)
 <2>1. segment' \in [Replicas -> Segments] /\ duty' \in [Replicas -> Duties]
   BY <1>7 DEF ReplicaStops, TypeOK, Segments, Duties
 <2>2. results' \subseteq Results
   BY <1>7, DutyType DEF ReplicaStops, TypeOK
 <2>3. submit' \in [Jobs -> SubmitStates]
   BY <1>7 DEF ReplicaStops, TypeOK, SubmitStates
 <2> QED BY <1>7, <2>1, <2>2, <2>3 DEF ReplicaStops, TypeOK, dbVars
<1> QED BY <1>1, <1>2, <1>3, <1>4, <1>5, <1>6, <1>7 DEF Recovery, Republish

LEMMA TypeStep == TypeOK /\ Linked /\ [Next]_vars => TypeOK'
<1> SUFFICES ASSUME TypeOK, Linked, [Next]_vars PROVE TypeOK'
  OBVIOUS
<1>1. CASE UNCHANGED vars
  BY <1>1 DEF vars, dbVars, streamVars, TypeOK
<1>2. ASSUME NEW j \in Jobs, Endpoint(j) \/ Stream(j) \/ Aged(j) \/ Poll(j)
      PROVE  TypeOK'
  BY <1>2, EndpointType, StreamType
<1>3. ASSUME NEW r \in Replicas,
             \/ \E j \in Jobs : PendingRead(r, j)
             \/ PendingCommit(r)
      PROVE  TypeOK'
 <2>1. CASE \E j \in Jobs : PendingRead(r, j)
   BY <2>1, PendingType
 <2>2. CASE PendingCommit(r)
  <3>1. PICK j \in Jobs : TRUE
    BY <2>2, SegmentType DEF PendingCommit, NoSegment
  <3> QED BY <2>2, PendingType
 <2> QED BY <1>3, <2>1, <2>2
<1>4. ASSUME NEW r \in Replicas, Consumer(r) \/ Recovery(r) \/ ReplicaStops(r)
      PROVE  TypeOK'
  BY <1>4, ConsumerType, RecoveryType
<1> QED BY <1>1, <1>2, <1>3, <1>4, WorkerType DEF Next

LEMMA LinkedStep == TypeOK /\ Linked /\ [Next]_vars => Linked'
<1> SUFFICES ASSUME TypeOK, Linked, [Next]_vars PROVE Linked'
  OBVIOUS
<1>1. CASE UNCHANGED <<segment, duty>>
  BY <1>1 DEF Linked
<1>2. ASSUME NEW r \in Replicas,
             \/ \E j \in Jobs : PendingRead(r, j)
             \/ PendingCommit(r)
             \/ Consumer(r)
             \/ Recovery(r)
             \/ ReplicaStops(r)
      PROVE  Linked'
 <2>1. segment \in [Replicas -> Segments] /\ duty \in [Replicas -> Duties]
   BY DEF TypeOK
 <2>2. CASE \E j \in Jobs : PendingRead(r, j) \/ ReapRead(r, j)
   BY <2>1, <2>2 DEF PendingRead, ReapRead, Linked
 <2>3. CASE PendingCommit(r) \/ ReapCommit(r)
   BY <2>1, <2>3 DEF PendingCommit, ReapCommit, Linked, NoSegment
 <2>4. CASE ApplyRead(r)
   BY <2>1, <2>4 DEF ApplyRead, Linked
 <2>5. CASE Apply(r)
   BY <2>1, <2>5 DEF Apply, ApplyFailure, ApplySuccess, ApplyRaises, Linked, NoSegment
 <2>6. CASE \E m \in results : TakeResult(r, m)
   BY <2>1, <2>6 DEF TakeResult, Linked, Idle
 <2>7. CASE IgnoreResult(r) \/ AckResult(r)
   BY <2>1, <2>7 DEF IgnoreResult, AckResult, Linked, NoSegment
 <2>8. CASE \E j \in Jobs : RepublishRead(r, j)
   BY <2>1, <2>8 DEF RepublishRead, Linked, Idle
 <2>9. CASE Republish(r)
   BY <2>1, <2>9 DEF Republish, RepublishSend, RepublishRefuse, RepublishRaises, Linked
 <2>10. CASE ReplicaStops(r)
   BY <2>1, <2>10 DEF ReplicaStops, Linked, NoSegment
 <2> QED BY <1>2, <2>2, <2>3, <2>4, <2>5, <2>6, <2>7, <2>8, <2>9, <2>10
         DEF Consumer, Recovery
<1>3. ASSUME NEW j \in Jobs, Endpoint(j) \/ Stream(j) \/ Aged(j) \/ Poll(j)
      PROVE  UNCHANGED <<segment, duty>>
  BY <1>3 DEF Endpoint, Stream, Aged, Poll, DispatchCommit, RefuseOversized,
     SubmitRolledBack, PublishAcked, PublishRaised, EndpointDies,
     RequestIdForgotten, ResultIdForgotten
<1>4. ASSUME Worker PROVE UNCHANGED <<segment, duty>>
  BY <1>4 DEF Worker, Deliver, PublishResult, AckRequest, WorkerLost
<1>5. ASSUME UNCHANGED vars PROVE UNCHANGED <<segment, duty>>
  BY <1>5 DEF vars
<1> QED BY <1>1, <1>2, <1>3, <1>4, <1>5 DEF Next

LEMMA TypeInvariant == Spec => [](TypeOK /\ Linked)
<1>1. Init => TypeOK /\ Linked
  BY InitType DEF Init, Linked, NoSegment
<1> QED BY <1>1, TypeStep, LinkedStep, PTL DEF Spec

\* Every variable keeps to its type, whatever the endpoint, the stream, the
\* workers, the consumers and the polls interleave.
THEOREM TypeCorrect == Spec => []TypeOK
BY TypeInvariant, PTL

----
(* A success is complete, and is written once.                             *)

\* A row written back shows success only if it did, or if that was written.
LEMMA FlushSuccess ==
    ASSUME NEW db, NEW read, NEW new, Flush(db, read, new).status = "succeeded"
    PROVE  db.status = "succeeded" \/ new.status = "succeeded"
BY DEF Flush, Column

\* Retention changes no time it keeps.
LEMMA RetainedValue ==
    ASSUME NEW s, NEW j \in Jobs
    PROVE  Retained(s)[j] \in {s[j], 0}
BY DEF Retained

LEMMA BilledOnce ==
    ASSUME TypeOK, NEW j \in Jobs, NEW k \in Jobs, NEW status \in Terminal
    PROVE  /\ usage[k] # "none" => Billed(j, status)[k] = usage[k]
           /\ Billed(j, status)[j] # "none"
           /\ Billed(j, status)[k] \in {usage[k], status}
           /\ k # j => Billed(j, status)[k] = usage[k]
BY DEF Billed, TypeOK, Terminal

Recorded(j) == stamp[j] > 0 \/ j \in pruned

\* Nothing un-records a bundle: retention remembers what it deletes.
LEMMA RecordedAfterSuccess ==
    ASSUME TypeOK, Linked, NEW r \in Replicas, ApplySuccess(r), NEW k \in Jobs,
           Recorded(k) \/ k = segment[r].job
    PROVE  Recorded(k)'
<1> DEFINE recorded == [stamp EXCEPT ![segment[r].job] = clock + 1]
<1>1. stamp \in [Jobs -> Nat] /\ clock \in Nat
  BY DEF TypeOK
<1>2. CASE k \in pruned
  BY <1>2 DEF ApplySuccess, Recorded
<1>3. CASE k \notin pruned
 <2>1. recorded[k] > 0
   BY <1>1, <1>3 DEF Recorded
 <2>2. Retained(recorded)[k] \in {recorded[k], 0}
   BY RetainedValue
 <2>3. /\ stamp' = Retained(recorded)
       /\ pruned' = pruned \cup
             {j \in Jobs : recorded[j] > 0 /\ Retained(recorded)[j] = 0}
   BY DEF ApplySuccess
 <2> HIDE DEF recorded
 <2> QED BY <2>1, <2>2, <2>3 DEF Recorded
<1> QED BY <1>2, <1>3

\* The row of one job after a writer other than ApplySuccess.
LEMMA OthersKeepSuccess ==
    ASSUME TypeOK, SuccessIsComplete, UNCHANGED <<stamp, pruned, usage>>,
           \A k \in Jobs : row'[k].status = "succeeded" => row[k].status = "succeeded"
    PROVE  SuccessIsComplete'
BY DEF SuccessIsComplete

LEMMA SuccessStep ==
    TypeOK /\ Linked /\ SuccessIsComplete /\ [Next]_vars => SuccessIsComplete'
<1> SUFFICES ASSUME TypeOK, Linked, SuccessIsComplete, [Next]_vars
             PROVE  SuccessIsComplete'
  OBVIOUS
<1> USE DEF Finished, PublishPending, Dispatched
<1>0. row \in [Jobs -> Rows]
  BY DEF TypeOK
<1>1. CASE UNCHANGED dbVars
  BY <1>1 DEF dbVars, SuccessIsComplete
<1>2. ASSUME NEW j \in Jobs, DispatchCommit(j) \/ RefuseOversized(j) \/ Poll(j)
      PROVE  SuccessIsComplete'
  BY <1>0, <1>2, OthersKeepSuccess DEF DispatchCommit, RefuseOversized, Poll
<1>3. ASSUME NEW r \in Replicas, PendingCommit(r) \/ ReapCommit(r) \/ RepublishRefuse(r)
      PROVE  SuccessIsComplete'
  BY <1>0, <1>3, OthersKeepSuccess, FlushSuccess DEF PendingCommit, ReapCommit, RepublishRefuse
<1>4. ASSUME NEW r \in Replicas, ApplyFailure(r) PROVE SuccessIsComplete'
 <2>1. segment[r].job \in Jobs
   BY <1>4, SegmentType DEF ApplyFailure, NoSegment
 <2>2. ASSUME NEW k \in Jobs, row'[k].status = "succeeded"
       PROVE  row[k].status = "succeeded"
   BY <1>0, <1>4, <2>1, <2>2, FlushSuccess DEF ApplyFailure
 <2>3. usage' = Billed(segment[r].job, "failed") /\ UNCHANGED <<stamp, pruned>>
   BY <1>4 DEF ApplyFailure
 <2> QED BY <2>1, <2>2, <2>3, BilledOnce DEF SuccessIsComplete, Terminal
<1>5. ASSUME NEW r \in Replicas, ApplySuccess(r) PROVE SuccessIsComplete'
 <2> DEFINE job == segment[r].job
 <2>1. job \in Jobs
   BY <1>5, SegmentType DEF ApplySuccess, NoSegment
 <2>2. ASSUME NEW k \in Jobs, row'[k].status = "succeeded"
       PROVE  row[k].status = "succeeded" \/ k = job
   BY <1>0, <1>5, <2>1, <2>2 DEF ApplySuccess
 <2>3. usage' = Billed(job, "succeeded")
   BY <1>5 DEF ApplySuccess
 <2>4. ASSUME NEW k \in Jobs, Recorded(k) \/ k = job PROVE Recorded(k)'
   BY <1>5, <2>4, RecordedAfterSuccess
 <2>5. ASSUME NEW k \in Jobs, row'[k].status = "succeeded"
       PROVE  Recorded(k)' /\ usage'[k] # "none"
   BY <2>1, <2>2, <2>3, <2>4, <2>5, BilledOnce DEF SuccessIsComplete, Recorded, Terminal
 <2>6. ASSUME NEW k \in Jobs, usage'[k] = "succeeded" PROVE Recorded(k)'
   BY <2>1, <2>3, <2>4, <2>6, BilledOnce DEF SuccessIsComplete, Recorded, Terminal
 <2> QED BY <2>5, <2>6 DEF SuccessIsComplete, Recorded
<1>6. ASSUME NEW j \in Jobs, Endpoint(j) \/ Stream(j) \/ Aged(j),
             ~DispatchCommit(j), ~RefuseOversized(j)
      PROVE  UNCHANGED dbVars
  BY <1>6 DEF Endpoint, Stream, Aged, SubmitRolledBack, PublishAcked, PublishRaised,
     EndpointDies, RequestIdForgotten, ResultIdForgotten
<1>7. ASSUME Worker PROVE UNCHANGED dbVars
  BY <1>7 DEF Worker, Deliver, PublishResult, AckRequest, WorkerLost
<1>8. ASSUME NEW r \in Replicas,
             \/ \E j \in Jobs : PendingRead(r, j) \/ RepublishRead(r, j) \/ ReapRead(r, j)
             \/ \E m \in results : TakeResult(r, m)
             \/ IgnoreResult(r) \/ ApplyRead(r) \/ ApplyRaises(r) \/ AckResult(r)
             \/ RepublishSend(r) \/ RepublishRaises(r) \/ ReplicaStops(r)
      PROVE  UNCHANGED dbVars
  BY <1>8 DEF PendingRead, RepublishRead, ReapRead, TakeResult, IgnoreResult, ApplyRead,
     ApplyRaises, AckResult, RepublishSend, RepublishRaises, ReplicaStops, dbVars
<1>9. ASSUME UNCHANGED vars PROVE UNCHANGED dbVars
  BY <1>9 DEF vars
<1> QED BY <1>1, <1>2, <1>3, <1>4, <1>5, <1>6, <1>7, <1>8, <1>9
        DEF Next, Consumer, Recovery, Republish, Apply, Endpoint

\* A job that reads succeeded has recorded its bundle and has been billed,
\* whatever number of replicas race on its row.
THEOREM SuccessCorrect == Spec => []SuccessIsComplete
<1>1. Init => SuccessIsComplete
  BY DEF Init, SuccessIsComplete, AbsentRow
<1> QED BY <1>1, TypeInvariant, SuccessStep, PTL DEF Spec

LEMMA OnceStep ==
    ASSUME TypeOK, Linked, Next, NEW j \in Jobs
    PROVE  /\ stamp[j] > 0 /\ stamp'[j] > 0 => stamp'[j] = stamp[j]
           /\ usage[j] # "none" => usage'[j] = usage[j]
<1>1. CASE UNCHANGED <<stamp, usage>>
  BY <1>1
<1>2. ASSUME NEW r \in Replicas, ApplyFailure(r)
      PROVE  UNCHANGED stamp /\ (usage[j] # "none" => usage'[j] = usage[j])
 <2>1. segment[r].job \in Jobs
   BY <1>2, SegmentType DEF ApplyFailure, NoSegment
 <2> QED BY <1>2, <2>1, BilledOnce DEF ApplyFailure, Terminal
<1>3. ASSUME NEW r \in Replicas, ApplySuccess(r)
      PROVE  /\ stamp[j] > 0 /\ stamp'[j] > 0 => stamp'[j] = stamp[j]
             /\ usage[j] # "none" => usage'[j] = usage[j]
 <2> DEFINE recorded == [stamp EXCEPT ![segment[r].job] = clock + 1]
 <2>1. segment[r].job \in Jobs
   BY <1>3, SegmentType DEF ApplySuccess, NoSegment
 <2>2. stamp[segment[r].job] = 0 /\ stamp' = Retained(recorded)
   BY <1>3 DEF ApplySuccess
 <2>3. stamp[j] > 0 => recorded[j] = stamp[j]
   BY <2>2 DEF TypeOK
 <2>4. stamp'[j] \in {recorded[j], 0}
   BY <2>2, RetainedValue
 <2>5. usage[j] # "none" => usage'[j] = usage[j]
   BY <1>3, <2>1, BilledOnce DEF ApplySuccess, Terminal
 <2> QED BY <2>3, <2>4, <2>5
<1>4. ASSUME NEW k \in Jobs, Endpoint(k) \/ Stream(k) \/ Aged(k) \/ Poll(k)
      PROVE  UNCHANGED <<stamp, usage>>
  BY <1>4 DEF Endpoint, Stream, Aged, Poll, DispatchCommit, RefuseOversized,
     SubmitRolledBack, PublishAcked, PublishRaised, EndpointDies,
     RequestIdForgotten, ResultIdForgotten, dbVars
<1>5. ASSUME Worker PROVE UNCHANGED <<stamp, usage>>
  BY <1>5 DEF Worker, Deliver, PublishResult, AckRequest, WorkerLost, dbVars
<1>6. ASSUME NEW r \in Replicas,
             \/ \E k \in Jobs : PendingRead(r, k) \/ RepublishRead(r, k) \/ ReapRead(r, k)
             \/ PendingCommit(r) \/ ReapCommit(r)
             \/ \E m \in results : TakeResult(r, m)
             \/ IgnoreResult(r) \/ ApplyRead(r) \/ ApplyRaises(r) \/ AckResult(r)
             \/ Republish(r) \/ ReplicaStops(r)
      PROVE  UNCHANGED <<stamp, usage>>
  BY <1>6 DEF PendingRead, PendingCommit, RepublishRead, ReapRead, ReapCommit,
     TakeResult, IgnoreResult, ApplyRead, ApplyRaises, AckResult, Republish,
     RepublishSend, RepublishRefuse, RepublishRaises, ReplicaStops, dbVars
<1> QED BY <1>1, <1>2, <1>3, <1>4, <1>5, <1>6 DEF Next, Consumer, Recovery, Apply

\* No second execution replaces a job's artifacts, nor what it was billed.
THEOREM OutcomeCorrect == Spec => OutcomeIsWrittenOnce
<1>1. TypeOK /\ Linked /\ [Next]_vars =>
        [\A j \in Jobs :
            /\ stamp[j] > 0 /\ stamp'[j] > 0 => stamp'[j] = stamp[j]
            /\ usage[j] # "none" => usage'[j] = usage[j]]_vars
  BY OnceStep
<1> QED BY <1>1, TypeInvariant, PTL DEF Spec, OutcomeIsWrittenOnce
----
(* Retention.  The bundles held carry consecutive times, each of one job:  *)
(* so the number of bundles newer than one is the distance of its time to  *)
(* the latest, and retention, which counts them, cuts where the times say. *)

Stamped ==
    /\ \A j \in Jobs : stamp[j] <= clock
    /\ \A j, k \in Jobs : stamp[j] = stamp[k] /\ stamp[j] > 0 => j = k

\* When the times above a bound are consecutive and apart, counting the
\* jobs above it is a subtraction.
LEMMA CountNewer ==
    ASSUME NEW s \in [Jobs -> Nat], NEW low \in Nat, NEW high \in Nat, low <= high,
           \A n \in (low + 1)..high : \E k \in Jobs : s[k] = n,
           \A k \in Jobs : s[k] <= high,
           \A j, k \in Jobs : s[j] = s[k] /\ s[j] > low => j = k
    PROVE  Cardinality({k \in Jobs : s[k] > low}) = high - low
<1> DEFINE times == (low + 1)..high
           newer == {k \in Jobs : s[k] > low}
           F == [n \in times |-> CHOOSE k \in Jobs : s[k] = n]
<1>1. \A n \in times : F[n] \in Jobs /\ s[F[n]] = n
  OBVIOUS
<1>2. \A n \in times : n > low
  OBVIOUS
<1>3. F \in [times -> newer]
  BY <1>1, <1>2
<1>4. \A m, n \in times : F[m] = F[n] => m = n
  BY <1>1
<1>5. ASSUME NEW k \in newer PROVE \E n \in times : F[n] = k
 <2>1. k \in Jobs /\ s[k] \in times
   OBVIOUS
 <2>2. F[s[k]] \in Jobs /\ s[F[s[k]]] = s[k] /\ s[k] > low
   BY <1>1, <2>1
 <2>3. F[s[k]] = k
   BY <2>1, <2>2
 <2> QED BY <2>1, <2>3
<1>6. ExistsBijection(times, newer)
 <2> HIDE DEF F, times, newer
 <2>1. F \in Injection(times, newer)
   BY <1>3, <1>4 DEF Injection, IsInjective
 <2>2. F \in Surjection(times, newer)
   BY <1>3, <1>5 DEF Surjection
 <2> QED BY <2>1, <2>2 DEF ExistsBijection, Bijection
<1>7. IsFiniteSet(times) /\ Cardinality(times) = high - low
 <2>1. low + 1 \in Int /\ high \in Int
   OBVIOUS
 <2>2. /\ IsFiniteSet(times)
       /\ Cardinality(times) = IF low + 1 > high THEN 0 ELSE high - (low + 1) + 1
   BY <2>1, FS_Interval
 <2> QED BY <2>2
<1> HIDE DEF times, newer, F
<1>8. Cardinality(newer) = Cardinality(times)
  BY <1>6, <1>7, FS_Bijection
<1> QED BY <1>7, <1>8 DEF newer

\* When the times up to now are consecutive, apart and no further back than
\* retention keeps, retention keeps what is less than KeepLatest back.
LEMMA RetentionCuts ==
    ASSUME NEW s \in [Jobs -> Nat], NEW now \in Nat,
           \A j \in Jobs : s[j] <= now,
           \A j, k \in Jobs : s[j] = s[k] /\ s[j] > 0 => j = k,
           {s[j] : j \in {j \in Jobs : s[j] > 0}} = {n \in 1..now : n + KeepLatest >= now},
           NEW j \in Jobs
    PROVE  Retained(s)[j] = IF s[j] + KeepLatest > now THEN s[j] ELSE 0
<1>1. s[j] \in Nat /\ s[j] <= now /\ KeepLatest \in Nat
  BY ConstantsAssumption DEF KeepLatest
<1>2. CASE s[j] = 0
  BY <1>2 DEF Retained
<1>3. CASE s[j] > 0
 <2>1. s[j] + KeepLatest >= now
   BY <1>3
 <2>2. ASSUME NEW n \in (s[j] + 1)..now PROVE \E k \in Jobs : s[k] = n
  <3>1. n \in 1..now /\ n + KeepLatest >= now
    BY <1>1, <2>1
  <3>2. n \in {s[k] : k \in {k \in Jobs : s[k] > 0}}
    BY <3>1
  <3> QED BY <3>2
 <2>3. \A i, k \in Jobs : s[i] = s[k] /\ s[i] > s[j] => i = k
   BY <1>1
 <2>4. Cardinality({k \in Jobs : s[k] > s[j]}) = now - s[j]
   BY <1>1, <2>2, <2>3, CountNewer
 <2>5. Retained(s)[j] = IF now - s[j] < KeepLatest THEN s[j] ELSE 0
   BY <2>4 DEF Retained
 <2> QED BY <1>1, <2>5
<1> QED BY <1>1, <1>2, <1>3

\* What is left is again consecutive and apart.
LEMMA RetentionHolds ==
    ASSUME NEW s \in [Jobs -> Nat], NEW now \in Nat,
           \A j \in Jobs : s[j] <= now,
           \A j, k \in Jobs : s[j] = s[k] /\ s[j] > 0 => j = k,
           {s[j] : j \in {j \in Jobs : s[j] > 0}} = {n \in 1..now : n + KeepLatest >= now},
           NEW t, t = Retained(s)
    PROVE  /\ \A j \in Jobs : t[j] <= now
           /\ \A j, k \in Jobs : t[j] = t[k] /\ t[j] > 0 => j = k
           /\ {t[j] : j \in {j \in Jobs : t[j] > 0}} = {n \in 1..now : n + KeepLatest > now}
<1>1. \A j \in Jobs : t[j] = IF s[j] + KeepLatest > now THEN s[j] ELSE 0
  BY RetentionCuts
<1>2. KeepLatest \in Nat /\ \A j \in Jobs : s[j] \in Nat
  BY ConstantsAssumption DEF KeepLatest
<1>3. \A j \in Jobs : t[j] > 0 => t[j] = s[j] /\ s[j] > 0
  BY <1>1, <1>2
<1>4. \A j \in Jobs : t[j] <= now
  BY <1>1, <1>2
<1>5. \A j, k \in Jobs : t[j] = t[k] /\ t[j] > 0 => j = k
  BY <1>3
<1>6. ASSUME NEW j \in Jobs, t[j] > 0
      PROVE  t[j] \in {n \in 1..now : n + KeepLatest > now}
 <2>1. t[j] = s[j] /\ s[j] > 0 /\ s[j] + KeepLatest > now
   BY <1>1, <1>2, <1>6
 <2> QED BY <1>2, <2>1
<1>7. ASSUME NEW n \in 1..now, n + KeepLatest > now
      PROVE  n \in {t[j] : j \in {j \in Jobs : t[j] > 0}}
 <2>1. n + KeepLatest >= now
   BY <1>2, <1>7
 <2>2. n \in {s[j] : j \in {j \in Jobs : s[j] > 0}}
   BY <2>1
 <2>3. PICK j \in Jobs : s[j] = n
   BY <2>2
 <2>4. t[j] = n /\ t[j] > 0
   BY <1>1, <1>7, <2>3
 <2> QED BY <2>4
<1>8. {t[j] : j \in {j \in Jobs : t[j] > 0}} = {n \in 1..now : n + KeepLatest > now}
  BY <1>6, <1>7
<1> QED BY <1>4, <1>5, <1>8

\* One more bundle, on times that are consecutive and apart.
LEMMA RecordHolds ==
    ASSUME NEW s \in [Jobs -> Nat], NEW now \in Nat,
           \A j \in Jobs : s[j] <= now,
           \A j, k \in Jobs : s[j] = s[k] /\ s[j] > 0 => j = k,
           {s[j] : j \in {j \in Jobs : s[j] > 0}} = {n \in 1..now : n + KeepLatest > now},
           NEW job \in Jobs, s[job] = 0,
           NEW t, t = [s EXCEPT ![job] = now + 1]
    PROVE  /\ t \in [Jobs -> Nat]
           /\ \A j \in Jobs : t[j] <= now + 1
           /\ \A j, k \in Jobs : t[j] = t[k] /\ t[j] > 0 => j = k
           /\ {t[j] : j \in {j \in Jobs : t[j] > 0}}
                = {n \in 1..(now + 1) : n + KeepLatest >= now + 1}
<1>1. /\ t \in [Jobs -> Nat] /\ t[job] = now + 1
      /\ \A j \in Jobs : j # job => t[j] = s[j]
  OBVIOUS
<1>2. KeepLatest \in Nat /\ KeepLatest >= 1
  BY ConstantsAssumption DEF KeepLatest
<1>3. \A j \in Jobs : t[j] <= now + 1
  BY <1>1
<1>4. \A j, k \in Jobs : t[j] = t[k] /\ t[j] > 0 => j = k
  BY <1>1
<1>5. ASSUME NEW j \in Jobs, t[j] > 0
      PROVE  t[j] \in {n \in 1..(now + 1) : n + KeepLatest >= now + 1}
 <2>1. CASE j = job
   BY <1>1, <1>2, <2>1
 <2>2. CASE j # job
  <3>1. t[j] = s[j] /\ s[j] > 0
    BY <1>1, <1>5, <2>2
  <3>2. s[j] \in 1..now /\ s[j] + KeepLatest > now
    BY <3>1
  <3> QED BY <1>2, <3>1, <3>2
 <2> QED BY <2>1, <2>2
<1>6. ASSUME NEW n \in 1..(now + 1), n + KeepLatest >= now + 1
      PROVE  n \in {t[j] : j \in {j \in Jobs : t[j] > 0}}
 <2>1. CASE n = now + 1
   BY <1>1, <2>1
 <2>2. CASE n # now + 1
  <3>1. n \in 1..now /\ n + KeepLatest > now
    BY <1>2, <1>6, <2>2
  <3>2. n \in {s[j] : j \in {j \in Jobs : s[j] > 0}}
    BY <3>1
  <3>3. PICK j \in Jobs : s[j] = n /\ n > 0
    BY <3>2
  <3>4. t[j] = n
    BY <1>1, <3>3
  <3> QED BY <3>3, <3>4
 <2> QED BY <2>1, <2>2
<1>7. {t[j] : j \in {j \in Jobs : t[j] > 0}}
        = {n \in 1..(now + 1) : n + KeepLatest >= now + 1}
  BY <1>5, <1>6
<1> QED BY <1>1, <1>3, <1>4, <1>7

\* The transaction of a success, on the state.
LEMMA RetentionStep ==
    ASSUME TypeOK, Stamped, HeldBundlesAreNewest,
           NEW job \in Jobs, stamp[job] = 0,
           stamp' = Retained([stamp EXCEPT ![job] = clock + 1]),
           clock' = clock + 1
    PROVE  (Stamped /\ HeldBundlesAreNewest)'
<1> DEFINE recorded == [stamp EXCEPT ![job] = clock + 1]
<1>1. stamp \in [Jobs -> Nat] /\ clock \in Nat /\ clock + 1 \in Nat
  BY DEF TypeOK
<1>2. /\ recorded \in [Jobs -> Nat]
      /\ \A j \in Jobs : recorded[j] <= clock + 1
      /\ \A j, k \in Jobs : recorded[j] = recorded[k] /\ recorded[j] > 0 => j = k
      /\ {recorded[j] : j \in {j \in Jobs : recorded[j] > 0}}
           = {n \in 1..(clock + 1) : n + KeepLatest >= clock + 1}
 <2> HIDE DEF recorded
 <2>1. recorded = [stamp EXCEPT ![job] = clock + 1]
   BY DEF recorded
 <2> QED BY <1>1, <2>1, RecordHolds DEF Stamped, HeldBundlesAreNewest
<1> HIDE DEF recorded
<1>3. stamp' = Retained(recorded)
  BY DEF recorded
<1>4. /\ \A j \in Jobs : stamp'[j] <= clock + 1
      /\ \A j, k \in Jobs : stamp'[j] = stamp'[k] /\ stamp'[j] > 0 => j = k
      /\ {stamp'[j] : j \in {j \in Jobs : stamp'[j] > 0}}
           = {n \in 1..(clock + 1) : n + KeepLatest > clock + 1}
  BY <1>1, <1>2, <1>3, RetentionHolds
<1> QED BY <1>4 DEF Stamped, HeldBundlesAreNewest, KeepLatest

\* Only the transaction of a success records or deletes a bundle.
LEMMA OthersKeepBundles ==
    ASSUME [Next]_vars, \A r \in Replicas : ~ApplySuccess(r)
    PROVE  UNCHANGED <<stamp, clock>>
<1>1. CASE \E k \in Jobs : Endpoint(k) \/ Stream(k) \/ Aged(k) \/ Poll(k)
  BY <1>1 DEF Endpoint, Stream, Aged, Poll, DispatchCommit, RefuseOversized,
     SubmitRolledBack, PublishAcked, PublishRaised, EndpointDies,
     RequestIdForgotten, ResultIdForgotten, dbVars
<1>2. CASE Worker
  BY <1>2 DEF Worker, Deliver, PublishResult, AckRequest, WorkerLost, dbVars
<1>3. ASSUME NEW r \in Replicas,
             \/ \E k \in Jobs : PendingRead(r, k) \/ RepublishRead(r, k) \/ ReapRead(r, k)
             \/ PendingCommit(r) \/ ReapCommit(r) \/ ApplyFailure(r)
             \/ \E m \in results : TakeResult(r, m)
             \/ IgnoreResult(r) \/ ApplyRead(r) \/ ApplyRaises(r) \/ AckResult(r)
             \/ Republish(r) \/ ReplicaStops(r)
      PROVE  UNCHANGED <<stamp, clock>>
  BY <1>3 DEF PendingRead, PendingCommit, RepublishRead, ReapRead, ReapCommit,
     TakeResult, IgnoreResult, ApplyRead, ApplyRaises, ApplyFailure, AckResult,
     Republish, RepublishSend, RepublishRefuse, RepublishRaises, ReplicaStops, dbVars
<1>4. CASE UNCHANGED vars
  BY <1>4 DEF vars, dbVars
<1> QED BY <1>1, <1>2, <1>3, <1>4 DEF Next, Consumer, Recovery, Apply

LEMMA BundlesStep ==
    TypeOK /\ Linked /\ Stamped /\ HeldBundlesAreNewest /\ [Next]_vars
        => (Stamped /\ HeldBundlesAreNewest)'
<1> SUFFICES ASSUME TypeOK, Linked, Stamped, HeldBundlesAreNewest, [Next]_vars
             PROVE  (Stamped /\ HeldBundlesAreNewest)'
  OBVIOUS
<1>1. ASSUME NEW r \in Replicas, ApplySuccess(r)
      PROVE  (Stamped /\ HeldBundlesAreNewest)'
 <2>1. segment[r].job \in Jobs
   BY <1>1, SegmentType DEF ApplySuccess, NoSegment
 <2>2. /\ stamp[segment[r].job] = 0
       /\ stamp' = Retained([stamp EXCEPT ![segment[r].job] = clock + 1])
       /\ clock' = clock + 1
   BY <1>1 DEF ApplySuccess
 <2> QED BY <2>1, <2>2, RetentionStep
<1>2. CASE \A r \in Replicas : ~ApplySuccess(r)
  BY <1>2, OthersKeepBundles DEF Stamped, HeldBundlesAreNewest, KeepLatest
<1> QED BY <1>1, <1>2

\* Retention keeps exactly the newest bundles, for every limit and any number
\* of jobs: it never deletes one while an older one stays.
THEOREM RetentionCorrect == Spec => []HeldBundlesAreNewest
<1>1. Init => Stamped /\ HeldBundlesAreNewest
  BY ConstantsAssumption DEF Init, Stamped, HeldBundlesAreNewest, KeepLatest
<1> QED BY <1>1, TypeInvariant, BundlesStep, PTL DEF Spec

----
(***************************************************************************)
(* With one API process the rows that clients poll follow CompileJobView.  *)
(* One process is what makes it true: its event loop runs one unlocked     *)
(* read-to-commit section at a time, so only a poll (another thread) can   *)
(* come between, and a poll only ever writes "failed".                     *)
(***************************************************************************)

\* A row exists for whatever the endpoint has committed and for whatever is
\* in the stream or in the consumer's hands.
Existing(j) == row[j].status # "absent"

Committed ==
    /\ \A j \in Jobs :
          /\ submit[j] = "new" => ~Existing(j)
          /\ submit[j] \in {"publishing", "unpublished", "marking", "requeued"}
                => Existing(j)
    /\ \A m \in requests \cup running \cup results : Existing(m.job)
    /\ \A r \in Replicas :
          /\ duty[r].task \in {"apply", "ack"} => Existing(duty[r].msg.job)
          /\ duty[r].task = "republish" => Existing(duty[r].job)

\* A job is queued only after the endpoint's error handler put it there, and
\* that handler runs once.
QueuedOnce == \A j \in Jobs : row[j].status = "queued" => submit[j] = "requeued"

\* What an open section has read is still there, or a poll has failed it.
ReadHolds ==
    \A r \in Replicas :
        /\ segment[r].task = "pending" =>
              /\ submit[segment[r].job] = "marking"
              /\ segment[r].read.status # "queued"
        /\ segment[r].task = "apply" =>
              /\ segment[r].read.status \in {"queued", "running"}
              /\ row[segment[r].job].status \in {segment[r].read.status, "failed"}
        /\ segment[r].task = "reap" =>
              /\ segment[r].read.status = "running"
              /\ row[segment[r].job].status \in {"running", "failed"}
        /\ duty[r].task = "republish" =>
              /\ duty[r].read.status = "queued"
              /\ row[duty[r].job].status \in {"queued", "failed"}
        /\ duty[r].task = "republish" => submit[duty[r].job] = "requeued"
        /\ segment[r].task = "reap" => duty[r].task # "republish"

SoloInv == Committed /\ QueuedOnce /\ ReadHolds

Solo == \A r1, r2 \in Replicas : r1 = r2

LEMMA Typed ==
    ASSUME TypeOK
    PROVE  /\ row \in [Jobs -> Rows] /\ submit \in [Jobs -> SubmitStates]
           /\ segment \in [Replicas -> Segments] /\ duty \in [Replicas -> Duties]
           /\ \A m \in requests \cup running \cup results : m.job \in Jobs
           /\ \A r \in Replicas :
                 /\ segment[r] # NoSegment => segment[r].job \in Jobs
                 /\ duty[r].task \in {"apply", "ack"} => duty[r].msg.job \in Jobs
                 /\ duty[r].task = "republish" => duty[r].job \in Jobs
<1>1. ASSUME NEW m \in requests \cup running \cup results PROVE m.job \in Jobs
  BY DEF TypeOK, Requests, Runs, Results
<1>2. ASSUME NEW r \in Replicas
      PROVE  /\ segment[r] # NoSegment => segment[r].job \in Jobs
             /\ duty[r].task \in {"apply", "ack"} => duty[r].msg.job \in Jobs
             /\ duty[r].task = "republish" => duty[r].job \in Jobs
  BY SegmentType, DutyType DEF Taken
<1> QED BY <1>1, <1>2 DEF TypeOK

\* Going on to the ack keeps the message.
LEMMA StillHeld ==
    ASSUME TypeOK, NEW r \in Replicas, duty[r].task \in {"apply", "ack"},
           duty' = [duty EXCEPT ![r].task = "ack"]
    PROVE  duty'[r].task = "ack" /\ duty'[r].msg = duty[r].msg
<1>1. duty[r] \in [task : {"apply", "ack"}, msg : Taken]
  BY DEF TypeOK, Duties, Idle
<1> QED BY <1>1 DEF TypeOK

\* The status a write-back leaves.
LEMMA FlushStatus ==
    ASSUME NEW db, NEW read, NEW new
    PROVE  Flush(db, read, new).status \in {db.status, new.status}
           /\ (new.status # read.status => Flush(db, read, new).status = new.status)
BY DEF Flush, Column

LEMMA StoredExist ==
    ASSUME NEW j \in Jobs, Existing(j), StoreRequest(j), UNCHANGED row,
           \A m \in requests : Existing(m.job)
    PROVE  \A m \in requests' : Existing(m.job)'
BY DEF StoreRequest, Existing

LEMMA SoloInit == Init => SoloInv
BY DEF Init, SoloInv, Committed, QueuedOnce, ReadHolds, Existing, AbsentRow, Idle, NoSegment

LEMMA EndpointSolo ==
    ASSUME TypeOK, Linked, SoloInv, NEW j \in Jobs, Endpoint(j)
    PROVE  SoloInv'
<1> USE Typed DEF SoloInv, Committed, QueuedOnce, ReadHolds
<1>1. CASE DispatchCommit(j)
  BY <1>1 DEF DispatchCommit, Dispatched, Existing, streamVars
<1>2. CASE RefuseOversized(j)
  BY <1>2 DEF RefuseOversized, Finished, Existing, streamVars
<1>3. CASE SubmitRolledBack(j)
  BY <1>3 DEF SubmitRolledBack, Existing, dbVars, streamVars
<1>4. CASE PublishAcked(j)
  BY <1>4, StoredExist DEF PublishAcked, Existing, dbVars
<1>5. CASE PublishRaised(j)
  BY <1>5, StoredExist DEF PublishRaised, Existing, dbVars
<1>6. CASE EndpointDies(j)
  BY <1>6 DEF EndpointDies, Existing, dbVars, streamVars
<1> QED BY <1>1, <1>2, <1>3, <1>4, <1>5, <1>6 DEF Endpoint

LEMMA StreamSolo ==
    ASSUME TypeOK, SoloInv, NEW j \in Jobs, Stream(j) \/ Aged(j) \/ Poll(j)
    PROVE  SoloInv'
<1> USE Typed DEF SoloInv, Committed, QueuedOnce, ReadHolds
<1>1. CASE Stream(j)
 <2>1. UNCHANGED <<row, submit, segment, duty, requests, running, results>>
   BY <1>1 DEF Stream, RequestIdForgotten, ResultIdForgotten, dbVars
 <2> QED BY <2>1 DEF Existing
<1>2. CASE Aged(j)
  BY <1>2 DEF Aged, Existing, dbVars, streamVars
<1>3. CASE Poll(j)
  BY <1>3 DEF Poll, Finished, StaleRunning, StaleQueued, Existing, streamVars
<1> QED BY <1>1, <1>2, <1>3

LEMMA WorkerSolo ==
    ASSUME TypeOK, SoloInv, Worker
    PROVE  SoloInv'
<1> USE Typed DEF SoloInv, Committed, QueuedOnce, ReadHolds
<1>1. ASSUME NEW m \in requests, Deliver(m) PROVE SoloInv'
  BY <1>1 DEF Deliver, Existing, dbVars
<1>2. ASSUME NEW w \in running, NEW v \in Verdicts, PublishResult(w, v) PROVE SoloInv'
 <2>1. [w EXCEPT !.published = TRUE].job = w.job
   BY DEF TypeOK, Runs
 <2>2. UNCHANGED <<row, submit, segment, duty, requests>>
   BY <1>2 DEF PublishResult, dbVars
 <2>3. \A m \in running' \cup results' : m \in running \cup results \/ m.job = w.job
  <3>1. \A m \in running' : m \in running \/ m.job = w.job
    BY <1>2, <2>1 DEF PublishResult
  <3>2. \A m \in results' : m \in results \/ m.job = w.job
    BY <1>2 DEF PublishResult
  <3> QED BY <3>1, <3>2
 <2> QED BY <2>2, <2>3 DEF Existing
<1>3. ASSUME NEW w \in running, AckRequest(w) PROVE SoloInv'
  BY <1>3 DEF AckRequest, Existing, dbVars
<1>4. ASSUME NEW w \in running, WorkerLost(w) PROVE SoloInv'
  BY <1>4 DEF WorkerLost, Redelivered, Existing, dbVars
<1> QED BY <1>1, <1>2, <1>3, <1>4 DEF Worker

LEMMA PendingSolo ==
    ASSUME TypeOK, Linked, SoloInv, Solo, NEW r \in Replicas,
           \/ \E j \in Jobs : PendingRead(r, j)
           \/ PendingCommit(r)
           \/ ReplicaStops(r)
    PROVE  SoloInv'
<1> USE Typed DEF SoloInv, Committed, QueuedOnce, ReadHolds, Solo
<1>1. ASSUME NEW j \in Jobs, PendingRead(r, j) PROVE SoloInv'
  BY <1>1 DEF PendingRead, Existing, dbVars, streamVars, NoSegment
<1>2. CASE PendingCommit(r)
 <2> DEFINE j == segment[r].job
 <2>1. /\ j \in Jobs /\ submit[j] = "marking" /\ segment[r].read.status # "queued"
       /\ duty[r].task = "republish" => duty[r].job # j
       /\ segment'[r].task = "none"
   BY <1>2 DEF PendingCommit, NoSegment
 <2>2. row'[j].status = "queued" /\ submit'[j] = "requeued"
   BY <1>2, <2>1, FlushStatus DEF PendingCommit, PublishPending
 <2>3. \A k \in Jobs : k # j => row'[k] = row[k] /\ submit'[k] = submit[k]
   BY <1>2 DEF PendingCommit
 <2>4. UNCHANGED <<duty, requests, running, results>>
   BY <1>2 DEF PendingCommit, streamVars
 <2>5. Committed'
   BY <2>1, <2>2, <2>3, <2>4 DEF Existing
 <2>6. QueuedOnce'
   BY <2>2, <2>3
 <2>7. ReadHolds'
   BY <2>1, <2>2, <2>3, <2>4
 <2> QED BY <2>5, <2>6, <2>7
<1>3. CASE ReplicaStops(r)
 <2>1. row' = row /\ requests' = requests /\ running' = running
   BY <1>3 DEF ReplicaStops, dbVars
 <2>2. segment'[r] = NoSegment /\ duty'[r] = Idle
   BY <1>3 DEF ReplicaStops
 <2>3. \A k \in Jobs : submit'[k] # submit[k] => submit[k] = "marking" /\ submit'[k] = "done"
   BY <1>3 DEF ReplicaStops
 <2>4. \A m \in results' : m.job \in Jobs /\ Existing(m.job)
   BY <1>3 DEF ReplicaStops, Redelivered
 <2>5. Committed' /\ QueuedOnce'
   BY <2>1, <2>2, <2>3, <2>4 DEF Existing, Idle
 <2>6. ReadHolds'
   BY <2>2 DEF Idle, NoSegment
 <2> QED BY <2>5, <2>6
<1> QED BY <1>1, <1>2, <1>3

LEMMA ConsumerSolo ==
    ASSUME TypeOK, Linked, SoloInv, Solo, NEW r \in Replicas, Consumer(r)
    PROVE  SoloInv'
<1> USE Typed DEF SoloInv, Committed, QueuedOnce, ReadHolds, Solo
<1>1. ASSUME NEW m \in results, TakeResult(r, m) PROVE SoloInv'
 <2>1. [m EXCEPT !.left = @ - 1].job = m.job
   BY DEF TypeOK, Results
 <2> QED BY <1>1, <2>1 DEF TakeResult, Existing, dbVars, NoSegment
<1>2. CASE IgnoreResult(r) \/ AckResult(r)
 <2>1. duty' = [duty EXCEPT ![r] = duty'[r]] /\ segment[r] = NoSegment
       /\ UNCHANGED <<row, submit, segment, requests, running, results>>
   BY <1>2 DEF IgnoreResult, AckResult, dbVars, streamVars
 <2>2. \/ duty'[r] = Idle
       \/ /\ duty[r].task = "apply" /\ duty'[r].task = "ack"
          /\ duty'[r].msg = duty[r].msg
   BY <1>2, StillHeld DEF IgnoreResult, AckResult
 <2> QED BY <2>1, <2>2 DEF Existing, Idle, NoSegment
<1>3. CASE ApplyRead(r)
 <2>1. duty[r].msg.job \in Jobs /\ Existing(duty[r].msg.job)
       /\ row[duty[r].msg.job].status \in {"queued", "running"}
   BY <1>3 DEF ApplyRead, Existing, Rows, Statuses, Terminal
 <2> QED BY <1>3, <2>1 DEF ApplyRead, Existing, dbVars, streamVars
<1>4. CASE Apply(r)
 <2> DEFINE j == segment[r].job
 <2>1. segment[r].task = "apply" /\ j \in Jobs /\ duty[r].task = "apply"
       /\ duty[r].msg.job = j /\ Existing(j)
   BY <1>4 DEF Apply, ApplyFailure, ApplySuccess, ApplyRaises, NoSegment, Linked
 <2>2. segment'[r] = NoSegment /\ UNCHANGED <<submit, requests, running>>
   BY <1>4 DEF Apply, ApplyFailure, ApplySuccess, ApplyRaises, streamVars, dbVars
 <2>3. \/ duty'[r] = Idle
       \/ duty'[r].task = "ack" /\ duty'[r].msg = duty[r].msg
   BY <1>4, <2>1, StillHeld DEF Apply, ApplyFailure, ApplySuccess, ApplyRaises
 <2>4. /\ \A k \in Jobs : k # j => row'[k] = row[k]
       /\ row'[j].status \in {row[j].status, "failed", "succeeded"}
   BY <1>4, FlushStatus DEF Apply, ApplyFailure, ApplySuccess, ApplyRaises, Finished, dbVars
 <2>5. \A m \in results' : m \in results \/ m = duty[r].msg
   BY <1>4 DEF Apply, ApplyFailure, ApplySuccess, ApplyRaises, Redelivered, streamVars
 <2>6. Committed'
   BY <2>1, <2>2, <2>3, <2>4, <2>5 DEF Existing, Idle
 <2>7. QueuedOnce'
   BY <2>2, <2>4
 <2>8. ReadHolds'
   BY <2>2, <2>3 DEF Idle, NoSegment
 <2> QED BY <2>6, <2>7, <2>8
<1> QED BY <1>1, <1>2, <1>3, <1>4 DEF Consumer

LEMMA RecoverySolo ==
    ASSUME TypeOK, Linked, SoloInv, Solo, NEW r \in Replicas, Recovery(r)
    PROVE  SoloInv'
<1> USE Typed DEF SoloInv, Committed, QueuedOnce, ReadHolds, Solo
<1>1. ASSUME NEW j \in Jobs, RepublishRead(r, j) PROVE SoloInv'
  BY <1>1 DEF RepublishRead, Existing, dbVars, streamVars, NoSegment
<1>2. CASE RepublishSend(r)
 <2>1. \A m \in requests' : Existing(m.job)'
   BY <1>2, StoredExist DEF RepublishSend, dbVars
 <2> QED BY <1>2, <2>1 DEF RepublishSend, Existing, Idle, dbVars
<1>3. CASE RepublishRaises(r)
  BY <1>3 DEF RepublishRaises, Existing, Idle, dbVars, streamVars
<1>4. CASE RepublishRefuse(r)
 <2> DEFINE j == duty[r].job
 <2>1. /\ j \in Jobs /\ segment[r] = NoSegment /\ duty'[r] = Idle
       /\ UNCHANGED <<submit, segment, requests, running, results>>
   BY <1>4 DEF RepublishRefuse, streamVars
 <2>2. /\ \A k \in Jobs : k # j => row'[k] = row[k]
       /\ row'[j].status = "failed"
   BY <1>4, <2>1, FlushStatus DEF RepublishRefuse, Finished
 <2>3. Committed'
  <3>1. \A k \in Jobs : Existing(k)' <=> Existing(k)
    BY <1>4, <2>1, <2>2 DEF RepublishRefuse, Existing
  <3>2. \A p \in Replicas : duty'[p] = Idle
    BY <2>1
  <3> QED BY <2>1, <3>1, <3>2 DEF Idle
 <2>4. QueuedOnce'
   BY <2>1, <2>2
 <2>5. ReadHolds'
   BY <2>1 DEF Idle, NoSegment
 <2> QED BY <2>3, <2>4, <2>5
<1>5. ASSUME NEW j \in Jobs, ReapRead(r, j) PROVE SoloInv'
  BY <1>5 DEF ReapRead, StaleRunning, Existing, dbVars, streamVars, Idle
<1>6. CASE ReapCommit(r)
 <2> DEFINE j == segment[r].job
 <2>1. /\ j \in Jobs /\ segment'[r] = NoSegment
       /\ duty[r].task # "republish"
       /\ UNCHANGED <<submit, duty, requests, running, results>>
   BY <1>6 DEF ReapCommit, NoSegment, streamVars
 <2>2. /\ \A k \in Jobs : k # j => row'[k] = row[k]
       /\ row'[j].status = "failed"
   BY <1>6, <2>1, FlushStatus DEF ReapCommit, Finished
 <2>3. Committed'
  <3>1. \A k \in Jobs : Existing(k)' <=> Existing(k)
    BY <1>6, <2>1, <2>2 DEF ReapCommit, Existing
  <3> QED BY <2>1, <3>1
 <2>4. QueuedOnce'
   BY <2>1, <2>2
 <2>5. ReadHolds'
   BY <2>1 DEF NoSegment
 <2> QED BY <2>3, <2>4, <2>5
<1> QED BY <1>1, <1>2, <1>3, <1>4, <1>5, <1>6 DEF Recovery, Republish

LEMMA SoloStep ==
    ASSUME TypeOK, Linked, SoloInv, Solo, [Next]_vars
    PROVE  SoloInv'
<1>1. CASE UNCHANGED vars
  BY <1>1 DEF vars, dbVars, streamVars, SoloInv, Committed, QueuedOnce, ReadHolds, Existing
<1>2. ASSUME NEW j \in Jobs, Endpoint(j) \/ Stream(j) \/ Aged(j) \/ Poll(j)
      PROVE  SoloInv'
  BY <1>2, EndpointSolo, StreamSolo
<1>3. ASSUME NEW r \in Replicas,
             \/ \E j \in Jobs : PendingRead(r, j)
             \/ PendingCommit(r)
             \/ ReplicaStops(r)
      PROVE  SoloInv'
  BY <1>3, PendingSolo
<1>4. ASSUME NEW r \in Replicas, Consumer(r) \/ Recovery(r) PROVE SoloInv'
  BY <1>4, ConsumerSolo, RecoverySolo
<1> QED BY <1>1, <1>2, <1>3, <1>4, WorkerSolo DEF Next

----
(* Every step is a step of the view or leaves it alone.                    *)

ViewVars == <<[j \in Jobs |-> row[j].status],
              {j \in Jobs : stamp[j] > 0 \/ j \in pruned},
              {j \in Jobs : submit[j] = "requeued"}>>

LEMMA OneRowChanges ==
    ASSUME NEW j \in Jobs, NEW status,
           \A k \in Jobs : k # j => row'[k] = row[k],
           row'[j].status = status
    PROVE  View!Become(j, status)
BY DEF View!Become

\* Only recovery, the polls and failures: nothing is recorded or re-queued.
LEMMA ViewFail ==
    ASSUME NEW j \in Jobs,
           \A k \in Jobs : k # j => row'[k] = row[k],
           row[j].status \in {"queued", "running", "failed"},
           row'[j].status = "failed",
           UNCHANGED <<stamp, pruned, submit>>
    PROVE  View!Fail(j) \/ UNCHANGED ViewVars
<1>1. CASE row[j].status = "failed"
  BY <1>1 DEF ViewVars
<1>2. CASE row[j].status # "failed"
  BY <1>2, OneRowChanges DEF View!Fail
<1> QED BY <1>1, <1>2

LEMMA ViewStep ==
    ASSUME TypeOK, Linked, SoloInv, Solo, Next
    PROVE  (\E j \in Jobs : View!Commit(j) \/ View!Succeed(j) \/ View!Fail(j) \/ View!Requeue(j))
           \/ UNCHANGED ViewVars
<1> USE Typed DEF SoloInv, Committed, QueuedOnce, ReadHolds, Solo
<1>1. ASSUME NEW j \in Jobs, DispatchCommit(j) \/ RefuseOversized(j) PROVE View!Commit(j)
 <2>1. row[j].status = "absent" /\ UNCHANGED <<stamp, pruned>>
   BY <1>1 DEF DispatchCommit, RefuseOversized, Existing
 <2>2. /\ \A k \in Jobs : k # j => row'[k] = row[k]
       /\ row'[j].status \in {"running", "failed"}
   BY <1>1 DEF DispatchCommit, RefuseOversized, Dispatched, Finished
 <2>3. {k \in Jobs : submit[k] = "requeued"}' = {k \in Jobs : submit[k] = "requeued"}
   BY <1>1 DEF DispatchCommit, RefuseOversized
 <2> QED BY <2>1, <2>2, <2>3, OneRowChanges DEF View!Commit
<1>2. ASSUME NEW j \in Jobs, Poll(j) PROVE View!Fail(j) \/ UNCHANGED ViewVars
  BY <1>2, ViewFail DEF Poll, Finished, StaleRunning, StaleQueued
<1>3. ASSUME NEW r \in Replicas, PendingCommit(r)
      PROVE  \E j \in Jobs : View!Requeue(j)
 <2>0. PICK j \in Jobs : j = segment[r].job
   BY <1>3 DEF PendingCommit, NoSegment
 <2>1. /\ submit[j] = "marking" /\ segment[r].read.status # "queued"
       /\ Existing(j) /\ row[j].status # "queued"
   BY <1>3, <2>0 DEF PendingCommit, NoSegment
 <2>2. row'[j].status = "queued" /\ submit'[j] = "requeued"
   BY <1>3, <2>0, <2>1, FlushStatus DEF PendingCommit, PublishPending
 <2>3. \A k \in Jobs : k # j => row'[k] = row[k] /\ submit'[k] = submit[k]
   BY <1>3, <2>0 DEF PendingCommit
 <2>4. row[j].status \in {"running", "succeeded", "failed"}
   BY <2>1 DEF Existing, Rows, Statuses, Terminal
 <2>5. {k \in Jobs : submit[k] = "requeued"}' = {k \in Jobs : submit[k] = "requeued"} \cup {j}
   BY <2>1, <2>2, <2>3
 <2>6. View!Become(j, "queued")
   BY <2>1, <2>2, <2>3, OneRowChanges
 <2>7. UNCHANGED <<stamp, pruned>>
   BY <1>3 DEF PendingCommit
 <2> QED BY <2>1, <2>4, <2>5, <2>6, <2>7 DEF View!Requeue
<1>4. ASSUME NEW r \in Replicas, ApplyFailure(r) \/ ReapCommit(r)
      PROVE  (\E j \in Jobs : View!Fail(j)) \/ UNCHANGED ViewVars
 <2>0. PICK j \in Jobs : j = segment[r].job
   BY <1>4 DEF ApplyFailure, ReapCommit, NoSegment
 <2>1. row[j].status \in {"queued", "running", "failed"}
       /\ segment[r].read.status # "failed"
   BY <1>4, <2>0 DEF ApplyFailure, ReapCommit, NoSegment
 <2>2. /\ \A k \in Jobs : k # j => row'[k] = row[k]
       /\ row'[j].status = "failed"
   BY <1>4, <2>0, <2>1, FlushStatus DEF ApplyFailure, ReapCommit, Finished
 <2>3. UNCHANGED <<stamp, pruned, submit>>
   BY <1>4 DEF ApplyFailure, ReapCommit
 <2> QED BY <2>1, <2>2, <2>3, ViewFail
<1>5. ASSUME NEW r \in Replicas, RepublishRefuse(r)
      PROVE  (\E j \in Jobs : View!Fail(j)) \/ UNCHANGED ViewVars
 <2>0. PICK j \in Jobs : j = duty[r].job
   BY <1>5 DEF RepublishRefuse
 <2>1. row[j].status \in {"queued", "failed"}
       /\ duty[r].read.status # "failed"
   BY <1>5, <2>0 DEF RepublishRefuse
 <2>2. /\ \A k \in Jobs : k # j => row'[k] = row[k]
       /\ row'[j].status = "failed"
   BY <1>5, <2>0, <2>1, FlushStatus DEF RepublishRefuse, Finished
 <2>3. UNCHANGED <<stamp, pruned, submit>>
   BY <1>5 DEF RepublishRefuse
 <2> QED BY <2>1, <2>2, <2>3, ViewFail
<1>6. ASSUME NEW r \in Replicas, ApplySuccess(r)
      PROVE  \E j \in Jobs : View!Succeed(j)
 <2>0. PICK j \in Jobs : j = segment[r].job
   BY <1>6 DEF ApplySuccess, NoSegment
 <2> DEFINE recorded == [stamp EXCEPT ![j] = clock + 1]
 <2>1. /\ row[j].status \in {"queued", "running", "failed"}
       /\ segment[r].read.status # "succeeded" /\ submit' = submit
   BY <1>6, <2>0 DEF ApplySuccess, NoSegment
 <2>2. /\ \A k \in Jobs : k # j => row'[k] = row[k]
       /\ row'[j].status = "succeeded"
   BY <1>6, <2>0, <2>1, FlushStatus DEF ApplySuccess, Finished
 <2>3. stamp' = Retained(recorded)
       /\ pruned' = pruned \cup {k \in Jobs : recorded[k] > 0 /\ Retained(recorded)[k] = 0}
   BY <1>6, <2>0 DEF ApplySuccess
 <2>4. \A k \in Jobs : Recorded(k) \/ k = j => Recorded(k)'
   BY <1>6, <2>0, RecordedAfterSuccess
 <2>5. \A k \in Jobs : Recorded(k)' => Recorded(k) \/ k = j
  <3> SUFFICES ASSUME NEW k \in Jobs, Recorded(k)', k # j PROVE Recorded(k)
    OBVIOUS
  <3>1. recorded[k] = stamp[k] /\ stamp[k] \in Nat
    BY DEF TypeOK
  <3>2. Retained(recorded)[k] \in {recorded[k], 0}
    BY RetainedValue
  <3> HIDE DEF recorded
  <3> QED BY <2>3, <3>1, <3>2 DEF Recorded
 <2>6. {k \in Jobs : Recorded(k)}' = {k \in Jobs : Recorded(k)} \cup {j}
   BY <2>1, <2>4, <2>5
 <2> QED BY <2>1, <2>2, <2>6, OneRowChanges DEF View!Succeed, Recorded
<1>7. ASSUME NEW j \in Jobs, Endpoint(j) \/ Stream(j) \/ Aged(j),
             ~DispatchCommit(j), ~RefuseOversized(j)
      PROVE  UNCHANGED ViewVars
 <2>1. UNCHANGED <<row, stamp, pruned>>
   BY <1>7 DEF Endpoint, Stream, Aged, SubmitRolledBack, PublishAcked, PublishRaised,
      EndpointDies, RequestIdForgotten, ResultIdForgotten, dbVars
 <2>2. \A k \in Jobs : submit'[k] = "requeued" <=> submit[k] = "requeued"
   BY <1>7 DEF Endpoint, Stream, Aged, SubmitRolledBack, PublishAcked, PublishRaised,
      EndpointDies, RequestIdForgotten, ResultIdForgotten
 <2> QED BY <2>1, <2>2 DEF ViewVars
<1>8. ASSUME Worker PROVE UNCHANGED ViewVars
  BY <1>8 DEF Worker, Deliver, PublishResult, AckRequest, WorkerLost, dbVars, ViewVars
<1>9. ASSUME NEW r \in Replicas,
             \/ \E j \in Jobs : RepublishRead(r, j) \/ ReapRead(r, j)
             \/ \E m \in results : TakeResult(r, m)
             \/ IgnoreResult(r) \/ ApplyRead(r) \/ ApplyRaises(r) \/ AckResult(r)
             \/ RepublishSend(r) \/ RepublishRaises(r)
      PROVE  UNCHANGED ViewVars
  BY <1>9 DEF RepublishRead, ReapRead, TakeResult, IgnoreResult, ApplyRead,
     ApplyRaises, AckResult, RepublishSend, RepublishRaises, dbVars, ViewVars
<1>10. ASSUME NEW r \in Replicas,
              \/ \E j \in Jobs : PendingRead(r, j)
              \/ ReplicaStops(r)
       PROVE  UNCHANGED ViewVars
 <2>1. UNCHANGED <<row, stamp, pruned>>
   BY <1>10 DEF PendingRead, ReplicaStops, dbVars
 <2>2. \A k \in Jobs : submit'[k] = "requeued" <=> submit[k] = "requeued"
   BY <1>10 DEF PendingRead, ReplicaStops, NoSegment
 <2> QED BY <2>1, <2>2 DEF ViewVars
<1> DEFINE Goal == (\E j \in Jobs : View!Commit(j) \/ View!Succeed(j) \/ View!Fail(j)
                                      \/ View!Requeue(j))
                   \/ UNCHANGED ViewVars
<1>11. ASSUME NEW j \in Jobs, Endpoint(j) \/ Stream(j) \/ Aged(j) \/ Poll(j) PROVE Goal
  BY <1>1, <1>2, <1>7, <1>11
<1>12. ASSUME NEW r \in Replicas, PendingCommit(r) \/ Apply(r) \/ ReapCommit(r) PROVE Goal
  BY <1>3, <1>4, <1>6, <1>9, <1>12 DEF Apply
<1>13. ASSUME NEW r \in Replicas, Republish(r) PROVE Goal
  BY <1>5, <1>9, <1>13 DEF Republish
<1>14. ASSUME NEW r \in Replicas,
              \/ \E j \in Jobs : PendingRead(r, j) \/ RepublishRead(r, j) \/ ReapRead(r, j)
              \/ \E m \in results : TakeResult(r, m)
              \/ IgnoreResult(r) \/ ApplyRead(r) \/ AckResult(r) \/ ReplicaStops(r)
       PROVE  Goal
  BY <1>9, <1>10, <1>14
<1>15. Goal
 <2> HIDE DEF Goal
 <2> QED BY <1>8, <1>11, <1>12, <1>13, <1>14 DEF Next, Consumer, Recovery, Goal
<1> QED BY <1>15

\* With one API process, every behaviour of the pipeline is one the polling
\* client was promised: no success is undone except by the endpoint's own
\* re-queueing, which happens once, and no job runs again.
THEOREM ViewImplemented == Solo /\ Spec => ImplementsView
<1> SUFFICES ASSUME Solo PROVE Spec => View!Spec
  BY DEF ImplementsView
<1>1. Init => View!Init
  BY DEF Init, View!Init, AbsentRow
<1>2. TypeOK /\ Linked /\ SoloInv /\ [Next]_vars => SoloInv'
  BY SoloStep
<1>3. TypeOK /\ Linked /\ SoloInv /\ [Next]_vars => [View!Next]_View!vars
 <2> SUFFICES ASSUME TypeOK, Linked, SoloInv, [Next]_vars PROVE [View!Next]_View!vars
   OBVIOUS
 <2>1. CASE UNCHANGED vars
   BY <2>1 DEF vars, dbVars, View!vars
 <2>2. CASE Next
   BY <2>2, ViewStep DEF View!Next, View!vars, ViewVars
 <2> QED BY <2>1, <2>2
<1> QED BY <1>1, <1>2, <1>3, SoloInit, TypeInvariant, PTL DEF Spec, View!Spec
=============================================================================
