--------------------------- MODULE CompileJobView ---------------------------
(***************************************************************************)
(* What a client that polls compile jobs may rely on when one API process  *)
(* serves it.  A job is committed running (or refused), ends succeeded or  *)
(* failed, and a success always has its artifact bundle.  Two movements    *)
(* against the grain are part of the promise because the code makes them:  *)
(* a late result may still turn a failed job into a succeeded one, and the *)
(* endpoint's own error handler may re-queue the job, once.  Nothing else  *)
(* undoes a success, and no job runs again.                                *)
(***************************************************************************)
CONSTANT Jobs

VARIABLES
    status,    \* the status column of each job, "absent" without a row
    recorded,  \* jobs whose artifact bundle has been recorded
    requeued   \* jobs the endpoint put back to queued

vars == <<status, recorded, requeued>>

Statuses == {"absent", "queued", "running", "succeeded", "failed"}

TypeOK ==
    /\ status \in [Jobs -> Statuses]
    /\ recorded \subseteq Jobs
    /\ requeued \subseteq Jobs

Init ==
    /\ status = [j \in Jobs |-> "absent"]
    /\ recorded = {}
    /\ requeued = {}

Become(j, s) == status' = [status EXCEPT ![j] = s]

Commit(j) ==
    /\ status[j] = "absent"
    /\ Become(j, "running") \/ Become(j, "failed")
    /\ UNCHANGED <<recorded, requeued>>

Succeed(j) ==
    /\ status[j] \in {"queued", "running", "failed"}
    /\ Become(j, "succeeded")
    /\ recorded' = recorded \cup {j}
    /\ UNCHANGED requeued

Fail(j) ==
    /\ status[j] \in {"queued", "running"}
    /\ Become(j, "failed")
    /\ UNCHANGED <<recorded, requeued>>

Requeue(j) ==
    /\ status[j] \in {"running", "succeeded", "failed"}
    /\ j \notin requeued
    /\ Become(j, "queued")
    /\ requeued' = requeued \cup {j}
    /\ UNCHANGED recorded

Next == \E j \in Jobs : Commit(j) \/ Succeed(j) \/ Fail(j) \/ Requeue(j)

Spec == Init /\ [][Next]_vars
=============================================================================
