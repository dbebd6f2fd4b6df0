--------------------------- MODULE PiAgentProgress ---------------------------
(***************************************************************************)
(* Progress of one AI edit while a Pi agent works on it.  Each execution   *)
(* of the edit's request has a batcher: the agent's events are coalesced,  *)
(* flushed into a bounded queue by a timer or a tool milestone, and a      *)
(* publisher task sends them as numbered batches ahead of the result.  The *)
(* API's consumer merges batches into the snapshot on the job's row.       *)
(*                                                                         *)
(* A request that is delivered again starts another execution while the    *)
(* first may still be running.  The consumer locks the row, so applying    *)
(* one message is one step; messages come in any order, and again when     *)
(* their ack was lost.  Each execution has the start time its own worker's *)
(* clock gave it, which is all the consumer can order executions by.       *)
(***************************************************************************)
EXTENDS Naturals, Sequences, SequencesExt

CONSTANTS
    Deliveries,   \* deliveries of the edit's request to a worker
    Clock,        \* times the workers' clocks may show when they start
    MaxText,      \* _MAX_PROGRESS_TEXT: size of one reasoning event
    MaxDelta,     \* bound: size of one reasoning delta of the agent
    MaxPending,   \* _MAX_PROGRESS_EVENTS: events of one batch
    MaxQueued,    \* _MAX_PROGRESS_QUEUE_BATCHES
    MaxEnvelope,  \* pi_agent_result_max_bytes: size of one message
    Attempts,     \* publish attempts of one batch
    MaxShown,     \* PI_AGENT_PROGRESS_MAX_EVENTS
    MaxShownSize, \* PI_AGENT_PROGRESS_MAX_BYTES
    MaxEvents,    \* bound: events one execution numbers
    NoExecution   \* the job did not end by a result

ASSUME ProgressAssumption ==
    /\ Clock \subseteq Nat
    /\ {MaxText, MaxPending, MaxQueued, Attempts, MaxShown} \subseteq Nat \ {0}
    /\ {MaxDelta, MaxEnvelope, MaxEvents} \subseteq Nat
    /\ MaxShownSize \in Nat /\ MaxShownSize >= MaxText
    /\ NoExecution \notin Deliveries

VARIABLES
    startedAt,  \* execution_started_at of each execution
    phase,      \* of an execution: idle, running, closing, over
    batcher,    \* its _PiAgentProgressBatcher
    publisher,  \* its publisher task
    stored,     \* progress batches the stream ever stored
    answers,    \* executions whose result the stream holds
    active,     \* the job's row is queued or running
    endedBy,    \* the execution whose result ended the job
    shown       \* progress_payload of the job's row

progressVars == <<startedAt, phase, batcher, publisher, stored, answers, active,
                  endedBy, shown>>

----
(* Events, batches, the snapshot.  Text is its length.                     *)

Events == [sequence : 1..(MaxEvents + MaxDelta), kind : {"reasoning", "tool"}, size : 1..MaxText]
Stop == <<>>
Batches == [execution : Deliveries, batch : Nat \ {0}, events : Seq(Events)]
NoProgress == [execution |-> NoExecution, startedAt |-> 0, batch |-> 0, last |-> 0,
               truncated |-> 0, events |-> <<>>]

SizeOf(events) == FoldLeft(LAMBDA n, e : n + e.size, 0, events)

\* _publish_events: a batch above the envelope's limit is halved until its
\* pieces fit; a single event that does not fit is dropped.
Pieces[events \in Seq(Events)] ==
    IF SizeOf(events) <= MaxEnvelope THEN <<events>>
    ELSE IF Len(events) <= 1 THEN <<>>
    ELSE LET middle == Len(events) \div 2
         IN  Pieces[SubSeq(events, 1, middle)] \o Pieces[SubSeq(events, middle + 1, Len(events))]

\* The longest suffix the snapshot may keep.
Fits(events, i) ==
    LET kept == SubSeq(events, i, Len(events))
    IN  Len(kept) <= MaxShown /\ SizeOf(kept) <= MaxShownSize
FirstKept(events) ==
    CHOOSE i \in 1..Len(events) :
        Fits(events, i) /\ \A j \in 1..(i - 1) : ~Fits(events, j)

----
(* The batcher.  Its methods hold its lock and do not wait inside, so each *)
(* is a function of its state.                                             *)

FreshBatcher == [pending |-> <<>>, next |-> 1, queue |-> <<>>, timer |-> FALSE,
                 disabled |-> FALSE]
FreshPublisher == [pieces |-> <<>>, attempt |-> 0, wire |-> "none", batch |-> 1, done |-> FALSE]

\* _disable_progress: progress is given up for the rest of the execution.
Disabled(b) == [b EXCEPT !.pending = <<>>, !.queue = <<>>, !.disabled = TRUE]

Flush(b) ==
    IF b.pending = <<>> THEN [b EXCEPT !.timer = FALSE]
    ELSE IF Len(b.queue) < MaxQueued
    THEN [b EXCEPT !.timer = FALSE, !.queue = Append(@, b.pending), !.pending = <<>>]
    ELSE Disabled([b EXCEPT !.timer = FALSE])

Numbered(b, kind, size) ==
    LET event == [sequence |-> b.next, kind |-> kind, size |-> size]
    IN  [b EXCEPT !.pending = Append(@, event), !.next = @ + 1]

WithRoom(b) == IF Len(b.pending) >= MaxPending THEN Flush(b) ELSE b

ToolAdded(b) == Flush(Numbered(WithRoom(b), "tool", 1))

\* A delta first fills the last reasoning event, then is cut into new ones.
Space(b) ==
    IF b.pending # <<>> /\ Last(b.pending).kind = "reasoning"
    THEN MaxText - Last(b.pending).size
    ELSE 0

ChunkAdded(b, size) ==
    LET room == WithRoom(b)
    IN  IF b.disabled \/ room.disabled THEN room ELSE Numbered(room, "reasoning", size)

ReasoningAdded(b, n) ==
    LET fill == Min({n, Space(b)})
        filled == IF fill = 0 THEN b ELSE [b EXCEPT !.pending[Len(b.pending)].size = @ + fill]
        rest == n - fill
        chunks == [i \in 1..((rest + MaxText - 1) \div MaxText) |->
                      Min({MaxText, rest - (i - 1) * MaxText})]
    IN  FoldLeft(ChunkAdded, filled, chunks)

MutStopped(b, done) ==
    IF b.disabled \/ done \/ Len(b.queue) >= MaxQueued THEN b
    ELSE [b EXCEPT !.queue = Append(@, Stop)]

\* _enqueue_stop_locked
Stopped(b, done) ==
    IF b.disabled \/ done THEN b
    ELSE IF Len(b.queue) < MaxQueued THEN [b EXCEPT !.queue = Append(@, Stop)]
    ELSE Disabled(b)

\* Disabling cancels the publisher, unless it is the publisher that disables.
Cancelled(p) == [p EXCEPT !.pieces = <<>>, !.wire = "none", !.done = TRUE]

----
(* The worker.                                                             *)

ProgressInit ==
    /\ startedAt \in [Deliveries -> Clock]
    /\ phase = [e \in Deliveries |-> "idle"]
    /\ batcher = [e \in Deliveries |-> FreshBatcher]
    /\ publisher = [e \in Deliveries |-> FreshPublisher]
    /\ stored = {} /\ answers = {}
    /\ active = TRUE
    /\ endedBy = NoExecution
    /\ shown = NoProgress

\* The batcher of e becomes b.
Becomes(e, b) ==
    /\ batcher' = [batcher EXCEPT ![e] = b]
    /\ publisher' = IF b.disabled THEN [publisher EXCEPT ![e] = Cancelled(@)] ELSE publisher

StartExecution(e) ==
    /\ phase[e] = "idle"
    /\ phase' = [phase EXCEPT ![e] = "running"]
    /\ UNCHANGED <<startedAt, batcher, publisher, stored, answers, active, endedBy, shown>>

\* _PiAgentProgressBatcher.add
AddEvent(e) ==
    LET b == batcher[e]
        Added == {ToolAdded(b)} \cup {ReasoningAdded(b, n) : n \in 1..MaxDelta}
    IN  /\ phase[e] = "running" /\ ~b.disabled /\ b.next <= MaxEvents
        /\ \E c \in Added : Becomes(e, [c EXCEPT !.timer = @ \/ c.pending # <<>>])
        /\ UNCHANGED <<startedAt, phase, stored, answers, active, endedBy, shown>>

\* _flush_after_delay
TimerFires(e) ==
    /\ phase[e] = "running" /\ batcher[e].timer
    /\ Becomes(e, IF batcher[e].disabled THEN [batcher[e] EXCEPT !.timer = FALSE]
                  ELSE Flush(batcher[e]))
    /\ UNCHANGED <<startedAt, phase, stored, answers, active, endedBy, shown>>

\* close, up to where it waits for the publisher.
CloseBatcher(e) ==
    /\ phase[e] = "running"
    /\ phase' = [phase EXCEPT ![e] = "closing"]
    /\ Becomes(e, Stopped(Flush(batcher[e]), publisher[e].done))
    /\ UNCHANGED <<startedAt, stored, answers, active, endedBy, shown>>

\* _publish_loop takes the next batch, or the stop marker.
TakeBatch(e) ==
    LET b == batcher[e]
    IN  /\ phase[e] \in {"running", "closing"}
        /\ ~publisher[e].done /\ publisher[e].pieces = <<>> /\ b.queue # <<>>
        /\ batcher' = [batcher EXCEPT ![e].queue = Tail(@)]
        /\ publisher' = [publisher EXCEPT ![e] =
               IF Head(b.queue) = Stop THEN [@ EXCEPT !.done = TRUE]
               ELSE [@ EXCEPT !.pieces = Pieces[Head(b.queue)]]]
        /\ UNCHANGED <<startedAt, phase, stored, answers, active, endedBy, shown>>

\* One attempt of _publish_events; a batch stored by an earlier attempt has
\* the same message id and is not stored again.
SendBatch(e) ==
    LET p == publisher[e]
        message == [execution |-> e, batch |-> p.batch, events |-> Head(p.pieces)]
    IN  /\ phase[e] \in {"running", "closing"}
        /\ p.pieces # <<>> /\ p.wire = "none"
        /\ \E wire \in {"stored", "lost"} :
              /\ stored' = IF wire = "stored" THEN stored \cup {message} ELSE stored
              /\ publisher' = [publisher EXCEPT ![e].wire = wire, ![e].attempt = @ + 1]
        /\ UNCHANGED <<startedAt, phase, batcher, answers, active, endedBy, shown>>

BatchAcknowledged(e) ==
    /\ phase[e] \in {"running", "closing"}
    /\ publisher[e].wire = "stored"
    /\ publisher' = [publisher EXCEPT ![e].pieces = Tail(@), ![e].wire = "none",
                                     ![e].attempt = 0, ![e].batch = @ + 1]
    /\ UNCHANGED <<startedAt, phase, batcher, stored, answers, active, endedBy, shown>>

\* An attempt fails or times out; the last one ends progress.
BatchFails(e) ==
    LET p == publisher[e]
    IN  /\ phase[e] \in {"running", "closing"}
        /\ p.wire # "none"
        /\ IF p.attempt < Attempts
           THEN /\ publisher' = [publisher EXCEPT ![e].wire = "none"]
                /\ UNCHANGED batcher
           ELSE Becomes(e, Disabled(batcher[e]))
        /\ UNCHANGED <<startedAt, phase, stored, answers, active, endedBy, shown>>

\* close gives up waiting for the publisher.
DrainTimesOut(e) ==
    /\ phase[e] = "closing" /\ ~publisher[e].done
    /\ Becomes(e, Disabled(batcher[e]))
    /\ UNCHANGED <<startedAt, phase, stored, answers, active, endedBy, shown>>

MutAnswer(e) ==
    /\ phase[e] = "closing"
    /\ answers' = answers \cup {e}
    /\ UNCHANGED <<startedAt, phase, batcher, publisher, stored, active, endedBy, shown>>

\* The batcher is closed and gone: the worker publishes the result.
Answer(e) ==
    /\ phase[e] = "closing" /\ publisher[e].done
    /\ phase' = [phase EXCEPT ![e] = "over"]
    /\ answers' = answers \cup {e}
    /\ batcher' = [batcher EXCEPT ![e] = FreshBatcher]
    /\ publisher' = [publisher EXCEPT ![e] = FreshPublisher]
    /\ UNCHANGED <<startedAt, stored, active, endedBy, shown>>

\* The pod is stopped or dies, its request cannot be kept alive, or no attempt
\* to publish the result succeeds: there is no result of this execution.
Abandon(e) ==
    /\ phase[e] \in {"running", "closing"}
    /\ phase' = [phase EXCEPT ![e] = "over"]
    /\ batcher' = [batcher EXCEPT ![e] = FreshBatcher]
    /\ publisher' = [publisher EXCEPT ![e] = FreshPublisher]
    /\ UNCHANGED <<startedAt, stored, answers, active, endedBy, shown>>

----
(* The consumer of the result subject, and the job's row.                  *)

MutMerged(message) ==
    LET events == shown.events \o message.events
        first == FirstKept(events)
    IN  [execution |-> message.execution, startedAt |-> startedAt[message.execution],
         batch |-> message.batch, last |-> Last(message.events).sequence,
         truncated |-> IF first > 1 THEN events[first - 1].sequence ELSE shown.truncated,
         events |-> SubSeq(events, first, Len(events))]

\* apply_progress_batch: the snapshot after a batch it accepts.
Merged(message) ==
    LET same == shown.execution = message.execution
        events == IF same THEN shown.events \o message.events ELSE message.events
        first == FirstKept(events)
    IN  [execution |-> message.execution, startedAt |-> startedAt[message.execution],
         batch |-> message.batch, last |-> Last(message.events).sequence,
         truncated |-> IF first > 1 THEN events[first - 1].sequence
                       ELSE IF same THEN shown.truncated ELSE 0,
         events |-> SubSeq(events, first, Len(events))]

\* Not a terminal job, a duplicate, an old sequence or an older execution.
Accepts(message) ==
    /\ active
    /\ \/ shown = NoProgress
       \/ /\ shown.execution = message.execution
          /\ message.batch > shown.batch
          /\ Head(message.events).sequence > shown.last
       \/ /\ shown.execution # message.execution
          /\ startedAt[message.execution] > shown.startedAt

\* _handle_pi_agent_progress_message.  A message is handled whenever it is
\* delivered: late, out of order, and again when its ack was lost.
ConsumeProgress(message) ==
    /\ message \in stored
    /\ Accepts(message)
    /\ shown' = Merged(message)
    /\ UNCHANGED <<startedAt, phase, batcher, publisher, stored, answers, active, endedBy>>

\* _clear_progress_from_other_execution
Kept(e) == IF shown.execution = e THEN shown ELSE NoProgress

\* apply_pi_agent_result ends the job with the result of e.
ConsumeResult(e) ==
    /\ e \in answers /\ active
    /\ active' = FALSE
    /\ endedBy' = e
    /\ shown' = Kept(e)
    /\ UNCHANGED <<startedAt, phase, batcher, publisher, stored, answers>>

\* The sweep or a status poll fails the job: no result came in time.
GiveUp ==
    /\ active
    /\ active' = FALSE
    /\ UNCHANGED <<startedAt, phase, batcher, publisher, stored, answers, endedBy, shown>>

ProgressNext ==
    \/ \E e \in Deliveries :
          \/ StartExecution(e) \/ AddEvent(e) \/ TimerFires(e) \/ CloseBatcher(e)
          \/ TakeBatch(e) \/ SendBatch(e) \/ BatchAcknowledged(e) \/ BatchFails(e)
          \/ DrainTimesOut(e) \/ Answer(e) \/ Abandon(e) \/ ConsumeResult(e)
    \/ \E message \in stored : ConsumeProgress(message)
    \/ GiveUp

ProgressSpec == ProgressInit /\ [][ProgressNext]_progressVars

\* The publisher task is scheduled, and each attempt ends (it has a timeout).
PublisherStep(e) == TakeBatch(e) \/ SendBatch(e) \/ BatchAcknowledged(e) \/ BatchFails(e)
PublisherFairness == \A e \in Deliveries : WF_progressVars(PublisherStep(e))

----
(* Properties.                                                             *)

\* Every part of the state has its type; in particular the queue of batches
\* is within its limit and the snapshot within its two.
ProgressTypeOK ==
    /\ startedAt \in [Deliveries -> Clock]
    /\ phase \in [Deliveries -> {"idle", "running", "closing", "over"}]
    /\ \A e \in Deliveries :
          LET b == batcher[e] p == publisher[e]
          IN  /\ b.pending \in Seq(Events) /\ Len(b.pending) <= MaxPending
              /\ b.next \in 1..(MaxEvents + MaxDelta + 1)
              /\ b.queue \in Seq(Seq(Events)) /\ Len(b.queue) <= MaxQueued
              /\ b.timer \in BOOLEAN /\ b.disabled \in BOOLEAN
              /\ p.pieces \in Seq(Seq(Events))
              /\ p.attempt \in 0..Attempts /\ p.wire \in {"none", "stored", "lost"}
              /\ p.batch \in Nat \ {0} /\ p.done \in BOOLEAN
    /\ stored \subseteq Batches
    /\ answers \subseteq Deliveries
    /\ active \in BOOLEAN /\ endedBy \in Deliveries \cup {NoExecution}
    /\ shown.execution \in Deliveries \cup {NoExecution}
    /\ Len(shown.events) <= MaxShown /\ SizeOf(shown.events) <= MaxShownSize

BatchesOf(e) == {m \in stored : m.execution = e}

\* The batches the stream holds of an execution are numbered without a gap and
\* carry its events in order, each once: retries, splits, a full queue and
\* failed attempts lose only the end of the progress, never its middle.
BatchesHaveNoGap ==
    \A e \in Deliveries :
        /\ \A m \in BatchesOf(e) : \A n \in 1..m.batch : \E k \in BatchesOf(e) : k.batch = n
        /\ \A m, k \in BatchesOf(e) :
              m.batch < k.batch => Last(m.events).sequence < Head(k.events).sequence

\* What a job shows comes from batches of one execution, in their order, none
\* later than the batch it names, and what it dropped lies before it: batches
\* of two executions, reordered and repeated, are never mixed.
ShownIsInOrder ==
    shown # NoProgress =>
        LET sent == {m \in BatchesOf(shown.execution) : m.batch <= shown.batch}
        IN  /\ \A i \in DOMAIN shown.events :
                  /\ \E m \in sent : shown.events[i] \in ToSet(m.events)
                  /\ shown.events[i].sequence > shown.truncated
                  /\ \A j \in 1..(i - 1) : shown.events[j].sequence < shown.events[i].sequence
            /\ \E m \in sent : m.batch = shown.batch /\ Last(m.events) = Last(shown.events)

\* A job that ended by a result shows the progress of that execution, if any,
\* however late the batches of another one arrive.
EndedJobShowsItsExecution ==
    endedBy # NoExecution => shown.execution \in {endedBy, NoExecution}

\* Together: what is stored of an execution has no gap, and batches of two
\* executions never meet in what a job shows.
ShownIsOneExecution == BatchesHaveNoGap /\ ShownIsInOrder /\ EndedJobShowsItsExecution

\* No batch of an execution is stored after its result: the result stands
\* behind all of its progress on the subject.
ResultIsLast ==
    [][\A e \in answers : \A m \in stored' \ stored : m.execution # e]_progressVars

\* Closing a batcher ends by its publisher alone, without the drain timeout,
\* whatever was queued: the stop marker always gets through.
ClosingEnds ==
    \A e \in Deliveries : phase[e] = "closing" ~> publisher[e].done \/ phase[e] = "over"
=============================================================================
