--------------------------- MODULE PiAgentProcess ---------------------------
(***************************************************************************)
(* One run of the Pi agent by the worker (run_pi_agent).  The agent is a   *)
(* process that writes lines: answers to requests, and events.  A reader   *)
(* task files the answers and puts the events in a bounded queue; the run  *)
(* itself sends requests one after the other and takes events from the     *)
(* queue, so answers overtake events and a burst overflows the queue.      *)
(*                                                                         *)
(* The agent is not trusted to behave: it writes any line at any time,     *)
(* breaks off, never answers, or ignores being asked to stop.              *)
(***************************************************************************)
EXTENDS Naturals, Sequences, SequencesExt

CONSTANTS
    MaxTurns,      \* max_turns
    MaxToolCalls,  \* max_tool_calls
    QueueSize,     \* size of the queue of events
    ToolIds,       \* ids of tool calls
    MaxLines       \* bound: events the agent writes

ASSUME ProcessAssumption ==
    {MaxTurns, MaxToolCalls, QueueSize, MaxLines} \subseteq Nat /\ QueueSize > 0

VARIABLES
    step,      \* what the run is doing
    answered,  \* the answer to its request is there
    queue,     \* events
    reader,    \* the reader task: reading or done
    turns,     \* turn_end events taken
    calls,     \* tool_execution_start events taken
    tools,     \* active_tools: ids of the started tools
    outcome,   \* how the run ended
    process,   \* the agent: running, told (to stop), dead
    lines,     \* events the agent wrote, in order
    told       \* progress notified: <<"started" or "finished", id>>

processVars == <<step, answered, queue, reader, turns, calls, tools, outcome, process,
                 lines, told>>

\* What _normalized_event leaves of a line; a tool that is not a known one has
\* no id, a message is a reasoning delta or the assistant's text.
Plain == {"turn_end", "guard_failure", "provider_failure", "message", "tool_start",
          "agent_settled", "protocol_error"}
Lines == {<<kind>> : kind \in Plain} \cup ({"tool_start", "tool_end"} \X ToolIds)
Overflow == <<"protocol_overflow">>

Requesting == {"get_state", "prompt", "abort", "get_session_stats"}
Steps == Requesting \cup {"idle", "listening", "cleanup", "over"}
Failures == {"protocol_error", "broken_pipe", "tool_guard_failure", "provider_error", "agent_limit_exceeded",
             "model_mismatch", "timeout"}

ProcessInit ==
    /\ step = "idle" /\ answered = FALSE
    /\ queue = <<>> /\ reader = "done"
    /\ turns = 0 /\ calls = 0 /\ tools = {}
    /\ outcome = "none" /\ process = "dead"
    /\ lines = <<>> /\ told = <<>>

----
(* The agent and the reader task.                                          *)

MutSignalled(event) == IF Len(queue) < QueueSize THEN Append(queue, event) ELSE queue

\* _signal: an event that finds the queue full replaces all of it.
Signalled(event) == IF Len(queue) < QueueSize THEN Append(queue, event) ELSE <<Overflow>>

\* A line of the agent is read.  Lines that are not objects or not safe are
\* reported as protocol errors; what cannot be parsed also ends the reading.
ReadEvent(line) ==
    /\ process # "dead" /\ reader = "reading" /\ Len(lines) < MaxLines
    /\ lines' = Append(lines, line)
    /\ queue' = Signalled(line)
    /\ reader' \in IF line = <<"protocol_error">> THEN {"reading", "done"} ELSE {"reading"}
    /\ UNCHANGED <<step, answered, turns, calls, tools, outcome, process, told>>

\* The answer to the request that is waited for; answers to others are dropped.
ReadAnswer ==
    /\ process # "dead" /\ reader = "reading"
    /\ step \in Requesting /\ ~answered
    /\ answered' = TRUE
    /\ UNCHANGED <<step, queue, reader, turns, calls, tools, outcome, process, lines, told>>

\* A line beyond the stream's limit ends the reading with an overflow.
ReadTooLong ==
    /\ process # "dead" /\ reader = "reading"
    /\ reader' = "done"
    /\ queue' = Signalled(Overflow)
    /\ UNCHANGED <<step, answered, turns, calls, tools, outcome, process, lines, told>>

\* The agent ends by itself.  The reader sees the end of its output and
\* signals nothing.
AgentExits ==
    /\ process # "dead"
    /\ process' = "dead"
    /\ reader' = "done"
    /\ UNCHANGED <<step, answered, queue, turns, calls, tools, outcome, lines, told>>

----
(* The run.                                                                *)

\* finally: the run ends as o, the reader is cancelled, the agent is asked to
\* stop.
End(o) ==
    /\ outcome' = o
    /\ step' = "cleanup"
    /\ reader' = "done"
    /\ process' = IF process = "running" THEN "told" ELSE process

\* The agent's process is created, its reader started, its state requested.
StartRun ==
    /\ step = "idle"
    /\ step' = "get_state" /\ process' = "running" /\ reader' = "reading"
    /\ UNCHANGED <<answered, queue, turns, calls, tools, outcome, lines, told>>

Request(kind) ==
    /\ step' = kind /\ answered' = FALSE
    /\ UNCHANGED <<reader, outcome, process>>

\* Where an answer leads; an answer may report a provider failure, and a state
\* the wrong model.
Answered ==
    /\ step \in Requesting /\ answered
    /\ \/ step = "get_state" /\ Request("prompt")
       \/ step = "get_state" /\ End("model_mismatch") /\ UNCHANGED answered
       \/ step = "prompt" /\ Request("listening")
       \/ step = "abort" /\ End("agent_limit_exceeded") /\ UNCHANGED answered
       \/ step = "get_session_stats" /\ End("success") /\ UNCHANGED answered
       \/ End("provider_error") /\ UNCHANGED answered
    /\ UNCHANGED <<queue, turns, calls, tools, lines, told>>

\* request: the reader ended before the answer came, or the agent's input is
\* closed.
NeverAnswered ==
    /\ step \in Requesting /\ ~answered
    /\ \/ reader = "done" /\ End("protocol_error")
       \/ process = "dead" /\ End("broken_pipe")
    /\ UNCHANGED <<answered, queue, turns, calls, tools, lines, told>>

\* The next event of the queue is the line given.
Takes(line) ==
    /\ step = "listening" /\ queue # <<>> /\ Head(queue) = line
    /\ queue' = Tail(queue)
    /\ UNCHANGED lines

TakeFailure ==
    /\ \/ Takes(<<"protocol_error">>) /\ End("protocol_error")
       \/ Takes(Overflow) /\ End("protocol_error")
       \/ Takes(<<"guard_failure">>) /\ End("tool_guard_failure")
       \/ Takes(<<"provider_failure">>) /\ End("provider_error")
    /\ UNCHANGED <<answered, turns, calls, tools, told>>

TakeTurn ==
    /\ Takes(<<"turn_end">>)
    /\ turns' = turns + 1
    /\ IF turns' > MaxTurns THEN Request("abort")
       ELSE UNCHANGED <<step, answered, reader, outcome, process>>
    /\ UNCHANGED <<calls, tools, told>>

CountCall ==
    /\ calls' = calls + 1
    /\ IF calls' > MaxToolCalls THEN Request("abort")
       ELSE UNCHANGED <<step, answered, reader, outcome, process>>

TakeToolStart(id) ==
    /\ Takes(<<"tool_start", id>>)
    /\ CountCall
    /\ IF step' = "abort" THEN UNCHANGED <<tools, told>>
       ELSE tools' = tools \cup {id} /\ told' = Append(told, <<"started", id>>)
    /\ UNCHANGED turns

TakeUnknownTool ==
    /\ Takes(<<"tool_start">>)
    /\ CountCall
    /\ UNCHANGED <<turns, tools, told>>

\* Only a tool that is active is told to have finished.
TakeToolEnd(id) ==
    /\ Takes(<<"tool_end", id>>)
    /\ IF id \in tools
       THEN tools' = tools \ {id} /\ told' = Append(told, <<"finished", id>>)
       ELSE UNCHANGED <<tools, told>>
    /\ UNCHANGED <<step, answered, reader, turns, calls, outcome, process>>

TakeMessage ==
    /\ Takes(<<"message">>)
    /\ UNCHANGED <<step, answered, reader, turns, calls, tools, outcome, process, told>>

TakeSettled ==
    /\ Takes(<<"agent_settled">>)
    /\ Request("get_session_stats")
    /\ UNCHANGED <<turns, calls, tools, told>>

\* asyncio.timeout
RunTimesOut ==
    /\ step \in Requesting \cup {"listening"}
    /\ End("timeout")
    /\ UNCHANGED <<answered, queue, turns, calls, tools, lines, told>>

----
(* _cleanup.                                                               *)

MutStopAgent ==
    /\ step = "cleanup" /\ process = "dead"
    /\ step' = "over"
    /\ UNCHANGED <<answered, queue, reader, turns, calls, tools, outcome, process, lines, told>>

\* The agent is waited for, and killed when it does not stop in time.
StopAgent ==
    /\ step = "cleanup"
    /\ process' = "dead"
    /\ step' = "over"
    /\ UNCHANGED <<answered, queue, reader, turns, calls, tools, outcome, lines, told>>

ProcessNext ==
    \/ \E line \in Lines : ReadEvent(line)
    \/ StartRun \/ ReadAnswer \/ ReadTooLong \/ AgentExits
    \/ Answered \/ NeverAnswered \/ RunTimesOut \/ StopAgent
    \/ TakeFailure \/ TakeTurn \/ TakeUnknownTool \/ TakeMessage \/ TakeSettled
    \/ \E id \in ToolIds : TakeToolStart(id) \/ TakeToolEnd(id)

ProcessSpec == ProcessInit /\ [][ProcessNext]_processVars

\* Timers fire; the agent owes nothing.
ProcessFairness == WF_processVars(RunTimesOut) /\ WF_processVars(StopAgent)

----
(* Properties.                                                             *)

ProcessTypeOK ==
    /\ step \in Steps /\ answered \in BOOLEAN
    /\ queue \in Seq(Lines \cup {Overflow}) /\ Len(queue) <= QueueSize
    /\ reader \in {"reading", "done"}
    /\ turns \in 0..(MaxTurns + 1) /\ calls \in 0..(MaxToolCalls + 1)
    /\ tools \subseteq ToolIds
    /\ outcome \in Failures \cup {"none", "success"}
    /\ process \in {"running", "told", "dead"}
    /\ lines \in Seq(Lines) /\ Len(lines) <= MaxLines
    /\ told \in Seq({"started", "finished"} \X ToolIds)

\* Lines the agent wrote before it first settled.
BeforeSettled ==
    LET settled == {i \in DOMAIN lines : lines[i] = <<"agent_settled">>}
    IN  IF settled = {} THEN lines
        ELSE SubSeq(lines, 1, (CHOOSE i \in settled : \A j \in settled : i <= j) - 1)
Count(seq, kind) == Cardinality({i \in DOMAIN seq : seq[i][1] = kind})

\* A run succeeds only if nothing the agent wrote before it settled was a
\* failure, malformed or over a limit: no burst hides a blocked tool or an
\* extra turn from the run.
SuccessSawEverything ==
    outcome = "success" =>
        /\ \A kind \in {"guard_failure", "provider_failure", "protocol_error"} :
              Count(BeforeSettled, kind) = 0
        /\ Count(BeforeSettled, "turn_end") = turns /\ turns <= MaxTurns
        /\ Count(BeforeSettled, "tool_start") = calls /\ calls <= MaxToolCalls

\* A run that starts ends, and leaves no process behind, however the agent
\* behaves.
RunEndsClean == step = "get_state" ~> step = "over" /\ process = "dead"
=============================================================================
