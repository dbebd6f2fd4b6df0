----------------------------- MODULE WorkerProofs -----------------------------
(***************************************************************************)
(* Theorems about what a worker does by itself: that a run of the agent    *)
(* that succeeds has seen everything the agent wrote before it settled     *)
(* (PiAgentProcess), for any limits and any agent; that the component      *)
(* cache of the compile worker is sound (ComponentCache), for any          *)
(* compiles, pods, entries, projects, budget and faults of the store; and  *)
(* that a session that replays cached parts is the one that builds them    *)
(* (DesignSession), for any parts and any design.                          *)
(***************************************************************************)
EXTENDS PiAgentProcess, ComponentCache, DesignSession, CountingLemmas, FiniteSetTheorems, SequenceTheorems, TLAPS

(***************************************************************************)
(* The agent's process.  What the run has taken is a beginning of what the *)
(* agent wrote, and the queue goes on from there, up to an overflow.       *)
(***************************************************************************)

Bad == {"guard_failure", "provider_failure", "protocol_error"}
Settling == <<"agent_settled">>

Counted(k, kind) == Cardinality({i \in 1..k : lines[i][1] = kind})

\* The run has taken the first k lines: no failure and no settling was among them, and
\* turns and calls count theirs.
TakenTo(k) ==
    /\ k <= Len(lines)
    /\ \A i \in 1..k : lines[i][1] \notin Bad /\ lines[i] # Settling
    /\ turns = Counted(k, "turn_end") /\ turns <= MaxTurns
    /\ calls = Counted(k, "tool_start") /\ calls <= MaxToolCalls

\* The queue goes on behind the first k lines until an overflow is met; without one it
\* has all of the rest.
FollowsFrom(k) ==
    /\ \A i \in DOMAIN queue :
          (\A j \in 1..i : queue[j] # Overflow) => k + i <= Len(lines) /\ queue[i] = lines[k + i]
    /\ (\A j \in DOMAIN queue : queue[j] # Overflow) => Len(queue) = Len(lines) - k

Listens ==
    step \in {"idle", "get_state", "prompt", "listening"} =>
        \E k \in Nat : TakenTo(k) /\ FollowsFrom(k)

\* Who asks for the statistics, or has succeeded, took everything before a settling.
SettledAt ==
    step = "get_session_stats" \/ outcome = "success" =>
        \E k \in Nat : TakenTo(k) /\ k < Len(lines) /\ lines[k + 1] = Settling

EndedOnce == outcome # "none" => step \in {"cleanup", "over"}

\* What the run is doing, and what it waits for.
StateType ==
    /\ step \in Steps /\ answered \in BOOLEAN /\ reader \in {"reading", "done"}
    /\ outcome \in Failures \cup {"none", "success"} /\ process \in {"running", "told", "dead"}
LinesType ==
    /\ lines \in Seq(Lines) /\ Len(lines) <= MaxLines
    /\ queue \in Seq(Lines \cup {Overflow}) /\ Len(queue) <= QueueSize
CountersType ==
    /\ turns \in Nat /\ turns <= MaxTurns + 1 /\ calls \in Nat /\ calls <= MaxToolCalls + 1
    /\ tools \subseteq ToolIds /\ told \in Seq({"started", "finished"} \X ToolIds)

ProcessInv == StateType /\ LinesType /\ CountersType /\ Listens /\ SettledAt /\ EndedOnce

LEMMA ProcessTypes == ProcessInv => ProcessTypeOK
  BY ProcessAssumption
     DEF ProcessInv, StateType, LinesType, CountersType, ProcessTypeOK

----
(* Counting.                                                               *)

LEMMA CountedFinite ==
    ASSUME NEW k \in Nat, NEW kind
    PROVE  /\ IsFiniteSet({i \in 1..k : lines[i][1] = kind})
           /\ Counted(k, kind) \in Nat
<1>1. IsFiniteSet(1..k)
  BY FS_Interval
<1>2. IsFiniteSet({i \in 1..k : lines[i][1] = kind})
  BY <1>1, FS_Subset
<1> QED BY <1>2, FS_CardinalityType DEF Counted

LEMMA CountedNothing == ASSUME NEW kind PROVE Counted(0, kind) = 0
<1>1. {i \in 1..0 : lines[i][1] = kind} = {}
  OBVIOUS
<1> QED BY <1>1, FS_EmptySet DEF Counted

LEMMA CountedMore ==
    ASSUME NEW k \in Nat, NEW kind
    PROVE  Counted(k + 1, kind) =
               IF lines[k + 1][1] = kind THEN Counted(k, kind) + 1 ELSE Counted(k, kind)
<1> DEFINE S == {i \in 1..k : lines[i][1] = kind}
           T == {i \in 1..(k + 1) : lines[i][1] = kind}
<1>1. IsFiniteSet(S)
  BY CountedFinite
<1>2. CASE lines[k + 1][1] = kind
 <2>1. T = S \cup {k + 1}
   BY <1>2
 <2>2. k + 1 \notin S
   OBVIOUS
 <2>3. Cardinality(T) = Cardinality(S) + 1
   BY <1>1, <2>1, <2>2, FS_AddElement
 <2> QED BY <1>2, <2>3 DEF Counted
<1>3. CASE lines[k + 1][1] # kind
 <2>1. T = S
   BY <1>3
 <2> QED BY <1>3, <2>1 DEF Counted
<1> QED BY <1>2, <1>3

\* What is written later does not change what was taken.
LEMMA TakenStays ==
    ASSUME LinesType, NEW k \in Nat, TakenTo(k), NEW line \in Lines,
           lines' = Append(lines, line), UNCHANGED <<turns, calls>>
    PROVE  /\ TakenTo(k)' /\ Len(lines') = Len(lines) + 1
           /\ lines'[Len(lines) + 1] = line
           /\ \A i \in 1..Len(lines) : lines'[i] = lines[i]
<1>1. /\ lines \in Seq(Lines) /\ Len(lines) \in Nat /\ k \in 0..Len(lines)
  BY LenProperties DEF LinesType, TakenTo
<1>2. /\ Len(lines') = Len(lines) + 1 /\ lines'[Len(lines) + 1] = line
      /\ \A i \in 1..Len(lines) : lines'[i] = lines[i]
  BY <1>1, AppendProperties
<1>3. \A i \in 1..k : lines'[i] = lines[i]
  BY <1>1, <1>2
<1>4. ASSUME NEW kind PROVE Counted(k, kind)' = Counted(k, kind)
 <2>1. {i \in 1..k : lines'[i][1] = kind} = {i \in 1..k : lines[i][1] = kind}
   BY <1>3
 <2> QED BY <2>1 DEF Counted
<1> QED BY <1>1, <1>2, <1>3, <1>4 DEF TakenTo

----
(* The queue.                                                              *)

\* An event goes behind the queue, or an overflow replaces all of it.
LEMMA SignalledQueue ==
    ASSUME LinesType, NEW event \in Lines \cup {Overflow}, queue' = Signalled(event)
    PROVE  /\ queue' \in Seq(Lines \cup {Overflow}) /\ Len(queue') <= QueueSize
           /\ \/ /\ Len(queue') = Len(queue) + 1 /\ queue'[Len(queue) + 1] = event
                 /\ \A i \in 1..Len(queue) : queue'[i] = queue[i]
              \/ Len(queue') = 1 /\ queue'[1] = Overflow
<1>1. queue \in Seq(Lines \cup {Overflow}) /\ Len(queue) \in Nat /\ QueueSize \in Nat /\ QueueSize > 0
  BY LenProperties, ProcessAssumption DEF LinesType
<1>2. CASE Len(queue) < QueueSize
  BY <1>1, <1>2, AppendProperties DEF Signalled
<1>3. CASE ~(Len(queue) < QueueSize)
  BY <1>1, <1>3 DEF Signalled
<1> QED BY <1>2, <1>3

LEMMA QueueDomain ==
    ASSUME LinesType
    PROVE  /\ Len(queue) \in Nat /\ DOMAIN queue = 1..Len(queue)
           /\ \A i \in 1..Len(queue) : queue[i] \in Lines \cup {Overflow}
           /\ Len(lines) \in Nat /\ DOMAIN lines = 1..Len(lines)
           /\ \A i \in 1..Len(lines) : lines[i] \in Lines
  BY LenProperties, ElementOfSeq DEF LinesType

LEMMA LineIsNoOverflow == \A line \in Lines : line # Overflow
  BY DEF Lines, Plain, Overflow

\* A line that is read follows the others, in the queue as in what was written.
LEMMA ReadFollows ==
    ASSUME LinesType, NEW k \in Nat, TakenTo(k), FollowsFrom(k), NEW line \in Lines,
           lines' = Append(lines, line), queue' = Signalled(line), LinesType',
           UNCHANGED <<turns, calls>>
    PROVE  FollowsFrom(k)'
<1>1. /\ Len(queue') \in Nat /\ DOMAIN queue' = 1..Len(queue')
      /\ Len(queue) \in Nat /\ DOMAIN queue = 1..Len(queue) /\ Len(lines) \in Nat
  BY QueueDomain, LenProperties DEF LinesType
<1>2. /\ Len(lines') = Len(lines) + 1 /\ lines'[Len(lines) + 1] = line
      /\ \A i \in 1..Len(lines) : lines'[i] = lines[i]
  BY TakenStays
<1>3. \/ /\ Len(queue') = Len(queue) + 1 /\ queue'[Len(queue) + 1] = line
         /\ \A i \in 1..Len(queue) : queue'[i] = queue[i]
      \/ Len(queue') = 1 /\ queue'[1] = Overflow
  BY SignalledQueue
<1>4. CASE Len(queue') = 1 /\ queue'[1] = Overflow
  BY <1>1, <1>4 DEF FollowsFrom
<1>5. CASE /\ Len(queue') = Len(queue) + 1 /\ queue'[Len(queue) + 1] = line
           /\ \A i \in 1..Len(queue) : queue'[i] = queue[i]
 <2>1. (\A j \in DOMAIN queue' : queue'[j] # Overflow) => (\A j \in DOMAIN queue : queue[j] # Overflow)
   BY <1>1, <1>5
 <2>2. (\A j \in DOMAIN queue' : queue'[j] # Overflow) => Len(queue') = Len(lines') - k
   BY <1>1, <1>2, <1>5, <2>1 DEF FollowsFrom
 <2>3. ASSUME NEW i \in DOMAIN queue', \A j \in 1..i : queue'[j] # Overflow
       PROVE  k + i <= Len(lines') /\ queue'[i] = lines'[k + i]
  <3>1. CASE i \in 1..Len(queue)
   <4>1. \A j \in 1..i : queue[j] # Overflow
     BY <1>5, <2>3, <3>1, <1>1
   <4>2. k + i <= Len(lines) /\ queue[i] = lines[k + i]
     BY <1>1, <3>1, <4>1 DEF FollowsFrom
   <4> QED BY <1>1, <1>2, <1>5, <3>1, <4>2
  <3>2. CASE i = Len(queue) + 1
   <4>1. \A j \in DOMAIN queue : queue[j] # Overflow
     BY <1>1, <1>5, <2>3, <3>2
   <4>2. Len(queue) = Len(lines) - k
     BY <4>1 DEF FollowsFrom
   <4> QED BY <1>1, <1>2, <1>5, <3>2, <4>2
  <3> QED BY <1>1, <1>5, <3>1, <3>2
 <2> QED BY <2>2, <2>3 DEF FollowsFrom
<1> QED BY <1>3, <1>4, <1>5

\* An overflow in between hides what is behind it, and nothing before it.
LEMMA OverflowFollows ==
    ASSUME LinesType, NEW k \in Nat, FollowsFrom(k), queue' = Signalled(Overflow), LinesType',
           UNCHANGED lines
    PROVE  FollowsFrom(k)'
<1>1. /\ Len(queue') \in Nat /\ DOMAIN queue' = 1..Len(queue')
      /\ Len(queue) \in Nat /\ DOMAIN queue = 1..Len(queue) /\ Len(lines) \in Nat
  BY QueueDomain, LenProperties DEF LinesType
<1>2. \/ /\ Len(queue') = Len(queue) + 1 /\ queue'[Len(queue) + 1] = Overflow
         /\ \A i \in 1..Len(queue) : queue'[i] = queue[i]
      \/ Len(queue') = 1 /\ queue'[1] = Overflow
  BY SignalledQueue
<1>3. CASE Len(queue') = 1 /\ queue'[1] = Overflow
  BY <1>1, <1>3 DEF FollowsFrom
<1>4. CASE /\ Len(queue') = Len(queue) + 1 /\ queue'[Len(queue) + 1] = Overflow
           /\ \A i \in 1..Len(queue) : queue'[i] = queue[i]
 <2>1. ~(\A j \in DOMAIN queue' : queue'[j] # Overflow)
  <3>1. Len(queue) + 1 \in DOMAIN queue'
    BY <1>1, <1>4
  <3> QED BY <1>4, <3>1
 <2>2. ASSUME NEW i \in DOMAIN queue', \A j \in 1..i : queue'[j] # Overflow
       PROVE  k + i <= Len(lines') /\ queue'[i] = lines'[k + i]
  <3>1. i \in 1..Len(queue)
    BY <1>1, <1>4, <2>2
  <3>2. \A j \in 1..i : queue'[j] = queue[j]
    BY <1>1, <1>4, <3>1
  <3> QED BY <1>1, <1>4, <2>2, <3>1, <3>2 DEF FollowsFrom
 <2> QED BY <2>1, <2>2 DEF FollowsFrom
<1> QED BY <1>2, <1>3, <1>4

\* A line that is taken is the next one that was written.
LEMMA TakeFollows ==
    ASSUME LinesType, NEW k \in Nat, k <= Len(lines), FollowsFrom(k), NEW line \in Lines, Takes(line)
    PROVE  /\ k + 1 <= Len(lines) /\ lines[k + 1] = line
           /\ FollowsFrom(k + 1)'
<1>1. /\ Len(queue) \in Nat /\ DOMAIN queue = 1..Len(queue) /\ Len(lines) \in Nat
      /\ queue \in Seq(Lines \cup {Overflow}) /\ queue # <<>> /\ lines' = lines
  BY QueueDomain DEF LinesType, Takes
<1>2. /\ queue' \in Seq(Lines \cup {Overflow}) /\ Len(queue') = Len(queue) - 1
      /\ \A i \in 1..Len(queue') : queue'[i] = queue[i + 1]
  BY <1>1, HeadTailProperties DEF Takes
<1>3. Len(queue) >= 1 /\ queue[1] = line /\ line # Overflow
  BY <1>1, LineIsNoOverflow DEF Takes
<1>4. k + 1 <= Len(lines) /\ lines[k + 1] = line
  BY <1>1, <1>3 DEF FollowsFrom
<1>5. DOMAIN queue' = 1..Len(queue') /\ Len(queue') \in Nat
  BY <1>2, LenProperties
<1>6. ASSUME NEW i \in DOMAIN queue', \A j \in 1..i : queue'[j] # Overflow
      PROVE  (k + 1) + i <= Len(lines') /\ queue'[i] = lines'[(k + 1) + i]
 <2>1. ASSUME NEW j \in 1..(i + 1) PROVE queue[j] # Overflow
  <3>1. CASE j = 1
    BY <1>3, <3>1
  <3>2. CASE j # 1
   <4>1. j - 1 \in 1..i /\ queue'[j - 1] = queue[(j - 1) + 1]
     BY <1>2, <1>5, <3>2
   <4> QED BY <1>6, <4>1
  <3> QED BY <3>1, <3>2
 <2>2. k + (i + 1) <= Len(lines) /\ queue[i + 1] = lines[k + (i + 1)]
   BY <1>1, <1>2, <1>5, <2>1 DEF FollowsFrom
 <2> QED BY <1>1, <1>2, <1>5, <2>2
<1>7. ASSUME \A j \in DOMAIN queue' : queue'[j] # Overflow
      PROVE  Len(queue') = Len(lines') - (k + 1)
 <2>1. ASSUME NEW j \in DOMAIN queue PROVE queue[j] # Overflow
  <3>1. CASE j = 1
    BY <1>3, <3>1
  <3>2. CASE j # 1
   <4>1. j - 1 \in DOMAIN queue' /\ queue'[j - 1] = queue[(j - 1) + 1]
     BY <1>1, <1>2, <1>5, <3>2
   <4> QED BY <1>1, <1>7, <4>1
  <3> QED BY <3>1, <3>2
 <2>2. Len(queue) = Len(lines) - k
   BY <2>1 DEF FollowsFrom
 <2> QED BY <1>1, <1>2, <2>2
<1> QED BY <1>4, <1>6, <1>7 DEF FollowsFrom

----
(* Steps.                                                                  *)

LEMMA TakenMore ==
    ASSUME LinesType, NEW k \in Nat, TakenTo(k), NEW line \in Lines,
           k + 1 <= Len(lines), lines[k + 1] = line, line[1] \notin Bad, line # Settling,
           UNCHANGED lines,
           turns' = (IF line[1] = "turn_end" THEN turns + 1 ELSE turns), turns' <= MaxTurns,
           calls' = (IF line[1] = "tool_start" THEN calls + 1 ELSE calls), calls' <= MaxToolCalls
    PROVE  TakenTo(k + 1)'
<1>1. ASSUME NEW kind
      PROVE  Counted(k + 1, kind)' = IF line[1] = kind THEN Counted(k, kind) + 1 ELSE Counted(k, kind)
  BY CountedMore DEF Counted
<1>2. \A i \in 1..(k + 1) : lines[i][1] \notin Bad /\ lines[i] # Settling
 <2>1. \A i \in 1..(k + 1) : i \in 1..k \/ i = k + 1
   OBVIOUS
 <2> QED BY <2>1 DEF TakenTo
<1> QED BY <1>1, <1>2 DEF TakenTo

\* What does not touch the lines, the queue and the counters leaves them as they are.
LEMMA QuietKept ==
    ASSUME UNCHANGED <<queue, lines, turns, calls, tools, told>>
    PROVE  /\ LinesType => LinesType'
           /\ CountersType => CountersType'
           /\ \A k \in Nat : TakenTo(k) => TakenTo(k)'
           /\ \A k \in Nat : FollowsFrom(k) => FollowsFrom(k)'
  BY DEF LinesType, CountersType, TakenTo, Counted, FollowsFrom

LEMMA ProcessInitInv == ProcessInit => ProcessInv
<1> SUFFICES ASSUME ProcessInit PROVE ProcessInv
  OBVIOUS
<1>1. StateType
  BY DEF ProcessInit, StateType, Steps
<1>2. LinesType
  BY ProcessAssumption DEF ProcessInit, LinesType
<1>3. CountersType
  BY ProcessAssumption DEF ProcessInit, CountersType
<1>4. TakenTo(0) /\ FollowsFrom(0)
  BY ProcessAssumption, CountedNothing DEF ProcessInit, TakenTo, FollowsFrom
<1> QED BY <1>1, <1>2, <1>3, <1>4 DEF ProcessInv, ProcessInit, Listens, SettledAt, EndedOnce

LEMMA ReadEventStep ==
    ASSUME ProcessInv, NEW line \in Lines, ReadEvent(line)
    PROVE  ProcessInv'
<1> USE DEF ProcessInv
<1>1. /\ lines' = Append(lines, line) /\ queue' = Signalled(line)
      /\ UNCHANGED <<step, answered, turns, calls, tools, outcome, process, told>>
  BY DEF ReadEvent
<1>2. LinesType'
 <2>1. lines' \in Seq(Lines) /\ Len(lines') = Len(lines) + 1 /\ Len(lines) < MaxLines
   BY <1>1, AppendProperties DEF ReadEvent, LinesType
 <2>2. queue' \in Seq(Lines \cup {Overflow}) /\ Len(queue') <= QueueSize
   BY <1>1, SignalledQueue
 <2> QED BY <2>1, <2>2, QueueDomain, ProcessAssumption DEF LinesType
<1>3. ASSUME NEW k \in Nat, TakenTo(k)
      PROVE  /\ TakenTo(k)'
             /\ FollowsFrom(k) => FollowsFrom(k)'
             /\ k < Len(lines) => k < Len(lines') /\ lines'[k + 1] = lines[k + 1]
  BY <1>1, <1>2, <1>3, TakenStays, ReadFollows, QueueDomain
<1>4. StateType' /\ CountersType' /\ EndedOnce'
  BY <1>1 DEF StateType, CountersType, EndedOnce, ReadEvent
<1>5. Listens'
  BY <1>1, <1>3 DEF Listens
<1>6. SettledAt'
  BY <1>1, <1>3 DEF SettledAt
<1> QED BY <1>2, <1>4, <1>5, <1>6

LEMMA ReadTooLongStep ==
    ASSUME ProcessInv, ReadTooLong
    PROVE  ProcessInv'
<1> USE DEF ProcessInv
<1>1. /\ queue' = Signalled(Overflow)
      /\ UNCHANGED <<step, answered, turns, calls, tools, outcome, process, lines, told>>
  BY DEF ReadTooLong
<1>2. LinesType'
  BY <1>1, SignalledQueue DEF LinesType
<1>3. ASSUME NEW k \in Nat PROVE /\ TakenTo(k) => TakenTo(k)'
                                 /\ FollowsFrom(k) => FollowsFrom(k)'
  BY <1>1, <1>2, OverflowFollows DEF TakenTo, Counted
<1>4. StateType' /\ CountersType' /\ EndedOnce'
  BY <1>1 DEF StateType, CountersType, EndedOnce, ReadTooLong
<1>5. Listens'
  BY <1>1, <1>3 DEF Listens
<1>6. SettledAt'
  BY <1>1, <1>3 DEF SettledAt
<1> QED BY <1>2, <1>4, <1>5, <1>6

\* The steps that neither read nor take a line.
LEMMA QuietStep ==
    ASSUME ProcessInv,
           StartRun \/ ReadAnswer \/ AgentExits \/ Answered \/ NeverAnswered \/ RunTimesOut
               \/ StopAgent \/ UNCHANGED processVars
    PROVE  ProcessInv'
<1> USE DEF ProcessInv
<1> USE DEF StartRun, ReadAnswer, AgentExits, Answered, NeverAnswered, RunTimesOut, StopAgent,
            processVars, Request, End, Requesting
<1>1. UNCHANGED <<queue, lines, turns, calls, tools, told>>
  OBVIOUS
<1>2. LinesType' /\ CountersType'
  BY <1>1, QuietKept
<1>3. \A k \in Nat : (TakenTo(k) => TakenTo(k)') /\ (FollowsFrom(k) => FollowsFrom(k)')
  BY <1>1, QuietKept
<1>4. StateType'
  BY DEF StateType, Steps, Failures
<1>5. EndedOnce'
  BY DEF EndedOnce, StateType, Steps
<1>6. step' \in {"idle", "get_state", "prompt", "listening"}
          => step \in {"idle", "get_state", "prompt", "listening"}
  BY DEF StateType, Steps
<1>7. Listens'
  BY <1>3, <1>6 DEF Listens
<1>8. step' = "get_session_stats" \/ outcome' = "success"
          => step = "get_session_stats" \/ outcome = "success"
  BY DEF StateType, Steps
<1>9. SettledAt'
  BY <1>1, <1>3, <1>8 DEF SettledAt
<1> QED BY <1>2, <1>4, <1>5, <1>7, <1>9

\* Every step that takes a line takes the next one.
LEMMA Taken ==
    ASSUME ProcessInv, NEW line \in Lines, Takes(line)
    PROVE  /\ LinesType' /\ step = "listening" /\ outcome = "none" /\ UNCHANGED lines
           /\ turns <= MaxTurns /\ calls <= MaxToolCalls
           /\ \E k \in Nat : /\ TakenTo(k) /\ k + 1 <= Len(lines) /\ lines[k + 1] = line
                             /\ FollowsFrom(k + 1)'
<1>1. step = "listening" /\ UNCHANGED lines /\ queue # <<>> /\ queue' = Tail(queue)
  BY DEF Takes
<1>2. PICK k \in Nat : TakenTo(k) /\ FollowsFrom(k)
  BY <1>1 DEF ProcessInv, Listens
<1>3. LinesType'
  BY <1>1, QueueDomain, HeadTailProperties, ProcessAssumption DEF ProcessInv, LinesType
<1>4. outcome = "none"
  BY <1>1 DEF ProcessInv, EndedOnce, StateType
<1> QED BY <1>1, <1>2, <1>3, <1>4, TakeFollows DEF ProcessInv, TakenTo

\* A line that is no failure and does not settle the run: the run listens on, or aborts.
LEMMA HarmlessStep ==
    ASSUME ProcessInv, NEW line \in Lines, Takes(line), line[1] \notin Bad, line # Settling,
           turns' = (IF line[1] = "turn_end" THEN turns + 1 ELSE turns),
           calls' = (IF line[1] = "tool_start" THEN calls + 1 ELSE calls),
           step' = (IF turns' > MaxTurns \/ calls' > MaxToolCalls THEN "abort" ELSE step),
           answered' \in BOOLEAN, UNCHANGED <<reader, outcome, process>>,
           tools' \subseteq ToolIds, told' \in Seq({"started", "finished"} \X ToolIds)
    PROVE  ProcessInv'
<1>1. /\ LinesType' /\ step = "listening" /\ outcome = "none" /\ UNCHANGED lines
      /\ turns <= MaxTurns /\ calls <= MaxToolCalls
  BY Taken
<1>2. PICK k \in Nat : /\ TakenTo(k) /\ k + 1 <= Len(lines) /\ lines[k + 1] = line
                       /\ FollowsFrom(k + 1)'
  BY Taken
<1>3. CountersType'
  BY <1>1, ProcessAssumption DEF ProcessInv, CountersType
<1>4. StateType' /\ EndedOnce' /\ SettledAt'
  BY <1>1 DEF ProcessInv, StateType, Steps, Requesting, EndedOnce, SettledAt
<1>5. step' = "listening" => TakenTo(k + 1)'
  BY SMTT(30), <1>1, <1>2, <1>3, TakenMore, ProcessAssumption DEF ProcessInv, CountersType
<1>6. Listens'
  BY <1>1, <1>2, <1>5 DEF Listens
<1> QED BY <1>1, <1>3, <1>4, <1>6 DEF ProcessInv

LEMMA TakeStep ==
    ASSUME ProcessInv,
           TakeFailure \/ TakeTurn \/ TakeUnknownTool \/ TakeMessage \/ TakeSettled
               \/ \E id \in ToolIds : TakeToolStart(id) \/ TakeToolEnd(id)
    PROVE  ProcessInv'
<1>1. /\ answered \in BOOLEAN /\ turns \in Nat /\ calls \in Nat /\ tools \subseteq ToolIds
      /\ told \in Seq({"started", "finished"} \X ToolIds)
  BY DEF ProcessInv, StateType, CountersType
<1>2. /\ <<"turn_end">> \in Lines /\ <<"tool_start">> \in Lines /\ <<"message">> \in Lines
      /\ <<"agent_settled">> \in Lines /\ <<"protocol_error">> \in Lines
      /\ <<"guard_failure">> \in Lines /\ <<"provider_failure">> \in Lines
      /\ \A id \in ToolIds : <<"tool_start", id>> \in Lines /\ <<"tool_end", id>> \in Lines
  BY DEF Lines, Plain
<1>a. /\ <<"turn_end">>[1] = "turn_end" /\ <<"tool_start">>[1] = "tool_start"
      /\ <<"turn_end">> # Settling /\ <<"tool_start">> # Settling
      /\ \A id \in ToolIds :
            /\ <<"tool_start", id>>[1] = "tool_start" /\ <<"tool_start", id>> # Settling
            /\ <<"tool_end", id>>[1] = "tool_end" /\ <<"tool_end", id>> # Settling
      /\ {"turn_end", "tool_start", "tool_end"} \cap Bad = {}
  BY DEF Settling, Bad
<1>3. CASE TakeTurn
 <2>1. Takes(<<"turn_end">>) /\ turns' = turns + 1 /\ UNCHANGED <<calls, tools, told>>
   BY <1>3 DEF TakeTurn
 <2>2. calls <= MaxToolCalls
   BY <1>2, <2>1, Taken
 <2>3. /\ step' = (IF turns' > MaxTurns \/ calls' > MaxToolCalls THEN "abort" ELSE step)
       /\ answered' \in BOOLEAN /\ UNCHANGED <<reader, outcome, process>>
  <3>1. ~(calls' > MaxToolCalls)
    BY <1>1, <2>1, <2>2, ProcessAssumption
  <3>2. CASE turns' > MaxTurns
    BY <1>3, <3>1, <3>2 DEF TakeTurn, Request
  <3>3. CASE ~(turns' > MaxTurns)
    BY <1>1, <1>3, <3>1, <3>3 DEF TakeTurn, Request
  <3> QED BY <3>2, <3>3
 <2> QED BY <1>1, <1>2, <1>a, <2>1, <2>3, HarmlessStep
<1>4. CASE TakeUnknownTool
 <2>1. Takes(<<"tool_start">>) /\ calls' = calls + 1 /\ UNCHANGED <<turns, tools, told>>
   BY <1>4 DEF TakeUnknownTool, CountCall
 <2>2. turns <= MaxTurns
   BY <1>2, <2>1, Taken
 <2>3. /\ step' = (IF turns' > MaxTurns \/ calls' > MaxToolCalls THEN "abort" ELSE step)
       /\ answered' \in BOOLEAN /\ UNCHANGED <<reader, outcome, process>>
  <3>1. ~(turns' > MaxTurns)
    BY <1>1, <2>1, <2>2, ProcessAssumption
  <3>2. CASE calls' > MaxToolCalls
    BY <1>4, <3>1, <3>2 DEF TakeUnknownTool, CountCall, Request
  <3>3. CASE ~(calls' > MaxToolCalls)
    BY <1>1, <1>4, <3>1, <3>3 DEF TakeUnknownTool, CountCall, Request
  <3> QED BY <3>2, <3>3
 <2> QED BY <1>1, <1>2, <1>a, <2>1, <2>3, HarmlessStep
<1>5. CASE TakeMessage
 <2>1. Takes(<<"message">>)
       /\ UNCHANGED <<step, answered, reader, turns, calls, tools, outcome, process, told>>
   BY <1>5 DEF TakeMessage
 <2>2. turns <= MaxTurns /\ calls <= MaxToolCalls
   BY <1>2, <2>1, Taken
 <2> QED BY <1>1, <1>2, <2>1, <2>2, ProcessAssumption, HarmlessStep DEF Bad, Settling
<1>6. ASSUME NEW id \in ToolIds, TakeToolStart(id) PROVE ProcessInv'
 <2>1. Takes(<<"tool_start", id>>) /\ calls' = calls + 1 /\ UNCHANGED turns
   BY <1>6 DEF TakeToolStart, CountCall
 <2>2. turns <= MaxTurns /\ step = "listening"
   BY <1>2, <2>1, Taken
 <2>3. tools' \subseteq ToolIds /\ told' \in Seq({"started", "finished"} \X ToolIds)
   BY <1>1, <1>6, AppendProperties DEF TakeToolStart
 <2>4. /\ step' = (IF turns' > MaxTurns \/ calls' > MaxToolCalls THEN "abort" ELSE step)
       /\ answered' \in BOOLEAN /\ UNCHANGED <<reader, outcome, process>>
  <3>1. ~(turns' > MaxTurns)
    BY <1>1, <2>1, <2>2, ProcessAssumption
  <3>2. CASE calls' > MaxToolCalls
    BY <1>6, <3>1, <3>2 DEF TakeToolStart, CountCall, Request
  <3>3. CASE ~(calls' > MaxToolCalls)
    BY <1>1, <1>6, <3>1, <3>3 DEF TakeToolStart, CountCall, Request
  <3> QED BY <3>2, <3>3
 <2> QED BY <1>1, <1>2, <1>a, <2>1, <2>3, <2>4, HarmlessStep
<1>7. ASSUME NEW id \in ToolIds, TakeToolEnd(id) PROVE ProcessInv'
 <2>1. Takes(<<"tool_end", id>>)
       /\ UNCHANGED <<step, answered, reader, turns, calls, outcome, process>>
   BY <1>7 DEF TakeToolEnd
 <2>2. turns <= MaxTurns /\ calls <= MaxToolCalls
   BY <1>2, <2>1, Taken
 <2>3. tools' \subseteq ToolIds /\ told' \in Seq({"started", "finished"} \X ToolIds)
  <3>1. <<"finished", id>> \in {"started", "finished"} \X ToolIds
    OBVIOUS
  <3>2. Append(told, <<"finished", id>>) \in Seq({"started", "finished"} \X ToolIds)
    BY <1>1, <3>1, AppendProperties
  <3> QED BY <1>1, <1>7, <3>2 DEF TakeToolEnd
 <2>4. ~(turns' > MaxTurns) /\ ~(calls' > MaxToolCalls)
   BY <1>1, <2>1, <2>2, ProcessAssumption
 <2> QED BY <1>1, <1>2, <1>a, <2>1, <2>3, <2>4, HarmlessStep
<1>8. CASE TakeSettled
 <2>1. Takes(Settling) /\ Settling \in Lines
   BY <1>2, <1>8 DEF TakeSettled, Settling
 <2>2. /\ LinesType' /\ step = "listening" /\ outcome = "none" /\ UNCHANGED lines
   BY <2>1, Taken
 <2>3. PICK k \in Nat : TakenTo(k) /\ k + 1 <= Len(lines) /\ lines[k + 1] = Settling
   BY <2>1, Taken
 <2>4. /\ step' = "get_session_stats" /\ answered' = FALSE
       /\ UNCHANGED <<reader, outcome, process, turns, calls, tools, told>>
   BY <1>8 DEF TakeSettled, Request
 <2>5. TakenTo(k)' /\ k < Len(lines') /\ lines'[k + 1] = Settling
   BY <2>2, <2>3, <2>4, QueueDomain DEF TakenTo, Counted, ProcessInv
 <2>6. SettledAt'
   BY <2>5 DEF SettledAt
 <2> QED BY <2>2, <2>4, <2>6
         DEF ProcessInv, StateType, Steps, Requesting, CountersType, Listens, EndedOnce
<1>9. CASE TakeFailure
 <2>1. PICK o \in Failures : /\ step = "listening" /\ End(o)
                             /\ UNCHANGED <<answered, turns, calls, tools, told, lines>>
                             /\ queue # <<>> /\ queue' = Tail(queue)
   BY <1>9 DEF TakeFailure, Takes, Failures
 <2>2. LinesType'
   BY <2>1, QueueDomain, HeadTailProperties, ProcessAssumption DEF ProcessInv, LinesType
 <2> QED BY <2>1, <2>2
         DEF ProcessInv, StateType, Steps, Requesting, Failures, CountersType, Listens, EndedOnce,
             SettledAt, End
<1> QED BY <1>3, <1>4, <1>5, <1>6, <1>7, <1>8, <1>9

LEMMA ProcessStepInv == ProcessInv /\ [ProcessNext]_processVars => ProcessInv'
<1> SUFFICES ASSUME ProcessInv, [ProcessNext]_processVars PROVE ProcessInv'
  OBVIOUS
<1> QED BY ReadEventStep, ReadTooLongStep, QuietStep, TakeStep DEF ProcessNext

LEMMA ProcessInvariant == ProcessSpec => []ProcessInv
  BY ProcessInitInv, ProcessStepInv, PTL DEF ProcessSpec

\* What was taken is what stands before the first settling.
LEMMA ProcessShows == ProcessInv => SuccessSawEverything
<1> SUFFICES ASSUME ProcessInv, outcome = "success" PROVE SuccessSawEverything
  BY DEF SuccessSawEverything
<1>1. PICK k \in Nat : TakenTo(k) /\ k < Len(lines) /\ lines[k + 1] = Settling
  BY DEF ProcessInv, SettledAt
<1>2. lines \in Seq(Lines) /\ Len(lines) \in Nat /\ DOMAIN lines = 1..Len(lines)
  BY QueueDomain DEF ProcessInv, LinesType
<1> DEFINE settled == {i \in DOMAIN lines : lines[i] = Settling}
           first == CHOOSE i \in settled : \A j \in settled : i <= j
<1>3. k + 1 \in settled /\ \A j \in settled : k + 1 <= j
  BY <1>1, <1>2 DEF TakenTo
<1>4. first = k + 1
 <2>1. first \in settled /\ \A j \in settled : first <= j
   BY <1>3
 <2> QED BY <1>2, <1>3, <2>1
<1>5. BeforeSettled = SubSeq(lines, 1, k)
 <2>1. settled # {} /\ first - 1 = k
  <3>1. settled # {}
    BY <1>3
  <3>2. (k + 1) - 1 = k
    OBVIOUS
  <3> QED BY <1>4, <3>1, <3>2
 <2> HIDE DEF first
 <2>2. BeforeSettled = IF settled = {} THEN lines ELSE SubSeq(lines, 1, first - 1)
   BY DEF BeforeSettled, Settling, first
 <2> QED BY <2>1, <2>2
<1>6. DOMAIN BeforeSettled = 1..k /\ \A i \in 1..k : BeforeSettled[i] = lines[i]
 <2>1. /\ SubSeq(lines, 1, k) \in Seq(Lines) /\ Len(SubSeq(lines, 1, k)) = k
       /\ \A i \in 1..k : SubSeq(lines, 1, k)[i] = lines[i]
   BY <1>1, <1>2, SubSeqProperties
 <2> QED BY <1>5, <2>1, LenProperties
<1>7. ASSUME NEW kind PROVE Count(BeforeSettled, kind) = Counted(k, kind)
 <2>1. {i \in DOMAIN BeforeSettled : BeforeSettled[i][1] = kind} = {i \in 1..k : lines[i][1] = kind}
   BY <1>6
 <2> QED BY <2>1 DEF Count, Counted
<1>8. ASSUME NEW kind \in Bad PROVE Counted(k, kind) = 0
 <2>1. {i \in 1..k : lines[i][1] = kind} = {}
   BY <1>1 DEF TakenTo
 <2> QED BY <2>1, FS_EmptySet DEF Counted
<1> QED BY <1>1, <1>7, <1>8 DEF SuccessSawEverything, TakenTo, Bad

----
(* Theorems.                                                               *)

\* For any agent, limits and queue, every reachable state of a run is well typed.
THEOREM ProcessTypeCorrect == ProcessSpec => []ProcessTypeOK
  BY ProcessInvariant, ProcessTypes, PTL

\* A run succeeds only if nothing the agent wrote before it settled was a failure,
\* malformed or over a limit (run_pi_agent): no burst that overflows the queue hides a
\* blocked tool or an extra turn, whatever the agent writes and however large the queue.
THEOREM SuccessSeen == ProcessSpec => []SuccessSawEverything
  BY ProcessInvariant, ProcessShows, PTL

----
(***************************************************************************)
(* The component cache.  What a compile loads, names or has half written   *)
(* is backed by the store, at the moment the manifest is replaced too: a   *)
(* fetch read it there, or an upload put it there.  Objects leave the      *)
(* store only as faults, and a corrupt one, which an upload leaves alone,  *)
(* is a fault already.                                                     *)
(***************************************************************************)

Stored(e, h) == object[e][h] = "whole" \/ <<e, h>> \in faults
StoredWhole(e) == \A h \in Halves : Stored(e, h)

Early == {"queued", "fetching", "building"}

Backed(c, e) ==
    /\ "sidecar" \in folder[c][e] => "brep" \in folder[c][e]
    /\ "sidecar" \in folder[c][e] /\ stage[c] \in Early => StoredWhole(e)
    /\ entry[c][e].fetch = "reading" => Stored(e, "brep")
    /\ entry[c][e].fetch = "writing" => "brep" \in folder[c][e] /\ StoredWhole(e)
    /\ entry[c][e].report = "uploading" => Stored(e, "brep")
    /\ entry[c][e].report \in {"hit", "uploaded"} => StoredWhole(e)

EntriesBacked == \A c \in Compiles, e \in Entries : Backed(c, e)
RotIsFault == \A e \in Entries, h \in Halves : object[e][h] = "corrupt" => <<e, h>> \in faults

CacheInv == CacheTypeOK /\ EntriesBacked /\ RotIsFault /\ ManifestNamesStored

----
(* Types.                                                                  *)

Reports == [fetch : FetchStates, report : ReportStates]

LEMMA EntryType ==
    ASSUME CacheTypeOK, NEW c \in Compiles, NEW e \in Entries
    PROVE  entry[c][e] \in Reports /\ folder[c][e] \subseteq Halves /\ stage[c] \in Stages
BY DEF CacheTypeOK, Reports

LEMMA CacheInitType == CacheInit => CacheTypeOK
BY CacheAssumption DEF CacheInit, CacheTypeOK, Stages, FetchStates, ReportStates

\* Writing one cell of a table.
LEMMA CellWritten ==
    ASSUME NEW S, NEW T, NEW V, NEW f \in [S -> [T -> V]], NEW s \in S, NEW t \in T, NEW v \in V,
           NEW g, g = [f EXCEPT ![s][t] = v]
    PROVE  /\ g \in [S -> [T -> V]] /\ g[s][t] = v
           /\ \A x \in S, y \in T : x # s \/ y # t => g[x][y] = f[x][y]
<1> DEFINE row == [f[s] EXCEPT ![t] = v]
<1>1. row \in [T -> V] /\ row[t] = v /\ \A y \in T : y # t => row[y] = f[s][y]
  OBVIOUS
<1>2. g = [f EXCEPT ![s] = row]
  OBVIOUS
<1> HIDE DEF row
<1> QED BY <1>1, <1>2

LEMMA FetchWritten ==
    ASSUME CacheTypeOK, NEW c \in Compiles, NEW e \in Entries, NEW state \in FetchStates,
           FetchIs(c, e, state)
    PROVE  /\ entry' \in [Compiles -> [Entries -> Reports]]
           /\ entry'[c][e] = [entry[c][e] EXCEPT !.fetch = state]
           /\ \A d \in Compiles, f \in Entries : d # c \/ f # e => entry'[d][f] = entry[d][f]
<1> DEFINE cell == [entry[c][e] EXCEPT !.fetch = state]
<1>1. cell \in Reports
  BY EntryType DEF Reports
<1>2. entry' = [entry EXCEPT ![c][e] = cell]
  BY DEF FetchIs
<1>3. entry \in [Compiles -> [Entries -> Reports]]
  BY DEF CacheTypeOK, Reports
<1> HIDE DEF cell
<1>4. /\ entry' \in [Compiles -> [Entries -> Reports]] /\ entry'[c][e] = cell
      /\ \A d \in Compiles, f \in Entries : d # c \/ f # e => entry'[d][f] = entry[d][f]
  BY <1>1, <1>2, <1>3, CellWritten
<1> QED BY <1>4 DEF cell

ReportIs(c, e, state) == entry' = [entry EXCEPT ![c][e].report = state]

LEMMA ReportWritten ==
    ASSUME CacheTypeOK, NEW c \in Compiles, NEW e \in Entries, NEW state \in ReportStates,
           ReportIs(c, e, state)
    PROVE  /\ entry' \in [Compiles -> [Entries -> Reports]]
           /\ entry'[c][e] = [entry[c][e] EXCEPT !.report = state]
           /\ \A d \in Compiles, f \in Entries : d # c \/ f # e => entry'[d][f] = entry[d][f]
<1> DEFINE cell == [entry[c][e] EXCEPT !.report = state]
<1>1. cell \in Reports
  BY EntryType DEF Reports
<1>2. entry' = [entry EXCEPT ![c][e] = cell]
  BY DEF ReportIs
<1>3. entry \in [Compiles -> [Entries -> Reports]]
  BY DEF CacheTypeOK, Reports
<1> HIDE DEF cell
<1>4. /\ entry' \in [Compiles -> [Entries -> Reports]] /\ entry'[c][e] = cell
      /\ \A d \in Compiles, f \in Entries : d # c \/ f # e => entry'[d][f] = entry[d][f]
  BY <1>1, <1>2, <1>3, CellWritten
<1> QED BY <1>4 DEF cell

LEMMA FolderWritten ==
    ASSUME CacheTypeOK, NEW c \in Compiles, NEW e \in Entries, NEW halves \in SUBSET Halves,
           folder' = [folder EXCEPT ![c][e] = halves]
    PROVE  /\ folder' \in [Compiles -> [Entries -> SUBSET Halves]]
           /\ folder'[c][e] = halves
           /\ \A d \in Compiles, f \in Entries : d # c \/ f # e => folder'[d][f] = folder[d][f]
<1>1. folder \in [Compiles -> [Entries -> SUBSET Halves]]
  BY DEF CacheTypeOK
<1> QED BY <1>1, CellWritten

ObjectStates == {"absent", "whole", "corrupt"}

LEMMA ObjectWritten ==
    ASSUME CacheTypeOK, NEW e \in Entries, NEW h \in Halves, NEW state \in ObjectStates,
           object' = [object EXCEPT ![e][h] = state]
    PROVE  /\ object' \in [Entries -> [Halves -> ObjectStates]]
           /\ object'[e][h] = state
           /\ \A f \in Entries, k \in Halves : f # e \/ k # h => object'[f][k] = object[f][k]
<1>1. object \in [Entries -> [Halves -> ObjectStates]]
  BY DEF CacheTypeOK, ObjectStates
<1> QED BY <1>1, CellWritten

ObjectIsWritten(e, h) == object' = [object EXCEPT ![e][h] = Written(@)]

LEMMA UploadWrites ==
    ASSUME CacheTypeOK, NEW e \in Entries, NEW h \in Halves, ObjectIsWritten(e, h)
    PROVE  /\ object' \in [Entries -> [Halves -> ObjectStates]]
           /\ object'[e][h] = Written(object[e][h])
           /\ \A f \in Entries, k \in Halves : f # e \/ k # h => object'[f][k] = object[f][k]
<1> DEFINE state == Written(object[e][h])
<1>1. state \in ObjectStates
  BY DEF Written, CacheTypeOK, ObjectStates
<1>2. object' = [object EXCEPT ![e][h] = state]
  BY DEF ObjectIsWritten
<1> HIDE DEF state
<1>3. /\ object' \in [Entries -> [Halves -> ObjectStates]]
      /\ object'[e][h] = state
      /\ \A f \in Entries, k \in Halves : f # e \/ k # h => object'[f][k] = object[f][k]
  BY <1>1, <1>2, ObjectWritten
<1> QED BY <1>3 DEF state

LEMMA CacheTypeStep == CacheTypeOK /\ [CacheNext]_cacheVars => CacheTypeOK'
<1> SUFFICES ASSUME CacheTypeOK, [CacheNext]_cacheVars PROVE CacheTypeOK'
  OBVIOUS
<1> USE CacheAssumption
<1>1. ASSUME NEW p \in Pods, PodEnds(p) \/ PodDies(p) PROVE CacheTypeOK'
  BY <1>1 DEF PodEnds, PodDies, CacheTypeOK
<1>2. ASSUME NEW p \in Pods, NEW c \in Compiles, Take(p, c) PROVE CacheTypeOK'
 <2>1. PICK wanted \in {manifest[project[c]], {}} :
           entry' = [entry EXCEPT ![c] = [e \in Entries |->
             [@[e] EXCEPT !.fetch = IF e \in wanted THEN "waiting" ELSE "unknown"]]]
   BY <1>2 DEF Take
 <2>2. entry' \in [Compiles -> [Entries -> Reports]]
  <3> DEFINE row == [e \in Entries |-> [entry[c][e] EXCEPT
                        !.fetch = IF e \in wanted THEN "waiting" ELSE "unknown"]]
  <3>1. row \in [Entries -> Reports]
    BY EntryType DEF Reports, FetchStates
  <3>2. entry' = [entry EXCEPT ![c] = row]
    BY <2>1
  <3> HIDE DEF row
  <3> QED BY <3>1, <3>2 DEF CacheTypeOK, Reports
 <2>3. stage' \in [Compiles -> Stages] /\ pod' \in [Compiles -> Pods \cup {NoPod}]
   BY <1>2 DEF Take, CacheTypeOK, Stages
 <2> QED BY <1>2, <2>2, <2>3 DEF Take, CacheTypeOK, Reports
<1>3. ASSUME NEW c \in Compiles, PrefetchEnds(c) PROVE CacheTypeOK'
 <2>1. entry' \in [Compiles -> [Entries -> Reports]]
   BY <1>3, FetchWritten DEF PrefetchEnds, CacheTypeOK, Reports, FetchStates
 <2>2. stage' \in [Compiles -> Stages]
   BY <1>3 DEF PrefetchEnds, CacheTypeOK, Stages
 <2> QED BY <1>3, <2>1, <2>2 DEF PrefetchEnds, CacheTypeOK, Reports
<1>4. ASSUME NEW c \in Compiles, PublishResult(c) \/ FlushEnds(c) \/ UploadStops(c)
      PROVE  CacheTypeOK'
 <2>1. stage' \in [Compiles -> Stages]
   BY <1>4 DEF PublishResult, FlushEnds, UploadStops, CacheTypeOK, Stages
 <2> QED BY <1>4, <2>1 DEF PublishResult, FlushEnds, UploadStops, CacheTypeOK
<1>5. ASSUME NEW c \in Compiles, ReplaceManifest(c) PROVE CacheTypeOK'
 <2>1. stage' \in [Compiles -> Stages]
   BY <1>5 DEF ReplaceManifest, CacheTypeOK, Stages
 <2>2. manifest' \in [Projects -> SUBSET Entries]
   BY <1>5 DEF ReplaceManifest, CacheTypeOK, Used
 <2> QED BY <1>5, <2>1, <2>2 DEF ReplaceManifest, CacheTypeOK
<1>6. ASSUME NEW c \in Compiles, NEW e \in Entries, FetchBrep(c, e) PROVE CacheTypeOK'
 <2>1. entry' \in [Compiles -> [Entries -> Reports]]
   BY <1>6, FetchWritten DEF FetchBrep, FetchStates
 <2> QED BY <1>6, <2>1 DEF FetchBrep, CacheTypeOK, Reports
<1>7. ASSUME NEW c \in Compiles, NEW e \in Entries, FetchSidecar(c, e) PROVE CacheTypeOK'
 <2>1. entry' \in [Compiles -> [Entries -> Reports]]
   BY <1>7, FetchWritten DEF FetchSidecar, FetchStates
 <2>2. restored' \in [Compiles -> 0..MaxRestored]
  <3>1. restored[c] \in 0..MaxRestored /\ restored \in [Compiles -> 0..MaxRestored]
    BY DEF CacheTypeOK
  <3>2. CASE restored' = [restored EXCEPT ![c] = @ + 1] /\ restored[c] < MaxRestored
   <4>1. restored[c] + 1 \in 0..MaxRestored
     BY <3>1, <3>2
   <4> QED BY <3>1, <3>2, <4>1
  <3> QED BY <1>7, <3>1, <3>2 DEF FetchSidecar
 <2>3. folder' \in [Compiles -> [Entries -> SUBSET Halves]]
  <3>1. folder[c][e] \cup {"brep"} \in SUBSET Halves
    BY EntryType DEF Halves
  <3> QED BY <1>7, <3>1, FolderWritten DEF FetchSidecar, CacheTypeOK
 <2> QED BY <1>7, <2>1, <2>2, <2>3 DEF FetchSidecar, CacheTypeOK, Reports
<1>8. ASSUME NEW c \in Compiles, NEW e \in Entries, FetchWrites(c, e) PROVE CacheTypeOK'
 <2>1. entry' \in [Compiles -> [Entries -> Reports]]
   BY <1>8, FetchWritten DEF FetchWrites, FetchStates
 <2>2. folder' \in [Compiles -> [Entries -> SUBSET Halves]]
  <3>1. folder[c][e] \cup {"sidecar"} \in SUBSET Halves
    BY EntryType DEF Halves
  <3> QED BY <1>8, <3>1, FolderWritten DEF FetchWrites
 <2> QED BY <1>8, <2>1, <2>2 DEF FetchWrites, CacheTypeOK, Reports
<1>9. ASSUME NEW c \in Compiles, NEW e \in Entries,
             CallPart(c, e) \/ FlushBrep(c, e) \/ FlushSidecar(c, e)
      PROVE  CacheTypeOK'
 <2>1. entry' \in [Compiles -> [Entries -> Reports]]
   BY <1>9, ReportWritten DEF ReportIs, CallPart, FlushBrep, FlushSidecar, ReportStates
 <2>2. folder' \in [Compiles -> [Entries -> SUBSET Halves]]
  <3>1. folder[c][e] \cup {"brep"} \in SUBSET Halves /\ Halves \in SUBSET Halves
    BY EntryType DEF Halves
  <3> QED BY <1>9, <3>1, FolderWritten DEF CallPart, FlushBrep, FlushSidecar, CacheTypeOK
 <2> QED BY <1>9, <2>1, <2>2 DEF CallPart, FlushBrep, FlushSidecar, CacheTypeOK, Reports
<1>10. ASSUME NEW c \in Compiles, NEW e \in Entries, UploadBrep(c, e) \/ UploadSidecar(c, e)
       PROVE  CacheTypeOK'
 <2>1. entry' \in [Compiles -> [Entries -> Reports]]
   BY <1>10, ReportWritten DEF ReportIs, UploadBrep, UploadSidecar, ReportStates
 <2>2. object' \in [Entries -> [Halves -> ObjectStates]]
   BY <1>10, UploadWrites DEF ObjectIsWritten, UploadBrep, UploadSidecar, CacheTypeOK, ObjectStates, Halves
 <2> QED BY <1>10, <2>1, <2>2 DEF UploadBrep, UploadSidecar, CacheTypeOK, Reports, ObjectStates
<1>11. ASSUME NEW e \in Entries, NEW h \in Halves, ObjectFails(e, h) PROVE CacheTypeOK'
  BY <1>11 DEF ObjectFails, CacheTypeOK
<1>12. CASE UNCHANGED cacheVars
  BY <1>12 DEF cacheVars, CacheTypeOK
<1> QED BY <1>1, <1>2, <1>3, <1>4, <1>5, <1>6, <1>7, <1>8, <1>9, <1>10, <1>11, <1>12
        DEF CacheNext

\* Every part of the state keeps to its type; the budget of a folder is kept by
\* all of its concurrent fetches together.
THEOREM CacheTypeCorrect == CacheSpec => []CacheTypeOK
<1> QED BY CacheInitType, CacheTypeStep, PTL DEF CacheSpec
----
(* The store.                                                              *)

\* No object leaves the store but as a fault.
LEMMA StoreStep ==
    ASSUME CacheTypeOK, RotIsFault, [CacheNext]_cacheVars
    PROVE  /\ RotIsFault'
           /\ \A e \in Entries, h \in Halves : Stored(e, h) => Stored(e, h)'
<1>1. ASSUME NEW e \in Entries, NEW h \in Halves, ObjectFails(e, h)
      PROVE  /\ RotIsFault'
             /\ \A f \in Entries, k \in Halves : Stored(f, k) => Stored(f, k)'
 <2>1. PICK state \in ObjectStates : object' = [object EXCEPT ![e][h] = state]
   BY <1>1 DEF ObjectFails, ObjectStates
 <2>2. \A f \in Entries, k \in Halves : f # e \/ k # h => object'[f][k] = object[f][k]
   BY <2>1, ObjectWritten
 <2>3. faults' = faults \cup {<<e, h>>}
   BY <1>1 DEF ObjectFails
 <2> QED BY <2>2, <2>3 DEF RotIsFault, Stored
<1>2. ASSUME NEW e \in Entries, NEW h \in Halves, ObjectIsWritten(e, h), UNCHANGED faults
      PROVE  /\ RotIsFault'
             /\ \A f \in Entries, k \in Halves : Stored(f, k) => Stored(f, k)'
 <2>1. /\ object'[e][h] = Written(object[e][h])
       /\ \A f \in Entries, k \in Halves : f # e \/ k # h => object'[f][k] = object[f][k]
   BY <1>2, UploadWrites
 <2> QED BY <1>2, <2>1 DEF RotIsFault, Stored, Written
<1>3. CASE UNCHANGED <<object, faults>>
  BY <1>3 DEF RotIsFault, Stored
<1>4. ASSUME NEW c \in Compiles, NEW e \in Entries, UploadBrep(c, e) \/ UploadSidecar(c, e)
      PROVE  \/ UNCHANGED <<object, faults>>
             \/ UNCHANGED faults /\ \E h \in Halves : ObjectIsWritten(e, h)
  BY <1>4 DEF UploadBrep, UploadSidecar, ObjectIsWritten, Halves
<1>5. ASSUME NEW p \in Pods, PodEnds(p) \/ PodDies(p) \/ \E c \in Compiles : Take(p, c)
      PROVE  UNCHANGED <<object, faults>>
  BY <1>5 DEF PodEnds, PodDies, Take
<1>6. ASSUME NEW c \in Compiles,
             PrefetchEnds(c) \/ PublishResult(c) \/ FlushEnds(c) \/ ReplaceManifest(c) \/ UploadStops(c)
      PROVE  UNCHANGED <<object, faults>>
  BY <1>6 DEF PrefetchEnds, PublishResult, FlushEnds, ReplaceManifest, UploadStops
<1>7. ASSUME NEW c \in Compiles, NEW e \in Entries,
             \/ FetchBrep(c, e) \/ FetchSidecar(c, e) \/ FetchWrites(c, e)
             \/ CallPart(c, e) \/ FlushBrep(c, e) \/ FlushSidecar(c, e)
      PROVE  UNCHANGED <<object, faults>>
  BY <1>7 DEF FetchBrep, FetchSidecar, FetchWrites, CallPart, FlushBrep, FlushSidecar
<1>8. ASSUME UNCHANGED cacheVars PROVE UNCHANGED <<object, faults>>
  BY <1>8 DEF cacheVars
<1> QED BY <1>1, <1>2, <1>3, <1>4, <1>5, <1>6, <1>7, <1>8 DEF CacheNext

----
(* The compiles.                                                           *)

StoreKeeps == \A e \in Entries, h \in Halves : Stored(e, h) => Stored(e, h)'

\* What a step leaves to a compile and an entry stays backed, once the store
\* keeps: a compile never goes back to before its sandbox ended.
LEMMA BackedKept ==
    ASSUME StoreKeeps, NEW c \in Compiles, NEW e \in Entries, Backed(c, e),
           folder'[c][e] = folder[c][e],
           stage'[c] \in Early => stage[c] \in Early,
           entry'[c][e].fetch \in {entry[c][e].fetch, "waiting", "unknown"},
           entry'[c][e].report \in {entry[c][e].report, "unused", "built", "failed", "flushed"}
    PROVE  Backed(c, e)'
<1>1. StoredWhole(e) => StoredWhole(e)'
  BY DEF StoreKeeps, StoredWhole
<1>2. Stored(e, "brep") => Stored(e, "brep")'
  BY DEF StoreKeeps, Halves
<1> QED BY <1>1, <1>2 DEF Backed

\* A step of one compile with one entry leaves the others backed.
LEMMA OthersBacked ==
    ASSUME StoreKeeps, EntriesBacked, NEW c \in Compiles, NEW e \in Entries,
           \A d \in Compiles, f \in Entries : d # c \/ f # e =>
               entry'[d][f] = entry[d][f] /\ folder'[d][f] = folder[d][f],
           \A d \in Compiles : stage'[d] = stage[d],
           Backed(c, e)'
    PROVE  EntriesBacked'
<1>1. ASSUME NEW d \in Compiles, NEW f \in Entries PROVE Backed(d, f)'
  BY <1>1, BackedKept DEF EntriesBacked
<1> QED BY <1>1 DEF EntriesBacked

LEMMA BackedStep ==
    ASSUME CacheTypeOK, EntriesBacked, RotIsFault, [CacheNext]_cacheVars
    PROVE  EntriesBacked'
<1>0. StoreKeeps
  BY StoreStep DEF StoreKeeps
<1>1. ASSUME NEW p \in Pods, PodEnds(p) \/ PodDies(p) PROVE EntriesBacked'
  BY <1>0, <1>1, BackedKept DEF PodEnds, PodDies, EntriesBacked
<1>2. ASSUME NEW p \in Pods, NEW c \in Compiles, Take(p, c) PROVE EntriesBacked'
 <2>1. PICK wanted \in {manifest[project[c]], {}} :
           entry' = [entry EXCEPT ![c] = [e \in Entries |->
             [@[e] EXCEPT !.fetch = IF e \in wanted THEN "waiting" ELSE "unknown"]]]
   BY <1>2 DEF Take
 <2>2. ASSUME NEW d \in Compiles, NEW f \in Entries PROVE Backed(d, f)'
  <3>1. /\ entry'[d][f].fetch \in {entry[d][f].fetch, "waiting", "unknown"}
        /\ entry'[d][f].report = entry[d][f].report
    BY <2>1, EntryType DEF CacheTypeOK, Reports
  <3>2. folder' = folder /\ (stage'[d] \in Early => stage[d] \in Early)
    BY <1>2 DEF Take, CacheTypeOK, Early
  <3> QED BY <1>0, <3>1, <3>2, BackedKept DEF EntriesBacked
 <2> QED BY <2>2 DEF EntriesBacked
<1>3. ASSUME NEW c \in Compiles, PrefetchEnds(c) PROVE EntriesBacked'
 <2>1. ASSUME NEW d \in Compiles, NEW f \in Entries
       PROVE  /\ entry'[d][f].fetch \in {entry[d][f].fetch, "unknown"}
              /\ entry'[d][f].report = entry[d][f].report
  <3>1. CASE UNCHANGED entry
    BY <3>1
  <3>2. ASSUME NEW e \in Entries, FetchIs(c, e, "unknown")
        PROVE  /\ entry'[d][f].fetch \in {entry[d][f].fetch, "unknown"}
               /\ entry'[d][f].report = entry[d][f].report
   <4>1. "unknown" \in FetchStates
     BY DEF FetchStates
   <4>2. /\ entry'[c][e] = [entry[c][e] EXCEPT !.fetch = "unknown"]
         /\ d # c \/ f # e => entry'[d][f] = entry[d][f]
     BY <3>2, <4>1, FetchWritten
   <4>3. entry[c][e] \in Reports
     BY EntryType
   <4> QED BY <4>2, <4>3 DEF Reports
  <3> QED BY <1>3, <3>1, <3>2 DEF PrefetchEnds
 <2>2. folder' = folder /\ \A d \in Compiles : stage'[d] \in Early => stage[d] \in Early
   BY <1>3 DEF PrefetchEnds, CacheTypeOK, Early
 <2>3. ASSUME NEW d \in Compiles, NEW f \in Entries PROVE Backed(d, f)'
   BY <1>0, <2>1, <2>2, BackedKept DEF EntriesBacked
 <2> QED BY <2>3 DEF EntriesBacked
<1>4. ASSUME NEW c \in Compiles, PublishResult(c) \/ FlushEnds(c) \/ UploadStops(c) \/ ReplaceManifest(c)
      PROVE  EntriesBacked'
 <2>1. /\ folder' = folder /\ entry' = entry
       /\ \A d \in Compiles : stage'[d] \in Early => stage[d] \in Early
   BY <1>4 DEF PublishResult, FlushEnds, UploadStops, ReplaceManifest, CacheTypeOK, Early
 <2>2. ASSUME NEW d \in Compiles, NEW f \in Entries PROVE Backed(d, f)'
   BY <1>0, <2>1, BackedKept DEF EntriesBacked
 <2> QED BY <2>2 DEF EntriesBacked
<1>5. ASSUME NEW c \in Compiles, NEW e \in Entries, FetchBrep(c, e) PROVE EntriesBacked'
 <2> DEFINE state == IF restored[c] < MaxRestored /\ object[e]["brep"] = "whole"
                     THEN "reading" ELSE "unknown"
 <2>1. state \in FetchStates /\ FetchIs(c, e, state)
   BY <1>5 DEF FetchBrep, FetchStates
 <2>2. state = "reading" => Stored(e, "brep")
   BY DEF Stored
 <2>3. UNCHANGED <<stage, folder, object, faults>>
   BY <1>5 DEF FetchBrep
 <2> HIDE DEF state
 <2>4. /\ entry'[c][e] = [entry[c][e] EXCEPT !.fetch = state]
       /\ \A d \in Compiles, f \in Entries : d # c \/ f # e => entry'[d][f] = entry[d][f]
   BY <2>1, FetchWritten
 <2>5. entry'[c][e].fetch = state /\ entry'[c][e].report = entry[c][e].report
   BY <2>4, EntryType DEF Reports
 <2>6. state \in {"reading", "unknown"}
   BY DEF state
 <2>7. Backed(c, e)'
   BY <2>2, <2>3, <2>5, <2>6 DEF EntriesBacked, Backed, Stored, StoredWhole
 <2> QED BY <1>0, <2>3, <2>4, <2>7, OthersBacked
<1>6. ASSUME NEW c \in Compiles, NEW e \in Entries, FetchSidecar(c, e) PROVE EntriesBacked'
 <2>0. entry[c][e].fetch = "reading" /\ UNCHANGED <<stage, object, faults>>
   BY <1>6 DEF FetchSidecar
 <2>1. CASE object[e]["sidecar"] = "whole" /\ restored[c] < MaxRestored
  <3>1. FetchIs(c, e, "writing") /\ folder' = [folder EXCEPT ![c][e] = folder[c][e] \cup {"brep"}]
    BY <1>6, <2>1 DEF FetchSidecar
  <3>2. "writing" \in FetchStates /\ folder[c][e] \cup {"brep"} \in SUBSET Halves
    BY EntryType DEF FetchStates, Halves
  <3>3. /\ entry'[c][e] = [entry[c][e] EXCEPT !.fetch = "writing"]
        /\ folder'[c][e] = folder[c][e] \cup {"brep"}
        /\ \A d \in Compiles, f \in Entries : d # c \/ f # e =>
              entry'[d][f] = entry[d][f] /\ folder'[d][f] = folder[d][f]
   <4>1. /\ entry'[c][e] = [entry[c][e] EXCEPT !.fetch = "writing"]
         /\ \A d \in Compiles, f \in Entries : d # c \/ f # e => entry'[d][f] = entry[d][f]
     BY <3>1, <3>2, FetchWritten
   <4>2. /\ folder'[c][e] = folder[c][e] \cup {"brep"}
         /\ \A d \in Compiles, f \in Entries : d # c \/ f # e => folder'[d][f] = folder[d][f]
     BY <3>1, <3>2, FolderWritten
   <4> QED BY <4>1, <4>2
  <3>4. entry'[c][e].fetch = "writing" /\ entry'[c][e].report = entry[c][e].report
    BY <3>3, EntryType DEF Reports
  <3>5. StoredWhole(e)
    BY <2>0, <2>1 DEF EntriesBacked, Backed, Stored, StoredWhole, Halves
  <3>6. Backed(c, e)'
    BY <2>0, <3>3, <3>4, <3>5 DEF EntriesBacked, Backed, Stored, StoredWhole
  <3> QED BY <1>0, <2>0, <3>3, <3>6, OthersBacked
 <2>2. CASE ~(object[e]["sidecar"] = "whole" /\ restored[c] < MaxRestored)
  <3>1. FetchIs(c, e, "unknown") /\ folder' = folder
    BY <1>6, <2>2 DEF FetchSidecar
  <3>2. /\ entry'[c][e] = [entry[c][e] EXCEPT !.fetch = "unknown"]
        /\ \A d \in Compiles, f \in Entries : d # c \/ f # e => entry'[d][f] = entry[d][f]
    BY <3>1, FetchWritten DEF FetchStates
  <3>3. entry'[c][e].fetch = "unknown" /\ entry'[c][e].report = entry[c][e].report
    BY <3>2, EntryType DEF Reports
  <3>4. Backed(c, e)'
    BY <1>0, <2>0, <3>1, <3>3, BackedKept DEF EntriesBacked
  <3> QED BY <1>0, <2>0, <3>1, <3>2, <3>4, OthersBacked
 <2> QED BY <2>1, <2>2
<1>7. ASSUME NEW c \in Compiles, NEW e \in Entries, FetchWrites(c, e) PROVE EntriesBacked'
 <2>1. /\ entry[c][e].fetch = "writing" /\ FetchIs(c, e, "unknown")
       /\ folder' = [folder EXCEPT ![c][e] = folder[c][e] \cup {"sidecar"}]
       /\ UNCHANGED <<stage, object, faults>>
   BY <1>7 DEF FetchWrites
 <2>2. "unknown" \in FetchStates /\ folder[c][e] \cup {"sidecar"} \in SUBSET Halves
   BY EntryType DEF FetchStates, Halves
 <2>3. /\ entry'[c][e] = [entry[c][e] EXCEPT !.fetch = "unknown"]
       /\ folder'[c][e] = folder[c][e] \cup {"sidecar"}
       /\ \A d \in Compiles, f \in Entries : d # c \/ f # e =>
             entry'[d][f] = entry[d][f] /\ folder'[d][f] = folder[d][f]
  <3>1. /\ entry'[c][e] = [entry[c][e] EXCEPT !.fetch = "unknown"]
        /\ \A d \in Compiles, f \in Entries : d # c \/ f # e => entry'[d][f] = entry[d][f]
    BY <2>1, <2>2, FetchWritten
  <3>2. /\ folder'[c][e] = folder[c][e] \cup {"sidecar"}
        /\ \A d \in Compiles, f \in Entries : d # c \/ f # e => folder'[d][f] = folder[d][f]
    BY <2>1, <2>2, FolderWritten
  <3> QED BY <3>1, <3>2
 <2>4. entry'[c][e].fetch = "unknown" /\ entry'[c][e].report = entry[c][e].report
   BY <2>3, EntryType DEF Reports
 <2>5. Backed(c, e)'
   BY <2>1, <2>3, <2>4 DEF EntriesBacked, Backed, Stored, StoredWhole
 <2> QED BY <1>0, <2>1, <2>3, <2>5, OthersBacked
<1>8. ASSUME NEW c \in Compiles, NEW e \in Entries, CallPart(c, e) PROVE EntriesBacked'
 <2> DEFINE state == IF Whole(c, e) THEN "hit" ELSE "built"
 <2>1. /\ state \in ReportStates /\ ReportIs(c, e, state) /\ stage[c] = "building"
       /\ UNCHANGED <<stage, folder, object, faults>>
   BY <1>8 DEF CallPart, ReportIs, ReportStates
 <2>2. state = "hit" => StoredWhole(e)
   BY <2>1 DEF EntriesBacked, Backed, Early, Whole, Halves
 <2>3. state \in {"hit", "built"}
   OBVIOUS
 <2> HIDE DEF state
 <2>4. /\ entry'[c][e] = [entry[c][e] EXCEPT !.report = state]
       /\ \A d \in Compiles, f \in Entries : d # c \/ f # e => entry'[d][f] = entry[d][f]
   BY <2>1, ReportWritten
 <2>5. entry'[c][e].report = state /\ entry'[c][e].fetch = entry[c][e].fetch
   BY <2>4, EntryType DEF Reports
 <2>6. Backed(c, e)'
   BY <2>1, <2>2, <2>3, <2>5 DEF EntriesBacked, Backed, Stored, StoredWhole
 <2> QED BY <1>0, <2>1, <2>4, <2>6, OthersBacked
<1>9. ASSUME NEW c \in Compiles, NEW e \in Entries, FlushBrep(c, e) PROVE EntriesBacked'
 <2>1. /\ ReportIs(c, e, "failed") /\ stage[c] = "flushing"
       /\ folder' = [folder EXCEPT ![c][e] = folder[c][e] \cup {"brep"}]
       /\ UNCHANGED <<stage, object, faults>>
   BY <1>9 DEF FlushBrep, ReportIs
 <2>2. "failed" \in ReportStates /\ folder[c][e] \cup {"brep"} \in SUBSET Halves
   BY EntryType DEF ReportStates, Halves
 <2>3. /\ entry'[c][e] = [entry[c][e] EXCEPT !.report = "failed"]
       /\ folder'[c][e] = folder[c][e] \cup {"brep"}
       /\ \A d \in Compiles, f \in Entries : d # c \/ f # e =>
             entry'[d][f] = entry[d][f] /\ folder'[d][f] = folder[d][f]
  <3>1. /\ entry'[c][e] = [entry[c][e] EXCEPT !.report = "failed"]
        /\ \A d \in Compiles, f \in Entries : d # c \/ f # e => entry'[d][f] = entry[d][f]
    BY <2>1, <2>2, ReportWritten
  <3>2. /\ folder'[c][e] = folder[c][e] \cup {"brep"}
        /\ \A d \in Compiles, f \in Entries : d # c \/ f # e => folder'[d][f] = folder[d][f]
    BY <2>1, <2>2, FolderWritten
  <3> QED BY <3>1, <3>2
 <2>4. entry'[c][e].report = "failed" /\ entry'[c][e].fetch = entry[c][e].fetch
   BY <2>3, EntryType DEF Reports
 <2>5. Backed(c, e)'
   BY <2>1, <2>3, <2>4 DEF EntriesBacked, Backed, Stored, StoredWhole, Early
 <2> QED BY <1>0, <2>1, <2>3, <2>5, OthersBacked
<1>10. ASSUME NEW c \in Compiles, NEW e \in Entries, FlushSidecar(c, e) PROVE EntriesBacked'
 <2>1. /\ ReportIs(c, e, "flushed") /\ stage[c] = "flushing"
       /\ folder' = [folder EXCEPT ![c][e] = Halves]
       /\ UNCHANGED <<stage, object, faults>>
   BY <1>10 DEF FlushSidecar, ReportIs
 <2>2. "flushed" \in ReportStates /\ Halves \in SUBSET Halves
   BY DEF ReportStates
 <2>3. /\ entry'[c][e] = [entry[c][e] EXCEPT !.report = "flushed"]
       /\ folder'[c][e] = Halves
       /\ \A d \in Compiles, f \in Entries : d # c \/ f # e =>
             entry'[d][f] = entry[d][f] /\ folder'[d][f] = folder[d][f]
  <3>1. /\ entry'[c][e] = [entry[c][e] EXCEPT !.report = "flushed"]
        /\ \A d \in Compiles, f \in Entries : d # c \/ f # e => entry'[d][f] = entry[d][f]
    BY <2>1, <2>2, ReportWritten
  <3>2. /\ folder'[c][e] = Halves
        /\ \A d \in Compiles, f \in Entries : d # c \/ f # e => folder'[d][f] = folder[d][f]
    BY <2>1, <2>2, FolderWritten
  <3> QED BY <3>1, <3>2
 <2>4. entry'[c][e].report = "flushed" /\ entry'[c][e].fetch = entry[c][e].fetch
   BY <2>3, EntryType DEF Reports
 <2>5. Backed(c, e)'
   BY <2>1, <2>3, <2>4 DEF EntriesBacked, Backed, Stored, StoredWhole, Early, Halves
 <2> QED BY <1>0, <2>1, <2>3, <2>5, OthersBacked
<1>11. ASSUME NEW c \in Compiles, NEW e \in Entries, UploadBrep(c, e) PROVE EntriesBacked'
 <2>0. /\ UNCHANGED <<stage, folder, faults>> /\ stage[c] = "uploading"
   BY <1>11 DEF UploadBrep
 <2>1. CASE Whole(c, e)
  <3>1. ReportIs(c, e, "uploading") /\ ObjectIsWritten(e, "brep")
    BY <1>11, <2>1 DEF UploadBrep, ReportIs, ObjectIsWritten
  <3>2. /\ entry'[c][e] = [entry[c][e] EXCEPT !.report = "uploading"]
        /\ \A d \in Compiles, f \in Entries : d # c \/ f # e => entry'[d][f] = entry[d][f]
    BY <3>1, ReportWritten DEF ReportStates
  <3>3. entry'[c][e].report = "uploading" /\ entry'[c][e].fetch = entry[c][e].fetch
    BY <3>2, EntryType DEF Reports
  <3>4. object'[e]["brep"] = Written(object[e]["brep"]) /\ object[e]["brep"] \in ObjectStates
    BY <3>1, UploadWrites DEF Halves, CacheTypeOK, ObjectStates
  <3>5. Stored(e, "brep")'
    BY <2>0, <3>4 DEF Stored, Written, ObjectStates, RotIsFault, Halves
  <3>6. StoredWhole(e) => StoredWhole(e)'
    BY <1>0 DEF StoreKeeps, StoredWhole
  <3>7. Backed(c, e)'
    BY <2>0, <3>3, <3>5, <3>6 DEF EntriesBacked, Backed
  <3> QED BY <1>0, <2>0, <3>2, <3>7, OthersBacked
 <2>2. CASE ~Whole(c, e)
  <3>1. ReportIs(c, e, "unused")
    BY <1>11, <2>2 DEF UploadBrep, ReportIs
  <3>2. /\ entry'[c][e] = [entry[c][e] EXCEPT !.report = "unused"]
        /\ \A d \in Compiles, f \in Entries : d # c \/ f # e => entry'[d][f] = entry[d][f]
    BY <3>1, ReportWritten DEF ReportStates
  <3>3. entry'[c][e].report = "unused" /\ entry'[c][e].fetch = entry[c][e].fetch
    BY <3>2, EntryType DEF Reports
  <3>4. Backed(c, e)'
    BY <1>0, <2>0, <3>3, BackedKept DEF EntriesBacked
  <3> QED BY <1>0, <2>0, <3>2, <3>4, OthersBacked
 <2> QED BY <2>1, <2>2
<1>12. ASSUME NEW c \in Compiles, NEW e \in Entries, UploadSidecar(c, e) PROVE EntriesBacked'
 <2>1. /\ ReportIs(c, e, "uploaded") /\ ObjectIsWritten(e, "sidecar")
       /\ entry[c][e].report = "uploading" /\ stage[c] = "uploading"
       /\ UNCHANGED <<stage, folder, faults>>
   BY <1>12 DEF UploadSidecar, ReportIs, ObjectIsWritten
 <2>2. /\ entry'[c][e] = [entry[c][e] EXCEPT !.report = "uploaded"]
       /\ \A d \in Compiles, f \in Entries : d # c \/ f # e => entry'[d][f] = entry[d][f]
   BY <2>1, ReportWritten DEF ReportStates
 <2>3. entry'[c][e].report = "uploaded" /\ entry'[c][e].fetch = entry[c][e].fetch
   BY <2>2, EntryType DEF Reports
 <2>4. object'[e]["sidecar"] = Written(object[e]["sidecar"]) /\ object[e]["sidecar"] \in ObjectStates
   BY <2>1, UploadWrites DEF Halves, CacheTypeOK, ObjectStates
 <2>5. Stored(e, "sidecar")'
   BY <2>1, <2>4 DEF Stored, Written, ObjectStates, RotIsFault, Halves
 <2>6. Stored(e, "brep")'
  <3>1. Stored(e, "brep")
    BY <2>1 DEF EntriesBacked, Backed
  <3> QED BY <1>0, <3>1 DEF StoreKeeps, Halves
 <2>7. StoredWhole(e)'
   BY <2>5, <2>6 DEF StoredWhole, Halves
 <2>8. Backed(c, e)'
   BY <2>1, <2>3, <2>6, <2>7 DEF EntriesBacked, Backed
 <2> QED BY <1>0, <2>1, <2>2, <2>8, OthersBacked
<1>13. ASSUME NEW e \in Entries, NEW h \in Halves, ObjectFails(e, h) PROVE EntriesBacked'
  BY <1>0, <1>13, BackedKept DEF ObjectFails, EntriesBacked
<1>14. CASE UNCHANGED cacheVars
  BY <1>14 DEF cacheVars, EntriesBacked, Backed, Stored, StoredWhole
<1> QED BY <1>1, <1>2, <1>3, <1>4, <1>5, <1>6, <1>7, <1>8, <1>9, <1>10, <1>11, <1>12, <1>13, <1>14
        DEF CacheNext

----
(* The manifests.                                                          *)

LEMMA ManifestStep ==
    ASSUME CacheTypeOK, EntriesBacked, RotIsFault, ManifestNamesStored, [CacheNext]_cacheVars
    PROVE  ManifestNamesStored'
<1>0. StoreKeeps
  BY StoreStep DEF StoreKeeps
<1>1. CASE UNCHANGED manifest
  BY <1>0, <1>1 DEF ManifestNamesStored, StoreKeeps, Stored, CacheTypeOK
<1>2. ASSUME NEW c \in Compiles, ReplaceManifest(c) PROVE ManifestNamesStored'
 <2>1. \A p \in Projects : manifest'[p] = manifest[p] \/ manifest'[p] = Used(c)
   BY <1>2 DEF ReplaceManifest, CacheTypeOK
 <2>2. UNCHANGED <<object, faults>>
   BY <1>2 DEF ReplaceManifest
 <2>3. \A e \in Used(c), h \in Halves : object[e][h] = "whole" \/ <<e, h>> \in faults
   BY DEF Used, EntriesBacked, Backed, StoredWhole, Stored
 <2> QED BY <2>1, <2>2, <2>3 DEF ManifestNamesStored
<1>3. ASSUME NEW p \in Pods, PodEnds(p) \/ PodDies(p) \/ \E c \in Compiles : Take(p, c)
      PROVE  UNCHANGED manifest
  BY <1>3 DEF PodEnds, PodDies, Take
<1>4. ASSUME NEW c \in Compiles, PrefetchEnds(c) \/ PublishResult(c) \/ FlushEnds(c) \/ UploadStops(c)
      PROVE  UNCHANGED manifest
  BY <1>4 DEF PrefetchEnds, PublishResult, FlushEnds, UploadStops
<1>5. ASSUME NEW c \in Compiles, NEW e \in Entries,
             \/ FetchBrep(c, e) \/ FetchSidecar(c, e) \/ FetchWrites(c, e)
             \/ CallPart(c, e) \/ FlushBrep(c, e) \/ FlushSidecar(c, e)
             \/ UploadBrep(c, e) \/ UploadSidecar(c, e)
      PROVE  UNCHANGED manifest
  BY <1>5 DEF FetchBrep, FetchSidecar, FetchWrites, CallPart, FlushBrep, FlushSidecar,
     UploadBrep, UploadSidecar
<1>6. ASSUME NEW e \in Entries, NEW h \in Halves, ObjectFails(e, h) PROVE UNCHANGED manifest
  BY <1>6 DEF ObjectFails
<1>7. ASSUME UNCHANGED cacheVars PROVE UNCHANGED manifest
  BY <1>7 DEF cacheVars
<1> QED BY <1>1, <1>2, <1>3, <1>4, <1>5, <1>6, <1>7 DEF CacheNext

----
(* The theorem.                                                            *)

LEMMA CacheInvariant == CacheSpec => []CacheInv
<1>1. CacheInit => CacheInv
 <2> SUFFICES ASSUME CacheInit PROVE CacheInv
   OBVIOUS
 <2>1. EntriesBacked
   BY DEF CacheInit, EntriesBacked, Backed
 <2>2. RotIsFault /\ ManifestNamesStored
   BY DEF CacheInit, RotIsFault, ManifestNamesStored
 <2> QED BY <2>1, <2>2, CacheInitType DEF CacheInv
<1>2. CacheInv /\ [CacheNext]_cacheVars => CacheInv'
  BY CacheTypeStep, StoreStep, BackedStep, ManifestStep DEF CacheInv
<1> QED BY <1>1, <1>2, PTL DEF CacheSpec

\* A folder's sidecars are written last, a manifest names what the store has but
\* for faults, and a folder keeps to its budget: of any number of pods, whatever
\* they overlap with and wherever they stop.
THEOREM CacheCorrect == CacheSpec => []CacheIsSound
<1>1. CacheInv => CacheIsSound
 <2> SUFFICES ASSUME CacheInv PROVE CacheIsSound
   OBVIOUS
 <2>1. SidecarIsLast
   BY DEF CacheInv, EntriesBacked, Backed, SidecarIsLast
 <2>2. BudgetIsKept
  <3>1. ASSUME NEW c \in Compiles PROVE restored[c] <= MaxRestored
   <4>1. restored[c] \in 0..MaxRestored
     BY DEF CacheInv, CacheTypeOK
   <4> QED BY <4>1, CacheAssumption
  <3> QED BY <3>1 DEF BudgetIsKept
 <2> QED BY <2>1, <2>2 DEF CacheInv, CacheIsSound
<1> QED BY <1>1, CacheInvariant, PTL

----
(***************************************************************************)
(* The session of a design.  A call that replays a part and one that builds *)
(* it execute the same body, element by element; they stay abreast, since   *)
(* every name stands for the same token: what the body made, or a piece,    *)
(* which the replay finds by its mark.                                      *)
(***************************************************************************)
\* What is the same of two sessions: all but the shapes.
Same(s, t) ==
    /\ s.components = t.components /\ s.connections = t.connections
    /\ s.pieces = t.pieces /\ s.model = t.model /\ s.failed = t.failed

IsSession(s) ==
    s = [components |-> s.components, connections |-> s.connections, shapes |-> s.shapes,
         pieces |-> s.pieces, model |-> s.model, failed |-> s.failed]

LEMMA SessionOf ==
    ASSUME NEW c, NEW d, NEW h, NEW p, NEW m, NEW f,
           NEW b, b = [components |-> c, connections |-> d, shapes |-> h, pieces |-> p,
                       model |-> m, failed |-> f]
    PROVE  /\ b.components = c /\ b.connections = d /\ b.pieces = p /\ b.model = m /\ b.failed = f
           /\ IsSession(b)
<1>1. /\ b.components = c /\ b.connections = d /\ b.shapes = h /\ b.pieces = p
      /\ b.model = m /\ b.failed = f
  OBVIOUS
<1>2. b = [components |-> b.components, connections |-> b.connections, shapes |-> b.shapes,
           pieces |-> b.pieces, model |-> b.model, failed |-> b.failed]
  BY <1>1, Zenon
<1> QED BY <1>1, <1>2 DEF IsSession

\* A component with the mark of a piece is that piece.
SessionOK(s) ==
    /\ IsSession(s)
    /\ s.components \in Seq(Range(s.components))
    /\ s.connections \in Seq(Range(s.connections))
    /\ DOMAIN s.pieces = DOMAIN Singles
    /\ \A n \in DOMAIN Singles :
          /\ s.pieces[n] \in Nat
          /\ s.pieces[n] # 0 => /\ s.pieces[n] \in DOMAIN s.components
                                /\ s.components[s.pieces[n]] = Singles[n]
          /\ Singles[n] # Unmarked =>
                \A t \in DOMAIN s.components : s.components[t] = Singles[n] => s.pieces[n] = t

LEMMA FailedIs ==
    ASSUME NEW s, IsSession(s)
    PROVE  /\ IsSession(Failed(s)) /\ Failed(s).failed = TRUE
           /\ Failed(s).components = s.components /\ Failed(s).connections = s.connections
           /\ Failed(s).pieces = s.pieces /\ Failed(s).model = s.model
<1>1. s = [components |-> s.components, connections |-> s.connections, shapes |-> s.shapes,
           pieces |-> s.pieces, model |-> s.model, failed |-> s.failed]
  BY DEF IsSession
<1>0. PICK a : a = [s EXCEPT !.failed = TRUE]
  OBVIOUS
<1>2. a = [components |-> s.components, connections |-> s.connections, shapes |-> s.shapes,
           pieces |-> s.pieces, model |-> s.model, failed |-> TRUE]
  BY <1>0, <1>1
<1>3. /\ a.components = s.components /\ a.connections = s.connections
      /\ a.pieces = s.pieces /\ a.model = s.model /\ a.failed = TRUE
      /\ IsSession(a)
  BY <1>2, SessionOf
<1> QED BY <1>0, <1>3 DEF Failed

LEMMA AppendsKept ==
    ASSUME NEW s, s \in Seq(Range(s)), NEW x
    PROVE  /\ Append(s, x) \in Seq(Range(Append(s, x)))
           /\ Len(Append(s, x)) = Len(s) + 1 /\ Len(s) \in Nat
           /\ DOMAIN Append(s, x) = DOMAIN s \cup {Len(s) + 1}
           /\ DOMAIN s = 1..Len(s)
           /\ Append(s, x)[Len(s) + 1] = x
           /\ \A i \in DOMAIN s : Append(s, x)[i] = s[i]
<1> DEFINE R == Range(s) \cup {x}
<1>1. s \in Seq(R) /\ x \in R
 <2>1. Range(s) \subseteq R
   OBVIOUS
 <2> QED BY <2>1
<1>2. Append(s, x) \in Seq(R)
  BY <1>1
<1>3. PICK a : a = Append(s, x)
  OBVIOUS
<1>4. a \in Seq(Range(a))
 <2>1. \A i \in 1..Len(a) : a[i] \in Range(a)
   BY <1>2, <1>3, LenProperties DEF Range
 <2> QED BY <1>2, <1>3, <2>1
<1>5. /\ Len(a) = Len(s) + 1 /\ Len(s) \in Nat /\ DOMAIN s = 1..Len(s)
      /\ DOMAIN a = 1..(Len(s) + 1) /\ a[Len(s) + 1] = x
      /\ \A i \in DOMAIN s : a[i] = s[i]
  BY <1>1, <1>3
<1>6. 1..(Len(s) + 1) = (1..Len(s)) \cup {Len(s) + 1}
  BY <1>5
<1> QED BY <1>3, <1>4, <1>5, <1>6

\* The mark is that of a component already.
MarkTaken(s, mark) == mark # Unmarked /\ mark \in Range(s.components)

\* a is s after a component was registered.
WithComponent(s, mark, a) ==
    /\ IsSession(a) /\ a.connections = s.connections /\ a.pieces = s.pieces
    /\ a.model = s.model
    /\ MarkTaken(s, mark) => a.failed = TRUE /\ a.components = s.components
    /\ ~MarkTaken(s, mark) => a.failed = s.failed /\ a.components = Append(s.components, mark)

LEMMA ComponentIs ==
    ASSUME NEW s, IsSession(s), NEW mark, NEW shape
    PROVE  WithComponent(s, mark, RegisterComponent(s, mark, shape))
<1>1. CASE MarkTaken(s, mark)
  BY <1>1, FailedIs DEF RegisterComponent, WithComponent, MarkTaken
<1>2. CASE ~MarkTaken(s, mark)
 <2>1. PICK b : b = [s EXCEPT !.components = Append(@, mark), !.shapes = Append(@, shape)]
   OBVIOUS
 <2>4. RegisterComponent(s, mark, shape) = b
   BY <1>2, <2>1 DEF RegisterComponent, MarkTaken
 <2>2. s = [components |-> s.components, connections |-> s.connections, shapes |-> s.shapes,
            pieces |-> s.pieces, model |-> s.model, failed |-> s.failed]
   BY DEF IsSession
 <2>3. b = [components |-> Append(s.components, mark), connections |-> s.connections,
            shapes |-> Append(s.shapes, shape),
            pieces |-> s.pieces, model |-> s.model, failed |-> s.failed]
   BY <2>1, <2>2
 <2>6. /\ b.components = Append(s.components, mark) /\ b.connections = s.connections
       /\ b.pieces = s.pieces /\ b.model = s.model /\ b.failed = s.failed
       /\ IsSession(b)
   BY <2>3, SessionOf
 <2> QED BY <1>2, <2>4, <2>6 DEF WithComponent
<1> QED BY <1>1, <1>2

\* What refuses a connection, but for the shapes.
Refused(s, ports, connectors) ==
    \/ Cardinality(Range(ports)) < 2
    \/ Range(ports) \cap ConnectedPorts(s) # {}
    \/ connectors = <<>>
    \/ Range(connectors) \cap UsedConnectors(s) # {}
    \/ Cardinality(Range(connectors)) # Len(connectors)

\* a is s after a connection was registered.
WithConnection(s, mark, ports, used, a) ==
    /\ IsSession(a) /\ a.components = s.components /\ a.pieces = s.pieces
    /\ a.model = s.model
    /\ Refused(s, ports, used) => a.failed = TRUE /\ a.connections = s.connections
    /\ ~Refused(s, ports, used) =>
          /\ a.failed = s.failed
          /\ a.connections = Append(s.connections,
                 [mark |-> mark, ports |-> ports, connectors |-> used])

\* A connection on the shapes as they are registered is never refused for them.
LEMMA ConnectionIs ==
    ASSUME NEW s, IsSession(s), NEW mark, NEW ports, NEW used
    PROVE  WithConnection(s, mark, ports, used,
               RegisterConnection(s, mark, ports, used, ShapesOf(s, used)))
<1>1. ~ \E i \in DOMAIN used : s.shapes[used[i]] # ShapesOf(s, used)[i]
  BY DEF ShapesOf
<1>2. RegisterConnection(s, mark, ports, used, ShapesOf(s, used)) =
          IF Refused(s, ports, used) THEN Failed(s)
          ELSE [s EXCEPT !.connections =
                   Append(@, [mark |-> mark, ports |-> ports, connectors |-> used])]
  BY <1>1, Zenon DEF RegisterConnection, Refused
<1>3. CASE Refused(s, ports, used)
  BY <1>2, <1>3, FailedIs DEF WithConnection
<1>4. CASE ~Refused(s, ports, used)
 <2>1. PICK c : c = [mark |-> mark, ports |-> ports, connectors |-> used]
   OBVIOUS
 <2>2. PICK b : b = [s EXCEPT !.connections = Append(@, c)]
   OBVIOUS
 <2>5. RegisterConnection(s, mark, ports, used, ShapesOf(s, used)) = b
   BY <1>2, <1>4, <2>1, <2>2
 <2>3. s = [components |-> s.components, connections |-> s.connections, shapes |-> s.shapes,
            pieces |-> s.pieces, model |-> s.model, failed |-> s.failed]
   BY DEF IsSession
 <2>4. b = [components |-> s.components, connections |-> Append(s.connections, c),
            shapes |-> s.shapes,
            pieces |-> s.pieces, model |-> s.model, failed |-> s.failed]
   BY <2>2, <2>3
 <2>6. /\ b.components = s.components /\ b.connections = Append(s.connections, c)
       /\ b.pieces = s.pieces /\ b.model = s.model /\ b.failed = s.failed
       /\ IsSession(b)
   BY <2>4, SessionOf
 <2> QED BY <1>4, <2>1, <2>5, <2>6 DEF WithConnection
<1> QED BY <1>3, <1>4

LEMMA ComponentSame ==
    ASSUME NEW s, NEW t, IsSession(s), IsSession(t), Same(s, t), NEW mark, NEW x, NEW y
    PROVE  Same(RegisterComponent(s, mark, x), RegisterComponent(t, mark, y))
<1>1. PICK a, b : a = RegisterComponent(s, mark, x) /\ b = RegisterComponent(t, mark, y)
  OBVIOUS
<1>2. WithComponent(s, mark, a)
  BY <1>1, ComponentIs
<1>3. WithComponent(t, mark, b)
  BY <1>1, ComponentIs
<1>4. a.components = b.components /\ a.failed = b.failed
 <2>1. s.components = t.components /\ s.failed = t.failed
   BY DEF Same
 <2>0. MarkTaken(s, mark) = MarkTaken(t, mark)
   BY Zenon DEF Same, MarkTaken
 <2>2. CASE MarkTaken(s, mark)
   BY <1>2, <1>3, <2>0, <2>1, <2>2 DEF WithComponent
 <2>3. CASE ~MarkTaken(s, mark)
   BY <1>2, <1>3, <2>0, <2>1, <2>3 DEF WithComponent
 <2> QED BY <2>2, <2>3
<1>5. Same(a, b)
  BY <1>2, <1>3, <1>4 DEF Same, WithComponent
<1> QED BY <1>1, <1>5

LEMMA ConnectionSame ==
    ASSUME NEW s, NEW t, IsSession(s), IsSession(t), Same(s, t), NEW mark, NEW ports, NEW used
    PROVE  Same(RegisterConnection(s, mark, ports, used, ShapesOf(s, used)),
                RegisterConnection(t, mark, ports, used, ShapesOf(t, used)))
<1>1. PICK a, b : /\ a = RegisterConnection(s, mark, ports, used, ShapesOf(s, used))
                  /\ b = RegisterConnection(t, mark, ports, used, ShapesOf(t, used))
  OBVIOUS
<1>3. WithConnection(s, mark, ports, used, a)
  BY <1>1, ConnectionIs
<1>4. WithConnection(t, mark, ports, used, b)
  BY <1>1, ConnectionIs
<1>5. Refused(s, ports, used) = Refused(t, ports, used)
  BY Zenon DEF Refused, Same, ConnectedPorts, UsedConnectors
<1>6. Same(a, b)
 <2>1. CASE Refused(s, ports, used)
   BY <1>3, <1>4, <1>5, <2>1 DEF Same, WithConnection
 <2>2. CASE ~Refused(s, ports, used)
   BY <1>3, <1>4, <1>5, <2>2 DEF Same, WithConnection
 <2> QED BY <2>1, <2>2
<1> QED BY <1>1, <1>6

\* No other component has the mark of a piece.
MarksTellPieces ==
    \A n \in DOMAIN Singles : Singles[n] # Unmarked =>
        /\ \A m \in DOMAIN Singles : Singles[m] = Singles[n] => m = n
        /\ \A p \in DOMAIN Parts : \A e \in Range(Parts[p].body) :
              e.kind = "component" => e.mark # Singles[n]

LEMMA ComponentOK ==
    ASSUME NEW s, SessionOK(s), NEW mark, NEW shape,
           \A n \in DOMAIN Singles : Singles[n] # Unmarked => mark # Singles[n]
    PROVE  SessionOK(RegisterComponent(s, mark, shape))
<1>1. PICK a : a = RegisterComponent(s, mark, shape)
  OBVIOUS
<1>2. /\ IsSession(a) /\ a.connections = s.connections /\ a.pieces = s.pieces
      /\ \/ a.components = s.components
         \/ a.components = Append(s.components, mark)
 <2>1. IsSession(s)
   BY DEF SessionOK
 <2>2. WithComponent(s, mark, a)
   BY <1>1, <2>1, ComponentIs
 <2> QED BY <2>2 DEF WithComponent
<1>3. CASE a.components = s.components
  BY <1>1, <1>2, <1>3 DEF SessionOK
<1>4. CASE a.components = Append(s.components, mark)
 <2>1. PICK c, d : c = s.components /\ d = a.components
   OBVIOUS
 <2>2. /\ d \in Seq(Range(d)) /\ DOMAIN d = DOMAIN c \cup {Len(c) + 1}
       /\ d[Len(c) + 1] = mark /\ \A i \in DOMAIN c : d[i] = c[i]
   BY <1>4, <2>1, AppendsKept DEF SessionOK
 <2>3. ASSUME NEW n \in DOMAIN Singles
       PROVE  /\ a.pieces[n] \in Nat
              /\ a.pieces[n] # 0 => a.pieces[n] \in DOMAIN d /\ d[a.pieces[n]] = Singles[n]
              /\ Singles[n] # Unmarked =>
                    \A t \in DOMAIN d : d[t] = Singles[n] => a.pieces[n] = t
  <3>1. /\ s.pieces[n] \in Nat
        /\ s.pieces[n] # 0 => s.pieces[n] \in DOMAIN c /\ c[s.pieces[n]] = Singles[n]
        /\ Singles[n] # Unmarked =>
              \A t \in DOMAIN c : c[t] = Singles[n] => s.pieces[n] = t
    BY <2>1 DEF SessionOK
  <3> QED BY <1>2, <2>2, <3>1
 <2> QED BY <1>1, <1>2, <2>1, <2>2, <2>3 DEF SessionOK
<1> QED BY <1>2, <1>3, <1>4

LEMMA ConnectionOK ==
    ASSUME NEW s, SessionOK(s), NEW mark, NEW ports, NEW used
    PROVE  SessionOK(RegisterConnection(s, mark, ports, used, ShapesOf(s, used)))
<1>1. PICK a, c : /\ a = RegisterConnection(s, mark, ports, used, ShapesOf(s, used))
                  /\ c = [mark |-> mark, ports |-> ports, connectors |-> used]
  OBVIOUS
<1>2. /\ IsSession(a) /\ a.components = s.components /\ a.pieces = s.pieces
      /\ \/ a.connections = s.connections
         \/ a.connections = Append(s.connections, c)
 <2>1. IsSession(s)
   BY DEF SessionOK
 <2>2. WithConnection(s, mark, ports, used, a)
   BY <1>1, <2>1, ConnectionIs
 <2> QED BY <1>1, <2>2 DEF WithConnection
<1>3. a.connections \in Seq(Range(a.connections))
 <2>1. CASE a.connections = s.connections
   BY <2>1 DEF SessionOK
 <2>2. CASE a.connections = Append(s.connections, c)
  <3>1. s.connections \in Seq(Range(s.connections))
    BY DEF SessionOK
  <3> QED BY <2>2, <3>1, AppendsKept
 <2> QED BY <1>2, <2>1, <2>2
<1> QED BY <1>1, <1>2, <1>3 DEF SessionOK

LEMMA FailedOK == ASSUME NEW s, SessionOK(s) PROVE SessionOK(Failed(s))
<1>1. PICK a : a = Failed(s)
  OBVIOUS
<1>2. /\ IsSession(a) /\ a.components = s.components /\ a.connections = s.connections
      /\ a.pieces = s.pieces
  BY <1>1, FailedIs DEF SessionOK
<1> QED BY <1>1, <1>2 DEF SessionOK

\* The mark of a piece finds that piece, or nothing while it is not registered.
LEMMA ByMark ==
    ASSUME NEW s, SessionOK(s), NEW n \in DOMAIN Singles, Singles[n] # Unmarked
    PROVE  ById(s, <<Singles[n]>>) = s.pieces[n]
<1>1. ASSUME NEW t \in DOMAIN s.components
      PROVE  InstanceId(s, t) = <<Singles[n]>> <=> s.components[t] = Singles[n]
  BY DEF InstanceId
<1>2. \A t \in DOMAIN s.components : InstanceId(s, t) = <<Singles[n]>> => s.pieces[n] = t
  BY <1>1 DEF SessionOK
<1>3. CASE s.pieces[n] = 0
 <2>1. 0 \notin DOMAIN s.components
  <3>1. DOMAIN s.components = 1..Len(s.components)
    BY DEF SessionOK
  <3> QED BY <3>1
 <2>2. ~ \E t \in DOMAIN s.components : InstanceId(s, t) = <<Singles[n]>>
   BY <1>2, <1>3, <2>1
 <2> QED BY <1>3, <2>2 DEF ById
<1>4. CASE s.pieces[n] # 0
 <2>1. s.pieces[n] \in DOMAIN s.components /\ InstanceId(s, s.pieces[n]) = <<Singles[n]>>
   BY <1>1, <1>4 DEF SessionOK
 <2> QED BY <1>2, <2>1 DEF ById
<1> QED BY <1>3, <1>4

----
\* What a call does with one element, when it builds and when it replays; and each as
\* a fold over the body.
BuildStep(run, e) ==
            IF run.s.failed THEN run
            ELSE IF e.kind = "component"
            THEN LET after == RegisterComponent(run.s, e.mark, "built")
                 IN [s |-> after,
                     made |-> [n \in DOMAIN run.made \cup {e.name} |->
                         IF n = e.name THEN Len(after.components) ELSE run.made[n]]]
            ELSE LET ports == [i \in DOMAIN e.ports |-> TokenOf(run.s, run.made, e.ports[i])]
                     used == [i \in DOMAIN e.connectors |->
                                 TokenOf(run.s, run.made, e.connectors[i])]
                     after == IF 0 \in Range(ports) \cup Range(used)
                              THEN Failed(run.s)
                              ELSE RegisterConnection(run.s, e.mark, ports, used,
                                       ShapesOf(run.s, used))
                 IN [s |-> after,
                     made |-> [n \in DOMAIN run.made \cup {e.name} |->
                         IF n = e.name THEN Len(after.connections) ELSE run.made[n]]]

ReplayStep(s, item, run, e) ==
    LET Resolve(made, name) ==
            IF name \in DOMAIN made THEN made[name] ELSE ById(s, item.outside[name])
    IN      IF run.s.failed THEN run
            ELSE IF e.kind = "component"
            THEN LET after == RegisterComponent(run.s, e.mark, "loaded")
                 IN [s |-> after,
                     made |-> [n \in DOMAIN run.made \cup {e.name} |->
                         IF n = e.name THEN Len(after.components) ELSE run.made[n]]]
            ELSE LET ports == [i \in DOMAIN e.ports |-> Resolve(run.made, e.ports[i])]
                     used == [i \in DOMAIN e.connectors |-> Resolve(run.made, e.connectors[i])]
                     after == RegisterConnection(run.s, e.mark, ports, used,
                                  ShapesOf(run.s, used))
                 IN [s |-> after,
                     made |-> [n \in DOMAIN run.made \cup {e.name} |->
                         IF n = e.name THEN Len(after.connections) ELSE run.made[n]]]

BuildsTo(g, s, c, n) ==
    g = [T \in SUBSET (1..n) |->
            IF T = {} THEN [s |-> s, made |-> [m \in {} |-> 0]]
            ELSE BuildStep(g[T \ {Max(T)}], c[Max(T)])]

ReplaysTo(g, s, item, c, n) ==
    g = [T \in SUBSET (1..n) |->
            IF T = {} THEN [s |-> s, made |-> [m \in {} |-> 0]]
            ELSE ReplayStep(s, item, g[T \ {Max(T)}], c[Max(T)])]

LEMMA BuildFold ==
    ASSUME NEW p, NEW s, NEW n, DOMAIN Parts[p].body = 1..n
    PROVE  Build(p, s) = (CHOOSE g : BuildsTo(g, s, Parts[p].body, n))[1..n]
  BY DEF Build, FoldLeft, MapThenFoldSet, BuildsTo, BuildStep

LEMMA ReplayFold ==
    ASSUME NEW p, NEW s, NEW item, NEW n, DOMAIN Parts[p].body = 1..n
    PROVE  Rerun(p, s, item) = (CHOOSE g : ReplaysTo(g, s, item, Parts[p].body, n))[1..n]
  BY DEF Rerun, FoldLeft, MapThenFoldSet, ReplaysTo, ReplayStep


Step(how, s, run, e) ==
    IF how.replayed THEN ReplayStep(s, how.item, run, e) ELSE BuildStep(run, e)

\* The fold of either kind: with an entry, ids are found in s; without one, the
\* tokens of the pieces are.
StepsTo(g, how, s, c, n) ==
    g = [T \in SUBSET (1..n) |->
            IF T = {} THEN [s |-> s, made |-> [m \in {} |-> 0]]
            ELSE Step(how, s, g[T \ {Max(T)}], c[Max(T)])]

LEMMA StepsMore ==
    ASSUME NEW how, NEW s, NEW c, NEW n \in Nat, \E g : StepsTo(g, how, s, c, n)
    PROVE  \E g : StepsTo(g, how, s, c, n + 1)
<1>0. PICK b : b = [s |-> s, made |-> [x \in {} |-> 0]]
  OBVIOUS
<1>1. PICK g : StepsTo(g, how, s, c, n)
  OBVIOUS
<1>2. PICK m : m = n + 1
  OBVIOUS
<1>3. PICK h : h = [T \in SUBSET (1..m) |->
                       IF T = {} THEN b
                       ELSE Step(how, s, g[T \ {Max(T)}], c[Max(T)])]
  OBVIOUS
<1>4. ASSUME NEW T \in SUBSET (1..n) PROVE h[T] = g[T]
 <2>1. T \in SUBSET (1..m)
   BY <1>2
 <2>2. g[T] = IF T = {} THEN b ELSE Step(how, s, g[T \ {Max(T)}], c[Max(T)])
   BY <1>0, <1>1, Zenon DEF StepsTo
 <2> QED BY <1>3, <2>1, <2>2, Zenon
<1>5. ASSUME NEW T \in SUBSET (1..m), T # {} PROVE T \ {Max(T)} \in SUBSET (1..n)
 <2>1. Max(T) \in T /\ \A y \in T : Max(T) >= y
  <3>1. m \in Nat
    BY <1>2
  <3> QED BY <1>5, <3>1, MaxOfPart
 <2>2. ASSUME NEW x \in T \ {Max(T)} PROVE x \in 1..n
  <3>1. PICK y : y = Max(T)
    OBVIOUS
  <3>2. y \in 1..m /\ x \in 1..m /\ y >= x /\ x # y
    BY <2>1, <3>1
  <3> QED BY <1>2, <3>2
 <2> QED BY <2>2
<1>6. ASSUME NEW T \in SUBSET (1..m), T # {} PROVE h[T \ {Max(T)}] = g[T \ {Max(T)}]
  BY <1>4, <1>5, <1>6
<1>7. StepsTo(h, how, s, c, m)
  BY <1>0, <1>3, <1>6, Zenon DEF StepsTo
<1> QED BY <1>2, <1>7

LEMMA SomeSteps ==
    ASSUME NEW how, NEW s, NEW c
    PROVE  \A n \in Nat : \E g : StepsTo(g, how, s, c, n)
<1>0. PICK b : b = [s |-> s, made |-> [x \in {} |-> 0]]
  OBVIOUS
<1> DEFINE T == {n \in Nat : \E g : StepsTo(g, how, s, c, n)}
<1>1. 0 \in T
 <2>1. PICK g : g = [U \in SUBSET (1..0) |-> b]
   OBVIOUS
 <2>2. \A U \in SUBSET (1..0) : U = {}
   OBVIOUS
 <2>3. StepsTo(g, how, s, c, 0)
   BY <1>0, <2>1, <2>2, Zenon DEF StepsTo
 <2> QED BY <2>3
<1>2. \A n \in Nat : n \in T => n + 1 \in T
  BY StepsMore
<1> HIDE DEF T
<1>3. \A n \in Nat : n \in T
  BY <1>1, <1>2, AllNaturals
<1> QED BY <1>3 DEF T

\* The same, one element after the other.
Runs(f, how, s, c, n) ==
    /\ f[0] = [s |-> s, made |-> [m \in {} |-> 0]]
    /\ \A k \in 0..(n - 1) : f[k + 1] = Step(how, s, f[k], c[k + 1])

LEMMA StepsRun ==
    ASSUME NEW how, NEW s, NEW c, NEW n \in Nat, NEW g, StepsTo(g, how, s, c, n),
           NEW f, f = [k \in 0..n |-> g[1..k]]
    PROVE  Runs(f, how, s, c, n) /\ f[n] = g[1..n]
<1>0. PICK b : b = [s |-> s, made |-> [x \in {} |-> 0]]
  OBVIOUS
<1>1. ASSUME NEW T \in SUBSET (1..n)
      PROVE  g[T] = IF T = {} THEN b ELSE Step(how, s, g[T \ {Max(T)}], c[Max(T)])
  BY <1>0, Zenon DEF StepsTo
<1>2. f[0] = b
 <2>1. 1..0 = {} /\ 0 \in 0..n
   OBVIOUS
 <2> QED BY <1>1, <2>1
<1>3. ASSUME NEW k \in 0..(n - 1) PROVE f[k + 1] = Step(how, s, f[k], c[k + 1])
 <2>1. PICK m : m = k + 1
   OBVIOUS
 <2>2. m \in Nat \ {0} /\ m - 1 = k /\ m \in 0..n /\ k \in 0..n /\ m <= n
   BY <2>1
 <2>3. Max(1..m) = m /\ (1..m) \ {Max(1..m)} = 1..k
   BY <2>2, MaxOfRange
 <2>4. 1..m \in SUBSET (1..n) /\ 1..m # {}
  <3>1. \A i \in 1..m : i \in 1..n
    BY <2>2
  <3>2. m \in 1..m
    BY <2>2
  <3> QED BY <3>1, <3>2
 <2>5. g[1..m] = Step(how, s, g[1..k], c[m])
   BY <1>1, <2>3, <2>4
 <2> QED BY <2>1, <2>2, <2>5
<1>4. f[n] = g[1..n]
  OBVIOUS
<1> QED BY <1>0, <1>2, <1>3, <1>4 DEF Runs

Building == [replayed |-> FALSE]
Replaying(item) == [replayed |-> TRUE, item |-> item]

\* What a call executes, one element after the other.
LEMMA BuildRuns ==
    ASSUME NEW p, NEW s, NEW n \in Nat, DOMAIN Parts[p].body = 1..n
    PROVE  \E f : Runs(f, Building, s, Parts[p].body, n) /\ Build(p, s) = f[n]
<1>1. PICK c : c = Parts[p].body
  OBVIOUS
<1>2. ASSUME NEW g PROVE BuildsTo(g, s, c, n) <=> StepsTo(g, Building, s, c, n)
  BY Zenon DEF BuildsTo, StepsTo, Step, Building
<1>3. PICK g : g = CHOOSE h : BuildsTo(h, s, c, n)
  OBVIOUS
<1>4. BuildsTo(g, s, c, n)
  BY <1>2, <1>3, SomeSteps
<1>5. StepsTo(g, Building, s, c, n)
  BY <1>2, <1>4
<1>6. PICK f : f = [k \in 0..n |-> g[1..k]]
  OBVIOUS
<1>7. Runs(f, Building, s, c, n) /\ f[n] = g[1..n]
  BY <1>5, <1>6, StepsRun
<1>8. Build(p, s) = g[1..n]
  BY <1>1, <1>3, BuildFold
<1> QED BY <1>1, <1>7, <1>8

LEMMA ReplayRuns ==
    ASSUME NEW p, NEW s, NEW item, NEW n \in Nat, DOMAIN Parts[p].body = 1..n
    PROVE  \E f : /\ Runs(f, Replaying(item), s, Parts[p].body, n)
                  /\ Rerun(p, s, item) = f[n]
<1>1. PICK c : c = Parts[p].body
  OBVIOUS
<1>2. ASSUME NEW g
      PROVE  ReplaysTo(g, s, item, c, n) <=> StepsTo(g, Replaying(item), s, c, n)
  BY Zenon DEF ReplaysTo, StepsTo, Step, Replaying
<1>3. PICK g : g = CHOOSE h : ReplaysTo(h, s, item, c, n)
  OBVIOUS
<1>4. ReplaysTo(g, s, item, c, n)
  BY <1>2, <1>3, SomeSteps
<1>5. StepsTo(g, Replaying(item), s, c, n)
  BY <1>2, <1>4
<1>6. PICK f : f = [k \in 0..n |-> g[1..k]]
  OBVIOUS
<1>7. Runs(f, Replaying(item), s, c, n) /\ f[n] = g[1..n]
  BY <1>5, <1>6, StepsRun
<1>8. Rerun(p, s, item) = g[1..n]
  BY <1>1, <1>3, ReplayFold
<1> QED BY <1>1, <1>7, <1>8


Named(made, name, token) ==
    [n \in DOMAIN made \cup {name} |-> IF n = name THEN token ELSE made[n]]

\* The steps, with their parts named: what is registered, and its token.
LEMMA StepIdle ==
    ASSUME NEW how, NEW s, NEW run, NEW e, run.s.failed
    PROVE  Step(how, s, run, e) = run
  BY Zenon DEF Step, ReplayStep, BuildStep

Shape(how) == IF how.replayed THEN "loaded" ELSE "built"

LEMMA StepComponent ==
    ASSUME NEW how, NEW s, NEW run, NEW e, ~run.s.failed, e.kind = "component",
           NEW a, a = RegisterComponent(run.s, e.mark, Shape(how))
    PROVE  Step(how, s, run, e) = [s |-> a, made |-> Named(run.made, e.name, Len(a.components))]
<1>1. CASE how.replayed
  BY <1>1, Zenon DEF Step, ReplayStep, Named, Shape
<1>2. CASE ~how.replayed
  BY <1>2, Zenon DEF Step, BuildStep, Named, Shape
<1> QED BY <1>1, <1>2

\* The token of a name, and of names.
TokenAt(how, s, run, name) ==
    IF how.replayed
    THEN IF name \in DOMAIN run.made THEN run.made[name] ELSE ById(s, how.item.outside[name])
    ELSE TokenOf(run.s, run.made, name)

TokensAt(how, s, run, names) == [i \in DOMAIN names |-> TokenAt(how, s, run, names[i])]

LEMMA StepConnection ==
    ASSUME NEW how, NEW s, NEW run, NEW e, ~run.s.failed, e.kind # "component",
           NEW ports, ports = TokensAt(how, s, run, e.ports),
           NEW used, used = TokensAt(how, s, run, e.connectors),
           NEW a, a = IF ~how.replayed /\ 0 \in Range(ports) \cup Range(used)
                      THEN Failed(run.s)
                      ELSE RegisterConnection(run.s, e.mark, ports, used, ShapesOf(run.s, used))
    PROVE  Step(how, s, run, e) = [s |-> a, made |-> Named(run.made, e.name, Len(a.connections))]
<1>1. CASE how.replayed
 <2>1. /\ ports = [i \in DOMAIN e.ports |->
              IF e.ports[i] \in DOMAIN run.made THEN run.made[e.ports[i]]
              ELSE ById(s, how.item.outside[e.ports[i]])]
       /\ used = [i \in DOMAIN e.connectors |->
              IF e.connectors[i] \in DOMAIN run.made THEN run.made[e.connectors[i]]
              ELSE ById(s, how.item.outside[e.connectors[i]])]
   BY <1>1, Zenon DEF TokensAt, TokenAt
 <2>2. a = RegisterConnection(run.s, e.mark, ports, used, ShapesOf(run.s, used))
   BY <1>1
 <2> QED BY <1>1, <2>1, <2>2, Zenon DEF Step, ReplayStep, Named
<1>2. CASE ~how.replayed
 <2>1. /\ ports = [i \in DOMAIN e.ports |-> TokenOf(run.s, run.made, e.ports[i])]
       /\ used = [i \in DOMAIN e.connectors |-> TokenOf(run.s, run.made, e.connectors[i])]
   BY <1>2, Zenon DEF TokensAt, TokenAt
 <2>2. a = IF 0 \in Range(ports) \cup Range(used) THEN Failed(run.s)
           ELSE RegisterConnection(run.s, e.mark, ports, used, ShapesOf(run.s, used))
   BY <1>2
 <2> QED BY <1>2, <2>1, <2>2, Zenon DEF Step, BuildStep, Named
<1> QED BY <1>1, <1>2


Names(e) == Range(e.ports) \cup Range(e.connectors)

\* What the names stand for, however they are resolved.
TokenIn(s, run, name) == IF name \in DOMAIN run.made THEN run.made[name] ELSE s.pieces[name]

\* Where an execution of p's body from s is after k elements: unless it failed, it has
\* a token for each name it gave and reached every piece it joined.
RunOK(p, s, run, k) ==
    /\ SessionOK(run.s)
    /\ run.s.pieces = s.pieces
    /\ ~run.s.failed =>
          /\ \A i \in 1..k : Parts[p].body[i].name \in DOMAIN run.made
          /\ \A m \in DOMAIN run.made : m \notin DOMAIN Singles /\ run.made[m] # 0
          /\ \A i \in 1..k : Parts[p].body[i].kind = "connection" =>
                \A m \in Names(Parts[p].body[i]) \cap DOMAIN Singles : s.pieces[m] # 0

\* An entry of p has the marks of the pieces that p joins.
EntryOK(p, item) ==
    item.stored =>
        /\ DOMAIN item.outside = UNION {External(p, e) : e \in ConnectionsOf(p)}
        /\ \A n \in DOMAIN item.outside :
              n \in DOMAIN Singles => /\ Singles[n] # Unmarked
                                      /\ item.outside[n] = <<Singles[n]>>

\* A call of p in session s builds, or replays an entry that can be.
Fits(p, s, how) ==
    \/ how = Building
    \/ \E item : /\ how = Replaying(item) /\ item.stored /\ EntryOK(p, item)
                  /\ Replayable(s, item)

LEMMA BodyIs ==
    ASSUME NEW p \in DOMAIN Parts, NEW n, n = Len(Parts[p].body), NEW i \in 1..n,
           NEW e, e = Parts[p].body[i]
    PROVE  /\ n \in Nat /\ DOMAIN Parts[p].body = 1..n
           /\ e \in Range(Parts[p].body) /\ e.kind \in {"component", "connection"}
           /\ e.name \notin DOMAIN Singles
           /\ e.kind = "connection" =>
                Names(e) \subseteq DOMAIN Singles \cup MadeBefore(Parts[p].body, i)
<1>1. PICK c : c = Parts[p].body
  OBVIOUS
<1>2. c \in Seq(Range(c))
  BY <1>1, DesignSessionAssumption
<1>3. Len(c) \in Nat /\ DOMAIN c = 1..Len(c)
  BY <1>2
<1>4. e \in Range(c)
  BY <1>1, <1>3 DEF Range
<1>5. /\ c[i].kind \in {"component", "connection"} /\ c[i].name \notin DOMAIN Singles
      /\ c[i].kind = "connection" =>
            Range(c[i].ports) \cup Range(c[i].connectors)
                \subseteq DOMAIN Singles \cup MadeBefore(c, i)
 <2>1. i \in DOMAIN c
   BY <1>1, <1>3
 <2> QED BY <1>1, <2>1, DesignSessionAssumption
<1> QED BY <1>1, <1>3, <1>4, <1>5 DEF Names

\* A name is a piece's or one that was given before.
LEMMA NameIs ==
    ASSUME NEW p \in DOMAIN Parts, NEW k \in Nat, k + 1 \in 1..Len(Parts[p].body),
           NEW s, NEW run, RunOK(p, s, run, k), ~run.s.failed,
           NEW e, e = Parts[p].body[k + 1], e.kind = "connection", NEW name \in Names(e)
    PROVE  \/ name \in DOMAIN run.made
           \/ name \notin DOMAIN run.made /\ name \in DOMAIN Singles /\ name \in External(p, e)
<1>1. PICK c, i : c = Parts[p].body /\ i = k + 1
  OBVIOUS
<1>2. name \in DOMAIN Singles \cup MadeBefore(c, i)
  BY <1>1, BodyIs
<1>3. ASSUME name \in MadeBefore(c, i) PROVE name \in DOMAIN run.made
 <2>1. PICK j \in 1..(i - 1) : name = c[j].name
   BY <1>3 DEF MadeBefore
 <2>2. j \in 1..k
   BY <1>1, <2>1
 <2> QED BY <1>1, <2>1, <2>2 DEF RunOK
<1>4. ASSUME name \in DOMAIN Singles PROVE name \in External(p, e)
 <2>1. name \notin OwnComponents(p)
  <3> SUFFICES ASSUME name \in OwnComponents(p) PROVE FALSE
    OBVIOUS
  <3>1. PICK x \in Range(Parts[p].body) : name = x.name
    BY DEF OwnComponents
  <3>2. PICK j \in DOMAIN Parts[p].body : x = Parts[p].body[j]
    BY DEF Range
  <3>3. x.name \notin DOMAIN Singles
    BY <3>2, DesignSessionAssumption
  <3> QED BY <1>4, <3>1, <3>3
 <2> QED BY <2>1 DEF External, Names
<1> QED BY <1>2, <1>3, <1>4

\* However a name is resolved, it is the same token, and a replay finds one.
LEMMA TokenIs ==
    ASSUME NEW p \in DOMAIN Parts, NEW k \in Nat, k + 1 \in 1..Len(Parts[p].body),
           NEW s, SessionOK(s), NEW run, RunOK(p, s, run, k), ~run.s.failed,
           NEW e, e = Parts[p].body[k + 1], e.kind = "connection", NEW name \in Names(e),
           NEW how, Fits(p, s, how)
    PROVE  /\ TokenAt(how, s, run, name) = TokenIn(s, run, name)
           /\ how.replayed => TokenIn(s, run, name) # 0
<1>1. CASE how = Building
  BY <1>1 DEF Building, TokenAt, TokenIn, TokenOf, RunOK
<1>2. CASE how # Building
 <2>1. PICK item : /\ how = Replaying(item) /\ item.stored /\ EntryOK(p, item)
                    /\ Replayable(s, item)
   BY <1>2 DEF Fits
 <2>2. how.replayed /\ how.item = item
   BY <2>1 DEF Replaying
 <2>3. CASE name \in DOMAIN run.made
   BY <2>2, <2>3 DEF TokenAt, TokenIn, RunOK
 <2>4. CASE name \notin DOMAIN run.made
  <3>1. name \in DOMAIN Singles /\ name \in External(p, e)
    BY <2>4, NameIs
  <3>2. e \in ConnectionsOf(p)
    BY BodyIs DEF ConnectionsOf
  <3>3. name \in DOMAIN item.outside
    BY <2>1, <3>1, <3>2 DEF EntryOK
  <3>4. Singles[name] # Unmarked /\ item.outside[name] = <<Singles[name]>>
    BY <2>1, <3>1, <3>3 DEF EntryOK
  <3>5. ById(s, item.outside[name]) = s.pieces[name]
    BY <3>1, <3>4, ByMark
  <3>6. ById(s, item.outside[name]) # 0
    BY <2>1, <3>3 DEF Replayable
  <3> QED BY <2>2, <2>4, <3>5, <3>6 DEF TokenAt, TokenIn
 <2> QED BY <2>3, <2>4
<1> QED BY <1>1, <1>2


\* What a connection's names stand for.
LEMMA TokensAre ==
    ASSUME NEW p \in DOMAIN Parts, NEW k \in Nat, k + 1 \in 1..Len(Parts[p].body),
           NEW s, SessionOK(s), NEW run, RunOK(p, s, run, k), ~run.s.failed,
           NEW e, e = Parts[p].body[k + 1], e.kind = "connection",
           NEW how, Fits(p, s, how)
    PROVE  /\ TokensAt(how, s, run, e.ports) =
                 [i \in DOMAIN e.ports |-> TokenIn(s, run, e.ports[i])]
           /\ TokensAt(how, s, run, e.connectors) =
                 [i \in DOMAIN e.connectors |-> TokenIn(s, run, e.connectors[i])]
<1>1. ASSUME NEW i \in DOMAIN e.ports
      PROVE  TokenAt(how, s, run, e.ports[i]) = TokenIn(s, run, e.ports[i])
 <2>1. e.ports[i] \in Names(e)
   BY DEF Names, Range
 <2> QED BY <2>1, TokenIs
<1>2. ASSUME NEW i \in DOMAIN e.connectors
      PROVE  TokenAt(how, s, run, e.connectors[i]) = TokenIn(s, run, e.connectors[i])
 <2>1. e.connectors[i] \in Names(e)
   BY DEF Names, Range
 <2> QED BY <2>1, TokenIs
<1> QED BY <1>1, <1>2, Zenon DEF TokensAt

\* No token of them is 0 in a replay, and where none is, every piece is reached.
LEMMA ZeroIs ==
    ASSUME NEW p \in DOMAIN Parts, NEW k \in Nat, k + 1 \in 1..Len(Parts[p].body),
           NEW s, SessionOK(s), NEW run, RunOK(p, s, run, k), ~run.s.failed,
           NEW e, e = Parts[p].body[k + 1], e.kind = "connection",
           NEW how, Fits(p, s, how),
           NEW ports, ports = [i \in DOMAIN e.ports |-> TokenIn(s, run, e.ports[i])],
           NEW used, used = [i \in DOMAIN e.connectors |-> TokenIn(s, run, e.connectors[i])]
    PROVE  /\ how.replayed => 0 \notin Range(ports) \cup Range(used)
           /\ 0 \notin Range(ports) \cup Range(used) =>
                 \A m \in Names(e) \cap DOMAIN Singles : s.pieces[m] # 0
<1>1. ASSUME how.replayed, 0 \in Range(ports) \cup Range(used) PROVE FALSE
 <2>1. PICK name \in Names(e) : TokenIn(s, run, name) = 0
  <3>1. CASE 0 \in Range(ports)
    BY <3>1 DEF Names, Range
  <3>2. CASE 0 \in Range(used)
    BY <3>2 DEF Names, Range
  <3> QED BY <1>1, <3>1, <3>2
 <2> QED BY <1>1, <2>1, TokenIs
<1>2. ASSUME 0 \notin Range(ports) \cup Range(used), NEW m \in Names(e) \cap DOMAIN Singles
      PROVE  s.pieces[m] # 0
 <2>1. TokenIn(s, run, m) = s.pieces[m]
   BY DEF TokenIn, RunOK
 <2>2. CASE m \in Range(e.ports)
  <3>1. PICK i \in DOMAIN e.ports : m = e.ports[i]
    BY <2>2 DEF Range
  <3>2. ports[i] = s.pieces[m] /\ i \in DOMAIN ports
    BY <2>1, <3>1
  <3> QED BY <1>2, <3>2 DEF Range
 <2>3. CASE m \in Range(e.connectors)
  <3>1. PICK i \in DOMAIN e.connectors : m = e.connectors[i]
    BY <2>3 DEF Range
  <3>2. used[i] = s.pieces[m] /\ i \in DOMAIN used
    BY <2>1, <3>1
  <3> QED BY <1>2, <3>2 DEF Range
 <2> QED BY <2>2, <2>3 DEF Names
<1> QED BY <1>1, <1>2

\* What one step does to what holds.
LEMMA NamedOK ==
    ASSUME NEW p \in DOMAIN Parts, NEW k \in Nat, k + 1 \in 1..Len(Parts[p].body),
           NEW s, NEW run, RunOK(p, s, run, k), ~run.s.failed,
           NEW e, e = Parts[p].body[k + 1],
           NEW a, SessionOK(a), a.pieces = s.pieces,
           NEW token, ~a.failed => token # 0,
           e.kind = "connection" => (~a.failed =>
               \A m \in Names(e) \cap DOMAIN Singles : s.pieces[m] # 0),
           NEW d, d = [s |-> a, made |-> Named(run.made, e.name, token)]
    PROVE  RunOK(p, s, d, k + 1)
<1>1. PICK i, c : i = k + 1 /\ c = Parts[p].body
  OBVIOUS
<1>2. ASSUME NEW j \in 1..i PROVE j = i \/ j \in 1..k
  BY <1>1
<1>3. d.s = a /\ d.made = Named(run.made, e.name, token)
  OBVIOUS
<1>4. /\ DOMAIN d.made = DOMAIN run.made \cup {e.name}
      /\ \A n \in DOMAIN d.made : d.made[n] = IF n = e.name THEN token ELSE run.made[n]
 <2>1. PICK x, y, z : x = run.made /\ y = Named(x, z, token) /\ z = e.name
   OBVIOUS
 <2>2. /\ DOMAIN y = DOMAIN x \cup {z}
       /\ \A n \in DOMAIN y : y[n] = IF n = z THEN token ELSE x[n]
   BY <2>1 DEF Named
 <2> QED BY <1>3, <2>1, <2>2
<1>5. e.name \notin DOMAIN Singles
  BY BodyIs
<1> SUFFICES ASSUME ~a.failed
             PROVE  /\ \A j \in 1..i : c[j].name \in DOMAIN d.made
                    /\ \A m \in DOMAIN d.made : m \notin DOMAIN Singles /\ d.made[m] # 0
                    /\ \A j \in 1..i : c[j].kind = "connection" =>
                          \A m \in Names(c[j]) \cap DOMAIN Singles : s.pieces[m] # 0
  BY <1>1, <1>3 DEF RunOK
<1>6. /\ \A j \in 1..k : c[j].name \in DOMAIN run.made
      /\ \A m \in DOMAIN run.made : m \notin DOMAIN Singles /\ run.made[m] # 0
      /\ \A j \in 1..k : c[j].kind = "connection" =>
            \A m \in Names(c[j]) \cap DOMAIN Singles : s.pieces[m] # 0
  BY <1>1 DEF RunOK
<1>7. \A j \in 1..i : c[j].name \in DOMAIN d.made
  BY <1>1, <1>2, <1>4, <1>6
<1>8. \A m \in DOMAIN d.made : m \notin DOMAIN Singles /\ d.made[m] # 0
  BY <1>4, <1>5, <1>6
<1>9. \A j \in 1..i : c[j].kind = "connection" =>
          \A m \in Names(c[j]) \cap DOMAIN Singles : s.pieces[m] # 0
  BY <1>1, <1>2, <1>6
<1> QED BY <1>7, <1>8, <1>9

LEMMA StepOK ==
    ASSUME MarksTellPieces,
           NEW p \in DOMAIN Parts, NEW k \in Nat, k + 1 \in 1..Len(Parts[p].body),
           NEW s, SessionOK(s), NEW run, RunOK(p, s, run, k),
           NEW how, Fits(p, s, how)
    PROVE  RunOK(p, s, Step(how, s, run, Parts[p].body[k + 1]), k + 1)
<1>1. PICK e : e = Parts[p].body[k + 1]
  OBVIOUS
<1>2. CASE run.s.failed
  BY <1>1, <1>2, StepIdle DEF RunOK
<1>3. CASE ~run.s.failed /\ e.kind = "component"
 <2>1. PICK a : a = RegisterComponent(run.s, e.mark, Shape(how))
   OBVIOUS
 <2>2. Step(how, s, run, e) = [s |-> a, made |-> Named(run.made, e.name, Len(a.components))]
   BY <1>3, <2>1, StepComponent
 <2>3. SessionOK(run.s) /\ IsSession(run.s) /\ run.s.pieces = s.pieces
       /\ run.s.components \in Seq(Range(run.s.components))
   BY DEF RunOK, SessionOK
 <2>4. \A n \in DOMAIN Singles : Singles[n] # Unmarked => e.mark # Singles[n]
   BY <1>1, <1>3, BodyIs DEF MarksTellPieces
 <2>5. SessionOK(a)
   BY <2>1, <2>3, <2>4, ComponentOK
 <2>6. WithComponent(run.s, e.mark, a)
   BY <2>1, <2>3, ComponentIs
 <2>7. a.pieces = s.pieces
   BY <2>3, <2>6 DEF WithComponent
 <2>8. ~a.failed => Len(a.components) # 0
  <3> SUFFICES ASSUME ~a.failed PROVE Len(a.components) # 0
    OBVIOUS
  <3>1. a.components = Append(run.s.components, e.mark)
    BY <2>6 DEF WithComponent
  <3>2. Len(a.components) = Len(run.s.components) + 1 /\ Len(run.s.components) \in Nat
    BY <2>3, <3>1, AppendsKept
  <3> QED BY <3>2
 <2>9. e.kind # "connection"
   BY <1>3
 <2> QED BY <1>1, <1>3, <2>2, <2>5, <2>7, <2>8, <2>9, NamedOK
<1>4. CASE ~run.s.failed /\ e.kind # "component"
 <2>0. e.kind = "connection"
   BY <1>1, <1>4, BodyIs
 <2>1. PICK ports, used : /\ ports = TokensAt(how, s, run, e.ports)
                          /\ used = TokensAt(how, s, run, e.connectors)
   OBVIOUS
 <2>2. PICK a : a = IF ~how.replayed /\ 0 \in Range(ports) \cup Range(used)
                    THEN Failed(run.s)
                    ELSE RegisterConnection(run.s, e.mark, ports, used, ShapesOf(run.s, used))
   OBVIOUS
 <2>3. Step(how, s, run, e) = [s |-> a, made |-> Named(run.made, e.name, Len(a.connections))]
   BY <1>4, <2>1, <2>2, StepConnection
 <2>4. SessionOK(run.s) /\ IsSession(run.s) /\ run.s.pieces = s.pieces
       /\ run.s.connections \in Seq(Range(run.s.connections))
   BY DEF RunOK, SessionOK
 <2>5. /\ ports = [i \in DOMAIN e.ports |-> TokenIn(s, run, e.ports[i])]
       /\ used = [i \in DOMAIN e.connectors |-> TokenIn(s, run, e.connectors[i])]
   BY <1>1, <1>4, <2>0, <2>1, TokensAre
 <2>6. /\ how.replayed => 0 \notin Range(ports) \cup Range(used)
       /\ 0 \notin Range(ports) \cup Range(used) =>
             \A m \in Names(e) \cap DOMAIN Singles : s.pieces[m] # 0
   BY <1>1, <1>4, <2>0, <2>5, ZeroIs
 <2>7. CASE 0 \in Range(ports) \cup Range(used)
  <3>1. a = Failed(run.s)
    BY <2>2, <2>6, <2>7
  <3>2. SessionOK(a) /\ a.failed = TRUE /\ a.pieces = s.pieces
    BY <2>4, <3>1, FailedOK, FailedIs
  <3> QED BY <1>1, <1>4, <2>3, <3>2, NamedOK
 <2>8. CASE 0 \notin Range(ports) \cup Range(used)
  <3>1. a = RegisterConnection(run.s, e.mark, ports, used, ShapesOf(run.s, used))
    BY <2>2, <2>8
  <3>2. SessionOK(a)
    BY <2>4, <3>1, ConnectionOK
  <3>3. WithConnection(run.s, e.mark, ports, used, a)
    BY <2>4, <3>1, ConnectionIs
  <3>4. a.pieces = s.pieces
    BY <2>4, <3>3 DEF WithConnection
  <3>5. ~a.failed => Len(a.connections) # 0
   <4> SUFFICES ASSUME ~a.failed PROVE Len(a.connections) # 0
     OBVIOUS
   <4>1. PICK x : a.connections = Append(run.s.connections, x)
     BY <3>3 DEF WithConnection
   <4>2. Len(a.connections) = Len(run.s.connections) + 1 /\ Len(run.s.connections) \in Nat
     BY <2>4, <4>1, AppendsKept
   <4> QED BY <4>2
  <3>6. \A m \in Names(e) \cap DOMAIN Singles : s.pieces[m] # 0
    BY <2>6, <2>8
  <3> QED BY <1>1, <1>4, <2>3, <3>2, <3>4, <3>5, <3>6, NamedOK
 <2> QED BY <2>7, <2>8
<1> QED BY <1>2, <1>3, <1>4

\* Two executions that are at the same place.
Abreast(r, b) == IsSession(b.s) /\ Same(r.s, b.s) /\ r.made = b.made

LEMMA StepAbreast ==
    ASSUME NEW p \in DOMAIN Parts, NEW k \in Nat, k + 1 \in 1..Len(Parts[p].body),
           NEW s, SessionOK(s), NEW t, NEW run, RunOK(p, s, run, k),
           NEW how, Fits(p, s, how), NEW b, Abreast(run, b)
    PROVE  Abreast(Step(how, s, run, Parts[p].body[k + 1]),
                   Step(Building, t, b, Parts[p].body[k + 1]))
<1>1. PICK e : e = Parts[p].body[k + 1]
  OBVIOUS
<1>2. IsSession(run.s) /\ IsSession(b.s) /\ Same(run.s, b.s) /\ run.made = b.made
      /\ run.s.failed = b.s.failed /\ run.s.pieces = b.s.pieces /\ run.s.pieces = s.pieces
  BY DEF Abreast, RunOK, SessionOK, Same
<1>3. CASE run.s.failed
 <2>1. Step(how, s, run, e) = run
   BY <1>3, StepIdle
 <2>2. Step(Building, t, b, e) = b
   BY <1>2, <1>3, StepIdle
 <2> QED BY <1>1, <2>1, <2>2
<1>4. CASE ~run.s.failed /\ e.kind = "component"
 <2>1. PICK a, d : /\ a = RegisterComponent(run.s, e.mark, Shape(how))
                   /\ d = RegisterComponent(b.s, e.mark, Shape(Building))
   OBVIOUS
 <2>2. Step(how, s, run, e) = [s |-> a, made |-> Named(run.made, e.name, Len(a.components))]
   BY <1>4, <2>1, StepComponent
 <2>3. Step(Building, t, b, e) = [s |-> d, made |-> Named(b.made, e.name, Len(d.components))]
   BY <1>2, <1>4, <2>1, StepComponent
 <2>4. Same(a, d)
   BY <1>2, <2>1, ComponentSame
 <2>5. IsSession(d)
  <3>1. WithComponent(b.s, e.mark, d)
    BY <1>2, <2>1, ComponentIs
  <3> QED BY <3>1 DEF WithComponent
 <2>6. a.components = d.components
   BY <2>4 DEF Same
 <2> QED BY <1>1, <1>2, <2>2, <2>3, <2>4, <2>5, <2>6 DEF Abreast
<1>5. CASE ~run.s.failed /\ e.kind # "component"
 <2>0. e.kind = "connection"
   BY <1>1, <1>5, BodyIs
 <2>1. PICK ports, used : /\ ports = TokensAt(how, s, run, e.ports)
                          /\ used = TokensAt(how, s, run, e.connectors)
   OBVIOUS
 <2>2. /\ ports = [i \in DOMAIN e.ports |-> TokenIn(s, run, e.ports[i])]
       /\ used = [i \in DOMAIN e.connectors |-> TokenIn(s, run, e.connectors[i])]
   BY <1>1, <1>5, <2>0, <2>1, TokensAre
 <2>3. /\ how.replayed => 0 \notin Range(ports) \cup Range(used)
       /\ 0 \notin Range(ports) \cup Range(used) =>
             \A m \in Names(e) \cap DOMAIN Singles : s.pieces[m] # 0
   BY <1>1, <1>5, <2>0, <2>2, ZeroIs
 <2>4. /\ ports = TokensAt(Building, t, b, e.ports)
       /\ used = TokensAt(Building, t, b, e.connectors)
  <3>1. ASSUME NEW name PROVE TokenAt(Building, t, b, name) = TokenIn(s, run, name)
    BY <1>2 DEF TokenAt, TokenIn, TokenOf, Building
  <3> QED BY <2>2, <3>1, Zenon DEF TokensAt
 <2>5. PICK a : a = IF ~how.replayed /\ 0 \in Range(ports) \cup Range(used)
                    THEN Failed(run.s)
                    ELSE RegisterConnection(run.s, e.mark, ports, used, ShapesOf(run.s, used))
   OBVIOUS
 <2>6. PICK d : d = IF ~Building.replayed /\ 0 \in Range(ports) \cup Range(used)
                    THEN Failed(b.s)
                    ELSE RegisterConnection(b.s, e.mark, ports, used, ShapesOf(b.s, used))
   OBVIOUS
 <2>7. Step(how, s, run, e) = [s |-> a, made |-> Named(run.made, e.name, Len(a.connections))]
   BY <1>5, <2>1, <2>5, StepConnection
 <2>8. Step(Building, t, b, e) = [s |-> d, made |-> Named(b.made, e.name, Len(d.connections))]
   BY <1>2, <1>5, <2>4, <2>6, StepConnection
 <2>9. Same(a, d) /\ IsSession(d)
  <3>1. CASE 0 \in Range(ports) \cup Range(used)
   <4>1. a = Failed(run.s) /\ d = Failed(b.s)
     BY <2>3, <2>5, <2>6, <3>1 DEF Building
   <4>2. /\ Failed(run.s).failed = TRUE
         /\ Failed(run.s).components = run.s.components
         /\ Failed(run.s).connections = run.s.connections
         /\ Failed(run.s).pieces = run.s.pieces /\ Failed(run.s).model = run.s.model
     BY <1>2, FailedIs
   <4>3. /\ IsSession(Failed(b.s)) /\ Failed(b.s).failed = TRUE
         /\ Failed(b.s).components = b.s.components
         /\ Failed(b.s).connections = b.s.connections
         /\ Failed(b.s).pieces = b.s.pieces /\ Failed(b.s).model = b.s.model
     BY <1>2, FailedIs
   <4> QED BY <1>2, <4>1, <4>2, <4>3 DEF Same
  <3>2. CASE 0 \notin Range(ports) \cup Range(used)
   <4>1. /\ a = RegisterConnection(run.s, e.mark, ports, used, ShapesOf(run.s, used))
         /\ d = RegisterConnection(b.s, e.mark, ports, used, ShapesOf(b.s, used))
     BY <2>5, <2>6, <3>2
   <4>2. Same(a, d)
     BY <1>2, <4>1, ConnectionSame
   <4>3. WithConnection(b.s, e.mark, ports, used, d)
     BY <1>2, <4>1, ConnectionIs
   <4> QED BY <4>2, <4>3 DEF WithConnection
  <3> QED BY <3>1, <3>2
 <2>10. a.connections = d.connections
   BY <2>9 DEF Same
 <2> QED BY <1>1, <1>2, <2>7, <2>8, <2>9, <2>10 DEF Abreast
<1> QED BY <1>3, <1>4, <1>5


LEMMA WholeBody ==
    ASSUME MarksTellPieces, NEW p \in DOMAIN Parts, NEW c, c = Parts[p].body,
           NEW n, n = Len(c),
           NEW s, SessionOK(s), NEW t, IsSession(t), Same(s, t),
           NEW how, Fits(p, s, how),
           NEW f, Runs(f, how, s, c, n), NEW g, Runs(g, Building, t, c, n)
    PROVE  RunOK(p, s, f[n], n) /\ Abreast(f[n], g[n])
<1>1. n \in Nat /\ DOMAIN c = 1..n
 <2>1. c \in Seq(Range(c))
   BY DesignSessionAssumption
 <2> QED BY <2>1
<1> DEFINE R == {k \in Nat : k <= n => RunOK(p, s, f[k], k) /\ Abreast(f[k], g[k])}
<1>2. 0 \in R
 <2>1. PICK none : none = [m \in {} |-> 0]
   OBVIOUS
 <2>2. f[0] = [s |-> s, made |-> none] /\ g[0] = [s |-> t, made |-> none]
   BY <2>1, Zenon DEF Runs
 <2>3. f[0].s = s /\ f[0].made = none /\ g[0].s = t /\ g[0].made = none
   BY <2>2
 <2>4. DOMAIN none = {}
   BY <2>1
 <2>5. RunOK(p, s, f[0], 0)
   BY <2>3, <2>4 DEF RunOK
 <2>6. Abreast(f[0], g[0])
   BY <2>3 DEF Abreast
 <2> QED BY <2>5, <2>6
<1>3. ASSUME NEW k \in Nat, k \in R PROVE k + 1 \in R
 <2> SUFFICES ASSUME k + 1 <= n
              PROVE  RunOK(p, s, f[k + 1], k + 1) /\ Abreast(f[k + 1], g[k + 1])
   OBVIOUS
 <2>1. RunOK(p, s, f[k], k) /\ Abreast(f[k], g[k])
   BY <1>1, <1>3
 <2>2. k + 1 \in 1..n /\ k \in 0..(n - 1)
   BY <1>1
 <2>3. f[k + 1] = Step(how, s, f[k], c[k + 1]) /\ g[k + 1] = Step(Building, t, g[k], c[k + 1])
   BY <2>2 DEF Runs
 <2>4. RunOK(p, s, Step(how, s, f[k], c[k + 1]), k + 1)
   BY <2>1, <2>2, StepOK
 <2>5. Abreast(Step(how, s, f[k], c[k + 1]), Step(Building, t, g[k], c[k + 1]))
   BY <2>1, <2>2, StepAbreast
 <2> QED BY <2>3, <2>4, <2>5
<1> HIDE DEF R
<1>4. n \in R
  BY <1>1, <1>2, <1>3, AllNaturals
<1> QED BY <1>1, <1>4 DEF R

LEMMA BuildPair ==
    ASSUME MarksTellPieces, NEW p \in DOMAIN Parts,
           NEW s, SessionOK(s), NEW t, IsSession(t), Same(s, t)
    PROVE  /\ RunOK(p, s, Build(p, s), Len(Parts[p].body))
           /\ Abreast(Build(p, s), Build(p, t))
<1>1. PICK c, n : c = Parts[p].body /\ n = Len(c)
  OBVIOUS
<1>2. n \in Nat /\ DOMAIN c = 1..n
 <2>1. c \in Seq(Range(c))
   BY <1>1, DesignSessionAssumption
 <2> QED BY <1>1, <2>1
<1>3. PICK f : Runs(f, Building, s, c, n) /\ Build(p, s) = f[n]
  BY <1>1, <1>2, BuildRuns
<1>4. PICK g : Runs(g, Building, t, c, n) /\ Build(p, t) = g[n]
  BY <1>1, <1>2, BuildRuns
<1>5. Fits(p, s, Building)
  BY DEF Fits
<1>6. RunOK(p, s, f[n], n) /\ Abreast(f[n], g[n])
  BY <1>1, <1>3, <1>4, <1>5, WholeBody
<1> QED BY <1>1, <1>3, <1>4, <1>6

LEMMA ReplayPair ==
    ASSUME MarksTellPieces, NEW p \in DOMAIN Parts,
           NEW s, SessionOK(s), NEW t, IsSession(t), Same(s, t),
           NEW item, item.stored, EntryOK(p, item), Replayable(s, item)
    PROVE  /\ RunOK(p, s, Rerun(p, s, item), Len(Parts[p].body))
           /\ Abreast(Rerun(p, s, item), Build(p, t))
<1>1. PICK c, n : c = Parts[p].body /\ n = Len(c)
  OBVIOUS
<1>2. n \in Nat /\ DOMAIN c = 1..n
 <2>1. c \in Seq(Range(c))
   BY <1>1, DesignSessionAssumption
 <2> QED BY <1>1, <2>1
<1>3. PICK f : Runs(f, Replaying(item), s, c, n) /\ Rerun(p, s, item) = f[n]
  BY <1>1, <1>2, ReplayRuns
<1>4. PICK g : Runs(g, Building, t, c, n) /\ Build(p, t) = g[n]
  BY <1>1, <1>2, BuildRuns
<1>5. Fits(p, s, Replaying(item))
  BY DEF Fits
<1>6. RunOK(p, s, f[n], n) /\ Abreast(f[n], g[n])
  BY <1>1, <1>3, <1>4, <1>5, WholeBody
<1> QED BY <1>1, <1>3, <1>4, <1>6

\* What the design gets of an execution.
HandedOut(p, run) ==
    IF run.s.failed THEN run.s ELSE [run.s EXCEPT !.model = @ \o Nodes(p, run.s, run.made)]

LEMMA HandedOutIs ==
    ASSUME NEW p, NEW run, IsSession(run.s), NEW a, a = HandedOut(p, run)
    PROVE  /\ IsSession(a) /\ a.components = run.s.components
           /\ a.connections = run.s.connections /\ a.pieces = run.s.pieces
           /\ a.failed = run.s.failed
           /\ a.model = IF run.s.failed THEN run.s.model
                        ELSE run.s.model \o Nodes(p, run.s, run.made)
<1>1. CASE run.s.failed
  BY <1>1 DEF HandedOut
<1>2. CASE ~run.s.failed
 <2>1. PICK s, m : s = run.s /\ m = s.model \o Nodes(p, s, run.made)
   OBVIOUS
 <2>2. PICK b : b = [s EXCEPT !.model = m]
   OBVIOUS
 <2>3. a = b
   BY <1>2, <2>1, <2>2 DEF HandedOut
 <2>4. s = [components |-> s.components, connections |-> s.connections, shapes |-> s.shapes,
            pieces |-> s.pieces, model |-> s.model, failed |-> s.failed]
   BY <2>1 DEF IsSession
 <2>5. b = [components |-> s.components, connections |-> s.connections, shapes |-> s.shapes,
            pieces |-> s.pieces, model |-> m, failed |-> s.failed]
   BY <2>2, <2>4
 <2>6. /\ b.components = s.components /\ b.connections = s.connections
       /\ b.pieces = s.pieces /\ b.model = m /\ b.failed = s.failed /\ IsSession(b)
   BY <2>5, SessionOf
 <2> QED BY <1>2, <2>1, <2>3, <2>6
<1> QED BY <1>1, <1>2

LEMMA NodesSame ==
    ASSUME NEW p, NEW s, NEW t, s.pieces = t.pieces, NEW made
    PROVE  Nodes(p, s, made) = Nodes(p, t, made)
<1>1. ASSUME NEW name PROVE TokenOf(s, made, name) = TokenOf(t, made, name)
  BY DEF TokenOf
<1> QED BY <1>1, Zenon DEF Nodes

LEMMA HandedOutPair ==
    ASSUME NEW p, NEW r, SessionOK(r.s), NEW b, Abreast(r, b)
    PROVE  /\ SessionOK(HandedOut(p, r)) /\ IsSession(HandedOut(p, b))
           /\ Same(HandedOut(p, r), HandedOut(p, b))
<1>1. PICK a, d : a = HandedOut(p, r) /\ d = HandedOut(p, b)
  OBVIOUS
<1>2. /\ IsSession(r.s) /\ IsSession(b.s) /\ r.made = b.made
      /\ r.s.components = b.s.components /\ r.s.connections = b.s.connections
      /\ r.s.pieces = b.s.pieces /\ r.s.model = b.s.model /\ r.s.failed = b.s.failed
  BY DEF SessionOK, Abreast, Same
<1>3. /\ IsSession(a) /\ a.components = r.s.components
      /\ a.connections = r.s.connections /\ a.pieces = r.s.pieces
      /\ a.failed = r.s.failed
      /\ a.model = IF r.s.failed THEN r.s.model ELSE r.s.model \o Nodes(p, r.s, r.made)
  BY <1>1, <1>2, HandedOutIs
<1>4. /\ IsSession(d) /\ d.components = b.s.components
      /\ d.connections = b.s.connections /\ d.pieces = b.s.pieces
      /\ d.failed = b.s.failed
      /\ d.model = IF b.s.failed THEN b.s.model ELSE b.s.model \o Nodes(p, b.s, b.made)
  BY <1>1, <1>2, HandedOutIs
<1>5. Nodes(p, r.s, r.made) = Nodes(p, b.s, b.made)
  BY <1>2, NodesSame
<1>6. Same(a, d)
  BY <1>2, <1>3, <1>4, <1>5 DEF Same
<1>7. SessionOK(a)
  BY <1>3 DEF SessionOK
<1> QED BY <1>1, <1>4, <1>6, <1>7

LEMMA RebindIs ==
    ASSUME NEW s, SessionOK(s), NEW made, NEW p, NEW a, a = Rebind(s, made, p)
    PROVE  SessionOK(a) /\ \A t : Same(s, t) => Same(a, t)
<1>1. PICK h : a = [s EXCEPT !.shapes = h]
  BY DEF Rebind
<1>2. s = [components |-> s.components, connections |-> s.connections, shapes |-> s.shapes,
           pieces |-> s.pieces, model |-> s.model, failed |-> s.failed]
  BY DEF SessionOK, IsSession
<1>3. a = [components |-> s.components, connections |-> s.connections, shapes |-> h,
           pieces |-> s.pieces, model |-> s.model, failed |-> s.failed]
  BY <1>1, <1>2
<1>4. /\ a.components = s.components /\ a.connections = s.connections
      /\ a.pieces = s.pieces /\ a.model = s.model /\ a.failed = s.failed /\ IsSession(a)
  BY <1>3, SessionOf
<1>5. SessionOK(a)
  BY <1>4 DEF SessionOK
<1> QED BY <1>4, <1>5 DEF Same

\* An entry has the marks by which its pieces are found again.
LEMMA EntryIsOK ==
    ASSUME NEW p \in DOMAIN Parts, NEW s, NEW run,
           RunOK(p, s, run, Len(Parts[p].body)), ~run.s.failed, Storable(p, run.s)
    PROVE  /\ EntryOK(p, EntryOf(p, run.s, run.made))
           /\ EntryOf(p, run.s, run.made).stored
<1>1. PICK item : item = EntryOf(p, run.s, run.made)
  OBVIOUS
<1>2. item = [stored |-> TRUE, tokens |-> run.made,
               outside |-> [n \in UNION {External(p, e) : e \in ConnectionsOf(p)} |->
                     InstanceId(run.s, run.s.pieces[n])]]
  BY <1>1, Zenon DEF EntryOf
<1>3. /\ item.stored
      /\ item.outside = [n \in UNION {External(p, e) : e \in ConnectionsOf(p)} |->
                             InstanceId(run.s, run.s.pieces[n])]
  BY <1>2
<1>4. DOMAIN item.outside = UNION {External(p, e) : e \in ConnectionsOf(p)}
  BY <1>3
<1>5. ASSUME NEW n \in DOMAIN item.outside, n \in DOMAIN Singles
      PROVE  Singles[n] # Unmarked /\ item.outside[n] = <<Singles[n]>>
 <2>1. PICK e \in ConnectionsOf(p) : n \in External(p, e)
   BY <1>4
 <2>2. PICK i \in DOMAIN Parts[p].body : e = Parts[p].body[i]
   BY DEF ConnectionsOf, Range
 <2>3. e.kind = "connection" /\ n \in Names(e)
   BY <2>1 DEF ConnectionsOf, External, Names
 <2>4. i \in 1..Len(Parts[p].body)
  <3>1. Parts[p].body \in Seq(Range(Parts[p].body))
    BY DesignSessionAssumption
  <3> QED BY <3>1
 <2>5. s.pieces[n] # 0 /\ run.s.pieces = s.pieces /\ SessionOK(run.s)
   BY <1>5, <2>2, <2>3, <2>4 DEF RunOK
 <2>6. run.s.components[run.s.pieces[n]] = Singles[n]
   BY <1>5, <2>5 DEF SessionOK
 <2>7. run.s.components[run.s.pieces[n]] # Unmarked
   BY <2>1 DEF Storable
 <2>8. item.outside[n] = InstanceId(run.s, run.s.pieces[n])
   BY <1>3
 <2> QED BY <2>6, <2>7, <2>8 DEF InstanceId
<1> QED BY <1>1, <1>3, <1>4, <1>5 DEF EntryOK


SessionInv ==
    /\ SessionOK(session) /\ IsSession(plain) /\ Same(session, plain)
    /\ DOMAIN fresh = DOMAIN Parts
    /\ \A p \in DOMAIN Parts : EntryOK(p, store[p]) /\ EntryOK(p, fresh[p])

LEMMA EmptyIs == SessionOK(EmptySession) /\ Same(EmptySession, EmptySession)
<1>1. PICK none, some : none = <<>> /\ some = [n \in DOMAIN Singles |-> 0]
  OBVIOUS
<1>2. EmptySession = [components |-> none, connections |-> none, shapes |-> none,
                      pieces |-> some, model |-> none, failed |-> FALSE]
  BY <1>1, Zenon DEF EmptySession
<1>3. /\ EmptySession.components = none /\ EmptySession.connections = none
      /\ EmptySession.pieces = some /\ IsSession(EmptySession)
  BY <1>2, SessionOf
<1>4. none \in Seq(Range(none)) /\ DOMAIN none = {}
  BY <1>1
<1> QED BY <1>1, <1>3, <1>4 DEF SessionOK, Same

LEMMA NoEntryOK == ASSUME NEW p PROVE EntryOK(p, NoEntry)
  BY DEF EntryOK, NoEntry

LEMMA SessionInitInv == SessionInit => SessionInv
<1> SUFFICES ASSUME SessionInit PROVE SessionInv
  OBVIOUS
<1>1. SessionOK(session) /\ IsSession(plain) /\ Same(session, plain)
  BY EmptyIs DEF SessionInit, SessionOK
<1>2. DOMAIN fresh = DOMAIN Parts
  BY DEF SessionInit
<1>3. \A p \in DOMAIN Parts : EntryOK(p, store[p]) /\ EntryOK(p, fresh[p])
  BY NoEntryOK DEF SessionInit
<1> QED BY <1>1, <1>2, <1>3 DEF SessionInv

\* The design registers a piece, in a session in which it has none yet.
WithPiece(s, n) ==
    LET after == RegisterComponent(s, Singles[n], "built")
    IN IF after.failed THEN after ELSE [after EXCEPT !.pieces[n] = Len(after.components)]

PieceMade(s, n, a) ==
    /\ IsSession(a) /\ a.connections = s.connections /\ a.model = s.model
    /\ MarkTaken(s, Singles[n]) =>
          a.failed = TRUE /\ a.components = s.components /\ a.pieces = s.pieces
    /\ ~MarkTaken(s, Singles[n]) =>
          /\ a.failed = s.failed /\ a.components = Append(s.components, Singles[n])
          /\ a.pieces = [s.pieces EXCEPT ![n] = Len(Append(s.components, Singles[n]))]

LEMMA WithPieceIs ==
    ASSUME NEW n \in DOMAIN Singles, NEW s, IsSession(s), ~s.failed
    PROVE  PieceMade(s, n, WithPiece(s, n))
<1>0. PICK a : a = WithPiece(s, n)
  OBVIOUS
<1>1. PICK b : b = RegisterComponent(s, Singles[n], "built")
  OBVIOUS
<1>2. a = IF b.failed THEN b ELSE [b EXCEPT !.pieces[n] = Len(b.components)]
  BY <1>0, <1>1, Zenon DEF WithPiece
<1>3. WithComponent(s, Singles[n], b)
  BY <1>1, ComponentIs
<1>4. CASE MarkTaken(s, Singles[n])
  BY <1>0, <1>2, <1>3, <1>4 DEF WithComponent, PieceMade
<1>5. CASE ~MarkTaken(s, Singles[n])
 <2>1. ~b.failed /\ IsSession(b) /\ b.connections = s.connections /\ b.model = s.model
       /\ b.pieces = s.pieces /\ b.failed = s.failed
       /\ b.components = Append(s.components, Singles[n])
   BY <1>3, <1>5 DEF WithComponent
 <2>2. PICK x : x = [b.pieces EXCEPT ![n] = Len(b.components)]
   OBVIOUS
 <2>3. b = [components |-> b.components, connections |-> b.connections, shapes |-> b.shapes,
            pieces |-> b.pieces, model |-> b.model, failed |-> b.failed]
   BY <2>1 DEF IsSession
 <2>4. a = [b EXCEPT !.pieces = x]
   BY <1>2, <2>1, <2>2
 <2>5. a = [components |-> b.components, connections |-> b.connections, shapes |-> b.shapes,
            pieces |-> x, model |-> b.model, failed |-> b.failed]
   BY <2>3, <2>4
 <2>6. /\ a.components = b.components /\ a.connections = b.connections /\ a.pieces = x
       /\ a.model = b.model /\ a.failed = b.failed /\ IsSession(a)
   BY <2>5, SessionOf
 <2> QED BY <1>0, <1>5, <2>1, <2>2, <2>6 DEF PieceMade
<1> QED BY <1>4, <1>5

LEMMA WithPieceOK ==
    ASSUME MarksTellPieces, NEW n \in DOMAIN Singles, NEW s, SessionOK(s), ~s.failed,
           s.pieces[n] = 0, NEW a, a = WithPiece(s, n)
    PROVE  SessionOK(a)
<1>1. PieceMade(s, n, a)
 <2>1. IsSession(s)
   BY DEF SessionOK
 <2> QED BY <2>1, WithPieceIs
<1>2. CASE MarkTaken(s, Singles[n])
 <2>1. /\ IsSession(a) /\ a.connections = s.connections /\ a.components = s.components
       /\ a.pieces = s.pieces
   BY <1>1, <1>2 DEF PieceMade
 <2> QED BY <2>1 DEF SessionOK
<1>3. CASE ~MarkTaken(s, Singles[n])
 <2>1. PICK c, d, k, mark : /\ c = s.components /\ mark = Singles[n]
                            /\ d = Append(c, mark) /\ k = Len(c) + 1
   OBVIOUS
 <2>2. /\ d \in Seq(Range(d)) /\ Len(d) = k /\ k \in Nat \ {0}
       /\ DOMAIN d = DOMAIN c \cup {k} /\ k \notin DOMAIN c
       /\ d[k] = mark /\ \A i \in DOMAIN c : d[i] = c[i]
  <3>1. c \in Seq(Range(c))
    BY <2>1 DEF SessionOK
  <3>2. /\ d \in Seq(Range(d)) /\ Len(d) = Len(c) + 1 /\ Len(c) \in Nat
        /\ DOMAIN d = DOMAIN c \cup {Len(c) + 1}
        /\ DOMAIN c = 1..Len(c)
        /\ d[Len(c) + 1] = mark
        /\ \A i \in DOMAIN c : d[i] = c[i]
    BY <2>1, <3>1, AppendsKept
  <3>3. k \notin 1..Len(c)
    BY <2>1, <3>2
  <3> QED BY <2>1, <3>2, <3>3
 <2>3. /\ IsSession(a) /\ a.connections = s.connections /\ a.components = d
       /\ a.pieces = [s.pieces EXCEPT ![n] = k]
   BY <1>1, <1>3, <2>1, <2>2 DEF PieceMade
 <2>4. ASSUME NEW m \in DOMAIN Singles
       PROVE  /\ a.pieces[m] \in Nat
              /\ a.pieces[m] # 0 => a.pieces[m] \in DOMAIN d /\ d[a.pieces[m]] = Singles[m]
              /\ Singles[m] # Unmarked =>
                    \A t \in DOMAIN d : d[t] = Singles[m] => a.pieces[m] = t
  <3>1. /\ s.pieces[m] \in Nat /\ DOMAIN s.pieces = DOMAIN Singles
        /\ s.pieces[m] # 0 => s.pieces[m] \in DOMAIN c /\ c[s.pieces[m]] = Singles[m]
        /\ Singles[m] # Unmarked =>
              \A t \in DOMAIN c : c[t] = Singles[m] => s.pieces[m] = t
    BY <2>1 DEF SessionOK
  <3>2. CASE m = n
   <4>1. a.pieces[m] = k
     BY <2>3, <3>1, <3>2
   <4>2. ASSUME Singles[m] # Unmarked, NEW t \in DOMAIN d, d[t] = Singles[m] PROVE t = k
    <5> SUFFICES ASSUME t \in DOMAIN c PROVE FALSE
      BY <2>2
    <5>1. c[t] = Singles[m]
      BY <2>2, <4>2
    <5>2. t = 0
      BY <3>1, <3>2, <4>2, <5>1
    <5>3. c \in Seq(Range(c))
      BY <2>1 DEF SessionOK
    <5>4. 0 \notin DOMAIN c
      BY <5>3
    <5> QED BY <5>2, <5>4
   <4> QED BY <2>1, <2>2, <3>2, <4>1, <4>2
  <3>3. CASE m # n
   <4>1. a.pieces[m] = s.pieces[m]
     BY <2>3, <3>1, <3>3
   <4>2. Singles[m] # Unmarked => d[k] # Singles[m]
     BY <2>1, <2>2, <3>3 DEF MarksTellPieces
   <4> QED BY <2>2, <3>1, <4>1, <4>2
  <3> QED BY <3>2, <3>3
 <2>5. DOMAIN a.pieces = DOMAIN Singles
   BY <2>3 DEF SessionOK
 <2> QED BY <2>2, <2>3, <2>4, <2>5 DEF SessionOK
<1> QED BY <1>2, <1>3

LEMMA WithPieceSame ==
    ASSUME NEW n \in DOMAIN Singles, NEW s, NEW t, IsSession(s), IsSession(t), Same(s, t), ~s.failed
    PROVE  Same(WithPiece(s, n), WithPiece(t, n)) /\ IsSession(WithPiece(t, n))
<1>1. PICK a, d : a = WithPiece(s, n) /\ d = WithPiece(t, n)
  OBVIOUS
<1>2. /\ s.components = t.components /\ s.connections = t.connections
      /\ s.pieces = t.pieces /\ s.model = t.model /\ s.failed = t.failed
  BY DEF Same
<1>3. MarkTaken(s, Singles[n]) = MarkTaken(t, Singles[n])
  BY <1>2, Zenon DEF MarkTaken
<1>4. PieceMade(s, n, a)
  BY <1>1, WithPieceIs
<1>5. PieceMade(t, n, d)
  BY <1>1, <1>2, WithPieceIs
<1>6. Same(a, d)
 <2>1. CASE MarkTaken(s, Singles[n])
   BY <1>2, <1>3, <1>4, <1>5, <2>1 DEF Same, PieceMade
 <2>2. CASE ~MarkTaken(s, Singles[n])
   BY <1>2, <1>3, <1>4, <1>5, <2>2 DEF Same, PieceMade
 <2> QED BY <2>1, <2>2
<1> QED BY <1>1, <1>5, <1>6 DEF PieceMade

----
LEMMA PieceStep ==
    ASSUME MarksTellPieces, SessionInv, NEW n \in DOMAIN Singles, RegisterPiece(n)
    PROVE  SessionInv'
<1>1. /\ session' = WithPiece(session, n) /\ plain' = WithPiece(plain, n)
      /\ ~session.failed /\ plain.pieces[n] = 0 /\ UNCHANGED <<store, fresh>>
  BY Zenon DEF RegisterPiece, WithPiece, Running
<1>2. SessionOK(session) /\ IsSession(session) /\ IsSession(plain) /\ Same(session, plain)
  BY DEF SessionInv, SessionOK
<1>3. session.pieces[n] = 0
  BY <1>1, <1>2 DEF Same
<1>4. PICK a, d : a = WithPiece(session, n) /\ d = WithPiece(plain, n)
  OBVIOUS
<1>5. SessionOK(a) /\ Same(a, d) /\ IsSession(d)
  BY <1>1, <1>2, <1>3, <1>4, WithPieceOK, WithPieceSame
<1>6. session' = a /\ plain' = d
  BY <1>1, <1>4
<1> QED BY <1>1, <1>5, <1>6 DEF SessionInv

LEMMA HitStep ==
    ASSUME MarksTellPieces, SessionInv, NEW p \in DOMAIN Parts, CallHit(p)
    PROVE  SessionInv'
<1>1. PICK item : item = Found(p)
  OBVIOUS
<1>2. /\ item.stored /\ Replayable(session, item)
      /\ session' = Replay(p, session, item) /\ plain' = Built(p, plain)
      /\ UNCHANGED <<store, fresh>>
  BY <1>1 DEF CallHit, Hit
<1>3. EntryOK(p, item)
  BY <1>1 DEF Found, SessionInv
<1>4. PICK r, b : r = Rerun(p, session, item) /\ b = Build(p, plain)
  OBVIOUS
<1>5. SessionOK(r.s) /\ Abreast(r, b)
 <2>1. RunOK(p, session, r, Len(Parts[p].body)) /\ Abreast(r, b)
   BY <1>2, <1>3, <1>4, ReplayPair DEF SessionInv
 <2> QED BY <2>1 DEF RunOK
<1>6. PICK a, d : a = HandedOut(p, r) /\ d = HandedOut(p, b)
  OBVIOUS
<1>7. SessionOK(a) /\ IsSession(d) /\ Same(a, d)
  BY <1>5, <1>6, HandedOutPair
<1>8. session' = a /\ plain' = d
  BY <1>2, <1>4, <1>6, Zenon DEF Replay, Built, HandedOut
<1> QED BY <1>2, <1>7, <1>8 DEF SessionInv

LEMMA BuiltStep ==
    ASSUME MarksTellPieces, SessionInv, NEW p \in DOMAIN Parts, CallBuilt(p)
    PROVE  SessionInv'
<1>1. PICK r, b : r = Build(p, session) /\ b = Build(p, plain)
  OBVIOUS
<1>2. RunOK(p, session, r, Len(Parts[p].body)) /\ Abreast(r, b)
  BY <1>1, BuildPair DEF SessionInv
<1>3. SessionOK(r.s)
  BY <1>2 DEF RunOK
<1>4. PICK a, d : a = HandedOut(p, r) /\ d = HandedOut(p, b)
  OBVIOUS
<1>5. SessionOK(a) /\ IsSession(d) /\ Same(a, d)
  BY <1>2, <1>3, <1>4, HandedOutPair
<1>6. Built(p, session) = a /\ Built(p, plain) = d
  BY <1>1, <1>4, Zenon DEF Built, HandedOut
<1>7. PICK kept : kept = (~r.s.failed /\ Storable(p, r.s))
  OBVIOUS
<1>8. /\ plain' = d /\ store' = store
      /\ session' = IF kept THEN Rebind(a, r.made, p) ELSE a
      /\ fresh' = IF kept THEN [fresh EXCEPT ![p] = EntryOf(p, r.s, r.made)] ELSE fresh
  BY <1>1, <1>6, <1>7, Zenon DEF CallBuilt
<1>9. SessionOK(session') /\ Same(session', plain')
 <2>1. CASE kept
  <3>1. PICK x : x = Rebind(a, r.made, p)
    OBVIOUS
  <3>2. SessionOK(x) /\ Same(x, d)
    BY <1>5, <3>1, RebindIs
  <3> QED BY <1>8, <2>1, <3>1, <3>2
 <2>2. CASE ~kept
   BY <1>5, <1>8, <2>2
 <2> QED BY <2>1, <2>2
<1>10. DOMAIN fresh' = DOMAIN Parts /\ \A q \in DOMAIN Parts : EntryOK(q, fresh'[q])
 <2>1. DOMAIN fresh = DOMAIN Parts /\ \A q \in DOMAIN Parts : EntryOK(q, fresh[q])
   BY DEF SessionInv
 <2>2. CASE kept
  <3>1. PICK item : item = EntryOf(p, r.s, r.made)
    OBVIOUS
  <3>2. EntryOK(p, item)
    BY <1>2, <1>7, <2>2, <3>1, EntryIsOK
  <3>3. fresh' = [fresh EXCEPT ![p] = item]
    BY <1>8, <2>2, <3>1
  <3> QED BY <2>1, <3>2, <3>3
 <2>3. CASE ~kept
   BY <1>8, <2>1, <2>3
 <2> QED BY <2>2, <2>3
<1> QED BY <1>5, <1>8, <1>9, <1>10 DEF SessionInv

LEMMA JoinStep ==
    ASSUME SessionInv, NEW t, NEW u, JoinReturned(t, u)
    PROVE  SessionInv'
<1>1. PICK ports, used : ports = <<t, u>> /\ used = <<t>>
  OBVIOUS
<1>2. PICK a, d :
          /\ a = RegisterConnection(session, Unmarked, ports, used, ShapesOf(session, used))
          /\ d = RegisterConnection(plain, Unmarked, ports, used, ShapesOf(plain, used))
  OBVIOUS
<1>3. session' = a /\ plain' = d /\ UNCHANGED <<store, fresh>>
  BY <1>1, <1>2 DEF JoinReturned
<1>4. SessionOK(session) /\ IsSession(session) /\ IsSession(plain) /\ Same(session, plain)
  BY DEF SessionInv, SessionOK
<1>5. SessionOK(a) /\ Same(a, d)
  BY <1>2, <1>4, ConnectionOK, ConnectionSame
<1>6. IsSession(d)
 <2>1. WithConnection(plain, Unmarked, ports, used, d)
   BY <1>2, <1>4, ConnectionIs
 <2> QED BY <2>1 DEF WithConnection
<1> QED BY <1>3, <1>5, <1>6 DEF SessionInv

LEMMA NextCompileStep ==
    ASSUME SessionInv, NextCompile, \A p \in DOMAIN Parts : EntryOK(p, store'[p])
    PROVE  SessionInv'
<1>1. SessionOK(session') /\ IsSession(plain') /\ Same(session', plain')
  BY EmptyIs DEF NextCompile, SessionOK
<1>2. DOMAIN fresh' = DOMAIN Parts /\ \A p \in DOMAIN Parts : EntryOK(p, fresh'[p])
  BY NoEntryOK DEF NextCompile
<1> QED BY <1>1, <1>2 DEF SessionInv

LEMMA SessionStepInv == ASSUME MarksTellPieces PROVE SessionInv /\ [SessionNext]_sessionVars => SessionInv'
<1> SUFFICES ASSUME SessionInv, [SessionNext]_sessionVars PROVE SessionInv'
  OBVIOUS
<1>1. ASSUME NEW n \in DOMAIN Singles, RegisterPiece(n) PROVE SessionInv'
  BY <1>1, PieceStep
<1>2. ASSUME NEW p \in DOMAIN Parts, CallHit(p) PROVE SessionInv'
  BY <1>2, HitStep
<1>3. ASSUME NEW p \in DOMAIN Parts, CallBuilt(p) PROVE SessionInv'
  BY <1>3, BuiltStep
<1>4. ASSUME NEW t \in 1..MaxStatements, NEW u \in 1..MaxStatements, JoinReturned(t, u)
      PROVE  SessionInv'
  BY <1>4, JoinStep
<1>5. ASSUME Finalize(Loose) PROVE SessionInv'
 <2>1. /\ NextCompile
       /\ store' = [p \in DOMAIN Parts |-> IF fresh[p].stored THEN fresh[p] ELSE store[p]]
   BY <1>5 DEF Finalize
 <2>2. \A p \in DOMAIN Parts : EntryOK(p, store'[p])
   BY <2>1 DEF SessionInv
 <2> QED BY <2>1, <2>2, NextCompileStep
<1>6. ASSUME AbandonDesign PROVE SessionInv'
 <2>1. NextCompile /\ store' = store
   BY <1>6 DEF AbandonDesign
 <2>2. \A p \in DOMAIN Parts : EntryOK(p, store'[p])
   BY <2>1 DEF SessionInv
 <2> QED BY <2>1, <2>2, NextCompileStep
<1>7. CASE UNCHANGED sessionVars
  BY <1>7 DEF SessionInv, sessionVars
<1> QED BY <1>1, <1>2, <1>3, <1>4, <1>5, <1>6, <1>7 DEF SessionNext

LEMMA SessionShows == SessionInv => ReplayIsBuilding
  BY DEF SessionInv, Same, ReplayIsBuilding

\* A session that replays parts is the one in which they were built, for any parts and
\* any design, when the mark of a piece is no other component's (replay_registrations
\* and register_component of the session).
THEOREM ReplayCorrect == MarksTellPieces => (SessionSpec => []ReplayIsBuilding)
<1> SUFFICES ASSUME MarksTellPieces PROVE SessionSpec => []ReplayIsBuilding
  OBVIOUS
<1>1. SessionInit => SessionInv
  BY SessionInitInv
<1>2. SessionInv /\ [SessionNext]_sessionVars => SessionInv'
  BY SessionStepInv
<1>3. SessionInv => ReplayIsBuilding
  BY SessionShows
<1> QED BY <1>1, <1>2, <1>3, PTL DEF SessionSpec

=============================================================================
