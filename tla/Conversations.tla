---------------------------- MODULE Conversations ----------------------------
(***************************************************************************)
(* What the agent is told of a project's earlier edits.  The endpoint that *)
(* starts an edit derives its context from the edits that are over, under  *)
(* the project's lock and with no other edit active, and stores it with    *)
(* the edit: the next one continues from there.  Of an edit it keeps the   *)
(* turn while it is recent and fits, then a line of the summary, then      *)
(* nothing.  When the last edit has no turn, or no context (it was made    *)
(* before contexts were stored), the context is built from the rows again. *)
(***************************************************************************)
EXTENDS Naturals, SequencesExt

CONSTANTS
    Prompts,      \* kinds of user requests: those of nothing but blanks have no turn
    BlankPrompt,
    TurnCost,     \* of each kind: what its whole turn takes of the rendered context
    LineCost,     \* and what its line in the summary does
    MaxTurns,     \* MAX_RECENT_TURNS
    MaxSummary,   \* MAX_ROLLING_SUMMARY_CHARS
    MaxRendered,  \* MAX_RENDERED_CONTEXT_TOKENS
    MaxRows,      \* the limit of list_recent_terminal_jobs
    Legacies,     \* the edits a project may have from before contexts were stored
    MaxChats,     \* bound on the edits of a project
    NoContext

ASSUME ConversationAssumption ==
    /\ BlankPrompt \in Prompts
    /\ TurnCost \in [Prompts -> Nat] /\ LineCost \in [Prompts -> Nat]
    /\ MaxTurns \in Nat /\ MaxSummary \in Nat /\ MaxRendered \in Nat /\ MaxRows \in Nat \ {0}
    /\ \A old \in Legacies :
          /\ old \in Seq([prompt : Prompts, status : {"active", "over", "unclear"},
                        context : {NoContext}])
          /\ \A i \in DOMAIN old : old[i].status = "active" => i = Len(old)

VARIABLE chats  \* the project's edits, oldest first

NoTalk == [summary |-> <<>>, recent |-> <<>>]
Active == \E i \in DOMAIN chats : chats[i].status = "active"

\* The first n edits but those that fail a test, oldest first.
Those(Test(_), n) ==
    FoldLeft(LAMBDA found, i : IF Test(i) THEN Append(found, i) ELSE found,
             <<>>, [i \in 1..n |-> i])

\* A request that says something has a turn, unless the result has no outcome.
HasTurn(i) == chats[i].prompt # BlankPrompt /\ chats[i].status # "unclear"

TurnsCost(turns) == FoldLeft(LAMBDA sum, i : sum + TurnCost[chats[i].prompt], 0, turns)
LinesCost(lines) == FoldLeft(LAMBDA sum, i : sum + LineCost[chats[i].prompt], 0, lines)
Rendered(lines, turns) == LinesCost(lines) + TurnsCost(turns)

\* The newest lines that stay within a limit.
NewestLines(lines, limit) ==
    LET fits(n) == LinesCost(SubSeq(lines, n + 1, Len(lines))) <= limit
        n == CHOOSE n \in 0..Len(lines) : fits(n) /\ \A k \in 0..(n - 1) : ~fits(k)
    IN  SubSeq(lines, n + 1, Len(lines))

\* advance_conversation_context: the oldest turns become lines until there are
\* few enough and all of it can be rendered; the oldest lines are dropped.
Advance(talk, i) ==
    LET turns == Append(talk.recent, i)
        lines(n) == IF n = 0 THEN talk.summary
                    ELSE NewestLines(talk.summary \o SubSeq(turns, 1, n), MaxSummary)
        rest(n) == SubSeq(turns, n + 1, Len(turns))
        fits(n) == Len(rest(n)) <= MaxTurns
                   /\ (rest(n) = <<>> \/ Rendered(lines(n), rest(n)) <= MaxRendered)
        folded == CHOOSE n \in 0..Len(turns) : fits(n) /\ \A k \in 0..(n - 1) : ~fits(k)
    IN  [summary |-> NewestLines(lines(folded), MaxRendered - TurnsCost(rest(folded))),
         recent |-> rest(folded)]

MutListed ==
    LET over == Those(LAMBDA i : chats[i].status # "active", Len(chats))
    IN  Reverse(SubSeq(over, IF Len(over) > MaxRows THEN Len(over) - MaxRows + 1 ELSE 1, Len(over)))

\* list_recent_terminal_jobs: the newest ones, oldest first.
Listed ==
    LET over == Those(LAMBDA i : chats[i].status # "active", Len(chats))
    IN  SubSeq(over, IF Len(over) > MaxRows THEN Len(over) - MaxRows + 1 ELSE 1, Len(over))

\* next_conversation_context
NextContext ==
    LET latest == Last(Listed)
    IN  CASE Listed = <<>> -> NoTalk
          [] Listed # <<>> /\ chats[latest].context # NoContext /\ HasTurn(latest) ->
                Advance(chats[latest].context, latest)
          [] OTHER ->
                FoldLeft(LAMBDA talk, i : IF HasTurn(i) THEN Advance(talk, i) ELSE talk,
                         NoTalk, Listed)

ConversationInit == chats \in Legacies

\* start_llm_file_edit, as far as it gets when an edit is started.
StartChat(prompt) ==
    /\ ~Active /\ Len(chats) < MaxChats
    /\ chats' = Append(chats, [prompt |-> prompt, status |-> "active", context |-> NextContext])

\* The edit ends; one that fails has a turn, too.
EndChat ==
    /\ Active
    /\ chats' = [chats EXCEPT ![Len(chats)].status = "over"]

ConversationNext == EndChat \/ \E prompt \in Prompts : StartChat(prompt)

ConversationSpec == ConversationInit /\ [][ConversationNext]_chats

----
(* Properties.                                                             *)

\* The edits that have a turn, before one.
Before(i) == Those(HasTurn, i - 1)

\* What the agent is told is the end of the project's history, however often a
\* request without a turn or an old row had it built again: no edit twice, none
\* out of order, none left out between two; with the last one that is listed,
\* and within the limits.
HistoryIsTold ==
    \A i \in DOMAIN chats :
        chats[i].context # NoContext =>
            LET talk == chats[i].context
                told == talk.summary \o talk.recent
            IN  /\ IsSuffix(told, Before(i))
                /\ (\E k \in DOMAIN Before(i) : Before(i)[k] >= i - MaxRows) => told # <<>>
                /\ Len(talk.recent) <= MaxTurns /\ LinesCost(talk.summary) <= MaxSummary
                /\ Rendered(talk.summary, talk.recent) <= MaxRendered
=============================================================================
