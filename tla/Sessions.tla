------------------------------ MODULE Sessions ------------------------------
(***************************************************************************)
(* Signing in, authenticated requests and signing out of one browser.  A   *)
(* session is a row that holds the tokens of the identity provider; the    *)
(* browser holds its name in a cookie that every answer sets again.  The   *)
(* first request of a user, with a session or with a token of its own,     *)
(* makes the account.  Requests read the row, ask the provider without a   *)
(* lock, and write the row later, each statement by itself.                *)
(***************************************************************************)
EXTENDS Naturals, Sequences

CONSTANTS
    Logins,         \* sign-ins of the browser; a session is named by its own
    Calls,          \* requests of the browser
    Logouts,        \* sign-outs of the browser
    Bearers,        \* requests that bring a token instead of a cookie
    Users,
    UserOf,         \* user of a sign-in or a token
    IdleTime, LongestTime, TokenTime, Skew, StateTime,   \* durations
    MaxClock,       \* bound: the clock stops there
    NoSession, Nobody

Actors == Logins \cup Calls \cup Logouts \cup Bearers

\* A request is of one sort, and a session's name is none of the words for what an
\* answer does to the cookie.
ASSUME SessionsAssumption ==
    /\ {IdleTime, LongestTime, TokenTime, Skew, StateTime, MaxClock} \subseteq Nat
    /\ IdleTime <= LongestTime /\ TokenTime > Skew
    /\ UserOf \in [Logins \cup Bearers -> Users]
    /\ Logins \cap (Calls \cup Logouts \cup Bearers) = {}
    /\ Calls \cap (Logouts \cup Bearers) = {} /\ Logouts \cap Bearers = {}
    /\ Nobody \notin Actors /\ NoSession \notin Logins /\ {"keep", "clear"} \cap Logins = {}

\* What a first request makes for its user.
AccountRows == {"user", "tenant", "membership", "project", "files", "settings", "workspace"}

VARIABLES
    clock,
    asking,     \* actor |-> its request: where it is, its cookie, and what it holds
    jar,        \* the session cookie of the browser
    attempt,    \* the cookie of the sign-in that was begun last, and when it was begun
    signed,     \* session |-> its row, or <<>>
    grant,      \* session |-> whether the provider still knows it
    account,    \* user |-> rows of its account
    tenants,    \* user |-> tenants made for it
    inserting,  \* user |-> the request with an uncommitted user row
    born,       \* session |-> when its row was made (history)
    ended,      \* sessions whose row was deleted (history)
    left        \* sessions that were signed out (history)

sessionsVars == <<clock, asking, jar, attempt, signed, grant, account, tenants, inserting, born, ended, left>>

----
At(a, state) == asking[a].state = state
Holds(a) == asking[a].cookie
User(a) == IF a \in Logins \cup Bearers THEN UserOf[a] ELSE UserOf[Holds(a)]
Live(s) == s # NoSession /\ signed[s] # <<>>
Row(s) == signed[s][1]

\* A request goes on, or is answered; the answer sets the cookie, clears it or leaves it.
Moved(a, state) == asking' = [asking EXCEPT ![a].state = state]
Given(a, answer, cookie) ==
    asking' = [asking EXCEPT ![a] =
        [@ EXCEPT !.state = IF cookie = "keep" THEN "done" ELSE "answered", !.answer = answer, !.sets = cookie]]

Deleted(s) ==
    /\ signed' = [signed EXCEPT ![s] = <<>>]
    /\ ended' = ended \cup {s}

Lesser(x, y) == IF x < y THEN x ELSE y

SessionsInit ==
    /\ clock = 0 /\ jar = NoSession /\ attempt = <<>>
    /\ asking = [a \in Actors |-> [state |-> "new", cookie |-> NoSession, now |-> 0, token |-> 0, fresh |-> FALSE,
                                   answer |-> "none", sets |-> "keep"]]
    /\ signed = [s \in Logins |-> <<>>]
    /\ grant = [s \in Logins |-> FALSE]
    /\ account = [u \in Users |-> {}] /\ tenants = [u \in Users |-> 0]
    /\ inserting = [u \in Users |-> Nobody]
    /\ born = [s \in Logins |-> 0] /\ ended = {} /\ left = {}

----
(* Accounts.                                                               *)

\* A request that knows its user looks for it.  One that refreshed a session writes
\* the tokens with the commit of an account it found, if the row is still there.
FindUser(a) ==
    /\ At(a, "known")
    /\ IF account[User(a)] = {}
       THEN Moved(a, "adding") /\ UNCHANGED signed
       ELSE IF ~asking[a].fresh THEN Moved(a, "found") /\ UNCHANGED signed
       ELSE IF ~Live(Holds(a)) THEN Given(a, "error", "keep") /\ UNCHANGED signed
       ELSE /\ Moved(a, "found")
            /\ signed' = [signed EXCEPT ![Holds(a)] =
                              <<[Row(Holds(a)) EXCEPT !.token = asking[a].token, !.until = asking[a].token]>>]
    /\ UNCHANGED <<clock, jar, attempt, grant, account, tenants, inserting, born, ended, left>>

\* The user's name is unique: an insert waits for another one that is not committed,
\* and fails when it is.
InsertUser(a) ==
    /\ At(a, "adding") /\ inserting[User(a)] = Nobody
    /\ IF account[User(a)] = {}
       THEN Moved(a, "added") /\ inserting' = [inserting EXCEPT ![User(a)] = a]
       ELSE Given(a, "error", "keep") /\ UNCHANGED inserting
    /\ UNCHANGED <<clock, jar, attempt, signed, grant, account, tenants, born, ended, left>>

\* Tenant, membership, project, files, settings and workspace follow, and one commit.
InsertAccount(a) ==
    /\ At(a, "added")
    /\ Moved(a, "found")
    /\ account' = [account EXCEPT ![User(a)] = AccountRows]
    /\ tenants' = [tenants EXCEPT ![User(a)] = @ + 1]
    /\ inserting' = [inserting EXCEPT ![User(a)] = Nobody]
    /\ UNCHANGED <<clock, jar, attempt, signed, grant, born, ended, left>>

\* Any of these statements may fail; what was not committed is rolled back.
InsertFails(a) ==
    /\ At(a, "added")
    /\ Given(a, "error", "keep")
    /\ inserting' = [inserting EXCEPT ![User(a)] = Nobody]
    /\ UNCHANGED <<clock, jar, attempt, signed, grant, account, tenants, born, ended, left>>

----
(* Signing in.                                                             *)

BeginLogin(a) ==
    /\ a \in Logins /\ At(a, "new")
    /\ Moved(a, "away")
    /\ attempt' = <<a, clock>>
    /\ UNCHANGED <<clock, jar, signed, grant, account, tenants, inserting, born, ended, left>>

\* The browser comes back with a code: the cookie must be that of this sign-in, and
\* not too old.  The provider exchanges the code for a token, or does not; the keys
\* that verify the token may not be had.
ReturnFromLogin(a) ==
    /\ At(a, "away")
    /\ IF attempt = <<>> \/ attempt[1] # a \/ attempt[2] + StateTime < clock
       THEN Given(a, "refused", "keep") /\ UNCHANGED grant
       ELSE \/ Given(a, "refused", "keep") /\ UNCHANGED grant
            \/ /\ asking' = [asking EXCEPT ![a] = [@ EXCEPT !.state = "known", !.token = clock + TokenTime]]
               /\ grant' = [grant EXCEPT ![a] = TRUE]
    /\ UNCHANGED <<clock, jar, attempt, signed, account, tenants, inserting, born, ended, left>>

CreateSession(a) ==
    /\ a \in Logins /\ At(a, "found")
    /\ signed' = [signed EXCEPT ![a] = <<[token |-> asking[a].token, until |-> clock + TokenTime,
                                            idle |-> clock + IdleTime, max |-> clock + LongestTime]>>]
    /\ born' = [born EXCEPT ![a] = clock]
    /\ Given(a, "ok", a)
    /\ UNCHANGED <<clock, jar, attempt, grant, account, tenants, inserting, ended, left>>

----
(* Requests.                                                               *)

Send(a) ==
    /\ a \in Calls \cup Logouts /\ At(a, "new")
    /\ asking' = [asking EXCEPT ![a] = [@ EXCEPT !.state = "sent", !.cookie = jar]]
    /\ UNCHANGED <<clock, jar, attempt, signed, grant, account, tenants, inserting, born, ended, left>>

\* The row is read once, with the time.  An expired one is deleted, a token about to
\* expire is refreshed; a changing request must prove that it read the second cookie.
LookUp(a) ==
    /\ a \in Calls /\ At(a, "sent")
    /\ IF ~Live(Holds(a)) THEN Given(a, "refused", "keep")
       ELSE IF Row(Holds(a)).idle <= clock \/ Row(Holds(a)).max <= clock THEN Moved(a, "expired")
       ELSE \/ Given(a, "forbidden", "keep")
            \/ asking' = [asking EXCEPT ![a] =
                  [@ EXCEPT !.state = IF Row(Holds(a)).until <= clock + Skew THEN "refreshing" ELSE "decoding",
                            !.now = clock, !.token = Row(Holds(a)).token]]
    /\ UNCHANGED <<clock, jar, attempt, signed, grant, account, tenants, inserting, born, ended, left>>

\* An expired or refused session is deleted.  Its cookie is cleared on an answer that
\* the raised error replaces: the browser keeps it.
DeleteSession(a) ==
    /\ At(a, "expired")
    /\ Deleted(Holds(a))
    /\ Given(a, "refused", "keep")
    /\ UNCHANGED <<clock, jar, attempt, grant, account, tenants, inserting, born, left>>

Renewed(a) == asking' = [asking EXCEPT ![a] =
                [@ EXCEPT !.state = "decoding", !.token = clock + TokenTime, !.fresh = TRUE]]

\* A defect: a provider that cannot be reached counts as one that refuses.
MutRefresh(a) ==
    /\ At(a, "refreshing")
    /\ \/ grant[Holds(a)] /\ Renewed(a)
       \/ Moved(a, "expired")
    /\ UNCHANGED <<clock, jar, attempt, signed, grant, account, tenants, inserting, born, ended, left>>

\* The provider answers while it knows the session, refuses when it does not, or
\* cannot be reached, which leaves the session as it is.  Every 4xx, and an answer
\* without an access token, is a refusal, and the provider has no other cause for one.
Refresh(a) ==
    /\ At(a, "refreshing")
    /\ \/ grant[Holds(a)] /\ Renewed(a)
       \/ /\ ~grant[Holds(a)]
          /\ Moved(a, "expired")
       \/ Given(a, "unavailable", "keep")
    /\ UNCHANGED <<clock, jar, attempt, signed, grant, account, tenants, inserting, born, ended, left>>

\* The token is verified, with keys of the provider: it may have expired since the row
\* was read, or the keys cannot be had; what was refreshed is then forgotten.
Decode(a) ==
    /\ At(a, "decoding")
    /\ \/ asking[a].token > clock /\ Moved(a, "known")
       \/ Given(a, "error", "keep")
    /\ UNCHANGED <<clock, jar, attempt, signed, grant, account, tenants, inserting, born, ended, left>>

\* The row is read again after the commit of the account, and written with the time of
\* the first look; a row that is gone is an error.
SaveSession(a) ==
    /\ a \in Calls /\ At(a, "found")
    /\ IF Live(Holds(a))
       THEN /\ signed' = [signed EXCEPT ![Holds(a)] =
                             <<[Row(Holds(a)) EXCEPT !.idle = Lesser(asking[a].now + IdleTime, Row(Holds(a)).max)]>>]
            /\ Given(a, "ok", Holds(a))
       ELSE Given(a, "error", "keep") /\ UNCHANGED signed
    /\ UNCHANGED <<clock, jar, attempt, grant, account, tenants, inserting, born, ended, left>>

\* A token of its own is verified and its user looked for; no session is involved.
CallWithToken(a) ==
    /\ a \in Bearers /\ At(a, "new")
    /\ Moved(a, "known") \/ Given(a, "refused", "keep")
    /\ UNCHANGED <<clock, jar, attempt, signed, grant, account, tenants, inserting, born, ended, left>>
AnswerToken(a) ==
    /\ a \in Bearers /\ At(a, "found")
    /\ Given(a, "ok", "keep")
    /\ UNCHANGED <<clock, jar, attempt, signed, grant, account, tenants, inserting, born, ended, left>>

\* The answer reaches the browser, maybe long after it was given.
Receive(a) ==
    /\ At(a, "answered")
    /\ Moved(a, "done")
    /\ jar' = IF asking[a].sets = "clear" THEN NoSession ELSE asking[a].sets
    /\ attempt' = IF asking[a].sets = "clear" \/ (a \in Logins /\ asking[a].answer = "ok") THEN <<>> ELSE attempt
    /\ UNCHANGED <<clock, signed, grant, account, tenants, inserting, born, ended, left>>

----
(* Signing out.                                                            *)

\* The row is read; the provider is told, and may not hear it.
LeaveProvider(a) ==
    /\ a \in Logouts /\ At(a, "sent")
    /\ IF Live(Holds(a))
       THEN /\ Moved(a, "leaving")
            /\ \/ grant' = [grant EXCEPT ![Holds(a)] = FALSE]
               \/ UNCHANGED grant
       ELSE Given(a, "ok", "clear") /\ UNCHANGED grant
    /\ UNCHANGED <<clock, jar, attempt, signed, account, tenants, inserting, born, ended, left>>
Leave(a) ==
    /\ At(a, "leaving")
    /\ Deleted(Holds(a))
    /\ left' = left \cup {Holds(a)}
    /\ Given(a, "ok", "clear")
    /\ UNCHANGED <<clock, jar, attempt, grant, account, tenants, inserting, born>>

----
\* The provider ends a session by itself, and time passes.
ProviderEnds(s) ==
    /\ grant[s] /\ grant' = [grant EXCEPT ![s] = FALSE]
    /\ UNCHANGED <<clock, asking, jar, attempt, signed, account, tenants, inserting, born, ended, left>>
Tick ==
    /\ clock < MaxClock /\ clock' = clock + 1
    /\ UNCHANGED <<asking, jar, attempt, signed, grant, account, tenants, inserting, born, ended, left>>

SessionsNext ==
    \/ \E a \in Actors :
          \/ FindUser(a) \/ InsertUser(a) \/ InsertAccount(a) \/ InsertFails(a)
          \/ BeginLogin(a) \/ ReturnFromLogin(a) \/ CreateSession(a)
          \/ Send(a) \/ LookUp(a) \/ DeleteSession(a) \/ Refresh(a) \/ Decode(a) \/ SaveSession(a)
          \/ CallWithToken(a) \/ AnswerToken(a) \/ Receive(a) \/ LeaveProvider(a) \/ Leave(a)
    \/ \E s \in Logins : ProviderEnds(s)
    \/ Tick

SessionsSpec == SessionsInit /\ [][SessionsNext]_sessionsVars

----
(* What sessions and accounts promise.                                     *)

\* Where a request may be, what it is answered, and what a session's row holds.
Places == {"new", "away", "sent", "expired", "refreshing", "decoding", "known", "adding", "added", "found",
           "leaving", "answered", "done"}
Answers == {"none", "ok", "refused", "forbidden", "unavailable", "error"}
Requests == [state : Places, cookie : Logins \cup {NoSession}, now : Nat, token : Nat, fresh : BOOLEAN,
             answer : Answers, sets : Logins \cup {"keep", "clear"}]
SessionRows == [token : Nat, until : Nat, idle : Nat, max : Nat]

\* Every part of the state has its type.
SessionsTypeOK ==
    /\ clock \in 0..MaxClock /\ jar \in Logins \cup {NoSession}
    /\ asking \in [Actors -> Requests]
    /\ attempt = <<>> \/ attempt \in Logins \X Nat
    /\ signed \in [Logins -> Seq(SessionRows)] /\ \A s \in Logins : Len(signed[s]) <= 1
    /\ grant \in [Logins -> BOOLEAN] /\ born \in [Logins -> Nat]
    /\ account \in [Users -> SUBSET AccountRows] /\ tenants \in [Users -> Nat]
    /\ inserting \in [Users -> Actors \cup {Nobody}]
    /\ ended \subseteq Logins /\ left \subseteq Logins

\* A session whose row was deleted never comes back, whatever requests were under way
\* when it went: they fail, and write nothing.
EndedStaysEnded == \A s \in ended : signed[s] = <<>>

\* A session ends because the user signed out, because the provider no longer knows it,
\* or when the idle time at least has passed since it was made; a provider that cannot
\* be reached ends none.
EndedHasCause == \A s \in ended : s \in left \/ ~grant[s] \/ clock >= born[s] + IdleTime

\* First requests of one user, by sign-ins and by tokens at once, make one account, with
\* all of its rows, and nobody is answered without one.
AccountIsWhole ==
    /\ \A u \in Users : <<account[u], tenants[u]>> \in {<<{}, 0>>, <<AccountRows, 1>>}
    /\ \A a \in Logins \cup Calls \cup Bearers :
          asking[a].answer = "ok" => account[User(a)] = AccountRows

\* Sessions and accounts together (auth.py 217-268, provisioning.py 22-102).
SessionsAreSound == EndedStaysEnded /\ EndedHasCause /\ AccountIsWhole
=============================================================================
