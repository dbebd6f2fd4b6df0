----------------------------- MODULE AccessProofs -----------------------------
(***************************************************************************)
(* Theorems about who gets in and what is shown: sessions and accounts     *)
(* (Sessions), for any requests of any users: that a session that ended    *)
(* stays so, ended for a cause, and that an account is whole; and shared   *)
(* views (SharedViews), for any bundles, projects, links, keys and views,  *)
(* any scenes and any retention.                                           *)
(***************************************************************************)
EXTENDS Sessions, SharedViews, FiniteSetTheorems, TLAPS

(***************************************************************************)
(* Sessions and accounts.                                                  *)
(***************************************************************************)
\* Requests that know their user, or have read the row of their session.
WithUser == {"known", "adding", "added", "found"}
WithRow == {"refreshing", "decoding"} \cup WithUser
Over == {"answered", "done"}

\* Where a request of each sort can be; one that has read a session's row names it.
Fits(a, request) ==
    /\ request.state = "away" => a \in Logins
    /\ request.state \in {"expired", "refreshing", "decoding"} => a \in Calls
    /\ request.state \in WithUser => a \notin Logouts
    /\ request.state = "leaving" => a \in Logouts
    /\ request.state \notin Over => request.answer = "none"
    /\ request.state = "answered" => request.sets # "keep"
    /\ a \in Calls /\ (request.state \in WithRow \cup {"expired"} \/ request.answer = "ok") =>
          request.cookie \in Logins
    /\ request.state = "leaving" => request.cookie \in Logins
Sorted == \A a \in Actors : Fits(a, asking[a])

\* A session has a row only after its sign-in is over, and so has one that a
\* request holds, even when the row is gone by now.
Made ==
    /\ \A s \in Logins : signed[s] # <<>> \/ s \in ended => asking[s].state \in Over
    /\ \A a \in Calls \cup Logouts :
          asking[a].state \in WithRow \cup {"expired", "leaving"} => asking[Holds(a)].state \in Over

\* No row is older than its session's idle time allows, and none was read before it was made.
RowsTimely ==
    \A s \in Logins : signed[s] # <<>> =>
        born[s] <= clock /\ born[s] + IdleTime <= Row(s).idle /\ born[s] + IdleTime <= Row(s).max
ReadsTimely == \A a \in Calls : asking[a].state \in WithRow => born[Holds(a)] <= asking[a].now

\* A session is about to be deleted for a cause that stays one.
ExpiredHasCause ==
    \A a \in Calls : At(a, "expired") => ~grant[Holds(a)] \/ clock >= born[Holds(a)] + IdleTime

\* Who inserts a user is alone, and the account it makes is not there yet.
OneInserts ==
    /\ \A u \in Users : inserting[u] # Nobody =>
          At(inserting[u], "added") /\ User(inserting[u]) = u /\ account[u] = {}
    /\ \A a \in Actors : At(a, "added") => inserting[User(a)] = a

\* Who found its user's account found all of it.
FoundIsWhole == \A a \in Actors : At(a, "found") => account[User(a)] = AccountRows

SessionsInv ==
    /\ SessionsTypeOK /\ Sorted /\ Made /\ RowsTimely /\ ReadsTimely /\ ExpiredHasCause
    /\ OneInserts /\ FoundIsWhole
    /\ EndedStaysEnded /\ EndedHasCause /\ AccountIsWhole

----
(* What a step does to the request that takes it.                          *)

LEMMA SessionsInitInv == SessionsInit => SessionsInv
<1> SUFFICES ASSUME SessionsInit PROVE SessionsInv
  OBVIOUS
<1> USE SessionsAssumption DEF SessionsInit
<1>1. SessionsTypeOK
  BY DEF SessionsTypeOK, Requests, Places, Answers
<1>2. Sorted /\ Made /\ RowsTimely /\ ReadsTimely /\ ExpiredHasCause
  BY DEF Sorted, Fits, Made, RowsTimely, ReadsTimely, ExpiredHasCause, At, WithUser, WithRow, Over, Actors
<1>3. OneInserts /\ FoundIsWhole
  BY DEF OneInserts, FoundIsWhole, At
<1>4. EndedStaysEnded /\ EndedHasCause /\ AccountIsWhole
  BY DEF EndedStaysEnded, EndedHasCause, AccountIsWhole, Actors
<1> QED BY <1>1, <1>2, <1>3, <1>4 DEF SessionsInv

\* The request alone goes on with what it holds, or is answered.
Others(a) == \A b \in Actors : b # a => asking'[b] = asking[b]
Moves(a, state) ==
    /\ asking' \in [Actors -> Requests] /\ Others(a)
    /\ asking'[a].state = state /\ asking'[a].answer = asking[a].answer
    /\ asking'[a].cookie = asking[a].cookie /\ asking'[a].now = asking[a].now
Gives(a, answer) ==
    /\ asking' \in [Actors -> Requests] /\ Others(a)
    /\ asking'[a].state \in Over /\ asking'[a].answer = answer
    /\ asking'[a].state = "answered" => asking'[a].sets # "keep"
    /\ asking'[a].cookie = asking[a].cookie /\ asking'[a].now = asking[a].now

LEMMA BecomesStep ==
    ASSUME SessionsTypeOK, NEW a \in Actors, NEW r \in Requests, asking' = [asking EXCEPT ![a] = r]
    PROVE  asking' \in [Actors -> Requests] /\ Others(a) /\ asking'[a] = r
  BY DEF SessionsTypeOK, Others

LEMMA MovedStep ==
    ASSUME SessionsTypeOK, NEW a \in Actors, NEW state \in Places, Moved(a, state)
    PROVE  Moves(a, state)
  BY DEF SessionsTypeOK, Moved, Moves, Others, Requests

LEMMA GivenStep ==
    ASSUME SessionsTypeOK, NEW a \in Actors, NEW answer \in Answers,
           NEW cookie \in Logins \cup {"keep", "clear"}, Given(a, answer, cookie)
    PROVE  Gives(a, answer)
<1> DEFINE over == IF cookie = "keep" THEN "done" ELSE "answered"
           r == [asking[a] EXCEPT !.state = over, !.answer = answer, !.sets = cookie]
<1>1. asking[a] \in Requests /\ over \in Places /\ over \in Over
  BY DEF SessionsTypeOK, Places, Over
<1>2. r \in Requests /\ r.state = over /\ r.answer = answer /\ r.cookie = asking[a].cookie
      /\ r.now = asking[a].now /\ (over = "answered" => r.sets # "keep")
  BY <1>1 DEF Requests
<1>3. asking' = [asking EXCEPT ![a] = r]
  BY DEF Given, SessionsTypeOK
<1> HIDE DEF r, over
<1> QED BY <1>1, <1>2, <1>3, BecomesStep DEF Gives

\* A live session's row is one.
LEMMA RowType ==
    ASSUME SessionsTypeOK, NEW s \in Logins \cup {NoSession}, Live(s)
    PROVE  s \in Logins /\ Row(s) \in SessionRows /\ signed[s] = <<Row(s)>>
  BY DEF SessionsTypeOK, Live, Row

LEMMA UserType ==
    ASSUME SessionsTypeOK, Sorted, NEW a \in Actors, asking[a].state \in WithUser
    PROVE  User(a) \in Users
  BY SessionsAssumption DEF SessionsTypeOK, Sorted, Fits, User, Holds, Actors, WithRow, WithUser

LEMMA FindUserStep ==
    ASSUME SessionsTypeOK, NEW a \in Actors, FindUser(a)
    PROVE  /\ At(a, "known")
           /\ \/ Moves(a, "adding") /\ account[User(a)] = {} /\ UNCHANGED signed
              \/ Moves(a, "found") /\ account[User(a)] # {}
              \/ Gives(a, "error") /\ UNCHANGED signed
  BY MovedStep, GivenStep DEF FindUser, Places, Answers

LEMMA InsertUserStep ==
    ASSUME SessionsTypeOK, NEW a \in Actors, InsertUser(a)
    PROVE  /\ At(a, "adding")
           /\ \/ Moves(a, "added") /\ account[User(a)] = {} /\ inserting' = [inserting EXCEPT ![User(a)] = a]
              \/ Gives(a, "error") /\ UNCHANGED inserting
  BY MovedStep, GivenStep DEF InsertUser, Places, Answers

LEMMA InsertAccountStep ==
    ASSUME SessionsTypeOK, NEW a \in Actors, InsertAccount(a)
    PROVE  At(a, "added") /\ Moves(a, "found")
  BY MovedStep, GivenStep DEF InsertAccount, Places, Answers

LEMMA InsertFailsStep ==
    ASSUME SessionsTypeOK, NEW a \in Actors, InsertFails(a)
    PROVE  At(a, "added") /\ Gives(a, "error")
  BY MovedStep, GivenStep DEF InsertFails, Places, Answers

LEMMA BeginLoginStep ==
    ASSUME SessionsTypeOK, NEW a \in Actors, BeginLogin(a)
    PROVE  a \in Logins /\ At(a, "new") /\ Moves(a, "away")
  BY MovedStep, GivenStep DEF BeginLogin, Places, Answers

LEMMA ReturnFromLoginStep ==
    ASSUME SessionsTypeOK, NEW a \in Actors, ReturnFromLogin(a)
    PROVE  At(a, "away") /\ (Moves(a, "known") \/ Gives(a, "refused"))
<1>1. CASE asking' = [asking EXCEPT ![a] = [@ EXCEPT !.state = "known", !.token = clock + TokenTime]]
 <2> DEFINE r == [asking[a] EXCEPT !.state = "known", !.token = clock + TokenTime]
 <2>1. asking[a] \in Requests /\ "known" \in Places /\ clock + TokenTime \in Nat
   BY SessionsAssumption DEF SessionsTypeOK, Places
 <2>2. r \in Requests /\ r.state = "known" /\ r.answer = asking[a].answer /\ r.cookie = asking[a].cookie
       /\ r.now = asking[a].now
   BY <2>1 DEF Requests
 <2>3. asking' = [asking EXCEPT ![a] = r]
   BY <1>1 DEF ReturnFromLogin, SessionsTypeOK
 <2> HIDE DEF r
 <2> QED BY <1>1, <2>2, <2>3, BecomesStep DEF ReturnFromLogin, Moves
<1>2. CASE Given(a, "refused", "keep")
  BY <1>2, GivenStep DEF ReturnFromLogin, Answers
<1> QED BY <1>1, <1>2 DEF ReturnFromLogin

LEMMA CreateSessionStep ==
    ASSUME SessionsTypeOK, NEW a \in Actors, CreateSession(a)
    PROVE  a \in Logins /\ At(a, "found") /\ Gives(a, "ok")
  BY MovedStep, GivenStep DEF CreateSession, Places, Answers

LEMMA DeleteSessionStep ==
    ASSUME SessionsTypeOK, NEW a \in Actors, DeleteSession(a)
    PROVE  At(a, "expired") /\ Gives(a, "refused")
  BY MovedStep, GivenStep DEF DeleteSession, Places, Answers

LEMMA RefreshStep ==
    ASSUME SessionsTypeOK, NEW a \in Actors, Refresh(a)
    PROVE  /\ At(a, "refreshing")
           /\ \/ Moves(a, "decoding")
              \/ Moves(a, "expired") /\ ~grant[Holds(a)]
              \/ Gives(a, "unavailable")
<1>1. CASE Renewed(a)
 <2> DEFINE r == [asking[a] EXCEPT !.state = "decoding", !.token = clock + TokenTime, !.fresh = TRUE]
 <2>1. asking[a] \in Requests /\ "decoding" \in Places /\ clock + TokenTime \in Nat
   BY SessionsAssumption DEF SessionsTypeOK, Places
 <2>2. r \in Requests /\ r.state = "decoding" /\ r.answer = asking[a].answer /\ r.cookie = asking[a].cookie
       /\ r.now = asking[a].now
   BY <2>1 DEF Requests
 <2>3. asking' = [asking EXCEPT ![a] = r]
   BY <1>1 DEF Renewed, Refresh, SessionsTypeOK
 <2> HIDE DEF r
 <2> QED BY <1>1, <2>2, <2>3, BecomesStep DEF Renewed, Refresh, Moves
<1>2. CASE ~Renewed(a)
  BY <1>2, MovedStep, GivenStep DEF Refresh, Places, Answers
<1> QED BY <1>1, <1>2

LEMMA DecodeStep ==
    ASSUME SessionsTypeOK, NEW a \in Actors, Decode(a)
    PROVE  At(a, "decoding") /\ (Moves(a, "known") \/ Gives(a, "error"))
  BY MovedStep, GivenStep DEF Decode, Places, Answers

LEMMA SaveSessionStep ==
    ASSUME SessionsTypeOK, NEW a \in Actors, SaveSession(a)
    PROVE  /\ a \in Calls /\ At(a, "found")
           /\ \/ Gives(a, "ok") /\ Live(Holds(a))
              \/ Gives(a, "error") /\ UNCHANGED signed
<1>1. Holds(a) \in Logins \cup {NoSession}
  BY DEF SessionsTypeOK, Requests, Holds
<1>2. CASE Live(Holds(a))
  BY <1>1, <1>2, RowType, GivenStep DEF SaveSession, Answers
<1>3. CASE ~Live(Holds(a))
  BY <1>3, GivenStep DEF SaveSession, Answers
<1> QED BY <1>2, <1>3

LEMMA CallWithTokenStep ==
    ASSUME SessionsTypeOK, NEW a \in Actors, CallWithToken(a)
    PROVE  a \in Bearers /\ At(a, "new") /\ (Moves(a, "known") \/ Gives(a, "refused"))
  BY MovedStep, GivenStep DEF CallWithToken, Places, Answers

LEMMA AnswerTokenStep ==
    ASSUME SessionsTypeOK, NEW a \in Actors, AnswerToken(a)
    PROVE  a \in Bearers /\ At(a, "found") /\ Gives(a, "ok")
  BY MovedStep, GivenStep DEF AnswerToken, Places, Answers

LEMMA ReceiveStep ==
    ASSUME SessionsTypeOK, NEW a \in Actors, Receive(a)
    PROVE  At(a, "answered") /\ Moves(a, "done")
  BY MovedStep, GivenStep DEF Receive, Places, Answers

LEMMA LeaveProviderStep ==
    ASSUME SessionsTypeOK, NEW a \in Actors, LeaveProvider(a)
    PROVE  a \in Logouts /\ At(a, "sent") /\ ((Moves(a, "leaving") /\ Live(Holds(a))) \/ Gives(a, "ok"))
  BY MovedStep, GivenStep DEF LeaveProvider, Places, Answers

LEMMA LeaveStep ==
    ASSUME SessionsTypeOK, NEW a \in Actors, Leave(a)
    PROVE  At(a, "leaving") /\ Gives(a, "ok")
  BY MovedStep, GivenStep DEF Leave, Places, Answers

LEMMA SendStep ==
    ASSUME SessionsTypeOK, NEW a \in Actors, Send(a)
    PROVE  /\ a \in Calls \cup Logouts /\ At(a, "new")
           /\ asking' \in [Actors -> Requests] /\ Others(a)
           /\ asking'[a].state = "sent" /\ asking'[a].answer = asking[a].answer
<1> DEFINE r == [asking[a] EXCEPT !.state = "sent", !.cookie = jar]
<1>1. asking[a] \in Requests /\ "sent" \in Places /\ jar \in Logins \cup {NoSession}
  BY DEF SessionsTypeOK, Places
<1>2. r \in Requests /\ r.state = "sent" /\ r.answer = asking[a].answer
  BY <1>1 DEF Requests
<1>3. asking' = [asking EXCEPT ![a] = r]
  BY DEF Send, SessionsTypeOK
<1> HIDE DEF r
<1> QED BY <1>2, <1>3, BecomesStep DEF Send

LEMMA LookUpStep ==
    ASSUME SessionsTypeOK, NEW a \in Actors, LookUp(a)
    PROVE  /\ a \in Calls /\ At(a, "sent")
           /\ \/ Gives(a, "refused") \/ Gives(a, "forbidden")
              \/ /\ Live(Holds(a)) /\ Moves(a, "expired")
                 /\ Row(Holds(a)).idle <= clock \/ Row(Holds(a)).max <= clock
              \/ /\ Live(Holds(a)) /\ asking' \in [Actors -> Requests] /\ Others(a)
                 /\ asking'[a].state \in {"refreshing", "decoding"} /\ asking'[a].answer = asking[a].answer
                 /\ asking'[a].cookie = asking[a].cookie /\ asking'[a].now = clock
<1>1. Holds(a) \in Logins \cup {NoSession}
  BY DEF SessionsTypeOK, Requests, Holds
<1>2. CASE Live(Holds(a)) /\ asking' = [asking EXCEPT ![a] =
                  [@ EXCEPT !.state = IF Row(Holds(a)).until <= clock + Skew THEN "refreshing" ELSE "decoding",
                            !.now = clock, !.token = Row(Holds(a)).token]]
 <2> DEFINE to == IF Row(Holds(a)).until <= clock + Skew THEN "refreshing" ELSE "decoding"
            r == [asking[a] EXCEPT !.state = to, !.now = clock, !.token = Row(Holds(a)).token]
 <2>1. Row(Holds(a)).token \in Nat /\ clock \in Nat
   BY <1>1, <1>2, RowType, SessionsAssumption DEF SessionRows, SessionsTypeOK
 <2>2. asking[a] \in Requests /\ to \in Places /\ to \in {"refreshing", "decoding"}
   BY DEF SessionsTypeOK, Places
 <2>3. r \in Requests /\ r.state = to /\ r.answer = asking[a].answer /\ r.cookie = asking[a].cookie
       /\ r.now = clock
   BY <2>1, <2>2 DEF Requests
 <2>4. asking' = [asking EXCEPT ![a] = r]
   BY <1>2 DEF SessionsTypeOK
 <2> HIDE DEF r, to
 <2> QED BY <1>2, <2>2, <2>3, <2>4, BecomesStep DEF LookUp
<1>3. CASE Given(a, "refused", "keep") \/ Given(a, "forbidden", "keep")
  BY <1>3, GivenStep DEF LookUp, Answers
<1>4. CASE Live(Holds(a)) /\ (Row(Holds(a)).idle <= clock \/ Row(Holds(a)).max <= clock) /\ Moved(a, "expired")
  BY <1>4, MovedStep DEF LookUp, Places
<1> QED BY <1>2, <1>3, <1>4 DEF LookUp

LEMMA FitsStep ==
    ASSUME Sorted, NEW a \in Actors, Others(a), Fits(a, asking'[a])
    PROVE  Sorted'
  BY DEF Sorted, Others

LEMMA SortedKept ==
    ASSUME SessionsInv, SessionsNext
    PROVE  Sorted'
<1> USE SessionsAssumption DEF SessionsInv, Actors
<1>1. ASSUME NEW a \in Actors, FindUser(a) PROVE Sorted'
 <2>1. Others(a) /\ Fits(a, asking'[a])
   BY <1>1, FindUserStep DEF Moves, Gives, Fits, Sorted, WithUser, WithRow, Over, At
 <2> QED BY <2>1, FitsStep
<1>2. ASSUME NEW a \in Actors, InsertUser(a) PROVE Sorted'
 <2>1. Others(a) /\ Fits(a, asking'[a])
   BY <1>2, InsertUserStep DEF Moves, Gives, Fits, Sorted, WithUser, WithRow, Over, At
 <2> QED BY <2>1, FitsStep
<1>3. ASSUME NEW a \in Actors, InsertAccount(a) PROVE Sorted'
 <2>1. Others(a) /\ Fits(a, asking'[a])
   BY <1>3, InsertAccountStep DEF Moves, Gives, Fits, Sorted, WithUser, WithRow, Over, At
 <2> QED BY <2>1, FitsStep
<1>4. ASSUME NEW a \in Actors, InsertFails(a) PROVE Sorted'
 <2>1. Others(a) /\ Fits(a, asking'[a])
   BY <1>4, InsertFailsStep DEF Moves, Gives, Fits, Sorted, WithUser, WithRow, Over, At
 <2> QED BY <2>1, FitsStep
<1>5. ASSUME NEW a \in Actors, BeginLogin(a) PROVE Sorted'
 <2>1. Others(a) /\ Fits(a, asking'[a])
   BY <1>5, BeginLoginStep DEF Moves, Gives, Fits, Sorted, WithUser, WithRow, Over, At
 <2> QED BY <2>1, FitsStep
<1>6. ASSUME NEW a \in Actors, ReturnFromLogin(a) PROVE Sorted'
 <2>1. Others(a) /\ Fits(a, asking'[a])
   BY <1>6, ReturnFromLoginStep DEF Moves, Gives, Fits, Sorted, WithUser, WithRow, Over, At
 <2> QED BY <2>1, FitsStep
<1>7. ASSUME NEW a \in Actors, CreateSession(a) PROVE Sorted'
 <2>1. Others(a) /\ Fits(a, asking'[a])
   BY <1>7, CreateSessionStep DEF Moves, Gives, Fits, Sorted, WithUser, WithRow, Over, At
 <2> QED BY <2>1, FitsStep
<1>8. ASSUME NEW a \in Actors, Send(a) PROVE Sorted'
 <2>1. Others(a) /\ Fits(a, asking'[a])
   BY <1>8, SendStep DEF Moves, Gives, Fits, Sorted, WithUser, WithRow, Over, At
 <2> QED BY <2>1, FitsStep
<1>9. ASSUME NEW a \in Actors, LookUp(a) PROVE Sorted'
 <2>0. Holds(a) \in Logins \cup {NoSession}
   BY DEF SessionsTypeOK, Requests, Holds
 <2>1. Others(a) /\ Fits(a, asking'[a])
   BY <1>9, LookUpStep, <2>0, RowType DEF Moves, Gives, Fits, Sorted, WithUser, WithRow, Over, At, Holds
 <2> QED BY <2>1, FitsStep
<1>10. ASSUME NEW a \in Actors, DeleteSession(a) PROVE Sorted'
 <2>1. Others(a) /\ Fits(a, asking'[a])
   BY <1>10, DeleteSessionStep DEF Moves, Gives, Fits, Sorted, WithUser, WithRow, Over, At
 <2> QED BY <2>1, FitsStep
<1>11. ASSUME NEW a \in Actors, Refresh(a) PROVE Sorted'
 <2>1. Others(a) /\ Fits(a, asking'[a])
   BY <1>11, RefreshStep DEF Moves, Gives, Fits, Sorted, WithUser, WithRow, Over, At
 <2> QED BY <2>1, FitsStep
<1>12. ASSUME NEW a \in Actors, Decode(a) PROVE Sorted'
 <2>1. Others(a) /\ Fits(a, asking'[a])
   BY <1>12, DecodeStep DEF Moves, Gives, Fits, Sorted, WithUser, WithRow, Over, At
 <2> QED BY <2>1, FitsStep
<1>13. ASSUME NEW a \in Actors, SaveSession(a) PROVE Sorted'
 <2>0. Holds(a) \in Logins \cup {NoSession}
   BY DEF SessionsTypeOK, Requests, Holds
 <2>1. Others(a) /\ Fits(a, asking'[a])
   BY <1>13, SaveSessionStep, <2>0, RowType DEF Moves, Gives, Fits, Sorted, WithUser, WithRow, Over, At, Holds
 <2> QED BY <2>1, FitsStep
<1>14. ASSUME NEW a \in Actors, CallWithToken(a) PROVE Sorted'
 <2>1. Others(a) /\ Fits(a, asking'[a])
   BY <1>14, CallWithTokenStep DEF Moves, Gives, Fits, Sorted, WithUser, WithRow, Over, At
 <2> QED BY <2>1, FitsStep
<1>15. ASSUME NEW a \in Actors, AnswerToken(a) PROVE Sorted'
 <2>1. Others(a) /\ Fits(a, asking'[a])
   BY <1>15, AnswerTokenStep DEF Moves, Gives, Fits, Sorted, WithUser, WithRow, Over, At
 <2> QED BY <2>1, FitsStep
<1>16. ASSUME NEW a \in Actors, Receive(a) PROVE Sorted'
 <2>1. Others(a) /\ Fits(a, asking'[a])
   BY <1>16, ReceiveStep DEF Moves, Gives, Fits, Sorted, WithUser, WithRow, Over, At
 <2> QED BY <2>1, FitsStep
<1>17. ASSUME NEW a \in Actors, LeaveProvider(a) PROVE Sorted'
 <2>0. Holds(a) \in Logins \cup {NoSession}
   BY DEF SessionsTypeOK, Requests, Holds
 <2>1. Others(a) /\ Fits(a, asking'[a])
   BY <1>17, LeaveProviderStep, <2>0, RowType DEF Moves, Gives, Fits, Sorted, WithUser, WithRow, Over, At, Holds
 <2> QED BY <2>1, FitsStep
<1>18. ASSUME NEW a \in Actors, Leave(a) PROVE Sorted'
 <2>1. Others(a) /\ Fits(a, asking'[a])
   BY <1>18, LeaveStep DEF Moves, Gives, Fits, Sorted, WithUser, WithRow, Over, At
 <2> QED BY <2>1, FitsStep
<1>19. ASSUME NEW s \in Logins, ProviderEnds(s) PROVE Sorted'
  BY <1>19 DEF ProviderEnds, Sorted
<1>20. ASSUME Tick PROVE Sorted'
  BY <1>20 DEF Tick, Sorted
<1> QED
  BY <1>1, <1>2, <1>3, <1>4, <1>5, <1>6, <1>7, <1>8, <1>9, <1>10,
     <1>11, <1>12, <1>13, <1>14, <1>15, <1>16, <1>17, <1>18, <1>19, <1>20 DEF SessionsNext

\* A step that writes one session's row, and one that deletes it.
SignedType == signed \in [Logins -> Seq(SessionRows)] /\ \A s \in Logins : Len(signed[s]) <= 1
Writes(s, r) ==
    /\ SignedType' /\ s \in Logins /\ r \in SessionRows
    /\ \A t \in Logins : t # s => signed'[t] = signed[t]
    /\ signed'[s] # <<>> /\ Row(s)' = r
Clears(s) ==
    /\ SignedType' /\ s \in Logins
    /\ \A t \in Logins : t # s => signed'[t] = signed[t]
    /\ signed'[s] = <<>>
    /\ ended' = ended \cup {s}

LEMMA WritesStep ==
    ASSUME SessionsTypeOK, NEW s \in Logins, NEW r \in SessionRows, signed' = [signed EXCEPT ![s] = <<r>>]
    PROVE  Writes(s, r)
<1>1. <<r>> \in Seq(SessionRows) /\ Len(<<r>>) = 1 /\ <<r>> # <<>> /\ <<r>>[1] = r
  OBVIOUS
<1>2. signed'[s] = <<r>> /\ \A t \in Logins : t # s => signed'[t] = signed[t]
  BY DEF SessionsTypeOK
<1>3. SignedType'
  BY <1>1, <1>2 DEF SessionsTypeOK, SignedType
<1> QED BY <1>1, <1>2, <1>3 DEF Writes, Row

LEMMA DeletedStep ==
    ASSUME SessionsTypeOK, NEW s \in Logins, Deleted(s)
    PROVE  Clears(s)
<1>1. signed'[s] = <<>> /\ \A t \in Logins : t # s => signed'[t] = signed[t]
  BY DEF SessionsTypeOK, Deleted
<1>2. SignedType'
  BY <1>1 DEF SessionsTypeOK, Deleted, SignedType
<1> QED BY <1>1, <1>2 DEF Clears, Deleted

LEMMA FindUserRow ==
    ASSUME SessionsTypeOK, NEW a \in Actors, FindUser(a)
    PROVE  \/ UNCHANGED signed
           \/ /\ Live(Holds(a)) /\ Row(Holds(a)) \in SessionRows
              /\ \E r \in SessionRows :
                    Writes(Holds(a), r) /\ r.idle = Row(Holds(a)).idle /\ r.max = Row(Holds(a)).max
<1> SUFFICES ASSUME signed' # signed
             PROVE  /\ Live(Holds(a)) /\ Row(Holds(a)) \in SessionRows
                    /\ \E r \in SessionRows :
                          Writes(Holds(a), r) /\ r.idle = Row(Holds(a)).idle /\ r.max = Row(Holds(a)).max
  OBVIOUS
<1> DEFINE s == Holds(a)
           r == [Row(s) EXCEPT !.token = asking[a].token, !.until = asking[a].token]
<1>1. Live(s) /\ signed' = [signed EXCEPT ![s] = <<r>>]
  BY DEF FindUser
<1>2. s \in Logins /\ Row(s) \in SessionRows /\ asking[a].token \in Nat
  BY <1>1, RowType DEF SessionsTypeOK, Requests, Holds
<1>3. r \in SessionRows /\ r.idle = Row(s).idle /\ r.max = Row(s).max
  BY <1>2 DEF SessionRows
<1> HIDE DEF r
<1> QED BY <1>1, <1>2, <1>3, WritesStep

LEMMA SaveSessionRow ==
    ASSUME SessionsTypeOK, NEW a \in Actors, SaveSession(a)
    PROVE  \/ UNCHANGED signed
           \/ /\ Live(Holds(a)) /\ Row(Holds(a)) \in SessionRows
              /\ \E r \in SessionRows :
                    /\ Writes(Holds(a), r) /\ r.max = Row(Holds(a)).max
                    /\ r.idle = Lesser(asking[a].now + IdleTime, Row(Holds(a)).max)
<1> SUFFICES ASSUME signed' # signed
             PROVE  /\ Live(Holds(a)) /\ Row(Holds(a)) \in SessionRows
                    /\ \E r \in SessionRows :
                          /\ Writes(Holds(a), r) /\ r.max = Row(Holds(a)).max
                          /\ r.idle = Lesser(asking[a].now + IdleTime, Row(Holds(a)).max)
  OBVIOUS
<1> DEFINE s == Holds(a)
           idle == Lesser(asking[a].now + IdleTime, Row(s).max)
           r == [Row(s) EXCEPT !.idle = idle]
<1>1. Live(s) /\ signed' = [signed EXCEPT ![s] = <<r>>]
  BY DEF SaveSession
<1>2. s \in Logins /\ Row(s) \in SessionRows /\ asking[a].now \in Nat
  BY <1>1, RowType DEF SessionsTypeOK, Requests, Holds
<1>3. idle \in Nat
  BY <1>2, SessionsAssumption DEF SessionRows, Lesser
<1> HIDE DEF idle
<1>4. r \in SessionRows /\ r.idle = idle /\ r.max = Row(s).max
  BY <1>2, <1>3 DEF SessionRows
<1> HIDE DEF r
<1> QED BY <1>1, <1>2, <1>4, WritesStep DEF idle

LEMMA CreateSessionRow ==
    ASSUME SessionsTypeOK, NEW a \in Actors, CreateSession(a)
    PROVE  \E r \in SessionRows :
              Writes(a, r) /\ r.idle = clock + IdleTime /\ r.max = clock + LongestTime
<1> DEFINE r == [token |-> asking[a].token, until |-> clock + TokenTime,
                 idle |-> clock + IdleTime, max |-> clock + LongestTime]
<1>1. a \in Logins /\ asking[a].token \in Nat /\ clock \in Nat
  BY SessionsAssumption DEF CreateSession, SessionsTypeOK, Requests
<1>2. r \in SessionRows /\ r.idle = clock + IdleTime /\ r.max = clock + LongestTime
  BY <1>1, SessionsAssumption DEF SessionRows
<1>3. signed' = [signed EXCEPT ![a] = <<r>>]
  BY DEF CreateSession
<1> HIDE DEF r
<1> QED BY <1>1, <1>2, <1>3, WritesStep

\* What goes was held by a request that read its row.
LEMMA EndsOf ==
    ASSUME SessionsTypeOK, Sorted, NEW a \in Actors, DeleteSession(a) \/ Leave(a)
    PROVE  Clears(Holds(a))
<1>1. Holds(a) \in Logins
  BY DEF DeleteSession, Leave, At, Sorted, Fits, Holds
<1> QED BY <1>1, DeletedStep DEF DeleteSession, Leave

LEMMA TypeKept ==
    ASSUME SessionsInv, SessionsNext
    PROVE  SessionsTypeOK'
<1> USE SessionsAssumption DEF SessionsInv
<1>1. ASSUME NEW a \in Actors, FindUser(a) PROVE SessionsTypeOK'
 <2>1. asking' \in [Actors -> Requests]
   BY <1>1, FindUserStep DEF Moves, Gives
 <2>2. SignedType'
   BY <1>1, FindUserRow DEF Writes, Clears, SignedType, SessionsTypeOK
 <2> QED BY <1>1, <2>1, <2>2 DEF FindUser, SignedType, SessionsTypeOK
<1>2. ASSUME NEW a \in Actors, InsertUser(a) PROVE SessionsTypeOK'
 <2>1. asking' \in [Actors -> Requests]
   BY <1>2, InsertUserStep DEF Moves, Gives
 <2>2. inserting' \in [Users -> Actors \cup {Nobody}]
  <3>1. inserting \in [Users -> Actors \cup {Nobody}]
    BY DEF SessionsTypeOK
  <3>2. inserting' = inserting \/ inserting' = [inserting EXCEPT ![User(a)] = a]
    BY <1>2, InsertUserStep
  <3> HIDE DEF Actors
  <3> QED BY <3>1, <3>2
 <2> QED BY <1>2, <2>1, <2>2 DEF InsertUser, SessionsTypeOK
<1>3. ASSUME NEW a \in Actors, InsertAccount(a) PROVE SessionsTypeOK'
 <2>1. asking' \in [Actors -> Requests]
   BY <1>3, InsertAccountStep DEF Moves, Gives
 <2>2. asking[a].state \in WithUser
   BY <1>3 DEF InsertAccount, At, WithUser
 <2>3. User(a) \in Users
   BY <2>2, UserType
 <2> QED BY <1>3, <2>1, <2>3 DEF InsertAccount, SessionsTypeOK
<1>4. ASSUME NEW a \in Actors, InsertFails(a) PROVE SessionsTypeOK'
 <2>1. asking' \in [Actors -> Requests]
   BY <1>4, InsertFailsStep DEF Moves, Gives
 <2>2. asking[a].state \in WithUser
   BY <1>4 DEF InsertFails, At, WithUser
 <2>3. User(a) \in Users
   BY <2>2, UserType
 <2> QED BY <1>4, <2>1, <2>3 DEF InsertFails, SessionsTypeOK
<1>5. ASSUME NEW a \in Actors, BeginLogin(a) PROVE SessionsTypeOK'
 <2>1. asking' \in [Actors -> Requests]
   BY <1>5, BeginLoginStep DEF Moves, Gives
 <2> QED BY SMTT(30), <1>5, <2>1 DEF BeginLogin, SessionsTypeOK
<1>6. ASSUME NEW a \in Actors, ReturnFromLogin(a) PROVE SessionsTypeOK'
 <2>1. asking' \in [Actors -> Requests]
   BY <1>6, ReturnFromLoginStep DEF Moves, Gives
 <2> QED BY <1>6, <2>1 DEF ReturnFromLogin, SessionsTypeOK
<1>7. ASSUME NEW a \in Actors, CreateSession(a) PROVE SessionsTypeOK'
 <2>1. asking' \in [Actors -> Requests]
   BY <1>7, CreateSessionStep DEF Moves, Gives
 <2>2. SignedType'
   BY <1>7, CreateSessionRow DEF Writes, Clears, SignedType, SessionsTypeOK
 <2> QED BY SMTT(30), <1>7, <2>1, <2>2 DEF CreateSession, SignedType, SessionsTypeOK
<1>8. ASSUME NEW a \in Actors, Send(a) PROVE SessionsTypeOK'
 <2>1. asking' \in [Actors -> Requests]
   BY <1>8, SendStep DEF Moves, Gives
 <2> QED BY <1>8, <2>1 DEF Send, SessionsTypeOK
<1>9. ASSUME NEW a \in Actors, LookUp(a) PROVE SessionsTypeOK'
 <2>1. asking' \in [Actors -> Requests]
   BY <1>9, LookUpStep DEF Moves, Gives
 <2> QED BY <1>9, <2>1 DEF LookUp, SessionsTypeOK
<1>10. ASSUME NEW a \in Actors, DeleteSession(a) PROVE SessionsTypeOK'
 <2>1. asking' \in [Actors -> Requests]
   BY <1>10, DeleteSessionStep DEF Moves, Gives
 <2>2. Clears(Holds(a))
   BY <1>10, EndsOf
 <2> QED BY <1>10, <2>1, <2>2 DEF DeleteSession, Clears, SignedType, SessionsTypeOK
<1>11. ASSUME NEW a \in Actors, Refresh(a) PROVE SessionsTypeOK'
 <2>1. asking' \in [Actors -> Requests]
   BY <1>11, RefreshStep DEF Moves, Gives
 <2> QED BY <1>11, <2>1 DEF Refresh, SessionsTypeOK
<1>12. ASSUME NEW a \in Actors, Decode(a) PROVE SessionsTypeOK'
 <2>1. asking' \in [Actors -> Requests]
   BY <1>12, DecodeStep DEF Moves, Gives
 <2> QED BY <1>12, <2>1 DEF Decode, SessionsTypeOK
<1>13. ASSUME NEW a \in Actors, SaveSession(a) PROVE SessionsTypeOK'
 <2>1. asking' \in [Actors -> Requests]
   BY <1>13, SaveSessionStep DEF Moves, Gives
 <2>2. SignedType'
   BY <1>13, SaveSessionRow DEF Writes, Clears, SignedType, SessionsTypeOK
 <2> QED BY <1>13, <2>1, <2>2 DEF SaveSession, SignedType, SessionsTypeOK
<1>14. ASSUME NEW a \in Actors, CallWithToken(a) PROVE SessionsTypeOK'
 <2>1. asking' \in [Actors -> Requests]
   BY <1>14, CallWithTokenStep DEF Moves, Gives
 <2> QED BY <1>14, <2>1 DEF CallWithToken, SessionsTypeOK
<1>15. ASSUME NEW a \in Actors, AnswerToken(a) PROVE SessionsTypeOK'
 <2>1. asking' \in [Actors -> Requests]
   BY <1>15, AnswerTokenStep DEF Moves, Gives
 <2> QED BY <1>15, <2>1 DEF AnswerToken, SessionsTypeOK
<1>16. ASSUME NEW a \in Actors, Receive(a) PROVE SessionsTypeOK'
 <2>1. asking' \in [Actors -> Requests]
   BY <1>16, ReceiveStep DEF Moves
 <2>2. asking[a].sets # "keep"
   BY <1>16 DEF Receive, At, Sorted, Fits
 <2>3. asking[a].sets \in Logins \cup {"clear"}
   BY <2>2 DEF SessionsTypeOK, Requests
 <2> QED BY <1>16, <2>1, <2>3 DEF Receive, SessionsTypeOK
<1>17. ASSUME NEW a \in Actors, LeaveProvider(a) PROVE SessionsTypeOK'
 <2>1. asking' \in [Actors -> Requests]
   BY <1>17, LeaveProviderStep DEF Moves, Gives
 <2> QED BY <1>17, <2>1 DEF LeaveProvider, SessionsTypeOK
<1>18. ASSUME NEW a \in Actors, Leave(a) PROVE SessionsTypeOK'
 <2>1. asking' \in [Actors -> Requests]
   BY <1>18, LeaveStep DEF Moves, Gives
 <2>2. Clears(Holds(a))
   BY <1>18, EndsOf
 <2> QED BY <1>18, <2>1, <2>2 DEF Leave, Clears, SignedType, SessionsTypeOK
<1>19. ASSUME NEW s \in Logins, ProviderEnds(s) PROVE SessionsTypeOK'
  BY <1>19 DEF ProviderEnds, SessionsTypeOK
<1>20. ASSUME Tick PROVE SessionsTypeOK'
  BY <1>20 DEF Tick, SessionsTypeOK
<1> QED
  BY <1>1, <1>2, <1>3, <1>4, <1>5, <1>6, <1>7, <1>8, <1>9, <1>10,
     <1>11, <1>12, <1>13, <1>14, <1>15, <1>16, <1>17, <1>18, <1>19, <1>20 DEF SessionsNext

\* A sign-in that is over stays over.
HoldsRow == WithRow \cup {"expired", "leaving"}

LEMMA MadeStep ==
    ASSUME SessionsTypeOK, Sorted, Made, NEW a \in Actors, Others(a),
           asking[a].state \in Over => asking'[a].state \in Over,
           \A s \in Logins : signed'[s] # <<>> \/ s \in ended' =>
               signed[s] # <<>> \/ s \in ended \/ asking'[s].state \in Over,
           asking'[a].state \in HoldsRow /\ a \in Calls \cup Logouts =>
               asking'[a].cookie \in Logins /\ asking[asking'[a].cookie].state \in Over
    PROVE  Made'
<1>1. \A b \in Actors : asking[b].state \in Over => asking'[b].state \in Over
  BY DEF Others
<1>2. ASSUME NEW s \in Logins, signed'[s] # <<>> \/ s \in ended' PROVE asking'[s].state \in Over
  BY <1>1, <1>2 DEF Made, Actors
<1>3. ASSUME NEW b \in Calls \cup Logouts, asking'[b].state \in HoldsRow
      PROVE  asking'[asking'[b].cookie].state \in Over
 <2>1. CASE b = a
   BY <1>1, <1>3, <2>1 DEF Actors
 <2>2. CASE b # a
  <3>1. asking'[b] = asking[b]
    BY <2>2 DEF Others, Actors
  <3>2. asking[b].cookie \in Logins
    BY <1>3, <3>1, SessionsAssumption DEF Sorted, Fits, Actors, HoldsRow, WithRow, WithUser
  <3>3. asking[asking[b].cookie].state \in Over
    BY <1>3, <3>1 DEF Made, Holds, HoldsRow
  <3> QED BY <1>1, <3>1, <3>2, <3>3 DEF Actors
 <2> QED BY <2>1, <2>2
<1> QED BY <1>2, <1>3 DEF Made, Holds, HoldsRow

\* What a request holds that read a row, from where it already held it.
LEMMA HeldIsMade ==
    ASSUME Sorted, Made, NEW a \in Calls \cup Logouts, asking[a].state \in HoldsRow
    PROVE  Holds(a) \in Logins /\ asking[Holds(a)].state \in Over
  BY SessionsAssumption DEF Sorted, Fits, Made, HoldsRow, WithRow, WithUser, Actors, Holds

LEMMA MadeKept ==
    ASSUME SessionsInv, SessionsNext
    PROVE  Made'
<1> USE SessionsAssumption DEF SessionsInv
<1>1. ASSUME NEW a \in Actors, FindUser(a) PROVE Made'
 <2>1. Others(a) /\ (asking[a].state \in Over => asking'[a].state \in Over)
   BY <1>1, FindUserStep DEF Moves, Gives, Over, At
 <2>2. \A s \in Logins : signed'[s] # <<>> \/ s \in ended' => signed[s] # <<>> \/ s \in ended
   BY <1>1, FindUserRow DEF FindUser, Writes, Live
 <2>3. ASSUME asking'[a].state \in HoldsRow, a \in Calls \cup Logouts
       PROVE  asking'[a].cookie \in Logins /\ asking[asking'[a].cookie].state \in Over
  <3>1. asking[a].state \in HoldsRow /\ asking'[a].cookie = asking[a].cookie
    BY <1>1, <2>3, FindUserStep DEF Moves, Gives, Over, HoldsRow, WithRow, WithUser, At
  <3> QED BY <2>3, <3>1, HeldIsMade DEF Holds
 <2> QED BY <2>1, <2>2, <2>3, MadeStep
<1>2. ASSUME NEW a \in Actors, InsertUser(a) PROVE Made'
 <2>1. Others(a) /\ (asking[a].state \in Over => asking'[a].state \in Over)
   BY <1>2, InsertUserStep DEF Moves, Gives, Over, At
 <2>2. UNCHANGED <<signed, ended>>
   BY <1>2 DEF InsertUser
 <2>3. ASSUME asking'[a].state \in HoldsRow, a \in Calls \cup Logouts
       PROVE  asking'[a].cookie \in Logins /\ asking[asking'[a].cookie].state \in Over
  <3>1. asking[a].state \in HoldsRow /\ asking'[a].cookie = asking[a].cookie
    BY <1>2, <2>3, InsertUserStep DEF Moves, Gives, Over, HoldsRow, WithRow, WithUser, At
  <3> QED BY <2>3, <3>1, HeldIsMade DEF Holds
 <2> QED BY <2>1, <2>2, <2>3, MadeStep
<1>3. ASSUME NEW a \in Actors, InsertAccount(a) PROVE Made'
 <2>1. Others(a) /\ (asking[a].state \in Over => asking'[a].state \in Over)
   BY <1>3, InsertAccountStep DEF Moves, Gives, Over, At
 <2>2. UNCHANGED <<signed, ended>>
   BY <1>3 DEF InsertAccount
 <2>3. ASSUME asking'[a].state \in HoldsRow, a \in Calls \cup Logouts
       PROVE  asking'[a].cookie \in Logins /\ asking[asking'[a].cookie].state \in Over
  <3>1. asking[a].state \in HoldsRow /\ asking'[a].cookie = asking[a].cookie
    BY <1>3, <2>3, InsertAccountStep DEF Moves, Gives, Over, HoldsRow, WithRow, WithUser, At
  <3> QED BY <2>3, <3>1, HeldIsMade DEF Holds
 <2> QED BY <2>1, <2>2, <2>3, MadeStep
<1>4. ASSUME NEW a \in Actors, InsertFails(a) PROVE Made'
 <2>1. Others(a) /\ (asking[a].state \in Over => asking'[a].state \in Over)
   BY <1>4, InsertFailsStep DEF Moves, Gives, Over, At
 <2>2. UNCHANGED <<signed, ended>>
   BY <1>4 DEF InsertFails
 <2>3. ~(asking'[a].state \in HoldsRow /\ a \in Calls \cup Logouts)
   BY <1>4, InsertFailsStep DEF Moves, Gives, Over, HoldsRow, WithRow, WithUser, At
 <2> QED BY <2>1, <2>2, <2>3, MadeStep
<1>5. ASSUME NEW a \in Actors, BeginLogin(a) PROVE Made'
 <2>1. Others(a) /\ (asking[a].state \in Over => asking'[a].state \in Over)
   BY <1>5, BeginLoginStep DEF Moves, Gives, Over, At
 <2>2. UNCHANGED <<signed, ended>>
   BY <1>5 DEF BeginLogin
 <2>3. ~(asking'[a].state \in HoldsRow /\ a \in Calls \cup Logouts)
   BY <1>5, BeginLoginStep DEF Moves, Gives, Over, HoldsRow, WithRow, WithUser, At
 <2> QED BY <2>1, <2>2, <2>3, MadeStep
<1>6. ASSUME NEW a \in Actors, ReturnFromLogin(a) PROVE Made'
 <2>1. Others(a) /\ (asking[a].state \in Over => asking'[a].state \in Over)
   BY <1>6, ReturnFromLoginStep DEF Moves, Gives, Over, At
 <2>2. UNCHANGED <<signed, ended>>
   BY <1>6 DEF ReturnFromLogin
 <2>3. ~(asking'[a].state \in HoldsRow /\ a \in Calls \cup Logouts)
   BY <1>6, ReturnFromLoginStep DEF Sorted, Fits, Moves, Gives, Over, HoldsRow, WithRow, WithUser, At
 <2> QED BY <2>1, <2>2, <2>3, MadeStep
<1>7. ASSUME NEW a \in Actors, CreateSession(a) PROVE Made'
 <2>1. Others(a) /\ (asking[a].state \in Over => asking'[a].state \in Over)
   BY <1>7, CreateSessionStep DEF Moves, Gives, Over, At
 <2>2. \A s \in Logins : signed'[s] # <<>> \/ s \in ended' =>
          signed[s] # <<>> \/ s \in ended \/ asking'[s].state \in Over
  <3>1. asking'[a].state \in Over
    BY <1>7, CreateSessionStep DEF Gives
  <3> QED BY <1>7, <3>1, CreateSessionRow DEF CreateSession, Writes
 <2>3. ~(asking'[a].state \in HoldsRow /\ a \in Calls \cup Logouts)
   BY <1>7, CreateSessionStep DEF Moves, Gives, Over, HoldsRow, WithRow, WithUser, At
 <2> QED BY <2>1, <2>2, <2>3, MadeStep
<1>8. ASSUME NEW a \in Actors, Send(a) PROVE Made'
 <2>1. Others(a) /\ (asking[a].state \in Over => asking'[a].state \in Over)
   BY <1>8, SendStep DEF Moves, Gives, Over, At
 <2>2. UNCHANGED <<signed, ended>>
   BY <1>8 DEF Send
 <2>3. ~(asking'[a].state \in HoldsRow /\ a \in Calls \cup Logouts)
   BY <1>8, SendStep DEF Moves, Gives, Over, HoldsRow, WithRow, WithUser, At
 <2> QED BY <2>1, <2>2, <2>3, MadeStep
<1>9. ASSUME NEW a \in Actors, LookUp(a) PROVE Made'
 <2>1. Others(a) /\ (asking[a].state \in Over => asking'[a].state \in Over)
   BY <1>9, LookUpStep DEF Moves, Gives, Over, At
 <2>2. UNCHANGED <<signed, ended>>
   BY <1>9 DEF LookUp
 <2>3. ASSUME asking'[a].state \in HoldsRow, a \in Calls \cup Logouts
       PROVE  asking'[a].cookie \in Logins /\ asking[asking'[a].cookie].state \in Over
  <3>1. Live(Holds(a)) /\ asking'[a].cookie = Holds(a) /\ Holds(a) \in Logins \cup {NoSession}
    BY <1>9, <2>3, LookUpStep DEF Moves, Gives, Over, HoldsRow, WithRow, WithUser, Holds, SessionsTypeOK, Requests
  <3> QED BY <3>1, RowType DEF Made, Live
 <2> QED BY <2>1, <2>2, <2>3, MadeStep
<1>10. ASSUME NEW a \in Actors, DeleteSession(a) PROVE Made'
 <2>1. Others(a) /\ (asking[a].state \in Over => asking'[a].state \in Over)
   BY <1>10, DeleteSessionStep DEF Moves, Gives, Over, At
 <2>2. \A s \in Logins : signed'[s] # <<>> \/ s \in ended' =>
          signed[s] # <<>> \/ s \in ended \/ asking'[s].state \in Over
  <3>1. Clears(Holds(a))
    BY <1>10, EndsOf
  <3>2. asking[Holds(a)].state \in Over /\ Holds(a) \in Logins
    BY <1>10, <3>1, DeleteSessionStep DEF Clears, Made, Sorted, Fits, At
  <3>3. asking'[Holds(a)].state \in Over
    BY <2>1, <3>2 DEF Others, Actors
  <3> QED BY <3>1, <3>3 DEF Clears
 <2>3. ~(asking'[a].state \in HoldsRow /\ a \in Calls \cup Logouts)
   BY <1>10, DeleteSessionStep DEF Moves, Gives, Over, HoldsRow, WithRow, WithUser, At
 <2> QED BY <2>1, <2>2, <2>3, MadeStep
<1>11. ASSUME NEW a \in Actors, Refresh(a) PROVE Made'
 <2>1. Others(a) /\ (asking[a].state \in Over => asking'[a].state \in Over)
   BY <1>11, RefreshStep DEF Moves, Gives, Over, At
 <2>2. UNCHANGED <<signed, ended>>
   BY <1>11 DEF Refresh
 <2>3. ASSUME asking'[a].state \in HoldsRow, a \in Calls \cup Logouts
       PROVE  asking'[a].cookie \in Logins /\ asking[asking'[a].cookie].state \in Over
  <3>1. asking[a].state \in HoldsRow /\ asking'[a].cookie = asking[a].cookie
    BY <1>11, <2>3, RefreshStep DEF Moves, Gives, Over, HoldsRow, WithRow, WithUser, At
  <3> QED BY <2>3, <3>1, HeldIsMade DEF Holds
 <2> QED BY <2>1, <2>2, <2>3, MadeStep
<1>12. ASSUME NEW a \in Actors, Decode(a) PROVE Made'
 <2>1. Others(a) /\ (asking[a].state \in Over => asking'[a].state \in Over)
   BY <1>12, DecodeStep DEF Moves, Gives, Over, At
 <2>2. UNCHANGED <<signed, ended>>
   BY <1>12 DEF Decode
 <2>3. ASSUME asking'[a].state \in HoldsRow, a \in Calls \cup Logouts
       PROVE  asking'[a].cookie \in Logins /\ asking[asking'[a].cookie].state \in Over
  <3>1. asking[a].state \in HoldsRow /\ asking'[a].cookie = asking[a].cookie
    BY <1>12, <2>3, DecodeStep DEF Moves, Gives, Over, HoldsRow, WithRow, WithUser, At
  <3> QED BY <2>3, <3>1, HeldIsMade DEF Holds
 <2> QED BY <2>1, <2>2, <2>3, MadeStep
<1>13. ASSUME NEW a \in Actors, SaveSession(a) PROVE Made'
 <2>1. Others(a) /\ (asking[a].state \in Over => asking'[a].state \in Over)
   BY <1>13, SaveSessionStep DEF Moves, Gives, Over, At
 <2>2. \A s \in Logins : signed'[s] # <<>> \/ s \in ended' => signed[s] # <<>> \/ s \in ended
   BY <1>13, SaveSessionRow DEF SaveSession, Writes, Live
 <2>3. ~(asking'[a].state \in HoldsRow /\ a \in Calls \cup Logouts)
   BY <1>13, SaveSessionStep DEF Moves, Gives, Over, HoldsRow, WithRow, WithUser, At
 <2> QED BY <2>1, <2>2, <2>3, MadeStep
<1>14. ASSUME NEW a \in Actors, CallWithToken(a) PROVE Made'
 <2>1. Others(a) /\ (asking[a].state \in Over => asking'[a].state \in Over)
   BY <1>14, CallWithTokenStep DEF Moves, Gives, Over, At
 <2>2. UNCHANGED <<signed, ended>>
   BY <1>14 DEF CallWithToken
 <2>3. ~(asking'[a].state \in HoldsRow /\ a \in Calls \cup Logouts)
   BY <1>14, CallWithTokenStep DEF Moves, Gives, Over, HoldsRow, WithRow, WithUser, At
 <2> QED BY <2>1, <2>2, <2>3, MadeStep
<1>15. ASSUME NEW a \in Actors, AnswerToken(a) PROVE Made'
 <2>1. Others(a) /\ (asking[a].state \in Over => asking'[a].state \in Over)
   BY <1>15, AnswerTokenStep DEF Moves, Gives, Over, At
 <2>2. UNCHANGED <<signed, ended>>
   BY <1>15 DEF AnswerToken
 <2>3. ~(asking'[a].state \in HoldsRow /\ a \in Calls \cup Logouts)
   BY <1>15, AnswerTokenStep DEF Moves, Gives, Over, HoldsRow, WithRow, WithUser, At
 <2> QED BY <2>1, <2>2, <2>3, MadeStep
<1>16. ASSUME NEW a \in Actors, Receive(a) PROVE Made'
 <2>1. Others(a) /\ (asking[a].state \in Over => asking'[a].state \in Over)
   BY <1>16, ReceiveStep DEF Moves, Gives, Over, At
 <2>2. UNCHANGED <<signed, ended>>
   BY <1>16 DEF Receive
 <2>3. ~(asking'[a].state \in HoldsRow /\ a \in Calls \cup Logouts)
   BY <1>16, ReceiveStep DEF Moves, Gives, Over, HoldsRow, WithRow, WithUser, At
 <2> QED BY <2>1, <2>2, <2>3, MadeStep
<1>17. ASSUME NEW a \in Actors, LeaveProvider(a) PROVE Made'
 <2>1. Others(a) /\ (asking[a].state \in Over => asking'[a].state \in Over)
   BY <1>17, LeaveProviderStep DEF Moves, Gives, Over, At
 <2>2. UNCHANGED <<signed, ended>>
   BY <1>17 DEF LeaveProvider
 <2>3. ASSUME asking'[a].state \in HoldsRow, a \in Calls \cup Logouts
       PROVE  asking'[a].cookie \in Logins /\ asking[asking'[a].cookie].state \in Over
  <3>1. Live(Holds(a)) /\ asking'[a].cookie = Holds(a) /\ Holds(a) \in Logins \cup {NoSession}
    BY <1>17, <2>3, LeaveProviderStep DEF Moves, Gives, Over, HoldsRow, WithRow, WithUser, Holds, SessionsTypeOK, Requests
  <3> QED BY <3>1, RowType DEF Made, Live
 <2> QED BY <2>1, <2>2, <2>3, MadeStep
<1>18. ASSUME NEW a \in Actors, Leave(a) PROVE Made'
 <2>1. Others(a) /\ (asking[a].state \in Over => asking'[a].state \in Over)
   BY <1>18, LeaveStep DEF Moves, Gives, Over, At
 <2>2. \A s \in Logins : signed'[s] # <<>> \/ s \in ended' =>
          signed[s] # <<>> \/ s \in ended \/ asking'[s].state \in Over
  <3>1. Clears(Holds(a))
    BY <1>18, EndsOf
  <3>2. asking[Holds(a)].state \in Over /\ Holds(a) \in Logins
    BY <1>18, <3>1, LeaveStep DEF Clears, Made, Sorted, Fits, At
  <3>3. asking'[Holds(a)].state \in Over
    BY <2>1, <3>2 DEF Others, Actors
  <3> QED BY <3>1, <3>3 DEF Clears
 <2>3. ~(asking'[a].state \in HoldsRow /\ a \in Calls \cup Logouts)
   BY <1>18, LeaveStep DEF Moves, Gives, Over, HoldsRow, WithRow, WithUser, At
 <2> QED BY <2>1, <2>2, <2>3, MadeStep
<1>19. ASSUME NEW s \in Logins, ProviderEnds(s) PROVE Made'
  BY <1>19 DEF ProviderEnds, Made, Holds
<1>20. ASSUME Tick PROVE Made'
  BY <1>20 DEF Tick, Made, Holds
<1> QED
  BY <1>1, <1>2, <1>3, <1>4, <1>5, <1>6, <1>7, <1>8, <1>9, <1>10,
     <1>11, <1>12, <1>13, <1>14, <1>15, <1>16, <1>17, <1>18, <1>19, <1>20 DEF SessionsNext

\* A row that is written keeps its times when they are not too early.
LEMMA RowWritten ==
    ASSUME RowsTimely, UNCHANGED <<born, clock>>, NEW s, NEW r, Writes(s, r),
           born[s] <= clock, born[s] + IdleTime <= r.idle, born[s] + IdleTime <= r.max
    PROVE  RowsTimely'
<1> SUFFICES ASSUME NEW t \in Logins, signed'[t] # <<>>
             PROVE  born[t] <= clock /\ born[t] + IdleTime <= Row(t)'.idle /\ born[t] + IdleTime <= Row(t)'.max
  BY DEF RowsTimely
<1>1. CASE t = s
  BY <1>1 DEF Writes
<1>2. CASE t # s
 <2>1. signed'[t] = signed[t]
   BY <1>2 DEF Writes
 <2> QED BY <2>1 DEF RowsTimely, Row
<1> QED BY <1>1, <1>2

LEMMA RowsTimelyKept ==
    ASSUME SessionsInv, SessionsNext
    PROVE  RowsTimely'
<1> USE SessionsAssumption DEF SessionsInv
<1>1. ASSUME NEW a \in Actors, FindUser(a) PROVE RowsTimely'
 <2>1. UNCHANGED <<born, clock>>
   BY <1>1 DEF FindUser
 <2>2. CASE UNCHANGED signed
   BY <2>1, <2>2 DEF RowsTimely, Row
 <2>3. CASE signed' # signed
  <3>1. PICK r \in SessionRows :
           Writes(Holds(a), r) /\ r.idle = Row(Holds(a)).idle /\ r.max = Row(Holds(a)).max
    BY <1>1, <2>3, FindUserRow
  <3>2. Live(Holds(a)) /\ Holds(a) \in Logins
    BY <1>1, <2>3, <3>1, FindUserRow DEF Writes
  <3>3. born[Holds(a)] <= clock /\ born[Holds(a)] + IdleTime <= r.idle /\ born[Holds(a)] + IdleTime <= r.max
    BY <3>1, <3>2 DEF RowsTimely, Live
  <3> QED BY <2>1, <3>1, <3>3, RowWritten
 <2> QED BY <2>2, <2>3
<1>2. ASSUME NEW a \in Actors, SaveSession(a) PROVE RowsTimely'
 <2>1. UNCHANGED <<born, clock>> /\ a \in Calls /\ asking[a].state \in WithRow
   BY <1>2 DEF SaveSession, WithRow, WithUser, At
 <2>2. born[Holds(a)] <= asking[a].now
   BY <2>1 DEF ReadsTimely
 <2>3. CASE UNCHANGED signed
   BY <2>1, <2>3 DEF RowsTimely, Row
 <2>4. CASE signed' # signed
  <3>1. Live(Holds(a)) /\ Holds(a) \in Logins
    BY <1>2, <2>4, SaveSessionRow DEF Writes
  <3>2. PICK r \in SessionRows :
           /\ Writes(Holds(a), r) /\ r.max = Row(Holds(a)).max
           /\ r.idle = Lesser(asking[a].now + IdleTime, Row(Holds(a)).max)
    BY <1>2, <2>4, SaveSessionRow
  <3>3. born[Holds(a)] \in Nat /\ asking[a].now \in Nat /\ Row(Holds(a)) \in SessionRows
    BY <1>2, <2>4, <3>1, SaveSessionRow DEF SessionsTypeOK, Requests
  <3>4. born[Holds(a)] + IdleTime <= r.max /\ born[Holds(a)] <= clock
    BY <3>1, <3>2 DEF RowsTimely, Live
  <3>5. born[Holds(a)] + IdleTime <= r.idle
    BY <2>2, <3>2, <3>3, <3>4 DEF Lesser, SessionRows
  <3> QED BY <2>1, <3>2, <3>4, <3>5, RowWritten
 <2> QED BY <2>3, <2>4
<1>3. ASSUME NEW a \in Actors, CreateSession(a) PROVE RowsTimely'
 <2>1. PICK r \in SessionRows : Writes(a, r) /\ r.idle = clock + IdleTime /\ r.max = clock + LongestTime
   BY <1>3, CreateSessionRow
 <2>2. a \in Logins /\ UNCHANGED clock /\ clock \in Nat /\ born' = [born EXCEPT ![a] = clock]
   BY <1>3 DEF CreateSession, SessionsTypeOK
 <2>3. born'[a] = clock /\ \A s \in Logins : s # a => born'[s] = born[s]
   BY <2>2 DEF SessionsTypeOK
 <2>4. clock + IdleTime <= r.idle /\ clock + IdleTime <= r.max
   BY <2>1, <2>2
 <2> QED BY <2>1, <2>2, <2>3, <2>4 DEF RowsTimely, Writes, Row
<1>4. ASSUME NEW a \in Actors, DeleteSession(a) \/ Leave(a) PROVE RowsTimely'
 <2>1. Clears(Holds(a)) /\ UNCHANGED <<born, clock>>
   BY <1>4, EndsOf DEF DeleteSession, Leave
 <2> QED BY <2>1 DEF RowsTimely, Clears, Row
<1>5. ASSUME Tick PROVE RowsTimely'
  BY <1>5 DEF Tick, RowsTimely, Row, SessionsTypeOK
<1>6. ASSUME UNCHANGED <<signed, born, clock>> PROVE RowsTimely'
  BY <1>6 DEF RowsTimely, Row
<1> QED
  BY <1>1, <1>2, <1>3, <1>4, <1>5, <1>6
  DEF SessionsNext, InsertUser, InsertAccount, InsertFails, BeginLogin, ReturnFromLogin, Send, LookUp,
      Refresh, Decode, CallWithToken, AnswerToken, Receive, LeaveProvider, ProviderEnds

LEMMA ReadsStep ==
    ASSUME Sorted, Made, ReadsTimely, NEW a \in Actors, Others(a),
           \A s \in Logins : asking[s].state \in Over => born'[s] = born[s],
           asking'[a].state \in WithRow /\ a \in Calls => born'[asking'[a].cookie] <= asking'[a].now
    PROVE  ReadsTimely'
<1> SUFFICES ASSUME NEW b \in Calls, asking'[b].state \in WithRow, b # a
             PROVE  born'[asking'[b].cookie] <= asking'[b].now
  BY DEF ReadsTimely, Holds
<1>1. asking'[b] = asking[b]
  BY DEF Others, Actors
<1>2. Holds(b) \in Logins /\ asking[Holds(b)].state \in Over
  BY <1>1, HeldIsMade DEF HoldsRow, Actors
<1> QED BY <1>1, <1>2 DEF ReadsTimely, Holds

LEMMA ReadsTimelyKept ==
    ASSUME SessionsInv, SessionsNext
    PROVE  ReadsTimely'
<1> USE SessionsAssumption DEF SessionsInv
<1>1. ASSUME NEW a \in Actors, FindUser(a) PROVE ReadsTimely'
 <2>1. Others(a)
   BY <1>1, FindUserStep DEF Moves, Gives
 <2>2. UNCHANGED born
   BY <1>1 DEF FindUser
 <2>3. ASSUME asking'[a].state \in WithRow, a \in Calls PROVE born[asking'[a].cookie] <= asking'[a].now
  <3>1. asking[a].state \in WithRow /\ asking'[a].cookie = asking[a].cookie /\ asking'[a].now = asking[a].now
    BY <1>1, <2>3, FindUserStep DEF Moves, Gives, Over, WithRow, WithUser, At
  <3> QED BY <2>3, <3>1 DEF ReadsTimely, Holds
 <2> QED BY <2>1, <2>2, <2>3, ReadsStep
<1>2. ASSUME NEW a \in Actors, InsertUser(a) PROVE ReadsTimely'
 <2>1. Others(a)
   BY <1>2, InsertUserStep DEF Moves, Gives
 <2>2. UNCHANGED born
   BY <1>2 DEF InsertUser
 <2>3. ASSUME asking'[a].state \in WithRow, a \in Calls PROVE born[asking'[a].cookie] <= asking'[a].now
  <3>1. asking[a].state \in WithRow /\ asking'[a].cookie = asking[a].cookie /\ asking'[a].now = asking[a].now
    BY <1>2, <2>3, InsertUserStep DEF Moves, Gives, Over, WithRow, WithUser, At
  <3> QED BY <2>3, <3>1 DEF ReadsTimely, Holds
 <2> QED BY <2>1, <2>2, <2>3, ReadsStep
<1>3. ASSUME NEW a \in Actors, InsertAccount(a) PROVE ReadsTimely'
 <2>1. Others(a)
   BY <1>3, InsertAccountStep DEF Moves, Gives
 <2>2. UNCHANGED born
   BY <1>3 DEF InsertAccount
 <2>3. ASSUME asking'[a].state \in WithRow, a \in Calls PROVE born[asking'[a].cookie] <= asking'[a].now
  <3>1. asking[a].state \in WithRow /\ asking'[a].cookie = asking[a].cookie /\ asking'[a].now = asking[a].now
    BY <1>3, <2>3, InsertAccountStep DEF Moves, Gives, Over, WithRow, WithUser, At
  <3> QED BY <2>3, <3>1 DEF ReadsTimely, Holds
 <2> QED BY <2>1, <2>2, <2>3, ReadsStep
<1>4. ASSUME NEW a \in Actors, InsertFails(a) PROVE ReadsTimely'
 <2>1. Others(a)
   BY <1>4, InsertFailsStep DEF Moves, Gives
 <2>2. UNCHANGED born
   BY <1>4 DEF InsertFails
 <2>3. ~(asking'[a].state \in WithRow /\ a \in Calls)
   BY <1>4, InsertFailsStep DEF Moves, Gives, Over, WithRow, WithUser, At
 <2> QED BY <2>1, <2>2, <2>3, ReadsStep
<1>5. ASSUME NEW a \in Actors, BeginLogin(a) PROVE ReadsTimely'
 <2>1. Others(a)
   BY <1>5, BeginLoginStep DEF Moves, Gives
 <2>2. UNCHANGED born
   BY <1>5 DEF BeginLogin
 <2>3. ~(asking'[a].state \in WithRow /\ a \in Calls)
   BY <1>5, BeginLoginStep DEF Moves, Gives, Over, WithRow, WithUser, At
 <2> QED BY <2>1, <2>2, <2>3, ReadsStep
<1>6. ASSUME NEW a \in Actors, ReturnFromLogin(a) PROVE ReadsTimely'
 <2>1. Others(a)
   BY <1>6, ReturnFromLoginStep DEF Moves, Gives
 <2>2. UNCHANGED born
   BY <1>6 DEF ReturnFromLogin
 <2>3. ~(asking'[a].state \in WithRow /\ a \in Calls)
   BY <1>6, ReturnFromLoginStep DEF Moves, Gives, Over, WithRow, WithUser, At, Sorted, Fits
 <2> QED BY <2>1, <2>2, <2>3, ReadsStep
<1>7. ASSUME NEW a \in Actors, CreateSession(a) PROVE ReadsTimely'
 <2>1. Others(a)
   BY <1>7, CreateSessionStep DEF Moves, Gives
 <2>2. \A s \in Logins : asking[s].state \in Over => born'[s] = born[s]
   BY <1>7 DEF CreateSession, At, Over, SessionsTypeOK
 <2>3. ~(asking'[a].state \in WithRow /\ a \in Calls)
   BY <1>7, CreateSessionStep DEF Moves, Gives, Over, WithRow, WithUser, At
 <2> QED BY <2>1, <2>2, <2>3, ReadsStep
<1>8. ASSUME NEW a \in Actors, Send(a) PROVE ReadsTimely'
 <2>1. Others(a)
   BY <1>8, SendStep DEF Moves, Gives
 <2>2. UNCHANGED born
   BY <1>8 DEF Send
 <2>3. ~(asking'[a].state \in WithRow /\ a \in Calls)
   BY <1>8, SendStep DEF Moves, Gives, Over, WithRow, WithUser, At
 <2> QED BY <2>1, <2>2, <2>3, ReadsStep
<1>9. ASSUME NEW a \in Actors, LookUp(a) PROVE ReadsTimely'
 <2>1. Others(a)
   BY <1>9, LookUpStep DEF Moves, Gives
 <2>2. UNCHANGED born
   BY <1>9 DEF LookUp
 <2>3. ASSUME asking'[a].state \in WithRow, a \in Calls PROVE born[asking'[a].cookie] <= asking'[a].now
  <3>1. Live(Holds(a)) /\ Holds(a) \in Logins \cup {NoSession}
        /\ asking'[a].cookie = Holds(a) /\ asking'[a].now = clock
    BY <1>9, <2>3, LookUpStep DEF Moves, Gives, Over, WithRow, WithUser, Holds, SessionsTypeOK, Requests
  <3> QED BY <3>1, RowType DEF RowsTimely, Live
 <2> QED BY <2>1, <2>2, <2>3, ReadsStep
<1>10. ASSUME NEW a \in Actors, DeleteSession(a) PROVE ReadsTimely'
 <2>1. Others(a)
   BY <1>10, DeleteSessionStep DEF Moves, Gives
 <2>2. UNCHANGED born
   BY <1>10 DEF DeleteSession
 <2>3. ~(asking'[a].state \in WithRow /\ a \in Calls)
   BY <1>10, DeleteSessionStep DEF Moves, Gives, Over, WithRow, WithUser, At
 <2> QED BY <2>1, <2>2, <2>3, ReadsStep
<1>11. ASSUME NEW a \in Actors, Refresh(a) PROVE ReadsTimely'
 <2>1. Others(a)
   BY <1>11, RefreshStep DEF Moves, Gives
 <2>2. UNCHANGED born
   BY <1>11 DEF Refresh
 <2>3. ASSUME asking'[a].state \in WithRow, a \in Calls PROVE born[asking'[a].cookie] <= asking'[a].now
  <3>1. asking[a].state \in WithRow /\ asking'[a].cookie = asking[a].cookie /\ asking'[a].now = asking[a].now
    BY <1>11, <2>3, RefreshStep DEF Moves, Gives, Over, WithRow, WithUser, At
  <3> QED BY <2>3, <3>1 DEF ReadsTimely, Holds
 <2> QED BY <2>1, <2>2, <2>3, ReadsStep
<1>12. ASSUME NEW a \in Actors, Decode(a) PROVE ReadsTimely'
 <2>1. Others(a)
   BY <1>12, DecodeStep DEF Moves, Gives
 <2>2. UNCHANGED born
   BY <1>12 DEF Decode
 <2>3. ASSUME asking'[a].state \in WithRow, a \in Calls PROVE born[asking'[a].cookie] <= asking'[a].now
  <3>1. asking[a].state \in WithRow /\ asking'[a].cookie = asking[a].cookie /\ asking'[a].now = asking[a].now
    BY <1>12, <2>3, DecodeStep DEF Moves, Gives, Over, WithRow, WithUser, At
  <3> QED BY <2>3, <3>1 DEF ReadsTimely, Holds
 <2> QED BY <2>1, <2>2, <2>3, ReadsStep
<1>13. ASSUME NEW a \in Actors, SaveSession(a) PROVE ReadsTimely'
 <2>1. Others(a)
   BY <1>13, SaveSessionStep DEF Moves, Gives
 <2>2. UNCHANGED born
   BY <1>13 DEF SaveSession
 <2>3. ~(asking'[a].state \in WithRow /\ a \in Calls)
   BY <1>13, SaveSessionStep DEF Moves, Gives, Over, WithRow, WithUser, At
 <2> QED BY <2>1, <2>2, <2>3, ReadsStep
<1>14. ASSUME NEW a \in Actors, CallWithToken(a) PROVE ReadsTimely'
 <2>1. Others(a)
   BY <1>14, CallWithTokenStep DEF Moves, Gives
 <2>2. UNCHANGED born
   BY <1>14 DEF CallWithToken
 <2>3. ~(asking'[a].state \in WithRow /\ a \in Calls)
   BY <1>14, CallWithTokenStep DEF Moves, Gives, Over, WithRow, WithUser, At
 <2> QED BY <2>1, <2>2, <2>3, ReadsStep
<1>15. ASSUME NEW a \in Actors, AnswerToken(a) PROVE ReadsTimely'
 <2>1. Others(a)
   BY <1>15, AnswerTokenStep DEF Moves, Gives
 <2>2. UNCHANGED born
   BY <1>15 DEF AnswerToken
 <2>3. ~(asking'[a].state \in WithRow /\ a \in Calls)
   BY <1>15, AnswerTokenStep DEF Moves, Gives, Over, WithRow, WithUser, At
 <2> QED BY <2>1, <2>2, <2>3, ReadsStep
<1>16. ASSUME NEW a \in Actors, Receive(a) PROVE ReadsTimely'
 <2>1. Others(a)
   BY <1>16, ReceiveStep DEF Moves, Gives
 <2>2. UNCHANGED born
   BY <1>16 DEF Receive
 <2>3. ~(asking'[a].state \in WithRow /\ a \in Calls)
   BY <1>16, ReceiveStep DEF Moves, Gives, Over, WithRow, WithUser, At
 <2> QED BY <2>1, <2>2, <2>3, ReadsStep
<1>17. ASSUME NEW a \in Actors, LeaveProvider(a) PROVE ReadsTimely'
 <2>1. Others(a)
   BY <1>17, LeaveProviderStep DEF Moves, Gives
 <2>2. UNCHANGED born
   BY <1>17 DEF LeaveProvider
 <2>3. ~(asking'[a].state \in WithRow /\ a \in Calls)
   BY <1>17, LeaveProviderStep DEF Moves, Gives, Over, WithRow, WithUser, At
 <2> QED BY <2>1, <2>2, <2>3, ReadsStep
<1>18. ASSUME NEW a \in Actors, Leave(a) PROVE ReadsTimely'
 <2>1. Others(a)
   BY <1>18, LeaveStep DEF Moves, Gives
 <2>2. UNCHANGED born
   BY <1>18 DEF Leave
 <2>3. ~(asking'[a].state \in WithRow /\ a \in Calls)
   BY <1>18, LeaveStep DEF Moves, Gives, Over, WithRow, WithUser, At
 <2> QED BY <2>1, <2>2, <2>3, ReadsStep
<1>19. ASSUME NEW s \in Logins, ProviderEnds(s) PROVE ReadsTimely'
  BY <1>19 DEF ProviderEnds, ReadsTimely, Holds
<1>20. ASSUME Tick PROVE ReadsTimely'
  BY <1>20 DEF Tick, ReadsTimely, Holds
<1> QED
  BY <1>1, <1>2, <1>3, <1>4, <1>5, <1>6, <1>7, <1>8, <1>9, <1>10,
     <1>11, <1>12, <1>13, <1>14, <1>15, <1>16, <1>17, <1>18, <1>19, <1>20 DEF SessionsNext

LEMMA ExpiredStep ==
    ASSUME Sorted, Made, ExpiredHasCause, NEW a \in Actors, Others(a), UNCHANGED clock,
           \A s \in Logins : asking[s].state \in Over => born'[s] = born[s] /\ (grant'[s] => grant[s]),
           asking'[a].state = "expired" /\ a \in Calls =>
               ~grant'[asking'[a].cookie] \/ clock >= born'[asking'[a].cookie] + IdleTime
    PROVE  ExpiredHasCause'
<1> SUFFICES ASSUME NEW b \in Calls, asking'[b].state = "expired", b # a
             PROVE  ~grant'[asking'[b].cookie] \/ clock >= born'[asking'[b].cookie] + IdleTime
  BY DEF ExpiredHasCause, Holds, At
<1>1. asking'[b] = asking[b]
  BY DEF Others, Actors
<1>2. Holds(b) \in Logins /\ asking[Holds(b)].state \in Over
  BY <1>1, HeldIsMade DEF HoldsRow, Actors
<1> QED BY <1>1, <1>2 DEF ExpiredHasCause, Holds, At

LEMMA ExpiredHasCauseKept ==
    ASSUME SessionsInv, SessionsNext
    PROVE  ExpiredHasCause'
<1> USE SessionsAssumption DEF SessionsInv
<1>1. ASSUME NEW a \in Actors, FindUser(a) PROVE ExpiredHasCause'
 <2>1. Others(a) /\ UNCHANGED clock
   BY <1>1, FindUserStep DEF FindUser, Moves, Gives
 <2>2. UNCHANGED <<born, grant>>
   BY <1>1 DEF FindUser
 <2>3. asking'[a].state # "expired"
   BY <1>1, FindUserStep DEF Moves, Gives, Over
 <2> QED BY <2>1, <2>2, <2>3, ExpiredStep
<1>2. ASSUME NEW a \in Actors, InsertUser(a) PROVE ExpiredHasCause'
 <2>1. Others(a) /\ UNCHANGED clock
   BY <1>2, InsertUserStep DEF InsertUser, Moves, Gives
 <2>2. UNCHANGED <<born, grant>>
   BY <1>2 DEF InsertUser
 <2>3. asking'[a].state # "expired"
   BY <1>2, InsertUserStep DEF Moves, Gives, Over
 <2> QED BY <2>1, <2>2, <2>3, ExpiredStep
<1>3. ASSUME NEW a \in Actors, InsertAccount(a) PROVE ExpiredHasCause'
 <2>1. Others(a) /\ UNCHANGED clock
   BY <1>3, InsertAccountStep DEF InsertAccount, Moves, Gives
 <2>2. UNCHANGED <<born, grant>>
   BY <1>3 DEF InsertAccount
 <2>3. asking'[a].state # "expired"
   BY <1>3, InsertAccountStep DEF Moves, Gives, Over
 <2> QED BY <2>1, <2>2, <2>3, ExpiredStep
<1>4. ASSUME NEW a \in Actors, InsertFails(a) PROVE ExpiredHasCause'
 <2>1. Others(a) /\ UNCHANGED clock
   BY <1>4, InsertFailsStep DEF InsertFails, Moves, Gives
 <2>2. UNCHANGED <<born, grant>>
   BY <1>4 DEF InsertFails
 <2>3. asking'[a].state # "expired"
   BY <1>4, InsertFailsStep DEF Moves, Gives, Over
 <2> QED BY <2>1, <2>2, <2>3, ExpiredStep
<1>5. ASSUME NEW a \in Actors, BeginLogin(a) PROVE ExpiredHasCause'
 <2>1. Others(a) /\ UNCHANGED clock
   BY <1>5, BeginLoginStep DEF BeginLogin, Moves, Gives
 <2>2. UNCHANGED <<born, grant>>
   BY <1>5 DEF BeginLogin
 <2>3. asking'[a].state # "expired"
   BY <1>5, BeginLoginStep DEF Moves, Gives, Over
 <2> QED BY <2>1, <2>2, <2>3, ExpiredStep
<1>6. ASSUME NEW a \in Actors, ReturnFromLogin(a) PROVE ExpiredHasCause'
 <2>1. Others(a) /\ UNCHANGED clock
   BY <1>6, ReturnFromLoginStep DEF ReturnFromLogin, Moves, Gives
 <2>2. \A s \in Logins : asking[s].state \in Over => born'[s] = born[s] /\ (grant'[s] => grant[s])
   BY <1>6 DEF ReturnFromLogin, At, Over, SessionsTypeOK
 <2>3. asking'[a].state # "expired"
   BY <1>6, ReturnFromLoginStep DEF Moves, Gives, Over
 <2> QED BY <2>1, <2>2, <2>3, ExpiredStep
<1>7. ASSUME NEW a \in Actors, CreateSession(a) PROVE ExpiredHasCause'
 <2>1. Others(a) /\ UNCHANGED clock
   BY <1>7, CreateSessionStep DEF CreateSession, Moves, Gives
 <2>2. \A s \in Logins : asking[s].state \in Over => born'[s] = born[s] /\ grant'[s] = grant[s]
   BY <1>7 DEF CreateSession, At, Over, SessionsTypeOK
 <2>3. asking'[a].state # "expired"
   BY <1>7, CreateSessionStep DEF Moves, Gives, Over
 <2> QED BY <2>1, <2>2, <2>3, ExpiredStep
<1>8. ASSUME NEW a \in Actors, Send(a) PROVE ExpiredHasCause'
 <2>1. Others(a) /\ UNCHANGED clock
   BY <1>8, SendStep DEF Send, Moves, Gives
 <2>2. UNCHANGED <<born, grant>>
   BY <1>8 DEF Send
 <2>3. asking'[a].state # "expired"
   BY <1>8, SendStep DEF Moves, Gives, Over
 <2> QED BY <2>1, <2>2, <2>3, ExpiredStep
<1>9. ASSUME NEW a \in Actors, LookUp(a) PROVE ExpiredHasCause'
 <2>1. Others(a) /\ UNCHANGED clock
   BY <1>9, LookUpStep DEF LookUp, Moves, Gives
 <2>2. UNCHANGED <<born, grant>>
   BY <1>9 DEF LookUp
 <2>3. ASSUME asking'[a].state = "expired"
       PROVE  clock >= born[asking'[a].cookie] + IdleTime
  <3>1. /\ Live(Holds(a)) /\ Holds(a) \in Logins \cup {NoSession} /\ asking'[a].cookie = Holds(a)
        /\ Row(Holds(a)).idle <= clock \/ Row(Holds(a)).max <= clock
    BY <1>9, <2>3, LookUpStep DEF Moves, Gives, Over, Holds, SessionsTypeOK, Requests
  <3>2. Holds(a) \in Logins /\ Row(Holds(a)) \in SessionRows
    BY <3>1, RowType
  <3>3. born[Holds(a)] + IdleTime <= Row(Holds(a)).idle /\ born[Holds(a)] + IdleTime <= Row(Holds(a)).max
    BY <3>1, <3>2 DEF RowsTimely, Live
  <3> QED BY <3>1, <3>2, <3>3 DEF SessionRows, SessionsTypeOK
 <2> QED BY <2>1, <2>2, <2>3, ExpiredStep
<1>10. ASSUME NEW a \in Actors, DeleteSession(a) PROVE ExpiredHasCause'
 <2>1. Others(a) /\ UNCHANGED clock
   BY <1>10, DeleteSessionStep DEF DeleteSession, Moves, Gives
 <2>2. UNCHANGED <<born, grant>>
   BY <1>10 DEF DeleteSession
 <2>3. asking'[a].state # "expired"
   BY <1>10, DeleteSessionStep DEF Moves, Gives, Over
 <2> QED BY <2>1, <2>2, <2>3, ExpiredStep
<1>11. ASSUME NEW a \in Actors, Refresh(a) PROVE ExpiredHasCause'
 <2>1. Others(a) /\ UNCHANGED clock
   BY <1>11, RefreshStep DEF Refresh, Moves, Gives
 <2>2. UNCHANGED <<born, grant>>
   BY <1>11 DEF Refresh
 <2>3. asking'[a].state = "expired" => ~grant[asking'[a].cookie]
   BY <1>11, RefreshStep DEF Moves, Gives, Over, Holds
 <2> QED BY <2>1, <2>2, <2>3, ExpiredStep
<1>12. ASSUME NEW a \in Actors, Decode(a) PROVE ExpiredHasCause'
 <2>1. Others(a) /\ UNCHANGED clock
   BY <1>12, DecodeStep DEF Decode, Moves, Gives
 <2>2. UNCHANGED <<born, grant>>
   BY <1>12 DEF Decode
 <2>3. asking'[a].state # "expired"
   BY <1>12, DecodeStep DEF Moves, Gives, Over
 <2> QED BY <2>1, <2>2, <2>3, ExpiredStep
<1>13. ASSUME NEW a \in Actors, SaveSession(a) PROVE ExpiredHasCause'
 <2>1. Others(a) /\ UNCHANGED clock
   BY <1>13, SaveSessionStep DEF SaveSession, Moves, Gives
 <2>2. UNCHANGED <<born, grant>>
   BY <1>13 DEF SaveSession
 <2>3. asking'[a].state # "expired"
   BY <1>13, SaveSessionStep DEF Moves, Gives, Over
 <2> QED BY <2>1, <2>2, <2>3, ExpiredStep
<1>14. ASSUME NEW a \in Actors, CallWithToken(a) PROVE ExpiredHasCause'
 <2>1. Others(a) /\ UNCHANGED clock
   BY <1>14, CallWithTokenStep DEF CallWithToken, Moves, Gives
 <2>2. UNCHANGED <<born, grant>>
   BY <1>14 DEF CallWithToken
 <2>3. asking'[a].state # "expired"
   BY <1>14, CallWithTokenStep DEF Moves, Gives, Over
 <2> QED BY <2>1, <2>2, <2>3, ExpiredStep
<1>15. ASSUME NEW a \in Actors, AnswerToken(a) PROVE ExpiredHasCause'
 <2>1. Others(a) /\ UNCHANGED clock
   BY <1>15, AnswerTokenStep DEF AnswerToken, Moves, Gives
 <2>2. UNCHANGED <<born, grant>>
   BY <1>15 DEF AnswerToken
 <2>3. asking'[a].state # "expired"
   BY <1>15, AnswerTokenStep DEF Moves, Gives, Over
 <2> QED BY <2>1, <2>2, <2>3, ExpiredStep
<1>16. ASSUME NEW a \in Actors, Receive(a) PROVE ExpiredHasCause'
 <2>1. Others(a) /\ UNCHANGED clock
   BY <1>16, ReceiveStep DEF Receive, Moves, Gives
 <2>2. UNCHANGED <<born, grant>>
   BY <1>16 DEF Receive
 <2>3. asking'[a].state # "expired"
   BY <1>16, ReceiveStep DEF Moves, Gives, Over
 <2> QED BY <2>1, <2>2, <2>3, ExpiredStep
<1>17. ASSUME NEW a \in Actors, LeaveProvider(a) PROVE ExpiredHasCause'
 <2>1. Others(a) /\ UNCHANGED clock
   BY <1>17, LeaveProviderStep DEF LeaveProvider, Moves, Gives
 <2>2. \A s \in Logins : asking[s].state \in Over => born'[s] = born[s] /\ (grant'[s] => grant[s])
   BY <1>17 DEF LeaveProvider, SessionsTypeOK
 <2>3. asking'[a].state # "expired"
   BY <1>17, LeaveProviderStep DEF Moves, Gives, Over
 <2> QED BY <2>1, <2>2, <2>3, ExpiredStep
<1>18. ASSUME NEW a \in Actors, Leave(a) PROVE ExpiredHasCause'
 <2>1. Others(a) /\ UNCHANGED clock
   BY <1>18, LeaveStep DEF Leave, Moves, Gives
 <2>2. UNCHANGED <<born, grant>>
   BY <1>18 DEF Leave
 <2>3. asking'[a].state # "expired"
   BY <1>18, LeaveStep DEF Moves, Gives, Over
 <2> QED BY <2>1, <2>2, <2>3, ExpiredStep
<1>19. ASSUME NEW s \in Logins, ProviderEnds(s) PROVE ExpiredHasCause'
  BY <1>19 DEF ProviderEnds, ExpiredHasCause, Holds, At, SessionsTypeOK
<1>20. ASSUME Tick PROVE ExpiredHasCause'
 <2>1. ASSUME NEW a \in Calls, asking[a].state = "expired", clock >= born[Holds(a)] + IdleTime
       PROVE  clock' >= born[Holds(a)] + IdleTime
  <3>1. Holds(a) \in Logins
    BY <2>1, HeldIsMade DEF HoldsRow, Actors
  <3> QED BY <1>20, <2>1, <3>1 DEF Tick, SessionsTypeOK
 <2> QED BY <1>20, <2>1 DEF Tick, ExpiredHasCause, Holds, At
<1> QED
  BY <1>1, <1>2, <1>3, <1>4, <1>5, <1>6, <1>7, <1>8, <1>9, <1>10,
     <1>11, <1>12, <1>13, <1>14, <1>15, <1>16, <1>17, <1>18, <1>19, <1>20 DEF SessionsNext

LEMMA EndedHasCauseKept ==
    ASSUME SessionsInv, SessionsNext
    PROVE  EndedHasCause'
<1> USE SessionsAssumption DEF SessionsInv
<1>1. ASSUME NEW a \in Actors, DeleteSession(a) PROVE EndedHasCause'
 <2>1. Clears(Holds(a)) /\ UNCHANGED <<left, grant, clock, born>>
   BY <1>1, EndsOf DEF DeleteSession
 <2>2. ~grant[Holds(a)] \/ clock >= born[Holds(a)] + IdleTime
   BY <1>1 DEF DeleteSession, ExpiredHasCause, Sorted, Fits, At
 <2> QED BY <2>1, <2>2 DEF EndedHasCause, Clears
<1>2. ASSUME NEW a \in Actors, Leave(a) PROVE EndedHasCause'
 <2>1. Clears(Holds(a)) /\ UNCHANGED <<grant, clock, born>> /\ left' = left \cup {Holds(a)}
   BY <1>2, EndsOf DEF Leave
 <2> QED BY <2>1 DEF EndedHasCause, Clears
<1>3. ASSUME NEW a \in Actors, ReturnFromLogin(a) PROVE EndedHasCause'
 <2>1. a \notin ended
   BY <1>3 DEF ReturnFromLogin, Made, At, Over, SessionsTypeOK
 <2> QED BY <1>3, <2>1 DEF ReturnFromLogin, EndedHasCause, SessionsTypeOK
<1>4. ASSUME NEW a \in Actors, CreateSession(a) PROVE EndedHasCause'
 <2>1. a \notin ended
   BY <1>4 DEF CreateSession, Made, At, Over
 <2> QED BY <1>4, <2>1 DEF CreateSession, EndedHasCause, SessionsTypeOK
<1>5. ASSUME NEW a \in Actors, LeaveProvider(a) PROVE EndedHasCause'
  BY <1>5 DEF LeaveProvider, EndedHasCause, SessionsTypeOK
<1>6. ASSUME NEW s \in Logins, ProviderEnds(s) PROVE EndedHasCause'
  BY <1>6 DEF ProviderEnds, EndedHasCause, SessionsTypeOK
<1>7. ASSUME Tick PROVE EndedHasCause'
  BY <1>7 DEF Tick, EndedHasCause, SessionsTypeOK
<1>8. ASSUME UNCHANGED <<ended, left, grant, clock, born>> PROVE EndedHasCause'
  BY <1>8 DEF EndedHasCause
<1> QED
  BY <1>1, <1>2, <1>3, <1>4, <1>5, <1>6, <1>7, <1>8
  DEF SessionsNext, FindUser, InsertUser, InsertAccount, InsertFails, BeginLogin, Send, LookUp, Refresh,
      Decode, SaveSession, CallWithToken, AnswerToken, Receive

LEMMA EndedStaysEndedKept ==
    ASSUME SessionsInv, SessionsNext
    PROVE  EndedStaysEnded'
<1> USE SessionsAssumption DEF SessionsInv
<1>1. ASSUME NEW a \in Actors, DeleteSession(a) \/ Leave(a) PROVE EndedStaysEnded'
 <2>1. Clears(Holds(a))
   BY <1>1, EndsOf
 <2> QED BY <2>1 DEF EndedStaysEnded, Clears, SessionsTypeOK
<1>2. ASSUME NEW a \in Actors, FindUser(a) PROVE EndedStaysEnded'
 <2>1. UNCHANGED ended
   BY <1>2 DEF FindUser
 <2> QED BY <1>2, <2>1, FindUserRow DEF EndedStaysEnded, Writes, Live, SessionsTypeOK
<1>3. ASSUME NEW a \in Actors, SaveSession(a) PROVE EndedStaysEnded'
 <2>1. UNCHANGED ended
   BY <1>3 DEF SaveSession
 <2> QED BY <1>3, <2>1, SaveSessionRow DEF EndedStaysEnded, Writes, Live, SessionsTypeOK
<1>4. ASSUME NEW a \in Actors, CreateSession(a) PROVE EndedStaysEnded'
 <2>1. a \notin ended /\ UNCHANGED ended
   BY <1>4 DEF CreateSession, Made, At, Over
 <2> QED BY <1>4, <2>1, CreateSessionRow DEF EndedStaysEnded, Writes, SessionsTypeOK
<1>5. ASSUME UNCHANGED <<signed, ended>> PROVE EndedStaysEnded'
  BY <1>5 DEF EndedStaysEnded
<1> QED
  BY <1>1, <1>2, <1>3, <1>4, <1>5
  DEF SessionsNext, InsertUser, InsertAccount, InsertFails, BeginLogin, ReturnFromLogin, Send, LookUp,
      Refresh, Decode, CallWithToken, AnswerToken, Receive, LeaveProvider, ProviderEnds, Tick

\* A step of a request that inserts nothing, before or after.
LEMMA InsertsStep ==
    ASSUME SessionsTypeOK, OneInserts, NEW a \in Actors, Others(a), UNCHANGED <<inserting, account>>,
           asking[a].state # "added", asking'[a].state # "added"
    PROVE  OneInserts'
<1>1. \A b \in Actors : asking'[b].state = "added" => asking'[b] = asking[b]
  BY DEF Others
<1>2. ASSUME NEW u \in Users, inserting[u] # Nobody
      PROVE  asking'[inserting[u]] = asking[inserting[u]] /\ inserting[u] \in Actors
  BY <1>2 DEF OneInserts, At, Others, SessionsTypeOK
<1> QED BY <1>1, <1>2 DEF OneInserts, At, User, Holds

\* Who inserted leaves the turn.
LEMMA InsertEnds ==
    ASSUME SessionsTypeOK, Sorted, OneInserts, NEW a \in Actors, Others(a),
           inserting' = [inserting EXCEPT ![User(a)] = Nobody],
           asking[a].state = "added", asking'[a].state # "added",
           \A u \in Users : u # User(a) => account'[u] = account[u]
    PROVE  OneInserts'
<1>1. inserting[User(a)] = a /\ User(a) \in Users
  BY UserType DEF OneInserts, At, WithUser
<1>2. inserting'[User(a)] = Nobody /\ \A u \in Users : u # User(a) => inserting'[u] = inserting[u]
  BY <1>1 DEF SessionsTypeOK
<1>3. ASSUME NEW u \in Users, inserting'[u] # Nobody
      PROVE  At(inserting[u], "added")' /\ User(inserting[u])' = u /\ account'[u] = {}
 <2>1. u # User(a) /\ inserting'[u] = inserting[u] /\ inserting[u] \in Actors
   BY <1>2, <1>3 DEF SessionsTypeOK
 <2>2. At(inserting[u], "added") /\ User(inserting[u]) = u /\ account[u] = {}
   BY <1>3, <2>1 DEF OneInserts
 <2>3. asking'[inserting[u]] = asking[inserting[u]]
   BY <2>1, <2>2 DEF Others
 <2> QED BY <2>1, <2>2, <2>3 DEF At, User, Holds
<1>4. ASSUME NEW b \in Actors, asking'[b].state = "added" PROVE inserting'[User(b)'] = b
 <2>1. b # a /\ asking'[b] = asking[b] /\ User(b)' = User(b)
   BY <1>4 DEF Others, User, Holds
 <2>2. inserting[User(b)] = b /\ User(b) \in Users
   BY <1>4, <2>1, UserType DEF OneInserts, At, WithUser
 <2> QED BY <1>1, <1>2, <2>1, <2>2
<1> QED BY <1>3, <1>4 DEF OneInserts, At

LEMMA OneInsertsKept ==
    ASSUME SessionsInv, SessionsNext
    PROVE  OneInserts'
<1> USE SessionsAssumption DEF SessionsInv
<1>1. ASSUME NEW a \in Actors, FindUser(a) PROVE OneInserts'
 <2>1. Others(a) /\ UNCHANGED <<inserting, account>>
   BY <1>1, FindUserStep DEF FindUser, Moves, Gives
 <2>2. asking[a].state # "added" /\ asking'[a].state # "added"
   BY <1>1, FindUserStep DEF Moves, Gives, Over, At
 <2> QED BY <2>1, <2>2, InsertsStep
<1>2. ASSUME NEW a \in Actors, InsertUser(a) PROVE OneInserts'
 <2>1. CASE Moves(a, "added") /\ account[User(a)] = {} /\ inserting' = [inserting EXCEPT ![User(a)] = a]
  <3>1. Others(a) /\ asking'[a].state = "added" /\ asking'[a].cookie = asking[a].cookie
    BY <2>1 DEF Moves
  <3>2. UNCHANGED account /\ inserting[User(a)] = Nobody /\ asking[a].state = "adding"
    BY <1>2 DEF InsertUser, At
  <3>3. User(a) \in Users
    BY <3>2, UserType DEF WithUser
  <3>4. inserting'[User(a)] = a /\ \A u \in Users : u # User(a) => inserting'[u] = inserting[u]
    BY <2>1, <3>3 DEF SessionsTypeOK
  <3>5. User(a)' = User(a)
    BY <3>1 DEF User, Holds
  <3>6. ASSUME NEW u \in Users, inserting'[u] # Nobody
        PROVE  At(inserting[u], "added")' /\ User(inserting[u])' = u /\ account'[u] = {}
   <4>1. CASE u = User(a)
     BY <2>1, <3>1, <3>2, <3>4, <3>5, <4>1 DEF At, User, Holds
   <4>2. CASE u # User(a)
    <5>1. inserting[u] # Nobody /\ inserting[u] # a /\ inserting[u] \in Actors
      BY <3>2, <3>4, <3>6, <4>2 DEF OneInserts, At, SessionsTypeOK
    <5>2. asking'[inserting[u]] = asking[inserting[u]] /\ inserting'[u] = inserting[u]
      BY <3>1, <3>4, <4>2, <5>1 DEF Others
    <5> QED BY <3>2, <5>1, <5>2 DEF OneInserts, At, User, Holds
   <4> QED BY <4>1, <4>2
  <3>7. ASSUME NEW b \in Actors, asking'[b].state = "added" PROVE inserting'[User(b)'] = b
   <4>1. CASE b = a
     BY <3>4, <3>5, <4>1
   <4>2. CASE b # a
    <5>1. asking'[b] = asking[b] /\ User(b)' = User(b)
      BY <3>1, <4>2 DEF Others, User, Holds
    <5>2. inserting[User(b)] = b /\ b # Nobody /\ User(b) \in Users
      BY <3>7, <5>1, UserType DEF OneInserts, At, WithUser
    <5> QED BY <3>2, <3>4, <5>1, <5>2
   <4> QED BY <4>1, <4>2
  <3> QED BY <3>6, <3>7 DEF OneInserts, At
 <2>2. CASE Gives(a, "error") /\ UNCHANGED inserting
  <3>1. Others(a) /\ UNCHANGED <<inserting, account>>
    BY <1>2, <2>2 DEF InsertUser, Gives
  <3>2. asking[a].state # "added" /\ asking'[a].state # "added"
    BY <1>2, <2>2 DEF InsertUser, Gives, Over, At
  <3> QED BY <3>1, <3>2, InsertsStep
 <2> QED BY <1>2, <2>1, <2>2, InsertUserStep
<1>3. ASSUME NEW a \in Actors, InsertAccount(a) PROVE OneInserts'
 <2>1. Others(a) /\ asking'[a].state # "added" /\ inserting' = [inserting EXCEPT ![User(a)] = Nobody]
   BY <1>3, InsertAccountStep DEF InsertAccount, Moves, Gives, Over
 <2>2. asking[a].state = "added" /\ \A u \in Users : u # User(a) => account'[u] = account[u]
   BY <1>3 DEF InsertAccount, At, SessionsTypeOK
 <2> QED BY <2>1, <2>2, InsertEnds
<1>4. ASSUME NEW a \in Actors, InsertFails(a) PROVE OneInserts'
 <2>1. Others(a) /\ asking'[a].state # "added" /\ inserting' = [inserting EXCEPT ![User(a)] = Nobody]
   BY <1>4, InsertFailsStep DEF InsertFails, Moves, Gives, Over
 <2>2. asking[a].state = "added" /\ \A u \in Users : u # User(a) => account'[u] = account[u]
   BY <1>4 DEF InsertFails, At, SessionsTypeOK
 <2> QED BY <2>1, <2>2, InsertEnds
<1>5. ASSUME NEW a \in Actors, BeginLogin(a) PROVE OneInserts'
 <2>1. Others(a) /\ UNCHANGED <<inserting, account>>
   BY <1>5, BeginLoginStep DEF BeginLogin, Moves, Gives
 <2>2. asking[a].state # "added" /\ asking'[a].state # "added"
   BY <1>5, BeginLoginStep DEF Moves, Gives, Over, At
 <2> QED BY <2>1, <2>2, InsertsStep
<1>6. ASSUME NEW a \in Actors, ReturnFromLogin(a) PROVE OneInserts'
 <2>1. Others(a) /\ UNCHANGED <<inserting, account>>
   BY <1>6, ReturnFromLoginStep DEF ReturnFromLogin, Moves, Gives
 <2>2. asking[a].state # "added" /\ asking'[a].state # "added"
   BY <1>6, ReturnFromLoginStep DEF Moves, Gives, Over, At
 <2> QED BY <2>1, <2>2, InsertsStep
<1>7. ASSUME NEW a \in Actors, CreateSession(a) PROVE OneInserts'
 <2>1. Others(a) /\ UNCHANGED <<inserting, account>>
   BY <1>7, CreateSessionStep DEF CreateSession, Moves, Gives
 <2>2. asking[a].state # "added" /\ asking'[a].state # "added"
   BY <1>7, CreateSessionStep DEF Moves, Gives, Over, At
 <2> QED BY <2>1, <2>2, InsertsStep
<1>8. ASSUME NEW a \in Actors, Send(a) PROVE OneInserts'
 <2>1. Others(a) /\ UNCHANGED <<inserting, account>>
   BY <1>8, SendStep DEF Send, Moves, Gives
 <2>2. asking[a].state # "added" /\ asking'[a].state # "added"
   BY <1>8, SendStep DEF Moves, Gives, Over, At
 <2> QED BY <2>1, <2>2, InsertsStep
<1>9. ASSUME NEW a \in Actors, LookUp(a) PROVE OneInserts'
 <2>1. Others(a) /\ UNCHANGED <<inserting, account>>
   BY <1>9, LookUpStep DEF LookUp, Moves, Gives
 <2>2. asking[a].state # "added" /\ asking'[a].state # "added"
   BY <1>9, LookUpStep DEF Moves, Gives, Over, At
 <2> QED BY <2>1, <2>2, InsertsStep
<1>10. ASSUME NEW a \in Actors, DeleteSession(a) PROVE OneInserts'
 <2>1. Others(a) /\ UNCHANGED <<inserting, account>>
   BY <1>10, DeleteSessionStep DEF DeleteSession, Moves, Gives
 <2>2. asking[a].state # "added" /\ asking'[a].state # "added"
   BY <1>10, DeleteSessionStep DEF Moves, Gives, Over, At
 <2> QED BY <2>1, <2>2, InsertsStep
<1>11. ASSUME NEW a \in Actors, Refresh(a) PROVE OneInserts'
 <2>1. Others(a) /\ UNCHANGED <<inserting, account>>
   BY <1>11, RefreshStep DEF Refresh, Moves, Gives
 <2>2. asking[a].state # "added" /\ asking'[a].state # "added"
   BY <1>11, RefreshStep DEF Moves, Gives, Over, At
 <2> QED BY <2>1, <2>2, InsertsStep
<1>12. ASSUME NEW a \in Actors, Decode(a) PROVE OneInserts'
 <2>1. Others(a) /\ UNCHANGED <<inserting, account>>
   BY <1>12, DecodeStep DEF Decode, Moves, Gives
 <2>2. asking[a].state # "added" /\ asking'[a].state # "added"
   BY <1>12, DecodeStep DEF Moves, Gives, Over, At
 <2> QED BY <2>1, <2>2, InsertsStep
<1>13. ASSUME NEW a \in Actors, SaveSession(a) PROVE OneInserts'
 <2>1. Others(a) /\ UNCHANGED <<inserting, account>>
   BY <1>13, SaveSessionStep DEF SaveSession, Moves, Gives
 <2>2. asking[a].state # "added" /\ asking'[a].state # "added"
   BY <1>13, SaveSessionStep DEF Moves, Gives, Over, At
 <2> QED BY <2>1, <2>2, InsertsStep
<1>14. ASSUME NEW a \in Actors, CallWithToken(a) PROVE OneInserts'
 <2>1. Others(a) /\ UNCHANGED <<inserting, account>>
   BY <1>14, CallWithTokenStep DEF CallWithToken, Moves, Gives
 <2>2. asking[a].state # "added" /\ asking'[a].state # "added"
   BY <1>14, CallWithTokenStep DEF Moves, Gives, Over, At
 <2> QED BY <2>1, <2>2, InsertsStep
<1>15. ASSUME NEW a \in Actors, AnswerToken(a) PROVE OneInserts'
 <2>1. Others(a) /\ UNCHANGED <<inserting, account>>
   BY <1>15, AnswerTokenStep DEF AnswerToken, Moves, Gives
 <2>2. asking[a].state # "added" /\ asking'[a].state # "added"
   BY <1>15, AnswerTokenStep DEF Moves, Gives, Over, At
 <2> QED BY <2>1, <2>2, InsertsStep
<1>16. ASSUME NEW a \in Actors, Receive(a) PROVE OneInserts'
 <2>1. Others(a) /\ UNCHANGED <<inserting, account>>
   BY <1>16, ReceiveStep DEF Receive, Moves, Gives
 <2>2. asking[a].state # "added" /\ asking'[a].state # "added"
   BY <1>16, ReceiveStep DEF Moves, Gives, Over, At
 <2> QED BY <2>1, <2>2, InsertsStep
<1>17. ASSUME NEW a \in Actors, LeaveProvider(a) PROVE OneInserts'
 <2>1. Others(a) /\ UNCHANGED <<inserting, account>>
   BY <1>17, LeaveProviderStep DEF LeaveProvider, Moves, Gives
 <2>2. asking[a].state # "added" /\ asking'[a].state # "added"
   BY <1>17, LeaveProviderStep DEF Moves, Gives, Over, At
 <2> QED BY <2>1, <2>2, InsertsStep
<1>18. ASSUME NEW a \in Actors, Leave(a) PROVE OneInserts'
 <2>1. Others(a) /\ UNCHANGED <<inserting, account>>
   BY <1>18, LeaveStep DEF Leave, Moves, Gives
 <2>2. asking[a].state # "added" /\ asking'[a].state # "added"
   BY <1>18, LeaveStep DEF Moves, Gives, Over, At
 <2> QED BY <2>1, <2>2, InsertsStep
<1>19. ASSUME NEW s \in Logins, ProviderEnds(s) PROVE OneInserts'
  BY <1>19 DEF ProviderEnds, OneInserts, At, User, Holds
<1>20. ASSUME Tick PROVE OneInserts'
  BY <1>20 DEF Tick, OneInserts, At, User, Holds
<1> QED
  BY <1>1, <1>2, <1>3, <1>4, <1>5, <1>6, <1>7, <1>8, <1>9, <1>10,
     <1>11, <1>12, <1>13, <1>14, <1>15, <1>16, <1>17, <1>18, <1>19, <1>20 DEF SessionsNext

\* An account that is whole stays so; one that is made is made once.
Grows == \A u \in Users : account[u] = AccountRows => account'[u] = AccountRows

LEMMA AccountsStep ==
    ASSUME SessionsInv, NEW a \in Actors, InsertAccount(a)
    PROVE  /\ Grows /\ account'[User(a)] = AccountRows
           /\ \A u \in Users : <<account'[u], tenants'[u]>> \in {<<{}, 0>>, <<AccountRows, 1>>}
<1> USE DEF SessionsInv
<1>1. asking[a].state = "added"
  BY DEF InsertAccount, At
<1>2. User(a) \in Users /\ inserting[User(a)] = a
  BY <1>1, UserType DEF OneInserts, At, WithUser
<1>3. account[User(a)] = {} /\ a # Nobody
  BY <1>2, SessionsAssumption DEF OneInserts
<1>4. tenants[User(a)] = 0
  BY <1>2, <1>3 DEF AccountIsWhole, AccountRows
<1>5. account'[User(a)] = AccountRows /\ tenants'[User(a)] = 1
  BY <1>2, <1>4 DEF InsertAccount, SessionsTypeOK
<1>6. \A u \in Users : u # User(a) => account'[u] = account[u] /\ tenants'[u] = tenants[u]
  BY DEF InsertAccount, SessionsTypeOK
<1> QED BY <1>2, <1>5, <1>6 DEF Grows, AccountIsWhole

\* Who found an account that is there found all of it.
LEMMA FoundStep ==
    ASSUME SessionsTypeOK, Sorted, FoundIsWhole, NEW a \in Actors, Others(a), Grows,
           asking'[a].state = "found" => account'[User(a)'] = AccountRows
    PROVE  FoundIsWhole'
<1> SUFFICES ASSUME NEW b \in Actors, asking'[b].state = "found", b # a
             PROVE  account'[User(b)'] = AccountRows
  BY DEF FoundIsWhole, At
<1>1. asking'[b] = asking[b] /\ User(b)' = User(b)
  BY DEF Others, User, Holds
<1>2. User(b) \in Users /\ account[User(b)] = AccountRows
  BY <1>1, UserType DEF FoundIsWhole, At, WithUser
<1> QED BY <1>1, <1>2 DEF Grows

LEMMA FoundIsWholeKept ==
    ASSUME SessionsInv, SessionsNext
    PROVE  FoundIsWhole'
<1> USE SessionsAssumption DEF SessionsInv
<1>1. ASSUME NEW a \in Actors, FindUser(a) PROVE FoundIsWhole'
 <2>1. Others(a)
   BY <1>1, FindUserStep DEF Moves, Gives
 <2>2. Grows
   BY <1>1 DEF FindUser, Grows
 <2>3. ASSUME asking'[a].state = "found" PROVE account'[User(a)'] = AccountRows
  <3>1. asking'[a].cookie = asking[a].cookie /\ account[User(a)] # {} /\ asking[a].state = "known"
    BY <1>1, <2>3, FindUserStep DEF Moves, Gives, Over, At
  <3>2. User(a)' = User(a) /\ User(a) \in Users
    BY <3>1, UserType DEF User, Holds, WithUser
  <3>3. account[User(a)] = AccountRows
    BY <3>1, <3>2 DEF AccountIsWhole
  <3> QED BY <1>1, <3>2, <3>3 DEF FindUser
 <2> QED BY <2>1, <2>2, <2>3, FoundStep
<1>2. ASSUME NEW a \in Actors, InsertUser(a) PROVE FoundIsWhole'
 <2>1. Others(a)
   BY <1>2, InsertUserStep DEF Moves, Gives
 <2>2. Grows
   BY <1>2 DEF InsertUser, Grows
 <2>3. asking'[a].state # "found"
   BY <1>2, InsertUserStep DEF Moves, Gives, Over
 <2> QED BY <2>1, <2>2, <2>3, FoundStep
<1>3. ASSUME NEW a \in Actors, InsertAccount(a) PROVE FoundIsWhole'
 <2>1. Others(a)
   BY <1>3, InsertAccountStep DEF Moves, Gives
 <2>2. Grows
   BY <1>3, AccountsStep
 <2>3. account'[User(a)'] = AccountRows
  <3>1. User(a)' = User(a)
    BY <1>3, InsertAccountStep DEF Moves, User, Holds
  <3> QED BY <1>3, <3>1, AccountsStep
 <2> QED BY <2>1, <2>2, <2>3, FoundStep
<1>4. ASSUME NEW a \in Actors, InsertFails(a) PROVE FoundIsWhole'
 <2>1. Others(a)
   BY <1>4, InsertFailsStep DEF Moves, Gives
 <2>2. Grows
   BY <1>4 DEF InsertFails, Grows
 <2>3. asking'[a].state # "found"
   BY <1>4, InsertFailsStep DEF Moves, Gives, Over
 <2> QED BY <2>1, <2>2, <2>3, FoundStep
<1>5. ASSUME NEW a \in Actors, BeginLogin(a) PROVE FoundIsWhole'
 <2>1. Others(a)
   BY <1>5, BeginLoginStep DEF Moves, Gives
 <2>2. Grows
   BY <1>5 DEF BeginLogin, Grows
 <2>3. asking'[a].state # "found"
   BY <1>5, BeginLoginStep DEF Moves, Gives, Over
 <2> QED BY <2>1, <2>2, <2>3, FoundStep
<1>6. ASSUME NEW a \in Actors, ReturnFromLogin(a) PROVE FoundIsWhole'
 <2>1. Others(a)
   BY <1>6, ReturnFromLoginStep DEF Moves, Gives
 <2>2. Grows
   BY <1>6 DEF ReturnFromLogin, Grows
 <2>3. asking'[a].state # "found"
   BY <1>6, ReturnFromLoginStep DEF Moves, Gives, Over
 <2> QED BY <2>1, <2>2, <2>3, FoundStep
<1>7. ASSUME NEW a \in Actors, CreateSession(a) PROVE FoundIsWhole'
 <2>1. Others(a)
   BY <1>7, CreateSessionStep DEF Moves, Gives
 <2>2. Grows
   BY <1>7 DEF CreateSession, Grows
 <2>3. asking'[a].state # "found"
   BY <1>7, CreateSessionStep DEF Moves, Gives, Over
 <2> QED BY <2>1, <2>2, <2>3, FoundStep
<1>8. ASSUME NEW a \in Actors, Send(a) PROVE FoundIsWhole'
 <2>1. Others(a)
   BY <1>8, SendStep DEF Moves, Gives
 <2>2. Grows
   BY <1>8 DEF Send, Grows
 <2>3. asking'[a].state # "found"
   BY <1>8, SendStep DEF Moves, Gives, Over
 <2> QED BY <2>1, <2>2, <2>3, FoundStep
<1>9. ASSUME NEW a \in Actors, LookUp(a) PROVE FoundIsWhole'
 <2>1. Others(a)
   BY <1>9, LookUpStep DEF Moves, Gives
 <2>2. Grows
   BY <1>9 DEF LookUp, Grows
 <2>3. asking'[a].state # "found"
   BY <1>9, LookUpStep DEF Moves, Gives, Over
 <2> QED BY <2>1, <2>2, <2>3, FoundStep
<1>10. ASSUME NEW a \in Actors, DeleteSession(a) PROVE FoundIsWhole'
 <2>1. Others(a)
   BY <1>10, DeleteSessionStep DEF Moves, Gives
 <2>2. Grows
   BY <1>10 DEF DeleteSession, Grows
 <2>3. asking'[a].state # "found"
   BY <1>10, DeleteSessionStep DEF Moves, Gives, Over
 <2> QED BY <2>1, <2>2, <2>3, FoundStep
<1>11. ASSUME NEW a \in Actors, Refresh(a) PROVE FoundIsWhole'
 <2>1. Others(a)
   BY <1>11, RefreshStep DEF Moves, Gives
 <2>2. Grows
   BY <1>11 DEF Refresh, Grows
 <2>3. asking'[a].state # "found"
   BY <1>11, RefreshStep DEF Moves, Gives, Over
 <2> QED BY <2>1, <2>2, <2>3, FoundStep
<1>12. ASSUME NEW a \in Actors, Decode(a) PROVE FoundIsWhole'
 <2>1. Others(a)
   BY <1>12, DecodeStep DEF Moves, Gives
 <2>2. Grows
   BY <1>12 DEF Decode, Grows
 <2>3. asking'[a].state # "found"
   BY <1>12, DecodeStep DEF Moves, Gives, Over
 <2> QED BY <2>1, <2>2, <2>3, FoundStep
<1>13. ASSUME NEW a \in Actors, SaveSession(a) PROVE FoundIsWhole'
 <2>1. Others(a)
   BY <1>13, SaveSessionStep DEF Moves, Gives
 <2>2. Grows
   BY <1>13 DEF SaveSession, Grows
 <2>3. asking'[a].state # "found"
   BY <1>13, SaveSessionStep DEF Moves, Gives, Over
 <2> QED BY <2>1, <2>2, <2>3, FoundStep
<1>14. ASSUME NEW a \in Actors, CallWithToken(a) PROVE FoundIsWhole'
 <2>1. Others(a)
   BY <1>14, CallWithTokenStep DEF Moves, Gives
 <2>2. Grows
   BY <1>14 DEF CallWithToken, Grows
 <2>3. asking'[a].state # "found"
   BY <1>14, CallWithTokenStep DEF Moves, Gives, Over
 <2> QED BY <2>1, <2>2, <2>3, FoundStep
<1>15. ASSUME NEW a \in Actors, AnswerToken(a) PROVE FoundIsWhole'
 <2>1. Others(a)
   BY <1>15, AnswerTokenStep DEF Moves, Gives
 <2>2. Grows
   BY <1>15 DEF AnswerToken, Grows
 <2>3. asking'[a].state # "found"
   BY <1>15, AnswerTokenStep DEF Moves, Gives, Over
 <2> QED BY <2>1, <2>2, <2>3, FoundStep
<1>16. ASSUME NEW a \in Actors, Receive(a) PROVE FoundIsWhole'
 <2>1. Others(a)
   BY <1>16, ReceiveStep DEF Moves, Gives
 <2>2. Grows
   BY <1>16 DEF Receive, Grows
 <2>3. asking'[a].state # "found"
   BY <1>16, ReceiveStep DEF Moves, Gives, Over
 <2> QED BY <2>1, <2>2, <2>3, FoundStep
<1>17. ASSUME NEW a \in Actors, LeaveProvider(a) PROVE FoundIsWhole'
 <2>1. Others(a)
   BY <1>17, LeaveProviderStep DEF Moves, Gives
 <2>2. Grows
   BY <1>17 DEF LeaveProvider, Grows
 <2>3. asking'[a].state # "found"
   BY <1>17, LeaveProviderStep DEF Moves, Gives, Over
 <2> QED BY <2>1, <2>2, <2>3, FoundStep
<1>18. ASSUME NEW a \in Actors, Leave(a) PROVE FoundIsWhole'
 <2>1. Others(a)
   BY <1>18, LeaveStep DEF Moves, Gives
 <2>2. Grows
   BY <1>18 DEF Leave, Grows
 <2>3. asking'[a].state # "found"
   BY <1>18, LeaveStep DEF Moves, Gives, Over
 <2> QED BY <2>1, <2>2, <2>3, FoundStep
<1>19. ASSUME NEW s \in Logins, ProviderEnds(s) PROVE FoundIsWhole'
  BY <1>19 DEF ProviderEnds, FoundIsWhole, At, User, Holds
<1>20. ASSUME Tick PROVE FoundIsWhole'
  BY <1>20 DEF Tick, FoundIsWhole, At, User, Holds
<1> QED
  BY <1>1, <1>2, <1>3, <1>4, <1>5, <1>6, <1>7, <1>8, <1>9, <1>10,
     <1>11, <1>12, <1>13, <1>14, <1>15, <1>16, <1>17, <1>18, <1>19, <1>20 DEF SessionsNext

\* Nobody is answered without an account, when accounts only grow.
LEMMA AnsweredStep ==
    ASSUME SessionsTypeOK, Sorted, AccountIsWhole, NEW a \in Actors, Others(a), Grows,
           \A u \in Users : <<account'[u], tenants'[u]>> \in {<<{}, 0>>, <<AccountRows, 1>>},
           asking'[a].answer = "ok" /\ a \notin Logouts => account'[User(a)'] = AccountRows
    PROVE  AccountIsWhole'
<1> SUFFICES ASSUME NEW b \in Logins \cup Calls \cup Bearers, asking'[b].answer = "ok", b # a
             PROVE  account'[User(b)'] = AccountRows
  BY SessionsAssumption DEF AccountIsWhole, Actors
<1>1. asking'[b] = asking[b] /\ User(b)' = User(b)
  BY DEF Others, User, Holds, Actors
<1>2. account[User(b)] = AccountRows
  BY <1>1 DEF AccountIsWhole
<1>3. User(b) \in Users
  BY <1>1, SessionsAssumption DEF Sorted, Fits, User, Holds, Actors
<1> QED BY <1>1, <1>2, <1>3 DEF Grows

LEMMA AccountIsWholeKept ==
    ASSUME SessionsInv, SessionsNext
    PROVE  AccountIsWhole'
<1> USE SessionsAssumption DEF SessionsInv
<1>1. ASSUME NEW a \in Actors, FindUser(a) PROVE AccountIsWhole'
 <2>1. Others(a)
   BY <1>1, FindUserStep DEF Moves, Gives
 <2>2. Grows /\ \A u \in Users : <<account'[u], tenants'[u]>> \in {<<{}, 0>>, <<AccountRows, 1>>}
   BY <1>1 DEF FindUser, Grows, AccountIsWhole
 <2>3. asking'[a].answer # "ok"
   BY <1>1, FindUserStep DEF Moves, Gives, Sorted, Fits, Over, At
 <2> QED BY <2>1, <2>2, <2>3, AnsweredStep
<1>2. ASSUME NEW a \in Actors, InsertUser(a) PROVE AccountIsWhole'
 <2>1. Others(a)
   BY <1>2, InsertUserStep DEF Moves, Gives
 <2>2. Grows /\ \A u \in Users : <<account'[u], tenants'[u]>> \in {<<{}, 0>>, <<AccountRows, 1>>}
   BY <1>2 DEF InsertUser, Grows, AccountIsWhole
 <2>3. asking'[a].answer # "ok"
   BY <1>2, InsertUserStep DEF Moves, Gives, Sorted, Fits, Over, At
 <2> QED BY <2>1, <2>2, <2>3, AnsweredStep
<1>3. ASSUME NEW a \in Actors, InsertAccount(a) PROVE AccountIsWhole'
 <2>1. Others(a)
   BY <1>3, InsertAccountStep DEF Moves, Gives
 <2>2. Grows /\ \A u \in Users : <<account'[u], tenants'[u]>> \in {<<{}, 0>>, <<AccountRows, 1>>}
   BY <1>3, AccountsStep
 <2>3. asking'[a].answer # "ok"
   BY <1>3, InsertAccountStep DEF Moves, Gives, Sorted, Fits, Over, At
 <2> QED BY <2>1, <2>2, <2>3, AnsweredStep
<1>4. ASSUME NEW a \in Actors, InsertFails(a) PROVE AccountIsWhole'
 <2>1. Others(a)
   BY <1>4, InsertFailsStep DEF Moves, Gives
 <2>2. Grows /\ \A u \in Users : <<account'[u], tenants'[u]>> \in {<<{}, 0>>, <<AccountRows, 1>>}
   BY <1>4 DEF InsertFails, Grows, AccountIsWhole
 <2>3. asking'[a].answer # "ok"
   BY <1>4, InsertFailsStep DEF Moves, Gives, Sorted, Fits, Over, At
 <2> QED BY <2>1, <2>2, <2>3, AnsweredStep
<1>5. ASSUME NEW a \in Actors, BeginLogin(a) PROVE AccountIsWhole'
 <2>1. Others(a)
   BY <1>5, BeginLoginStep DEF Moves, Gives
 <2>2. Grows /\ \A u \in Users : <<account'[u], tenants'[u]>> \in {<<{}, 0>>, <<AccountRows, 1>>}
   BY <1>5 DEF BeginLogin, Grows, AccountIsWhole
 <2>3. asking'[a].answer # "ok"
   BY <1>5, BeginLoginStep DEF Moves, Gives, Sorted, Fits, Over, At
 <2> QED BY <2>1, <2>2, <2>3, AnsweredStep
<1>6. ASSUME NEW a \in Actors, ReturnFromLogin(a) PROVE AccountIsWhole'
 <2>1. Others(a)
   BY <1>6, ReturnFromLoginStep DEF Moves, Gives
 <2>2. Grows /\ \A u \in Users : <<account'[u], tenants'[u]>> \in {<<{}, 0>>, <<AccountRows, 1>>}
   BY <1>6 DEF ReturnFromLogin, Grows, AccountIsWhole
 <2>3. asking'[a].answer # "ok"
   BY <1>6, ReturnFromLoginStep DEF Moves, Gives, Sorted, Fits, Over, At
 <2> QED BY <2>1, <2>2, <2>3, AnsweredStep
<1>7. ASSUME NEW a \in Actors, CreateSession(a) PROVE AccountIsWhole'
 <2>1. Others(a)
   BY <1>7, CreateSessionStep DEF Moves, Gives
 <2>2. Grows /\ \A u \in Users : <<account'[u], tenants'[u]>> \in {<<{}, 0>>, <<AccountRows, 1>>}
   BY <1>7 DEF CreateSession, Grows, AccountIsWhole
 <2>3. ASSUME asking'[a].answer = "ok" PROVE account'[User(a)'] = AccountRows
  <3>1. At(a, "found") /\ User(a)' = User(a)
    BY <1>7, CreateSessionStep DEF Moves, Gives, User, Holds
  <3> QED BY <1>7, <3>1 DEF CreateSession, FoundIsWhole
 <2> QED BY <2>1, <2>2, <2>3, AnsweredStep
<1>8. ASSUME NEW a \in Actors, Send(a) PROVE AccountIsWhole'
 <2>1. Others(a)
   BY <1>8, SendStep DEF Moves, Gives
 <2>2. Grows /\ \A u \in Users : <<account'[u], tenants'[u]>> \in {<<{}, 0>>, <<AccountRows, 1>>}
   BY <1>8 DEF Send, Grows, AccountIsWhole
 <2>3. asking'[a].answer # "ok"
   BY <1>8, SendStep DEF Moves, Gives, Sorted, Fits, Over, At
 <2> QED BY <2>1, <2>2, <2>3, AnsweredStep
<1>9. ASSUME NEW a \in Actors, LookUp(a) PROVE AccountIsWhole'
 <2>1. Others(a)
   BY <1>9, LookUpStep DEF Moves, Gives
 <2>2. Grows /\ \A u \in Users : <<account'[u], tenants'[u]>> \in {<<{}, 0>>, <<AccountRows, 1>>}
   BY <1>9 DEF LookUp, Grows, AccountIsWhole
 <2>3. asking'[a].answer # "ok"
   BY <1>9, LookUpStep DEF Moves, Gives, Sorted, Fits, Over, At
 <2> QED BY <2>1, <2>2, <2>3, AnsweredStep
<1>10. ASSUME NEW a \in Actors, DeleteSession(a) PROVE AccountIsWhole'
 <2>1. Others(a)
   BY <1>10, DeleteSessionStep DEF Moves, Gives
 <2>2. Grows /\ \A u \in Users : <<account'[u], tenants'[u]>> \in {<<{}, 0>>, <<AccountRows, 1>>}
   BY <1>10 DEF DeleteSession, Grows, AccountIsWhole
 <2>3. asking'[a].answer # "ok"
   BY <1>10, DeleteSessionStep DEF Moves, Gives, Sorted, Fits, Over, At
 <2> QED BY <2>1, <2>2, <2>3, AnsweredStep
<1>11. ASSUME NEW a \in Actors, Refresh(a) PROVE AccountIsWhole'
 <2>1. Others(a)
   BY <1>11, RefreshStep DEF Moves, Gives
 <2>2. Grows /\ \A u \in Users : <<account'[u], tenants'[u]>> \in {<<{}, 0>>, <<AccountRows, 1>>}
   BY <1>11 DEF Refresh, Grows, AccountIsWhole
 <2>3. asking'[a].answer # "ok"
   BY <1>11, RefreshStep DEF Moves, Gives, Sorted, Fits, Over, At
 <2> QED BY <2>1, <2>2, <2>3, AnsweredStep
<1>12. ASSUME NEW a \in Actors, Decode(a) PROVE AccountIsWhole'
 <2>1. Others(a)
   BY <1>12, DecodeStep DEF Moves, Gives
 <2>2. Grows /\ \A u \in Users : <<account'[u], tenants'[u]>> \in {<<{}, 0>>, <<AccountRows, 1>>}
   BY <1>12 DEF Decode, Grows, AccountIsWhole
 <2>3. asking'[a].answer # "ok"
   BY <1>12, DecodeStep DEF Moves, Gives, Sorted, Fits, Over, At
 <2> QED BY <2>1, <2>2, <2>3, AnsweredStep
<1>13. ASSUME NEW a \in Actors, SaveSession(a) PROVE AccountIsWhole'
 <2>1. Others(a)
   BY <1>13, SaveSessionStep DEF Moves, Gives
 <2>2. Grows /\ \A u \in Users : <<account'[u], tenants'[u]>> \in {<<{}, 0>>, <<AccountRows, 1>>}
   BY <1>13 DEF SaveSession, Grows, AccountIsWhole
 <2>3. ASSUME asking'[a].answer = "ok" PROVE account'[User(a)'] = AccountRows
  <3>1. At(a, "found") /\ User(a)' = User(a)
    BY <1>13, SaveSessionStep DEF Moves, Gives, User, Holds
  <3> QED BY <1>13, <3>1 DEF SaveSession, FoundIsWhole
 <2> QED BY <2>1, <2>2, <2>3, AnsweredStep
<1>14. ASSUME NEW a \in Actors, CallWithToken(a) PROVE AccountIsWhole'
 <2>1. Others(a)
   BY <1>14, CallWithTokenStep DEF Moves, Gives
 <2>2. Grows /\ \A u \in Users : <<account'[u], tenants'[u]>> \in {<<{}, 0>>, <<AccountRows, 1>>}
   BY <1>14 DEF CallWithToken, Grows, AccountIsWhole
 <2>3. asking'[a].answer # "ok"
   BY <1>14, CallWithTokenStep DEF Moves, Gives, Sorted, Fits, Over, At
 <2> QED BY <2>1, <2>2, <2>3, AnsweredStep
<1>15. ASSUME NEW a \in Actors, AnswerToken(a) PROVE AccountIsWhole'
 <2>1. Others(a)
   BY <1>15, AnswerTokenStep DEF Moves, Gives
 <2>2. Grows /\ \A u \in Users : <<account'[u], tenants'[u]>> \in {<<{}, 0>>, <<AccountRows, 1>>}
   BY <1>15 DEF AnswerToken, Grows, AccountIsWhole
 <2>3. ASSUME asking'[a].answer = "ok" PROVE account'[User(a)'] = AccountRows
  <3>1. At(a, "found") /\ User(a)' = User(a)
    BY <1>15, AnswerTokenStep DEF Moves, Gives, User, Holds
  <3> QED BY <1>15, <3>1 DEF AnswerToken, FoundIsWhole
 <2> QED BY <2>1, <2>2, <2>3, AnsweredStep
<1>16. ASSUME NEW a \in Actors, Receive(a) PROVE AccountIsWhole'
 <2>1. Others(a)
   BY <1>16, ReceiveStep DEF Moves, Gives
 <2>2. Grows /\ \A u \in Users : <<account'[u], tenants'[u]>> \in {<<{}, 0>>, <<AccountRows, 1>>}
   BY <1>16 DEF Receive, Grows, AccountIsWhole
 <2>3. ASSUME asking'[a].answer = "ok", a \notin Logouts PROVE account'[User(a)'] = AccountRows
  <3>1. asking[a].answer = "ok" /\ User(a)' = User(a)
    BY <1>16, <2>3, ReceiveStep DEF Moves, User, Holds
  <3> QED BY <1>16, <2>3, <3>1 DEF Receive, AccountIsWhole, Actors
 <2> QED BY <2>1, <2>2, <2>3, AnsweredStep
<1>17. ASSUME NEW a \in Actors, LeaveProvider(a) PROVE AccountIsWhole'
 <2>1. Others(a)
   BY <1>17, LeaveProviderStep DEF Moves, Gives
 <2>2. Grows /\ \A u \in Users : <<account'[u], tenants'[u]>> \in {<<{}, 0>>, <<AccountRows, 1>>}
   BY <1>17 DEF LeaveProvider, Grows, AccountIsWhole
 <2>3. a \in Logouts
   BY <1>17 DEF LeaveProvider, Sorted, Fits, At
 <2> QED BY <2>1, <2>2, <2>3, AnsweredStep
<1>18. ASSUME NEW a \in Actors, Leave(a) PROVE AccountIsWhole'
 <2>1. Others(a)
   BY <1>18, LeaveStep DEF Moves, Gives
 <2>2. Grows /\ \A u \in Users : <<account'[u], tenants'[u]>> \in {<<{}, 0>>, <<AccountRows, 1>>}
   BY <1>18 DEF Leave, Grows, AccountIsWhole
 <2>3. a \in Logouts
   BY <1>18 DEF Leave, Sorted, Fits, At
 <2> QED BY <2>1, <2>2, <2>3, AnsweredStep
<1>19. ASSUME NEW s \in Logins, ProviderEnds(s) PROVE AccountIsWhole'
  BY <1>19 DEF ProviderEnds, AccountIsWhole, User, Holds
<1>20. ASSUME Tick PROVE AccountIsWhole'
  BY <1>20 DEF Tick, AccountIsWhole, User, Holds
<1> QED
  BY <1>1, <1>2, <1>3, <1>4, <1>5, <1>6, <1>7, <1>8, <1>9, <1>10,
     <1>11, <1>12, <1>13, <1>14, <1>15, <1>16, <1>17, <1>18, <1>19, <1>20 DEF SessionsNext

----
(* Theorems.                                                               *)

LEMMA SessionsStepInv == SessionsInv /\ [SessionsNext]_sessionsVars => SessionsInv'
<1> SUFFICES ASSUME SessionsInv, [SessionsNext]_sessionsVars PROVE SessionsInv'
  OBVIOUS
<1>1. CASE UNCHANGED sessionsVars
 <2>1. SessionsTypeOK' /\ Sorted' /\ Made' /\ RowsTimely' /\ ReadsTimely'
   BY <1>1 DEF sessionsVars, SessionsInv, SessionsTypeOK, Sorted, Made, RowsTimely, ReadsTimely, Holds, Row
 <2>2. ExpiredHasCause' /\ OneInserts' /\ FoundIsWhole'
   BY <1>1 DEF sessionsVars, SessionsInv, ExpiredHasCause, OneInserts, FoundIsWhole, At, Holds, User
 <2>3. EndedStaysEnded' /\ EndedHasCause' /\ AccountIsWhole'
   BY <1>1 DEF sessionsVars, SessionsInv, EndedStaysEnded, EndedHasCause, AccountIsWhole, Holds, User
 <2> QED BY <2>1, <2>2, <2>3 DEF SessionsInv
<1>2. CASE SessionsNext
  BY <1>2, TypeKept, SortedKept, MadeKept, RowsTimelyKept, ReadsTimelyKept, ExpiredHasCauseKept,
     OneInsertsKept, FoundIsWholeKept, EndedStaysEndedKept, EndedHasCauseKept, AccountIsWholeKept
  DEF SessionsInv
<1> QED BY <1>1, <1>2

LEMMA SessionsInvariant == SessionsSpec => []SessionsInv
  BY SessionsInitInv, SessionsStepInv, PTL DEF SessionsSpec

LEMMA SessionsShow == SessionsInv => SessionsTypeOK /\ SessionsAreSound
  BY DEF SessionsInv, SessionsAreSound

\* Every part of the sessions and accounts has its type, in every reachable state.
THEOREM SessionsTypeCorrect == SessionsSpec => []SessionsTypeOK
  BY SessionsInvariant, SessionsShow, PTL

\* A session whose row is gone never comes back, none ends without a cause, and first
\* requests of one user make one whole account (get_auth_context, provision_user_context).
THEOREM SessionsCorrect == SessionsSpec => []SessionsAreSound
  BY SessionsInvariant, SessionsShow, PTL

----
(***************************************************************************)
(* Shared views.                                                           *)
(***************************************************************************)
----
(* The induction.                                                          *)

Added(b) == {x \in Assets : adding[x] = b}
Working(b) == Stage(b) \in {"adding", "making", "pruning", "committing"}

\* d is a later bundle of the project of c.
Above(c, d) == Home[d] = Home[c] /\ taking[d].made > taking[c].made

\* What a result has passed is held, or in its own transaction; what retention
\* drops, or has dropped, has a later bundle of its project that is stored, or
\* is about to be in the same commit.
BundleFits(b) ==
    /\ Stage(b) = "adding" =>
          /\ \A x \in NamedBy(b) : x \in taking[b].got \/ x \in depot
          /\ \A i \in DOMAIN Scene[b] : i < taking[b].next => Scene[b][i] \in depot \cup Added(b)
    /\ Stage(b) = "making" => ~taking[b].scene
    /\ Stage(b) \in {"pruning", "committing"} /\ taking[b].scene => NamedBy(b) \subseteq depot \cup Added(b)
    /\ Working(b) => b \notin finished
    /\ Stage(b) = "committing" =>
          \A c \in taking[b].drops :
              c \in finished \cup {b} /\ \E d \in finished \cup {b} : Above(c, d)
    /\ taking[b].made <= stamp
    /\ served[b] # <<>> =>
          /\ b \in finished /\ served[b][1].made = taking[b].made
          /\ served[b][1].scene => NamedBy(b) \subseteq depot
    /\ b \in finished /\ served[b] = <<>> => \E d \in finished : Above(b, d)

BundlesFit == \A b \in Bundles : BundleFits(b)

\* A token is of a link that was made, and a made link keeps its project.
Named(l) == l \in Links /\ link[l].project # NoOne
LinksFit == \A t \in copied : Named(t[1])

\* Through a link, the model read is a stored one of its project, and an asset
\* that was found in its scene is held.
ViewFits(v) ==
    /\ view[v].state # "answered" => view[v].answer = "none"
    /\ view[v].link # NoOne =>
       /\ Named(view[v].link) /\ view[v].project = link[view[v].link].project
       /\ view[v].asks \in LinkAsks
       /\ view[v].state \notin {"new", "manifest"}
       /\ view[v].answer # "lost"
       /\ view[v].state \in {"model", "asset"} =>
             view[v].bundle \in finished /\ Home[view[v].bundle] = view[v].project
       /\ view[v].state = "asset" => view[v].asset \in NamedBy(view[v].bundle) /\ view[v].asset \in depot
       /\ (view[v].asks = "asset" /\ view[v].answer = "ok") =>
              \E b \in finished : Home[b] = view[v].project /\ view[v].asset \in NamedBy(b)

ViewsFit == \A v \in Views : ViewFits(v)

SharedInv == SharedTypeOK /\ BundlesFit /\ LinksFit /\ ViewsFit

----
(* Operators.                                                              *)

LEMMA SceneType ==
    ASSUME NEW b \in Bundles
    PROVE  /\ Len(Scene[b]) \in Nat /\ DOMAIN Scene[b] = 1..Len(Scene[b])
           /\ NamedBy(b) \subseteq Assets
           /\ \A i \in DOMAIN Scene[b] : Scene[b][i] \in NamedBy(b)
           /\ \A x \in NamedBy(b) : \E i \in DOMAIN Scene[b] : x = Scene[b][i]
<1>1. Scene[b] \in Seq(Assets)
  BY SharedAssumption
<1>2. NamedBy(b) \subseteq Assets
  BY DEF NamedBy, Assets
<1> QED BY <1>1, <1>2 DEF NamedBy

\* The row of one result after a step of it.
Turns(b, r) ==
    /\ r \in Takings /\ taking' \in [Bundles -> Takings] /\ taking'[b] = r
    /\ \A c \in Bundles : c # b => taking'[c] = taking[c]

LEMMA RowTurns ==
    ASSUME taking \in [Bundles -> Takings], NEW b \in Bundles, NEW r \in Takings,
           taking' = [taking EXCEPT ![b] = r]
    PROVE  Turns(b, r)
BY DEF Turns

LEMMA TakingType ==
    ASSUME SharedTypeOK, NEW b \in Bundles
    PROVE  taking \in [Bundles -> Takings] /\ taking[b] \in Takings
BY DEF SharedTypeOK

LEMMA ForgottenType ==
    ASSUME SharedTypeOK, NEW b \in Bundles
    PROVE  /\ Forgotten(b) \in Takings /\ Forgotten(b).made = taking[b].made
           /\ Forgotten(b).taken = taking[b].taken
<1>0. PICK t \in Takings : t = taking[b]
  BY TakingType
<1> DEFINE r == [t EXCEPT !.got = {}, !.next = 1, !.drops = {}]
<1>1. r \in Takings /\ r.made = t.made /\ r.taken = t.taken
  BY DEF Takings
<1>2. Forgotten(b) = r
  BY <1>0 DEF Forgotten
<1> QED BY <1>0, <1>1, <1>2

\* Undone: the rows added in the transaction are gone, its time stays.
LEMMA UndoneRow ==
    ASSUME SharedTypeOK, NEW b \in Bundles, Undone(b)
    PROVE  /\ \E r \in Takings : /\ Turns(b, r) /\ r.made = taking[b].made
                                 /\ r.state \in {"due", "over"}
           /\ adding' \in [Assets -> Bundles \cup {NoOne}]
           /\ \A x \in Assets, c \in Bundles : c # b => (adding'[x] = c <=> adding[x] = c)
<1>0. PICK t \in Takings : t = Forgotten(b) /\ t.made = taking[b].made /\ t.taken = taking[b].taken
  BY ForgottenType
<1>6. PICK next \in Nat : next = t.taken + 1
  BY DEF Takings
<1> DEFINE again == [t EXCEPT !.state = "due", !.taken = next]
           last == [t EXCEPT !.state = "over"]
           r == IF t.taken < MaxTaken THEN again ELSE last
<1>1. r \in Takings /\ r.made = t.made /\ r.state \in {"due", "over"}
 <2>1. again \in Takings /\ again.made = t.made /\ again.state = "due"
   BY DEF Takings
 <2>2. last \in Takings /\ last.made = t.made /\ last.state = "over"
   BY DEF Takings
 <2> QED BY <2>1, <2>2
<1>2. taking' = [taking EXCEPT ![b] = r]
  BY <1>0, <1>6 DEF Undone
<1> HIDE DEF r
<1>3. Turns(b, r)
  BY <1>1, <1>2, RowTurns, TakingType
<1>4. adding' = [x \in Assets |-> IF adding[x] = b THEN NoOne ELSE adding[x]]
  BY DEF Undone
<1>5. NoOne \notin Bundles /\ adding \in [Assets -> Bundles \cup {NoOne}]
  BY SharedAssumption DEF SharedTypeOK
<1> QED BY <1>0, <1>1, <1>3, <1>4, <1>5

LEMMA FetchRow ==
    ASSUME SharedTypeOK, NEW b \in Bundles, FetchSceneAssets(b)
    PROVE  \E r \in Takings : Turns(b, r) /\ r.made = taking[b].made /\ r.state = "fetched"
<1>1. PICK got \in {NamedBy(b) \ depot, {}} :
        taking' = [taking EXCEPT ![b] = [@ EXCEPT !.state = "fetched", !.got = got]]
  BY DEF FetchSceneAssets
<1>0. PICK t \in Takings : t = taking[b]
  BY TakingType
<1> DEFINE r == [t EXCEPT !.state = "fetched", !.got = got]
<1>2. got \subseteq Assets
  BY SceneType
<1>3. r \in Takings /\ r.made = t.made /\ r.state = "fetched"
  BY <1>2 DEF Takings
<1>4. taking' = [taking EXCEPT ![b] = r]
  BY <1>0, <1>1
<1> HIDE DEF r
<1> QED BY <1>0, <1>3, <1>4, RowTurns, TakingType

LEMMA StoreRow ==
    ASSUME SharedTypeOK, NEW b \in Bundles, StoreSceneAssets(b)
    PROVE  \E r \in Takings :
              /\ Turns(b, r) /\ r.made = taking[b].made
              /\ \/ b \in finished /\ r.state = "acking"
                 \/ b \notin finished /\ r.state = "adding" /\ r.next = 1 /\ r.got = NamedBy(b) \ depot
                 \/ b \notin finished /\ r.state = "making" /\ r.scene = FALSE
<1>0. PICK t \in Takings : t = taking[b]
  BY TakingType
<1>4. PICK u \in Takings : u = Forgotten(b) /\ u.made = t.made
  BY <1>0, ForgottenType
<1> DEFINE whole == Scene[b] # <<>> /\ NamedBy(b) \subseteq depot \cup taking[b].got
           r == IF b \in finished THEN [u EXCEPT !.state = "acking"]
                ELSE [t EXCEPT !.state = IF whole THEN "adding" ELSE "making", !.next = 1,
                                       !.scene = whole, !.got = NamedBy(b) \ depot]
<1>1. taking' = [taking EXCEPT ![b] = r]
  BY <1>0, <1>4 DEF StoreSceneAssets
<1>2. whole \in BOOLEAN /\ NamedBy(b) \ depot \subseteq Assets
  BY SceneType
<1> HIDE DEF whole
<1>3. /\ r \in Takings /\ r.made = t.made
      /\ \/ b \in finished /\ r.state = "acking"
         \/ b \notin finished /\ r.state = "adding" /\ r.next = 1 /\ r.got = NamedBy(b) \ depot
         \/ b \notin finished /\ r.state = "making" /\ r.scene = FALSE
  BY <1>2, <1>4 DEF Takings
<1> HIDE DEF r
<1> QED BY <1>0, <1>1, <1>3, RowTurns, TakingType

\* The next asset: passed, inserted, or found to be held by now.
LEMMA AddRow ==
    ASSUME SharedTypeOK, NEW b \in Bundles, AddAsset(b)
    PROVE  \/ /\ \E r \in Takings :
                    /\ Turns(b, r) /\ r.made = taking[b].made /\ r.state = "adding"
                    /\ r.next = taking[b].next + 1 /\ r.got = taking[b].got
              /\ Scene[b][taking[b].next] \notin taking[b].got
              /\ adding' = adding
           \/ /\ \E r \in Takings :
                    /\ Turns(b, r) /\ r.made = taking[b].made /\ r.state = "adding"
                    /\ r.next = taking[b].next + 1 /\ r.got = taking[b].got
              /\ adding[Scene[b][taking[b].next]] = NoOne
              /\ adding' = [adding EXCEPT ![Scene[b][taking[b].next]] = b]
           \/ Undone(b)
<1> DEFINE r == [taking[b] EXCEPT !.next = taking[b].next + 1]
           x == Scene[b][taking[b].next]
<1>1. /\ r \in Takings /\ r.made = taking[b].made /\ r.state = taking[b].state
      /\ r.next = taking[b].next + 1 /\ r.got = taking[b].got
  BY TakingType DEF Takings
<1>2. r.state = "adding"
  BY <1>1 DEF AddAsset, Stage
<1>3. ASSUME taking' = [taking EXCEPT ![b].next = @ + 1] PROVE Turns(b, r)
 <2>1. taking' = [taking EXCEPT ![b] = r]
   BY <1>3
 <2> HIDE DEF r
 <2> QED BY <1>1, <2>1, RowTurns, TakingType
<1>4. \/ /\ x \notin taking[b].got
         /\ taking' = [taking EXCEPT ![b].next = @ + 1] /\ UNCHANGED adding
      \/ /\ adding[x] = NoOne
         /\ taking' = [taking EXCEPT ![b].next = @ + 1]
         /\ adding' = [adding EXCEPT ![x] = b]
      \/ Undone(b)
  BY DEF AddAsset
<1> HIDE DEF r
<1> QED BY <1>1, <1>2, <1>3, <1>4

LEMMA MakeRow ==
    ASSUME SharedTypeOK, NEW b \in Bundles, MakeArtifacts(b)
    PROVE  \E r \in Takings : /\ Turns(b, r) /\ r.made = stamp + 1 /\ r.state = "pruning"
                              /\ r.scene = taking[b].scene
<1>0. PICK t \in Takings : t = taking[b]
  BY TakingType
<1>3. PICK time \in Nat : time = stamp + 1
  BY DEF SharedTypeOK
<1> DEFINE r == [t EXCEPT !.state = "pruning", !.made = time]
<1>1. r \in Takings /\ r.made = time /\ r.state = "pruning" /\ r.scene = t.scene
  BY DEF Takings
<1>2. taking' = [taking EXCEPT ![b] = r]
  BY <1>0, <1>3 DEF MakeArtifacts
<1> HIDE DEF r
<1> QED BY <1>0, <1>3, <1>1, <1>2, RowTurns, TakingType

\* The time of a bundle that the retention of another result can see.
SeenMade(b, c) == IF c = b THEN taking[b].made ELSE served[c][1].made

LEMMA SelectRow ==
    ASSUME SharedTypeOK, NEW b \in Bundles, SelectOldBundles(b)
    PROVE  \E r \in Takings :
              /\ Turns(b, r) /\ r.made = taking[b].made /\ r.state = "committing"
              /\ r.scene = taking[b].scene
              /\ \A c \in r.drops :
                    /\ c \in Shown(Home[b]) \cup {b}
                    /\ \E d \in Shown(Home[b]) \cup {b} : SeenMade(b, d) > SeenMade(b, c)
<1>0. PICK t \in Takings : t = taking[b]
  BY TakingType
<1> DEFINE rows == Shown(Home[b]) \cup {b}
           newer(c) == {d \in rows : SeenMade(b, d) > SeenMade(b, c)}
           drops == {c \in rows : Cardinality(newer(c)) >= KeptBundles}
           r == [t EXCEPT !.state = "committing", !.drops = drops]
<1>1. drops \subseteq Bundles
  BY DEF Shown
<1>2. taking' = [taking EXCEPT ![b] = r]
  BY <1>0 DEF SelectOldBundles, SeenMade
<1>3. ASSUME NEW c \in drops PROVE c \in rows /\ newer(c) # {}
 <2>1. Cardinality(newer(c)) >= KeptBundles /\ KeptBundles \in Nat \ {0}
   BY SharedAssumption
 <2> HIDE DEF newer
 <2> QED BY <2>1, FS_EmptySet
<1>4. \A c \in drops : c \in rows /\ \E d \in rows : SeenMade(b, d) > SeenMade(b, c)
  BY <1>3
<1> HIDE DEF drops, rows
<1>5. /\ r \in Takings /\ r.made = t.made /\ r.state = "committing"
      /\ r.scene = t.scene /\ r.drops = drops
  BY <1>1 DEF Takings
<1> HIDE DEF r
<1>6. Turns(b, r)
  BY <1>2, <1>5, RowTurns, TakingType
<1> QED BY <1>0, <1>4, <1>5, <1>6 DEF rows

LEMMA CommitRow ==
    ASSUME SharedTypeOK, NEW b \in Bundles, CommitResult(b)
    PROVE  \E r \in Takings : Turns(b, r) /\ r.made = taking[b].made /\ r.state = "acking"
<1> DEFINE r == [Forgotten(b) EXCEPT !.state = "acking"]
<1>1. r \in Takings /\ r.made = taking[b].made /\ r.state = "acking"
  BY TakingType, ForgottenType DEF Takings
<1>2. taking' = [taking EXCEPT ![b] = r]
  BY DEF CommitResult
<1> HIDE DEF r
<1> QED BY <1>1, <1>2, RowTurns, TakingType

LEMMA AckRow ==
    ASSUME SharedTypeOK, NEW b \in Bundles, AckResult(b)
    PROVE  \E r \in Takings : Turns(b, r) /\ r.made = taking[b].made /\ r.state = "over"
<1> DEFINE r == [taking[b] EXCEPT !.state = "over"]
<1>1. r \in Takings /\ r.made = taking[b].made /\ r.state = "over"
  BY TakingType DEF Takings
<1>2. taking' = [taking EXCEPT ![b] = r]
  BY DEF AckResult
<1> HIDE DEF r
<1> QED BY <1>1, <1>2, RowTurns, TakingType
----
(* Types.                                                                  *)

Receives(b) ==
    \/ FetchSceneAssets(b) \/ StoreSceneAssets(b) \/ AddAsset(b) \/ AddDeadlocks(b) \/ MakeArtifacts(b)
    \/ SelectOldBundles(b) \/ CommitResult(b) \/ ReceiveFails(b) \/ AckResult(b)

Owns ==
    \/ \E p \in Sites : NewProject(p) \/ ActivateProject(p)
    \/ \E l \in Links : CreateShare(l) \/ RevokeShare(l)
    \/ ListShares \/ RotateSecret

Looks(v) ==
    \/ OpenLink(v) \/ OpenOwn(v) \/ ReadManifest(v) \/ ReadModel(v) \/ ReadScene(v) \/ ReadAsset(v)
    \/ ReadDimensions(v)

Servings == [made : Nat, scene : BOOLEAN]

TakingTypes ==
    /\ taking \in [Bundles -> Takings]
    /\ depot \subseteq Assets /\ adding \in [Assets -> Bundles \cup {NoOne}]
    /\ served \in [Bundles -> Seq(Servings)] /\ stamp \in Nat /\ finished \subseteq Bundles
OwnerTypes ==
    /\ opened \subseteq Sites /\ chosen \in Sites \cup {NoOne}
    /\ link \in [Links -> [project : Sites \cup {NoOne}, revoked : BOOLEAN]]
    /\ key \in Keys \cup {NoOne} /\ copied \subseteq Links \X Keys
ViewTypes == view \in [Views -> Reading]

LEMMA TypeParts == SharedTypeOK <=> TakingTypes /\ OwnerTypes /\ ViewTypes
BY DEF SharedTypeOK, TakingTypes, OwnerTypes, ViewTypes, Servings

\* Every bundle that finishes becomes so by a commit: nothing else serves.
LEMMA OthersServeNothing ==
    ASSUME NEW b \in Bundles, Receives(b), ~CommitResult(b)
    PROVE  UNCHANGED <<depot, served, finished>>
BY DEF Receives, FetchSceneAssets, StoreSceneAssets, AddAsset, AddDeadlocks, MakeArtifacts,
   SelectOldBundles, ReceiveFails, AckResult

LEMMA ReceivesElsewhere ==
    ASSUME NEW b \in Bundles, Receives(b)
    PROVE  UNCHANGED <<ownerVars, view>>
BY DEF Receives, FetchSceneAssets, StoreSceneAssets, AddAsset, AddDeadlocks, MakeArtifacts,
   SelectOldBundles, CommitResult, ReceiveFails, AckResult

LEMMA CommitType ==
    ASSUME SharedTypeOK, NEW b \in Bundles, CommitResult(b)
    PROVE  TakingTypes'
<1>1. taking' \in [Bundles -> Takings]
  BY CommitRow DEF Turns
<1>2. depot' \subseteq Assets /\ finished' \subseteq Bundles /\ stamp' \in Nat
  BY DEF CommitResult, SharedTypeOK
<1>3. adding' \in [Assets -> Bundles \cup {NoOne}]
  BY DEF CommitResult, SharedTypeOK
<1>4. served' \in [Bundles -> Seq(Servings)]
 <2> DEFINE row(c) == IF c \in taking[b].drops THEN <<>>
                      ELSE IF c = b THEN <<[made |-> taking[b].made, scene |-> taking[b].scene]>>
                      ELSE served[c]
 <2>1. served' = [c \in Bundles |-> row(c)]
   BY DEF CommitResult
 <2>2. ASSUME NEW c \in Bundles PROVE row(c) \in Seq(Servings)
  <3>1. <<>> \in Seq(Servings) /\ served[c] \in Seq(Servings)
    BY DEF SharedTypeOK, Servings
  <3>2. [made |-> taking[b].made, scene |-> taking[b].scene] \in Servings
    BY TakingType DEF Takings, Servings
  <3>3. <<[made |-> taking[b].made, scene |-> taking[b].scene]>> \in Seq(Servings)
    BY <3>2
  <3> QED BY <3>1, <3>3
 <2> HIDE DEF row
 <2> QED BY <2>1, <2>2
<1> QED BY <1>1, <1>2, <1>3, <1>4 DEF TakingTypes

LEMMA ReceivesType ==
    ASSUME SharedTypeOK, NEW b \in Bundles, Receives(b)
    PROVE  TakingTypes'
<1>0. TakingTypes /\ stamp + 1 \in Nat
  BY TypeParts DEF TakingTypes
<1>1. taking' \in [Bundles -> Takings]
  BY FetchRow, StoreRow, AddRow, UndoneRow, MakeRow, SelectRow, CommitRow, AckRow
     DEF Receives, Turns, AddDeadlocks, ReceiveFails
<1>2. CASE CommitResult(b)
  BY <1>2, CommitType
<1>3. CASE ~CommitResult(b)
 <2>1. adding' \in [Assets -> Bundles \cup {NoOne}]
  <3>1. CASE Undone(b)
    BY <3>1, UndoneRow
  <3>2. CASE AddAsset(b)
    BY <3>1, <3>2, AddRow, <1>0 DEF TakingTypes
  <3>3. CASE UNCHANGED adding
    BY <3>3, <1>0 DEF TakingTypes
  <3> QED BY <1>3, <3>1, <3>2, <3>3 DEF Receives, FetchSceneAssets, StoreSceneAssets, AddDeadlocks,
          MakeArtifacts, SelectOldBundles, ReceiveFails, AckResult
 <2>2. stamp' \in {stamp, stamp + 1}
   BY <1>3 DEF Receives, FetchSceneAssets, StoreSceneAssets, AddAsset, AddDeadlocks, MakeArtifacts,
      SelectOldBundles, ReceiveFails, AckResult
 <2> QED BY <1>0, <1>1, <1>3, <2>1, <2>2, OthersServeNothing DEF TakingTypes
<1> QED BY <1>2, <1>3

LEMMA OwnsElsewhere ==
    ASSUME Owns PROVE UNCHANGED <<takingVars, view>>
BY DEF Owns, NewProject, ActivateProject, CreateShare, RevokeShare, ListShares, RotateSecret

LEMMA OwnsType ==
    ASSUME SharedTypeOK, Owns
    PROVE  OwnerTypes'
<1>0. OwnerTypes
  BY TypeParts
<1>1. ASSUME NEW p \in Sites, NewProject(p) \/ ActivateProject(p) PROVE OwnerTypes'
  BY <1>0, <1>1 DEF NewProject, ActivateProject, OwnerTypes
<1>2. ASSUME NEW l \in Links, CreateShare(l) PROVE OwnerTypes'
 <2>1. link' = [link EXCEPT ![l].project = chosen] /\ chosen \in Sites /\ key \in Keys
   BY <1>0, <1>2 DEF CreateShare, OwnerTypes
 <2>2. link' \in [Links -> [project : Sites \cup {NoOne}, revoked : BOOLEAN]]
   BY <1>0, <2>1 DEF OwnerTypes
 <2> QED BY <1>0, <1>2, <2>1, <2>2 DEF CreateShare, OwnerTypes
<1>3. ASSUME NEW l \in Links, RevokeShare(l) PROVE OwnerTypes'
  BY <1>0, <1>3 DEF RevokeShare, OwnerTypes
<1>4. CASE ListShares
  BY <1>0, <1>4 DEF ListShares, OwnerTypes
<1>5. CASE RotateSecret
  BY <1>0, <1>5 DEF RotateSecret, OwnerTypes
<1> QED BY <1>1, <1>2, <1>3, <1>4, <1>5 DEF Owns

LEMMA LooksElsewhere ==
    ASSUME NEW v \in Views, Looks(v) PROVE UNCHANGED <<takingVars, ownerVars>>
BY DEF Looks, OpenLink, OpenOwn, ReadManifest, ReadModel, ReadScene, ReadAsset, ReadDimensions, OnlyView
----
(* Views.                                                                  *)

Sees(v, w) ==
    /\ w \in Reading /\ view' \in [Views -> Reading] /\ view'[v] = w
    /\ \A u \in Views : u # v => view'[u] = view[u]

LEMMA RowSees ==
    ASSUME SharedTypeOK, NEW v \in Views, NEW w \in Reading, view' = [view EXCEPT ![v] = w]
    PROVE  Sees(v, w)
BY DEF Sees, SharedTypeOK

LEMMA ViewType ==
    ASSUME SharedTypeOK, NEW v \in Views
    PROVE  view[v] \in Reading
BY DEF SharedTypeOK

LEMMA ReplyRow ==
    ASSUME SharedTypeOK, NEW v \in Views, NEW answer \in {"none", "ok", "lost", "stale", "closed"},
           Reply(v, answer)
    PROVE  \E w \in Reading :
              /\ Sees(v, w) /\ w.state = "answered" /\ w.answer = answer
              /\ w.link = view[v].link /\ w.project = view[v].project /\ w.asks = view[v].asks
              /\ w.asset = view[v].asset
<1>0. PICK t \in Reading : t = view[v]
  BY ViewType
<1> DEFINE w == [t EXCEPT !.state = "answered", !.answer = answer]
<1>1. /\ w \in Reading /\ w.state = "answered" /\ w.answer = answer
      /\ w.link = t.link /\ w.project = t.project /\ w.asks = t.asks /\ w.asset = t.asset
  BY DEF Reading
<1>2. view' = [view EXCEPT ![v] = w]
  BY <1>0 DEF Reply
<1> HIDE DEF w
<1> QED BY <1>0, <1>1, <1>2, RowSees

\* An answer that is no asset: or one of an asset that its link covers.
LEMMA ReplyFits ==
    ASSUME SharedTypeOK, NEW v \in Views, NEW answer \in {"none", "ok", "lost", "stale", "closed"},
           Reply(v, answer), ViewsFit, UNCHANGED <<takingVars, ownerVars>>,
           view[v].link # NoOne =>
              /\ answer # "lost"
              /\ view[v].asks = "asset" /\ answer = "ok" =>
                    \E b \in finished : Home[b] = view[v].project /\ view[v].asset \in NamedBy(b)
    PROVE  ViewTypes' /\ ViewsFit'
<1>0. ViewFits(v)
  BY DEF ViewsFit
<1>1. PICK w \in Reading :
        /\ Sees(v, w) /\ w.state = "answered" /\ w.answer = answer
        /\ w.link = view[v].link /\ w.project = view[v].project /\ w.asks = view[v].asks
        /\ w.asset = view[v].asset
  BY ReplyRow
<1>2. UNCHANGED <<link, finished, depot>>
  BY DEF takingVars, ownerVars
<1>3. ViewFits(v)'
  BY <1>0, <1>1, <1>2 DEF Sees, ViewFits, Named
<1>4. ASSUME NEW u \in Views, u # v PROVE ViewFits(u)'
  BY <1>1, <1>2, <1>4 DEF Sees, ViewsFit, ViewFits, Named
<1> QED BY <1>1, <1>3, <1>4 DEF Sees, ViewTypes, ViewsFit

\* A step of a view to a row that fits.
LEMMA SeesFits ==
    ASSUME SharedTypeOK, ViewsFit, NEW v \in Views, NEW w \in Reading, Sees(v, w),
           UNCHANGED <<takingVars, ownerVars>>,
           w.state # "answered" => w.answer = "none",
           w.link # NoOne =>
              /\ Named(w.link) /\ w.project = link[w.link].project
              /\ w.asks \in LinkAsks /\ w.state \notin {"new", "manifest"}
              /\ w.answer = "none"
              /\ w.state \in {"model", "asset"} =>
                    w.bundle \in finished /\ Home[w.bundle] = w.project
              /\ w.state = "asset" => w.asset \in NamedBy(w.bundle) /\ w.asset \in depot
    PROVE  ViewTypes' /\ ViewsFit'
<1>1. UNCHANGED <<link, finished, depot>>
  BY DEF takingVars, ownerVars
<1>2. ViewFits(v)'
  BY <1>1 DEF Sees, ViewFits, Named
<1>3. ASSUME NEW u \in Views, u # v PROVE ViewFits(u)'
  BY <1>1, <1>3 DEF Sees, ViewsFit, ViewFits, Named
<1> QED BY <1>2, <1>3 DEF Sees, ViewTypes, ViewsFit

\* What is newest is stored, and of the project that was asked for.
LEMMA NewestIsStored ==
    ASSUME SharedTypeOK, BundlesFit, NEW p, NEW b \in Newest(p)
    PROVE  b \in finished /\ Home[b] = p /\ b \in Bundles
BY DEF Newest, Shown, BundlesFit, BundleFits

LEMMA OpenLinkFits ==
    ASSUME SharedTypeOK, LinksFit, ViewsFit, NEW v \in Views, OpenLink(v)
    PROVE  ViewTypes' /\ ViewsFit'
<1>0. PICK t \in Reading : t = view[v]
  BY ViewType
<1>1. PICK token \in copied, asks \in LinkAsks, x \in Assets \cup {NoOne} :
        IF Opens(token)
        THEN view' = [view EXCEPT ![v] = [@ EXCEPT !.state = "project", !.asks = asks, !.link = token[1],
                                                   !.asset = x, !.project = link[token[1]].project]]
        ELSE Reply(v, "closed")
  BY DEF OpenLink
<1>2. UNCHANGED <<takingVars, ownerVars>> /\ view[v].state = "new" /\ ViewFits(v)
  BY DEF OpenLink, OnlyView, ViewsFit
<1>3. view[v].answer = "none" /\ view[v].link = NoOne
  BY <1>2 DEF ViewFits
<1>4. CASE Opens(token)
 <2>1. Named(token[1])
   BY DEF LinksFit
 <2>2. PICK l \in Links : l = token[1] /\ Named(l)
   BY <2>1 DEF Named
 <2>3. PICK p \in Sites \cup {NoOne} : p = link[l].project
   BY DEF SharedTypeOK
 <2> DEFINE w == [t EXCEPT !.state = "project", !.asks = asks, !.link = l, !.asset = x, !.project = p]
 <2>4. /\ w \in Reading /\ w.state = "project" /\ w.asks \in LinkAsks /\ w.link = l
       /\ w.project = p /\ w.answer = t.answer
   BY DEF Reading, LinkAsks, OwnAsks
 <2>5. view' = [view EXCEPT ![v] = w]
   BY <1>0, <1>1, <1>4, <2>2, <2>3
 <2> HIDE DEF w
 <2>6. Sees(v, w)
   BY <2>4, <2>5, RowSees
 <2> QED BY <1>0, <1>2, <1>3, <2>2, <2>3, <2>4, <2>6, SeesFits
<1>5. CASE ~Opens(token)
 <2>1. Reply(v, "closed")
   BY <1>1, <1>5
 <2> QED BY <1>2, <1>3, <2>1, ReplyFits
<1> QED BY <1>4, <1>5

LEMMA OpenOwnFits ==
    ASSUME SharedTypeOK, ViewsFit, NEW v \in Views, OpenOwn(v)
    PROVE  ViewTypes' /\ ViewsFit'
<1>0. PICK t \in Reading : t = view[v]
  BY ViewType
<1>2. UNCHANGED <<takingVars, ownerVars>> /\ view[v].state = "new" /\ ViewFits(v)
  BY DEF OpenOwn, OnlyView, ViewsFit
<1>3. view[v].answer = "none" /\ view[v].link = NoOne
  BY <1>2 DEF ViewFits
<1>4. ASSUME NEW asks \in OwnAsks, chosen # NoOne,
             view' = [view EXCEPT ![v] = [@ EXCEPT !.asks = asks, !.project = chosen,
                                     !.state = IF asks = "procurement" THEN "manifest" ELSE "project"]]
      PROVE  ViewTypes' /\ ViewsFit'
 <2>1. PICK p \in Sites : p = chosen
   BY <1>4 DEF SharedTypeOK
 <2>2. PICK state \in {"manifest", "project"} :
          state = IF asks = "procurement" THEN "manifest" ELSE "project"
   OBVIOUS
 <2> DEFINE w == [t EXCEPT !.asks = asks, !.project = p, !.state = state]
 <2>3. w \in Reading /\ w.link = t.link /\ w.answer = t.answer
   BY DEF Reading
 <2>4. view' = [view EXCEPT ![v] = w]
   BY <1>0, <1>4, <2>1, <2>2
 <2> HIDE DEF w
 <2>5. Sees(v, w)
   BY <2>3, <2>4, RowSees
 <2> QED BY <1>0, <1>2, <1>3, <2>3, <2>5, SeesFits
<1>5. ASSUME NEW x \in Assets,
             view' = [view EXCEPT ![v] = [@ EXCEPT !.state = "asset", !.asks = "asset", !.asset = x]]
      PROVE  ViewTypes' /\ ViewsFit'
 <2> DEFINE w == [t EXCEPT !.state = "asset", !.asks = "asset", !.asset = x]
 <2>1. w \in Reading /\ w.link = t.link /\ w.answer = t.answer
   BY DEF Reading
 <2>2. view' = [view EXCEPT ![v] = w]
   BY <1>0, <1>5
 <2> HIDE DEF w
 <2>3. Sees(v, w)
   BY <2>1, <2>2, RowSees
 <2> QED BY <1>0, <1>2, <1>3, <2>1, <2>3, SeesFits
<1>6. CASE Reply(v, "none")
  BY <1>2, <1>3, <1>6, ReplyFits
<1> QED BY <1>4, <1>5, <1>6 DEF OpenOwn

LEMMA ReadManifestFits ==
    ASSUME SharedTypeOK, BundlesFit, ViewsFit, NEW v \in Views, ReadManifest(v)
    PROVE  ViewTypes' /\ ViewsFit'
<1>0. PICK t \in Reading : t = view[v]
  BY ViewType
<1>2. UNCHANGED <<takingVars, ownerVars>> /\ view[v].state = "manifest" /\ ViewFits(v)
  BY DEF ReadManifest, OnlyView, ViewsFit
<1>3. view[v].answer = "none" /\ view[v].link = NoOne
  BY <1>2 DEF ViewFits
<1>4. ASSUME NEW b \in Newest(view[v].project),
             view' = [view EXCEPT ![v] = [@ EXCEPT !.state = "project", !.other = b, !.project = chosen]]
      PROVE  ViewTypes' /\ ViewsFit'
 <2>1. PICK p \in Sites \cup {NoOne} : p = chosen
   BY DEF SharedTypeOK
 <2>2. b \in Bundles
   BY NewestIsStored
 <2> DEFINE w == [t EXCEPT !.state = "project", !.other = b, !.project = p]
 <2>3. w \in Reading /\ w.link = t.link /\ w.answer = t.answer
   BY <2>2 DEF Reading
 <2>4. view' = [view EXCEPT ![v] = w]
   BY <1>0, <1>4, <2>1
 <2> HIDE DEF w
 <2>5. Sees(v, w)
   BY <2>3, <2>4, RowSees
 <2> QED BY <1>0, <1>2, <1>3, <2>3, <2>5, SeesFits
<1>5. CASE Reply(v, "none")
  BY <1>2, <1>3, <1>5, ReplyFits
<1> QED BY <1>4, <1>5 DEF ReadManifest

LEMMA ReadModelFits ==
    ASSUME SharedTypeOK, BundlesFit, ViewsFit, NEW v \in Views, ReadModel(v)
    PROVE  ViewTypes' /\ ViewsFit'
<1>0. PICK t \in Reading : t = view[v]
  BY ViewType
<1>2. UNCHANGED <<takingVars, ownerVars>> /\ view[v].state = "project" /\ ViewFits(v)
  BY DEF ReadModel, OnlyView, ViewsFit
<1>3. view[v].answer = "none"
  BY <1>2 DEF ViewFits
<1>4. ASSUME NEW answer \in {"stale", "none"}, Reply(v, answer) PROVE ViewTypes' /\ ViewsFit'
  BY <1>2, <1>4, ReplyFits DEF ViewFits
<1>5. ASSUME NEW b \in Newest(view[v].project),
             view' = [view EXCEPT ![v] = [@ EXCEPT !.bundle = b,
                  !.state = IF view[v].asks = "procurement" THEN "answered" ELSE "model",
                  !.answer = IF view[v].asks # "procurement" THEN "none" ELSE IF view[v].other = b THEN "ok" ELSE "stale"]]
      PROVE  ViewTypes' /\ ViewsFit'
 <2>1. b \in finished /\ Home[b] = t.project /\ b \in Bundles
   BY <1>0, <1>5, NewestIsStored
 <2>2. PICK state \in {"answered", "model"} :
          state = IF t.asks = "procurement" THEN "answered" ELSE "model"
   OBVIOUS
 <2>3. PICK answer \in {"none", "ok", "lost", "stale", "closed"} :
          answer = IF t.asks # "procurement" THEN "none" ELSE IF t.other = b THEN "ok" ELSE "stale"
   OBVIOUS
 <2> DEFINE w == [t EXCEPT !.bundle = b, !.state = state, !.answer = answer]
 <2>4. /\ w \in Reading /\ w.link = t.link /\ w.answer = answer /\ w.state = state /\ w.asks = t.asks
       /\ w.project = t.project /\ w.bundle = b
   BY <2>1 DEF Reading
 <2>5. view' = [view EXCEPT ![v] = w]
   BY <1>0, <1>5, <2>2, <2>3
 <2> HIDE DEF w
 <2>6. Sees(v, w)
   BY <2>4, <2>5, RowSees
 <2>7. w.state # "answered" => w.answer = "none"
   BY <1>0, <1>2, <1>3, <2>2, <2>3, <2>4
 <2>8. w.link # NoOne => /\ Named(w.link) /\ w.project = link[w.link].project
                         /\ w.asks \in LinkAsks /\ w.state = "model" /\ w.answer = "none"
   BY <1>0, <1>2, <1>3, <2>2, <2>3, <2>4 DEF ViewFits, LinkAsks
 <2> QED BY <1>2, <2>1, <2>4, <2>6, <2>7, <2>8, SeesFits
<1> QED BY <1>4, <1>5 DEF ReadModel

LEMMA ReadSceneFits ==
    ASSUME SharedTypeOK, BundlesFit, ViewsFit, NEW v \in Views, ReadScene(v)
    PROVE  ViewTypes' /\ ViewsFit'
<1>0. PICK t \in Reading : t = view[v]
  BY ViewType
<1>2. /\ UNCHANGED <<takingVars, ownerVars>> /\ view[v].state = "model" /\ ViewFits(v)
      /\ view[v].asks \in {"scene", "asset"}
  BY DEF ReadScene, OnlyView, ViewsFit
<1>3. view[v].answer = "none"
  BY <1>2 DEF ViewFits
<1>4. CASE Reply(v, "none")
  BY <1>2, <1>4, ReplyFits DEF ViewFits
<1>5. CASE view[v].asks = "scene" /\ Reply(v, "ok")
  BY <1>2, <1>5, ReplyFits DEF ViewFits
<1>6. CASE /\ served[view[v].bundle] # <<>> /\ served[view[v].bundle][1].scene
           /\ InItsScene(v) /\ Seen(v, "asset")
 <2> DEFINE w == [t EXCEPT !.state = "asset"]
 <2>1. /\ w \in Reading /\ w.state = "asset" /\ w.link = t.link /\ w.answer = t.answer /\ w.asks = t.asks
       /\ w.project = t.project /\ w.bundle = t.bundle /\ w.asset = t.asset
   BY DEF Reading
 <2>2. view' = [view EXCEPT ![v] = w]
   BY <1>0, <1>6 DEF Seen
 <2> HIDE DEF w
 <2>3. Sees(v, w)
   BY <2>1, <2>2, RowSees
 <2>4. t.link # NoOne => t.bundle \in finished /\ Home[t.bundle] = t.project
   BY <1>0, <1>2 DEF ViewFits
 <2>5. t.bundle \in finished => t.asset \in depot /\ t.asset \in NamedBy(t.bundle)
  <3> SUFFICES ASSUME t.bundle \in finished PROVE t.asset \in depot /\ t.asset \in NamedBy(t.bundle)
    OBVIOUS
  <3>1. t.bundle \in Bundles /\ served[t.bundle] # <<>> /\ served[t.bundle][1].scene
    BY <1>0, <1>6 DEF SharedTypeOK
  <3>2. NamedBy(t.bundle) \subseteq depot
    BY <3>1 DEF BundlesFit, BundleFits
  <3>3. t.asset \in NamedBy(t.bundle)
    BY <1>0, <1>6 DEF InItsScene
  <3> QED BY <3>2, <3>3
 <2>6. w.link # NoOne => Named(w.link) /\ w.project = link[w.link].project /\ w.asks \in LinkAsks
   BY <1>0, <1>2, <2>1 DEF ViewFits
 <2> QED BY <1>0, <1>2, <1>3, <2>1, <2>3, <2>4, <2>5, <2>6, SeesFits
<1> QED BY <1>4, <1>5, <1>6 DEF ReadScene

LEMMA ReadAssetFits ==
    ASSUME SharedTypeOK, ViewsFit, NEW v \in Views, ReadAsset(v)
    PROVE  ViewTypes' /\ ViewsFit'
<1>1. UNCHANGED <<takingVars, ownerVars>> /\ view[v].state = "asset" /\ ViewFits(v)
  BY DEF ReadAsset, OnlyView, ViewsFit
<1>2. PICK answer \in {"ok", "lost"} :
        Reply(v, answer) /\ (answer = "ok" <=> view[v].asset \in depot)
  BY DEF ReadAsset
<1>3. view[v].link # NoOne =>
        /\ view[v].asset \in depot
        /\ \E b \in finished : Home[b] = view[v].project /\ view[v].asset \in NamedBy(b)
  BY <1>1 DEF ViewFits
<1> QED BY <1>1, <1>2, <1>3, ReplyFits

LEMMA ReadDimensionsFits ==
    ASSUME SharedTypeOK, ViewsFit, NEW v \in Views, ReadDimensions(v)
    PROVE  ViewTypes' /\ ViewsFit'
<1>1. UNCHANGED <<takingVars, ownerVars>> /\ view[v].asks = "status" /\ ViewFits(v)
  BY DEF ReadDimensions, OnlyView, ViewsFit
<1>2. view[v].link = NoOne
  BY <1>1 DEF ViewFits, LinkAsks
<1>3. PICK answer \in {"ok", "none"} : Reply(v, answer)
  BY DEF ReadDimensions
<1> QED BY <1>1, <1>2, <1>3, ReplyFits

LEMMA LooksFits ==
    ASSUME SharedTypeOK, BundlesFit, LinksFit, ViewsFit, NEW v \in Views, Looks(v)
    PROVE  ViewTypes' /\ ViewsFit'
BY OpenLinkFits, OpenOwnFits, ReadManifestFits, ReadModelFits, ReadSceneFits, ReadAssetFits,
   ReadDimensionsFits DEF Looks
----
(* The owner.                                                              *)

LEMMA OwnsFits ==
    ASSUME SharedTypeOK, LinksFit, ViewsFit, Owns
    PROVE  LinksFit' /\ ViewsFit'
<1>0. UNCHANGED <<view, finished, depot>>
  BY OwnsElsewhere DEF takingVars
<1>1. ASSUME NEW l \in Links, Named(l) PROVE Named(l)' /\ link'[l].project = link[l].project
 <2>1. ASSUME NEW k \in Links, CreateShare(k) PROVE link'[l] = link[l]
   BY <1>1, <2>1 DEF CreateShare, SharedTypeOK, Named
 <2>2. ASSUME NEW k \in Links, RevokeShare(k) PROVE link'[l].project = link[l].project
   BY <2>2 DEF RevokeShare, SharedTypeOK
 <2>3. ASSUME ListShares \/ RotateSecret \/ \E p \in Sites : NewProject(p) \/ ActivateProject(p)
       PROVE  link' = link
   BY <2>3 DEF ListShares, RotateSecret, NewProject, ActivateProject
 <2> QED BY <1>1, <2>1, <2>2, <2>3 DEF Owns, Named
<1>2. ViewsFit'
 <2>1. ASSUME NEW v \in Views PROVE ViewFits(v)'
  <3>1. ViewFits(v)
    BY DEF ViewsFit
  <3>2. CASE view[v].link = NoOne
    BY <1>0, <3>1, <3>2 DEF ViewFits
  <3>3. CASE view[v].link # NoOne
   <4>1. view[v].link \in Links /\ Named(view[v].link)
     BY <3>1, <3>3 DEF ViewFits, Named
   <4>2. Named(view[v].link)' /\ link'[view[v].link].project = link[view[v].link].project
     BY <1>0, <1>1, <4>1
   <4> QED BY <1>0, <3>1, <3>3, <4>2 DEF ViewFits
  <3> QED BY <3>2, <3>3
 <2> QED BY <2>1 DEF ViewsFit
<1>3. LinksFit'
 <2>1. ASSUME NEW t \in copied PROVE Named(t[1])'
   BY <1>1, <2>1 DEF LinksFit, Named
 <2>2. CASE copied' = copied
   BY <2>1, <2>2 DEF LinksFit
 <2>3. ASSUME NEW l \in Links, CreateShare(l) PROVE LinksFit'
  <3>1. copied' = copied \cup {<<l, key>>} /\ chosen # NoOne /\ link'[l].project = chosen
    BY <2>3 DEF CreateShare, SharedTypeOK
  <3> QED BY <2>1, <3>1 DEF LinksFit, Named
 <2>4. CASE ListShares
  <3>1. PICK shown \in SUBSET Links :
          /\ copied' = copied \cup {<<l, key>> : l \in shown}
          /\ \A l \in shown : link[l].project # NoOne
    BY <2>4 DEF ListShares
  <3>2. link' = link
    BY <2>4 DEF ListShares
  <3> QED BY <2>1, <3>1, <3>2 DEF LinksFit, Named
 <2> QED BY <2>2, <2>3, <2>4 DEF Owns, NewProject, ActivateProject, RevokeShare, RotateSecret
<1> QED BY <1>2, <1>3

----
(* Results.                                                                *)

Resting == {"due", "fetched", "acking", "over"}

\* A bundle stays fit while it keeps its time, keeps its row or rests, and what
\* is held, stored or made elsewhere only grows.
LEMMA BundleKept ==
    ASSUME SharedTypeOK, NEW c \in Bundles, BundleFits(c),
           taking' \in [Bundles -> Takings],
           taking'[c].made = taking[c].made,
           taking'[c] = taking[c] \/ taking'[c].state \in Resting,
           served'[c] = served[c],
           depot \subseteq depot', Added(c) \subseteq depot' \cup Added(c)' \/ taking'[c].state \in Resting,
           finished \subseteq finished', c \in finished' => c \in finished,
           stamp' \in {stamp, stamp + 1},
           \A d \in finished : taking'[d].made = taking[d].made
    PROVE  BundleFits(c)'
<1>1. /\ stamp \in Nat /\ taking[c].made \in Nat /\ taking'[c].made <= stamp'
  BY TakingType DEF Takings, SharedTypeOK, BundleFits
<1>2. ASSUME NEW d \in finished, NEW e \in finished \cup {c}, Above(e, d) PROVE Above(e, d)'
  BY <1>2 DEF Above
<1>3. served'[c] # <<>> =>
          /\ c \in finished' /\ served'[c][1].made = taking'[c].made
          /\ served'[c][1].scene => NamedBy(c) \subseteq depot'
  BY DEF BundleFits
<1>4. c \in finished' /\ served'[c] = <<>> => \E d \in finished' : Above(c, d)'
  BY <1>2 DEF BundleFits
<1>5. CASE taking'[c].state \in Resting
  BY <1>1, <1>3, <1>4, <1>5 DEF BundleFits, Stage, Working, Resting
<1>6. CASE taking'[c] = taking[c] /\ taking'[c].state \notin Resting
 <2>1. Stage(c)' = Stage(c) /\ Added(c) \subseteq depot' \cup Added(c)'
   BY <1>6 DEF Stage
 <2>2. Stage(c) = "adding" =>
         /\ \A x \in NamedBy(c) : x \in taking'[c].got \/ x \in depot'
         /\ \A i \in DOMAIN Scene[c] : i < taking'[c].next => Scene[c][i] \in depot' \cup Added(c)'
   BY <1>6, <2>1 DEF BundleFits
 <2>3. /\ Stage(c) = "making" => ~taking'[c].scene
       /\ Stage(c) \in {"pruning", "committing"} /\ taking'[c].scene => NamedBy(c) \subseteq depot' \cup Added(c)'
   BY <1>6, <2>1 DEF BundleFits
 <2>4. Working(c)' => c \notin finished'
   BY <2>1 DEF BundleFits, Working
 <2>5. ASSUME Stage(c) = "committing", NEW e \in taking'[c].drops
       PROVE  e \in finished' \cup {c} /\ \E d \in finished' \cup {c} : Above(e, d)'
  <3>1. e \in finished \cup {c} /\ \E d \in finished \cup {c} : Above(e, d)
    BY <1>6, <2>5 DEF BundleFits
  <3>2. PICK d \in finished \cup {c} : Above(e, d)
    BY <3>1
  <3>3. taking'[e].made = taking[e].made /\ taking'[d].made = taking[d].made
    BY <3>1
  <3>4. Above(e, d)'
    BY <3>2, <3>3 DEF Above
  <3> QED BY <3>1, <3>4
 <2> QED BY <1>1, <1>3, <1>4, <2>1, <2>2, <2>3, <2>4, <2>5 DEF BundleFits
<1> QED BY <1>5, <1>6

\* One result's step, when nothing is committed: the other bundles stay fit.
LEMMA OneTurns ==
    ASSUME SharedTypeOK, BundlesFit, NEW b \in Bundles, NEW r \in Takings, Turns(b, r),
           UNCHANGED <<depot, served, finished>>, stamp' \in {stamp, stamp + 1},
           \A x \in Assets, c \in Bundles : c # b => (adding'[x] = c <=> adding[x] = c),
           r.made = taking[b].made \/ b \notin finished,
           BundleFits(b)'
    PROVE  BundlesFit'
<1>1. \A d \in finished : taking'[d].made = taking[d].made
  BY DEF Turns, SharedTypeOK
<1>2. ASSUME NEW c \in Bundles, c # b PROVE BundleFits(c)'
 <2>1. BundleFits(c) /\ taking'[c] = taking[c] /\ Added(c) \subseteq Added(c)'
   BY <1>2 DEF BundlesFit, Turns, Added
 <2> QED BY <1>1, <2>1, BundleKept DEF Turns
<1> QED BY <1>2 DEF BundlesFit

LEMMA OneRests ==
    ASSUME SharedTypeOK, BundlesFit, NEW b \in Bundles, NEW r \in Takings, Turns(b, r),
           UNCHANGED <<depot, served, finished, stamp>>,
           \A x \in Assets, c \in Bundles : c # b => (adding'[x] = c <=> adding[x] = c),
           r.made = taking[b].made, r.state \in Resting
    PROVE  BundlesFit'
<1>1. \A d \in finished : taking'[d].made = taking[d].made
  BY DEF Turns, SharedTypeOK
<1>2. BundleFits(b)'
 <2>1. BundleFits(b)
   BY DEF BundlesFit
 <2> QED BY <1>1, <2>1, BundleKept DEF Turns
<1> QED BY <1>2, OneTurns
LEMMA StoreFits ==
    ASSUME SharedTypeOK, BundlesFit, NEW b \in Bundles, StoreSceneAssets(b)
    PROVE  BundlesFit'
<1>1. PICK r \in Takings :
        /\ Turns(b, r) /\ r.made = taking[b].made
        /\ \/ b \in finished /\ r.state = "acking"
           \/ b \notin finished /\ r.state = "adding" /\ r.next = 1 /\ r.got = NamedBy(b) \ depot
           \/ b \notin finished /\ r.state = "making" /\ r.scene = FALSE
  BY StoreRow
<1>2. UNCHANGED <<depot, adding, served, stamp, finished>>
  BY DEF StoreSceneAssets
<1>3. CASE r.state = "acking"
  BY <1>1, <1>2, <1>3, OneRests DEF Resting
<1>4. CASE r.state # "acking"
 <2>1. b \notin finished /\ served[b] = <<>> /\ taking[b].made <= stamp
   BY <1>1, <1>4 DEF BundlesFit, BundleFits
 <2>2. CASE r.state = "adding"
  <3>1. \A i \in DOMAIN Scene[b] : ~(i < 1)
    BY SceneType
  <3>2. BundleFits(b)'
    BY <1>1, <1>2, <2>1, <2>2, <3>1 DEF BundleFits, Turns, Stage, Working, Added
  <3> QED BY <1>1, <1>2, <3>2, OneTurns
 <2>3. CASE r.state = "making"
  <3>1. BundleFits(b)'
    BY <1>1, <1>2, <2>1, <2>3 DEF BundleFits, Turns, Stage, Working
  <3> QED BY <1>1, <1>2, <3>1, OneTurns
 <2> QED BY <1>1, <1>4, <2>2, <2>3
<1> QED BY <1>3, <1>4

LEMMA UndoneFits ==
    ASSUME SharedTypeOK, BundlesFit, NEW b \in Bundles, Undone(b),
           UNCHANGED <<depot, served, stamp, finished>>
    PROVE  BundlesFit'
<1>1. PICK r \in Takings : Turns(b, r) /\ r.made = taking[b].made /\ r.state \in {"due", "over"}
  BY UndoneRow
<1>2. \A x \in Assets, c \in Bundles : c # b => (adding'[x] = c <=> adding[x] = c)
  BY UndoneRow
<1>3. r.state \in Resting
  BY <1>1 DEF Resting
<1> QED BY <1>1, <1>2, <1>3, OneRests

\* An asset is passed when it is held, or was not fetched and so is held.
LEMMA AddFits ==
    ASSUME SharedTypeOK, BundlesFit, NEW b \in Bundles, AddAsset(b)
    PROVE  BundlesFit'
<1> DEFINE x == Scene[b][taking[b].next]
<1>1. UNCHANGED <<depot, served, stamp, finished>> /\ Stage(b) = "adding"
      /\ taking[b].next <= Len(Scene[b])
  BY DEF AddAsset
<1>2. BundleFits(b) /\ b \notin finished /\ served[b] = <<>>
  BY <1>1 DEF BundlesFit, BundleFits, Working
<1>3. CASE Undone(b)
  BY <1>1, <1>3, UndoneFits
<1>4. ASSUME NEW r \in Takings, Turns(b, r), r.made = taking[b].made, r.state = "adding",
             r.next = taking[b].next + 1, r.got = taking[b].got,
             \A y \in Assets, c \in Bundles : c # b => (adding'[y] = c <=> adding[y] = c),
             Added(b) \subseteq Added(b)',
             x \in NamedBy(b) => x \in depot' \cup Added(b)'
      PROVE  BundlesFit'
 <2>1. ASSUME NEW i \in DOMAIN Scene[b], i < taking[b].next + 1
       PROVE  Scene[b][i] \in depot' \cup Added(b)'
  <3>1. i \in Nat /\ Scene[b][i] \in NamedBy(b) /\ taking[b].next \in Nat
    BY SceneType, TakingType DEF Takings
  <3>2. CASE i = taking[b].next
    BY <1>4, <3>1, <3>2
  <3>3. CASE i # taking[b].next
   <4>1. i < taking[b].next
     BY <2>1, <3>1, <3>3
   <4>2. Scene[b][i] \in depot \cup Added(b)
     BY <1>1, <1>2, <4>1 DEF BundleFits
   <4> QED BY <1>1, <1>4, <4>2
  <3> QED BY <3>2, <3>3
 <2>2. \A y \in NamedBy(b) : y \in r.got \/ y \in depot'
   BY <1>1, <1>2, <1>4 DEF BundleFits
 <2>3. taking[b].made <= stamp
   BY <1>2 DEF BundleFits
 <2>4. BundleFits(b)'
   BY <1>1, <1>2, <1>4, <2>1, <2>2, <2>3 DEF BundleFits, Turns, Stage, Working
 <2> QED BY <1>1, <1>4, <2>4, OneTurns
<1>5. ASSUME NEW r \in Takings, Turns(b, r), r.made = taking[b].made, r.state = "adding",
             r.next = taking[b].next + 1, r.got = taking[b].got,
             x \notin taking[b].got, adding' = adding
      PROVE  BundlesFit'
 <2>1. x \in NamedBy(b) => x \in depot
   BY <1>1, <1>2, <1>5 DEF BundleFits
 <2>2. Added(b)' = Added(b)
   BY <1>5 DEF Added
 <2> HIDE DEF x
 <2> QED BY <1>1, <1>4, <1>5, <2>1, <2>2
<1>6. ASSUME NEW r \in Takings, Turns(b, r), r.made = taking[b].made, r.state = "adding",
             r.next = taking[b].next + 1, r.got = taking[b].got,
             adding[x] = NoOne, adding' = [adding EXCEPT ![x] = b]
      PROVE  BundlesFit'
 <2>1. NoOne \notin Bundles /\ adding \in [Assets -> Bundles \cup {NoOne}] /\ NamedBy(b) \subseteq Assets
   BY SharedAssumption, SceneType DEF SharedTypeOK
 <2> HIDE DEF x
 <2>2. \A y \in Assets, c \in Bundles : c # b => (adding'[y] = c <=> adding[y] = c)
   BY <1>6, <2>1
 <2>3. Added(b) \subseteq Added(b)' /\ (x \in NamedBy(b) => x \in Added(b)')
   BY <1>6, <2>1 DEF Added
 <2> QED BY <1>4, <1>6, <2>2, <2>3
<1> HIDE DEF x
<1>7. \/ /\ \E r \in Takings :
                    /\ Turns(b, r) /\ r.made = taking[b].made /\ r.state = "adding"
                    /\ r.next = taking[b].next + 1 /\ r.got = taking[b].got
         /\ x \notin taking[b].got
         /\ adding' = adding
      \/ /\ \E r \in Takings :
                    /\ Turns(b, r) /\ r.made = taking[b].made /\ r.state = "adding"
                    /\ r.next = taking[b].next + 1 /\ r.got = taking[b].got
         /\ adding[x] = NoOne
         /\ adding' = [adding EXCEPT ![x] = b]
      \/ Undone(b)
  BY AddRow DEF x
<1> QED BY <1>3, <1>5, <1>6, <1>7

LEMMA MakeFits ==
    ASSUME SharedTypeOK, BundlesFit, NEW b \in Bundles, MakeArtifacts(b)
    PROVE  BundlesFit'
<1>1. PICK r \in Takings : /\ Turns(b, r) /\ r.made = stamp + 1 /\ r.state = "pruning"
                           /\ r.scene = taking[b].scene
  BY MakeRow
<1>2. /\ UNCHANGED <<depot, adding, served, finished>> /\ stamp' = stamp + 1 /\ stamp \in Nat
      /\ Stage(b) \in {"adding", "making"}
      /\ Stage(b) = "adding" => taking[b].next > Len(Scene[b])
  BY DEF MakeArtifacts, SharedTypeOK
<1>3. BundleFits(b) /\ b \notin finished /\ served[b] = <<>>
  BY <1>2 DEF BundlesFit, BundleFits, Working
<1>4. taking[b].scene => NamedBy(b) \subseteq depot \cup Added(b)
 <2>1. CASE Stage(b) = "making"
   BY <1>3, <2>1 DEF BundleFits
 <2>2. CASE Stage(b) = "adding"
  <3>1. ASSUME NEW x \in NamedBy(b) PROVE x \in depot \cup Added(b)
   <4>1. PICK i \in DOMAIN Scene[b] : x = Scene[b][i]
     BY SceneType
   <4>2. i < taking[b].next
     BY <1>2, <2>2, SceneType, TakingType DEF Takings
   <4> QED BY <1>3, <2>2, <4>1, <4>2 DEF BundleFits
  <3> QED BY <3>1
 <2> QED BY <1>2, <2>1, <2>2
<1>5. Added(b)' = Added(b)
  BY <1>2 DEF Added
<1>6. BundleFits(b)'
  BY <1>1, <1>2, <1>3, <1>4, <1>5 DEF BundleFits, Turns, Stage, Working
<1> QED BY <1>1, <1>2, <1>3, <1>6, OneTurns

\* What will be dropped has a later one among those that are seen.
LEMMA SelectFits ==
    ASSUME SharedTypeOK, BundlesFit, NEW b \in Bundles, SelectOldBundles(b)
    PROVE  BundlesFit'
<1>1. PICK r \in Takings :
        /\ Turns(b, r) /\ r.made = taking[b].made /\ r.state = "committing"
        /\ r.scene = taking[b].scene
        /\ \A c \in r.drops :
              /\ c \in Shown(Home[b]) \cup {b}
              /\ \E d \in Shown(Home[b]) \cup {b} : SeenMade(b, d) > SeenMade(b, c)
  BY SelectRow
<1>2. UNCHANGED <<depot, adding, served, stamp, finished>> /\ Stage(b) = "pruning"
  BY DEF SelectOldBundles
<1>3. BundleFits(b) /\ b \notin finished /\ served[b] = <<>>
  BY <1>2 DEF BundlesFit, BundleFits, Working
<1>4. ASSUME NEW c \in Shown(Home[b]) \cup {b}
      PROVE  /\ c \in finished \cup {b} /\ c \in Bundles /\ Home[c] = Home[b]
             /\ SeenMade(b, c) = taking[c].made
  BY <1>3 DEF Shown, SeenMade, BundlesFit, BundleFits
<1>5. ASSUME NEW c \in r.drops
      PROVE  c \in finished \cup {b} /\ \E d \in finished \cup {b} : Above(c, d)'
 <2>1. PICK d \in Shown(Home[b]) \cup {b} : SeenMade(b, d) > SeenMade(b, c)
   BY <1>1, <1>5
 <2>2. c \in Shown(Home[b]) \cup {b}
   BY <1>1, <1>5
 <2>3. Above(c, d) /\ d \in finished \cup {b} /\ d \in Bundles /\ c \in Bundles
   BY <1>4, <2>1, <2>2 DEF Above
 <2>4. taking'[c].made = taking[c].made /\ taking'[d].made = taking[d].made
   BY <1>1, <2>3 DEF Turns
 <2>5. Above(c, d)'
   BY <2>3, <2>4 DEF Above
 <2> QED BY <1>4, <2>2, <2>3, <2>5
<1>6. Added(b)' = Added(b)
  BY <1>2 DEF Added
<1>7. taking[b].scene => NamedBy(b) \subseteq depot \cup Added(b)
  BY <1>2, <1>3 DEF BundleFits
<1>8. BundleFits(b)'
  BY <1>1, <1>2, <1>3, <1>5, <1>6, <1>7 DEF BundleFits, Turns, Stage, Working
<1> QED BY <1>1, <1>2, <1>3, <1>8, OneTurns

LEMMA CommitFits ==
    ASSUME SharedTypeOK, BundlesFit, NEW b \in Bundles, CommitResult(b)
    PROVE  BundlesFit'
<1>1. PICK r \in Takings : Turns(b, r) /\ r.made = taking[b].made /\ r.state = "acking"
  BY CommitRow
<1>2. /\ Stage(b) = "committing" /\ stamp' = stamp
      /\ depot' = depot \cup Added(b)
      /\ \A x \in Assets : adding'[x] = IF adding[x] = b THEN NoOne ELSE adding[x]
      /\ finished' = finished \cup {b}
  BY DEF CommitResult, Added
<1>3. ASSUME NEW c \in Bundles
      PROVE  served'[c] = IF c \in taking[b].drops THEN <<>>
                          ELSE IF c = b THEN <<[made |-> taking[b].made, scene |-> taking[b].scene]>>
                          ELSE served[c]
  BY DEF CommitResult
<1>4. BundleFits(b) /\ b \notin finished /\ served[b] = <<>> /\ finished \subseteq Bundles
  BY <1>2 DEF BundlesFit, BundleFits, Working, SharedTypeOK
<1>5. \A d \in Bundles : taking'[d].made = taking[d].made
  BY <1>1 DEF Turns
<1>6. ASSUME NEW c \in taking[b].drops, c \in Bundles PROVE \E d \in finished' : Above(c, d)'
 <2>1. PICK d \in finished \cup {b} : Above(c, d)
   BY <1>2, <1>4 DEF BundleFits
 <2>2. Above(c, d)'
   BY <1>4, <1>5, <1>6, <2>1 DEF Above
 <2> QED BY <1>2, <2>1, <2>2
<1>7. ASSUME NEW c \in Bundles, c # b, c \notin taking[b].drops PROVE BundleFits(c)'
 <2>1. BundleFits(c) /\ taking'[c] = taking[c] /\ served'[c] = served[c]
   BY <1>1, <1>3, <1>7 DEF BundlesFit, Turns
 <2>2. Added(c) \subseteq Added(c)'
   BY <1>2, <1>7 DEF Added
 <2>3. depot \subseteq depot' /\ finished \subseteq finished' /\ (c \in finished' => c \in finished)
   BY <1>2, <1>7
 <2>4. \A d \in finished : taking'[d].made = taking[d].made
   BY <1>4, <1>5
 <2> QED BY <1>1, <1>2, <2>1, <2>2, <2>3, <2>4, BundleKept DEF Turns
<1>8. ASSUME NEW c \in Bundles, c # b, c \in taking[b].drops PROVE BundleFits(c)'
 <2>1. served'[c] = <<>> /\ c \in finished /\ taking'[c] = taking[c] /\ \E d \in finished' : Above(c, d)'
   BY <1>1, <1>2, <1>3, <1>4, <1>6, <1>8 DEF BundleFits, Turns
 <2>2. BundleFits(c) /\ ~Working(c)
   BY <2>1 DEF BundlesFit, BundleFits
 <2> QED BY <1>2, <2>1, <2>2 DEF BundleFits, Working, Stage
<1>9. BundleFits(b)'
 <2>1. b \in taking[b].drops => served'[b] = <<>> /\ \E d \in finished' : Above(b, d)'
   BY <1>3, <1>6
 <2>2. b \notin taking[b].drops =>
         /\ served'[b] # <<>> /\ served'[b][1].made = taking'[b].made
         /\ served'[b][1].scene => NamedBy(b) \subseteq depot'
  <3>1. taking[b].scene => NamedBy(b) \subseteq depot'
    BY <1>2, <1>4 DEF BundleFits
  <3> QED BY <1>3, <1>5, <3>1
 <2>3. taking'[b].made <= stamp' /\ b \in finished'
   BY <1>2, <1>4, <1>5 DEF BundleFits
 <2>4. taking'[b].state = "acking"
   BY <1>1 DEF Turns
 <2> QED BY <2>1, <2>2, <2>3, <2>4 DEF BundleFits, Working, Stage
<1> QED BY <1>7, <1>8, <1>9 DEF BundlesFit

LEMMA ReceivesFits ==
    ASSUME SharedTypeOK, BundlesFit, NEW b \in Bundles, Receives(b)
    PROVE  BundlesFit'
<1>1. CASE FetchSceneAssets(b)
 <2>1. PICK r \in Takings : Turns(b, r) /\ r.made = taking[b].made /\ r.state = "fetched"
   BY <1>1, FetchRow
 <2>2. UNCHANGED <<depot, adding, served, finished, stamp>>
   BY <1>1 DEF FetchSceneAssets
 <2> QED BY <2>1, <2>2, OneRests DEF Resting
<1>2. CASE AckResult(b)
 <2>1. PICK r \in Takings : Turns(b, r) /\ r.made = taking[b].made /\ r.state = "over"
   BY <1>2, AckRow
 <2>2. UNCHANGED <<depot, adding, served, finished, stamp>>
   BY <1>2 DEF AckResult
 <2> QED BY <2>1, <2>2, OneRests DEF Resting
<1>3. CASE AddDeadlocks(b) \/ ReceiveFails(b)
  BY <1>3, UndoneFits DEF AddDeadlocks, ReceiveFails
<1> QED BY <1>1, <1>2, <1>3, StoreFits, AddFits, MakeFits, SelectFits, CommitFits DEF Receives

\* What is held and what is stored only grow: no view loses what it found.
LEMMA ReceivesKeepsViews ==
    ASSUME SharedTypeOK, ViewsFit, LinksFit, NEW b \in Bundles, Receives(b)
    PROVE  ViewsFit' /\ LinksFit'
<1>1. UNCHANGED <<view, link, copied>>
  BY ReceivesElsewhere DEF ownerVars
<1>2. depot \subseteq depot' /\ finished \subseteq finished'
  BY OthersServeNothing DEF CommitResult
<1>3. ASSUME NEW v \in Views PROVE ViewFits(v)'
 <2>1. ViewFits(v)
   BY DEF ViewsFit
 <2> QED BY <1>1, <1>2, <2>1 DEF ViewFits, Named
<1> QED BY <1>1, <1>3 DEF ViewsFit, LinksFit, Named

----
(* The theorems.                                                           *)

LEMMA SharedInitFits == SharedInit => SharedInv
<1> SUFFICES ASSUME SharedInit PROVE SharedInv
  OBVIOUS
<1>1. SharedTypeOK
 <2>1. taking \in [Bundles -> Takings]
   BY DEF SharedInit, Takings
 <2>2. view \in [Views -> Reading]
   BY DEF SharedInit, Reading
 <2>3. adding \in [Assets -> Bundles \cup {NoOne}] /\ served \in [Bundles -> Seq(Servings)]
   BY DEF SharedInit
 <2>4. link \in [Links -> [project : Sites \cup {NoOne}, revoked : BOOLEAN]]
   BY DEF SharedInit
 <2> QED BY <2>1, <2>2, <2>3, <2>4 DEF SharedInit, SharedTypeOK, Servings
<1>2. BundlesFit
 <2>1. ASSUME NEW b \in Bundles PROVE BundleFits(b)
   BY <2>1 DEF SharedInit, BundleFits, Stage, Working
 <2> QED BY <2>1 DEF BundlesFit
<1>3. LinksFit /\ ViewsFit
  BY DEF SharedInit, LinksFit, ViewsFit, ViewFits
<1> QED BY <1>1, <1>2, <1>3 DEF SharedInv

LEMMA SharedInvStep == SharedInv /\ [SharedNext]_sharedVars => SharedInv'
<1> SUFFICES ASSUME SharedInv, [SharedNext]_sharedVars PROVE SharedInv'
  OBVIOUS
<1> USE DEF SharedInv
<1>0. TakingTypes /\ OwnerTypes /\ ViewTypes
  BY TypeParts
<1>1. ASSUME NEW b \in Bundles, Receives(b) PROVE SharedInv'
 <2>1. TakingTypes' /\ BundlesFit' /\ ViewsFit' /\ LinksFit'
   BY <1>1, ReceivesType, ReceivesFits, ReceivesKeepsViews
 <2>2. OwnerTypes' /\ ViewTypes'
   BY <1>0, <1>1, ReceivesElsewhere DEF ownerVars, OwnerTypes, ViewTypes
 <2> QED BY <2>1, <2>2, TypeParts, PTL
<1>2. ASSUME Owns PROVE SharedInv'
 <2>1. OwnerTypes' /\ LinksFit' /\ ViewsFit'
   BY <1>2, OwnsType, OwnsFits
 <2>2. TakingTypes' /\ ViewTypes' /\ BundlesFit'
   BY <1>0, <1>2, OwnsElsewhere DEF takingVars, TakingTypes, ViewTypes, BundlesFit, BundleFits, Stage,
      Working, Added, Above
 <2> QED BY <2>1, <2>2, TypeParts, PTL
<1>3. ASSUME NEW v \in Views, Looks(v) PROVE SharedInv'
 <2>1. ViewTypes' /\ ViewsFit'
   BY <1>3, LooksFits
 <2>2. TakingTypes' /\ OwnerTypes' /\ BundlesFit' /\ LinksFit'
   BY <1>0, <1>3, LooksElsewhere DEF takingVars, ownerVars, TakingTypes, OwnerTypes, BundlesFit, BundleFits,
      Stage, Working, Added, Above, LinksFit, Named
 <2> QED BY <2>1, <2>2, TypeParts, PTL
<1>4. CASE UNCHANGED sharedVars
 <2>1. TakingTypes' /\ OwnerTypes' /\ ViewTypes'
   BY <1>0, <1>4 DEF sharedVars, takingVars, ownerVars, TakingTypes, OwnerTypes, ViewTypes
 <2>2. BundlesFit' /\ LinksFit' /\ ViewsFit'
   BY <1>4 DEF sharedVars, takingVars, ownerVars, BundlesFit, BundleFits, Stage, Working, Added, Above,
      LinksFit, ViewsFit, ViewFits, Named
 <2> QED BY <2>1, <2>2, TypeParts, PTL
<1> QED BY <1>1, <1>2, <1>3, <1>4 DEF SharedNext, Receives, Owns, Looks

LEMMA SharedInvariant == SharedSpec => []SharedInv
BY SharedInitFits, SharedInvStep, PTL DEF SharedSpec

\* Any set of numbers has a least one.
LEMMA LeastNatural ==
    ASSUME NEW T \in SUBSET Nat, T # {}
    PROVE  \E x \in T : \A y \in T : x <= y
<1> DEFINE R == {ss \in Nat \X Nat : ss[1] < ss[2]}
<1>1. IsWellFoundedOn(R, Nat)
  BY NatLessThanWellFounded DEF OpToRel
<1> HIDE DEF R
<1>2. PICK x \in T : \A y \in T : ~ (<<y, x>> \in R)
  BY <1>1, WFMin
<1>3. ASSUME NEW y \in T PROVE x <= y
 <2>1. x \in Nat /\ y \in Nat /\ ~(y < x)
   BY <1>2 DEF R
 <2> QED BY <2>1
<1> QED BY <1>3

\* Among the later stored bundles of its project one is the last: it was not
\* dropped, for it would have a later one.
LEMMA SomeIsShown ==
    ASSUME SharedInv, NEW b \in finished
    PROVE  \E c \in Shown(Home[b]) : served[c][1].made >= taking[b].made
<1> USE DEF SharedInv
<1>0. /\ finished \subseteq Bundles /\ stamp \in Nat
      /\ \A d \in Bundles : taking[d].made \in Nat /\ taking[d].made <= stamp /\ BundleFits(d)
  BY TakingType DEF SharedTypeOK, Takings, BundlesFit, BundleFits
<1> DEFINE later == {d \in finished : Home[d] = Home[b] /\ taking[d].made >= taking[b].made}
           rest == {stamp - taking[d].made : d \in later}
<1>1. rest \in SUBSET Nat
  BY <1>0
<1>2. rest # {}
 <2>1. b \in later
   BY <1>0
 <2> QED BY <2>1
<1>3. PICK x \in rest : \A y \in rest : x <= y
  BY <1>1, <1>2, LeastNatural
<1>4. PICK d \in later : x = stamp - taking[d].made
  BY <1>3
<1>5. ASSUME served[d] = <<>> PROVE FALSE
 <2>1. PICK e \in finished : Above(d, e)
   BY <1>0, <1>4, <1>5 DEF BundleFits
 <2>2. e \in later
   BY <1>0, <1>4, <2>1 DEF Above
 <2>3. stamp - taking[d].made <= stamp - taking[e].made
   BY <1>3, <1>4, <2>2
 <2> QED BY <1>0, <1>4, <2>1, <2>3 DEF Above
<1>6. d \in Shown(Home[b]) /\ served[d][1].made = taking[d].made
  BY <1>0, <1>4, <1>5 DEF Shown, BundleFits
<1> QED BY <1>4, <1>6

\* Every part of the state keeps to its type.
THEOREM SharedTypeCorrect == SharedSpec => []SharedTypeOK
<1>1. SharedInv => SharedTypeOK
  BY DEF SharedInv
<1> QED BY <1>1, SharedInvariant, PTL

\* A scene that is served is whole, a link opens its own project and loses none of
\* its assets, and the newest stored model stays: for any number of results,
\* views and links that meet, and any scenes that share assets.
THEOREM SharedCorrect == SharedSpec => []ViewsAreWhole
<1>1. SharedInv => ViewsAreWhole
 <2> SUFFICES ASSUME SharedInv PROVE ViewsAreWhole
   OBVIOUS
 <2>1. SceneIsWhole
   BY DEF SharedInv, BundlesFit, BundleFits, SceneIsWhole
 <2>2. LinkOpensItsProject
   BY DEF SharedInv, ViewsFit, ViewFits, LinkOpensItsProject
 <2>3. NewestIsShown
   BY SomeIsShown DEF NewestIsShown
 <2> QED BY <2>1, <2>2, <2>3 DEF ViewsAreWhole
<1> QED BY <1>1, SharedInvariant, PTL
=============================================================================
