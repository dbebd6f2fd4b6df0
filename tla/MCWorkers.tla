------------------------------ MODULE MCWorkers ------------------------------
(***************************************************************************)
(* Model-checking instance for parts that do not share state: the progress *)
(* of AI edits, the Pi agent's process, the component cache, the session   *)
(* of a compile, the GIS cache, the sessions of users, the views of what   *)
(* was compiled, and one edit that a client polls.  A behaviour chooses    *)
(* one of them and the others stay where they began, so the run explores   *)
(* the sum of their state spaces.                                          *)
(***************************************************************************)
EXTENDS PiAgentProgress, PiAgentProcess, ComponentCache, DesignSession, GisCache, Sessions, SharedViews

CONSTANTS FirstPod, FaultyEntry
ASSUME FirstPod \in Pods /\ FaultyEntry \in Entries

\* One edit that a thread polls (PiAgentEdits).
CONSTANTS Jobs, Replicas, Pollers, MaxDeliver, MaxCopies, MaxVersion

VARIABLES
    focus,
    row, age, runAge, sent, file, edited, billed, recorded, submit, duty, reaping, copies,
    requests, running, results

Edits == INSTANCE PiAgentEdits WITH manifest <- sent
editVars ==
    <<row, age, runAge, sent, file, edited, billed, recorded, submit, duty, reaping, copies,
      requests, running, results>>

accessVars == <<sessionsVars, sharedVars>>
vars == <<focus, progressVars, processVars, cacheVars, sessionVars, gisVars, accessVars, editVars>>

\* Requests for one place and kind meet, two or three at a time, with a sheet to
\* share, without one, and with two sources; or none does, and addresses are built.
Visits == {{"a", "b"}, {"c", "d", "e"}, {"v", "w"}, {"o", "p"}, {}}

Init ==
    /\ focus \in {"progress", "process", "cache", "session", "gis", "users", "views", "edits"}
    /\ ProgressInit /\ ProcessInit /\ CacheInit /\ SessionInit /\ GisInit /\ SessionsInit /\ SharedInit /\ Edits!Init
    /\ key = "k1"
    /\ focus # "progress" => startedAt = [d \in Deliveries |-> CHOOSE t \in Clock : TRUE]
    /\ \E g \in IF focus = "gis" THEN Visits ELSE {{}} : \A r \in Inquiries : Is(r, "look") <=> r \in g

Next ==
    \/ /\ focus = "progress" /\ ProgressNext
       /\ UNCHANGED <<focus, processVars, cacheVars, sessionVars, gisVars, sessionsVars, sharedVars, editVars>>
    \/ /\ focus = "process" /\ ProcessNext
       /\ UNCHANGED <<focus, progressVars, cacheVars, sessionVars, gisVars, sessionsVars, sharedVars, editVars>>
    \/ /\ focus = "cache" /\ CacheNext
       /\ UNCHANGED <<focus, progressVars, processVars, sessionVars, gisVars, sessionsVars, sharedVars, editVars>>
    \/ /\ focus = "session" /\ SessionNext
       /\ UNCHANGED <<focus, progressVars, processVars, cacheVars, gisVars, sessionsVars, sharedVars, editVars>>
    \/ /\ focus = "gis" /\ GisNext
       /\ UNCHANGED <<focus, progressVars, processVars, cacheVars, sessionVars, sessionsVars, sharedVars, editVars>>
    \/ /\ focus = "users" /\ SessionsNext
       /\ UNCHANGED <<focus, progressVars, processVars, cacheVars, sessionVars, gisVars, sharedVars, editVars>>
    \/ /\ focus = "views" /\ SharedNext
       /\ UNCHANGED <<focus, progressVars, processVars, cacheVars, sessionVars, gisVars, sessionsVars, editVars>>
    \/ /\ focus = "edits" /\ Edits!Next
       /\ UNCHANGED <<focus, progressVars, processVars, cacheVars, sessionVars, gisVars, sessionsVars, sharedVars>>

\* The fair actions of a part are not enabled where it begins.
Spec ==
    /\ Init /\ [][Next]_vars
    /\ PublisherFairness /\ ProcessFairness

\* Bounds.  The request is delivered again only after its first execution is
\* over; the second execution only calls tools and numbers two events.
SecondIsShort ==
    /\ phase[1] # "over" => phase[2] = "idle"
    /\ \A i \in DOMAIN batcher[2].pending : batcher[2].pending[i].kind = "tool"
    /\ batcher[2].next <= 3 /\ publisher[2].attempt < 2

\* The second compile starts while the first saves, or later; one pod takes the
\* first compile; one pod ends or dies, and only objects of one entry expire or
\* rot (pods and entries are interchangeable).
SecondIsLate ==
    /\ stage[1] \in {"queued", "fetching", "building"} => stage[2] = "queued"
    /\ pod[1] \in {FirstPod, NoPod}
    /\ Cardinality(gone) <= 1
    /\ \A fault \in faults : fault[1] = FaultyEntry

----
(* Requests of the GIS service.                                             *)
MCChain ==
    [a |-> <<"nsw", "ga">>, b |-> <<"nsw", "ga">>, c |-> <<"ga">>, d |-> <<"ga">>, e |-> <<"ga">>,
     v |-> <<"wind">>, w |-> <<"wind">>,
     o |-> <<"overture", "microsoft">>, p |-> <<"overture", "microsoft">>]

\* Only some requests get the second evidence, and addresses are built alone.
GisBounds ==
    /\ \A r \in {"d", "e", "w", "p"} : fetch[r].got # "y"
    /\ sync # "none" \/ index # "none" => \A r \in Inquiries : Is(r, "unmade")

----
(* Sessions of one user, who signs in once or brings a token.              *)
MCUserOf == [a \in Logins \cup Bearers |-> CHOOSE u \in Users : TRUE]

\* The user signs in before time passes; the token is used while that goes on and not
\* with a session; the second request follows the first.
UsersBounds ==
    /\ (\E a \in Calls \cup Logouts : ~At(a, "new")) => \A a \in Bearers : At(a, "new")
    /\ clock > 0 => \A a \in Logins : ~At(a, "new")
    /\ clock > 1 => \A a \in Bearers : At(a, "new")
    /\ At("first", "new") => At("second", "new")

----
(* Two bundles of a project, one without a scene, and one of another.      *)
MCHome == [p |-> "a", q |-> "a", r |-> "b"]
MCScene == [p |-> <<"x", "y">>, q |-> <<>>, r |-> <<"y", "x", "z">>]

Receiving == {b \in Bundles : Stage(b) \notin {"due", "over"}}

\* Two results meet, and one is delivered twice, before anybody looks; then one commits
\* while a view reads.  A view that was answered ends the behaviour.
ViewsBounds ==
    /\ Receiving # {} => opened = Sites
    /\ Cardinality(Receiving) <= 2 /\ Cardinality({b \in Bundles : taking[b].taken > 1}) <= 1
    /\ "b" \in opened => "a" \in opened
    /\ copied = {} => key = "k1"
    /\ chosen # NoOne \/ (\E v \in Views : view[v].state # "new") =>
          /\ finished # {} /\ \A b \in Bundles : taking[b].taken = 1
          /\ Receiving \subseteq {b \in {"p", "q"} : Stage(b) \in {"committing", "acking"}}
          /\ Cardinality(Receiving) <= 1
          /\ (\E t \in copied : link[t[1]].project = "b") => Receiving = {}
          /\ key # "k1" => finished = {"p"} /\ Receiving = {}
    /\ \A v \in Views : view[v].state # "answered" /\ (view[v].state # "new" => chosen # NoOne)

Bounds == SecondIsShort /\ SecondIsLate /\ GisBounds /\ UsersBounds /\ ViewsBounds

----
(* Parts of a design: one that is whole, some that reach a marked and an   *)
(* unmarked piece, and some that cannot be stored.                         *)
Component(name, mark) == [kind |-> "component", name |-> name, mark |-> mark]
Connection(name, mark, ports, connectors) ==
    [kind |-> "connection", name |-> name, mark |-> mark, ports |-> ports,
     connectors |-> connectors]
MCSingles == [post |-> "POST", rail |-> Unmarked]
MCParts ==
    [bracket |->
        [body |-> <<Component("k", "K"), Component("l", Unmarked),
                    Connection("j", Unmarked, <<"k", "l">>, <<"l">>)>>,
         result |-> <<"k", "l", "j">>],
     tie |->
        [body |-> <<Component("t", Unmarked), Connection("i", Unmarked, <<"post", "t">>, <<"t">>)>>,
         result |-> <<"i", "t">>],
     strap |->
        [body |-> <<Component("s", Unmarked), Connection("h", Unmarked, <<"rail", "s">>, <<"s">>)>>,
         result |-> <<"h", "s">>],
     cage |-> [body |-> <<Component("c", Unmarked)>>, result |-> <<"c", "post">>],
     stud |-> [body |-> <<Component("d", Unmarked), Component("e", Unmarked)>>, result |-> <<"d">>]]

----
\* Every edit that is polled ends (PiAgentEdits; the fairness is its hypothesis).
PolledEditsSettle == Edits!PolledEditsSettle
=============================================================================
