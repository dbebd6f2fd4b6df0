------------------------------- MODULE DesignSession -------------------------------
(***************************************************************************)
(* The compile session of a design and the replay of its cached parts.      *)
(*                                                                          *)
(* While design.py runs, its builders register components and connections    *)
(* with the session (tertius/session.py), which is turned into the compiled   *)
(* design at the end (tertius/graph.py).  A builder marked as a part is built *)
(* once; later compiles load its shape from the component cache and the       *)
(* session registers again what the entry recorded, under this session's      *)
(* tokens.  What is promised is that `the session ends up exactly as if the   *)
(* part had been built', so every statement is executed twice here: by        *)
(* `session`, which uses the cache, and by `plain`, which always builds.      *)
(*                                                                          *)
(* cadcache, the library behind the parts, is external: it calls back on a    *)
(* hit (replay), after a save (rebind) and before one (validate).  A part is   *)
(* identified with its key.  Geometry, products and families are left out:    *)
(* the parameters only say what is registered, joined and returned.           *)
(***************************************************************************)
EXTENDS Integers, FiniteSets, Sequences, SequencesExt

CONSTANTS
    Singles,      \* name |-> mark, for the components registered by the design itself
    Parts,       \* part |-> [body, result]: what its builder registers, in order,
                 \* and the sequence of names its shape contains
    Unmarked,    \* the mark of a component or connection that has none
    MaxStatements

(***************************************************************************)
(* An element of a body is [kind |-> "component", name, mark] or             *)
(* [kind |-> "connection", name, mark, ports, connectors], where ports and    *)
(* connectors are sequences of names: of the part's own registrations, or of  *)
(* pieces that the builder reaches.  A component has one port.                *)
(***************************************************************************)
\* The names that a body has given to components before its i-th element.
MadeBefore(body, i) == {body[j].name : j \in {k \in 1 .. i - 1 : body[k].kind = "component"}}

\* The names of a part are its own, and it joins pieces and what it has made already.
ASSUME DesignSessionAssumption ==
    /\ MaxStatements \in Nat
    /\ \A p \in DOMAIN Parts :
          LET body == Parts[p].body
          IN /\ body \in Seq(Range(body))
             /\ \A i \in DOMAIN body :
                   /\ body[i].kind \in {"component", "connection"}
                   /\ body[i].name \notin DOMAIN Singles
                   /\ body[i].kind = "connection" =>
                         Range(body[i].ports) \cup Range(body[i].connectors)
                             \subseteq DOMAIN Singles \cup MadeBefore(body, i)

NoEntry == [stored |-> FALSE]

EmptySession ==
    [components |-> <<>>,   \* their marks; a component's token is its place
     connections |-> <<>>,  \* [mark, ports, connectors] with tokens
     shapes |-> <<>>,       \* the shape each component is registered with
     pieces |-> [n \in DOMAIN Singles |-> 0], \* token of each piece, 0 before
     model |-> <<>>,        \* <<kind, token>> of the nodes of the returned shapes
     failed |-> FALSE]

VARIABLES
    session,     \* the session that uses the cache
    plain,       \* the session in which every part is built
    store,       \* part |-> the entry stored by earlier compiles
    fresh,       \* part |-> the entry made by this compile, stored at its end
    said         \* how many statements the design has executed

sessionVars == <<session, plain, store, fresh, said>>

----
(***************************************************************************)
(* Registration.                                                            *)
(***************************************************************************)
Failed(s) == [s EXCEPT !.failed = TRUE]

\* The id of a component: its mark, or one that tells its place.
InstanceId(s, token) ==
    IF s.components[token] = Unmarked THEN <<"component", token>> ELSE <<s.components[token]>>

RegisterComponent(s, mark, shape) ==
    IF mark # Unmarked /\ mark \in Range(s.components)
    THEN Failed(s)
    ELSE [s EXCEPT !.components = Append(@, mark), !.shapes = Append(@, shape)]

ConnectedPorts(s) == UNION {Range(c.ports) : c \in Range(s.connections)}
UsedConnectors(s) == UNION {Range(c.connectors) : c \in Range(s.connections)}

\* ports and connectors are sequences of tokens; shapes those of the connectors
\* that the caller passes, which must be the registered ones.
RegisterConnection(s, mark, ports, connectors, shapes) ==
    IF \/ Cardinality(Range(ports)) < 2
       \/ Range(ports) \cap ConnectedPorts(s) # {}
       \/ connectors = <<>>
       \/ Range(connectors) \cap UsedConnectors(s) # {}
       \/ Cardinality(Range(connectors)) # Len(connectors)
       \/ \E i \in DOMAIN connectors : s.shapes[connectors[i]] # shapes[i]
    THEN Failed(s)
    ELSE [s EXCEPT !.connections =
              Append(@, [mark |-> mark, ports |-> ports, connectors |-> connectors])]

ShapesOf(s, tokens) == [i \in DOMAIN tokens |-> s.shapes[tokens[i]]]

----
(***************************************************************************)
(* Building a part.                                                         *)
(***************************************************************************)
Own(p) == {e.name : e \in Range(Parts[p].body)}
OwnComponents(p) == {e.name : e \in {b \in Range(Parts[p].body) : b.kind = "component"}}

\* The token a name stands for while p is built: of the components made since
\* the call, or of a piece.
TokenOf(s, made, name) == IF name \in DOMAIN made THEN made[name] ELSE s.pieces[name]

\* Runs the body from session s: the session after it and the tokens of its own
\* registrations.  A piece that is not registered yet fails the builder.
Build(p, s) ==
    FoldLeft(
        LAMBDA run, e :
            IF run.s.failed THEN run
            ELSE IF e.kind = "component"
            THEN LET after == RegisterComponent(run.s, e.mark, "built")
                 IN [s |-> after,
                     made |-> [n \in DOMAIN run.made \cup {e.name} |->
                         IF n = e.name THEN Len(after.components) ELSE run.made[n]]]
            ELSE LET ports == [i \in DOMAIN e.ports |-> TokenOf(run.s, run.made, e.ports[i])]
                     used == [i \in DOMAIN e.connectors |->
                                 TokenOf(run.s, run.made, e.connectors[i])]
                     after == IF 0 \in Range(ports) \cup Range(used)
                              THEN Failed(run.s)
                              ELSE RegisterConnection(run.s, e.mark, ports, used,
                                       ShapesOf(run.s, used))
                 IN [s |-> after,
                     made |-> [n \in DOMAIN run.made \cup {e.name} |->
                         IF n = e.name THEN Len(after.connections) ELSE run.made[n]]],
        [s |-> s, made |-> [n \in {} |-> 0]],
        Parts[p].body)

\* The nodes of p's shape, with the tokens they carry.
Nodes(p, s, made) ==
    [i \in DOMAIN Parts[p].result |->
        LET name == Parts[p].result[i]
        IN <<IF name \in Own(p) \ OwnComponents(p) THEN "connection" ELSE "component",
             TokenOf(s, made, name)>>]

\* A call that builds p and hands the shape as built to the design.
Built(p, s) ==
    LET run == Build(p, s)
    IN IF run.s.failed THEN run.s
       ELSE [run.s EXCEPT !.model = @ \o Nodes(p, run.s, run.made)]

----
(***************************************************************************)
(* Storing a part and replaying it.                                         *)
(***************************************************************************)
External(p, e) == (Range(e.ports) \cup Range(e.connectors)) \ OwnComponents(p)
ConnectionsOf(p) == {e \in Range(Parts[p].body) : e.kind = "connection"}

\* Mutant of Storable: what the part connects to need not have a mark.
MutStorable(p, s) ==
    /\ \A i, j \in DOMAIN Parts[p].result : i # j => Parts[p].result[i] # Parts[p].result[j]
    /\ Range(Parts[p].result) = Own(p)

\* The part can be stored: its shape holds exactly what it registered, each
\* once, and what it connects to besides has a mark by which it is found again.
Storable(p, s) ==
    /\ \A i, j \in DOMAIN Parts[p].result : i # j => Parts[p].result[i] # Parts[p].result[j]
    /\ Range(Parts[p].result) = Own(p)
    /\ \A e \in ConnectionsOf(p) : \A n \in External(p, e) :
          s.components[s.pieces[n]] # Unmarked

\* The entry: the tokens of the session that built it, and the ids of what is
\* registered elsewhere.
EntryOf(p, s, made) ==
    [stored |-> TRUE, tokens |-> made,
     outside |-> [n \in UNION {External(p, e) : e \in ConnectionsOf(p)} |->
                     InstanceId(s, s.pieces[n])]]

\* The session after p was built and stored: the design gets the copy read back
\* from the entry, and the registrations are moved to the copy's nodes.
Rebind(s, made, p) ==
    [s EXCEPT !.shapes = [t \in DOMAIN @ |->
        IF \E n \in OwnComponents(p) : made[n] = t THEN "loaded" ELSE @[t]]]

\* The token that an id has in session s, 0 if none.
ById(s, id) ==
    IF \E t \in DOMAIN s.components : InstanceId(s, t) = id
    THEN CHOOSE t \in DOMAIN s.components : InstanceId(s, t) = id
    ELSE 0

\* Everything the entry connects to besides its own is registered.
Replayable(s, entry) == \A n \in DOMAIN entry.outside : ById(s, entry.outside[n]) # 0

\* Registers again, in order, what the entry recorded, on the loaded nodes: the
\* session after it and the tokens, as Build.
Rerun(p, s, entry) ==
    LET Resolve(made, name) ==
            IF name \in DOMAIN made THEN made[name] ELSE ById(s, entry.outside[name])
    IN FoldLeft(
        LAMBDA run, e :
            IF run.s.failed THEN run
            ELSE IF e.kind = "component"
            THEN LET after == RegisterComponent(run.s, e.mark, "loaded")
                 IN [s |-> after,
                     made |-> [n \in DOMAIN run.made \cup {e.name} |->
                         IF n = e.name THEN Len(after.components) ELSE run.made[n]]]
            ELSE LET ports == [i \in DOMAIN e.ports |-> Resolve(run.made, e.ports[i])]
                     used == [i \in DOMAIN e.connectors |-> Resolve(run.made, e.connectors[i])]
                     after == RegisterConnection(run.s, e.mark, ports, used,
                                  ShapesOf(run.s, used))
                 IN [s |-> after,
                     made |-> [n \in DOMAIN run.made \cup {e.name} |->
                         IF n = e.name THEN Len(after.connections) ELSE run.made[n]]],
        [s |-> s, made |-> [n \in {} |-> 0]],
        Parts[p].body)

\* A call that replays p and hands the loaded shape to the design.
Replay(p, s, entry) ==
    LET run == Rerun(p, s, entry)
    IN IF run.s.failed THEN run.s
       ELSE [run.s EXCEPT !.model = @ \o Nodes(p, run.s, run.made)]

----
Running == ~session.failed /\ ~plain.failed /\ said < MaxStatements

SessionInit ==
    /\ session = EmptySession
    /\ plain = EmptySession
    /\ store = [p \in DOMAIN Parts |-> NoEntry]
    /\ fresh = [p \in DOMAIN Parts |-> NoEntry]
    /\ said = 0

\* The design registers a component of its own.
RegisterPiece(n) ==
    /\ Running
    /\ plain.pieces[n] = 0
    /\ LET With(s) == LET after == RegisterComponent(s, Singles[n], "built")
                      IN IF after.failed THEN after
                         ELSE [after EXCEPT !.pieces[n] = Len(after.components)]
       IN session' = With(session) /\ plain' = With(plain)
    /\ said' = said + 1
    /\ UNCHANGED <<store, fresh>>

\* The entry a call of p finds: of this compile, or of an earlier one.
Found(p) == IF fresh[p].stored THEN fresh[p] ELSE store[p]

Hit(p) == Found(p).stored /\ Replayable(session, Found(p))

\* A call whose entry can be replayed.
CallHit(p) ==
    /\ Running
    /\ Hit(p)
    /\ session' = Replay(p, session, Found(p))
    /\ plain' = Built(p, plain)
    /\ said' = said + 1
    /\ UNCHANGED <<store, fresh>>

\* A call that builds the part, and keeps it if it can be stored.
CallBuilt(p) ==
    /\ Running
    /\ ~Hit(p)
    /\ plain' = Built(p, plain)
    /\ LET run == Build(p, session)
           kept == ~run.s.failed /\ Storable(p, run.s)
       IN /\ session' = IF kept THEN Rebind(Built(p, session), run.made, p)
                        ELSE Built(p, session)
          /\ fresh' = IF kept THEN [fresh EXCEPT ![p] = EntryOf(p, run.s, run.made)]
                      ELSE fresh
    /\ said' = said + 1
    /\ UNCHANGED store

\* The design joins two components, one of which it holds from a returned shape
\* and also uses as the connector.
JoinReturned(t, u) ==
    /\ Running
    /\ {t, u} \subseteq DOMAIN session.components \cap DOMAIN plain.components
    /\ t # u
    /\ session' = RegisterConnection(session, Unmarked, <<t, u>>, <<t>>,
                      ShapesOf(session, <<t>>))
    /\ plain' = RegisterConnection(plain, Unmarked, <<t, u>>, <<t>>, ShapesOf(plain, <<t>>))
    /\ said' = said + 1
    /\ UNCHANGED <<store, fresh>>

\* The compiled design is refused unless the model holds every component once
\* and every connection.
GraphAccepts(s, model) ==
    /\ \A t \in DOMAIN s.components :
          Cardinality({i \in DOMAIN model : model[i] = <<"component", t>>}) = 1
    /\ \A c \in DOMAIN s.connections : <<"connection", c>> \in Range(model)

NextCompile ==
    /\ session' = EmptySession
    /\ plain' = EmptySession
    /\ said' = 0
    /\ fresh' = [p \in DOMAIN Parts |-> NoEntry]

\* The compile ends: the design places its own components and connections and,
\* when the graph is accepted, the entries it made are stored.
Finalize(directly) ==
    /\ ~session.failed /\ ~plain.failed
    /\ session.components # <<>>
    /\ GraphAccepts(session, session.model \o SetToSeq(directly))
    /\ store' = [p \in DOMAIN Parts |-> IF fresh[p].stored THEN fresh[p] ELSE store[p]]
    /\ NextCompile

\* The compile fails, or its pod ends: its entries are lost.
AbandonDesign ==
    /\ session # EmptySession
    /\ NextCompile
    /\ UNCHANGED store

\* The nodes the design can place itself: those that no returned shape holds.
Loose ==
    ({"component"} \X DOMAIN session.components
        \cup {"connection"} \X DOMAIN session.connections) \ Range(session.model)

SessionNext ==
    \/ \E n \in DOMAIN Singles : RegisterPiece(n)
    \/ \E p \in DOMAIN Parts : CallHit(p) \/ CallBuilt(p)
    \/ \E t, u \in 1 .. MaxStatements : JoinReturned(t, u)
    \/ Finalize(Loose)
    \/ AbandonDesign

SessionSpec == SessionInit /\ [][SessionNext]_sessionVars

----
(***************************************************************************)
(* Properties.                                                              *)
(***************************************************************************)

\* A session that replays parts is the session in which they were built: the
\* same components under the same ids, the same connections of the same ports
\* by the same connectors, the same nodes in the model, and it fails exactly
\* when building would have failed.
ReplayIsBuilding ==
    /\ session.failed = plain.failed
    /\ ~session.failed =>
          /\ session.components = plain.components
          /\ session.connections = plain.connections
          /\ session.pieces = plain.pieces
          /\ session.model = plain.model
=============================================================================
