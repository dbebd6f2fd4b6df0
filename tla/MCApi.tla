------------------------------- MODULE MCApi -------------------------------
(***************************************************************************)
(* Model-checking instance for parts of the API and of the library that do *)
(* not share state: the saved structural results, the drawings, the        *)
(* writers of files, the structural projection, the checks of a structure, *)
(* its declaration, the site, the actions of the wind, and what an edit is   *)
(* told of earlier ones.  A behaviour chooses one of them and the others   *)
(* stay where they began: the run explores the sum of their state spaces.  *)
(***************************************************************************)
EXTENDS StructuralResults, Drawings, ProjectWrites, StructuralProjection,
        MCStructuralChecks, MCStructuralAuthoring, MCWindActions, Conversations

CONSTANT FirstBuild
ASSUME FirstBuild \in Builds

VARIABLE focus

vars == <<focus, resultsVars, drawingVars, writeVars, projectionVars, checkVars, authoringVars,
          siteVars, windVars, chats>>

FirstDesign == CHOOSE d \in Compiled : TRUE
FirstSettings == CHOOSE k \in Saved : TRUE

\* Where the parts that are not chosen begin does not matter.
Init ==
    /\ focus \in {"results", "drawings", "writes", "projection", "checks", "authoring",
                 "site", "wind", "chats"}
    /\ ResultsInit
    /\ focus # "results" =>
          /\ design = CHOOSE d \in Designs : TRUE
          /\ row = [k \in Keys |-> [id |-> 0, valid |-> FALSE]]
          /\ server = [a \in Analyses |-> CHOOSE p \in Servers : TRUE]
    /\ DrawingsInit
    /\ WritesInit
    /\ focus # "writes" => text = [f \in ProjectFiles |-> "original"]
    /\ ProjectionInit
    /\ layout = FirstDesign /\ settings = FirstSettings
    /\ ChecksInit
    /\ focus # "checks" => frame = Portal /\ chosen = "none"
    /\ AuthoringInit
    /\ focus # "authoring" => design_ = PlainScript
    /\ SiteInit
    /\ focus # "site" => file = Missing
    /\ WindInit
    /\ focus # "wind" => shed = Small /\ where = <<>> /\ given = GravityOnly
    /\ ConversationInit
    /\ focus # "chats" => chats = <<>>

Next ==
    \/ /\ focus = "results" /\ ResultsNext
       /\ UNCHANGED <<focus, drawingVars, writeVars, projectionVars, checkVars, authoringVars,
                      siteVars, windVars, chats>>
    \/ /\ focus = "drawings" /\ DrawingsNext
       /\ UNCHANGED <<focus, resultsVars, writeVars, projectionVars, checkVars, authoringVars,
                      siteVars, windVars, chats>>
    \/ /\ focus = "writes" /\ WritesNext
       /\ UNCHANGED <<focus, resultsVars, drawingVars, projectionVars, checkVars, authoringVars,
                      siteVars, windVars, chats>>
    \/ /\ focus = "projection" /\ ProjectionNext
       /\ UNCHANGED <<focus, resultsVars, drawingVars, writeVars, checkVars, authoringVars,
                      siteVars, windVars, chats>>
    \/ /\ focus = "checks" /\ ChecksNext
       /\ UNCHANGED <<focus, resultsVars, drawingVars, writeVars, projectionVars, authoringVars,
                      siteVars, windVars, chats>>
    \/ /\ focus = "authoring" /\ AuthoringNext
       /\ UNCHANGED <<focus, resultsVars, drawingVars, writeVars, projectionVars, checkVars,
                      siteVars, windVars, chats>>
    \/ /\ focus = "site" /\ SiteNext
       /\ UNCHANGED <<focus, resultsVars, drawingVars, writeVars, projectionVars, checkVars,
                      authoringVars, windVars, chats>>
    \/ /\ focus = "wind" /\ WindNext
       /\ UNCHANGED <<focus, resultsVars, drawingVars, writeVars, projectionVars, checkVars,
                      authoringVars, siteVars, chats>>
    \/ /\ focus = "chats" /\ ConversationNext
       /\ UNCHANGED <<focus, resultsVars, drawingVars, writeVars, projectionVars, checkVars,
                      authoringVars, siteVars, windVars>>

\* The fair actions of a part are not enabled where it begins.
Spec ==
    /\ Init /\ [][Next]_vars
    /\ ResultsFairness /\ DrawingsFairness /\ WritesFairness

----
(* Bounds of the parts.                                                    *)

\* Exports begin when all analyses are answered or have not begun; the requests
\* come after the saves; only one key may have a result that cannot be read.
ResultsBounds ==
    /\ (\E x \in Exports : asked[x].state # "new") =>
           \A x \in Analyses : asked[x].state \in {"new", "hit", "calculated", "failed"}
    /\ (\E s \in Saves : save[s].state = "adding") => \A x \in Transactions : asked[x].state = "new"
    /\ \A k \in Keys : row[k].id = 1 /\ ~row[k].valid =>
           k[2] # "none" /\ k[1] = CHOOSE x \in Designs : TRUE
    /\ compiles = 0 => design = CHOOSE x \in Designs : TRUE

\* The first build is the first to have a job; the other begins at any time, and
\* its own message is published and answered in time for the recovery pass.
\* design.py is saved, and the status polled, with one build only.
DrawingsBounds ==
    /\ \A b \in Builds \ {FirstBuild} : build[b].state # "unpublished" /\ job[b].age < 2
    /\ made # <<>> => Head(made) = FirstBuild
    /\ version > 1 \/ polled # NoBuild =>
           \A b \in Builds \ {FirstBuild} : build[b].state = "new"

----
(* Writers: two saves of different files, an edit of both and a deletion.  *)
MCSaveTargets == [s |-> "f", t |-> "g", u |-> "g"]
MCEditTargets == [e |-> {"f", "g"}]
MCDropTargets == [d |-> "g"]

\* The second save of one file does not meet the deletion.
WritesBounds == ~(writer["u"] # "new" /\ writer["d"] # "new")

Bounds == ResultsBounds /\ DrawingsBounds /\ WritesBounds /\ SiteBounds

----
(* Designs: two members, the second held by the first, on a ground.        *)
MCKind == [m |-> "member", n |-> "member", g |-> "ground", x |-> "bare"]
MCLength == [m |-> 6, n |-> 3]
MCRank == [end |-> 1, p |-> 2, q |-> 3, start |-> 4, top |-> 5]
MCRestrains == {<<"m", "n">>}

Joint(id, ports, model, moment) ==
    [id |-> id, ports |-> ports, model |-> model, moment |-> moment, permitted |-> 0]
Base == Joint("base", <<<<"g", "top">>, <<"m", "start">>>>, "rigid", FALSE)
Side == Joint("side", <<<<"m", "p">>, <<"n", "start">>>>, "pinned", FALSE)
Strut == Joint("tail", <<<<"n", "end">>, <<"m", "q">>>>, "pinned", FALSE)
Knee == Joint("knee", <<<<"m", "end">>, <<"n", "start">>>>, "rigid_zone", TRUE)
Twice == Joint("side", <<<<"m", "p">>, <<"m", "q">>, <<"n", "start">>>>, "rigid", FALSE)
Lone == Joint("knee", <<<<"x", "top">>, <<"m", "p">>>>, "pinned", FALSE)
Moment == Joint("side", <<<<"m", "p">>, <<"n", "start">>>>, "pinned", TRUE)
Again == [Strut EXCEPT !.id = "side"]
MCJoints ==
    {<<Base, Side>>, <<Base, Side, Strut>>, <<Base, Twice>>, <<Base, Knee, Lone>>,
     <<Base, Moment>>, <<Side, Strut>>, <<Base, Side, Again>>, <<Base, Knee, Strut>>}
MCCompiled ==
    {[at |-> (<<"m", "p">> :> i @@ <<"m", "q">> :> k),
      off |-> (<<"m", "p">> :> o @@ <<"m", "q">> :> 1), joints |-> js] :
        i \in {-1, 1, 2, 5, 7}, k \in {2, 5}, o \in {0, 2}, js \in MCJoints}

\* One recompile and one save lead from the first design and settings to any.
EachOnce ==
    /\ layout' # layout => layout = FirstDesign
    /\ settings' # settings => settings = FirstSettings

MCPoints ==
    {<<>>, <<[id |-> "w", component |-> "m", at |-> 3]>>,
     <<[id |-> "w", component |-> "m", at |-> 6], [id |-> "v", component |-> "n", at |-> 0]>>}
MCLines ==
    {<<>>, <<[id |-> "u", component |-> "m", from |-> 0, to |-> 0]>>,
     <<[id |-> "u", component |-> "m", from |-> 2, to |-> 5],
       [id |-> "t", component |-> "n", from |-> 1, to |-> 3]>>}
MCLengths ==
    {<<>>, <<[id |-> "k", component |-> "m", from |-> 1, to |-> 5]>>,
     <<[id |-> "k", component |-> "m", from |-> 0, to |-> 0],
       [id |-> "h", component |-> "n", from |-> 0, to |-> 0]>>,
     <<[id |-> "k", component |-> "n", from |-> 4, to |-> 0]>>}
MCSaved ==
    {[points |-> p, lines |-> <<>>, checked |-> c, lengths |-> <<>>] :
        p \in MCPoints, c \in {<<>>, <<"m">>, <<"n", "n">>}}
    \cup {[points |-> <<>>, lines |-> l, checked |-> <<>>, lengths |-> s] :
        l \in MCLines, s \in MCLengths}

----
(* Requests: a short one, one too long to be kept whole, one that is blank; *)
(* and projects with one or two edits from before contexts were stored.    *)
MCTurnCost == [short |-> 2, long |-> 9, blank |-> 0]
MCLineCost == [short |-> 1, long |-> 2, blank |-> 0]
Older(prompt, status) == [prompt |-> prompt, status |-> status, context |-> NoContext]
MCLegacies ==
    {<<>>, <<Older("short", "over"), Older("long", "over")>>}
    \cup {<<Older(p, s)>> : p \in {"short", "long"}, s \in {"over", "unclear"}}
=============================================================================
