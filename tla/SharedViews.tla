---------------------------- MODULE SharedViews ----------------------------
(***************************************************************************)
(* What a compile left and who may see it.  Replicas receive results of    *)
(* compiles at once: each stores the scene's assets, which the projects of *)
(* a tenant share, then its bundle, and drops old bundles.  The owner      *)
(* chooses the active project, and makes and revokes links to it.  Views,  *)
(* of the owner or through a link, read link, project, newest model, scene *)
(* and asset one after the other, while all of these change.               *)
(***************************************************************************)
EXTENDS Naturals, Sequences, FiniteSets

CONSTANTS
    Bundles,        \* successful results of compiles
    Sites,          \* projects of the tenant
    Home,           \* project of a bundle
    Scene,          \* assets its scene names, in the manifest's order; <<>> if it has no scene
    Links, Keys, Views,
    KeptBundles,    \* retention
    MaxTaken,       \* bound: deliveries of a result
    NoOne

Assets == UNION {{Scene[b][i] : i \in DOMAIN Scene[b]} : b \in Bundles}
NamedBy(b) == {Scene[b][i] : i \in DOMAIN Scene[b]}

ASSUME SharedAssumption ==
    /\ Home \in [Bundles -> Sites] /\ \A b \in Bundles : Scene[b] \in Seq(Assets)
    /\ KeptBundles \in Nat \ {0} /\ MaxTaken \in Nat \ {0}
    /\ NoOne \notin Bundles \cup Sites \cup Links \cup Keys

VARIABLES
    taking,     \* bundle |-> its result: where it is, deliveries, fetched assets, next asset, ...
    depot,      \* assets of the tenant, committed
    adding,     \* asset |-> result whose insert of it is not committed
    served,     \* bundle |-> <<>>, or when its artifacts were made and whether the scene is one
    stamp,      \* the last time of an artifact
    finished,   \* bundles whose job succeeded
    opened,     \* projects that exist
    chosen,     \* the owner's active project
    link,       \* link |-> its project and whether it is revoked
    key,        \* the key that signs links; NoOne when none is configured
    copied,     \* tokens the owner was shown: link and key
    view        \* view |-> what it asks, where it is, what it has read

takingVars == <<taking, depot, adding, served, stamp, finished>>
ownerVars == <<opened, chosen, link, key, copied>>
sharedVars == <<takingVars, ownerVars, view>>

----
Stage(b) == taking[b].state
Forgotten(b) == [taking[b] EXCEPT !.got = {}, !.next = 1, !.drops = {}]

\* The newest bundle with a model, of a project.
Shown(p) == {b \in Bundles : Home[b] = p /\ served[b] # <<>>}
Newest(p) == {b \in Shown(p) : \A c \in Shown(p) : served[c][1].made <= served[b][1].made}

SharedInit ==
    /\ taking = [b \in Bundles |-> [state |-> "due", taken |-> 1, got |-> {}, next |-> 1, scene |-> FALSE,
                                    made |-> 0, drops |-> {}]]
    /\ depot = {} /\ adding = [x \in Assets |-> NoOne]
    /\ served = [b \in Bundles |-> <<>>] /\ stamp = 0 /\ finished = {}
    /\ opened = {} /\ chosen = NoOne
    /\ link = [l \in Links |-> [project |-> NoOne, revoked |-> FALSE]]
    /\ key \in Keys /\ copied = {}
    /\ view = [v \in Views |-> [asks |-> "none", state |-> "new", link |-> NoOne, project |-> NoOne,
                                bundle |-> NoOne, asset |-> NoOne, other |-> NoOne, answer |-> "none"]]

----
(* Results.                                                                *)

\* Assets the tenant does not hold are fetched from the sidecar's store; if one is
\* missing, or there is no store, the bundle will have no scene.
FetchSceneAssets(b) ==
    /\ Stage(b) = "due" /\ Home[b] \in opened
    /\ \E got \in {NamedBy(b) \ depot, {}} :
          taking' = [taking EXCEPT ![b] = [@ EXCEPT !.state = "fetched", !.got = got]]
    /\ UNCHANGED <<depot, adding, served, stamp, finished, ownerVars, view>>

\* A defect: a scene is kept although one of its assets could not be fetched.
MutStoreSceneAssets(b) ==
    /\ Stage(b) = "fetched"
    /\ taking' = [taking EXCEPT ![b] =
          IF b \in finished THEN [Forgotten(b) EXCEPT !.state = "acking"]
          ELSE [@ EXCEPT !.state = IF Scene[b] # <<>> THEN "adding" ELSE "making",
                         !.next = 1, !.scene = Scene[b] # <<>>, !.got = @ \ depot]]
    /\ UNCHANGED <<depot, adding, served, stamp, finished, ownerVars, view>>

\* A result that was applied before is dropped.  What is held is read again: an asset
\* that is neither held nor fetched leaves the bundle without its scene.
StoreSceneAssets(b) ==
    /\ Stage(b) = "fetched"
    /\ LET whole == Scene[b] # <<>> /\ NamedBy(b) \subseteq depot \cup taking[b].got
       IN  taking' = [taking EXCEPT ![b] =
              IF b \in finished THEN [Forgotten(b) EXCEPT !.state = "acking"]
              ELSE [@ EXCEPT !.state = IF whole THEN "adding" ELSE "making", !.next = 1, !.scene = whole,
                             !.got = NamedBy(b) \ depot]]
    /\ UNCHANGED <<depot, adding, served, stamp, finished, ownerVars, view>>

Undone(b) ==
    /\ adding' = [x \in Assets |-> IF adding[x] = b THEN NoOne ELSE adding[x]]
    /\ taking' = [taking EXCEPT ![b] =
          IF @.taken < MaxTaken THEN [Forgotten(b) EXCEPT !.state = "due", !.taken = @ + 1]
          ELSE [Forgotten(b) EXCEPT !.state = "over"]]

\* Assets are inserted in the manifest's order.  An insert waits for another one of
\* the same asset, and the result is delivered again when that one was committed.
AddAsset(b) ==
    /\ Stage(b) = "adding" /\ taking[b].next <= Len(Scene[b])
    /\ LET x == Scene[b][taking[b].next]
       IN  \/ /\ x \notin taking[b].got
              /\ taking' = [taking EXCEPT ![b].next = @ + 1] /\ UNCHANGED adding
           \/ /\ x \in taking[b].got /\ adding[x] = NoOne
              /\ IF x \in depot THEN Undone(b)
                 ELSE /\ taking' = [taking EXCEPT ![b].next = @ + 1]
                      /\ adding' = [adding EXCEPT ![x] = b]
    /\ UNCHANGED <<depot, served, stamp, finished, ownerVars, view>>

\* Two results that wait for each other: the database fails one of them.
WaitsFor(b, c) ==
    /\ Stage(b) = "adding" /\ taking[b].next <= Len(Scene[b])
    /\ adding[Scene[b][taking[b].next]] = c
AddDeadlocks(b) ==
    /\ \E c \in Bundles \ {b} : WaitsFor(b, c) /\ WaitsFor(c, b)
    /\ Undone(b)
    /\ UNCHANGED <<depot, served, stamp, finished, ownerVars, view>>

\* The artifacts are made, each with its time.
MakeArtifacts(b) ==
    /\ Stage(b) \in {"adding", "making"}
    /\ Stage(b) = "adding" => taking[b].next > Len(Scene[b])
    /\ stamp' = stamp + 1
    /\ taking' = [taking EXCEPT ![b] = [@ EXCEPT !.state = "pruning", !.made = stamp']]
    /\ UNCHANGED <<depot, adding, served, finished, ownerVars, view>>

\* All but the newest bundles of the project, of those it can see, will go.
SelectOldBundles(b) ==
    /\ Stage(b) = "pruning"
    /\ LET rows == Shown(Home[b]) \cup {b}
           Made(c) == IF c = b THEN taking[b].made ELSE served[c][1].made
           newer(c) == {d \in rows : Made(d) > Made(c)}
       IN  taking' = [taking EXCEPT ![b] =
              [@ EXCEPT !.state = "committing", !.drops = {c \in rows : Cardinality(newer(c)) >= KeptBundles}]]
    /\ UNCHANGED <<depot, adding, served, stamp, finished, ownerVars, view>>

\* One commit: assets, artifacts, the job and what goes.
CommitResult(b) ==
    /\ Stage(b) = "committing"
    /\ taking' = [taking EXCEPT ![b] = [Forgotten(b) EXCEPT !.state = "acking"]]
    /\ served' = [c \in Bundles |-> IF c \in taking[b].drops THEN <<>>
                                   ELSE IF c = b THEN <<[made |-> taking[b].made, scene |-> taking[b].scene]>>
                                   ELSE served[c]]
    /\ depot' = depot \cup {x \in Assets : adding[x] = b}
    /\ adding' = [x \in Assets |-> IF adding[x] = b THEN NoOne ELSE adding[x]]
    /\ finished' = finished \cup {b}
    /\ UNCHANGED <<stamp, ownerVars, view>>

\* Before the commit anything may fail; after it, the acknowledgement may be lost.
ReceiveFails(b) ==
    /\ Stage(b) \in {"adding", "making", "pruning", "committing", "acking"}
    /\ Undone(b)
    /\ UNCHANGED <<depot, served, stamp, finished, ownerVars, view>>
AckResult(b) ==
    /\ Stage(b) = "acking"
    /\ taking' = [taking EXCEPT ![b].state = "over"]
    /\ UNCHANGED <<depot, adding, served, stamp, finished, ownerVars, view>>

----
(* The owner.                                                              *)

NewProject(p) ==
    /\ p \notin opened /\ opened' = opened \cup {p}
    /\ UNCHANGED <<takingVars, chosen, link, key, copied, view>>
ActivateProject(p) ==
    /\ p \in opened /\ chosen # p /\ chosen' = p
    /\ UNCHANGED <<takingVars, opened, link, key, copied, view>>

\* A link is made if it can be signed, and shown with its token.
CreateShare(l) ==
    /\ chosen # NoOne /\ key # NoOne /\ link[l].project = NoOne
    /\ link' = [link EXCEPT ![l].project = chosen]
    /\ copied' = copied \cup {<<l, key>>}
    /\ UNCHANGED <<takingVars, opened, chosen, key, view>>

\* The live links of the active project, with their tokens.
ListShares ==
    /\ key # NoOne
    /\ copied' = copied \cup {<<l, key>> : l \in {l \in Links : link[l].project = chosen /\ chosen # NoOne
                                                               /\ ~link[l].revoked}}
    /\ copied' # copied
    /\ UNCHANGED <<takingVars, opened, chosen, link, key, view>>
RevokeShare(l) ==
    /\ link[l].project # NoOne /\ ~link[l].revoked
    /\ link' = [link EXCEPT ![l].revoked = TRUE]
    /\ UNCHANGED <<takingVars, opened, chosen, key, copied, view>>

\* A new secret, or none: every token of the old one is void.
RotateSecret ==
    /\ key # NoOne /\ key' \in {k \in Keys \ {key} : \A t \in copied : t[2] # k} \cup {NoOne}
    /\ UNCHANGED <<takingVars, opened, chosen, link, copied, view>>

----
(* Views.                                                                  *)

Seen(v, state) == view' = [view EXCEPT ![v].state = state]
Reply(v, answer) == view' = [view EXCEPT ![v] = [@ EXCEPT !.state = "answered", !.answer = answer]]
OnlyView == UNCHANGED <<takingVars, ownerVars>>

\* What a link opens, and what the owner opens of the active project: a status or a
\* model ends where the newest model was read, as the scene does when there is none.
LinkAsks == {"scene", "asset"}
OwnAsks == {"status", "scene", "procurement"}

\* A token opens a link while it has its key and the link is not revoked.
Opens(t) == t[2] = key /\ ~link[t[1]].revoked

\* A holder of a token asks for the scene or for an asset, any it has heard of.
OpenLink(v) ==
    /\ view[v].state = "new"
    /\ \E t \in copied, asks \in LinkAsks, x \in Assets \cup {NoOne} :
          /\ asks = "asset" <=> x # NoOne
          /\ IF Opens(t)
             THEN view' = [view EXCEPT ![v] = [@ EXCEPT !.state = "project", !.asks = asks, !.link = t[1], !.asset = x,
                                                        !.project = link[t[1]].project]]
             ELSE Reply(v, "closed")
    /\ OnlyView

\* The owner asks for the status, the scene, an asset, or the procurement of the
\* active project; an asset is looked for among all of the tenant.
OpenOwn(v) ==
    /\ view[v].state = "new"
    /\ \/ \E asks \in OwnAsks :
             IF chosen = NoOne THEN Reply(v, "none")
             ELSE view' = [view EXCEPT ![v] = [@ EXCEPT !.asks = asks, !.project = chosen,
                                     !.state = IF asks = "procurement" THEN "manifest" ELSE "project"]]
       \/ \E x \in Assets :
             view' = [view EXCEPT ![v] = [@ EXCEPT !.state = "asset", !.asks = "asset", !.asset = x]]
    /\ OnlyView

\* The newest procurement, and then, of the project that is active now, the newest model.
ReadManifest(v) ==
    /\ view[v].state = "manifest"
    /\ IF Newest(view[v].project) = {} THEN Reply(v, "none")
       ELSE \E b \in Newest(view[v].project) :
               view' = [view EXCEPT ![v] = [@ EXCEPT !.state = "project", !.other = b, !.project = chosen]]
    /\ OnlyView
ReadModel(v) ==
    /\ view[v].state = "project"
    /\ IF Newest(view[v].project) = {}
       THEN Reply(v, IF view[v].asks = "procurement" THEN "stale" ELSE "none")
       ELSE \E b \in Newest(view[v].project) :
               view' = [view EXCEPT ![v] = [@ EXCEPT !.bundle = b,
                  !.state = IF view[v].asks = "procurement" THEN "answered" ELSE "model",
                  !.answer = IF view[v].asks # "procurement" THEN "none" ELSE IF view[v].other = b THEN "ok" ELSE "stale"]]
    /\ OnlyView

\* The scene of that model's compile.  Through a link an asset must be one of it.
InItsScene(v) == view[v].asset \in NamedBy(view[v].bundle)
ReadScene(v) ==
    /\ view[v].state = "model" /\ view[v].asks \in {"scene", "asset"}
    /\ LET b == view[v].bundle
       IN  IF served[b] = <<>> \/ ~served[b][1].scene THEN Reply(v, "none")
           ELSE IF view[v].asks = "scene" THEN Reply(v, "ok")
           ELSE IF InItsScene(v) THEN Seen(v, "asset") ELSE Reply(v, "none")
    /\ OnlyView
ReadAsset(v) ==
    /\ view[v].state = "asset"
    /\ Reply(v, IF view[v].asset \in depot THEN "ok" ELSE "lost")
    /\ OnlyView

\* Dimensions of that model: of the replica's cache, which holds some it showed,
\* or read from it if it is still there and its project still the active one.
ReadDimensions(v) ==
    /\ view[v].state = "model" /\ view[v].asks = "status"
    /\ \/ Reply(v, "ok")
       \/ ~(served[view[v].bundle] # <<>> /\ Home[view[v].bundle] = chosen) /\ Reply(v, "none")
    /\ OnlyView

SharedNext ==
    \/ \E b \in Bundles :
          \/ FetchSceneAssets(b) \/ StoreSceneAssets(b) \/ AddAsset(b) \/ AddDeadlocks(b) \/ MakeArtifacts(b)
          \/ SelectOldBundles(b) \/ CommitResult(b) \/ ReceiveFails(b) \/ AckResult(b)
    \/ \E p \in Sites : NewProject(p) \/ ActivateProject(p)
    \/ \E l \in Links : CreateShare(l) \/ RevokeShare(l)
    \/ ListShares \/ RotateSecret
    \/ \E v \in Views :
          \/ OpenLink(v) \/ OpenOwn(v) \/ ReadManifest(v) \/ ReadModel(v) \/ ReadScene(v) \/ ReadAsset(v)
          \/ ReadDimensions(v)

SharedSpec == SharedInit /\ [][SharedNext]_sharedVars

----
(* What views promise.                                                     *)

Takings == [state : {"due", "fetched", "adding", "making", "pruning", "committing", "acking", "over"},
            taken : Nat, got : SUBSET Assets, next : Nat, scene : BOOLEAN, made : Nat, drops : SUBSET Bundles]
Reading == [asks : {"none", "asset"} \cup OwnAsks,
            state : {"new", "manifest", "project", "model", "asset", "answered"},
            link : Links \cup {NoOne}, project : Sites \cup {NoOne}, bundle : Bundles \cup {NoOne},
            asset : Assets \cup {NoOne}, other : Bundles \cup {NoOne},
            answer : {"none", "ok", "lost", "stale", "closed"}]

\* Every part of the state has its type.
SharedTypeOK ==
    /\ taking \in [Bundles -> Takings]
    /\ depot \subseteq Assets /\ adding \in [Assets -> Bundles \cup {NoOne}]
    /\ served \in [Bundles -> Seq([made : Nat, scene : BOOLEAN])]
    /\ stamp \in Nat /\ finished \subseteq Bundles
    /\ opened \subseteq Sites /\ chosen \in Sites \cup {NoOne}
    /\ link \in [Links -> [project : Sites \cup {NoOne}, revoked : BOOLEAN]]
    /\ key \in Keys \cup {NoOne} /\ copied \subseteq Links \X Keys
    /\ view \in [Views -> Reading]

\* A scene that is served has all of its assets, however results that share assets meet.
SceneIsWhole == \A b \in Bundles : served[b] # <<>> /\ served[b][1].scene => NamedBy(b) \subseteq depot

\* Through a link only assets of its own project are answered, and one that its scene
\* names is never lost.
LinkOpensItsProject ==
    \A v \in Views : view[v].link # NoOne =>
        /\ view[v].project = link[view[v].link].project
        /\ view[v].answer # "lost"
        /\ (view[v].asks = "asset" /\ view[v].answer = "ok") =>
              \E b \in finished : Home[b] = view[v].project /\ view[v].asset \in NamedBy(b)

\* Results that drop old bundles at once leave the newest one of those that were stored.
NewestIsShown ==
    \A p \in Sites : \A b \in finished : Home[b] = p =>
        \E c \in Shown(p) : served[c][1].made >= taking[b].made

\* Shared views together (compile_result_consumer.py 70-202, extus_server.py 309-518).
ViewsAreWhole == SceneIsWhole /\ LinkOpensItsProject /\ NewestIsShown
=============================================================================
