------------------------ MODULE MCStructuralChecks ------------------------
(***************************************************************************)
(* Frames to analyse: a portal of two posts on their footings, held by a   *)
(* rail and a tension-only brace, that earns its certificate; and frames   *)
(* that differ from it in a connection or two, in the brace, in a member   *)
(* or in what is known of the actions.                                     *)
(***************************************************************************)
EXTENDS StructuralChecks, TLC

\* Connections, by name: the footings' fixture and anchor, the brace's ends, the rail.
Connect(id, from, to, transfers, kinds, connectors) ==
    [id |-> id, ends |-> <<from, to>>, transfers |-> transfers, kinds |-> kinds,
     connectors |-> connectors, lacking |-> {}, over |-> {}, poor |-> {},
     pack |-> "none", same |-> TRUE, load |-> "ok", holds |-> {}, pinned |-> TRUE]
Footing == Connect(1, "ground", "post", {"force", "shear"}, {"fixture", "anchor", "bolts"}, 4)
Anchor == Connect(2, "mast", "slab", {"force", "shear"}, {"anchor"}, 1)
Low == Connect(3, "brace", "post", {"force"}, {}, 2)
High == Connect(4, "mast", "brace", {"force"}, {"screw"}, 2)
Rail == Connect(5, "post", "mast", {"force", "shear", "moment"}, {"cleat"}, 3)
Middle == Connect(6, "brace", "rod", {"shear"}, {"screw"}, 2)
Cladding == Connect(7, "rod", "mast", {"wind_normal"}, {"screw"}, 1)

\* A connection with one thing different.
Changed(j) ==
    {j}
    \cup {[j EXCEPT !.lacking = {k}] : k \in j.kinds \cup {"direct"}}
    \cup {[j EXCEPT !.over = {k}] : k \in j.kinds}
    \cup {[j EXCEPT !.poor = {k}] : k \in j.kinds}
    \cup {[j EXCEPT !.kinds = k] : k \in {{}, {"anchor"}, {"bolts"}, {"gusset", "screw"}, {"screw", "bolts"}, {"screw"}}}
    \cup {[j EXCEPT !.connectors = 3], [j EXCEPT !.transfers = {}],
          [j EXCEPT !.transfers = @ \cup {"moment"}], [j EXCEPT !.transfers = @ \ {"moment"}]}
    \cup {[j EXCEPT !.pack = p, !.same = s, !.load = l, !.kinds = k, !.holds = {"force", "moment"}] :
            p \in {"candidate", "verified"}, s \in BOOLEAN, l \in {"ok", "over"},
            k \in {{}, j.kinds}}

Whole == <<Footing, Anchor, Low, High, Rail>>
Layouts ==
    {Whole, <<Footing, Low, High>>, <<Anchor, Low, Rail>>, <<Footing, Anchor, Low, High, Middle, Cladding>>,
     <<Footing, Anchor, Middle, Cladding, High, Low>>, <<Rail, High, Low, Footing>>}
    \cup {[Whole EXCEPT ![i] = j] : i \in {1}, j \in Changed(Footing)}
    \cup {[Whole EXCEPT ![1] = [Footing EXCEPT !.kinds = @ \cup {"cleat"}, !.over = {"fixture"}]]}
    \cup {[Whole EXCEPT ![2] = j] : j \in Changed(Anchor)}
    \cup {[Whole EXCEPT ![4] = j] : j \in Changed(High)}
    \cup {[Whole EXCEPT ![5] = j] : j \in Changed(Rail)}
    \cup {<<Footing, Low, High, j>> : j \in Changed(Rail)}

BraceTie ==
    [component |-> "brace", named |-> {}, member |-> "ok", count |-> 2, details |-> TRUE,
     spaced |-> TRUE, bears |-> TRUE, tested |-> "high", verified |-> TRUE, same |-> TRUE,
     load |-> "ok"]
Ties ==
    {{BraceTie}, {}, {[BraceTie EXCEPT !.named = {3, 4}]}, {[BraceTie EXCEPT !.count = 0]},
     {[BraceTie EXCEPT !.count = 3]}, {[BraceTie EXCEPT !.member = "over"]},
     {[BraceTie EXCEPT !.member = "unknown"]}, {[BraceTie EXCEPT !.details = FALSE]},
     {[BraceTie EXCEPT !.spaced = FALSE]}, {[BraceTie EXCEPT !.bears = FALSE]},
     {[BraceTie EXCEPT !.tested = "none"]}, {[BraceTie EXCEPT !.tested = "low"]},
     {[BraceTie EXCEPT !.tested = "low", !.verified = FALSE]}, {[BraceTie EXCEPT !.same = FALSE]},
     {[BraceTie EXCEPT !.load = "over"]}}

Combination(id, limit, demo, score) ==
    [id |-> id, limit |-> limit, design |-> limit = "ultimate", factors |-> TRUE,
     demo |-> demo, score |-> score]
Strength == Combination("uls", "ultimate", FALSE, 0)
Service == Combination("sls", "serviceability", FALSE, 1)
Windy == Combination("wls", "serviceability", FALSE, 2)
Demo == Combination("demo", "serviceability", TRUE, 3)
Notional == [Combination("nhf", "ultimate", FALSE, 0) EXCEPT !.design = FALSE]
Authored ==
    {<<Strength, Service, Windy, Demo>>, <<Service>>, <<Strength>>, <<Demo, Strength>>,
     <<Notional, Service>>, <<>>}

\* A restraint of the post, held by the rail and anchored at the mast's footing.
Restraint ==
    [id |-> 1, member |-> "post", joint |-> 5, pack |-> "same", evidence |-> "candidate",
     force |-> FALSE, moment |-> FALSE, stiff |-> FALSE, anchored |-> FALSE, ground |-> TRUE,
     route |-> {2, 5}, demand |-> [k \in {"uls", "sls", "wls", "demo", "nhf", "all"} |-> "ok"]]
Restraints ==
    {Restraint, [Restraint EXCEPT !.pack = "other"], [Restraint EXCEPT !.ground = FALSE],
     [Restraint EXCEPT !.route = {}], [Restraint EXCEPT !.route = {1, 9}],
     [Restraint EXCEPT !.joint = 4], [Restraint EXCEPT !.demand["uls"] = "over"],
     [Restraint EXCEPT !.demand["sls"] = "unknown"],
     [Restraint EXCEPT !.evidence = "unsupported"],
     [Restraint EXCEPT !.pack = "none", !.joint = 9, !.evidence = "verified", !.force = TRUE,
                       !.moment = TRUE, !.stiff = TRUE]}

Segment(m, o) == [member |-> m, outcome |-> o]
Load(linked, coefficient, path) ==
    [case |-> "wind", linked |-> linked, coefficient |-> coefficient, path |-> path]
Basis ==
    [given |-> TRUE, register |-> TRUE, confirmed |-> TRUE, windRole |-> TRUE,
     actions |-> "active", combination |-> "active"]
PinnedBase == [model |-> "pinned", status |-> "conservative", columns |-> {"pinned"}, joints |-> FALSE,
         stiffness |-> FALSE]

Portal ==
    [loaded |-> TRUE, solves |-> TRUE, combos |-> <<Strength, Service, Windy, Demo>>,
     envelope |-> {"uls"}, memberCombos |-> {"uls"}, joints |-> Whole, grounded |-> {"ground", "slab"},
     ties |-> {BraceTie}, sections |-> {"ok", "skipped"}, segments |-> {Segment("mast", "ok")},
     candidates |-> {}, spans |-> {"ok", "axial"}, balanced |-> TRUE, sway |-> "steady",
     base |-> PinnedBase, basis |-> Basis, wind |-> {"verified"},
     loads |-> {Load(TRUE, "verified", "traced")}, actionPack |-> "verified", worstWind |-> TRUE]

\* The checks, and the second-order analysis, name combinations that are authored.
WithCombos(f, combos) ==
    LET ultimate == {c.id : c \in {d \in ToSet(combos) : d.limit = "ultimate"}}
    IN [f EXCEPT !.combos = combos, !.envelope = @ \cap ultimate, !.memberCombos = @ \cap ultimate,
                 !.sway = IF combos = <<>> THEN "none" ELSE @]

\* Each family varies one part of the portal.
Families ==
    <<{[Portal EXCEPT !.joints = l] : l \in Layouts},
      {[Portal EXCEPT !.joints = [Whole EXCEPT ![3] = low, ![4] = high]] :
            low \in Changed(Low), high \in Changed(High)},
      {[Portal EXCEPT !.joints = l, !.ties = t] :
            l \in {Whole, <<Footing, Anchor, Middle, Cladding, High, Low>>}, t \in Ties},
      {WithCombos([Portal EXCEPT !.ties = t], <<Service>>) : t \in Ties},
      {[Portal EXCEPT !.candidates = {c}, !.segments = s] :
            c \in Restraints,
            s \in {Portal.segments, {Segment("post", "ok"), Segment("post", "over")},
                   {Segment("post", "ok")}}},
      {[Portal EXCEPT !.candidates = {c}, !.joints = [Whole EXCEPT ![5] = j]] :
            c \in Restraints,
            j \in {[Rail EXCEPT !.over = {"cleat"}], [Rail EXCEPT !.kinds = {"gusset"}],
                   [Rail EXCEPT !.lacking = {"cleat"}]}},
      {[Portal EXCEPT !.sections = s, !.segments = g] :
            s \in {{}, {"skipped"}, {"ok", "over"}, {"ok", "no pack"}, {"off axis"}},
            g \in {{}, {Segment("mast", "ok"), Segment("mast", "no pack")}, {Segment("mast", "over")}}},
      {[Portal EXCEPT !.wind = w, !.loads = l] :
            w \in {{}, {"verified"}, {"verified", "drifted"}, {"unverified"}},
            l \in {{}, {Load(FALSE, "verified", "traced")}, {Load(TRUE, "assumed", "traced")},
                   {Load(TRUE, "verified", "blocked")}, {Load(TRUE, "verified", "traced")},
                   {[Load(TRUE, "verified", "traced") EXCEPT !.case = "dead"]}}},
      {[Portal EXCEPT !.basis = b, !.wind = w, !.loads = l] :
            b \in {[Basis EXCEPT !.given = FALSE], [Basis EXCEPT !.register = FALSE],
                   [Basis EXCEPT !.confirmed = FALSE], [Basis EXCEPT !.actions = "open"],
                   [Basis EXCEPT !.combination = "open"], [Basis EXCEPT !.windRole = FALSE]},
            w \in {{}, {"verified"}}, l \in {{}, Portal.loads}},
      {[Portal EXCEPT !.sway = s, !.base = b] :
            s \in {"none", "unstable", "amplified", "steady"},
            b \in {PinnedBase, [PinnedBase EXCEPT !.columns = {"pinned", "fixed"}],
                   [PinnedBase EXCEPT !.model = "unspecified", !.status = "verified", !.stiffness = TRUE],
                   [PinnedBase EXCEPT !.model = "fixed", !.columns = {"fixed"}, !.status = "verified"]}},
      {WithCombos([Portal EXCEPT !.worstWind = w, !.envelope = e, !.memberCombos = k,
                                  !.candidates = {Restraint}], c) :
            c \in Authored, w \in BOOLEAN, e \in {{}, {"uls", "nhf"}},
            k \in {{}, {"uls"}, {"uls", "nhf"}}},
      {[Portal EXCEPT !.spans = s, !.balanced = b] :
            s \in {{"axial"}, {"no limit", "ok"}, {"over", "ok"}}, b \in BOOLEAN},
      {[Portal EXCEPT !.grounded = g, !.joints = l] :
            g \in {{"ground"}, {"slab"}, {"ground", "slab", "post"}, {"ground", "slab", "mast"}},
            l \in {Whole, [Whole EXCEPT ![5] = Connect(5, "post", "mast", {"force"}, {"cleat"}, 3)]}},
      {[Portal EXCEPT !.loaded = FALSE], [Portal EXCEPT !.solves = FALSE],
       [Portal EXCEPT !.actionPack = "working"]}>>

MCFrames == UNION ToSet(Families)
=============================================================================
