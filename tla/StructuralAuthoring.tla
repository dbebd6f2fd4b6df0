------------------------ MODULE StructuralAuthoring ------------------------
(***************************************************************************)
(* A design declares its structure by calls on a StructuralModel.  The     *)
(* calls are taken twice: executed with the design's CAD                   *)
(* (authoring_runtime.py), and read from its text without executing it     *)
(* (design_capture.py).  Either way ends in a declaration, which is        *)
(* captured: validated by the contracts, with the path of each load to     *)
(* ground (contracts.py).                                                  *)
(*                                                                         *)
(* A design is a sequence of statements, with a few departures from it.  A *)
(* step takes one of them on the model that execution builds and on the    *)
(* one that reading builds; an error ends either, unless the statement is  *)
(* in a try block of the design, which execution leaves and reading does   *)
(* not enter.                                                              *)
(***************************************************************************)
EXTENDS Integers, FiniteSets, SequencesExt

\* A statement has
\*   op      the method;  name  the variable it assigns
\*   form    "assign", "expr", or "hidden": inside a try block
\*   flaw    "value": an argument is refused; "text": a text that is stored is empty
\*   extra   an argument that execution takes and reading refuses: a keyword it does
\*           not know, or an empty list of weights in place of none
\* and the method's arguments, among them names of earlier variables.
CONSTANTS
    Scripted,
    Statements(_),  \* of a design: its own and others in their place
    MaxDepartures,  \* bound per design: other, left out and repeated statements
    Declaration,    \* the variable reading looks for
    Close           \* axis positions this near are one (1e-6 m)
ASSUME CloseAssumption == Close \in Nat

Ops == {"basis", "part", "member part", "member", "axis", "connect", "joint", "restraint",
        "boundary", "stability", "cross section", "member stability", "wind", "material",
        "section", "catalogue", "ensure", "surface load", "wind load", "distribute", "uniform",
        "point load", "line load", "self weight", "combination", "assembly", "manifest", "alias"}
Arguments == {"op", "name", "form", "id", "flaw", "extra", "kind", "node", "part", "axis",
              "length", "section", "material", "of", "mass", "from", "to", "via", "connection",
              "brace", "anchorage", "anchored", "atEnd", "at", "along", "start", "end", "combos",
              "combo", "members", "named", "segments", "category", "case", "label", "wind",
              "source", "by", "factors", "limit", "directions", "parts", "also"}

\* Only `wind_surface_load` has a wind basis to name, only an assignment a variable;
\* ids of authored segments tell them from derived ones.
IsStatement(s) ==
    /\ DOMAIN s = Arguments /\ s.op \in Ops
    /\ s.length \in Int /\ s.at \in Int /\ s.along \in Seq(Int)
    /\ {s.via, s.anchorage, s.members, s.combos, s.parts} \subseteq Seq(STRING)
    /\ s.op = "surface load" => s.wind = "none"
    /\ s.form = "expr" => s.name = ""
    /\ s.form = "assign" => s.name # ""
    /\ \A g \in ToSet(s.segments) : g.id[1] # "segment"

ASSUME StatementsAssumption ==
    \A d \in Scripted :
        /\ DOMAIN Statements(d) = 1..Len(Statements(d)) /\ Len(Statements(d)) \in Nat
        /\ \A i \in DOMAIN Statements(d) :
              \A s \in {Statements(d)[i].own} \cup Statements(d)[i].others : IsStatement(s)

VARIABLES
    design_,    \* the design
    line,       \* its next statement
    departures,
    run,        \* execution: its status, model, variables and manifest
    reading,    \* reading: also whether it passed over a call
    captured    \* what the contracts make of the manifest and of the declaration

authoringVars == <<design_, line, departures, run, reading, captured>>

\* An optional value is a sequence of at most one.
NewModel ==
    [basis |-> <<>>, winds |-> <<>>, stability |-> <<>>, crossSection |-> <<>>,
     memberStability |-> <<>>, parts |-> <<>>, geometry |-> {}, connections |-> <<>>,
     candidates |-> <<>>, loads |-> <<>>, materials |-> <<>>, sections |-> <<>>,
     members |-> <<>>, points |-> <<>>, lines |-> <<>>, combos |-> <<>>,
     cases |-> <<>>, assembled |-> <<>>, materialIds |-> {}, sectionIds |-> {}]

IdsOf(records) == {r.id : r \in ToSet(records)}
Named(records, id) == CHOOSE r \in ToSet(records) : r.id = id
Put(f, k, v) == [x \in DOMAIN f \cup {k} |-> IF x = k THEN v ELSE f[x]]
AllDiffer(list) == Cardinality(ToSet(list)) = Len(list)

\* What a call comes to: a model, changed or not, and a handle if it is not refused.
Handle(kind, id) == [kind |-> kind, id |-> id]
Done(m, kind, id) == [ok |-> TRUE, model |-> m, handle |-> Handle(kind, id)]
Refused(m) == [ok |-> FALSE, model |-> m, handle |-> Handle("none", "none")]
Take(guard, m, result) == IF guard THEN result ELSE Refused(m)

----
(* Execution: handles.                                                     *)

Holds(env, name, kind) == name \in DOMAIN env /\ env[name].kind = kind

\* The part of a handle of this model, or none.
PartOf(m, env, name) ==
    IF Holds(env, name, "part") THEN {p \in ToSet(m.parts) : p.id = env[name].id} ELSE {}
IsPart(m, env, name, kinds) == \E p \in PartOf(m, env, name) : p.kind \in kinds

\* The axis a handle stands for: its own, or the only one of a part.
AxisOf(m, env, name) ==
    LET own == {x \in ToSet(m.members) : Holds(env, name, "axis") /\ x.id = env[name].id}
        met == {x \in ToSet(m.members) : Holds(env, name, "part") /\ x.component = env[name].id}
    IN IF own # {} THEN own ELSE IF Cardinality(met) = 1 THEN met ELSE {}
TheAxis(m, env, name) == CHOOSE x \in AxisOf(m, env, name) : TRUE

ConnectionOf(m, env, name) ==
    {c \in ToSet(m.connections) : Holds(env, name, "connection") /\ c.id = env[name].id}
LoadOf(m, env, name) ==
    {l \in ToSet(m.loads) : Holds(env, name, "load") /\ l.id = env[name].id}

----
(* Execution: components and their geometry.                               *)

\* A defect: two parts may have one node.
RegisterAnyNode(m, s) ==
    Take(m.assembled = <<>> /\ s.flaw = "none" /\ s.id \notin IdsOf(m.parts),
         m, Done([m EXCEPT !.parts = Append(@, [id |-> s.id, kind |-> s.kind, node |-> s.node])],
                 "part", s.id))

\* ground, member, surface, connector and support.
Register(m, s) ==
    Take(/\ m.assembled = <<>> /\ s.flaw = "none"
         /\ s.id \notin IdsOf(m.parts) /\ \A p \in ToSet(m.parts) : p.node # s.node,
         m, Done([m EXCEPT !.parts = Append(@, [id |-> s.id, kind |-> s.kind, node |-> s.node])],
                 "part", s.id))

\* A part of a builder's geometry; a member's axis is kept with it.
MemberPart(m, s) ==
    LET part == Register(m, [s EXCEPT !.flaw = "none"])
    IN IF ~part.ok THEN part
       ELSE [part EXCEPT !.model.geometry = @ \cup {s.id}]

\* The analysis axis of a member.
Axis(m, component, env, s) ==
    Take(/\ \E p \in ToSet(m.parts) : p.id = component /\ p.kind = "member"
         /\ s.axis \notin IdsOf(m.members) /\ s.length > 0 /\ s.flaw = "none"
         /\ Holds(env, s.section, "section") /\ Holds(env, s.material, "material"),
         m, Done([m EXCEPT !.members =
                     Append(@, [id |-> s.axis, component |-> component, length |-> s.length,
                                section |-> env[s.section].id, material |-> env[s.material].id,
                                sound |-> TRUE])], "axis", s.axis))

MemberAxis(m, env, s) ==
    Take(PartOf(m, env, s.part) # {}, m, Axis(m, env[s.part].id, env, s))

\* The part is registered before its axis is refused.
MemberFromGeometry(m, env, s) ==
    LET part == MemberPart(m, s)
        axis == Axis(part.model, s.id, env, s)
    IN IF ~part.ok THEN part ELSE [axis EXCEPT !.handle = part.handle]

ConnectParts(m, env, s) ==
    Take(/\ PartOf(m, env, s.from) # {} /\ PartOf(m, env, s.to) # {}
         /\ env[s.from] # env[s.to] /\ s.id \notin IdsOf(m.connections)
         /\ \A i \in DOMAIN s.via : IsPart(m, env, s.via[i], {"connector"})
         /\ AllDiffer([i \in DOMAIN s.via |-> env[s.via[i]].id]) /\ s.flaw = "none",
         m, Done([m EXCEPT !.connections =
                     Append(@, [id |-> s.id, from |-> env[s.from].id, to |-> env[s.to].id,
                                via |-> [i \in DOMAIN s.via |-> env[s.via[i]].id]])],
                 "connection", s.id))

\* A joint of two members by its own connector, which is registered before the
\* members and the connection are checked.
JointFromGeometry(m, env, s) ==
    LET part == Register(m, [s EXCEPT !.flaw = "none"])
        known == Put(env, "joint's connector", part.handle)
    IN IF s.flaw = "value" \/ ~part.ok THEN Refused(m)
       ELSE IF \E end \in {s.from, s.to} : ~IsPart(part.model, env, end, {"member"})
       THEN Refused(part.model)
       ELSE ConnectParts(part.model, known,
                    [s EXCEPT !.id = s.connection, !.via = <<"joint's connector">>])

----
(* Execution: restraints of members.                                       *)

OtherEnd(connection, c) == IF connection.from = c THEN connection.to ELSE connection.from
Grounded(m, c) == Named(m.parts, c).kind = "ground"

\* Where a chain of connections leads from a component; "broken" if one of them
\* does not continue it.
Anchorage(m, env, start, chain) ==
    FoldLeft(LAMBDA at, name :
        IF at = "broken" \/ \A c \in ConnectionOf(m, env, name) : at \notin {c.from, c.to}
        THEN "broken"
        ELSE OtherEnd(CHOOSE c \in ConnectionOf(m, env, name) : TRUE, at), start, chain)

AddRestraint(m, c) ==
    Take(c.id \notin IdsOf(m.candidates), m,
         Done([m EXCEPT !.candidates = Append(@, c)], "none", "none"))

\* A distance along an axis, kept on it.
OnAxis(axis, x) == IF x < 0 THEN 0 ELSE IF x > axis.length THEN axis.length ELSE x

\* Where a connected brace comes nearest to the member's axis.
RestraintFromConnection(m, env, s) ==
    LET axis == TheAxis(m, env, s.part)
        brace == env[s.brace].id
        joint == CHOOSE c \in ConnectionOf(m, env, s.connection) : TRUE
        id == IF s.id = "" THEN <<"restraint", joint.id, "">> ELSE <<s.id, "", "">>
        end == Anchorage(m, env, brace, s.anchorage)
    IN Take(/\ AxisOf(m, env, s.part) # {} /\ IsPart(m, env, s.brace, {"member"})
            /\ ConnectionOf(m, env, s.connection) # {}
            /\ {joint.from, joint.to} = {axis.component, brace} /\ brace \in m.geometry
            /\ end # "broken" /\ (s.anchored => Grounded(m, end)) /\ s.flaw = "none",
            m, AddRestraint(m, [id |-> id, member |-> axis.id, brace |-> brace,
                                connection |-> joint.id, at |-> OnAxis(axis, s.at),
                                ground |-> IF Grounded(m, end) THEN end ELSE "none"]))

\* At an end of the member.
BoundaryRestraint(m, env, s) ==
    LET axis == TheAxis(m, env, s.part)
        joint == CHOOSE c \in ConnectionOf(m, env, s.connection) : TRUE
        id == <<"restraint", joint.id, axis.id>>
    IN Take(/\ AxisOf(m, env, s.part) # {} /\ ConnectionOf(m, env, s.connection) # {}
            /\ axis.component \in {joint.from, joint.to} /\ s.flaw = "none",
            m, AddRestraint(m, [id |-> id, member |-> axis.id,
                                brace |-> OtherEnd(joint, axis.component), connection |-> joint.id,
                                at |-> IF s.atEnd THEN axis.length ELSE 0, ground |-> "none"]))

\* A defect: restraints are taken in the order they were declared.
AsDeclared(m, axis) ==
    FoldLeft(LAMBDA own, c : IF c.member = axis.id THEN Append(own, c) ELSE own,
             <<>>, m.candidates)

\* The restraints of a member in their order along it; of two at one place, the one
\* that was declared first comes first.
Along(m, axis) ==
    FoldLeft(LAMBDA sorted, c :
        LET next == SelectInSeq(sorted, LAMBDA d : c.at < d.at)
        IN IF c.member # axis.id THEN sorted
           ELSE IF next = 0 THEN Append(sorted, c) ELSE InsertAt(sorted, next, c),
        <<>>, m.candidates)

\* The boundaries between a member's segments: its start, its restraints in their
\* order along it, those that nearly meet as one, and its end.
Boundaries(m, axis) ==
    LET held == FoldLeft(LAMBDA met, c :
                    IF OnAxis(axis, c.at) - Last(met).at <= Close
                    THEN [met EXCEPT ![Len(met)].ids = @ \cup {c.id}]
                    ELSE Append(met, [at |-> OnAxis(axis, c.at), ids |-> {c.id}]),
                <<[at |-> 0, ids |-> {}]>>, Along(m, axis))
    IN IF axis.length - Last(held).at <= Close
       THEN [held EXCEPT ![Len(held)].at = axis.length]
       ELSE Append(held, [at |-> axis.length, ids |-> {}])

DerivedSegments(m, axis) ==
    LET b == Boundaries(m, axis)
    IN [i \in 1..Len(b) - 1 |->
            [id |-> <<"segment", axis.id, i>>, member |-> axis.id, from |-> b[i].at,
             to |-> b[i + 1].at, starts |-> b[i].ids, ends |-> b[i + 1].ids]]

\* Of each of the members, one after the other.
AllSegments(m, axes) ==
    FoldLeft(LAMBDA done, axis : done \o DerivedSegments(m, axis), <<>>, axes)

SegmentIsOf(m, g) ==
    /\ g.member \in IdsOf(m.members)
    /\ 0 <= g.from /\ g.from < g.to /\ g.to <= Named(m.members, g.member).length
    /\ g.starts \cup g.ends \subseteq IdsOf(m.candidates)

\* The candidates of the members that have a segment.
CandidatesOf(candidates, segments) ==
    FoldLeft(LAMBDA kept, c : IF \E g \in ToSet(segments) : g.member = c.member
                              THEN Append(kept, c) ELSE kept, <<>>, candidates)

\* Segments are authored, or derived from the restraints the members have by then;
\* the candidates kept are those of the members that have a segment.
MemberStability(m, env, s) ==
    LET axes == [i \in DOMAIN s.members |-> TheAxis(m, env, s.members[i])]
        segments == IF s.segments # <<>> THEN s.segments
                    ELSE AllSegments(m, axes)
    IN Take(/\ m.memberStability = <<>> /\ s.flaw = "none"
            /\ s.combos # <<>> /\ AllDiffer(s.combos)
            /\ (s.segments = <<>>) # (s.members = <<>>)
            /\ \A i \in DOMAIN s.members : AxisOf(m, env, s.members[i]) # {}
            /\ AllDiffer(axes) /\ segments # <<>> /\ AllDiffer([i \in DOMAIN segments |-> segments[i].id])
            /\ \A g \in ToSet(segments) : SegmentIsOf(m, g),
            m, Done([m EXCEPT !.memberStability =
                        <<[combos |-> s.combos, segments |-> segments, sound |-> TRUE,
                           candidates |-> CandidatesOf(m.candidates, segments)]>>],
                    "none", "none"))

CrossSection(m, env, s) ==
    LET axes == [i \in DOMAIN s.members |-> TheAxis(m, env, s.members[i])]
    IN Take(/\ m.crossSection = <<>> /\ s.flaw = "none"
            /\ s.combos # <<>> /\ AllDiffer(s.combos)
            /\ \A i \in DOMAIN s.members : AxisOf(m, env, s.members[i]) # {}
            /\ AllDiffer(axes),
            m, Done([m EXCEPT !.crossSection =
                        <<[combos |-> s.combos, members |-> [i \in DOMAIN axes |-> axes[i].id],
                           sound |-> TRUE]>>],
                    "none", "none"))

----
(* Execution: materials, sections, loads.                                  *)

\* The material's handle is kept before its texts are read.
Material(m, s) ==
    LET kept == [m EXCEPT !.materialIds = @ \cup {s.id}]
    IN IF s.id \in m.materialIds \/ s.flaw = "value" THEN Refused(m)
       ELSE Take(s.flaw = "none", kept,
                 Done([kept EXCEPT !.materials = Append(@, [id |-> s.id, of |-> s.of])],
                      "material", s.id))

\* Likewise; a section may have a mass.
Section(m, s) ==
    LET kept == [m EXCEPT !.sectionIds = @ \cup {s.id}]
    IN IF s.id \in m.sectionIds \/ s.flaw = "value" THEN Refused(m)
       ELSE Take(s.flaw = "none", kept,
                 Done([kept EXCEPT !.sections =
                          Append(@, [id |-> s.id, of |-> s.of, mass |-> s.mass, sound |-> TRUE])],
                      "section", s.id))

\* A record of the catalogue gives both; the material stays when the section is refused.
SectionFromCatalog(m, s) ==
    LET material == Material(m, [s EXCEPT !.id = s.material, !.flaw = "none"])
    IN IF s.flaw = "value" THEN Refused(m)
       ELSE IF ~material.ok THEN material ELSE Section(material.model, s)

\* An equal record is used again; a material that is new stays when the section
\* has another record.
EnsureFromCatalog(m, s) ==
    LET material == [id |-> s.material, of |-> s.of]
        section == [id |-> s.id, of |-> s.of, mass |-> s.mass, sound |-> TRUE]
        known == IF s.material \in IdsOf(m.materials) THEN m
                 ELSE [m EXCEPT !.materials = Append(@, material), !.materialIds = @ \cup {s.material}]
    IN IF s.flaw # "none" \/ Named(known.materials, s.material) # material THEN Refused(m)
       ELSE IF s.id \notin IdsOf(m.sections)
       THEN Done([known EXCEPT !.sections = Append(@, section), !.sectionIds = @ \cup {s.id}],
                 "section", s.id)
       ELSE Take(Named(m.sections, s.id) = section, known, Done(known, "section", s.id))

\* A case keeps its category and label.
CaseAgrees(m, s) ==
    s.case \in DOMAIN m.cases => m.cases[s.case] = [category |-> s.category, label |-> s.label]
WithCase(m, s) ==
    [m EXCEPT !.cases = Put(@, s.case, [category |-> s.category, label |-> s.label])]

SurfaceLoad(m, env, s) ==
    Take(/\ IsPart(m, env, s.part, {"surface"}) /\ s.id \notin IdsOf(m.loads) /\ s.flaw = "none"
         /\ s.category \in {"dead", "live", "wind"} /\ CaseAgrees(m, s),
         m, Done([WithCase(m, s) EXCEPT !.loads =
                     Append(@, [id |-> s.id, component |-> env[s.part].id, case |-> s.case,
                                category |-> s.category, wind |-> s.wind, sound |-> TRUE])],
                 "load", s.id))

\* The basis is one of this model; its pressure makes the load's.
WindLoad(m, env, s) ==
    Take(Holds(env, s.wind, "wind"), m,
         SurfaceLoad(m, env, [s EXCEPT !.category = "wind", !.wind = env[s.wind].id]))

WindBasis(m, s) ==
    Take(s.id \notin IdsOf(m.winds) /\ s.flaw = "none", m,
         Done([m EXCEPT !.winds = Append(@, [id |-> s.id])], "wind", s.id))

LoadIds(m) == IdsOf(m.points) \cup IdsOf(m.lines)

\* The case is kept before the load's texts are read.
PointLoad(m, env, s) ==
    LET axis == TheAxis(m, env, s.part)
        kept == WithCase(m, s)
    IN IF \/ AxisOf(m, env, s.part) = {} \/ <<s.id, 0>> \in LoadIds(m) \/ ~CaseAgrees(m, s)
          \/ s.at \notin 0..axis.length \/ s.flaw = "value"
          \/ s.category \notin {"dead", "live", "wind", "imperfection"}
       THEN Refused(m)
       ELSE Take(s.flaw = "none", kept,
                 Done([kept EXCEPT !.points =
                          Append(@, [id |-> <<s.id, 0>>, member |-> axis.id, case |-> s.case,
                                     at |-> s.at, source |-> "none"])], "none", "none"))

\* A load along a member, of its own or of a surface.  The case's category is kept
\* before its texts are read; the first label stays.
LineLoad(m, env, axis, s) ==
    LET kept == [m EXCEPT !.cases =
            IF s.case \in DOMAIN @ THEN @
            ELSE Put(@, s.case, [category |-> s.category, label |-> s.label])]
    IN IF \/ <<s.id, 0>> \in LoadIds(m) \/ ~(0 <= s.start /\ s.start < s.end /\ s.end <= axis.length)
          \/ s.category \notin {"dead", "live", "wind"} \/ s.flaw = "value"
          \/ (s.source # "none") # (s.by = "surface")
          \/ (s.by = "surface" /\ \A l \in LoadOf(m, env, s.source) : l.category # s.category)
          \/ (s.by = "self_weight" /\ s.category # "dead")
          \/ (s.case \in DOMAIN m.cases /\ m.cases[s.case].category # s.category)
       THEN Refused(m)
       ELSE Take(s.flaw = "none", kept,
                 Done([kept EXCEPT !.lines =
                          Append(@, [id |-> <<s.id, 0>>, member |-> axis.id, case |-> s.case,
                                     from |-> s.start, to |-> s.end, by |-> s.by,
                                     source |-> IF s.source = "none" THEN "none" ELSE env[s.source].id])],
                      "none", "none"))

DistributedLoad(m, env, s) ==
    LET axis == TheAxis(m, env, s.part)
    IN Take(AxisOf(m, env, s.part) # {}, m,
            LineLoad(m, env, axis, [s EXCEPT !.end = IF @ < 0 THEN axis.length ELSE @]))

\* Over the whole member, if its section has a mass.
SelfWeight(m, env, s) ==
    LET axis == TheAxis(m, env, s.part)
    IN Take(AxisOf(m, env, s.part) # {} /\ Named(m.sections, axis.section).mass, m,
            LineLoad(m, env, axis,
                     [s EXCEPT !.category = "dead", !.case = "dead", !.label = "Dead load",
                               !.start = 0, !.end = axis.length, !.by = "self_weight",
                               !.source = "none"]))

\* A surface's load, spread along a member in its own case.
DistributeUniform(m, env, s) ==
    LET axis == TheAxis(m, env, s.part)
        load == CHOOSE l \in LoadOf(m, env, s.source) : TRUE
    IN Take(AxisOf(m, env, s.part) # {} /\ LoadOf(m, env, s.source) # {}, m,
            LineLoad(m, env, axis,
                     [s EXCEPT !.category = load.category, !.case = load.case,
                               !.label = m.cases[load.case].label, !.by = "surface",
                               !.end = IF @ < 0 THEN axis.length ELSE @]))

\* A surface's load, at points of a member.
Distribute(m, env, s) ==
    LET axis == TheAxis(m, env, s.part)
        load == CHOOSE l \in LoadOf(m, env, s.source) : TRUE
    IN Take(/\ AxisOf(m, env, s.part) # {} /\ LoadOf(m, env, s.source) # {}
            /\ \A p \in ToSet(m.points) : p.id[1] # s.id
            /\ s.along # <<>> /\ AllDiffer(s.along) /\ s.flaw = "none"
            /\ \A i \in DOMAIN s.along : 0 < s.along[i] /\ s.along[i] < axis.length,
            m, Done([m EXCEPT !.points =
                        @ \o [i \in DOMAIN s.along |->
                                  [id |-> <<s.id, i>>, member |-> axis.id, case |-> load.case,
                                   at |-> s.along[i], source |-> load.id]]], "none", "none"))

\* Factors that are zero are left out.
LoadCombination(m, s) ==
    Take(s.id \notin IdsOf(m.combos) /\ s.factors # {} /\ s.flaw = "none", m,
         Done([m EXCEPT !.combos =
                  Append(@, [id |-> s.id, limit |-> s.limit, factors |-> s.factors,
                             sound |-> TRUE])], "none", "none"))

----
(* Execution: bases, the assembly and the manifest.                        *)

DesignBasis(m, s) ==
    Take(m.basis = <<>> /\ s.flaw = "none", m, Done([m EXCEPT !.basis = <<s.id>>], "none", "none"))

\* Directions of the second-order analysis, each with its imperfection.
Stability(m, s) ==
    Take(m.stability = <<>> /\ s.flaw = "none"
         /\ AllDiffer([i \in DOMAIN s.directions |-> s.directions[i].id]),
         m, Done([m EXCEPT !.stability =
                     <<[combo |-> s.combo, case |-> s.case, directions |-> s.directions,
                        members |-> s.named, sound |-> TRUE]>>], "none", "none"))

\* Every registered component, once.
Assembly(m, env, s) ==
    LET ids == [i \in DOMAIN s.parts |-> env[s.parts[i]].id]
    IN Take(/\ m.assembled = <<>> /\ s.flaw = "none"
            /\ \A i \in DOMAIN s.parts : PartOf(m, env, s.parts[i]) # {}
            /\ AllDiffer(ids) /\ ToSet(ids) = IdsOf(m.parts),
            m, Done([m EXCEPT !.assembled = <<ids>>], "none", "none"))

\* Components that are not connected, and connectors that no connection uses.
LooseParts(m) ==
    {p \in ToSet(m.parts) :
        IF p.kind = "connector" THEN \A c \in ToSet(m.connections) : p.id \notin ToSet(c.via)
        ELSE p.kind # "ground" /\ \A c \in ToSet(m.connections) : p.id \notin {c.from, c.to}}

\* What connections lead to, in their direction.
Downstream(m, from) ==
    LET reach[n \in 0..Len(m.connections)] ==
            IF n = 0 THEN {from}
            ELSE LET met == reach[n - 1]
                 IN met \cup {c.to : c \in {d \in ToSet(m.connections) : d.from \in met}}
    IN reach[Len(m.connections)]
ReachesGround(m, load) == \E c \in Downstream(m, load.component) : Grounded(m, c)

CombosOf(m, limits) == {c.id : c \in {d \in ToSet(m.combos) : d.limit \in limits}}
Limits == {"serviceability", "ultimate"}
CaseIs(m, case, category) == case \in DOMAIN m.cases /\ m.cases[case].category = category

\* The combinations and cases of the stability definition: those of its directions
\* if it has any, or else its own.
StabilityIsDeclared(m) ==
    \A t \in ToSet(m.stability) :
        /\ \A d \in ToSet(t.directions) :
              {d.combo, d.nhf} \subseteq CombosOf(m, Limits) /\ CaseIs(m, d.case, "imperfection")
        /\ t.directions = <<>> =>
              t.combo \in CombosOf(m, Limits) /\ CaseIs(m, t.case, "imperfection")
        /\ t.members \subseteq IdsOf(m.members)

VerificationsAreUltimate(m) ==
    \A v \in ToSet(m.crossSection) \cup ToSet(m.memberStability) :
        ToSet(v.combos) \subseteq CombosOf(m, {"ultimate"})

\* _validate_topology
IsWhole(m) ==
    /\ LooseParts(m) = {}
    /\ \A l \in ToSet(m.loads) : ReachesGround(m, l)
    /\ m.members # <<>> => m.points \o m.lines # <<>>
    /\ \A c \in ToSet(m.combos) : c.factors \subseteq DOMAIN m.cases
    /\ StabilityIsDeclared(m) /\ VerificationsAreUltimate(m)

\* What is declared, by execution or by reading; without combinations there is one
\* of all the cases.
Declared(m) ==
    [m EXCEPT !.candidates = <<>>, !.geometry = {}, !.materialIds = {}, !.sectionIds = {},
              !.combos = IF @ # <<>> THEN @
                         ELSE <<[id |-> "SLS-1.0", limit |-> "serviceability",
                                 factors |-> DOMAIN m.cases, sound |-> TRUE]>>]

Manifest(m) == Take(m.assembled # <<>> /\ IsWhole(m), m, Done(m, "manifest", "none"))

\* A call, on the model and with the variables of the design.
Execute(m, env, s) ==
    CASE s.op = "basis" -> DesignBasis(m, s)
      [] s.op = "part" -> Register(m, s)
      [] s.op = "member part" -> MemberPart(m, s)
      [] s.op = "member" -> MemberFromGeometry(m, env, s)
      [] s.op = "axis" -> MemberAxis(m, env, s)
      [] s.op = "connect" -> ConnectParts(m, env, s)
      [] s.op = "joint" -> JointFromGeometry(m, env, s)
      [] s.op = "restraint" -> RestraintFromConnection(m, env, s)
      [] s.op = "boundary" -> BoundaryRestraint(m, env, s)
      [] s.op = "stability" -> Stability(m, s)
      [] s.op = "cross section" -> CrossSection(m, env, s)
      [] s.op = "member stability" -> MemberStability(m, env, s)
      [] s.op = "wind" -> WindBasis(m, s)
      [] s.op = "material" -> Material(m, s)
      [] s.op = "section" -> Section(m, s)
      [] s.op = "catalogue" -> SectionFromCatalog(m, s)
      [] s.op = "ensure" -> EnsureFromCatalog(m, s)
      [] s.op = "surface load" -> SurfaceLoad(m, env, s)
      [] s.op = "wind load" -> WindLoad(m, env, s)
      [] s.op = "distribute" -> Distribute(m, env, s)
      [] s.op = "uniform" -> DistributeUniform(m, env, s)
      [] s.op = "point load" -> PointLoad(m, env, s)
      [] s.op = "line load" -> DistributedLoad(m, env, s)
      [] s.op = "self weight" -> SelfWeight(m, env, s)
      [] s.op = "combination" -> LoadCombination(m, s)
      [] s.op = "assembly" -> Assembly(m, env, s)
      [] s.op = "manifest" -> Manifest(m)
      [] s.op = "alias" ->
            IF s.of \in DOMAIN env THEN [Done(m, "none", "none") EXCEPT !.handle = env[s.of]]
            ELSE Refused(m)

----
(* Reading.  Handles are kept by kind and variable; values are taken as    *)
(* they stand, except where a definition below says so.                    *)

IsSound(s) == s.flaw # "value"
Known(h, kind, name) == <<kind, name>> \in DOMAIN h

\* Only these are read, at the top level of the design; other calls are passed over.
IsRead(s) ==
    \/ /\ s.form = "assign"
       /\ \/ s.op \in {"basis", "part", "material", "section", "wind", "wind load",
                       "surface load", "assembly"}
          \/ s.op = "manifest" /\ s.name = Declaration
    \/ /\ s.form = "expr"
       /\ s.op \in {"basis", "stability", "cross section", "member stability", "connect",
                    "surface load", "axis", "distribute", "point load", "line load",
                    "self weight", "combination"}

ReadPart(m, s) ==
    Done([m EXCEPT !.parts = Append(@, [id |-> s.id, kind |-> s.kind, node |-> s.node])],
         "part", s.id)

ReadMaterial(m, s) ==
    Done([m EXCEPT !.materials = Append(@, [id |-> s.id, of |-> s.of])], "material", s.id)

ReadSection(m, s) ==
    Done([m EXCEPT !.sections =
             Append(@, [id |-> s.id, of |-> s.of, mass |-> s.mass, sound |-> IsSound(s)])],
         "section", s.id)

ReadWindBasis(m, s) ==
    Take(s.id \notin IdsOf(m.winds), m,
         Done([m EXCEPT !.winds = Append(@, [id |-> s.id])], "wind", s.id))

\* The last load of a case gives it its category and label.
ReadSurfaceLoad(m, h, s) ==
    Take(Known(h, "part", s.part), m,
         Done([WithCase(m, s) EXCEPT !.loads =
                  Append(@, [id |-> s.id, component |-> h[<<"part", s.part>>], case |-> s.case,
                             category |-> s.category, wind |-> s.wind, sound |-> IsSound(s)])],
              IF s.form = "assign" THEN "load" ELSE "none", s.id))

ReadWindLoad(m, h, s) ==
    Take(Known(h, "wind", s.wind), m,
         ReadSurfaceLoad(m, h, [s EXCEPT !.category = "wind", !.wind = h[<<"wind", s.wind>>]]))

ReadConnect(m, h, s) ==
    Take(\A end \in {s.from, s.to} \cup ToSet(s.via) : Known(h, "part", end), m,
         Done([m EXCEPT !.connections =
                  Append(@, [id |-> s.id, from |-> h[<<"part", s.from>>],
                             to |-> h[<<"part", s.to>>],
                             via |-> [i \in DOMAIN s.via |-> h[<<"part", s.via[i]>>]]])],
              "none", "none"))

ReadAxis(m, h, s) ==
    Take(/\ Known(h, "part", s.part) /\ Known(h, "section", s.section)
         /\ Known(h, "material", s.material), m,
         Done([m EXCEPT !.members =
                  Append(@, [id |-> s.axis, component |-> h[<<"part", s.part>>],
                             length |-> s.length, section |-> h[<<"section", s.section>>],
                             material |-> h[<<"material", s.material>>], sound |-> IsSound(s)])],
              "none", "none"))

\* The first axis of a part.
AxisAt(m, h, name) ==
    IF Known(h, "part", name)
    THEN SelectInSeq(m.members, LAMBDA x : x.component = h[<<"part", name>>])
    ELSE 0

\* The load of a variable.
LoadAt(m, h, name) == SelectInSeq(m.loads, LAMBDA l : l.id = h[<<"load", name>>])

ReadDistribute(m, h, s) ==
    LET axis == m.members[AxisAt(m, h, s.part)]
        load == m.loads[LoadAt(m, h, s.source)]
    IN Take(/\ Known(h, "load", s.source) /\ AxisAt(m, h, s.part) > 0
            /\ s.along # <<>> /\ AllDiffer(s.along) /\ IsSound(s)
            /\ \A i \in DOMAIN s.along : 0 < s.along[i] /\ s.along[i] < axis.length,
            m, Done([m EXCEPT !.points =
                        @ \o [i \in DOMAIN s.along |->
                                  [id |-> <<s.id, i>>, member |-> axis.id, case |-> load.case,
                                   at |-> s.along[i], source |-> load.id]]], "none", "none"))

ReadPointLoad(m, h, s) ==
    LET axis == m.members[AxisAt(m, h, s.part)]
    IN Take(AxisAt(m, h, s.part) > 0, m,
            Done([WithCase(m, s) EXCEPT !.points =
                     Append(@, [id |-> <<s.id, 0>>, member |-> axis.id, case |-> s.case,
                                at |-> s.at, source |-> "none"])], "none", "none"))

\* A defect: the last load gives the case its label as well.
ReadLineLoadRelabels(m, h, s) ==
    LET axis == m.members[AxisAt(m, h, s.part)]
    IN Take(/\ AxisAt(m, h, s.part) > 0
            /\ s.source # "none" => Known(h, "load", s.source), m,
            Done([WithCase(m, s) EXCEPT !.lines =
                     Append(@, [id |-> <<s.id, 0>>, member |-> axis.id, case |-> s.case,
                                from |-> s.start, to |-> IF s.end < 0 THEN axis.length ELSE s.end,
                                by |-> s.by,
                                source |-> IF s.source = "none" THEN "none"
                                           ELSE h[<<"load", s.source>>]])], "none", "none"))

\* The last load gives the case its category, the first its label.
ReadLineLoad(m, h, s) ==
    LET axis == m.members[AxisAt(m, h, s.part)]
        label == IF s.case \in DOMAIN m.cases THEN m.cases[s.case].label ELSE s.label
    IN Take(/\ AxisAt(m, h, s.part) > 0
            /\ s.source # "none" => Known(h, "load", s.source), m,
            Done([m EXCEPT !.cases = Put(@, s.case, [category |-> s.category, label |-> label]),
                           !.lines =
                     Append(@, [id |-> <<s.id, 0>>, member |-> axis.id, case |-> s.case,
                                from |-> s.start, to |-> IF s.end < 0 THEN axis.length ELSE s.end,
                                by |-> s.by,
                                source |-> IF s.source = "none" THEN "none"
                                           ELSE h[<<"load", s.source>>]])], "none", "none"))

ReadSelfWeight(m, h, s) ==
    Take(/\ AxisAt(m, h, s.part) > 0
         /\ Named(m.sections, m.members[AxisAt(m, h, s.part)].section).mass, m,
         ReadLineLoad(m, h, [s EXCEPT !.category = "dead", !.case = "dead",
                                      !.label = "Dead load", !.start = 0, !.end = -1,
                                      !.by = "self_weight", !.source = "none"]))

\* Once each; what execution derives is not there.
ReadBasis(m, s) == Take(m.basis = <<>>, m, Done([m EXCEPT !.basis = <<s.id>>], "none", "none"))

ReadStability(m, s) ==
    Take(m.stability = <<>>, m,
         Done([m EXCEPT !.stability =
                  <<[combo |-> s.combo, case |-> s.case, directions |-> s.directions,
                     members |-> s.named, sound |-> IsSound(s)]>>], "none", "none"))

ReadCrossSection(m, s) ==
    Take(m.crossSection = <<>>, m,
         Done([m EXCEPT !.crossSection =
                  <<[combos |-> s.combos, members |-> <<>>, sound |-> IsSound(s)]>>],
              "none", "none"))

ReadMemberStability(m, s) ==
    Take(m.memberStability = <<>> /\ s.segments # <<>>, m,
         Done([m EXCEPT !.memberStability =
                  <<[combos |-> s.combos, segments |-> s.segments, sound |-> IsSound(s),
                     candidates |-> <<>>]>>], "none", "none"))

ReadCombination(m, s) ==
    Done([m EXCEPT !.combos =
             Append(@, [id |-> s.id, limit |-> s.limit, factors |-> s.factors,
                        sound |-> IsSound(s)])], "none", "none")

\* The parts are compared with the registered ones when the manifest is read.
ReadAssembly(m, h, s) ==
    Take(\A i \in DOMAIN s.parts : Known(h, "part", s.parts[i]), m,
         Done([m EXCEPT !.assembled =
                  <<[i \in DOMAIN s.parts |-> h[<<"part", s.parts[i]>>]]>>], "none", "none"))

ReadManifest(m) ==
    Take(m.assembled # <<>> /\ AllDiffer(Head(m.assembled))
         /\ ToSet(Head(m.assembled)) = IdsOf(m.parts),
         m, Done(m, "manifest", "none"))

\* A keyword that reading does not know ends it, and so does an empty list of weights,
\* which execution takes for equal shares.
IsForeign(s) ==
    s.extra \/ (s.op \in {"cross section", "member stability"} /\ s.members # <<>>)

\* Another call as it is read.
ReadCall(m, h, s) ==
    CASE s.op = "basis" -> ReadBasis(m, s)
      [] s.op = "part" -> ReadPart(m, s)
      [] s.op = "material" -> ReadMaterial(m, s)
      [] s.op = "section" -> ReadSection(m, s)
      [] s.op = "wind" -> ReadWindBasis(m, s)
      [] s.op = "wind load" -> ReadWindLoad(m, h, s)
      [] s.op = "surface load" -> ReadSurfaceLoad(m, h, s)
      [] s.op = "connect" -> ReadConnect(m, h, s)
      [] s.op = "axis" -> ReadAxis(m, h, s)
      [] s.op = "distribute" -> ReadDistribute(m, h, s)
      [] s.op = "point load" -> ReadPointLoad(m, h, s)
      [] s.op = "line load" -> ReadLineLoad(m, h, s)
      [] s.op = "self weight" -> ReadSelfWeight(m, h, s)
      [] s.op = "stability" -> ReadStability(m, s)
      [] s.op = "cross section" -> ReadCrossSection(m, s)
      [] s.op = "member stability" -> ReadMemberStability(m, s)
      [] s.op = "combination" -> ReadCombination(m, s)
      [] s.op = "assembly" -> ReadAssembly(m, h, s)
      [] s.op = "manifest" -> ReadManifest(m)

----
(* Capture: the contracts, on a declaration d.                             *)

IdList(records) == [i \in DOMAIN records |-> records[i].id]

IdsAreUnique(d) ==
    \A records \in {d.parts, d.connections, d.loads, d.winds, d.materials, d.sections,
                    d.members, d.points, d.lines, d.combos} : AllDiffer(IdList(records))

\* _validate_graph_inputs
GraphIsSound(d) ==
    /\ d.parts # <<>> /\ AllDiffer([i \in DOMAIN d.parts |-> d.parts[i].node])
    /\ \A c \in ToSet(d.connections) :
          /\ {c.from, c.to} \subseteq IdsOf(d.parts) /\ c.from # c.to
          /\ \A v \in ToSet(c.via) : \E p \in ToSet(d.parts) : p.id = v /\ p.kind = "connector"
    /\ LooseParts(d) = {}
    /\ \A l \in ToSet(d.loads) :
          \E p \in ToSet(d.parts) : p.id = l.component /\ p.kind = "surface"

LoadsAreSound(d) ==
    \A l \in ToSet(d.loads) :
        /\ l.sound /\ l.category \in {"dead", "live", "wind"}
        /\ l.wind # "none" => l.wind \in IdsOf(d.winds) /\ l.category = "wind"

MembersAreSound(d) ==
    /\ \A x \in ToSet(d.sections) : x.sound
    /\ \A x \in ToSet(d.members) :
          /\ x.sound /\ x.length > 0
          /\ \E p \in ToSet(d.parts) : p.id = x.component /\ p.kind = "member"
          /\ x.section \in IdsOf(d.sections) /\ x.material \in IdsOf(d.materials)
    /\ \A c \in DOMAIN d.cases :
          d.cases[c].category \in {"dead", "live", "wind", "imperfection", "fixture"}
    /\ \A l \in ToSet(d.points \o d.lines) :
          /\ l.member \in IdsOf(d.members) /\ l.case \in DOMAIN d.cases
          /\ l.source # "none" => l.source \in IdsOf(d.loads)
    /\ \A l \in ToSet(d.points) : l.at \in 0..Named(d.members, l.member).length
    /\ \A l \in ToSet(d.lines) :
          0 <= l.from /\ l.from < l.to /\ l.to <= Named(d.members, l.member).length
    /\ \A c \in ToSet(d.combos) :
          c.sound /\ c.factors # {} /\ c.factors \subseteq DOMAIN d.cases

\* The definition's own combination and case are required, with directions too.
StabilityIsSound(d) ==
    \A t \in ToSet(d.stability) :
        /\ t.sound /\ t.combo \in IdsOf(d.combos) /\ CaseIs(d, t.case, "imperfection")
        /\ \A x \in ToSet(t.directions) :
              {x.combo, x.nhf} \subseteq IdsOf(d.combos) /\ x.case \in DOMAIN d.cases

VerificationsAreSound(d) ==
    /\ \A v \in ToSet(d.crossSection) \cup ToSet(d.memberStability) :
          v.sound /\ v.combos # <<>> /\ ToSet(v.combos) \subseteq CombosOf(d, {"ultimate"})
    /\ \A v \in ToSet(d.crossSection) :
          AllDiffer(v.members) /\ ToSet(v.members) \subseteq IdsOf(d.members)
    /\ \A v \in ToSet(d.memberStability) :
          /\ AllDiffer(IdList(v.candidates)) /\ AllDiffer(IdList(v.segments))
          /\ \A c \in ToSet(v.candidates) :
                /\ c.member \in IdsOf(d.members) /\ c.brace \in IdsOf(d.parts)
                /\ c.connection \in IdsOf(d.connections)
                /\ c.at \in 0..Named(d.members, c.member).length
                /\ c.ground # "none" => c.ground \in IdsOf(d.parts) /\ Grounded(d, c.ground)
          /\ \A g \in ToSet(v.segments) :
                /\ g.member \in IdsOf(d.members)
                /\ 0 <= g.from /\ g.from < g.to /\ g.to <= Named(d.members, g.member).length
                /\ \A id \in g.starts \cup g.ends :
                      \E c \in ToSet(v.candidates) : c.id = id /\ c.member = g.member

IsAccepted(d) ==
    /\ IdsAreUnique(d) /\ GraphIsSound(d) /\ LoadsAreSound(d) /\ MembersAreSound(d)
    /\ StabilityIsSound(d) /\ VerificationsAreSound(d)

\* The first of the paths in line, continued by the connections from its end to
\* components that were not met (in the order of their ids; here, as declared).
Followed(d, w) ==
    LET path == Head(w.queue)
    IN FoldLeft(LAMBDA found, c :
           IF c.from = Last(path) /\ c.to \notin found.seen
           THEN [queue |-> Append(found.queue, Append(path, c.to)),
                 seen |-> found.seen \cup {c.to}]
           ELSE found, [w EXCEPT !.queue = Tail(@)], d.connections)

\* The path of a load, until one is grounded; without one the load is blocked.
LoadPath(d, load) ==
    LET walk[n \in 0..Len(d.parts)] ==
            IF n = 0 THEN [queue |-> <<<<load.component>>>>, seen |-> {load.component}]
            ELSE LET w == walk[n - 1]
                 IN IF w.queue = <<>> \/ Grounded(d, Last(Head(w.queue))) THEN w
                    ELSE Followed(d, w)
    IN IF walk[Len(d.parts)].queue = <<>> THEN <<>> ELSE Head(walk[Len(d.parts)].queue)

\* What is captured of a declaration: whether it is accepted, and its load paths.
CaptureOf(d) ==
    IF ~IsAccepted(d) THEN [accepted |-> FALSE, paths |-> <<>>]
    ELSE [accepted |-> TRUE, paths |-> [i \in DOMAIN d.loads |-> LoadPath(d, d.loads[i])]]

----
(* Actions.                                                                *)

\* The variables after a statement: a catalogue section comes with its material, a
\* joint with its connector.
Assigned(env, s, handle) ==
    LET own == IF s.name = "" THEN env ELSE Put(env, s.name, handle)
    IN CASE s.op \in {"catalogue", "ensure"} -> Put(own, s.also, Handle("material", s.material))
         [] s.op = "joint" -> Put(own, s.also, Handle("part", s.id))
         [] OTHER -> own

\* Execution after a call; a refused call in a try block leaves what it did.
AfterCall(s, call) ==
    IF run.status # "running" THEN run
    ELSE IF call.ok
    THEN [run EXCEPT !.model = call.model,
                     !.env = Assigned(@, s, call.handle),
                     !.manifest = IF s.op = "manifest" /\ s.name = Declaration
                                  THEN <<Declared(call.model)>> ELSE @]
    ELSE IF s.form = "hidden" THEN [run EXCEPT !.model = call.model]
    ELSE [run EXCEPT !.status = "failed"]

\* Reading after it: it ends at the first manifest.
AfterReading(s, call) ==
    IF reading.status \in {"refused", "foreign"} THEN reading
    ELSE IF reading.status = "declared" \/ ~IsRead(s) THEN [reading EXCEPT !.passed = TRUE]
    ELSE IF IsForeign(s) THEN [reading EXCEPT !.status = "foreign"]
    ELSE IF ~call.ok THEN [reading EXCEPT !.status = "refused"]
    ELSE [reading EXCEPT !.model = call.model,
                         !.status = IF s.op = "manifest" THEN "declared" ELSE @,
                         !.handles = IF call.handle.kind \in {"none", "manifest"} THEN @
                                     ELSE Put(@, <<call.handle.kind, s.name>>, call.handle.id)]

TakeStatement(s) ==
    /\ run' = AfterCall(s, Execute(run.model, run.env, s))
    /\ reading' = AfterReading(s, ReadCall(reading.model, reading.handles, s))
    /\ UNCHANGED captured

\* One of a statement of the design and those the author may depart to.
Chosen(written) ==
    {written.own} \cup IF departures < MaxDepartures[design_] THEN written.others ELSE {}

\* The next statement of the design, once or twice, or one that is departed to.
WriteNext ==
    /\ line <= Len(Statements(design_))
    /\ LET written == Statements(design_)[line]
       IN \E s \in Chosen(written), again \in BOOLEAN :
             /\ s # written.own => ~again
             /\ again => departures < MaxDepartures[design_]
             /\ TakeStatement(s)
             /\ line' = IF again THEN line ELSE line + 1
             /\ departures' = IF again \/ s # written.own THEN departures + 1 ELSE departures
    /\ UNCHANGED design_

\* The author leaves the next statement out.
LeaveOut ==
    /\ line <= Len(Statements(design_)) /\ departures < MaxDepartures[design_]
    /\ line' = line + 1 /\ departures' = departures + 1
    /\ UNCHANGED <<design_, run, reading, captured>>

\* Both ended: what there is of either is captured.
CaptureBoth ==
    /\ line > Len(Statements(design_)) /\ captured = <<>>
    /\ captured' = <<[manifest |-> IF run.status = "running" /\ run.manifest # <<>>
                                   THEN <<CaptureOf(Head(run.manifest))>> ELSE <<>>,
                      declaration |-> IF reading.status = "declared"
                                      THEN <<CaptureOf(Declared(reading.model))>> ELSE <<>>]>>
    /\ UNCHANGED <<design_, line, departures, run, reading>>

AuthoringInit ==
    /\ design_ \in Scripted /\ line = 1 /\ departures = 0
    /\ run = [status |-> "running", model |-> NewModel, env |-> <<>>, manifest |-> <<>>]
    /\ reading = [status |-> "reading", model |-> NewModel, handles |-> <<>>, passed |-> FALSE]
    /\ captured = <<>>

AuthoringNext == WriteNext \/ LeaveOut \/ CaptureBoth

AuthoringSpec == AuthoringInit /\ [][AuthoringNext]_authoringVars

----
(* Properties.                                                             *)

\* Of a design that runs, reading declares exactly what running generates, unless it
\* passes over a call or meets an argument that only execution takes: the workbench shows before
\* a compile what the compile will audit, and refuses no design that would compile.
DeclarationIsManifest ==
    /\ captured # <<>> /\ run.status = "running" /\ run.manifest # <<>>
    /\ ~reading.passed /\ reading.status # "foreign"
    => reading.status = "declared" /\ run.manifest = <<Declared(reading.model)>>

\* What the contracts refuse of a manifest that execution generates: no case at all,
\* own combination and case of a stability definition that has directions, and an
\* authored segment that names a restraint of another member.
IsKnownGap(d) ==
    \/ d.cases = <<>>
    \/ ~StabilityIsSound(d) /\ \E t \in ToSet(d.stability) : t.directions # <<>>
    \/ \E v \in ToSet(d.memberStability) : \E g \in ToSet(v.segments) :
          \E id \in g.starts \cup g.ends :
              \A c \in ToSet(v.candidates) : c.id = id => c.member # g.member

\* A manifest that execution generates is captured, with every load carried to
\* ground, whatever calls were refused on the way; the gaps above aside.
ManifestIsCaptured ==
    \A made \in ToSet(captured) : \A c \in ToSet(made.manifest) :
        ~IsKnownGap(Head(run.manifest)) => c.accepted /\ <<>> \notin ToSet(c.paths)

\* A load path is a chain of connections in their direction, without a return, to
\* the ground; and a load is blocked only if there is none.
IsChain(d, load, path) ==
    /\ path[1] = load.component /\ AllDiffer(path) /\ Grounded(d, Last(path))
    /\ \A i \in 1..Len(path) - 1 :
          \E c \in ToSet(d.connections) : c.from = path[i] /\ c.to = path[i + 1]

LoadPathsReachGround ==
    \A made \in ToSet(captured) : \A c \in ToSet(made.declaration) :
        LET d == reading.model
        IN c.accepted => \A i \in DOMAIN d.loads :
               IF c.paths[i] = <<>> THEN ~ReachesGround(d, d.loads[i])
               ELSE IsChain(d, d.loads[i], c.paths[i])

\* Segments derived from restraints tile their member: they begin at its start, each is
\* followed by another up to its end, and no two overlap. Each restraint of the member
\* bounds a segment, within the distance at which restraints are one.
Tiled(v, axis) ==
    LET segments == {g \in ToSet(v.segments) : g.member = axis.id}
    IN /\ \E g \in segments : g.from = 0
       /\ \A g \in segments :
             g.from < g.to /\ (g.to = axis.length \/ \E h \in segments : h.from = g.to)
       /\ \A g, h \in segments : g = h \/ g.to <= h.from \/ h.to <= g.from
       /\ \A c \in ToSet(v.candidates) : c.member = axis.id =>
             \E g \in segments :
                 \/ c.id \in g.starts /\ c.at - g.from \in 0..Close
                 \/ c.id \in g.ends /\ g.to - c.at \in -Close..Close

IsDerived(v, axis) == \E g \in ToSet(v.segments) : g.id = <<"segment", axis.id, 1>>

DerivedSegmentsTile ==
    \A v \in ToSet(run.model.memberStability) : \A axis \in ToSet(run.model.members) :
        IsDerived(v, axis) => Tiled(v, axis)

\* What is derived from a declaration is what it declares: the paths of its loads
\* to the ground, and segments of its members between their restraints.
DeclaredIsDerived == LoadPathsReachGround /\ DerivedSegmentsTile
=============================================================================
