---------------------------- MODULE WindActions ----------------------------
(***************************************************************************)
(* The wind on a portal frame building, from its compiled members and its  *)
(* site to the loads, the combinations and the sway checks of the          *)
(* analysis.  A request goes through the steps in order; a step may refuse *)
(* it, or give up the wind actions and leave the rest as configured.       *)
(*                                                                         *)
(* Lengths are whole quarters of a metre, coefficients and area factors    *)
(* hundredths, and quotients are rounded down.                             *)
(***************************************************************************)
EXTENDS SiteBasis, Functions, TLC

CONSTANTS
    Sheds,          \* compiled buildings
    WindSites,      \* the site of the project, as a sequence of at most one
    WindSettings,   \* saved structural settings
    Pitch(_, _)     \* degrees of a roof of some rise over some half width

Events == {"serviceability", "ultimate"}
Signs == {1, -1}
Openings == {"windward", "leeward", "side", "roof"}

\* Lengths are whole numbers, and that of a member follows from its ends when it stands
\* in the plane of a frame; components, and the action cases of saved settings, have
\* names of their own.
ASSUME WindAssumption ==
    /\ \A b \in Sheds :
          /\ IsFiniteSet(b.members)
          /\ \A m \in b.members : {m.x1, m.z1, m.x2, m.z2, m.y, m.length} \subseteq Int
          /\ \A m, n \in b.members :
                /\ m.id = n.id => m = n
                /\ /\ {m.role, n.role} \subseteq {"column", "rafter"} /\ ~m.skewed /\ ~n.skewed
                   /\ m.x2 - m.x1 \in {n.x2 - n.x1, n.x1 - n.x2}
                   /\ m.z2 - m.z1 \in {n.z2 - n.z1, n.z1 - n.z2}
                   => m.length = n.length
    /\ \A config \in WindSettings : \A c, d \in config.cases :
          /\ c = [id |-> c.id, role |-> c.role, profile |-> c.profile]
          /\ c.id = d.id => c = d

VARIABLES
    shed, where, given,     \* the building, the site and the settings of the request
    phase,
    shape,                  \* what was measured of the building
    cases,                  \* the action cases so far
    surface,                \* surface loads
    points,                 \* point loads, the configured ones first
    bases,                  \* wind bases
    marks,                  \* what the standards say of wind and imposed actions
    lines,                  \* distributed loads
    blocked,                \* surface loads without a path to the ground
    combined                \* combinations, those not available, and the sway checks

windVars == <<shed, where, given, phase, shape, cases, surface, points, bases, marks, lines,
              blocked, combined>>

----
(* Tables of coefficients.                                                 *)

\* Between two points of a table the value is interpolated, outside it is held.
Between(v, lower, upper) ==
    lower[2] + ((v - lower[1]) * (upper[2] - lower[2])) \div (upper[1] - lower[1])
Tabulated(v, table) ==
    LET above == {i \in DOMAIN table : v <= table[i][1]}
        i == Min(above)
    IN  IF above = {} THEN table[Len(table)][2]
        ELSE IF i = 1 THEN table[1][2]
        ELSE Between(v, table[i - 1], table[i])
Clamp(low, v, high) == IF v < low THEN low ELSE IF v > high THEN high ELSE v

\* Areas of the tables are 10, 25 and 100 square metres.
AreaFactor(area, kind) ==
    Tabulated(area, CASE kind = "roof" -> <<<<160, 100>>, <<400, 90>>, <<1600, 80>>>>
                      [] kind = "windward" -> <<<<160, 100>>, <<400, 95>>, <<1600, 90>>>>
                      [] kind = "leeward" -> <<<<160, 100>>, <<400, 100>>, <<1600, 95>>>>)

LeewardAcross(pitch) == Tabulated(pitch, <<<<10, -30>>, <<15, -30>>, <<20, -40>>, <<25, -50>>>>)
LeewardAlong(s) ==
    Tabulated((200 * s.length) \div s.twiceHeight, <<<<100, -50>>, <<200, -30>>, <<400, -20>>>>)

\* Of the height to the depth, in hundredths, and of the pitch.
Grid(rows, s) ==
    LET At(row) == Tabulated(s.pitch, [i \in 1..4 |-> <<5 + 5 * i, row[i]>>])
    IN  Tabulated(Clamp(25, (50 * s.twiceHeight) \div s.width, 100),
                  <<<<25, At(rows[1])>>, <<50, At(rows[2])>>, <<100, At(rows[3])>>>>)
UpwindRoof(s) ==
    Grid(<<<<-70, -50, -30, -20>>, <<-90, -70, -40, -30>>, <<-130, -100, -70, -50>>>>, s)
DownwindRoof(s) ==
    Grid(<<<<-30, -50, -60, -60>>, <<-50, -50, -60, -60>>, <<-70, -60, -60, -60>>>>, s)

\* By the distance from the windward edge, in heights of the building.
StripRoof(twiceDistance, s) ==
    LET slender == Clamp(50, (50 * s.twiceHeight) \div s.length, 100)
    IN  IF 2 * twiceDistance <= s.twiceHeight THEN Between(slender, <<50, -90>>, <<100, -130>>)
        ELSE IF twiceDistance <= s.twiceHeight THEN -90
        ELSE IF twiceDistance <= 2 * s.twiceHeight THEN -70
        ELSE IF twiceDistance <= 3 * s.twiceHeight THEN -30
        ELSE -20

\* Pressures inside: sealed, or as outside where there may be an opening.
InternalPressures(openings, leeward, roof) ==
    {-30, 0} \cup (IF "windward" \in openings THEN {70} ELSE {})
             \cup (IF "leeward" \in openings THEN {leeward} ELSE {})
             \cup (IF "side" \in openings THEN {-65} ELSE {})
             \cup (IF "roof" \in openings THEN {roof} ELSE {})

Magnitude(v) == IF v < 0 THEN -v ELSE v

\* The net coefficient of the greatest magnitude, of the lowest pressure inside.
Worst(external, factor, inside) ==
    LET Net(i) == external * factor - 100 * i
        worst == {i \in inside : \A j \in inside : Magnitude(Net(j)) <= Magnitude(Net(i))}
    IN  Net(Min(worst))

----
(* The building.                                                           *)

With(b, role) == {m \in b.members : m.role = role}
Framing(b) == With(b, "column") \cup With(b, "rafter")
FramesAt(b) == {m.y : m \in Framing(b)}
OfFrame(b, y, role) == {m \in With(b, role) : m.y = y}
IsPortal(b, y) == \A role \in {"column", "rafter"} : Cardinality(OfFrame(b, y, role)) = 2

\* Heights are those of the upper ends; the eaves are their mean.
Measured(b) ==
    LET tops == [m \in Framing(b) |-> Max({m.z1, m.z2})]
        columns == With(b, "column")
        twiceAt == {m.x1 + m.x2 : m \in columns}
        width == (Max(twiceAt) - Min(twiceAt)) \div 2
        eave == SumFunctionOnSet(tops, columns) \div Cardinality(columns)
        ridge == Max({tops[m] : m \in With(b, "rafter")})
    IN  [width |-> width, length |-> Max(FramesAt(b)) - Min(FramesAt(b)),
         rise |-> ridge - eave, twiceHeight |-> eave + ridge,
         pitch |-> Pitch(ridge - eave, width \div 2)]

FirstFrame(b) == Min(FramesAt(b))
LastFrame(b) == Max(FramesAt(b))

\* A defect: an inner frame carries the way to the next one only.
MutTwiceStrip(b, y) ==
    LET before == {f \in FramesAt(b) : f < y}
        after == {f \in FramesAt(b) : f > y}
    IN  IF before = {} THEN Min(after) - y
        ELSE IF after = {} THEN y - Max(before)
        ELSE Min(after) - y

\* A frame carries half of the way to each of its neighbours; this is twice that.
TwiceStrip(b, y) ==
    LET before == {f \in FramesAt(b) : f < y}
        after == {f \in FramesAt(b) : f > y}
    IN  (IF before = {} THEN 0 ELSE y - Max(before)) + (IF after = {} THEN 0 ELSE Min(after) - y)

OpenFrames(b) == {m.y : m \in With(b, "opening")}

Sealed(site) == site.envelope.capacity = "verified" /\ site.envelope.doors = "normally_closed"

\* Where there may be an opening, for a wind along an axis.
OpenSurfaces(b, site, axis, sign) ==
    IF Sealed(site) THEN {}
    ELSE IF OpenFrames(b) = {} THEN Openings
    ELSE IF axis = "x" THEN {"side"}
    ELSE {o \in {"windward", "leeward"} :
            (IF (o = "windward") = (sign = 1) THEN FirstFrame(b) ELSE LastFrame(b)) \in OpenFrames(b)}

----
(* Action cases.                                                           *)

WindRole(event, axis, sign) == <<"wind", event, axis, sign>>
ActionCase(id, role, profile) == [id |-> id, role |-> role, profile |-> profile]
Imposed == <<"imposed">>
Permanent == <<"permanent">>
RoofCase == ActionCase(<<"roof-imposed">>, Imposed, "distributed")
WindCases ==
    {ActionCase(WindRole(e, a, s), WindRole(e, a, s), "none") :
        e \in Events, a \in {"x", "y"}, s \in Signs}
PointCase(m) == ActionCase(<<"roof-concentrated", m.id>>, Imposed, "concentrated")

\* A configured case is used when it is the same one, and stands in the way when it
\* has the name, or the meaning, of the one that is derived.
Same(c, new) == c.id = new.id /\ c.role = new.role /\ c.profile = new.profile
InTheWay(known, new) ==
    IF \E c \in known : c.id = new.id THEN ~\E c \in known : Same(c, new)
    ELSE IF new.role # Imposed THEN \E c \in known : c.role = new.role
    ELSE new.profile = "distributed" /\ \E c \in known : c.profile = "distributed"

----
(* Surface loads.                                                          *)

Against(outward, net) == [i \in 1..3 |-> IF net > 0 THEN -outward[i] ELSE outward[i]]

\* Pressure on a part of the surface, as a coefficient until the site says how strong the wind is.
FaceLoad(c, m, part, kind, external, inside, area, width, outward) ==
    LET net == Worst(external, AreaFactor(area, kind), inside)
    IN  [id |-> <<c.id, m.id, part>>, kind |-> "wind", case |-> c.id, member |-> m.id,
         net |-> net, area |-> area, width |-> width, toward |-> Against(outward, net),
         basis |-> <<>>, pressure |-> Magnitude(net)]

\* Which side of the building a member is on is told by the sign of its place.
LeftOf(m) == m.x1 + m.x2 < 0
WallOut(m) == <<IF LeftOf(m) THEN -1 ELSE 1, 0, 0>>
RoofOut(m) ==
    LET up == Magnitude(m.z2 - m.z1)
    IN  <<IF LeftOf(m) THEN -up ELSE up, 0, Magnitude(m.x2 - m.x1)>>

\* The first column along X meets a wind towards +X, the second one towards -X.
MeetsWind(b, m, sign) ==
    \A n \in OfFrame(b, m.y, "column") \ {m} :
        IF sign = 1 THEN m.x1 + m.x2 <= n.x1 + n.x2 ELSE m.x1 + m.x2 >= n.x1 + n.x2
UpwindOf(m, sign) == IF sign = 1 THEN m.x1 + m.x2 < 0 ELSE m.x1 + m.x2 > 0

AcrossLoads(b, site, s, c, sign) ==
    LET inside == InternalPressures(OpenSurfaces(b, site, "x", sign), LeewardAcross(s.pitch),
                          Min({UpwindRoof(s), DownwindRoof(s)}))
        Strip(m) == TwiceStrip(b, m.y)
        Area(m) == (m.length * Strip(m)) \div 2
        Wall(m) ==
            IF MeetsWind(b, m, sign)
            THEN FaceLoad(c, m, "wall", "windward", 70, inside, Area(m), Strip(m), WallOut(m))
            ELSE FaceLoad(c, m, "wall", "leeward", LeewardAcross(s.pitch), inside, Area(m),
                          Strip(m), WallOut(m))
        Roof(m) ==
            FaceLoad(c, m, "roof", "roof", IF UpwindOf(m, sign) THEN UpwindRoof(s) ELSE DownwindRoof(s),
                     inside, Area(m), Strip(m), RoofOut(m))
    IN  {Wall(m) : m \in With(b, "column")} \cup {Roof(m) : m \in With(b, "rafter")}

\* From the windward end to the far edge of the frame's strip, twice.
StripDistance(b, y, sign) ==
    2 * (IF sign = 1 THEN y - FirstFrame(b) ELSE LastFrame(b) - y) + TwiceStrip(b, y) \div 2

\* Below a level or an upright rafter there is no gable.
Rises(m) == m.x1 # m.x2 /\ m.z1 # m.z2

AlongLoads(b, site, s, c, sign) ==
    LET leeward == LeewardAlong(s)
        inside == InternalPressures(OpenSurfaces(b, site, "y", sign), leeward,
                          Min({StripRoof(StripDistance(b, y, sign), s) : y \in FramesAt(b)}))
        Windward(y) == y = IF sign = 1 THEN FirstFrame(b) ELSE LastFrame(b)
        Out(y) == <<0, IF y = FirstFrame(b) THEN -1 ELSE 1, 0>>
        Gable(m, part, area, width) ==
            FaceLoad(c, m, part, IF Windward(m.y) THEN "windward" ELSE "leeward",
                     IF Windward(m.y) THEN 70 ELSE leeward, inside, area, width, Out(m.y))
        Triangle(m) == (Magnitude(m.x2 - m.x1) * Magnitude(m.z2 - m.z1)) \div 2
        ends == {FirstFrame(b), LastFrame(b)}
    IN  {Gable(m, "gable-wall", (m.length * s.width) \div 2, s.width) :
            m \in {n \in With(b, "column") : n.y \in ends}}
        \cup {Gable(m, "gable", Triangle(m), (2 * Triangle(m)) \div m.length) :
            m \in {n \in With(b, "rafter") : n.y \in ends /\ Rises(n)}}
        \cup {FaceLoad(c, m, "roof", "roof", StripRoof(StripDistance(b, m.y, sign), s), inside,
                       (m.length * TwiceStrip(b, m.y)) \div 2, TwiceStrip(b, m.y), RoofOut(m)) :
            m \in With(b, "rafter")}

\* The imposed action of a roof, by the plan area of a rafter, in hundredths of a kPa.
RoofLoad(b, m) ==
    LET plan == (Magnitude(m.x2 - m.x1) * TwiceStrip(b, m.y)) \div 2
        imposed == Max({2880 \div plan + 12, 25})
    IN  [id |-> <<RoofCase.id, m.id, "roof">>, kind |-> "live", case |-> RoofCase.id,
         member |-> m.id, net |-> imposed, area |-> plan,
         width |-> (TwiceStrip(b, m.y) * Magnitude(m.x2 - m.x1)) \div m.length,
         toward |-> <<0, 0, -1>>, basis |-> <<>>, pressure |-> imposed]

----
(* The site over the loads.                                                *)

FaceOfCase(role) ==
    IF role[3] = "x" THEN IF role[4] = 1 THEN "left" ELSE "right"
    ELSE IF role[4] = 1 THEN "front" ELSE "back"

\* Serviceability has its own interval, the ultimate event the site's.
EventBasis(site, event, face) ==
    FaceBasis(site, face, IF event = "serviceability" THEN <<25>> ELSE <<>>, event)

\* The pressure of a load is that of its wind on the face its case comes from.
Overlaid(l, site) ==
    IF l.kind # "wind" THEN l
    ELSE LET of == EventBasis(site, l.case[2], FaceOfCase(l.case))
         IN  [l EXCEPT !.basis = <<of.event, of.face>>, !.pressure = @ * of.q]

Cited(site) == IF site.confirmed THEN "confirmed" ELSE "unconfirmed"

----
(* Combinations of the permanent action with one imposed action, or with   *)
(* the wind of one direction; factors are hundredths.                      *)

Factored(state, with, g, factor, added) ==
    [state |-> state, with |-> with, g |-> g, factor |-> factor, added |-> added]

OfProfile(known, profile) == {c \in known : c.profile = profile}
OfWind(known, event) ==
    {c \in known : \E a \in {"x", "y"}, s \in Signs : c.role = WindRole(event, a, s)}

Available(known) ==
    {Factored("serviceability", "alone", 100, 0, {}),
     Factored("ultimate", "alone", 90, 0, {}), Factored("ultimate", "alone", 135, 0, {})}
    \cup (UNION {{Factored("serviceability", "distributed", 100, 70, {c.id}),
                  Factored("ultimate", "distributed", 120, 150, {c.id})} :
                     c \in OfProfile(known, "distributed")})
    \cup (UNION {{Factored("serviceability", "concentrated", 100, 100, {c.id}),
                  Factored("ultimate", "concentrated", 120, 150, {c.id})} :
                     c \in OfProfile(known, "concentrated")})
    \cup {Factored("serviceability", "wind", 100, 100, {c.id}) : c \in OfWind(known, "serviceability")}
    \cup {Factored("ultimate", "wind", g, 100, {c.id}) :
            g \in {90, 120}, c \in OfWind(known, "ultimate")}

\* What an analysis cannot combine, by what it lacks.
Unavailable(known) ==
    {<<p>> : p \in {q \in {"distributed", "concentrated"} : OfProfile(known, q) = {}}}
    \cup ({c.role : c \in WindCases} \ {c.role : c \in known})

\* An action case has a meaning of its own, and the permanent action is there.
Resolvable(known) ==
    /\ \A c, d \in known : c # d /\ c.role = d.role => c.role = Imposed
    /\ \E c \in known : c.role = Permanent
    /\ Cardinality(OfProfile(known, "distributed")) <= 1

\* SwayCheck is checked in four directions, each on the combination with its wind if there
\* is one, else on the vertical actions; only for columns and rafters of these names.
Vertical(combinations) ==
    LET imposed == {c \in combinations : c.state = "ultimate" /\ c.with = "distributed"}
    IN  IF imposed # {} THEN CHOOSE c \in imposed : TRUE
        ELSE CHOOSE c \in combinations : c.state = "ultimate" /\ c.g = 135
SwayRestsOn(combinations, known, axis, sign) ==
    LET wind == {c \in combinations : c.g = 120 /\ c.with = "wind" /\ \E k \in known :
                    k.role = WindRole("ultimate", axis, sign) /\ c.added = {k.id}}
    IN  IF wind # {} THEN CHOOSE c \in wind : TRUE ELSE Vertical(combinations)
BaseModel(b) ==
    LET supports == {m.base : m \in With(b, "column")}
    IN  IF supports \in {{"fixed"}, {"pinned"}} THEN CHOOSE x \in supports : TRUE ELSE "unspecified"
SwayCheck(b, combinations, known) ==
    IF ~b.portalNames \/ With(b, "column") = {} \/ With(b, "rafter") = {} THEN <<>>
    ELSE <<[base |-> BaseModel(b),
            direction |-> [d \in {"x", "y"} \X Signs |-> SwayRestsOn(combinations, known, d[1], d[2])],
            rests |-> Vertical(combinations)]>>

\* Components joined to one, over any number of joints.
Joined(b, id) ==
    FoldSet(LAMBDA n, reached : reached \cup UNION {j \in b.joints : j \cap reached # {}},
            {id}, 1..Cardinality(b.joints))

----
(* The request.                                                            *)

Unmeasured == [width |-> 0, length |-> 0, rise |-> 0, twiceHeight |-> 0, pitch |-> 0]

WindInit ==
    /\ shed \in Sheds /\ where \in WindSites /\ given \in WindSettings
    /\ phase = "new" /\ shape = Unmeasured
    /\ cases = given.cases /\ points = given.points
    /\ surface = {} /\ bases = {} /\ lines = {} /\ blocked = {}
    /\ marks = [wind |-> "own", imposed |-> "own"]
    /\ combined = [combinations |-> {}, unavailable |-> {}, sway |-> <<>>]

GoesTo(next) == phase' = next /\ UNCHANGED <<shed, where, given>>
Reject == GoesTo("refused") /\ UNCHANGED <<shape, cases, surface, points, bases, marks, lines, blocked, combined>>
WithoutWind(mark) ==
    /\ GoesTo("loaded")
    /\ marks' = [marks EXCEPT !.wind = mark]
    /\ UNCHANGED <<shape, cases, surface, points, bases, lines, blocked, combined>>

\* The wind of the site as a whole, when the building has no portal frames to load.
WholeBasis(site) ==
    LET k == FastestSector(site, Sectors)
    IN  [event |-> "ultimate", face |-> "any", q |-> Pressure(Speed(site, k, <<>>)), direction |-> "any"]

NotConfigured ==
    /\ phase = "new" /\ ~given.portal
    /\ IF where = <<>> THEN WithoutWind("own")
       ELSE IF ~Calculable(where[1]) THEN Reject
       ELSE /\ GoesTo("loaded")
            /\ bases' = {WholeBasis(where[1])}
            /\ marks' = [wind |-> Cited(where[1]), imposed |-> Cited(where[1])]
            /\ UNCHANGED <<shape, cases, surface, points, lines, blocked, combined>>

WithoutSite == phase = "new" /\ given.portal /\ where = <<>> /\ WithoutWind("missing")

\* Components of the roles are looked at in no order: one without an axis ends the
\* request, one out of the plane of a frame the wind actions.
WindAsked == phase = "new" /\ given.portal /\ where # <<>>
NoAxis == WindAsked /\ shed.axisless \cap {"column", "rafter"} # {} /\ Reject
Skewed == WindAsked /\ (\E m \in Framing(shed) : m.skewed) /\ WithoutWind("own")
Plane == WindAsked /\ shed.axisless \cap {"column", "rafter"} = {} /\ \A m \in Framing(shed) : ~m.skewed

NoFrames ==
    /\ Plane
    /\ FramesAt(shed) = {} \/ \E y \in FramesAt(shed) : ~IsPortal(shed, y)
    /\ WithoutWind("incomplete")

MeasureFrames ==
    /\ Plane
    /\ FramesAt(shed) # {} /\ \A y \in FramesAt(shed) : IsPortal(shed, y)
    /\ LET s == Measured(shed)
           e == where[1].envelope
       IN  IF ~given.pack THEN Reject
           ELSE IF s.length = 0 THEN WithoutWind("own")
           ELSE IF s.rise <= 0 \/ s.width <= 0 \/ s.pitch \notin 10..25 THEN Reject
           ELSE IF e.enclosure # "enclosed" \/ (e.policy = "verified_only" /\ e.capacity # "verified")
           THEN WithoutWind("own")
           ELSE /\ GoesTo("framed")
                /\ shape' = s
                /\ UNCHANGED <<cases, surface, points, bases, marks, lines, blocked, combined>>

DeriveCases ==
    /\ phase = "framed"
    /\ LET new == {RoofCase} \cup WindCases
       IN  IF (~\E c \in cases : c.role = Permanent) \/ \E n \in new : InTheWay(cases, n) THEN Reject
           ELSE /\ GoesTo("cases")
                /\ cases' = cases \cup new
                /\ UNCHANGED <<shape, surface, points, bases, marks, lines, blocked, combined>>

\* Frame by frame: walls and roofs under a wind across, and the imposed roof action.
LoadAcross ==
    /\ phase = "cases"
    /\ IF shape.twiceHeight >= 200 THEN Reject
       ELSE /\ GoesTo("across")
            /\ surface' = (UNION {AcrossLoads(shed, where[1], shape, c, c.role[4]) :
                                     c \in {d \in WindCases : d.role[3] = "x"}})
                          \cup {RoofLoad(shed, m) : m \in With(shed, "rafter")}
            /\ UNCHANGED <<shape, cases, points, bases, marks, lines, blocked, combined>>

\* A load at the middle of each receiver, each in a case of its own.
LoadPoints ==
    /\ phase = "across"
    /\ LET receivers == With(shed, "purlin")
           new == {PointCase(m) : m \in receivers}
       IN  IF \/ "purlin" \in shed.axisless
              \/ \E c \in new : c.id \in points \/ InTheWay(cases, c)
           THEN Reject
           ELSE /\ GoesTo("points")
                /\ cases' = cases \cup new
                /\ points' = points \cup {c.id : c \in new}
                /\ marks' = [marks EXCEPT !.imposed = IF receivers = {} THEN "no receiver" ELSE @]
                /\ UNCHANGED <<shape, surface, bases, lines, blocked, combined>>

LoadAlong ==
    /\ phase = "points"
    /\ GoesTo("along")
    /\ surface' = surface \cup UNION {AlongLoads(shed, where[1], shape, c, c.role[4]) :
                                        c \in {d \in WindCases : d.role[3] = "y"}}
    /\ UNCHANGED <<shape, cases, points, bases, marks, lines, blocked, combined>>

\* The site gives the bases of both events, the pressures, and the standards, also
\* that of the imposed actions, whatever was said of it before.
OverlaySite ==
    /\ phase = "along"
    /\ IF ~Calculable(where[1]) THEN Reject
       ELSE /\ GoesTo("loaded")
            /\ bases' = {EventBasis(where[1], e, f) : e \in Events, f \in Faces}
            /\ surface' = {Overlaid(l, where[1]) : l \in surface}
            /\ marks' = [wind |-> Cited(where[1]), imposed |-> Cited(where[1])]
            /\ lines' = {[of |-> l.id, member |-> l.member, case |-> l.case,
                          pressure |-> Overlaid(l, where[1]).pressure, width |-> l.width,
                          toward |-> l.toward] : l \in surface}
            /\ UNCHANGED <<shape, cases, points, blocked, combined>>

TraceLoads ==
    /\ phase = "loaded"
    /\ GoesTo("traced")
    /\ blocked' = {l.id : l \in {k \in surface : Joined(shed, k.member) \cap shed.grounded = {}}}
    /\ UNCHANGED <<shape, cases, surface, points, bases, marks, lines, combined>>

\* An incomplete model is not analysed.
Combine ==
    /\ phase = "traced" /\ shed.complete
    /\ IF ~Resolvable(cases) THEN Reject
       ELSE /\ GoesTo("combined")
            /\ combined' = [combinations |-> Available(cases), unavailable |-> Unavailable(cases),
                            sway |-> SwayCheck(shed, Available(cases), cases)]
            /\ UNCHANGED <<shape, cases, surface, points, bases, marks, lines, blocked>>

WindNext ==
    \/ NotConfigured \/ WithoutSite \/ NoAxis \/ Skewed \/ NoFrames \/ MeasureFrames
    \/ DeriveCases \/ LoadAcross \/ LoadPoints \/ LoadAlong \/ OverlaySite \/ TraceLoads \/ Combine

WindSpec == WindInit /\ [][WindNext]_windVars

----
(* Properties.                                                             *)

Towards(role) ==
    IF role[3] = "x" THEN IF role[4] = 1 THEN "+X" ELSE "-X" ELSE IF role[4] = 1 THEN "+Y" ELSE "-Y"

\* Every wind load has the pressure of the event of its case, on the face whose wind
\* pushes the way the case says, also when the building is turned; and where the
\* building stands across X = 0, the wall that meets the wind is pushed along with it
\* (apply_site_definition, _portal_frame_wind_actions).
LoadsMeetTheirWind ==
    phase \in {"loaded", "traced", "combined"} =>
        \A l \in {k \in surface : k.kind = "wind"} :
            LET b == CHOOSE x \in bases : <<x.event, x.face>> = l.basis
                m == CHOOSE n \in shed.members : n.id = l.member
            IN  /\ b.event = l.case[2] /\ b.direction = Towards(l.case)
                /\ l.pressure = Magnitude(l.net) * b.q
                /\ l.id[3] = "wall" /\ MeetsWind(shed, m, l.case[4])
                   /\ (\E n \in OfFrame(shed, m.y, "column") : LeftOf(n))
                   /\ (\E n \in OfFrame(shed, m.y, "column") : ~LeftOf(n)) =>
                        l.toward[1] = l.case[4]

\* Every wind case loads the whole envelope once: all walls and roofs across, the two
\* gables and all roofs along; the strips of the frames add up to the building, and a
\* load has one distributed load (tributary_widths, load_geometry).
EnvelopeIsLoaded ==
    phase = "combined" /\ bases # {} /\ surface # {} =>
        /\ \A c \in WindCases :
              LET own == {l \in surface : l.case = c.id}
                  Roofs == {l \in own : l.id[3] = "roof"}
                  Walls == {l \in own : l.id[3] # "roof"}
                  ends == {m \in Framing(shed) : m.y \in {FirstFrame(shed), LastFrame(shed)}}
              IN  /\ {l.member : l \in Roofs} = {m.id : m \in With(shed, "rafter")}
                  /\ {l.member : l \in Walls} =
                        IF c.role[3] = "x" THEN {m.id : m \in With(shed, "column")}
                        ELSE {m.id : m \in {n \in ends : n.role = "rafter" => Rises(n)}}
                  /\ Cardinality(own) = Cardinality(Roofs) + Cardinality(Walls)
                  /\ MapThenSumSet(LAMBDA l : l.width, Roofs) = 4 * shape.length
        /\ \A l \in surface : Cardinality({d \in lines : d.of = l.id}) = 1

\* A building that is its own mirror image, across X = 0 or across the middle of its
\* length, its openings included, is loaded by opposite winds in mirror images
\* (MeetsWind, LeftOf, UpwindOf, StripDistance, OpenSurfaces).
Mirrored(b, axis, m, n) ==
    LET Ends(k, way) == {<<way * k.x1, k.z1>>, <<way * k.x2, k.z2>>}
    IN  /\ m.role = n.role
        /\ Ends(m, IF axis = "x" THEN -1 ELSE 1) = Ends(n, 1)
        /\ IF axis = "x" THEN m.y = n.y ELSE m.y + n.y = FirstFrame(b) + LastFrame(b)
Symmetric(b, axis) ==
    /\ \A m \in Framing(b) : \E n \in Framing(b) : Mirrored(b, axis, m, n)
    /\ axis = "x" => \A m \in Framing(b) : m.x1 + m.x2 # 0
    /\ axis = "y" =>
          \A y \in {FirstFrame(b), LastFrame(b)} :
              y \in OpenFrames(b) <=> FirstFrame(b) + LastFrame(b) - y \in OpenFrames(b)
OppositeWindsMirror ==
    phase = "combined" => \A axis \in {"x", "y"} : Symmetric(shed, axis) =>
        LET wind == {l \in surface : l.kind = "wind" /\ l.case[3] = axis}
            Of(l) == CHOOSE n \in shed.members : n.id = l.member
            at == IF axis = "x" THEN 1 ELSE 2
        IN  \A l \in wind : \E k \in wind :
                /\ k.case = [l.case EXCEPT ![4] = -@]
                /\ Mirrored(shed, axis, Of(l), Of(k))
                /\ k.id[3] = l.id[3] /\ k.net = l.net /\ k.area = l.area
                /\ k.toward = [l.toward EXCEPT ![at] = -@]

\* Every derived load acts in a combination of its limit state, and of no other;
\* and each direction of the wind is either combined, and then carries the sway check
\* of that direction, or named as not available (resolve_action_standard_pack, _p399_stability_actions).
LoadsAreCombined ==
    phase = "combined" =>
        LET all == combined.combinations
            In(id) == {c.state : c \in {d \in all : id \in d.added}}
        IN  /\ \A l \in surface :
                  In(l.case) = IF l.kind = "wind" THEN {l.case[2]} ELSE Events
            /\ \A p \in points \ given.points : In(p) = Events
            /\ \A c \in WindCases :
                  (c.role \in combined.unavailable) # (\E k \in cases : k.role = c.role /\ In(k.id) # {})
            /\ combined.sway # <<>> =>
                  \A c \in {d \in WindCases : d.role[2] = "ultimate"} :
                      c.role \in combined.unavailable
                          \/ \E k \in cases : /\ k.role = c.role
                                              /\ combined.sway[1].direction[<<c.role[3], c.role[4]>>].added = {k.id}

WindIsCarried == LoadsMeetTheirWind /\ EnvelopeIsLoaded /\ OppositeWindsMirror /\ LoadsAreCombined
=============================================================================
