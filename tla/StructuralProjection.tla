---------------------------- MODULE StructuralProjection ----------------------------
(***************************************************************************)
(* From a compiled design and the saved analysis settings to the capture    *)
(* the Structural workbench analyses.                                       *)
(*                                                                          *)
(* The compile projects the physical parts (tertius/projections.py): each   *)
(* member is cut at its connected ports into segments, and the ports that    *)
(* joints and merged stations tie together become one analytical node.  A    *)
(* request (structural_server.py) reads the projection and the settings,     *)
(* which were saved for some earlier design, moves the configured loads and   *)
(* checks onto the segments, locates the restraints, and hands the result to *)
(* the contract (contracts.py), which accepts it or refuses the request.     *)
(*                                                                          *)
(* Members lie along one line.  A length of 1 is the 0.1 mm within which     *)
(* two stations are one.  The tolerance of 1e-9 m in the comparisons of the  *)
(* request is below that unit.  Forces, section and material data, wind and  *)
(* frame stability actions are left out.                                     *)
(***************************************************************************)
EXTENDS Integers, FiniteSets, Sequences, SequencesExt

CONSTANTS
    Kind,        \* component |-> "member", "ground" or "bare" (no structural facet)
    Length,      \* member |-> its length
    TensionOnly, \* the members that are tension-only braces
    Restrains,   \* pairs <<restrained member, restraining member>> by role
    Rank,        \* port name |-> its place in the alphabetical order
    Compiled,    \* the designs that may be compiled
    Saved        \* the settings that may be saved

Joints(d) == Range(d.joints)
Facets == {c \in DOMAIN Kind : Kind[c] # "bare"}
Beams == {c \in DOMAIN Kind : Kind[c] = "member"}

\* The compile gives a joint only ports of components; the contract of the settings
\* refuses a distance below 0.
ASSUME ProjectionAssumption ==
    /\ IsFiniteSet(DOMAIN Kind)
    /\ \A c \in Beams : Length[c] \in Nat
    /\ {"start", "end"} \subseteq DOMAIN Rank
    /\ \A p \in DOMAIN Rank : Rank[p] \in Nat
    /\ \A d \in Compiled :
          /\ d.joints \in Seq(Joints(d))
          /\ \A j \in Joints(d) : j.ports \in Seq((DOMAIN Kind) \X (DOMAIN Rank))
    /\ \A k \in Saved :
          /\ k.points \in Seq(Range(k.points)) /\ k.lines \in Seq(Range(k.lines))
          /\ k.checked \in Seq(Range(k.checked)) /\ k.lengths \in Seq(Range(k.lengths))
          /\ \A load \in Range(k.points) : load.at \in Nat
          /\ \A load \in Range(k.lines) \cup Range(k.lengths) : load.from \in Nat /\ load.to \in Nat

NoCapture == [outcome |-> "none"]

VARIABLES
    layout,      \* the compiled design: where its ports are and its joints
    settings,    \* the active analysis settings
    capture      \* the last answer

projectionVars == <<layout, settings, capture>>

(***************************************************************************)
(* A design is a record:                                                    *)
(*   at[<<c, p>>]   where port p of member c lies along c's axis            *)
(*   off[<<c, p>>]  how far it lies from that axis                           *)
(*   joints         a sequence of joints: id, ports (a sequence of pairs     *)
(*                  <<component, port>>), model, moment, permitted (offset)   *)
(***************************************************************************)
\* The places of joint j whose component the projection knows.
KnownPlaces(j) == {i \in DOMAIN j.ports : j.ports[i][1] \in Facets}
KnownPorts(j) == {j.ports[i] : i \in KnownPlaces(j)}

----
(***************************************************************************)
(* The projection of the compiled parts.                                    *)
(***************************************************************************)

\* The largest offset that a connection of port p of member c permits.
Permitted(d, c, p) ==
    Max({0} \cup {j.permitted : j \in {k \in Joints(d) : <<c, p>> \in Range(k.ports)}})

\* The connected ports that c has besides its ends.
Fabricated(d, c) ==
    {p \in DOMAIN Rank \ {"start", "end"} :
        <<c, p>> \in DOMAIN d.at /\ \E j \in Joints(d) : <<c, p>> \in Range(j.ports)}

Clamped(x, hi) == IF x < 0 THEN 0 ELSE IF x > hi THEN hi ELSE x

\* Where c may be cut: its ends, and the connected ports that lie on its axis
\* or as far from it as their connection permits.
Cuts(d, c) ==
    {[at |-> 0, port |-> "start"], [at |-> Length[c], port |-> "end"]}
        \cup {[at |-> Clamped(d.at[<<c, p>>], Length[c]), port |-> p] :
                 p \in {q \in Fabricated(d, c) :
                           /\ d.at[<<c, q>>] \in -1 .. Length[c] + 1
                           /\ d.off[<<c, q>>] <= Permitted(d, c, q) + 1}}

\* Of ports at one place, the one with the first name.
FirstOf(ports) == CHOOSE p \in ports : \A q \in ports : Rank[p] <= Rank[q]

\* Cuts in order, each taken into the station before it when it is within the
\* tolerance of where that station began.
Stations(d, c) ==
    LET cuts == Cuts(d, c)
        PortsAt(x) == {cut.port : cut \in {k \in cuts : k.at = x}}
    IN FoldLeft(
        LAMBDA made, x :
            IF PortsAt(x) = {} THEN made
            ELSE IF made # <<>> /\ x - Last(made).at <= 1
            THEN [made EXCEPT ![Len(made)].ports = @ \cup PortsAt(x)]
            ELSE Append(made, [at |-> x, ports |-> PortsAt(x), first |-> FirstOf(PortsAt(x))]),
        <<>>, [i \in 1 .. Length[c] + 1 |-> i - 1])

\* The analytical members of c: one between every two neighbouring stations.
SegmentsOf(d, c) ==
    LET s == Stations(d, c)
    IN [i \in 1 .. Len(s) - 1 |->
            [component |-> c, index |-> i, from |-> s[i].at, to |-> s[i + 1].at,
             starts |-> s[i], ends |-> s[i + 1]]]

Segments(d) == UNION {Range(SegmentsOf(d, c)) : c \in Beams}

Pairs(c, ports) == {<<c, p>> : p \in ports}

\* The classes of ports after `union` of the items given: those that meet them
\* become one.
Tie(classes, items) ==
    LET met == {k \in classes : k \cap items # {}}
    IN IF items = {} THEN classes ELSE (classes \ met) \cup {items \cup UNION met}

TieAll(groups) == FoldSet(LAMBDA items, classes : Tie(classes, items), {}, groups)

JointGroups(d) == {Range(j.ports) : j \in Joints(d)}
StationGroups(d) ==
    UNION {{Pairs(s.component, s.starts.ports), Pairs(s.component, s.ends.ports)} : s \in Segments(d)}

PortClasses(d) == TieAll(JointGroups(d) \cup StationGroups(d))

\* Mutant of NodeKey: only the joints of the end's own ports.
MutNodeKey(classes, d, c, station) ==
    LET ids == {j.id : j \in {k \in Joints(d) : Range(k.ports) \cap Pairs(c, station.ports) # {}}}
    IN [joints |-> ids, port |-> IF ids = {} THEN <<c, station.first>> ELSE <<>>]
\* The node of a segment's end: the joints of its class, or the end itself.
NodeKey(classes, d, c, station) ==
    LET class == CHOOSE k \in classes : Pairs(c, station.ports) \subseteq k
        ids == {j.id : j \in {k \in Joints(d) : Range(k.ports) \cap class # {}}}
    IN [joints |-> ids, port |-> IF ids = {} THEN <<c, station.first>> ELSE <<>>]

----
(***************************************************************************)
(* The request: topology.                                                   *)
(***************************************************************************)

\* The connections of the capture: the joints with two known ports, of which
\* only the first two are kept.
Connects(j) == \E i, k \in KnownPlaces(j) : i # k

Sides(j) ==
    LET i == Min(KnownPlaces(j))
    IN <<j.ports[i][1], j.ports[Min(KnownPlaces(j) \ {i})][1]>>

Connections(d) ==
    {[id |-> j.id, source |-> Sides(j)[1], target |-> Sides(j)[2]] :
        j \in {k \in Joints(d) : Connects(k)}}

OtherKinds(j, c) == {Kind[p[1]] : p \in {q \in KnownPorts(j) : q[1] # c}}

\* What joint j does to the end of a segment of c: it supports it, releases it
\* or leaves it; "refused" where the code has no model of it.
JointEffect(j, c) ==
    CASE "ground" \in OtherKinds(j, c) /\ j.model \in {"rigid", "rigid_zone"} -> "fixed"
      [] "ground" \in OtherKinds(j, c) /\ j.model = "pinned" -> "pinned"
      [] "ground" \notin OtherKinds(j, c) /\ "member" \in OtherKinds(j, c)
             /\ j.model \in {"rigid", "rigid_zone"} -> "continuous"
      [] "ground" \notin OtherKinds(j, c) /\ "member" \in OtherKinds(j, c)
             /\ j.model = "pinned" /\ ~j.moment ->
           IF \E e \in {"start", "end"} : <<c, e>> \in Range(j.ports)
           THEN "released" ELSE "continuous"
      [] OTHER -> "refused"

EndJoints(d, c, station) == {j \in Joints(d) : Range(j.ports) \cap Pairs(c, station.ports) # {}}

Effects(d) ==
    UNION {{JointEffect(j, s.component) :
               j \in EndJoints(d, s.component, s.starts)
                         \cup EndJoints(d, s.component, s.ends)} : s \in Segments(d)}

PortsAreJoinedOnce(d) ==
    \A i, k \in DOMAIN d.joints :
        i # k => Range(d.joints[i].ports) \cap Range(d.joints[k].ports) = {}

\* The topology that can be analysed at all.
Analysable(d) ==
    /\ Segments(d) # {}
    /\ PortsAreJoinedOnce(d)
    /\ "refused" \notin Effects(d)
    /\ Effects(d) \cap {"fixed", "pinned"} # {}

\* The restraints located from joints: where a joint at an end of a segment of
\* a member also holds an end of a member that may restrain it.
Candidates(d) ==
    LET classes == PortClasses(d)
        Starts(s, j) == j.id \in NodeKey(classes, d, s.component, s.starts).joints
        Ends(s, j) == j.id \in NodeKey(classes, d, s.component, s.ends).joints
        Meets(s, j) == Starts(s, j) \/ Ends(s, j)
        Braces(j, c) ==
            {i \in KnownPlaces(j) :
                /\ j.ports[i][1] # c
                /\ <<c, j.ports[i][1]>> \in Restrains
                /\ \E s \in Segments(d) : s.component = j.ports[i][1] /\ Meets(s, j)}
    IN {[connection |-> at[1].id, member |-> <<at[2].component, at[2].index>>,
         brace |-> at[1].ports[Min(Braces(at[1], at[2].component))][1],
         distance |-> IF Starts(at[2], at[1]) THEN 0 ELSE at[2].to - at[2].from] :
        at \in {x \in Joints(d) \X Segments(d) :
                   /\ x[2].component \in {p[1] : p \in KnownPorts(x[1])}
                   /\ Braces(x[1], x[2].component) # {}
                   /\ Meets(x[2], x[1])}}

----
(***************************************************************************)
(* The request: configured actions and checks.  Settings are a record of     *)
(*   points    sequence of [id, component, at]                               *)
(*   lines     sequence of [id, component, from, to]; to = 0 is "to the end" *)
(*   checked   sequence of components whose sections are verified, all when  *)
(*             empty                                                         *)
(*   lengths   sequence of [id, component, from, to] verified for stability, *)
(*             every segment over its full length when empty                 *)
(***************************************************************************)
LengthOf(d, c) == Last(SegmentsOf(d, c)).to
HasSegments(d, c) == c \in Beams /\ SegmentsOf(d, c) # <<>>
EndOf(d, load) == IF load.to = 0 THEN LengthOf(d, load.component) ELSE load.to

PointFits(d, load) ==
    HasSegments(d, load.component) /\ load.at <= LengthOf(d, load.component)
LineFits(d, load) ==
    /\ HasSegments(d, load.component)
    /\ EndOf(d, load) <= LengthOf(d, load.component)
    /\ load.from < EndOf(d, load)
LengthFits(d, length) ==
    HasSegments(d, length.component) /\ EndOf(d, length) <= LengthOf(d, length.component)

Fits(d, k) ==
    /\ \A load \in Range(k.points) : PointFits(d, load)
    /\ \A load \in Range(k.lines) : LineFits(d, load)
    /\ \A c \in Range(k.checked) : HasSegments(d, c)
    /\ \A length \in Range(k.lengths) : LengthFits(d, length)

\* A point load goes to the first segment that covers it.
PointOnSegment(d, load) ==
    LET segments == SegmentsOf(d, load.component)
        i == CHOOSE n \in DOMAIN segments :
                /\ load.at \in segments[n].from .. segments[n].to
                /\ \A m \in 1 .. n - 1 : load.at \notin segments[m].from .. segments[m].to
    IN [id |-> load.id, member |-> <<load.component, i>>, at |-> load.at - segments[i].from]

\* Where an interval of a member meets a segment of it.
LowEnd(load, s) == IF load.from > s.from THEN load.from ELSE s.from
HighEnd(d, load, s) == IF EndOf(d, load) < s.to THEN EndOf(d, load) ELSE s.to
Overlapped(d, load) ==
    {n \in DOMAIN SegmentsOf(d, load.component) :
        LET s == SegmentsOf(d, load.component)[n] IN LowEnd(load, s) < HighEnd(d, load, s)}

\* The parts of intervals that fall on segments, as distances along each: part
\* <<i, n>> is that of interval i on segment n.  They are numbered in order where
\* there are several.
Split(d, loads) ==
    [p \in UNION {{i} \X Overlapped(d, loads[i]) : i \in DOMAIN loads} |->
        LET load == loads[p[1]]
            s == SegmentsOf(d, load.component)[p[2]]
        IN [id |-> <<load.id, IF Overlapped(d, load) = {p[2]} THEN 0 ELSE p[2] - Min(Overlapped(d, load)) + 1>>,
            member |-> <<load.component, p[2]>>,
            from |-> LowEnd(load, s) - s.from, to |-> HighEnd(d, load, s) - s.from]]

FullLength(s) ==
    [id |-> <<<<s.component, s.index>>, 0>>, member |-> <<s.component, s.index>>,
     from |-> 0, to |-> s.to - s.from]

Untensioned(d) == {s \in Segments(d) : s.component \notin TensionOnly}

CheckedMembers(d, k) ==
    IF k.checked = <<>>
    THEN [s \in Untensioned(d) |-> <<s.component, s.index>>]
    ELSE [p \in UNION {{i} \X (DOMAIN SegmentsOf(d, k.checked[i])) : i \in DOMAIN k.checked} |->
            <<k.checked[p[1]], p[2]>>]

StabilityLengths(d, k) ==
    IF k.lengths = <<>> THEN [s \in Untensioned(d) |-> FullLength(s)]
    ELSE Split(d, k.lengths)

\* Each length with the restraints found exactly at its two boundaries.
WithRestraints(length, candidates) ==
    LET At(x) == {n \in candidates : n.member = length.member /\ n.distance = x}
    IN [id |-> length.id, member |-> length.member, from |-> length.from,
        to |-> length.to, startsAt |-> At(length.from), endsAt |-> At(length.to)]

\* The capture of a design with these lengths to verify and these restraints.
CaptureWith(d, k, lengths, candidates) ==
    [connections |-> Connections(d),
     members |-> Segments(d),
     points |-> [i \in DOMAIN k.points |-> PointOnSegment(d, k.points[i])],
     lines |-> Split(d, k.lines),
     checked |-> CheckedMembers(d, k),
     lengths |-> [i \in DOMAIN lengths |-> WithRestraints(lengths[i], candidates)],
     candidates |-> {c \in candidates :
                        \E i \in DOMAIN lengths : lengths[i].member = c.member}]

\* The capture as the request builds it, before the contract sees it.
Derived(d, k) == CaptureWith(d, k, StabilityLengths(d, k), Candidates(d))

----
(***************************************************************************)
(* The contract.                                                            *)
(***************************************************************************)
Distinct(list) == \A i, j \in DOMAIN list : i # j => list[i] # list[j]
Ids(list) == [i \in DOMAIN list |-> list[i].id]

\* The connections of the capture have different ids.
ConnectionsDiffer(d) ==
    \A i, k \in DOMAIN d.joints :
        i # k /\ Connects(d.joints[i]) /\ Connects(d.joints[k]) => d.joints[i].id # d.joints[k].id

SpanOf(x, member) ==
    LET s == CHOOSE m \in x.members : <<m.component, m.index>> = member
    IN s.to - s.from
IsMember(x, member) == \E m \in x.members : <<m.component, m.index>> = member
Inside(x, part) ==
    /\ IsMember(x, part.member)
    /\ 0 <= part.from
    /\ part.from < part.to
    /\ part.to <= SpanOf(x, part.member)

TopologyIsSound(d, x) ==
    /\ ConnectionsDiffer(d)
    /\ \A c \in x.connections : c.source # c.target
    /\ \A m \in x.members : Kind[m.component] = "member" /\ m.from # m.to

ActionsAreInside(x) ==
    /\ \A i \in DOMAIN x.points :
          /\ IsMember(x, x.points[i].member)
          /\ x.points[i].at \in 0 .. SpanOf(x, x.points[i].member)
    /\ \A i \in DOMAIN x.lines : Inside(x, x.lines[i])

ChecksAreSound(x) ==
    /\ \A i \in DOMAIN x.checked : IsMember(x, x.checked[i])
    /\ \A c \in x.candidates :
          /\ IsMember(x, c.member)
          /\ c.connection \in {k.id : k \in x.connections}
          /\ c.distance <= SpanOf(x, c.member)
    /\ DOMAIN x.lengths # {}
    /\ \A i \in DOMAIN x.lengths :
          /\ Inside(x, x.lengths[i])
          /\ x.lengths[i].startsAt \cup x.lengths[i].endsAt
                \subseteq {c \in x.candidates : c.member = x.lengths[i].member}

IdsAreDistinct(x) ==
    /\ Distinct(Ids(x.points))
    /\ Distinct(Ids(x.lines))
    /\ Distinct(x.checked)
    /\ Distinct(Ids(x.lengths))

ContractAccepts(d, x) ==
    TopologyIsSound(d, x) /\ ActionsAreInside(x) /\ ChecksAreSound(x) /\ IdsAreDistinct(x)

----
ProjectionInit ==
    /\ layout \in Compiled
    /\ settings \in Saved
    /\ capture = NoCapture

\* A compile replaces the design; the settings stay those saved before.
Recompile ==
    /\ layout' \in Compiled
    /\ capture' = NoCapture
    /\ UNCHANGED settings

\* A save replaces the settings; they are not compared with the design.
SaveSettings ==
    /\ settings' \in Saved
    /\ capture' = NoCapture
    /\ UNCHANGED layout

\* The settings do not fit the design, or the design cannot be analysed.
Unanalysable ==
    /\ capture = NoCapture
    /\ ~(Analysable(layout) /\ Fits(layout, settings))
    /\ capture' = [outcome |-> "refused"]
    /\ UNCHANGED <<layout, settings>>

\* What the contract makes of a capture.
Judged(d, x) ==
    IF ContractAccepts(d, x) THEN [outcome |-> "accepted", derived |-> x]
    ELSE [outcome |-> "invalid"]

\* The capture is built, and the contract accepts or refuses it.
Capture ==
    /\ capture = NoCapture
    /\ Analysable(layout) /\ Fits(layout, settings)
    /\ capture' = Judged(layout, Derived(layout, settings))
    /\ UNCHANGED <<layout, settings>>

ProjectionNext == Recompile \/ SaveSettings \/ Unanalysable \/ Capture

ProjectionSpec == ProjectionInit /\ [][ProjectionNext]_projectionVars

----
(***************************************************************************)
(* Properties.                                                              *)
(***************************************************************************)

\* There is nothing to verify for stability: every segment is a tension-only
\* brace's, or every length that was saved begins at the end of its member or past it.
NothingToVerify(d, k) ==
    IF k.lengths = <<>> THEN Untensioned(d) = {}
    ELSE \A length \in Range(k.lengths) : length.from >= EndOf(d, length)

\* The request never builds a capture its own contract refuses, unless the
\* input repeats an identifier (of a connection, of a load, of a component to
\* check, of a length), names two ports of one component first in a joint, or
\* leaves nothing to verify for stability: the only inputs that neither the compile
\* nor a save of the settings checks.  What settings saved for another design ask
\* of this one is refused before, or lies on its segments.
CaptureIsValid ==
    capture.outcome = "invalid" =>
        \/ ~ConnectionsDiffer(layout)
        \/ \E j \in Joints(layout) : Connects(j) /\ Sides(j)[1] = Sides(j)[2]
        \/ ~Distinct(Ids(settings.points)) \/ ~Distinct(Ids(settings.lines))
        \/ ~Distinct(settings.checked) \/ ~Distinct(Ids(settings.lengths))
        \/ NothingToVerify(layout, settings)

\* The parts of a configured line load that load the distance from x to x + 1 of
\* its member.
Loading(load, x) ==
    {i \in DOMAIN capture.derived.lines :
        LET part == capture.derived.lines[i]
            s == CHOOSE m \in capture.derived.members : <<m.component, m.index>> = part.member
        IN /\ part.id[1] = load.id
           /\ s.component = load.component
           /\ s.from + part.from <= x
           /\ x < s.from + part.to}

\* Every distance of a configured line load that the member still has is loaded
\* on exactly one segment, also where a cut was merged into a neighbour or into
\* an end; nothing beyond the configured distance is loaded.
LoadIsCarried ==
    capture.outcome = "accepted" /\ Distinct(Ids(settings.lines)) =>
        \A load \in Range(settings.lines) :
            \A x \in 0 .. Length[load.component] - 1 :
                Cardinality(Loading(load, x))
                    = IF load.from <= x /\ x < EndOf(layout, load) THEN 1 ELSE 0

\* What makes ports one: a joint, or a station of a member that has segments.
PortTies(d) ==
    JointGroups(d)
        \cup UNION {{Pairs(c, s.ports) : s \in Range(Stations(d, c))} :
                       c \in {b \in Beams : HasSegments(d, b)}}

\* The ports that a chain of ties leads to.
Tied(ties, port) ==
    FoldLeft(LAMBDA near, i : near \cup UNION {t \in ties : t \cap near # {}},
             {port}, [i \in 1 .. Cardinality(ties) |-> i])

\* Two ends of segments are one node exactly when a chain of joints and merged
\* stations ties them: no joint is cut in two by a station that took in another
\* port, and members that only touch stay apart.
NodesAreTied ==
    capture.outcome = "accepted" =>
        LET classes == PortClasses(layout)
            ties == PortTies(layout)
            ends == UNION {{<<s.component, s.starts>>, <<s.component, s.ends>>} :
                              s \in capture.derived.members}
            key == [end \in ends |-> NodeKey(classes, layout, end[1], end[2])]
            reach == [end \in ends |-> Tied(ties, <<end[1], end[2].first>>)]
        IN \A x, y \in ends :
              key[x] = key[y] <=> reach[x] \cap Pairs(y[1], y[2].ports) # {}

\* What stations, cuts and joints do to a design keeps its loads and its joints,
\* and nothing that the settings ask of another design ends in a capture that its
\* own contract refuses.
CaptureIsSound == CaptureIsValid /\ LoadIsCarried /\ NodesAreTied
=============================================================================
