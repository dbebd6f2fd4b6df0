-------------------------- MODULE StructuralChecks --------------------------
(***************************************************************************)
(* One analysis of a project's structure, from the declaration of the      *)
(* compiled design to the readiness of its certificate                     *)
(* (project_analysis.py).  After the frame is solved, checks build on each *)
(* other in the order their progress is reported: tension-only members,    *)
(* the connections, the braces' paths to ground, the members and their     *)
(* restraints, deflections, and then stages of evidence and gates.         *)
(*                                                                         *)
(* The numbers are facts of the frame: a resistance is known or lacking,   *)
(* and a demand is within it ("ok") or "over" it.  What is modelled is     *)
(* which check decides, what it takes from the others, and what a verdict  *)
(* leads to.                                                               *)
(***************************************************************************)
EXTENDS Naturals, FiniteSets, SequencesExt

\* A frame has
\*   loaded, solves     members and loads; the solver finds a solution
\*   combos             its load combinations
\*   envelope,          those its section checks name, none: no sections are checked;
\*     memberCombos       those its stability checks name, none: no segments and
\*                        no restraints are
\*   joints, grounded   its connections, in their order; components on the ground
\*   ties               its tension-only members
\*   sections           the outcome of each member's section against its pack
\*   segments           members' stability segments, with their outcomes
\*   candidates         restraints of members
\*   spans, balanced    groups of members that deflect; whether actions and
\*                      reactions cancel
\*   sway, base         its second-order response; what is known of its bases
\*   basis, wind, loads, actionPack, worstWind    the design basis and the actions
CONSTANTS
    Frames,    \* the designs and settings an analysis can be asked for
    Selections    \* combinations a request names; "none" leaves the choice to the code

\* Connections have unique names and join two components
\* (ProjectStructuralCapture.validate_capture_references).
IsJoint(j) ==
    /\ j.id \in Nat
    /\ DOMAIN j.ends = {1, 2} /\ j.ends[1] # j.ends[2]
    /\ j.pack \in {"none", "candidate", "verified"} /\ j.same \in BOOLEAN
    /\ j.load \in {"ok", "over"}

IsTie(t) ==
    /\ t.member \in {"ok", "over", "unknown"} /\ t.load \in {"ok", "over"}
    /\ t.tested \in {"none", "low", "high"} /\ t.count \in Nat

\* The demand of a restraint is known for every combination it is checked in.
IsCandidate(c, f) ==
    \A k \in f.memberCombos \cup {f.combos[n].id : n \in DOMAIN f.combos} \cup {"all"} :
        c.demand[k] \in {"ok", "over", "unknown"}

IsFrame(f) ==
    /\ f.joints \in Seq({f.joints[n] : n \in DOMAIN f.joints})
    /\ \A n \in DOMAIN f.joints : IsJoint(f.joints[n])
    /\ \A n, m \in DOMAIN f.joints : f.joints[n].id = f.joints[m].id => n = m
    /\ IsFiniteSet(f.ties) /\ \A t \in f.ties : IsTie(t)
    /\ \A c \in f.candidates : IsCandidate(c, f)
    /\ f.sections \subseteq {"ok", "over", "no pack", "off axis", "skipped"}
    /\ \A s \in f.segments : s.outcome \in {"ok", "over", "no pack"}
    /\ f.spans \subseteq {"ok", "over", "no limit", "axial"}
    /\ f.combos \in Seq({f.combos[n] : n \in DOMAIN f.combos})
    /\ \A n \in DOMAIN f.combos : f.combos[n].score \in Nat

ASSUME ChecksAssumption == \A f \in Frames : IsFrame(f)

VARIABLES
    frame,           \* the declaration that is analysed
    chosen,          \* the combination the request names
    stage,           \* the one last reported, or how the analysis ended
    active,          \* the combination the results are of
    tieCheck,        \* verdict on each tension-only member
    jointCheck,      \* verdict on each connection
    braceTrace,      \* verdict on each brace's paths to ground
    restraintCheck,  \* verdicts on restraints: one per candidate and combination
    deflection,      \* verdicts on deflections
    evidence,        \* status of each stage of verification
    gate             \* status of each gate, the document, the colours of members

checkVars ==
    <<frame, chosen, stage, active, tieCheck, jointCheck, braceTrace, restraintCheck,
      deflection, evidence, gate>>

Verdict == {"pass", "fail", "unsupported", "not_checked"}
NoVerdicts == <<>>

----
(* Load combinations.                                                      *)

\* Without authored combinations there is one, of all the actions.
Combinations ==
    IF frame.combos # <<>> THEN frame.combos
    ELSE <<[id |-> "all", limit |-> "serviceability", design |-> TRUE, factors |-> TRUE,
            demo |-> FALSE, score |-> 0]>>

Earliest(positions) == CHOOSE n \in positions : \A m \in positions : n <= m

Serviceable == {n \in DOMAIN Combinations : Combinations[n].limit = "serviceability"}

\* Where those are that the request may mean: the named one, or those for
\* serviceability, or all.
Meant ==
    IF chosen # "none" THEN {n \in DOMAIN Combinations : Combinations[n].id = chosen}
    ELSE IF Serviceable # {} THEN Serviceable ELSE DOMAIN Combinations

Selected == Combinations[Earliest(Meant)]

\* Each envelope combination exists and is ultimate.
EnvelopeIsUltimate ==
    \A e \in frame.envelope : \E c \in ToSet(Combinations) : c.id = e /\ c.limit = "ultimate"

\* The first of the worst service combinations that are not for demonstration.
Governing ==
    LET credible == {n \in Serviceable : ~Combinations[n].demo}
        worst == {n \in credible : \A m \in credible : Combinations[m].score <= Combinations[n].score}
    IN IF credible = {} THEN Selected ELSE Combinations[Earliest(worst)]

HasUltimate == \E c \in ToSet(frame.combos) : c.limit = "ultimate" /\ c.design

----
(* Tension-only members.                                                   *)

FrameJoints == ToSet(frame.joints)
Carries(j) == j.transfers \cap {"force", "shear"} # {}
Touches(j, c) == c \in ToSet(j.ends)
Across(j, c) == IF j.ends[1] = c THEN j.ends[2] ELSE j.ends[1]

\* The rendered ends of a tie: where its node keys name connections, only those.
EndsOf(t) ==
    {j \in FrameJoints : Carries(j) /\ Touches(j, t.component) /\ (t.named = {} \/ j.id \in t.named)}

\* Both ends are rendered, each with the declared number of fasteners.
LayoutMatches(t) ==
    t.count > 0 /\ Cardinality(EndsOf(t)) = 2 /\ \A j \in EndsOf(t) : j.connectors = t.count

\* Every rendered fastener is of the same verified product.
OneProduct(t) == t.verified /\ t.same

\* The fastener's tested strength against 1.25 Vb; without one verified product it
\* only makes a candidate.
Qualification(t) ==
    IF t.member = "unknown" \/ ~t.details \/ t.count = 0 \/ ~t.bears \/ t.tested = "none"
    THEN "not_checked"
    ELSE IF ~OneProduct(t) THEN "candidate"
    ELSE IF t.tested = "low" THEN "fail" ELSE "pass"

\* The end connection has a capacity.
EndIsRated(t) == Qualification(t) = "pass" /\ t.spaced /\ LayoutMatches(t)

EndStatus(t) ==
    IF EndIsRated(t) \/ Qualification(t) = "fail" THEN "verified"
    ELSE IF t.count > 0 THEN "candidate" ELSE "not_checked"

TieIsOver(t) ==
    HasUltimate /\ (t.member = "over" \/ (EndIsRated(t) /\ t.load = "over"))

TieStatus(t) ==
    IF Qualification(t) = "fail" \/ TieIsOver(t) THEN "fail"
    ELSE IF ~HasUltimate THEN "not_checked"
    ELSE IF t.member # "unknown" /\ EndStatus(t) = "verified" THEN "pass"
    ELSE IF EndStatus(t) = "candidate" THEN "unsupported" ELSE "not_checked"

----
(* Connections.  A joint's connectors select calculations (kinds); each    *)
(* may lack facts or find the demand over the resistance.                  *)

GroundsOf(j) == ToSet(j.ends) \cap frame.grounded
Bends(j) == "moment" \in j.transfers /\ HasUltimate

\* Products, evidence, sheets and holes are known, as a calculation needs them.
IsKnown(j, kind) == kind \notin j.lacking

\* It fails over its resistance, or for its geometry or stiffness (poor).
FallsShort(j, kind) == kind \in j.over \cup j.poor

Rated(j, kind) ==
    IF ~IsKnown(j, kind) THEN "unsupported" ELSE IF FallsShort(j, kind) THEN "fail" ELSE "pass"

\* The anchors of one foundation.
AnchorGroup(j) ==
    IF "anchor" \notin j.kinds THEN "none"
    ELSE IF Cardinality(GroundsOf(j)) # 1 THEN "unsupported" ELSE Rated(j, "anchor")

\* The bolts through the connected sheet.
BoltedSheet(j) == IF "bolts" \notin j.kinds THEN "none" ELSE Rated(j, "bolts")

Cleat(j) == IF "cleat" \notin j.kinds THEN "none" ELSE Rated(j, "cleat")

\* Every connector is a screw; screws are not credited with a moment.
Screw(j) ==
    IF "screw" \notin j.kinds THEN "none"
    ELSE IF j.kinds # {"screw"} \/ Bends(j) THEN "unsupported" ELSE Rated(j, "screw")

Gusset(j) == IF "gusset" \notin j.kinds THEN "none" ELSE Rated(j, "gusset")

\* Mutant of AnchoredFixture: its anchors and bolts must be known, not suffice.
MutAnchoredFixture(j) ==
    IF "fixture" \notin j.kinds THEN "none"
    ELSE IF {AnchorGroup(j), BoltedSheet(j)} \cap {"none", "unsupported"} # {} \/ Bends(j)
    THEN "unsupported" ELSE Rated(j, "fixture")

\* The fixture, its anchors and its bolts.
AnchoredFixture(j) ==
    LET parts == {AnchorGroup(j), BoltedSheet(j)}
    IN IF "fixture" \notin j.kinds THEN "none"
       ELSE IF parts \cap {"none", "unsupported"} # {} \/ Bends(j) THEN "unsupported"
       ELSE IF parts # {"pass"} /\ "fixture" \notin j.lacking THEN "fail"
       ELSE Rated(j, "fixture")

\* One anchor through the member's web and no other connector.
IsDirect(j) == j.kinds = {"anchor"} /\ j.connectors = 1
DirectIsWhole(j) == IsDirect(j) /\ "direct" \notin j.lacking /\ ~Bends(j)
DirectAnchor(j) ==
    IF ~IsDirect(j) THEN "none"
    ELSE IF ~DirectIsWhole(j) THEN "unsupported"
    ELSE IF AnchorGroup(j) # "pass" THEN "fail" ELSE Rated(j, "direct")

\* It takes the anchors' utilisation for granted, which incomplete anchors lack.
AssertionRaises(j) == DirectIsWhole(j) /\ AnchorGroup(j) = "unsupported"

Calculations(j) ==
    <<[kind |-> "cleat", status |-> Cleat(j)], [kind |-> "screw", status |-> Screw(j)],
      [kind |-> "gusset", status |-> Gusset(j)],
      [kind |-> "fixture", status |-> AnchoredFixture(j)],
      [kind |-> "direct", status |-> DirectAnchor(j)]>>

\* On the ground the anchored kinds come first; elsewhere the first that is
\* complete, or the first.
Calculated(j) ==
    LET all == Calculations(j)
        found == {n \in DOMAIN all : all[n].status # "none"}
        whole == {n \in found : all[n].status # "unsupported"}
        anchored == {n \in found : GroundsOf(j) # {} /\ all[n].kind \in {"fixture", "direct"}}
        best == IF anchored # {} THEN anchored ELSE IF whole # {} THEN whole ELSE found
    IN IF best = {} THEN [kind |-> "none", status |-> "none"] ELSE all[Earliest(best)]

\* The tie a joint without a pack ends: named by the tie, or the only one that meets it.
TieAt(j) ==
    LET named == {t \in frame.ties : j.id \in t.named}
        met == {t \in frame.ties : Touches(j, t.component)}
    IN IF j.pack # "none" \/ ~(j.transfers \subseteq {"force"}) THEN {}
       ELSE IF named # {} THEN {CHOOSE t \in named : TRUE}
       ELSE IF Cardinality(met) = 1 THEN met ELSE {}

\* What a calculation counts: an anchored kind counts its parts too.
PartsOf(kind) ==
    CASE kind = "fixture" -> {"fixture", "anchor", "bolts"}
      [] kind = "direct" -> {"direct", "anchor"}
      [] OTHER -> {kind}

\* The utilisation a calculation governs by.
Exceeded(j, kind) == j.over \cap PartsOf(kind) # {}

\* The end of a tie is judged by utilisation: the tie's, or a calculation's.
TieJoint(j, t) ==
    LET c == Calculated(j)
    IN IF Qualification(t) = "fail" THEN "fail"
       ELSE IF EndStatus(t) # "verified" \/ c.status = "unsupported"
               \/ (j.transfers = {} /\ c.status = "none")
       THEN "unsupported"
       ELSE IF c.status # "none" THEN IF Exceeded(j, c.kind) THEN "fail" ELSE "pass"
       ELSE IF t.load = "over" THEN "fail" ELSE "pass"

JointStatus(j) ==
    IF ~HasUltimate THEN "not_checked"
    ELSE IF j.pack = "candidate" \/ (j.pack = "verified" /\ ~j.same) THEN "unsupported"
    ELSE IF TieAt(j) # {} THEN TieJoint(j, CHOOSE t \in TieAt(j) : TRUE)
    ELSE IF Calculated(j).status # "none" THEN Calculated(j).status
    ELSE IF j.pack = "none"
    THEN IF "fail" \in {AnchorGroup(j), BoltedSheet(j)} THEN "fail" ELSE "unsupported"
    ELSE IF j.load = "ok" THEN "pass" ELSE "fail"

\* Without a moment capacity of the calculation, or of the pack, none is known.
CheckOfJoint(j) ==
    LET c == Calculated(j)
        works == c.status \in {"pass", "fail"}
    IN [status |-> JointStatus(j),
        verified |->
            IF j.pack # "none" THEN j.pack = "verified"
            ELSE IF c.status # "none" THEN works
            ELSE \E t \in TieAt(j) : EndStatus(t) = "verified",
        force |->
            IF j.pack # "none" THEN "force" \in j.holds
            ELSE works \/ (c.status = "none" /\ \E t \in TieAt(j) : EndIsRated(t)),
        moment |->
            IF j.pack # "none" THEN "moment" \in j.holds
            ELSE works /\ c.kind \in {"cleat", "gusset"},
        stiff |->
            IF c.status # "none" THEN c.status = "pass" /\ c.kind # "screw" ELSE j.pinned]

----
(* The paths of a brace to ground.                                         *)

\* The joints along which a brace hands its force on.
BraceJoints(c) == {j \in FrameJoints : Carries(j) /\ Touches(j, c)}

\* A search takes the first in its queue and appends what its joints lead to, but for
\* what it has seen and what only the brace leads to.
Visit(search, brace) ==
    LET next == Head(search.queue)
        after[n \in 0..Len(frame.joints)] ==
            IF n = 0 THEN [queue |-> Tail(search.queue), seen |-> search.seen]
            ELSE LET j == frame.joints[n]
                     found == after[n - 1]
                 IN IF Carries(j) /\ Touches(j, next.at) /\ ~Touches(j, brace)
                       /\ Across(j, next.at) \notin found.seen
                    THEN [queue |-> Append(found.queue,
                              [at |-> Across(j, next.at), via |-> next.via \cup {j.id}]),
                          seen |-> found.seen \cup {Across(j, next.at)}]
                    ELSE found
    IN after[Len(frame.joints)]

Arrived(search) == search.queue = <<>> \/ Head(search.queue).at \in frame.grounded

\* Breadth first, until the first in the queue is on the ground or nothing is left;
\* every joint leads to one component at most that was not seen.
PathsFrom(start, brace) ==
    LET search[n \in 0..Cardinality(FrameJoints) + 1] ==
            IF n = 0
            THEN [queue |-> <<[at |-> start, via |-> {}]>>, seen |-> {start, brace}]
            ELSE LET before == search[n - 1]
                 IN  IF Arrived(before) THEN before ELSE Visit(before, brace)
    IN search[Cardinality(FrameJoints) + 1].queue

\* The first two joints of the brace, by name.
BraceEnds(t) ==
    {j \in BraceJoints(t.component) :
        Cardinality({k \in BraceJoints(t.component) : k.id < j.id}) < 2}

\* Mutant of Trace: only the connections at the brace's own ends are asked.
MutTrace(t) ==
    LET verdicts == {jointCheck[j.id].status : j \in BraceEnds(t)}
    IN IF Cardinality(BraceEnds(t)) < 2 THEN "blocked"
       ELSE IF tieCheck[t] = "fail" \/ "fail" \in verdicts THEN "fail"
       ELSE IF verdicts # {"pass"} \/ tieCheck[t] # "pass" THEN "candidate" ELSE "pass"

Trace(t) ==
    LET leg(j) == PathsFrom(Across(j, t.component), t.component)
        route == UNION {{j.id} \cup Head(leg(j)).via : j \in BraceEnds(t)}
        verdicts == {jointCheck[id].status : id \in route}
    IN IF Cardinality(BraceEnds(t)) < 2 \/ \E j \in BraceEnds(t) : leg(j) = <<>> THEN "blocked"
       ELSE IF tieCheck[t] = "fail" \/ "fail" \in verdicts THEN "fail"
       ELSE IF verdicts # {"pass"} \/ tieCheck[t] # "pass" \/ EndStatus(t) # "verified"
       THEN "candidate" ELSE "pass"

----
(* Members and their restraints.                                           *)

\* Rigid zones, and members the verification does not select, have no section check.
SectionStatus(outcome) ==
    IF outcome \in {"no pack", "off axis"} THEN "unsupported"
    ELSE IF outcome = "over" THEN "fail" ELSE "pass"

SectionVerdicts ==
    {SectionStatus(s) : s \in IF frame.envelope = {} THEN {} ELSE frame.sections \ {"skipped"}}

\* Every segment is checked over the whole physical length, unbraced.
SegmentStatus(outcome) ==
    IF outcome = "no pack" THEN "unsupported" ELSE IF outcome = "over" THEN "fail" ELSE "pass"

CheckedSegments == IF frame.memberCombos = {} THEN {} ELSE frame.segments
SegmentVerdicts == {SegmentStatus(s.outcome) : s \in CheckedSegments}

\* Members that pass without any restraint.
Unbraced ==
    {m \in {s.member : s \in CheckedSegments} :
        \A s \in CheckedSegments : s.member = m => SegmentStatus(s.outcome) = "pass"}

\* The candidate's own joint passes with verified evidence and resolves the rest.
JointResolves(c) ==
    c.pack = "same" /\ c.joint \in DOMAIN jointCheck
        /\ jointCheck[c.joint].status = "pass" /\ jointCheck[c.joint].verified

\* Its route to ground is declared and every connection on it passes.
IsAnchored(c) ==
    \/ c.anchored
    \/ /\ c.ground /\ c.route # {}
       /\ \A id \in c.route : id \in DOMAIN jointCheck /\ jointCheck[id].status = "pass"

\* The force it must transfer under the loads of the combination, by its model.
Demand(c, combination) == c.demand[combination]

RestraintStatus(c, combination) ==
    LET resolved == JointResolves(c)
        known ==
            /\ c.force \/ (resolved /\ jointCheck[c.joint].force)
            /\ c.moment \/ (resolved /\ jointCheck[c.joint].moment)
        stiff == IF resolved THEN jointCheck[c.joint].stiff ELSE c.stiff
        verified == c.evidence = "verified" \/ (resolved /\ known /\ stiff)
    IN IF c.evidence = "unsupported" \/ c.pack = "other" THEN "unsupported"
       ELSE IF ~verified \/ ~known \/ ~stiff \/ Demand(c, combination) = "unknown"
               \/ (c.pack # "none" /\ ~IsAnchored(c))
       THEN "candidate"
       ELSE IF Demand(c, combination) = "over" THEN "fail" ELSE "pass"

\* In each combination of the stability verification and in the active one.
RestraintVerdicts ==
    {[candidate |-> c.id, combination |-> k,
      status |-> IF c.member \in Unbraced THEN "not_required" ELSE RestraintStatus(c, k)] :
        c \in IF frame.memberCombos = {} THEN {} ELSE frame.candidates,
        k \in frame.memberCombos \cup {active.id}}

\* A group of members deflects; bars in tension or compression only do not.
DeflectionStatus(span) ==
    IF span = "axial" THEN "not_applicable"
    ELSE IF active.limit # "serviceability" \/ span = "no limit" THEN "not_checked"
    ELSE IF span = "over" THEN "fail" ELSE "pass"

----
(* Evidence: the status of each stage of the verification.                 *)

GeometryStage == IF frame.basis.given THEN "pass" ELSE "blocked"

WindLoads == {l \in frame.loads : l.case = "wind"}
WindRequired == frame.wind # {} \/ (frame.basis.given /\ frame.basis.windRole)
WindReady ==
    \/ ~WindRequired /\ WindLoads = {}
    \/ /\ WindLoads # {} /\ frame.wind = {"verified"}
       /\ \A l \in WindLoads : l.linked /\ l.coefficient = "verified" /\ l.path # "blocked"

ActionsStage ==
    IF (frame.wind = {} /\ frame.loads = {}) \/ ~frame.basis.given
       \/ (WindRequired /\ WindLoads = {})
       \/ \E l \in WindLoads : l.path = "blocked"
    THEN "blocked"
    ELSE IF frame.basis.actions = "active" /\ WindReady THEN "pass" ELSE "warning"

CombinationsStage ==
    IF ~active.factors \/ ~frame.basis.given THEN "blocked"
    ELSE IF frame.basis.combination = "open" THEN "warning" ELSE "pass"

AnalysisStage ==
    IF ~frame.basis.given THEN "blocked" ELSE IF frame.balanced THEN "pass" ELSE "fail"

\* The restraints of the columns' bases are those the basis says.
BaseMatches ==
    \/ frame.base.model = "unspecified"
    \/ frame.base.columns = {frame.base.model}

BaseIsReady ==
    /\ BaseMatches
    /\ \/ frame.base.model = "pinned" /\ frame.base.status = "conservative"
       \/ /\ frame.base.status = "verified"
          /\ frame.base.joints \/ (frame.base.model = "unspecified" /\ frame.base.stiffness)

StabilityStage ==
    IF frame.sway = "none" THEN "blocked"
    ELSE IF frame.sway = "unstable" THEN "fail"
    ELSE IF frame.sway = "amplified" \/ ~BaseIsReady \/ {ActionsStage, CombinationsStage} # {"pass"}
    THEN "warning" ELSE "pass"

\* Sections, segments and connections: one failure, then one unsupported, decides.
Rolled(verdicts) ==
    IF "fail" \in verdicts THEN "fail"
    ELSE IF "unsupported" \in verdicts THEN "unsupported"
    ELSE IF verdicts = {"pass"} THEN "pass" ELSE "not_checked"

StatusesOf(checks) == {checks[k] : k \in DOMAIN checks}
JointVerdicts == {jointCheck[id].status : id \in DOMAIN jointCheck}
Restrained == {r.status : r \in restraintCheck}

BracingStage ==
    LET ties == StatusesOf(tieCheck)
        traces == StatusesOf(braceTrace)
    IN IF "fail" \in ties \/ traces \cap {"fail", "blocked"} # {} \/ "fail" \in Restrained
       THEN "fail"
       ELSE IF "unsupported" \in ties \cup Restrained \/ "candidate" \in traces THEN "unsupported"
       ELSE IF ties \cup traces \cup Restrained = {} THEN "not_checked"
       ELSE IF Restrained \subseteq {"pass", "not_required"} /\ ties \cup traces \subseteq {"pass"}
       THEN "pass" ELSE "warning"

ServiceabilityStage ==
    LET checked == deflection \cap {"pass", "fail"}
    IN IF "fail" \in deflection THEN "fail"
       ELSE IF "not_checked" \in deflection \/ checked = {} THEN "not_checked" ELSE "pass"

StageEvidence ==
    [geometry |-> GeometryStage, actions |-> ActionsStage, combinations |-> CombinationsStage,
     analysis |-> AnalysisStage, stability |-> StabilityStage,
     cross_section |-> Rolled(SectionVerdicts), member_stability |-> Rolled(SegmentVerdicts),
     bracing |-> BracingStage, connections |-> Rolled(JointVerdicts),
     serviceability |-> ServiceabilityStage]

----
(* Gates of the Australian readiness.                                      *)

Combined(stages) ==
    LET statuses == {evidence[s] : s \in stages}
    IN IF statuses = {"pass"} THEN "pass"
       ELSE IF "fail" \in statuses THEN "fail"
       ELSE IF statuses \subseteq {"pass", "warning"} THEN "warning" ELSE "blocked"

PassOr(condition, otherwise) == IF condition THEN "pass" ELSE otherwise

\* The project gate knows the wind bases' status, not whether they have drifted.
Gates ==
    [project_basis |->
        PassOr(/\ frame.basis.given /\ frame.basis.register /\ frame.basis.confirmed
               /\ "unverified" \notin frame.wind, "blocked"),
     actions |->
        PassOr(Combined({"actions", "combinations"}) = "pass" /\ frame.actionPack = "verified",
               "blocked"),
     analysis |->
        PassOr(Combined({"geometry", "analysis"}) = "pass" /\ frame.balanced,
               IF frame.balanced THEN "blocked" ELSE "fail"),
     stability |-> evidence.stability,
     member_capacity |-> Combined({"cross_section", "member_stability"}),
     load_path |->
        PassOr(Combined({"bracing", "connections"}) = "pass" /\ StatusesOf(tieCheck) \subseteq {"pass"},
               IF Combined({"bracing", "connections"}) = "fail" THEN "fail" ELSE "blocked"),
     serviceability |-> evidence.serviceability]

Document(gates) ==
    IF StatusesOf(gates) = {"pass"} THEN "certificate_draft_ready"
    ELSE IF gates.analysis = "pass" THEN "engineering_review_draft" ELSE "analysis_incomplete"

\* Members are coloured only when their sections were decided.
Colours ==
    IF frame.envelope = {} \/ evidence.cross_section \in {"pass", "fail"} THEN "shown" ELSE "neutral"

----
(* The analysis.                                                           *)

NoCombination == [id |-> "none", limit |-> "none", factors |-> FALSE]
NoGate == [gates |-> NoVerdicts, document |-> "none", colours |-> "none"]

ChecksInit ==
    /\ frame \in Frames /\ chosen \in Selections
    /\ stage = "new" /\ active = NoCombination
    /\ tieCheck = NoVerdicts /\ jointCheck = NoVerdicts /\ braceTrace = NoVerdicts
    /\ restraintCheck = {} /\ deflection = {}
    /\ evidence = NoVerdicts /\ gate = NoGate

Keep(c) == [id |-> c.id, limit |-> c.limit, factors |-> c.factors]

\* A declaration that cannot be analysed is refused (StructuralAnalysisError).
Prepare ==
    /\ stage = "new"
    /\ IF frame.loaded /\ Meant # {} /\ EnvelopeIsUltimate
       THEN stage' = "topology" /\ active' = Keep(Selected)
       ELSE stage' = "refused" /\ UNCHANGED active
    /\ UNCHANGED <<frame, chosen, tieCheck, jointCheck, braceTrace, restraintCheck, deflection,
                   evidence, gate>>

\* The solver may fail; with a policy of the worst wind, and no named combination,
\* the results are of the governing one.
Solve ==
    /\ stage = "topology"
    /\ IF ~frame.solves THEN stage' = "refused" /\ UNCHANGED active
       ELSE /\ stage' = "response"
            /\ active' =
                  IF chosen = "none" /\ frame.wind # {} /\ frame.worstWind
                  THEN Keep(Governing) ELSE active
    /\ UNCHANGED <<frame, chosen, tieCheck, jointCheck, braceTrace, restraintCheck, deflection,
                   evidence, gate>>

CheckTies ==
    /\ stage = "response" /\ stage' = "tension_members"
    /\ tieCheck' = [t \in frame.ties |-> TieStatus(t)]
    /\ UNCHANGED <<frame, chosen, active, jointCheck, braceTrace, restraintCheck, deflection,
                   evidence, gate>>

CheckJoints ==
    /\ stage = "tension_members"
    /\ IF \E j \in FrameJoints : AssertionRaises(j)
       THEN stage' = "crashed" /\ UNCHANGED jointCheck
       ELSE /\ stage' = "connections"
            /\ jointCheck' =
                  [id \in {j.id : j \in FrameJoints} |->
                      CheckOfJoint(CHOOSE j \in FrameJoints : j.id = id)]
    /\ UNCHANGED <<frame, chosen, active, tieCheck, braceTrace, restraintCheck, deflection,
                   evidence, gate>>

TraceBraces ==
    /\ stage = "connections" /\ stage' = "bracing"
    /\ braceTrace' = [t \in DOMAIN tieCheck |-> Trace(t)]
    /\ UNCHANGED <<frame, chosen, active, tieCheck, jointCheck, restraintCheck, deflection,
                   evidence, gate>>

\* Sections are checked on the way; their verdicts are facts of the frame.
CheckRestraints ==
    /\ stage = "bracing" /\ stage' = "member_stability"
    /\ restraintCheck' = RestraintVerdicts
    /\ UNCHANGED <<frame, chosen, active, tieCheck, jointCheck, braceTrace, deflection, evidence,
                   gate>>

CheckDeflections ==
    /\ stage = "member_stability" /\ stage' = "member_diagrams"
    /\ deflection' = {DeflectionStatus(s) : s \in frame.spans}
    /\ UNCHANGED <<frame, chosen, active, tieCheck, jointCheck, braceTrace, restraintCheck,
                   evidence, gate>>

Assemble ==
    /\ stage = "member_diagrams" /\ stage' = "assembled"
    /\ evidence' = StageEvidence
    /\ UNCHANGED <<frame, chosen, active, tieCheck, jointCheck, braceTrace, restraintCheck,
                   deflection, gate>>

Decide ==
    /\ stage = "assembled" /\ stage' = "evidence"
    /\ gate' = [gates |-> Gates, document |-> Document(Gates), colours |-> Colours]
    /\ UNCHANGED <<frame, chosen, active, tieCheck, jointCheck, braceTrace, restraintCheck,
                   deflection, evidence>>

ChecksNext ==
    \/ Prepare \/ Solve \/ CheckTies \/ CheckJoints \/ TraceBraces
    \/ CheckRestraints \/ CheckDeflections \/ Assemble \/ Decide

ChecksSpec == ChecksInit /\ [][ChecksNext]_checkVars

----
(* Correctness.                                                            *)

Stages == {"new", "topology", "response", "tension_members", "connections", "bracing",
           "member_stability", "member_diagrams", "assembled", "evidence"}

ChecksTypeOK ==
    /\ chosen \in Selections
    /\ stage \in Stages \cup {"refused", "crashed"}
    /\ active = NoCombination \/ \E c \in ToSet(Combinations) : active = Keep(c)
    /\ StatusesOf(tieCheck) \cup JointVerdicts \subseteq Verdict
    /\ StatusesOf(braceTrace) \subseteq {"pass", "fail", "candidate", "blocked"}
    /\ Restrained \subseteq {"pass", "fail", "candidate", "unsupported", "not_required"}
    /\ deflection \subseteq {"pass", "fail", "not_checked", "not_applicable"}
    /\ StatusesOf(evidence) \cup StatusesOf(gate.gates) \subseteq Verdict \cup {"warning", "blocked"}
    /\ gate.document \in
           {"none", "certificate_draft_ready", "engineering_review_draft", "analysis_incomplete"}
    /\ gate.colours \in {"none", "shown", "neutral"}

\* What stands on the ground through the given joints, without the brace: no set of
\* components with it is closed under those joints and free of the ground.
StandsOn(c, brace, joints) ==
    \A island \in SUBSET ((UNION {ToSet(j.ends) : j \in FrameJoints}) \ {brace}) :
        (/\ c \in island
         /\ \A j \in joints : ~Touches(j, brace) /\ ToSet(j.ends) \cap island # {}
                => ToSet(j.ends) \subseteq island)
        => island \cap frame.grounded # {}

\* Some brace has two ends, each of them and of what stands under it in joints.
HeldByTwo(c, joints) ==
    \E i, j \in BraceJoints(c) \cap joints :
        /\ i # j
        /\ StandsOn(Across(i, c), c, {k \in joints : Carries(k)})
        /\ StandsOn(Across(j, c), c, {k \in joints : Carries(k)})

\* The trace of a brace passes only if two of its ends stand on the ground through
\* connections that pass, without the brace itself; it is blocked only if some end
\* does not, whatever the connections' resistance (_bracing_load_path_traces).
BracesReachGround ==
    stage = "bracing" => \A t \in DOMAIN braceTrace :
        LET c == t.component
        IN  /\ braceTrace[t] = "pass" =>
                  HeldByTwo(c, {j \in FrameJoints : jointCheck[j.id].status = "pass"})
            /\ braceTrace[t] = "blocked" =>
                  \/ Cardinality(BraceJoints(c)) < 2
                  \/ \E j \in BraceJoints(c) :
                        ~StandsOn(Across(j, c), c, {k \in FrameJoints : Carries(k)})

\* A calculation is about a joint that has what it counts, on one foundation if it
\* counts anchors, and with no moment to take unless it is a cleat or a gusset; a fixture
\* on the ground is what carries.
IsAbout(kind, j) ==
    /\ IF kind = "direct" THEN j.kinds = {"anchor"} /\ j.connectors = 1
       ELSE PartsOf(kind) \subseteq j.kinds
    /\ kind = "screw" => j.kinds = {"screw"}
    /\ kind \in {"fixture", "direct"} => Cardinality(GroundsOf(j)) = 1
    /\ "moment" \in j.transfers => kind \in {"cleat", "gusset"}
    /\ GroundsOf(j) # {} /\ "fixture" \in j.kinds => kind = "fixture"

\* It shows that each part has a resistance and is within it; and that its geometry and
\* stiffness suffice, except at the end of a tie, where utilisation alone is judged.
Shows(kind, j) ==
    /\ IsAbout(kind, j)
    /\ PartsOf(kind) \cap (j.lacking \cup j.over) = {}
    /\ TieAt(j) = {} => PartsOf(kind) \cap j.poor = {}

\* The fasteners at both ends of a tie are as declared, of one verified product, and
\* were tested strong enough.
FastenersHold(t) ==
    /\ Cardinality(EndsOf(t)) = 2 /\ \A j \in EndsOf(t) : j.connectors = t.count
    /\ t.count > 0 /\ t.details /\ t.spaced /\ t.bears /\ t.verified /\ t.same
    /\ t.tested = "high"

\* A joint that is shown to be within its resistance: by a calculation, if its
\* connectors select any, else by its pack or by its tie's load.  A pack must be a
\* verified one of the rendered connectors, and a tie have fasteners that hold.
Sound(j) ==
    /\ j.pack = "none" \/ (j.pack = "verified" /\ j.same)
    /\ \A t \in TieAt(j) : FastenersHold(t)
    /\ IF j.kinds \cap {"cleat", "screw", "gusset", "fixture"} # {}
             \/ (j.kinds = {"anchor"} /\ j.connectors = 1)
       THEN \E kind \in {"cleat", "screw", "gusset", "fixture", "direct"} : Shows(kind, j)
       ELSE \/ j.pack = "verified" /\ j.load = "ok"
            \/ \E t \in TieAt(j) : t.load = "ok"

\* A certificate is drafted only for a frame that stands: every connection is shown to
\* be within its resistance, every brace stands on the ground by two ends, no member,
\* segment, tie or deflection is over its resistance or without one, each restraint a
\* member needs is anchored and strong enough in every combination, and the wind is
\* verified and carried (_certification_evidence, _australian_certification_readiness).
CertificateIsEarned ==
    gate.document = "certificate_draft_ready" =>
        /\ frame.balanced /\ frame.actionPack = "verified" /\ active.limit = "serviceability"
        /\ \A j \in FrameJoints : Sound(j)
        /\ \A t \in frame.ties :
              t.member = "ok" /\ t.load = "ok" /\ HeldByTwo(t.component, {j \in FrameJoints : Sound(j)})
        /\ frame.envelope # {} /\ frame.memberCombos # {}
        /\ frame.sections \subseteq {"ok", "skipped"}
        /\ \A s \in frame.segments : s.outcome = "ok"
        /\ \A c \in frame.candidates :
              \/ c.member \in {s.member : s \in frame.segments}
              \/ /\ c.anchored \/ c.pack = "none" \/ (c.ground /\ c.route # {})
                 /\ \A k \in frame.memberCombos \cup {active.id} : c.demand[k] = "ok"
        /\ "ok" \in frame.spans /\ frame.spans \subseteq {"ok", "axial"}
        /\ \A l \in WindLoads : l.linked /\ l.coefficient = "verified" /\ l.path # "blocked"
        /\ frame.wind \subseteq {"verified"} /\ (frame.wind # {} => WindLoads # {})

\* "Explicit reusable connection packs remain authoritative"
\* (project_analysis.py:2047): a connection passes by a verified pack of its own
\* connectors only within the pack's resistance.
PacksAreAuthoritative ==
    \A j \in FrameJoints :
        j.pack = "verified" /\ j.same /\ j.id \in DOMAIN jointCheck
            /\ jointCheck[j.id].status = "pass"
        => j.load = "ok"
=============================================================================
