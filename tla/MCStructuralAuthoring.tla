----------------------- MODULE MCStructuralAuthoring -----------------------
(***************************************************************************)
(* Designs that declare a frame: one whose calls are all read, with one    *)
(* departure from it; one built from members' geometry, joints and         *)
(* restraints, with segments derived from them, with two departures, and   *)
(* without any for other places of the restraints; and one with authored   *)
(* segments and stability directions, with one.                            *)
(***************************************************************************)
EXTENDS StructuralAuthoring

\* A statement with the arguments that do not matter.
Call(op, name, form, id) ==
    [op |-> op, name |-> name, form |-> form, id |-> id, flaw |-> "none", extra |-> FALSE,
     kind |-> "none", node |-> id, part |-> "none", axis |-> "none", length |-> 6,
     section |-> "none", material |-> "none", of |-> "record", mass |-> TRUE, from |-> "none",
     to |-> "none", via |-> <<>>, connection |-> "none", brace |-> "none", anchorage |-> <<>>,
     anchored |-> FALSE, atEnd |-> FALSE, at |-> 0, along |-> <<>>, start |-> 0, end |-> -1,
     combos |-> <<>>, combo |-> "none", members |-> <<>>, named |-> {}, segments |-> <<>>,
     category |-> "dead", case |-> "dead", label |-> "Dead load", wind |-> "none",
     source |-> "none", by |-> "authored", factors |-> {}, limit |-> "none", directions |-> <<>>,
     parts |-> <<>>, also |-> "none"]

PartCall(name, kind) == [Call("part", name, "assign", name) EXCEPT !.kind = kind]
ConnectCall(form, name, id, from, to, via) ==
    [Call("connect", name, form, id) EXCEPT !.from = from, !.to = to, !.via = via]
AxisCall(part, axis, length) ==
    [Call("axis", "", "expr", "none") EXCEPT
        !.part = part, !.axis = axis, !.length = length, !.section = "section", !.material = "steel"]
CombinationCall(id, limit, factors) ==
    [Call("combination", "", "expr", id) EXCEPT !.limit = limit, !.factors = factors]

\* An author's departures from any call.
Otherwise(s) ==
    {[s EXCEPT !.flaw = "value"], [s EXCEPT !.flaw = "text"], [s EXCEPT !.extra = TRUE],
     [s EXCEPT !.form = "hidden"], [s EXCEPT !.form = "hidden", !.flaw = "text"],
     [s EXCEPT !.form = IF @ = "assign" THEN "expr" ELSE "assign",
               !.name = IF s.form = "assign" THEN "" ELSE "result"]}
Line(s, others) == [own |-> s, others |-> Otherwise(s) \cup others]

----
(* A post and a rail on a ground, with a sheet.                            *)
Sheet == [Call("surface load", "load", "assign", "q") EXCEPT !.part = "sheet"]
Gust == [Call("wind load", "gust", "assign", "u") EXCEPT
            !.part = "sheet", !.wind = "wind", !.case = "wind", !.label = "Wind load"]
Spread == [Call("distribute", "", "expr", "d") EXCEPT
              !.part = "rail", !.source = "load", !.along = <<2, 4>>]
Push == [Call("point load", "", "expr", "i") EXCEPT
            !.part = "post", !.at = 4, !.category = "imperfection", !.case = "imp", !.label = "Imp"]
Snow == [Call("line load", "", "expr", "l") EXCEPT
            !.part = "rail", !.category = "live", !.case = "live", !.label = "Live load"]
CladdingLoad == [Call("line load", "", "expr", "c") EXCEPT
                !.part = "rail", !.by = "surface", !.source = "load"]
Weight == [Call("self weight", "", "expr", "w") EXCEPT !.part = "post"]
Sway == [Call("stability", "", "expr", "none") EXCEPT
            !.combo = "uls", !.case = "imp", !.named = {"P"}]
Bending == [Call("cross section", "", "expr", "none") EXCEPT !.combos = <<"uls">>]
AuthoredSegment(id, member, from, to, starts) ==
    [id |-> <<"authored", id, 0>>, member |-> member, from |-> from, to |-> to,
     starts |-> starts, ends |-> {}]
Buckling == [Call("member stability", "", "expr", "none") EXCEPT
                !.combos = <<"uls">>, !.segments = <<AuthoredSegment("g", "P", 0, 4, {})>>]
Frame == <<"ground", "post", "rail", "sheet", "bolts">>
WholeCall == [Call("assembly", "whole", "assign", "none") EXCEPT !.parts = Frame]
Manifested == Call("manifest", Declaration, "assign", "none")

PlainDesign == <<
    Line(Call("basis", "", "expr", "ncc"), {}),
    Line(PartCall("ground", "ground"), {PartCall("ground", "support")}),
    Line(PartCall("post", "member"), {PartCall("post", "surface")}),
    Line(PartCall("rail", "member"), {[PartCall("rail", "member") EXCEPT !.node = "post"]}),
    Line(PartCall("sheet", "surface"),
         {PartCall("sheet", "member"), [Call("alias", "sheet", "assign", "none") EXCEPT !.of = "rail"]}),
    Line(PartCall("bolts", "connector"), {PartCall("bolts", "member")}),
    Line(Call("material", "steel", "assign", "steel"), {Call("section", "steel", "assign", "steel")}),
    Line(Call("section", "section", "assign", "c100"),
         {[Call("section", "section", "assign", "c100") EXCEPT !.mass = FALSE]}),
    Line(AxisCall("post", "P", 4), {AxisCall("rail", "P", 4), AxisCall("post", "P", 0)}),
    Line(AxisCall("rail", "R", 6), {AxisCall("post", "R", 6), AxisCall("sheet", "R", 6)}),
    Line(ConnectCall("expr", "", "sr", "sheet", "rail", <<>>),
         {ConnectCall("expr", "", "sr", "rail", "sheet", <<>>)}),
    Line(ConnectCall("expr", "", "rp", "rail", "post", <<"bolts">>),
         {ConnectCall("expr", "", "rp", "rail", "post", <<"sheet">>),
          ConnectCall("expr", "", "rp", "rail", "sheet", <<"bolts">>)}),
    Line(ConnectCall("expr", "", "pg", "post", "ground", <<>>),
         {ConnectCall("expr", "", "rp", "post", "ground", <<>>),
          ConnectCall("expr", "", "pg", "post", "rail", <<>>)}),
    Line(Call("wind", "wind", "assign", "site"), {}),
    Line(Sheet, {[Sheet EXCEPT !.part = "rail"], [Sheet EXCEPT !.case = "wind"],
                 [Sheet EXCEPT !.id = "u"]}),
    Line(Gust, {[Gust EXCEPT !.case = "dead"], [Gust EXCEPT !.wind = "steel"]}),
    Line(Spread, {[Spread EXCEPT !.along = <<2, 2>>], [Spread EXCEPT !.along = <<6>>],
                  [Spread EXCEPT !.source = "gust"]}),
    Line(Push, {[Push EXCEPT !.at = 5], [Push EXCEPT !.case = "wind"], [Push EXCEPT !.case = "other"]}),
    Line(Snow, {[Snow EXCEPT !.start = 6], [Snow EXCEPT !.id = "i"],
                [Snow EXCEPT !.by = "surface", !.source = "load"]}),
    Line(Weight, {[Weight EXCEPT !.part = "sheet"]}),
    Line(CladdingLoad, {[CladdingLoad EXCEPT !.label = "Roof"], [CladdingLoad EXCEPT !.source = "gust"],
                    [CladdingLoad EXCEPT !.by = "authored", !.source = "none"]}),
    Line(CombinationCall("uls", "ultimate", {"dead", "wind", "imp"}),
         {CombinationCall("uls", "serviceability", {"dead"}), CombinationCall("uls", "ultimate", {}),
          CombinationCall("uls", "ultimate", {"snow"})}),
    Line(CombinationCall("sls", "serviceability", {"dead", "live"}), {}),
    Line(Sway, {[Sway EXCEPT !.case = "dead"], [Sway EXCEPT !.combo = "none"],
                [Sway EXCEPT !.named = {"S"}]}),
    Line(Bending, {[Bending EXCEPT !.combos = <<"sls">>], [Bending EXCEPT !.members = <<"post">>]}),
    Line(Buckling, {[Buckling EXCEPT !.combos = <<"uls", "uls">>],
                    [Buckling EXCEPT !.segments = <<AuthoredSegment("g", "P", 0, 5, {})>>],
                    [Buckling EXCEPT !.segments = <<>>, !.members = <<"post">>]}),
    Line(WholeCall, {[WholeCall EXCEPT !.parts = Tail(Frame)], [WholeCall EXCEPT !.parts = Append(Frame, "post")]}),
    Line(Manifested, {[Manifested EXCEPT !.name = "other"]})>>

----
(* A rail held by two braces, at x and at y along it.                      *)
MemberCall(name, axis) ==
    [Call("member", name, "assign", name) EXCEPT
        !.kind = "member", !.axis = axis, !.section = "c100", !.material = "c100's steel"]
Catalogue(op) ==
    [Call(op, "c100", "assign", "c100") EXCEPT !.material = "steel", !.also = "c100's steel"]
JointCall(id, from, to, plate) ==
    [Call("joint", id, "assign", plate) EXCEPT
        !.connection = id, !.from = from, !.to = to, !.also = plate, !.kind = "connector"]
BraceCall(brace, joint, foot, at) ==
    [Call("restraint", "", "expr", "") EXCEPT
        !.part = "rail", !.brace = brace, !.connection = joint, !.anchorage = <<foot>>,
        !.anchored = TRUE, !.at = at]
Boundary(end, joint) ==
    [Call("boundary", "", "expr", "") EXCEPT !.part = "rail", !.connection = joint, !.atEnd = end]
Uniform == [Call("uniform", "", "expr", "q") EXCEPT !.part = "rail", !.source = "load"]
Derivation == [Call("member stability", "", "expr", "none") EXCEPT
                !.combos = <<"uls">>, !.members = <<"rail">>]
Braced == <<"ground", "rail", "brace", "tie", "sheet", "plate", "gusset">>

BracedDesign(x, y, mended) == <<
    Line(PartCall("ground", "ground"), {}),
    Line(Catalogue("ensure"), {Catalogue("catalogue")}),
    Line([MemberCall("rail", "R") EXCEPT !.length = 6],
         {[Call("member part", "rail", "assign", "rail") EXCEPT !.kind = "member"]}),
    Line([Catalogue("ensure") EXCEPT !.name = "again"], {[Catalogue("ensure") EXCEPT !.of = "new"]}),
    Line(MemberCall("brace", "B"), {MemberCall("brace", "R")}),
    Line([Call("member part", "tie", "assign", "tie") EXCEPT !.kind = "member"], {}),
    Line(PartCall("sheet", "surface"), {}),
    Line(ConnectCall("assign", "sr", "sr", "sheet", "rail", <<>>), {}),
    Line(JointCall("rb", "rail", "brace", "plate"), {JointCall("rb", "rail", "sheet", "plate")}),
    Line(JointCall("rt", "rail", "tie", "gusset"), {}),
    Line(ConnectCall("assign", "bg", "bg", "brace", "ground", <<>>), {}),
    Line(ConnectCall("assign", "tg", "tg", "tie", "ground", <<>>), {}),
    Line(ConnectCall("assign", "rg", "rg", "rail", "ground", <<>>),
         {ConnectCall("assign", "rg", "rg", "ground", "rail", <<>>)}),
    Line(BraceCall("brace", "rb", "bg", x),
         {BraceCall("brace", "rb", "tg", x), [BraceCall("brace", "rb", "bg", x) EXCEPT !.anchorage = <<>>],
          [BraceCall("brace", "rb", "bg", x) EXCEPT !.anchorage = <<>>, !.anchored = FALSE],
          [BraceCall("brace", "rb", "bg", x) EXCEPT !.id = "held"]}),
    Line(BraceCall("tie", "rt", "tg", y), {}),
    Line(Boundary(TRUE, "rg"), {Boundary(FALSE, "rg"), Boundary(TRUE, "tg")}),
    Line(Sheet, {}), Line(Uniform, {[Uniform EXCEPT !.end = 3], [Uniform EXCEPT !.source = "none"]}),
    Line(CombinationCall("uls", "ultimate", {"dead"}), {})>>
    \o mended \o
    <<Line([WholeCall EXCEPT !.parts = Braced], {}), Line(Manifested, {})>>

Derive == <<Line(Derivation, {[Derivation EXCEPT !.members = <<"rail", "rail">>],
                            [Derivation EXCEPT !.members = <<"rail", "brace">>],
                            [Derivation EXCEPT !.members = <<"tie">>]})>>

\* Segments that name restraints, and stability directions.
Held(id, member, from, to) == AuthoredSegment(id, member, from, to, {<<"restraint", "rb", "">>})
Author == <<
    Line([Push EXCEPT !.part = "rail"], {}),
    Line([Sway EXCEPT !.named = {}, !.directions =
              <<[id |-> "x", combo |-> "uls", case |-> "imp", nhf |-> "uls"]>>],
         {[Sway EXCEPT !.named = {}, !.combo = "none", !.directions =
              <<[id |-> "x", combo |-> "uls", case |-> "imp", nhf |-> "uls"]>>],
          [Sway EXCEPT !.named = {}, !.directions =
              <<[id |-> "x", combo |-> "uls", case |-> "dead", nhf |-> "uls"]>>]}),
    Line([Derivation EXCEPT !.members = <<>>, !.segments = <<Held("g", "R", 0, 6)>>],
         {[Derivation EXCEPT !.members = <<>>, !.segments = <<Held("g", "R", 0, 3), Held("h", "B", 0, 6)>>],
          [Derivation EXCEPT !.members = <<>>, !.segments = <<Held("g", "B", 0, 6)>>],
          [Derivation EXCEPT !.members = <<>>, !.segments = <<>>]})>>

Positions == {0, 1, 2, 3, 5, 6}
PlainScript == <<"read", 0, 0>>
MCScripted ==
    {PlainScript, <<"derived", 2, 5>>, <<"authored", 2, 4>>} \cup ({"placed"} \X Positions \X Positions)
MCStatements(d) ==
    IF d = PlainScript THEN PlainDesign
    ELSE BracedDesign(d[2], d[3], IF d[1] = "authored" THEN Author ELSE Derive)
MCMaxDepartures == [d \in MCScripted |-> IF d[1] = "placed" THEN 0 ELSE IF d[1] = "derived" THEN 2 ELSE 1]
=============================================================================
