--------------------------- MODULE MCWindActions ---------------------------
(***************************************************************************)
(* Buildings, sites and settings for WindActions.                          *)
(***************************************************************************)
EXTENDS WindActions, MCSiteBasis

Member(id, role, x1, z1, x2, z2, y, length) ==
    [id |-> id, role |-> role, x1 |-> x1, z1 |-> z1, x2 |-> x2, z2 |-> z2, y |-> y,
     length |-> length, skewed |-> FALSE, base |-> "pinned"]

\* One frame of a building: the roof rises by rise over half the width.
PortalAt(n, y, x, half, rise, slope, eave) ==
    {Member(<<"left", n>>, "column", x - half, 0, x - half, eave, y, eave),
     Member(<<"right", n>>, "column", x + half, 0, x + half, eave, y, eave),
     Member(<<"up", n>>, "rafter", x - half, eave, x, eave + rise, y, slope),
     Member(<<"down", n>>, "rafter", x, eave + rise, x + half, eave, y, slope)}
Shed(ys, x, half, rise, slope, eave) ==
    [members |-> UNION {PortalAt(n, ys[n], x, half, rise, slope, eave) : n \in DOMAIN ys},
     axisless |-> {}, complete |-> TRUE, portalNames |-> TRUE,
     joints |-> UNION {{{<<"ground", 0>>, <<"left", n>>}, {<<"ground", 0>>, <<"right", n>>},
                        {<<"left", n>>, <<"up", n>>}, {<<"up", n>>, <<"down", n>>}} : n \in DOMAIN ys},
     grounded |-> {<<"ground", 0>>}]
Plus(b, extra) == [b EXCEPT !.members = @ \cup extra]
Purlin(n) == Member(<<"purlin", n>>, "purlin", 0, 15, 0, 15, 0, 16)
Jamb(y) == Member(<<"jamb", y>>, "opening", 3, 0, 3, 8, y, 8)

\* Small and wide, low and steep; with receivers and openings in an end and in the
\* middle; beside X = 0; half of its roof level; and others that are not loaded, in all
\* the ways there are.
Small == Shed(<<0, 16>>, 0, 12, 5, 13, 10)
Wide == Shed(<<0, 12, 40>>, 0, 24, 7, 25, 16)
MCSheds ==
    {Small, Wide, Plus(Wide, {Jamb(12)}), Plus(Small, {Jamb(0), Purlin(1), Purlin(2)}),
     Plus(Wide, {Jamb(0), Jamb(40), Purlin(1)}),
     [Small EXCEPT !.members = {IF m.id[1] = "up" THEN [m EXCEPT !.z1 = 15, !.length = 12] ELSE m : m \in @}],
     Plus(Shed(<<4, 16, 28, 40>>, 40, 12, 5, 13, 12), {Purlin(1)}),
     Shed(<<0>>, 0, 12, 5, 13, 10), Shed(<<0, 16>>, 0, 4, 3, 5, 10),
     Shed(<<0, 16>>, 0, 12, 5, 13, 100),
     [Small EXCEPT !.members = {[m EXCEPT !.skewed = m.id = <<"up", 1>>] : m \in @}],
     [Small EXCEPT !.axisless = {"column"}], [Small EXCEPT !.axisless = {"purlin"}],
     Plus(Small, {Member(<<"post", 1>>, "column", 0, 0, 0, 10, 0, 10)}),
     [Small EXCEPT !.complete = FALSE, !.joints = @ \ {{<<"up", 1>>, <<"down", 1>>}}],
     [Small EXCEPT !.portalNames = FALSE],
     [Small EXCEPT !.members = {[m EXCEPT !.base = IF m.id[1] = "left" THEN "fixed" ELSE @] : m \in @}]}

MCPitch(rise, half) ==
    IF half <= 0 THEN 90 ELSE IF 4 * rise > 2 * half THEN 37 ELSE IF 3 * rise > half THEN 23 ELSE 16

Enclosed(policy, capacity, doors) ==
    [enclosure |-> "enclosed", policy |-> policy, capacity |-> capacity, doors |-> doors]
Walled(e) == Seeded([Settled EXCEPT !.envelope = e])
MCWindSites ==
    {<<>>, <<Walled(Settled.envelope)>>,
     <<[Walled(Enclosed("verified_only", "verified", "normally_closed")) EXCEPT !.bearing = 22]>>,
     <<[Walled(Enclosed("worst_available_credible", "verified", "normally_open")) EXCEPT !.confirmed = TRUE]>>,
     <<Walled(Enclosed("verified_only", "unverified", "normally_closed"))>>,
     <<Walled([Settled.envelope EXCEPT !.enclosure = "open_sided"])>>,
     <<[Walled(Settled.envelope) EXCEPT !.version = "other"]>>}

Given(id, role, profile) == ActionCase(<<id>>, role, profile)
Gravity == Given("G", Permanent, "none")
Settings(own) ==
    [portal |-> TRUE, pack |-> TRUE, cases |-> own, points |-> {}]
GravityOnly == Settings({Gravity})
NorthWind == <<"wind", "ultimate", "x", 1>>
MCWindSettings ==
    {GravityOnly, Settings({Gravity, RoofCase, Given("Qc", Imposed, "concentrated")}),
     Settings({}), Settings({Gravity, Given("W", NorthWind, "none")}),
     Settings({Gravity, ActionCase(NorthWind, Imposed, "concentrated")}),
     Settings({Gravity, Given("Q", Imposed, "distributed")}),
     [Settings({Gravity}) EXCEPT !.pack = FALSE],
     [Settings({Gravity}) EXCEPT !.points = {<<"roof-concentrated", <<"purlin", 1>>>>}],
     [Settings({Gravity, Given("W", NorthWind, "none"), Given("Q", Imposed, "distributed")})
        EXCEPT !.portal = FALSE],
     [Settings({Gravity, Given("H", Permanent, "none")}) EXCEPT !.portal = FALSE]}
=============================================================================
