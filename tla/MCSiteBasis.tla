---------------------------- MODULE MCSiteBasis ----------------------------
(***************************************************************************)
(* Small tables, a map of regions and some sites for SiteBasis.            *)
(***************************************************************************)
EXTENDS SiteBasis, TLC

\* Two regions side by side, the first with a hole, and a point in each, one in the
\* hole and one far away.
Square(x, y, side) == <<<<x, y>>, <<x + side, y>>, <<x + side, y + side>>, <<x, y + side>>>>
MCOverlay ==
    <<[area |-> <<Square(0, 0, 40), Square(20, 20, 6)>>, region |-> "A"],
      [area |-> <<Square(40, 0, 40)>>, region |-> "C"]>>
Inland == <<4, 4>>
Coast == <<44, 4>>
Lake == <<23, 23>>
Abroad == <<200, 4>>

MCRecurrences == {25, 100, 500}
MCRegionSpeed(region, years) ==
    (IF region = "A" THEN 1 ELSE 2) + IF years = 25 THEN 1 ELSE IF years = 100 THEN 2 ELSE 3
MCLevelRecurrence(level) == IF level = "1" THEN 100 ELSE IF level = "2" THEN 500 ELSE 1000
MCStarterDirection(region, k) == IF region = "C" \/ k \in {2, 6} THEN 2 ELSE 1
MCStarterClimate(region) == IF region = "C" THEN 2 ELSE 1
MCHeightRows == {3, 7, 15}
MCHeightFactor(h) == IF h = 3 THEN 1 ELSE IF h = 7 THEN 3 ELSE 4

\* A typed table favours the south; one from a place favours its own side.
MCMultiplier(c, source, k) ==
    IF source.method = "typed" THEN IF k = 4 THEN 2 ELSE 1
    ELSE IF c = "Mt" /\ k = (source.of.at[1] \div 20) % 8 THEN 2 ELSE 1
MCTerrainAt(p) == p

NoTables == [c \in Components |-> <<>>]
Blank == [kind |-> "blank", years |-> 0]
Sited ==
    [addressed |-> FALSE, at |-> Inland, placed |-> <<>>, size |-> 6, bearing |-> 0,
     oriented |-> FALSE, region |-> "A", regionReviewed |-> FALSE, tableReviewed |-> FALSE,
     level |-> "2", probability |-> Blank, height |-> 3, direction |-> <<>>, climate |-> <<>>,
     tables |-> NoTables, single |-> [c \in {"Ms", "Mt"} |-> 1], evidence |-> <<>>,
     terrain |-> <<>>, confirmed |-> FALSE, version |-> "own", 
     envelope |-> [enclosure |-> "enclosed", policy |-> "worst_available_credible",
                   capacity |-> "unverified", doors |-> "normally_closed"]]

\* Texts: another version of the tables, a malformed probability, a region of
\* another country, with and without values of its own, and a site in the lake with
\* evidence that is not explained.
MCUploads ==
    {[Sited EXCEPT !.version = "other"],
     [Sited EXCEPT !.probability = [kind |-> "malformed", years |-> 0]],
     [Sited EXCEPT !.region = "NZ"],
     [Sited EXCEPT !.region = "NZ", !.direction = <<[k \in Sectors |-> 1]>>, !.climate = <<1>>],
     [Sited EXCEPT !.evidence = <<[method |-> "local", of |-> OwnInputs(Sited), adopted |-> {},
                                   reviewed |-> FALSE, reason |-> FALSE]>>],
     [Sited EXCEPT !.at = Lake, !.placed = <<Inland>>, !.bearing = 22, !.height = 10,
                   !.probability = [kind |-> "given", years |-> 200],
                   !.tables = [NoTables EXCEPT !["Mz"] = <<[method |-> "typed"]>>]]}
MCPlaces == {Inland, Coast}

\* A site that has its terrain, as most have when they are opened.
Settled == [Sited EXCEPT !.addressed = TRUE, !.terrain = <<Inland>>]
MCNewSite == Settled

\* Texts are saved first; of the saves, lookups and patches two are under way at once.
Busy == Cardinality({e \in Workbenches : sending[e] # <<>>}) + Cardinality(asking)
        + Cardinality({p \in Patchers : patching[p] # <<>>})
Early(site) ==
    site.direction = <<>> \/ \E c \in Components : site.tables[c] = <<[method |-> "typed"]>>
SiteBounds ==
    /\ Busy <= 2
    /\ edits = MaxSiteEdits => asking = {} /\ \A p \in Patchers : patching[p] = <<>>
    /\ edits > 1 =>
          /\ \A e \in Workbenches : Loaded(e) => ~Early(Draft(e))
          /\ file.state = "stored" => file \notin {Stored(u) : u \in Uploads} /\ ~Early(file.site)
          /\ file.state # "unreadable"
=============================================================================
