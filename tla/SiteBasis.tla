----------------------------- MODULE SiteBasis -----------------------------
(***************************************************************************)
(* The site of a project: the file tertius_site.py, the wind it stands     *)
(* for, and everyone who writes it.  The site workbench keeps a draft that *)
(* it saves whole; the endpoints for the placement and for the terrain     *)
(* read the file, change one part and write it back; a user may also save  *)
(* the file as text.  Multipliers by sector are computed elsewhere for a   *)
(* place, a size, a bearing, a height and a terrain, arrive some time      *)
(* after they were asked for, and are adopted with a reference to what     *)
(* they were computed for; the calculation calls the reference stale when  *)
(* the site has moved on.                                                  *)
(*                                                                         *)
(* A table of multipliers is represented by where its values come from.    *)
(* Lengths and heights are whole numbers, bearings whole degrees, and an   *)
(* optional value is a sequence of at most one.                            *)
(***************************************************************************)
EXTENDS Integers, Sequences, FiniteSets, FiniteSetsExt

CONSTANTS
    Workbenches,                \* open site workbenches
    Patchers,               \* requests that change one part of the file
    Places, Sizes, Bearings, Heights,
    Regions,                \* the regions of the tables
    Recurrences,            \* the recurrence intervals of the regional table
    RegionSpeed(_, _),      \* V_R of a region and a recurrence interval
    LevelRecurrence(_),     \* the interval of an importance level
    StarterDirection(_, _), \* Md of a region and a sector
    StarterClimate(_),      \* Mc of a region
    HeightRows,             \* heights of the table of terrain multipliers
    HeightFactor(_),        \* Mz,cat at one of them
    Multiplier(_, _, _),    \* the multiplier of a component, a source and a sector
    FineHeights,            \* heights a recorded basis does not keep exactly
    Overlay,                \* features of the map of regions, in order
    TerrainAt(_),           \* the terrain acquired around a place
    Uploads,                \* sites a user saves as text
    NewSite,                \* the definition of a project without the file
    MaxSiteEdits                \* bound on the edits of a behaviour

Components == {"Mz", "Ms", "Mt"}
Sectors == 0..7
Faces == {"front", "right", "back", "left"}

\* What the reference of multipliers records of the site they were computed for.
IsInputs(of) ==
    of = [at |-> of.at, placed |-> of.placed, size |-> of.size, bearing |-> of.bearing,
          height |-> of.height, terrain |-> of.terrain, region |-> of.region]

\* The tables that the evidence of a site names, unless they were typed over, are of
\* what it records.
Sourced(site) ==
    site.evidence # <<>> =>
        LET e == site.evidence[1]
        IN  /\ e.adopted \subseteq Components /\ IsInputs(e.of)
            /\ \A c \in e.adopted :
                  LET t == site.tables[c]
                  IN  t # <<>> /\ t[1].method # "typed" => t[1].method = e.method /\ t[1].of = e.of

\* The parts of a definition, as far as calculations depend on their types.
IsSite(site) ==
    /\ site = [part \in DOMAIN site |-> site[part]]
    /\ {"at", "addressed", "placed", "size", "bearing", "height", "region", "regionReviewed",
        "tableReviewed", "direction", "climate", "tables", "single", "evidence", "terrain"}
          \subseteq DOMAIN site
    /\ site.bearing \in Int /\ site.height \in Int
    /\ site.direction # <<>> => site.direction[1] \in [Sectors -> Int]
    /\ site.climate # <<>> => site.climate[1] \in Int
    /\ site.tables = [c \in Components |-> site.tables[c]]
    /\ site.single["Ms"] \in Int /\ site.single["Mt"] \in Int
    /\ Sourced(site)

\* The tables of the standard have a last row and positive speeds; what texts say of
\* the origin of their multipliers is true.
ASSUME SiteBasisAssumption ==
    /\ Bearings \subseteq Int /\ Heights \subseteq Int
    /\ Recurrences \subseteq Nat /\ \E last \in Recurrences : \A r \in Recurrences : r <= last
    /\ HeightRows \subseteq Nat /\ \E last \in HeightRows : \A r \in HeightRows : r <= last
    /\ \A h \in HeightRows : HeightFactor(h) \in Int
    /\ \A region \in Regions :
          /\ \A r \in Recurrences : RegionSpeed(region, r) \in Nat \ {0}
          /\ StarterClimate(region) \in Int
          /\ \A k \in Sectors : StarterDirection(region, k) \in Int
    /\ \A u \in Uploads \cup {NewSite} : IsSite(u)
    /\ NewSite.region \in Regions

VARIABLES
    file,       \* tertius_site.py of the active project
    draft,      \* draft of each workbench
    sending,    \* its save in flight: what was sent, whether edited since, the answer
    asking,     \* lookups not yet answered, with the draft they began from
    patching,   \* the site each patching request has read
    edits       \* edits so far

siteVars == <<file, draft, sending, asking, patching, edits>>

----
(* Regions.  A ring is a sequence of corners joined by edges along the     *)
(* axes.                                                                   *)

Edges(ring) == {<<ring[i], ring[(i % Len(ring)) + 1]>> : i \in 1..Len(ring)}

\* Rays towards the east cross the ring an odd number of times.
InRing(p, ring) ==
    Cardinality({e \in Edges(ring) :
        (e[1][2] > p[2]) # (e[2][2] > p[2]) /\ p[1] < e[1][1]}) % 2 = 1

InArea(p, area) ==
    area # <<>> /\ InRing(p, area[1]) /\ \A i \in 2..Len(area) : ~InRing(p, area[i])

\* Square of the distance from a point to an edge.
FromEdge(p, e) ==
    LET Off(i) == LET low == Min({e[1][i], e[2][i]})
                      high == Max({e[1][i], e[2][i]})
                  IN  IF p[i] < low THEN low - p[i] ELSE IF p[i] > high THEN p[i] - high ELSE 0
    IN  Off(1) * Off(1) + Off(2) * Off(2)

FromFeature(p, f) == Min({FromEdge(p, e) : e \in UNION {Edges(f.area[i]) : i \in 1..Len(f.area)}})

\* The first feature that holds the point, else the first of the nearest ones
\* within ten kilometres, else none.
LookupRegion(p) ==
    LET holding == {i \in 1..Len(Overlay) : InArea(p, Overlay[i].area)}
        near == {i \in 1..Len(Overlay) : FromFeature(p, Overlay[i]) < 100}
        nearest == {i \in near : \A j \in near :
                       FromFeature(p, Overlay[i]) <= FromFeature(p, Overlay[j])}
    IN  IF holding # {} THEN <<Overlay[Min(holding)].region>>
        ELSE IF near # {} THEN <<Overlay[Min(nearest)].region>>
        ELSE <<>>

----
(* Wind speeds.                                                            *)

\* The tabulated interval, else the next larger one, else the largest.
RegionalSpeed(region, years) ==
    LET larger == {r \in Recurrences : r >= years}
    IN  RegionSpeed(region, IF larger # {} THEN Min(larger) ELSE Max(Recurrences))

\* Between two rows of the table the multiplier is interpolated.
TerrainHeight(h) ==
    LET below == Max({r \in HeightRows : r <= h})
        above == Min({r \in HeightRows : r >= h})
    IN  IF h <= Min(HeightRows) THEN HeightFactor(Min(HeightRows))
        ELSE IF h >= Max(HeightRows) THEN HeightFactor(Max(HeightRows))
        ELSE IF below = above THEN HeightFactor(below)
        ELSE HeightFactor(below)
             + ((h - below) * (HeightFactor(above) - HeightFactor(below))) \div (above - below)

\* The interval an authored probability names: the numerator is not read.
Years(site, given) ==
    IF given # <<>> THEN given[1]
    ELSE IF site.probability.kind = "blank" THEN LevelRecurrence(site.level)
    ELSE site.probability.years

\* A calculation is refused for other tables, a malformed probability and an
\* unknown region.
Calculable(site) ==
    /\ site.version = "own"
    /\ site.probability.kind # "malformed"
    /\ site.region \in Regions

\* The values of a table by sector, and what stands in where there is none.
TableValue(site, c, k) ==
    IF site.tables[c] # <<>> THEN Multiplier(c, site.tables[c][1], k)
    ELSE IF c = "Mz" THEN TerrainHeight(site.height) ELSE site.single[c]

Speed(site, k, given) ==
    RegionalSpeed(site.region, Years(site, given)) * site.climate[1] * site.direction[1][k]
    * TableValue(site, "Mz", k) * TableValue(site, "Ms", k) * TableValue(site, "Mt", k)

Pressure(speed) == speed * speed

\* The first of the sectors with the highest speed.
FastestSector(site, sectors) ==
    LET speed == [k \in sectors |-> Speed(site, k, <<>>)]
    IN  Min({k \in sectors : \A l \in sectors : speed[l] <= speed[k]})

----
(* Faces of the building.                                                  *)

Offset == [front |-> 0, right |-> 90, back |-> 180, left |-> 270]
Apart(a, b) == LET d == ((a - b + 180) % 360) - 180 IN IF d < 0 THEN -d ELSE d
FaceBearing(site, f) == (site.bearing + Offset[f]) % 360
Contributing(site, f) == {k \in Sectors : Apart(45 * k, FaceBearing(site, f)) <= 45}

\* Where the wind on a face pushes the structure.
ActionDirection == [front |-> "+Y", right |-> "-X", back |-> "-Y", left |-> "+X"]

\* The basis of the wind on a face under the given interval, or under the site's.
FaceBasis(site, f, given, event) ==
    LET k == FastestSector(site, Contributing(site, f))
    IN  [face |-> f, sectors |-> Contributing(site, f), sector |-> k,
         years |-> Years(site, given), event |-> event,
         speed |-> Speed(site, k, given), q |-> Pressure(Speed(site, k, given)),
         direction |-> ActionDirection[f],
         reviewed |-> site.regionReviewed /\ site.tableReviewed,
         recomputes |-> site.height \notin FineHeights,
         envelope |-> site.envelope]

----
(* Evidence for the multipliers.                                           *)

OwnInputs(site) ==
    [at |-> site.at, placed |-> IF site.placed # <<>> THEN site.placed[1] ELSE site.at,
     size |-> site.size, bearing |-> site.bearing, height |-> site.height,
     terrain |-> site.terrain, region |-> site.region]

\* A defect: the height is not compared, and the placement only where there is one.
MutStale(site) ==
    /\ site.evidence # <<>>
    /\ LET e == site.evidence[1]
           own == OwnInputs(site)
       IN  \/ e.of.at # own.at
           \/ /\ e.method = "local"
              /\ \/ e.of.terrain # own.terrain
                 \/ site.placed # <<>> /\ e.of.placed # own.placed
                 \/ e.of.size # own.size
                 \/ e.of.bearing # own.bearing

\* What the reference records differs from the site: the location always, the
\* rest when a local analysis recorded it.
Stale(site) ==
    /\ site.evidence # <<>>
    /\ LET e == site.evidence[1]
           own == OwnInputs(site)
       IN  \/ e.of.at # own.at
           \/ /\ e.method = "local"
              /\ \/ e.of.terrain # own.terrain
                 \/ e.of.placed # own.placed
                 \/ e.of.height # own.height
                 \/ e.of.size # own.size
                 \/ e.of.bearing # own.bearing

\* Missing Md and Mc are filled from the tables of the region, as values to review.
Seeded(site) ==
    IF site.direction # <<>> /\ site.climate # <<>> THEN site
    ELSE [site EXCEPT
            !.direction = IF @ # <<>> THEN @
                          ELSE <<[k \in Sectors |-> StarterDirection(site.region, k)]>>,
            !.climate = IF @ # <<>> THEN @ ELSE <<StarterClimate(site.region)>>,
            !.tableReviewed = FALSE]

\* A definition can be parsed when its region is known where it must be filled,
\* and its evidence says what was adopted and why it was accepted.
Valid(site) ==
    /\ site.direction = <<>> \/ site.climate = <<>> => site.region \in Regions
    /\ site.evidence # <<>> =>
          /\ site.evidence[1].adopted # {}
          /\ site.evidence[1].reviewed => site.evidence[1].reason

----
(* The file.                                                               *)

Missing == [state |-> "missing"]
Unreadable == [state |-> "unreadable"]
Stored(site) == [state |-> "stored", site |-> Seeded(site)]

\* What an endpoint finds: nothing when the text cannot be parsed.
FoundSite ==
    IF file.state = "missing" THEN <<Seeded(NewSite)>>
    ELSE IF file.state = "stored" THEN <<file.site>> ELSE <<>>

\* A user saves the file as text, without any calculation.
Upload(u) ==
    /\ edits < MaxSiteEdits /\ edits' = edits + 1
    /\ file' = IF Valid(u) THEN Stored(u) ELSE Unreadable
    /\ UNCHANGED <<draft, sending, asking, patching>>

\* PUT of the placement or of the terrain: read, change one part, calculate, save.
PatchRead(p) ==
    /\ patching[p] = <<>>
    /\ FoundSite # <<>>
    /\ patching' = [patching EXCEPT ![p] = FoundSite]
    /\ UNCHANGED <<file, draft, sending, asking, edits>>

PatchWrite(p, change) ==
    /\ patching[p] # <<>>
    /\ edits < MaxSiteEdits /\ edits' = edits + 1
    /\ patching' = [patching EXCEPT ![p] = <<>>]
    /\ LET site == patching[p][1]
           changed == IF change.part = "placed" THEN [site EXCEPT !.placed = <<change.at>>]
                      ELSE [site EXCEPT !.terrain = <<TerrainAt(change.at)>>]
       IN  file' = IF Calculable(site) THEN Stored(changed) ELSE file
    /\ UNCHANGED <<draft, sending, asking>>

----
(* The workbench.                                                          *)

Loaded(e) == draft[e] # <<>>
Draft(e) == draft[e][1]

\* A new draft: the answer to a save in flight no longer replaces it.
Edit(e, site) ==
    /\ edits < MaxSiteEdits /\ edits' = edits + 1
    /\ draft' = [draft EXCEPT ![e] = <<site>>]
    /\ sending' = [sending EXCEPT ![e] = IF @ = <<>> THEN @ ELSE <<[@[1] EXCEPT !.edited = TRUE]>>]

\* GET of the site, which calculates it too.
Open(e) ==
    /\ ~Loaded(e)
    /\ FoundSite # <<>> /\ Calculable(FoundSite[1])
    /\ draft' = [draft EXCEPT ![e] = FoundSite]
    /\ UNCHANGED <<file, sending, asking, patching, edits>>

TypeBearing(e, b) ==
    /\ Loaded(e) /\ b # Draft(e).bearing
    /\ Edit(e, [Draft(e) EXCEPT !.bearing = b])
    /\ UNCHANGED <<file, asking, patching>>

TypeHeight(e, h) ==
    /\ Loaded(e) /\ h # Draft(e).height
    /\ Edit(e, [Draft(e) EXCEPT !.height = h])
    /\ UNCHANGED <<file, asking, patching>>

\* A table is typed in, or taken away, and the reference to evidence stays.
TypeTable(e, c, t) ==
    /\ Loaded(e) /\ t # Draft(e).tables[c]
    /\ Edit(e, [Draft(e) EXCEPT !.tables[c] = t])
    /\ UNCHANGED <<file, asking, patching>>

\* Another region: its Md and Mc are filled in by the server.
PickRegion(e, r) ==
    /\ Loaded(e) /\ r # Draft(e).region
    /\ Edit(e, [Draft(e) EXCEPT !.region = r, !.direction = <<>>, !.climate = <<>>,
                                !.tableReviewed = FALSE])
    /\ UNCHANGED <<file, asking, patching>>

\* The active model has another size or height: multipliers and evidence go.
SyncModel(e, size, h) ==
    /\ Loaded(e)
    /\ size # Draft(e).size \/ h # Draft(e).height
    /\ Edit(e, [Draft(e) EXCEPT !.size = size, !.height = h, !.evidence = <<>>,
                                !.tables = [c \in Components |-> <<>>]])
    /\ UNCHANGED <<file, asking, patching>>

PickStructure(e, p) ==
    /\ Loaded(e)
    /\ Edit(e, [Draft(e) EXCEPT !.placed = <<p>>])
    /\ UNCHANGED <<file, asking, patching>>

\* An address: its region is looked up, and the answer is put into this draft.
PickAddress(e, p) ==
    /\ Loaded(e)
    /\ \A a \in asking : a.editor # e
    /\ LET moved == [Draft(e) EXCEPT !.at = p, !.addressed = TRUE,
                                     !.placed = IF @ = <<>> THEN <<p>> ELSE @]
       IN  /\ Edit(e, moved)
           /\ asking' = asking \cup {[kind |-> "region", editor |-> e, began |-> moved]}
    /\ UNCHANGED <<file, patching>>

RegionFound(a) ==
    /\ a.kind = "region"
    /\ asking' = asking \ {a}
    /\ LET found == LookupRegion(a.began.at)
       IN  IF found = <<>> THEN UNCHANGED <<draft, sending, edits>>
           ELSE Edit(a.editor, [a.began EXCEPT !.region = found[1], !.regionReviewed = FALSE])
    /\ UNCHANGED <<file, patching>>

\* The terrain of the draft's place is restored, or acquired and attached.
AttachTerrain(e) ==
    /\ Loaded(e)
    /\ Draft(e).terrain # <<TerrainAt(Draft(e).at)>>
    /\ Edit(e, [Draft(e) EXCEPT !.terrain = <<TerrainAt(Draft(e).at)>>])
    /\ UNCHANGED <<file, asking, patching>>

\* Multipliers are asked for the draft as it is: of its terrain, or of the map.
AskMultipliers(e) ==
    /\ Loaded(e)
    /\ \A a \in asking : a.editor # e
    /\ asking' = asking \cup {[kind |-> "multipliers", editor |-> e, began |-> Draft(e)]}
    /\ UNCHANGED <<file, draft, sending, patching, edits>>

\* The answer is adopted into the draft that was there when it was asked for.
\* The map's own terrain multiplier holds for the height it was made for only.
Adopt(a) ==
    /\ a.kind = "multipliers"
    /\ asking' = asking \ {a}
    /\ LET method == IF a.began.terrain # <<>> THEN "local" ELSE "indicative"
           source == [method |-> method, of |-> OwnInputs(a.began)]
           adopted == IF method = "local" \/ a.began.height = 10 THEN Components
                      ELSE {"Ms", "Mt"}
           known == a.began.evidence
           same == /\ known # <<>> /\ known[1].method = method /\ known[1].of = OwnInputs(a.began)
                   /\ known[1].adopted = adopted
       IN  IF same THEN UNCHANGED <<draft, sending, edits>>
           ELSE Edit(a.editor,
                  [a.began EXCEPT
                     !.tables = [c \in Components |-> IF c \in adopted THEN <<source>> ELSE @[c]],
                     !.evidence = <<[method |-> method, of |-> OwnInputs(a.began), adopted |-> adopted,
                                     reviewed |-> FALSE, reason |-> TRUE]>>])
    /\ UNCHANGED <<file, patching>>

\* A lookup fails, or its panel is gone.
LookupFails(a) ==
    /\ asking' = asking \ {a}
    /\ UNCHANGED <<file, draft, sending, patching, edits>>

\* Autosave: the whole draft is sent, one at a time.
Send(e) ==
    /\ Loaded(e) /\ sending[e] = <<>>
    /\ sending' = [sending EXCEPT ![e] = <<[site |-> Draft(e), edited |-> FALSE, answer |-> <<>>]>>]
    /\ UNCHANGED <<file, draft, asking, patching, edits>>

\* PUT of the site: parsed, calculated, then saved.
Serve(e) ==
    /\ sending[e] # <<>> /\ sending[e][1].answer = <<>>
    /\ LET site == sending[e][1].site
           accepted == Valid(site) /\ Calculable(site)
       IN  /\ file' = IF accepted THEN Stored(site) ELSE file
           /\ sending' = [sending EXCEPT ![e] =
                 <<[@[1] EXCEPT !.answer = IF accepted THEN <<"saved">> ELSE <<"refused">>]>>]
    /\ UNCHANGED <<draft, asking, patching, edits>>

\* The saved site becomes the draft unless it was edited since.
Hear(e) ==
    /\ sending[e] # <<>> /\ sending[e][1].answer # <<>>
    /\ sending' = [sending EXCEPT ![e] = <<>>]
    /\ draft' = IF sending[e][1].answer = <<"saved">> /\ ~sending[e][1].edited
                THEN [draft EXCEPT ![e] = <<Seeded(sending[e][1].site)>>] ELSE draft
    /\ UNCHANGED <<file, asking, patching, edits>>

----
SiteInit ==
    /\ file \in {Missing} \cup {Stored(u) : u \in {v \in Uploads : Valid(v)}}
    /\ draft = [e \in Workbenches |-> <<>>]
    /\ sending = [e \in Workbenches |-> <<>>]
    /\ asking = {}
    /\ patching = [p \in Patchers |-> <<>>]
    /\ edits = 0

Change == [part : {"placed", "terrain"}, at : Places]

SiteNext ==
    \/ \E u \in Uploads : Upload(u)
    \/ \E p \in Patchers : PatchRead(p) \/ \E change \in Change : PatchWrite(p, change)
    \/ \E e \in Workbenches :
          \/ Open(e) \/ AttachTerrain(e) \/ AskMultipliers(e) \/ Send(e) \/ Serve(e) \/ Hear(e)
          \/ \E b \in Bearings : TypeBearing(e, b)
          \/ \E h \in Heights : TypeHeight(e, h) \/ \E s \in Sizes : SyncModel(e, s, h)
          \/ \E c \in Components :
                TypeTable(e, c, <<>>) \/ TypeTable(e, c, <<[method |-> "typed"]>>)
          \/ \E r \in Regions : PickRegion(e, r)
          \/ \E p \in Places : PickAddress(e, p) \/ PickStructure(e, p)
    \/ \E a \in asking : RegionFound(a) \/ Adopt(a) \/ LookupFails(a)

SiteSpec == SiteInit /\ [][SiteNext]_siteVars

----
(* Properties.                                                             *)

\* Adopted multipliers of a site whose evidence is not stale were computed for
\* the site as it is now: its place, and for a local analysis also its placement,
\* size, bearing, height and terrain, however edits, late answers, patches and
\* texts interleaved (calculate_site_definition, multiplier_evidence_stale).  A
\* table may have been typed over.  The region is not among what is compared.
FreshEvidenceIsItsOwn ==
    file.state = "stored" /\ file.site.evidence # <<>> /\ ~Stale(file.site) =>
        \A c \in file.site.evidence[1].adopted :
            LET t == file.site.tables[c]
            IN  t # <<>> /\ t[1].method # "typed" =>
                   /\ t[1].of.at = file.site.at
                   /\ t[1].method = "local" =>
                         [t[1].of EXCEPT !.region = file.site.region] = OwnInputs(file.site)

\* Every face takes the fastest wind of the sectors within 45 degrees of it, also
\* for the interval of another event than the one that chose the sector, and no
\* sector is left to none of the faces (building_face_wind_speeds, site_wind_basis).
GovernsAllSectors(site, given) ==
    LET speed == [k \in Sectors |-> Speed(site, k, given)]
    IN  /\ UNION {Contributing(site, f) : f \in Faces} = Sectors
        /\ \A f \in Faces :
              LET governing == FastestSector(site, Contributing(site, f))
              IN  \A k \in Sectors :
                      Apart(45 * k, FaceBearing(site, f)) <= 45 => speed[k] <= speed[governing]
FaceBasisGoverns ==
    file.state = "stored" /\ Calculable(file.site) => GovernsAllSectors(file.site, <<25>>)

SiteIsSound == FreshEvidenceIsItsOwn /\ FaceBasisGoverns
=============================================================================
