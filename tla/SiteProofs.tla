------------------------------ MODULE SiteProofs ------------------------------
(***************************************************************************)
(* Theorems about the site of a project: the GIS service that obtains its  *)
(* evidence (GisCache), for any requests, sources and restarts, the site   *)
(* definition with its wind (SiteBasis), for any workbenches, patches and  *)
(* texts, the checks of the structure that is placed on it                 *)
(* (StructuralChecks), for any frames, and the wind on it (WindActions),   *)
(* for any buildings.                                                      *)
(***************************************************************************)
EXTENDS GisCache, SiteBasis, StructuralChecks, WindActions, CountingLemmas, FiniteSetTheorems,
        SequenceTheorems, TLAPS

(***************************************************************************)
(* The cache.  A file object belongs to the path of the request that made  *)
(* it, and whoever writes a terrain entry writes the id of a manifest.     *)
(***************************************************************************)

\* The request has opened its temporary file, or will open none: it keeps its path.
Settled(r) == fetch[r].state \in {"write", "publish"} \cup Closed

\* What a request has obtained is stored as far as it has come.
Obtained(r) ==
    /\ fetch[r].state \in {"asset", "manifest", "open", "write", "publish"} \cup Replied
          => fetch[r].got \in Evidence
    /\ fetch[r].state = "manifest" => fetch[r].got \in assets
    /\ fetch[r].state \in {"open", "write", "publish"} \cup Replied /\ Path(r) \in Referring
          => fetch[r].got \in manifests

\* A request writes to a file of its own path.
WritesOwn(r) ==
    fetch[r].state \in {"write", "publish"} =>
        /\ fetch[r].holds \in Inquiries
        /\ Settled(fetch[r].holds) /\ Path(fetch[r].holds) = Path(r)

OfPath(f, p) == f # NoFile => f \in Inquiries /\ Settled(f) /\ Path(f) = p
FilesAreOfPaths == \A p \in Paths : OfPath(named[p], p) /\ OfPath(temp[p], p)

\* Nobody is about to write to a file.
Unwritten(f) == \A r \in Inquiries : ~(fetch[r].state = "write" /\ fetch[r].holds = f)

\* Before any restart a terrain file that nobody is about to write to is whole, under
\* either name.
WholeFile(f) == f # NoFile /\ Unwritten(f) => content[f] \in manifests
FilesAreWhole == restarts = 0 => \A p \in Referring : WholeFile(named[p]) /\ WholeFile(temp[p])

\* The types, of the requests, the files and the index.
Fetching == [state : RequestStates, step : Nat \ {0}, holds : Inquiries \cup {NoFile},
             got : Evidence \cup {Empty}]
RequestsType ==
    /\ fetch \in [Inquiries -> Fetching]
    /\ \A r \in Inquiries : fetch[r].step <= Len(Chain[r])
FilesType ==
    /\ named \in [Paths -> Inquiries \cup {NoFile}]
    /\ temp \in [Paths -> Inquiries \cup {NoFile}]
    /\ content \in [Inquiries -> Evidence \cup {Empty, Garbled}]
    /\ sheet \in BOOLEAN /\ sheetLock \in Inquiries \cup {NoFile}
StoreType == assets \subseteq Evidence /\ manifests \subseteq assets
IndexType ==
    /\ index \in {"none", "empty", "whole"}
    /\ sync \in {"none", "running", "built", "exists", "failed"}
    /\ builder \in {"idle", "building", "staged", "swapping", "placed"}
    /\ opening \in BOOLEAN

\* The index is taken away only while a sync is running, and is whole from when the
\* staged one has its name.
IndexIsPlaced ==
    /\ builder # "idle" => sync = "running"
    /\ builder = "placed" => index = "whole"
    /\ sync = "built" => index = "whole"

FetchInv ==
    /\ RequestsType /\ FilesType /\ StoreType
    /\ \A r \in Inquiries : Obtained(r) /\ WritesOwn(r)
    /\ FilesAreOfPaths /\ FilesAreWhole
GisInv == FetchInv /\ IndexType /\ IndexIsPlaced /\ restarts \in 0..MaxRestarts

----
(* Lemmas.                                                                 *)

LEMMA PathType ==
    ASSUME RequestsType, NEW r \in Inquiries
    PROVE  /\ Path(r) \in Paths /\ fetch[r] \in Fetching /\ Chain[r] \in Seq(Paths)
           /\ fetch[r].step \in 1..Len(Chain[r]) /\ Len(Chain[r]) \in Nat
<1>1. Chain[r] \in Seq(Paths)
  BY GisCacheAssumption
<1>2. fetch[r] \in Fetching /\ fetch[r].step \in Nat \ {0} /\ fetch[r].step <= Len(Chain[r])
  BY DEF RequestsType, Fetching
<1>3. Len(Chain[r]) \in Nat /\ fetch[r].step \in 1..Len(Chain[r])
  BY <1>1, <1>2, LenProperties
<1>4. Path(r) \in Paths
  BY <1>1, <1>3, ElementOfSeq DEF Path
<1> QED BY <1>1, <1>2, <1>3, <1>4

\* Only r moves, and the store only grows.
Only(r) ==
    /\ \A q \in Inquiries \ {r} : fetch'[q] = fetch[q]
    /\ assets \subseteq assets' /\ manifests \subseteq manifests'
    /\ Settled(r) => Settled(r)' /\ fetch'[r].step = fetch[r].step

LEMMA OthersKept ==
    ASSUME NEW r \in Inquiries, Only(r), \A q \in Inquiries : Obtained(q) /\ WritesOwn(q)
    PROVE  /\ \A q \in Inquiries \ {r} : Obtained(q)' /\ WritesOwn(q)'
           /\ \A q \in Inquiries : Settled(q) => Settled(q)' /\ Path(q)' = Path(q)
<1>1. \A q \in Inquiries \ {r} : fetch'[q] = fetch[q]
  BY DEF Only
<1>2. ASSUME NEW q \in Inquiries, Settled(q) PROVE Settled(q)' /\ Path(q)' = Path(q)
  BY <1>1, <1>2 DEF Only, Settled, Path
<1>3. ASSUME NEW q \in Inquiries \ {r} PROVE Obtained(q)'
 <2>1. fetch'[q] = fetch[q] /\ Obtained(q) /\ Path(q)' = Path(q)
   BY <1>1 DEF Path
 <2> QED BY <2>1 DEF Only, Obtained
<1>4. ASSUME NEW q \in Inquiries \ {r} PROVE WritesOwn(q)'
 <2>1. fetch'[q] = fetch[q] /\ WritesOwn(q) /\ Path(q)' = Path(q)
   BY <1>1 DEF Path
 <2> QED BY <1>2, <2>1 DEF WritesOwn
<1> QED BY <1>2, <1>3, <1>4

\* The files keep their paths when their requests do.
LEMMA FilesKeepPaths ==
    ASSUME NEW r \in Inquiries, Only(r), \A q \in Inquiries : Obtained(q) /\ WritesOwn(q),
           NEW f, NEW p, OfPath(f, p)
    PROVE  OfPath(f, p)'
  BY OthersKept DEF OfPath

\* Files stay whole when r had nothing to write, whatever else it did.
LEMMA FilesStayWhole ==
    ASSUME NEW r \in Inquiries, Only(r), fetch[r].state # "write", UNCHANGED <<content, restarts>>,
           NEW f, WholeFile(f)
    PROVE  WholeFile(f)'
<1>1. Unwritten(f)' => Unwritten(f)
 <2> SUFFICES ASSUME Unwritten(f)', NEW q \in Inquiries
              PROVE  ~(fetch[q].state = "write" /\ fetch[q].holds = f)
   BY DEF Unwritten
 <2>1. CASE q = r
   BY <2>1
 <2>2. CASE q # r
   BY <2>2 DEF Only, Unwritten
 <2> QED BY <2>1, <2>2
<1> QED BY <1>1 DEF WholeFile, Only

\* A step of r that touches no file.
LEMMA NoFileTouched ==
    ASSUME FetchInv, NEW r \in Inquiries, Only(r), fetch[r].state # "write",
           UNCHANGED <<named, temp, content, restarts>>,
           RequestsType', sheet' \in BOOLEAN, sheetLock' \in Inquiries \cup {NoFile}, StoreType',
           Obtained(r)', WritesOwn(r)'
    PROVE  FetchInv'
<1>1. \A q \in Inquiries : Obtained(q)' /\ WritesOwn(q)'
 <2>1. \A q \in Inquiries \ {r} : Obtained(q)' /\ WritesOwn(q)'
   BY OthersKept DEF FetchInv
 <2> QED BY <2>1
<1>2. FilesAreOfPaths'
  BY FilesKeepPaths DEF FetchInv, FilesAreOfPaths
<1>3. FilesAreWhole'
  BY FilesStayWhole DEF FetchInv, FilesAreWhole
<1>4. FilesType'
  BY DEF FetchInv, FilesType
<1> QED BY <1>1, <1>2, <1>3, <1>4 DEF FetchInv

\* A step of r before it opens its temporary file.
Early == {"look", "read", "drop", "acquire", "sheet", "asset", "manifest"}
Moves(r, t) ==
    /\ t \in Fetching /\ t.step <= Len(Chain[r])
    /\ fetch' = [fetch EXCEPT ![r] = t]

LEMMA MovesOnly ==
    ASSUME RequestsType, NEW r \in Inquiries, NEW t, Moves(r, t),
           assets \subseteq assets', manifests \subseteq manifests',
           fetch[r].state \in Early \cup {"open"} \/ (Settled(r)' /\ t.step = fetch[r].step)
    PROVE  RequestsType' /\ fetch'[r] = t /\ Only(r)
<1>1. fetch \in [Inquiries -> Fetching]
  BY DEF RequestsType
<1>2. fetch'[r] = t /\ \A q \in Inquiries \ {r} : fetch'[q] = fetch[q]
  BY <1>1 DEF Moves
<1>3. RequestsType'
 <2>1. fetch' \in [Inquiries -> Fetching]
   BY <1>1 DEF Moves
 <2>2. ASSUME NEW q \in Inquiries PROVE fetch'[q].step <= Len(Chain[q])
  <3>1. CASE q = r
    BY <1>2, <3>1 DEF Moves
  <3>2. CASE q # r
    BY <1>2, <3>2 DEF RequestsType
  <3> QED BY <3>1, <3>2
 <2> QED BY <2>1, <2>2 DEF RequestsType
<1>4. fetch[r].state \in Early \cup {"open"} => ~Settled(r)
  BY DEF Early, Settled, Closed, Replied
<1> QED BY <1>2, <1>3, <1>4 DEF Only

LEMMA EarlyStep ==
    ASSUME FetchInv, NEW r \in Inquiries, NEW t, Moves(r, t), fetch[r].state \in Early,
           UNCHANGED <<named, temp, content, restarts>>,
           sheet' \in BOOLEAN, sheetLock' \in Inquiries \cup {NoFile},
           assets \subseteq assets', manifests \subseteq manifests', StoreType',
           Obtained(r)', t.state \notin {"write", "publish"}
    PROVE  FetchInv'
<1>0. RequestsType /\ fetch[r].state \in Early \cup {"open"}
  BY DEF FetchInv
<1>1. RequestsType' /\ fetch'[r] = t /\ Only(r)
  BY <1>0, MovesOnly
<1>2. fetch[r].state # "write" /\ WritesOwn(r)'
  BY <1>1 DEF Early, WritesOwn
<1> QED BY <1>1, <1>2, NoFileTouched

LEMMA PassStep ==
    ASSUME FetchInv, NEW r \in Inquiries, NextSource(r), fetch[r].state \in Early,
           UNCHANGED <<named, temp, content, sheet, assets, manifests, restarts>>,
           sheetLock' \in Inquiries \cup {NoFile}
    PROVE  FetchInv'
<1>1. /\ fetch[r] \in Fetching /\ fetch[r].step \in 1..Len(Chain[r]) /\ Len(Chain[r]) \in Nat
      /\ fetch \in [Inquiries -> Fetching] /\ StoreType /\ FilesType
  BY PathType DEF FetchInv, RequestsType
<1> DEFINE t == IF fetch[r].step < Len(Chain[r])
                THEN [fetch[r] EXCEPT !.step = @ + 1, !.state = "look"]
                ELSE [fetch[r] EXCEPT !.state = "failed"]
<1>2. fetch' = [fetch EXCEPT ![r] = t]
  BY <1>1 DEF NextSource
<1>3. t \in Fetching /\ t.step <= Len(Chain[r]) /\ t.state \in {"look", "failed"}
 <2>1. "look" \in RequestStates /\ "failed" \in RequestStates
   BY DEF RequestStates, Closed
 <2>2. CASE fetch[r].step < Len(Chain[r])
  <3>1. t = [fetch[r] EXCEPT !.step = fetch[r].step + 1, !.state = "look"]
    BY <2>2
  <3>2. fetch[r].step + 1 \in Nat \ {0} /\ fetch[r].step + 1 <= Len(Chain[r])
    BY <1>1, <2>2
  <3>3. [fetch[r] EXCEPT !.step = fetch[r].step + 1] \in Fetching
    BY <1>1, <3>2 DEF Fetching
  <3>4. t \in Fetching /\ t.state = "look" /\ t.step = fetch[r].step + 1
    BY <1>1, <2>1, <3>1, <3>3 DEF Fetching
  <3> QED BY <3>2, <3>4
 <2>3. CASE ~(fetch[r].step < Len(Chain[r]))
  <3>1. t = [fetch[r] EXCEPT !.state = "failed"]
    BY <2>3
  <3> QED BY <1>1, <2>1, <3>1 DEF Fetching
 <2> QED BY <2>2, <2>3
<1>4. fetch'[r] = t
  BY <1>1, <1>2
<1> HIDE DEF t
<1>5. Obtained(r)'
  BY <1>3, <1>4 DEF Obtained, Replied
<1>6. sheet' \in BOOLEAN /\ StoreType'
  BY <1>1 DEF FilesType, StoreType
<1> QED BY <1>2, <1>3, <1>5, <1>6, EarlyStep DEF Moves

\* r goes on to another state, before or instead of obtaining anything.
LEMMA GotoStep ==
    ASSUME FetchInv, NEW r \in Inquiries, NEW state, Goto(r, state),
           state \in {"look", "read", "drop", "acquire", "sheet", "failed"}, fetch[r].state \in Early,
           UNCHANGED <<named, temp, content, sheet, assets, manifests, restarts>>,
           sheetLock' \in Inquiries \cup {NoFile}
    PROVE  FetchInv'
<1>1. /\ fetch[r] \in Fetching /\ fetch[r].step <= Len(Chain[r])
      /\ fetch \in [Inquiries -> Fetching] /\ StoreType /\ FilesType
  BY DEF FetchInv, RequestsType
<1> DEFINE t == [fetch[r] EXCEPT !.state = state]
<1>2. fetch' = [fetch EXCEPT ![r] = t]
  BY <1>1 DEF Goto
<1>3. state \in RequestStates
  BY DEF RequestStates, Early, Closed
<1>4. t \in Fetching /\ t.step <= Len(Chain[r]) /\ t.state = state
  BY <1>1, <1>3 DEF Fetching
<1>5. fetch'[r] = t
  BY <1>1, <1>2
<1> HIDE DEF t
<1>6. Obtained(r)'
  BY <1>4, <1>5 DEF Obtained, Replied, Early
<1>7. sheet' \in BOOLEAN /\ StoreType' /\ t.state \notin {"write", "publish"}
  BY <1>1, <1>4 DEF FilesType, StoreType, Early
<1> QED BY <1>2, <1>4, <1>6, <1>7, EarlyStep DEF Moves

LEMMA ReadStep ==
    ASSUME FetchInv, NEW r \in Inquiries, Read(r), UNCHANGED restarts
    PROVE  FetchInv'
<1>1. /\ fetch[r] \in Fetching /\ fetch[r].step <= Len(Chain[r]) /\ Path(r) \in Paths
      /\ fetch \in [Inquiries -> Fetching] /\ StoreType /\ FilesType
  BY PathType DEF FetchInv, RequestsType
<1>2. fetch[r].state \in Early
  BY DEF Read, Is, Early
<1>3. CASE Readable(Path(r))
 <2> DEFINE e == content[named[Path(r)]]
            t == [fetch[r] EXCEPT !.state = "hit", !.got = e]
 <2>1. fetch' = [fetch EXCEPT ![r] = t]
   BY <1>1, <1>3 DEF Read
 <2>2. e \in Evidence /\ (Path(r) \in Referring => e \in manifests)
   BY <1>1, <1>3 DEF Readable, StoreType
 <2>3. "hit" \in RequestStates
   BY DEF RequestStates, Closed, Replied
 <2>4. /\ t \in Fetching /\ t.step <= Len(Chain[r]) /\ t.state = "hit" /\ t.got = e
       /\ t.step = fetch[r].step
   BY <1>1, <2>2, <2>3 DEF Fetching
 <2>5. fetch'[r] = t /\ manifests' = manifests
   BY <1>1, <2>1 DEF Read
 <2> HIDE DEF t, e
 <2>6. Path(r)' = Path(r)
   BY <2>4, <2>5 DEF Path
 <2>7. Obtained(r)'
   BY <2>2, <2>4, <2>5, <2>6 DEF Obtained
 <2>8. UNCHANGED <<named, temp, content, sheet, sheetLock, assets, manifests>>
   BY DEF Read
 <2>9. sheet' \in BOOLEAN /\ sheetLock' \in Inquiries \cup {NoFile} /\ StoreType'
   BY <1>1, <2>8 DEF FilesType, StoreType
 <2> QED BY <1>2, <2>1, <2>4, <2>7, <2>8, <2>9, EarlyStep DEF Moves
<1>4. CASE ~Readable(Path(r))
 <2> DEFINE state == IF Path(r) \in Dropping THEN "drop" ELSE "acquire"
 <2>1. Goto(r, state)
   BY <1>4 DEF Read, Goto
 <2>2. state \in {"look", "read", "drop", "acquire", "sheet", "failed"}
   OBVIOUS
 <2> HIDE DEF state
 <2>3. UNCHANGED <<named, temp, content, sheet, sheetLock, assets, manifests>>
   BY DEF Read
 <2>4. sheetLock' \in Inquiries \cup {NoFile}
   BY <1>1, <2>3 DEF FilesType
 <2> QED BY <1>2, <2>1, <2>2, <2>3, <2>4, GotoStep
<1> QED BY <1>3, <1>4

LEMMA ObtainStep ==
    ASSUME FetchInv, NEW r \in Inquiries, NEW e \in Evidence, Obtain(r, e), UNCHANGED restarts
    PROVE  FetchInv'
<1>1. /\ fetch[r] \in Fetching /\ fetch[r].step <= Len(Chain[r]) /\ Path(r) \in Paths
      /\ fetch \in [Inquiries -> Fetching] /\ StoreType /\ FilesType
  BY PathType DEF FetchInv, RequestsType
<1>2. fetch[r].state \in Early
  BY DEF Obtain, Asking, Is, Early
<1> DEFINE state == IF Path(r) \in Referring THEN "asset" ELSE "open"
           t == [fetch[r] EXCEPT !.got = e, !.state = state]
<1>3. fetch' = [fetch EXCEPT ![r] = t]
  BY <1>1 DEF Obtain
<1>4. state \in RequestStates
  BY DEF RequestStates
<1>5. /\ t \in Fetching /\ t.step <= Len(Chain[r]) /\ t.state = state /\ t.got = e
      /\ t.step = fetch[r].step
  BY <1>1, <1>4 DEF Fetching
<1>6. fetch'[r] = t
  BY <1>1, <1>3
<1> HIDE DEF t
<1>7. Path(r)' = Path(r)
  BY <1>5, <1>6 DEF Path
<1>8. Obtained(r)'
  BY <1>5, <1>6, <1>7 DEF Obtained, Replied
<1>9. UNCHANGED <<named, temp, content, assets, manifests>>
  BY DEF Obtain
<1>10. sheet' \in BOOLEAN /\ sheetLock' \in Inquiries \cup {NoFile} /\ StoreType'
  BY <1>1, <1>9 DEF FilesType, StoreType, Obtain, SheetAfter, LeaveSheet
<1>11. t.state \notin {"write", "publish"}
  BY <1>5
<1> QED BY <1>2, <1>3, <1>5, <1>8, <1>9, <1>10, <1>11, EarlyStep DEF Moves

LEMMA PlaceStep ==
    ASSUME FetchInv, NEW r \in Inquiries, PlaceAsset(r) \/ PlaceManifest(r), UNCHANGED restarts
    PROVE  FetchInv'
<1>1. /\ fetch[r] \in Fetching /\ fetch[r].step <= Len(Chain[r])
      /\ fetch \in [Inquiries -> Fetching] /\ StoreType /\ FilesType /\ Obtained(r)
  BY DEF FetchInv, RequestsType
<1>2. fetch[r].state \in Early /\ fetch[r].got \in Evidence
  BY <1>1 DEF PlaceAsset, PlaceManifest, Is, Early, Obtained
<1>3. UNCHANGED <<named, temp, content, sheet, sheetLock>>
  BY DEF PlaceAsset, PlaceManifest
<1>4. sheet' \in BOOLEAN /\ sheetLock' \in Inquiries \cup {NoFile}
  BY <1>1, <1>3 DEF FilesType
<1> DEFINE T(state) == [fetch[r] EXCEPT !.state = state]
<1>5. ASSUME NEW state \in RequestStates, Goto(r, state)
      PROVE  /\ Moves(r, T(state)) /\ T(state).state = state /\ T(state).got = fetch[r].got
             /\ fetch'[r] = T(state)
  BY <1>1, <1>5 DEF Fetching, Moves, Goto
<1>6. CASE PlaceAsset(r)
 <2>1. Goto(r, "manifest") /\ "manifest" \in RequestStates
   BY <1>6 DEF PlaceAsset, RequestStates
 <2>2. /\ Moves(r, T("manifest")) /\ T("manifest").state = "manifest"
       /\ T("manifest").got = fetch[r].got /\ fetch'[r] = T("manifest")
   BY <1>5, <2>1
 <2> HIDE DEF T
 <2>3. assets' = assets \cup {fetch[r].got} /\ manifests' = manifests
   BY <1>6 DEF PlaceAsset
 <2>4. StoreType'
   BY <1>1, <1>2, <2>3 DEF StoreType
 <2>5. Obtained(r)'
   BY <1>2, <2>2, <2>3 DEF Obtained, Replied
 <2> QED BY <1>2, <1>3, <1>4, <2>2, <2>3, <2>4, <2>5, EarlyStep
<1>7. CASE PlaceManifest(r)
 <2>1. Goto(r, "open") /\ "open" \in RequestStates
   BY <1>7 DEF PlaceManifest, RequestStates
 <2>2. /\ Moves(r, T("open")) /\ T("open").state = "open"
       /\ T("open").got = fetch[r].got /\ fetch'[r] = T("open")
   BY <1>5, <2>1
 <2> HIDE DEF T
 <2>3. manifests' = manifests \cup {fetch[r].got} /\ assets' = assets /\ fetch[r].got \in assets
   BY <1>1, <1>7 DEF PlaceManifest, Obtained, Is
 <2>4. StoreType'
   BY <1>1, <2>3 DEF StoreType
 <2>5. Obtained(r)'
   BY <1>2, <2>2, <2>3 DEF Obtained, Replied
 <2> QED BY <1>2, <1>3, <1>4, <2>2, <2>3, <2>4, <2>5, EarlyStep
<1> QED BY <1>6, <1>7

\* Names lead to the files that had them, or to none.
LEMMA Renamed ==
    ASSUME FetchInv, NEW r \in Inquiries, Only(r), fetch[r].state # "write",
           UNCHANGED <<content, restarts>>,
           \A p \in Paths : /\ named'[p] \in {NoFile, named[p], temp[p]}
                            /\ temp'[p] \in {NoFile, named[p], temp[p]}
    PROVE  FilesAreOfPaths' /\ FilesAreWhole'
<1>1. \A p \in Paths : OfPath(named[p], p) /\ OfPath(temp[p], p) /\ OfPath(NoFile, p)
  BY DEF FetchInv, FilesAreOfPaths, OfPath
<1>2. FilesAreOfPaths'
 <2> SUFFICES ASSUME NEW p \in Paths PROVE OfPath(named[p], p)' /\ OfPath(temp[p], p)'
   BY DEF FilesAreOfPaths
 <2>1. ASSUME NEW f, OfPath(f, p) PROVE OfPath(f, p)'
   BY <2>1, FilesKeepPaths DEF FetchInv
 <2>2. ASSUME NEW f \in {NoFile, named[p], temp[p]} PROVE OfPath(f, p)'
   BY <1>1, <2>1
 <2>3. \A f \in {NoFile, named[p], temp[p]} : f # NoFile =>
           f \in Inquiries /\ Settled(f)' /\ Path(f)' = p
   BY <2>2 DEF OfPath
 <2> QED BY <2>3 DEF OfPath
<1>3. FilesAreWhole'
 <2> SUFFICES ASSUME restarts = 0, NEW p \in Referring
              PROVE  WholeFile(named[p])' /\ WholeFile(temp[p])'
   BY DEF FilesAreWhole
 <2>1. p \in Paths
   BY GisCacheAssumption
 <2>2. WholeFile(named[p]) /\ WholeFile(temp[p]) /\ WholeFile(NoFile)
   BY DEF FetchInv, FilesAreWhole, WholeFile
 <2>3. ASSUME NEW f \in {NoFile, named[p], temp[p]} PROVE WholeFile(f)'
  <3>1. WholeFile(f)
    BY <2>2
  <3> QED BY <3>1, FilesStayWhole
 <2>4. \A f \in {NoFile, named[p], temp[p]} :
           f # NoFile /\ Unwritten(f)' => content'[f] \in manifests'
   BY <2>3 DEF WholeFile
 <2>5. \A f \in {NoFile, named[p], temp[p]} : Unwritten(f)' =
           \A q \in Inquiries : ~(fetch'[q].state = "write" /\ fetch'[q].holds = f)
   BY DEF Unwritten
 <2> QED BY <2>1, <2>4, <2>5 DEF WholeFile, Unwritten
<1> QED BY <1>2, <1>3

LEMMA DropStep ==
    ASSUME FetchInv, NEW r \in Inquiries, Drop(r), UNCHANGED restarts
    PROVE  FetchInv'
<1>1. /\ fetch[r] \in Fetching /\ fetch[r].step <= Len(Chain[r]) /\ Path(r) \in Paths
      /\ fetch \in [Inquiries -> Fetching] /\ StoreType /\ FilesType /\ RequestsType
  BY PathType DEF FetchInv, RequestsType
<1> DEFINE t == [fetch[r] EXCEPT !.state = "acquire"]
<1>2. fetch' = [fetch EXCEPT ![r] = t] /\ fetch[r].state = "drop"
  BY <1>1 DEF Drop, Goto, Is
<1>3. "acquire" \in RequestStates
  BY DEF RequestStates
<1>4. t \in Fetching /\ t.step <= Len(Chain[r]) /\ t.state = "acquire"
  BY <1>1, <1>3 DEF Fetching
<1>5. UNCHANGED <<temp, content, sheet, sheetLock, assets, manifests>>
  BY DEF Drop
<1> HIDE DEF t
<1>6. Moves(r, t) /\ fetch[r].state \in Early \cup {"open"}
  BY <1>2, <1>4 DEF Moves, Early
<1>7. RequestsType' /\ fetch'[r] = t /\ Only(r)
  BY <1>1, <1>5, <1>6, MovesOnly
<1>8. FilesType' /\ StoreType'
  BY <1>1, <1>5 DEF FilesType, StoreType, Drop
<1>9. FilesAreOfPaths' /\ FilesAreWhole'
 <2>1. \A p \in Paths : /\ named'[p] \in {NoFile, named[p], temp[p]}
                        /\ temp'[p] \in {NoFile, named[p], temp[p]}
   BY <1>1, <1>5 DEF FilesType, Drop
 <2> QED BY <1>2, <1>5, <1>7, <2>1, Renamed
<1>10. Obtained(r)' /\ WritesOwn(r)'
  BY <1>4, <1>7 DEF Obtained, WritesOwn, Replied
<1>11. \A q \in Inquiries \ {r} : Obtained(q)' /\ WritesOwn(q)'
  BY <1>7, OthersKept DEF FetchInv
<1> QED BY <1>7, <1>8, <1>9, <1>10, <1>11 DEF FetchInv

LEMMA OpenStep ==
    ASSUME FetchInv, NEW r \in Inquiries, OpenTemp(r), UNCHANGED restarts
    PROVE  FetchInv'
<1>1. /\ fetch[r] \in Fetching /\ fetch[r].step <= Len(Chain[r]) /\ Path(r) \in Paths
      /\ fetch \in [Inquiries -> Fetching] /\ StoreType /\ FilesType /\ RequestsType
      /\ Obtained(r)
  BY PathType DEF FetchInv, RequestsType
<1>0. PICK p, opened : p = Path(r) /\ opened = IF temp[p] = NoFile THEN r ELSE temp[p]
  OBVIOUS
<1> DEFINE t == [fetch[r] EXCEPT !.holds = opened, !.state = "write"]
<1>2. /\ temp' = [temp EXCEPT ![p] = opened] /\ content' = [content EXCEPT ![opened] = Empty]
      /\ fetch' = [fetch EXCEPT ![r] = t] /\ fetch[r].state = "open"
      /\ UNCHANGED <<named, sheet, sheetLock, assets, manifests>>
  BY <1>0, <1>1 DEF OpenTemp, Is
<1>3. opened \in Inquiries
  BY <1>0, <1>1 DEF FilesType
<1>4. "write" \in RequestStates
  BY DEF RequestStates
<1>5. /\ t \in Fetching /\ t.step <= Len(Chain[r]) /\ t.state = "write" /\ t.holds = opened
      /\ t.got = fetch[r].got /\ t.step = fetch[r].step
  BY <1>1, <1>3, <1>4 DEF Fetching
<1> HIDE DEF t
<1>6. Moves(r, t) /\ fetch[r].state \in Early \cup {"open"}
  BY <1>2, <1>5 DEF Moves
<1>7. RequestsType' /\ fetch'[r] = t /\ Only(r)
  BY <1>1, <1>2, <1>6, MovesOnly
<1>8. Path(r)' = p /\ Settled(r)' /\ fetch'[r] = t
  BY <1>0, <1>5, <1>7 DEF Path, Settled
<1>9. FilesType' /\ StoreType'
  BY <1>1, <1>2, <1>3 DEF FilesType, StoreType
<1>10. ASSUME NEW f, NEW q \in Paths, OfPath(f, q) PROVE OfPath(f, q)'
  BY <1>7, <1>10, FilesKeepPaths DEF FetchInv
<1>11. OfPath(opened, p)'
 <2>1. CASE temp[p] = NoFile
   BY <1>0, <1>3, <1>8, <2>1 DEF OfPath
 <2>2. CASE temp[p] # NoFile
  <3>1. OfPath(opened, p)
    BY <1>0, <1>1, <2>2 DEF FetchInv, FilesAreOfPaths
  <3> QED BY <1>0, <1>1, <1>10, <3>1
 <2> QED BY <2>1, <2>2
<1>12. FilesAreOfPaths'
 <2> SUFFICES ASSUME NEW q \in Paths PROVE OfPath(named[q], q)' /\ OfPath(temp[q], q)'
   BY DEF FilesAreOfPaths
 <2>1. OfPath(named[q], q) /\ OfPath(temp[q], q)
   BY DEF FetchInv, FilesAreOfPaths
 <2>2. OfPath(named[q], q)'
  <3>1. PICK f : f = named[q]
    OBVIOUS
  <3>2. OfPath(f, q)'
    BY <1>10, <2>1, <3>1
  <3> QED BY <1>2, <3>1, <3>2 DEF OfPath
 <2>3. OfPath(temp[q], q)'
  <3>1. PICK f : f = temp[q]
    OBVIOUS
  <3>2. OfPath(f, q)'
    BY <1>10, <2>1, <3>1
  <3>3. temp'[q] = IF q = p THEN opened ELSE f
    BY <1>0, <1>1, <1>2, <3>1 DEF FilesType
  <3> QED BY <1>11, <3>2, <3>3 DEF OfPath
 <2> QED BY <2>2, <2>3
<1>13. ASSUME NEW f, f = opened \/ WholeFile(f), f \in Inquiries \cup {NoFile} PROVE WholeFile(f)'
 <2> SUFFICES ASSUME f # NoFile, Unwritten(f)' PROVE content'[f] \in manifests'
   BY DEF WholeFile
 <2>1. f # opened
   BY <1>5, <1>8 DEF Unwritten
 <2>2. Unwritten(f)
   BY <1>2, <1>7 DEF Unwritten, Only
 <2> QED BY <1>1, <1>2, <1>13, <2>1, <2>2 DEF WholeFile, FilesType
<1>14. FilesAreWhole'
 <2> SUFFICES ASSUME restarts = 0, NEW q \in Referring
              PROVE  WholeFile(named[q])' /\ WholeFile(temp[q])'
   BY DEF FilesAreWhole
 <2>1. q \in Paths /\ WholeFile(named[q]) /\ WholeFile(temp[q])
   BY GisCacheAssumption DEF FetchInv, FilesAreWhole
 <2>2. PICK f, g : f = named[q] /\ g = temp[q]
   OBVIOUS
 <2>3. f \in Inquiries \cup {NoFile} /\ g \in Inquiries \cup {NoFile}
   BY <1>1, <2>1, <2>2 DEF FilesType
 <2>4. WholeFile(f)' /\ WholeFile(g)' /\ WholeFile(opened)'
   BY <1>3, <1>13, <2>1, <2>2, <2>3
 <2>5. named'[q] = f /\ temp'[q] = IF q = p THEN opened ELSE g
   BY <1>0, <1>1, <1>2, <2>1, <2>2 DEF FilesType
 <2> QED BY <2>4, <2>5 DEF WholeFile, Unwritten
<1>15. Obtained(r)'
  BY <1>0, <1>1, <1>2, <1>5, <1>8 DEF Obtained
<1>16. WritesOwn(r)'
  BY <1>3, <1>5, <1>8, <1>11, GisCacheAssumption DEF WritesOwn, OfPath
<1>17. \A q \in Inquiries \ {r} : Obtained(q)' /\ WritesOwn(q)'
  BY <1>7, OthersKept DEF FetchInv
<1> QED BY <1>7, <1>9, <1>12, <1>14, <1>15, <1>16, <1>17 DEF FetchInv

LEMMA WriteStep ==
    ASSUME FetchInv, NEW r \in Inquiries, WriteTemp(r), UNCHANGED restarts
    PROVE  FetchInv'
<1>1. /\ fetch[r] \in Fetching /\ fetch[r].step <= Len(Chain[r]) /\ Path(r) \in Paths
      /\ fetch \in [Inquiries -> Fetching] /\ StoreType /\ FilesType /\ RequestsType
      /\ Obtained(r) /\ WritesOwn(r)
  BY PathType DEF FetchInv, RequestsType
<1>2. PICK opened, text :
          /\ opened = fetch[r].holds
          /\ text \in {fetch[r].got, Garbled} /\ (Path(r) \in Referring => text = fetch[r].got)
          /\ content' = [content EXCEPT ![opened] = text]
  BY DEF WriteTemp
<1> DEFINE t == [fetch[r] EXCEPT !.state = "publish"]
<1>3. /\ fetch' = [fetch EXCEPT ![r] = t] /\ fetch[r].state = "write"
      /\ UNCHANGED <<named, temp, sheet, sheetLock, assets, manifests>>
  BY <1>1 DEF WriteTemp, Is, Goto
<1>4. "publish" \in RequestStates
  BY DEF RequestStates
<1>5. /\ t \in Fetching /\ t.step <= Len(Chain[r]) /\ t.state = "publish" /\ t.holds = opened
      /\ t.got = fetch[r].got /\ t.step = fetch[r].step
  BY <1>1, <1>2, <1>4 DEF Fetching
<1>6. fetch'[r] = t /\ Moves(r, t)
  BY <1>1, <1>3, <1>5 DEF Moves
<1> HIDE DEF t
<1>7. Settled(r)' /\ Path(r)' = Path(r)
  BY <1>5, <1>6 DEF Path, Settled
<1>8. RequestsType' /\ Only(r)
  BY <1>1, <1>3, <1>5, <1>6, <1>7, MovesOnly
<1>9. opened \in Inquiries /\ Settled(opened) /\ Path(opened) = Path(r)
  BY <1>1, <1>2, <1>3 DEF WritesOwn
<1>10. FilesType' /\ StoreType'
 <2>1. text \in Evidence \cup {Empty, Garbled}
   BY <1>1, <1>2 DEF Fetching
 <2> QED BY <1>1, <1>2, <1>3, <1>9, <2>1 DEF FilesType, StoreType
<1>11. FilesAreOfPaths'
  BY <1>3, <1>8, FilesKeepPaths DEF FetchInv, FilesAreOfPaths
<1>12. ASSUME NEW q \in Referring, NEW f, OfPath(f, q), WholeFile(f) PROVE WholeFile(f)'
 <2> SUFFICES ASSUME f # NoFile, Unwritten(f)' PROVE content'[f] \in manifests
   BY <1>3 DEF WholeFile
 <2>1. f \in Inquiries /\ Path(f) = q
   BY <1>12 DEF OfPath
 <2>2. CASE f = opened
  <3>1. text = fetch[r].got /\ text \in manifests
    BY <1>1, <1>2, <1>3, <1>9, <2>1, <2>2 DEF Obtained
  <3> QED BY <1>1, <1>2, <2>1, <2>2, <3>1 DEF FilesType
 <2>3. CASE f # opened
  <3>1. Unwritten(f)
    BY <1>2, <1>8, <2>3 DEF Unwritten, Only
  <3> QED BY <1>1, <1>2, <1>12, <2>1, <2>3, <3>1 DEF FilesType, WholeFile
 <2> QED BY <2>2, <2>3
<1>13. FilesAreWhole'
 <2> SUFFICES ASSUME restarts = 0, NEW q \in Referring
              PROVE  WholeFile(named[q])' /\ WholeFile(temp[q])'
   BY DEF FilesAreWhole
 <2>1. PICK f, g : f = named[q] /\ g = temp[q]
   OBVIOUS
 <2>2. /\ OfPath(f, q) /\ OfPath(g, q) /\ WholeFile(f) /\ WholeFile(g)
   BY <2>1, GisCacheAssumption DEF FetchInv, FilesAreOfPaths, FilesAreWhole
 <2>3. WholeFile(f)' /\ WholeFile(g)'
   BY <1>12, <2>2
 <2> QED BY <1>3, <2>1, <2>3 DEF WholeFile, Unwritten
<1>14. Obtained(r)'
  BY <1>1, <1>3, <1>5, <1>6, <1>7 DEF Obtained
<1>15. WritesOwn(r)'
 <2>1. Settled(opened)' /\ Path(opened)' = Path(opened)
   BY <1>8, <1>9, OthersKept DEF FetchInv
 <2> QED BY <1>5, <1>6, <1>7, <1>9, <2>1 DEF WritesOwn
<1>16. \A q \in Inquiries \ {r} : Obtained(q)' /\ WritesOwn(q)'
  BY <1>8, OthersKept DEF FetchInv
<1> QED BY <1>8, <1>10, <1>11, <1>13, <1>14, <1>15, <1>16 DEF FetchInv

LEMMA PublishStep ==
    ASSUME FetchInv, NEW r \in Inquiries, Publish(r), UNCHANGED restarts
    PROVE  FetchInv'
<1>1. /\ fetch[r] \in Fetching /\ fetch[r].step <= Len(Chain[r]) /\ Path(r) \in Paths
      /\ fetch \in [Inquiries -> Fetching] /\ StoreType /\ FilesType /\ RequestsType
      /\ Obtained(r)
  BY PathType DEF FetchInv, RequestsType
<1> DEFINE state == IF temp[Path(r)] = NoFile THEN "error" ELSE "fetched"
           t == [fetch[r] EXCEPT !.state = state]
<1>2. /\ fetch' = [fetch EXCEPT ![r] = t] /\ fetch[r].state = "publish"
      /\ UNCHANGED <<content, sheet, sheetLock, assets, manifests>>
  BY <1>1 DEF Publish, Is, Goto
<1>3. state \in RequestStates
  BY DEF RequestStates, Closed, Replied
<1>4. /\ t \in Fetching /\ t.step <= Len(Chain[r]) /\ t.state \in {"error", "fetched"}
      /\ t.got = fetch[r].got /\ t.step = fetch[r].step
  BY <1>1, <1>3 DEF Fetching
<1>5. fetch'[r] = t /\ Moves(r, t)
  BY <1>1, <1>2, <1>4 DEF Moves
<1> HIDE DEF t
<1>6. Settled(r)' /\ Path(r)' = Path(r)
  BY <1>4, <1>5 DEF Path, Settled, Closed, Replied
<1>7. RequestsType' /\ Only(r)
  BY <1>1, <1>2, <1>4, <1>5, <1>6, MovesOnly
<1>8. FilesType' /\ StoreType'
  BY <1>1, <1>2 DEF FilesType, StoreType, Publish
<1>9. FilesAreOfPaths' /\ FilesAreWhole'
 <2>1. \A p \in Paths : /\ named'[p] \in {NoFile, named[p], temp[p]}
                        /\ temp'[p] \in {NoFile, named[p], temp[p]}
   BY <1>1 DEF FilesType, Publish
 <2> QED BY <1>2, <1>7, <2>1, Renamed
<1>10. Obtained(r)'
  BY <1>1, <1>2, <1>4, <1>5, <1>6 DEF Obtained, Replied
<1>11. WritesOwn(r)'
  BY <1>4, <1>5 DEF WritesOwn
<1>12. \A q \in Inquiries \ {r} : Obtained(q)' /\ WritesOwn(q)'
  BY <1>7, OthersKept DEF FetchInv
<1> QED BY <1>7, <1>8, <1>9, <1>10, <1>11, <1>12 DEF FetchInv

LEMMA LockSteps ==
    ASSUME FetchInv, NEW r \in Inquiries, UNCHANGED restarts,
           Pass(r) \/ Find(r) \/ TakeSheetLock(r) \/ Refuse(r) \/ Invalid(r)
    PROVE  FetchInv'
<1>1. sheetLock \in Inquiries \cup {NoFile}
  BY DEF FetchInv, FilesType
<1>2. CASE Pass(r)
  BY <1>1, <1>2, PassStep DEF Pass, Is, Early
<1>3. CASE Find(r)
 <2>1. Goto(r, "acquire") \/ Goto(r, "read")
   BY <1>3 DEF Find
 <2>2. fetch[r].state \in Early /\ sheetLock' = sheetLock
       /\ UNCHANGED <<named, temp, content, sheet, assets, manifests>>
   BY <1>3 DEF Find, Is, Early
 <2>3. CASE Goto(r, "acquire")
   BY <1>1, <2>2, <2>3, GotoStep
 <2>4. CASE Goto(r, "read")
   BY <1>1, <2>2, <2>4, GotoStep
 <2> QED BY <2>1, <2>3, <2>4
<1>4. CASE TakeSheetLock(r)
  BY <1>4, GotoStep DEF TakeSheetLock, Is, Early
<1>5. CASE Refuse(r)
  BY <1>1, <1>5, PassStep DEF Refuse, Asking, Is, Early, LeaveSheet
<1>6. CASE Invalid(r)
  BY <1>1, <1>6, GotoStep DEF Invalid, Asking, Is, Early, LeaveSheet
<1> QED BY <1>2, <1>3, <1>4, <1>5, <1>6

LEMMA FetchSteps ==
    ASSUME FetchInv, NEW r \in Inquiries, FetchStep(r), UNCHANGED restarts
    PROVE  FetchInv'
<1>1. CASE Pass(r) \/ Find(r) \/ TakeSheetLock(r) \/ Refuse(r) \/ Invalid(r)
  BY <1>1, LockSteps
<1>2. CASE Read(r)
  BY <1>2, ReadStep
<1>3. CASE Drop(r)
  BY <1>3, DropStep
<1>4. CASE \E e \in Evidence : Obtain(r, e)
  BY <1>4, ObtainStep
<1>5. CASE PlaceAsset(r) \/ PlaceManifest(r)
  BY <1>5, PlaceStep
<1>6. CASE OpenTemp(r)
  BY <1>6, OpenStep
<1>7. CASE WriteTemp(r)
  BY <1>7, WriteStep
<1>8. CASE Publish(r)
  BY <1>8, PublishStep
<1> QED BY <1>1, <1>2, <1>3, <1>4, <1>5, <1>6, <1>7, <1>8 DEF FetchStep

LEMMA AddressSteps ==
    ASSUME IndexType, IndexIsPlaced, AddressStep
    PROVE  IndexType' /\ IndexIsPlaced'
  BY DEF IndexType, IndexIsPlaced, AddressStep, StartSync, SyncFails, StageIndex, RemoveIndex,
         ReplaceIndex, ReportSync, StatusLooks, StatusOpens

LEMMA RestartKeeps ==
    ASSUME GisInv, Restart
    PROVE  GisInv'
<1>1. /\ fetch \in [Inquiries -> Fetching] /\ StoreType /\ FilesType /\ RequestsType
      /\ \A r \in Inquiries : Obtained(r) /\ WritesOwn(r)
  BY DEF GisInv, FetchInv, RequestsType
<1>2. ASSUME NEW r \in Inquiries
      PROVE  /\ fetch'[r] \in Fetching /\ fetch'[r].step = fetch[r].step
             /\ fetch'[r].got = fetch[r].got
             /\ \/ fetch'[r] = fetch[r] /\ fetch[r].state \in Closed \cup {"look"}
                \/ fetch'[r].state = "lost"
 <2>1. fetch[r] \in Fetching
   BY <1>1
 <2>2. "lost" \in RequestStates
   BY DEF RequestStates, Closed
 <2>3. \/ fetch'[r] = fetch[r] /\ fetch[r].state \in Closed \cup {"look"}
       \/ fetch'[r] = [fetch[r] EXCEPT !.state = "lost"]
   BY DEF Restart, Is
 <2> QED BY <2>1, <2>2, <2>3 DEF Fetching
<1>3. fetch' \in [Inquiries -> Fetching]
 <2>1. fetch' = [r \in Inquiries |-> fetch'[r]]
   BY DEF Restart
 <2> QED BY <1>2, <2>1
<1>4. RequestsType'
  BY <1>1, <1>2, <1>3 DEF RequestsType
<1>5. UNCHANGED <<named, temp, content, sheet, assets, manifests, index>>
  BY DEF Restart
<1>6. FilesType' /\ StoreType'
  BY <1>1, <1>5 DEF FilesType, StoreType, Restart
<1>7. ASSUME NEW r \in Inquiries PROVE Path(r)' = Path(r) /\ (Settled(r) => Settled(r)')
  BY <1>2 DEF Path, Settled, Closed
<1>8. ASSUME NEW r \in Inquiries PROVE Obtained(r)' /\ WritesOwn(r)'
 <2>1. Obtained(r) /\ Path(r)' = Path(r)
   BY <1>1, <1>7
 <2>2. CASE fetch'[r].state = "lost"
   BY <2>2 DEF Obtained, WritesOwn, Replied
 <2>3. CASE fetch'[r] = fetch[r] /\ fetch[r].state \in Closed \cup {"look"}
  <3>1. fetch[r].state \notin {"write", "publish"}
    BY <2>3 DEF Closed, Replied
  <3> QED BY <1>5, <2>1, <2>3, <3>1 DEF Obtained, WritesOwn
 <2> QED BY <1>2, <2>2, <2>3
<1>9. FilesAreOfPaths'
  BY <1>5, <1>7 DEF GisInv, FetchInv, FilesAreOfPaths, OfPath
<1>10. restarts' \in 0..MaxRestarts /\ restarts' # 0
  BY GisCacheAssumption DEF GisInv, Restart
<1>11. FilesAreWhole'
  BY <1>10 DEF FilesAreWhole
<1>12. IndexType' /\ IndexIsPlaced'
  BY <1>5 DEF GisInv, IndexType, IndexIsPlaced, Restart
<1> QED BY <1>4, <1>6, <1>8, <1>9, <1>10, <1>11, <1>12 DEF GisInv, FetchInv

LEMMA GisInitially == GisInit => GisInv
<1> SUFFICES ASSUME GisInit PROVE GisInv
  OBVIOUS
<1>1. ASSUME NEW r \in Inquiries
      PROVE  fetch[r] \in Fetching /\ fetch[r].step = 1 /\ fetch[r].state \in {"look", "unmade"}
 <2>1. "look" \in RequestStates /\ "unmade" \in RequestStates
   BY DEF RequestStates, Closed
 <2> QED BY <2>1 DEF GisInit, Fetching
<1>2. fetch \in [Inquiries -> Fetching]
 <2>1. fetch = [r \in Inquiries |-> fetch[r]]
   BY DEF GisInit
 <2> QED BY <1>1, <2>1
<1>3. \A r \in Inquiries : 1 <= Len(Chain[r])
 <2> SUFFICES ASSUME NEW r \in Inquiries PROVE 1 <= Len(Chain[r])
   OBVIOUS
 <2>1. Chain[r] \in Seq(Paths) /\ Chain[r] # <<>>
   BY GisCacheAssumption
 <2> QED BY <2>1, LenProperties, EmptySeq
<1>4. RequestsType
  BY <1>1, <1>2, <1>3 DEF RequestsType
<1>5. \A r \in Inquiries : Obtained(r) /\ WritesOwn(r)
  BY <1>1 DEF Obtained, WritesOwn, Replied
<1>6. FilesType /\ StoreType
  BY DEF GisInit, FilesType, StoreType
<1>7. \A p \in Paths : named[p] = NoFile /\ temp[p] = NoFile
  BY DEF GisInit
<1>8. FilesAreOfPaths /\ FilesAreWhole
  BY <1>7, GisCacheAssumption DEF FilesAreOfPaths, FilesAreWhole, OfPath, WholeFile
<1>9. IndexType /\ IndexIsPlaced /\ restarts \in 0..MaxRestarts
 <2>1. restarts = 0 /\ MaxRestarts \in Nat
   BY GisCacheAssumption DEF GisInit
 <2>2. restarts \in 0..MaxRestarts
   BY <2>1
 <2> QED BY <2>2 DEF GisInit, IndexType, IndexIsPlaced
<1> QED BY <1>4, <1>5, <1>6, <1>8, <1>9 DEF GisInv, FetchInv

LEMMA GisStep == GisInv /\ [GisNext]_gisVars => GisInv'
<1> SUFFICES ASSUME GisInv, [GisNext]_gisVars PROVE GisInv'
  OBVIOUS
<1>1. ASSUME NEW r \in Inquiries, FetchStep(r), UNCHANGED <<addressVars, restarts>> PROVE GisInv'
 <2>1. FetchInv'
   BY <1>1, FetchSteps DEF GisInv
 <2> QED BY <1>1, <2>1 DEF GisInv, addressVars, IndexType, IndexIsPlaced
<1>2. ASSUME UNCHANGED <<fetchVars, restarts>> PROVE FetchInv'
  BY <1>2 DEF GisInv, FetchInv, fetchVars, RequestsType, FilesType, StoreType, Obtained, WritesOwn,
              FilesAreOfPaths, FilesAreWhole, OfPath, WholeFile, Unwritten, Settled, Path
<1>3. CASE AddressStep /\ UNCHANGED <<fetchVars, restarts>>
  BY <1>2, <1>3, AddressSteps DEF GisInv
<1>4. CASE Restart
  BY <1>4, RestartKeeps
<1>5. CASE UNCHANGED gisVars
  BY <1>2, <1>5 DEF gisVars, addressVars, GisInv, IndexType, IndexIsPlaced
<1> QED BY <1>1, <1>3, <1>4, <1>5 DEF GisNext

LEMMA GisInvariant == GisSpec => []GisInv
  BY GisInitially, GisStep, PTL DEF GisSpec

LEMMA GisShows == GisInv => GisTypeOK /\ EntriesAreServable /\ SyncedIsSearchable
<1> SUFFICES ASSUME GisInv PROVE GisTypeOK /\ EntriesAreServable /\ SyncedIsSearchable
  OBVIOUS
<1>1. GisTypeOK
  BY DEF GisInv, FetchInv, RequestsType, FilesType, StoreType, IndexType, Fetching, GisTypeOK
<1>2. AnswersAreServable
  BY DEF GisInv, FetchInv, StoreType, Obtained, AnswersAreServable, Servable
<1>3. QuietEntriesAreWhole
  BY DEF GisInv, FetchInv, FilesAreWhole, WholeFile, Unwritten, QuietEntriesAreWhole, Is
<1>4. SyncedIsSearchable
  BY DEF GisInv, IndexIsPlaced, SyncedIsSearchable, Searchable
<1> QED BY <1>1, <1>2, <1>3, <1>4 DEF EntriesAreServable

----
(* Theorems.                                                               *)

\* Every part of the service's state has its type, whatever threads do and
\* wherever the process is stopped.
THEOREM GisTypeCorrect == GisSpec => []GisTypeOK
  BY GisInvariant, GisShows, PTL

\* What requests answer was given by a source and can be served; a terrain entry
\* that no request is writing names a stored evidence until the first restart,
\* although requests for one place share its temporary file.
THEOREM EntriesCorrect == GisSpec => []EntriesAreServable
  BY GisInvariant, GisShows, PTL

\* A completed sync can be searched: neither a status request that opens the index
\* during the swap nor a stop takes it away.
THEOREM SyncedCorrect == GisSpec => []SyncedIsSearchable
  BY GisInvariant, GisShows, PTL

----
(***************************************************************************)
(* The site.  Whatever holds a definition (the file, drafts, saves in      *)
(* flight, lookups, patches) holds one whose evidence is that of its       *)
(* tables.                                                                 *)
(***************************************************************************)


\* A parsed definition has the values that calculations read.
Complete(site) == IsSite(site) /\ site.direction # <<>> /\ site.climate # <<>>

IsSave(save) ==
    /\ save = [site |-> save.site, edited |-> save.edited, answer |-> save.answer]
    /\ IsSite(save.site)
    /\ save.answer = <<"saved">> => save.site.region \in Regions
IsDraft(d) == d # <<>> => IsSite(d[1])

FileInv == file.state = "stored" => Complete(file.site)
DraftsInv ==
    /\ draft = [e \in Workbenches |-> draft[e]] /\ \A e \in Workbenches : IsDraft(draft[e])
    /\ sending = [e \in Workbenches |-> sending[e]]
    /\ \A e \in Workbenches : sending[e] # <<>> => IsSave(sending[e][1])
LookupsInv == \A a \in asking : IsSite(a.began)
PatchesInv ==
    /\ patching = [p \in Patchers |-> patching[p]]
    /\ \A p \in Patchers : IsDraft(patching[p])
SiteInv == FileInv /\ DraftsInv /\ LookupsInv /\ PatchesInv

LEMMA PartSet ==
    ASSUME NEW s, IsSite(s), NEW v
    PROVE  /\ IsSite([s EXCEPT !.placed = v]) /\ IsSite([s EXCEPT !.terrain = v])
           /\ v \in Int => IsSite([s EXCEPT !.bearing = v]) /\ IsSite([s EXCEPT !.height = v])
           /\ IsSite([s EXCEPT !.region = v, !.regionReviewed = FALSE])
           /\ IsSite([s EXCEPT !.region = v, !.direction = <<>>, !.climate = <<>>,
                               !.tableReviewed = FALSE])
<1>1. IsSite([s EXCEPT !.placed = v]) /\ IsSite([s EXCEPT !.terrain = v])
  BY DEF IsSite, Sourced
<1>2. v \in Int => IsSite([s EXCEPT !.bearing = v]) /\ IsSite([s EXCEPT !.height = v])
  BY DEF IsSite, Sourced
<1>3. IsSite([s EXCEPT !.region = v, !.regionReviewed = FALSE])
  BY DEF IsSite, Sourced
<1>4. IsSite([s EXCEPT !.region = v, !.direction = <<>>, !.climate = <<>>,
                       !.tableReviewed = FALSE])
  BY DEF IsSite, Sourced
<1> QED BY <1>1, <1>2, <1>3, <1>4

LEMMA Moved ==
    ASSUME NEW s, IsSite(s), NEW v
    PROVE  IsSite([s EXCEPT !.at = v, !.addressed = TRUE,
                            !.placed = IF @ = <<>> THEN <<v>> ELSE @])
  BY DEF IsSite, Sourced

LEMMA Synced ==
    ASSUME NEW s, IsSite(s), NEW size, NEW h \in Int
    PROVE  IsSite([s EXCEPT !.size = size, !.height = h, !.evidence = <<>>,
                            !.tables = [c \in Components |-> <<>>]])
  BY DEF IsSite, Sourced

LEMMA TableTyped ==
    ASSUME NEW s, IsSite(s), NEW c \in Components, NEW t \in {<<>>, <<[method |-> "typed"]>>}
    PROVE  IsSite([s EXCEPT !.tables[c] = t])
<1> DEFINE u == [s EXCEPT !.tables[c] = t]
<1>1. t # <<>> => t[1].method = "typed"
  OBVIOUS
<1>2. u = [s EXCEPT !.tables = [s.tables EXCEPT ![c] = t]]
  BY DEF IsSite
<1>3. /\ u.tables = [s.tables EXCEPT ![c] = t] /\ u.evidence = s.evidence
      /\ u.bearing = s.bearing /\ u.height = s.height /\ u.direction = s.direction
      /\ u.climate = s.climate /\ u.single = s.single /\ DOMAIN u = DOMAIN s
      /\ u = [part \in DOMAIN s |-> u[part]]
  BY <1>2 DEF IsSite
<1>4. s.tables = [d \in Components |-> s.tables[d]] /\ Sourced(s)
  BY DEF IsSite
<1> HIDE DEF u
<1>5. u.tables = [d \in Components |-> IF d = c THEN t ELSE s.tables[d]]
  BY <1>3, <1>4
<1>6. Sourced(u)
  BY <1>1, <1>3, <1>4, <1>5 DEF Sourced
<1>7. u.tables = [d \in Components |-> u.tables[d]]
  BY <1>5
<1>8. IsSite(u)
  BY <1>3, <1>6, <1>7 DEF IsSite
<1> QED BY <1>8 DEF u

LEMMA Adopted ==
    ASSUME NEW s, IsSite(s), NEW method, NEW adopted \in SUBSET Components
    PROVE  IsSite([s EXCEPT
                     !.tables = [c \in Components |->
                                    IF c \in adopted
                                    THEN <<[method |-> method, of |-> OwnInputs(s)]>> ELSE @[c]],
                     !.evidence = <<[method |-> method, of |-> OwnInputs(s), adopted |-> adopted,
                                     reviewed |-> FALSE, reason |-> TRUE]>>])
<1>1. PICK of, e, tables :
          /\ of = OwnInputs(s)
          /\ e = [method |-> method, of |-> of, adopted |-> adopted, reviewed |-> FALSE,
                  reason |-> TRUE]
          /\ tables = [c \in Components |->
                          IF c \in adopted THEN <<[method |-> method, of |-> of]>> ELSE s.tables[c]]
  OBVIOUS
<1> DEFINE u == [s EXCEPT !.tables = tables, !.evidence = <<e>>]
<1>2. IsInputs(of)
  BY <1>1 DEF OwnInputs, IsInputs
<1>3. /\ u.tables = tables /\ u.evidence = <<e>>
      /\ u.bearing = s.bearing /\ u.height = s.height /\ u.direction = s.direction
      /\ u.climate = s.climate /\ u.single = s.single /\ DOMAIN u = DOMAIN s
      /\ u = [part \in DOMAIN s |-> u[part]]
  BY DEF IsSite
<1> HIDE DEF u
<1>4. ASSUME NEW c \in adopted
      PROVE  /\ u.tables[c] = <<[method |-> method, of |-> of]>>
             /\ u.tables[c][1].method = method /\ u.tables[c][1].of = of
  BY <1>1, <1>3
<1>5. u.evidence[1] = e /\ e.method = method /\ e.of = of /\ e.adopted = adopted
  BY <1>1, <1>3
<1>6. Sourced(u)
  BY <1>2, <1>4, <1>5 DEF Sourced
<1>7. IsSite(u)
  BY <1>1, <1>3, <1>6 DEF IsSite
<1> QED BY <1>1, <1>7 DEF u

LEMMA SeededIsComplete ==
    ASSUME NEW s, IsSite(s), s.direction = <<>> \/ s.climate = <<>> => s.region \in Regions
    PROVE  Complete(Seeded(s))
<1>1. CASE s.direction # <<>> /\ s.climate # <<>>
  BY <1>1 DEF Seeded, Complete
<1>2. CASE ~(s.direction # <<>> /\ s.climate # <<>>)
 <2>1. PICK d, c :
           /\ d = IF s.direction # <<>> THEN s.direction
                  ELSE <<[k \in Sectors |-> StarterDirection(s.region, k)]>>
           /\ c = IF s.climate # <<>> THEN s.climate ELSE <<StarterClimate(s.region)>>
   OBVIOUS
 <2>2. s.region \in Regions
   BY <1>2
 <2>3. d # <<>> /\ d[1] \in [Sectors -> Int]
  <3>1. CASE s.direction # <<>>
    BY <2>1, <3>1 DEF IsSite
  <3>2. CASE s.direction = <<>>
   <4>1. [k \in Sectors |-> StarterDirection(s.region, k)] \in [Sectors -> Int]
     BY <2>2, SiteBasisAssumption
   <4> QED BY <2>1, <3>2, <4>1
  <3> QED BY <3>1, <3>2
 <2>4. c # <<>> /\ c[1] \in Int
  <3>1. CASE s.climate # <<>>
    BY <2>1, <3>1 DEF IsSite
  <3>2. CASE s.climate = <<>>
    BY <2>1, <2>2, <3>2, SiteBasisAssumption
  <3> QED BY <3>1, <3>2
 <2> DEFINE u == [s EXCEPT !.direction = d, !.climate = c, !.tableReviewed = FALSE]
 <2>5. Seeded(s) = u
   BY <1>2, <2>1 DEF Seeded
 <2>6. /\ u.tables = s.tables /\ u.evidence = s.evidence
       /\ u.bearing = s.bearing /\ u.height = s.height /\ u.direction = d
       /\ u.climate = c /\ u.single = s.single /\ DOMAIN u = DOMAIN s
       /\ u = [part \in DOMAIN s |-> u[part]]
   BY DEF IsSite
 <2> HIDE DEF u
 <2>7. IsSite(u)
   BY <2>3, <2>4, <2>6 DEF IsSite, Sourced
 <2> QED BY <2>3, <2>4, <2>5, <2>6, <2>7 DEF Complete
<1> QED BY <1>1, <1>2

LEMMA EditKeeps ==
    ASSUME DraftsInv, NEW e, NEW site, IsSite(site), Edit(e, site)
    PROVE  DraftsInv'
<1>1. /\ draft' = [draft EXCEPT ![e] = <<site>>]
      /\ sending' = [sending EXCEPT
                        ![e] = IF @ = <<>> THEN @ ELSE <<[@[1] EXCEPT !.edited = TRUE]>>]
  BY DEF Edit
<1>2. ASSUME NEW q \in Workbenches PROVE IsDraft(draft'[q])
 <2>1. draft'[q] = IF q = e THEN <<site>> ELSE draft[q]
   BY <1>1 DEF DraftsInv
 <2> QED BY <2>1 DEF DraftsInv, IsDraft
<1>3. ASSUME NEW q \in Workbenches, sending'[q] # <<>> PROVE IsSave(sending'[q][1])
 <2>1. PICK old : old = sending[q]
   OBVIOUS
 <2>2. old # <<>> => IsSave(old[1])
   BY <2>1 DEF DraftsInv
 <2>3. CASE q # e
   BY <1>1, <1>3, <2>1, <2>2, <2>3 DEF DraftsInv
 <2>4. CASE q = e
  <3>1. sending'[q] = IF old = <<>> THEN old ELSE <<[old[1] EXCEPT !.edited = TRUE]>>
    BY <1>1, <2>1, <2>4 DEF DraftsInv
  <3>2. PICK save : save = [old[1] EXCEPT !.edited = TRUE]
    OBVIOUS
  <3>3. IsSave(old[1]) /\ sending'[q] = <<save>>
    BY <1>3, <2>2, <3>1, <3>2
  <3>4. save = [site |-> old[1].site, edited |-> TRUE, answer |-> old[1].answer]
    BY <3>2, <3>3 DEF IsSave
  <3>5. IsSave(save)
    BY <3>3, <3>4 DEF IsSave
  <3> QED BY <3>3, <3>5
 <2> QED BY <2>3, <2>4
<1>4. draft' = [q \in Workbenches |-> draft'[q]] /\ sending' = [q \in Workbenches |-> sending'[q]]
  BY <1>1 DEF DraftsInv
<1> QED BY <1>2, <1>3, <1>4 DEF DraftsInv

LEMMA FoundIsSite ==
    ASSUME FileInv, FoundSite # <<>>
    PROVE  IsSite(FoundSite[1])
<1>1. IsSite(Seeded(NewSite))
  BY SeededIsComplete, SiteBasisAssumption DEF Complete
<1>2. CASE file.state = "missing"
  BY <1>1, <1>2 DEF FoundSite
<1>3. CASE file.state # "missing"
  BY <1>3 DEF FoundSite, FileInv, Complete
<1> QED BY <1>2, <1>3

\* A step of a user at a workbench that changes its draft only.
Typing(e) ==
    \/ AttachTerrain(e)
    \/ \E b \in Bearings : TypeBearing(e, b)
    \/ \E h \in Heights : TypeHeight(e, h) \/ \E s \in Sizes : SyncModel(e, s, h)
    \/ \E c \in Components :
          TypeTable(e, c, <<>>) \/ TypeTable(e, c, <<[method |-> "typed"]>>)
    \/ \E r \in Regions : PickRegion(e, r)
    \/ \E p \in Places : PickStructure(e, p)

LEMMA TypingKeeps ==
    ASSUME SiteInv, NEW e \in Workbenches, Typing(e)
    PROVE  SiteInv'
<1>1. UNCHANGED <<file, asking, patching>>
  BY DEF Typing, AttachTerrain, TypeBearing, TypeHeight, SyncModel, TypeTable, PickRegion,
         PickStructure
<1>2. Loaded(e)
  BY DEF Typing, AttachTerrain, TypeBearing, TypeHeight, SyncModel, TypeTable, PickRegion,
         PickStructure
<1>3. IsSite(Draft(e)) /\ DraftsInv
  BY <1>2 DEF SiteInv, DraftsInv, IsDraft, Loaded, Draft
<1>4. Bearings \subseteq Int /\ Heights \subseteq Int
  BY SiteBasisAssumption
<1>5. PICK site : site = Draft(e)
  OBVIOUS
<1>6. \E t : IsSite(t) /\ Edit(e, t)
 <2>1. CASE AttachTerrain(e)
   BY <1>3, <1>5, <2>1, PartSet DEF AttachTerrain
 <2>2. CASE \E b \in Bearings : TypeBearing(e, b)
  <3>1. PICK b \in Bearings : Edit(e, [site EXCEPT !.bearing = b])
    BY <1>5, <2>2 DEF TypeBearing
  <3> QED BY <1>3, <1>4, <1>5, <3>1, PartSet
 <2>3. CASE \E h \in Heights : TypeHeight(e, h)
  <3>1. PICK h \in Heights : Edit(e, [site EXCEPT !.height = h])
    BY <1>5, <2>3 DEF TypeHeight
  <3> QED BY <1>3, <1>4, <1>5, <3>1, PartSet
 <2>4. CASE \E h \in Heights : \E s \in Sizes : SyncModel(e, s, h)
  <3>1. PICK h \in Heights, s \in Sizes :
            Edit(e, [site EXCEPT !.size = s, !.height = h, !.evidence = <<>>,
                                 !.tables = [c \in Components |-> <<>>]])
    BY <1>5, <2>4 DEF SyncModel
  <3> QED BY <1>3, <1>4, <1>5, <3>1, Synced
 <2>5. CASE \E c \in Components :
               TypeTable(e, c, <<>>) \/ TypeTable(e, c, <<[method |-> "typed"]>>)
  <3>1. PICK c \in Components, t \in {<<>>, <<[method |-> "typed"]>>} :
            Edit(e, [site EXCEPT !.tables[c] = t])
   <4>1. PICK c \in Components :
             TypeTable(e, c, <<>>) \/ TypeTable(e, c, <<[method |-> "typed"]>>)
     BY <2>5
   <4>2. CASE TypeTable(e, c, <<>>)
     BY <1>5, <4>2 DEF TypeTable
   <4>3. CASE TypeTable(e, c, <<[method |-> "typed"]>>)
     BY <1>5, <4>3 DEF TypeTable
   <4> QED BY <4>1, <4>2, <4>3
  <3> QED BY <1>3, <1>5, <3>1, TableTyped
 <2>6. CASE \E r \in Regions : PickRegion(e, r)
  <3>1. PICK r \in Regions :
            Edit(e, [site EXCEPT !.region = r, !.direction = <<>>, !.climate = <<>>,
                                 !.tableReviewed = FALSE])
    BY <1>5, <2>6 DEF PickRegion
  <3> QED BY <1>3, <1>5, <3>1, PartSet
 <2>7. CASE \E p \in Places : PickStructure(e, p)
  <3>1. PICK p \in Places : Edit(e, [site EXCEPT !.placed = <<p>>])
    BY <1>5, <2>7 DEF PickStructure
  <3> QED BY <1>3, <1>5, <3>1, PartSet
 <2> QED BY <2>1, <2>2, <2>3, <2>4, <2>5, <2>6, <2>7 DEF Typing
<1>7. DraftsInv'
  BY <1>3, <1>6, EditKeeps
<1> QED BY <1>1, <1>7 DEF SiteInv, FileInv, LookupsInv, PatchesInv

LEMMA LookupKeeps ==
    ASSUME SiteInv, NEW a \in asking, RegionFound(a) \/ Adopt(a) \/ LookupFails(a)
    PROVE  SiteInv'
<1>1. UNCHANGED <<file, patching>> /\ asking' = asking \ {a}
  BY DEF RegionFound, Adopt, LookupFails
<1>2. IsSite(a.began) /\ DraftsInv
  BY DEF SiteInv, LookupsInv
<1>3. DraftsInv'
 <2>1. CASE RegionFound(a)
  <3>1. UNCHANGED <<draft, sending>> \/ \E r :
            Edit(a.editor, [a.began EXCEPT !.region = r, !.regionReviewed = FALSE])
    BY <2>1 DEF RegionFound
  <3>2. CASE UNCHANGED <<draft, sending>>
    BY <1>2, <3>2 DEF DraftsInv
  <3>3. CASE \E r : Edit(a.editor, [a.began EXCEPT !.region = r, !.regionReviewed = FALSE])
    BY <1>2, <3>3, PartSet, EditKeeps
  <3> QED BY <3>1, <3>2, <3>3
 <2>2. CASE Adopt(a)
  <3> DEFINE method == IF a.began.terrain # <<>> THEN "local" ELSE "indicative"
             adopted == IF method = "local" \/ a.began.height = 10 THEN Components
                        ELSE {"Ms", "Mt"}
  <3>0. adopted \in SUBSET Components
    BY DEF Components
  <3>1. UNCHANGED <<draft, sending>> \/
        Edit(a.editor,
             [a.began EXCEPT
                !.tables = [c \in Components |->
                               IF c \in adopted
                               THEN <<[method |-> method, of |-> OwnInputs(a.began)]>> ELSE @[c]],
                !.evidence = <<[method |-> method, of |-> OwnInputs(a.began),
                                adopted |-> adopted, reviewed |-> FALSE, reason |-> TRUE]>>])
    BY <2>2 DEF Adopt
  <3> HIDE DEF method, adopted
  <3>2. CASE UNCHANGED <<draft, sending>>
    BY <1>2, <3>2 DEF DraftsInv
  <3>3. CASE ~UNCHANGED <<draft, sending>>
    BY <1>2, <3>0, <3>1, <3>3, Adopted, EditKeeps
  <3> QED BY <3>2, <3>3
 <2>3. CASE LookupFails(a)
   BY <1>2, <2>3 DEF LookupFails, DraftsInv
 <2> QED BY <2>1, <2>2, <2>3
<1> QED BY <1>1, <1>3 DEF SiteInv, FileInv, LookupsInv, PatchesInv

LEMMA StoredIsComplete ==
    ASSUME NEW s, IsSite(s), s.direction = <<>> \/ s.climate = <<>> => s.region \in Regions
    PROVE  Stored(s).state = "stored" /\ Complete(Stored(s).site)
  BY SeededIsComplete DEF Stored

LEMMA FileKeeps ==
    ASSUME SiteInv, (\E u \in Uploads : Upload(u)) \/
                    \E p \in Patchers : PatchRead(p) \/ \E change \in Change : PatchWrite(p, change)
    PROVE  SiteInv'
<1>1. CASE \E u \in Uploads : Upload(u)
 <2>1. PICK u \in Uploads : Upload(u)
   BY <1>1
 <2>2. IsSite(u)
   BY SiteBasisAssumption
 <2>3. FileInv'
  <3>1. CASE Valid(u)
    BY <2>1, <2>2, <3>1, StoredIsComplete DEF Upload, Valid, FileInv
  <3>2. CASE ~Valid(u)
    BY <2>1, <3>2 DEF Upload, FileInv, Unreadable
  <3> QED BY <3>1, <3>2
 <2> QED BY <2>1, <2>3 DEF Upload, SiteInv, DraftsInv, LookupsInv, PatchesInv
<1>2. ASSUME NEW p \in Patchers, PatchRead(p) PROVE SiteInv'
 <2>1. PICK found : found = FoundSite
   OBVIOUS
 <2>2. IsDraft(found)
   BY <2>1, FoundIsSite DEF IsDraft, SiteInv
 <2>3. patching' = [patching EXCEPT ![p] = found]
   BY <1>2, <2>1 DEF PatchRead
 <2>4. PatchesInv'
  <3>1. \A q \in Patchers : patching'[q] = IF q = p THEN found ELSE patching[q]
    BY <2>3 DEF SiteInv, PatchesInv
  <3>2. ASSUME NEW q \in Patchers PROVE IsDraft(patching'[q])
    BY <2>2, <3>1 DEF SiteInv, PatchesInv
  <3> QED BY <2>3, <3>2 DEF SiteInv, PatchesInv, IsDraft
 <2> QED BY <1>2, <2>4 DEF PatchRead, SiteInv, FileInv, DraftsInv, LookupsInv
<1>3. ASSUME NEW p \in Patchers, NEW change \in Change, PatchWrite(p, change) PROVE SiteInv'
 <2>1. PICK site : site = patching[p][1]
   OBVIOUS
 <2>2. IsSite(site)
   BY <1>3, <2>1 DEF PatchWrite, SiteInv, PatchesInv, IsDraft
 <2>3. PICK v : file' = IF Calculable(site)
                        THEN Stored(IF change.part = "placed" THEN [site EXCEPT !.placed = v]
                                    ELSE [site EXCEPT !.terrain = v])
                        ELSE file
  <3>1. CASE change.part = "placed"
    BY <1>3, <2>1, <3>1 DEF PatchWrite
  <3>2. CASE change.part # "placed"
    BY <1>3, <2>1, <3>2 DEF PatchWrite
  <3> QED BY <3>1, <3>2
 <2>4. PICK changed : changed = IF change.part = "placed" THEN [site EXCEPT !.placed = v]
                                ELSE [site EXCEPT !.terrain = v]
   OBVIOUS
 <2>5. IsSite(changed) /\ (site.region \in Regions => changed.region \in Regions)
  <3>1. IsSite(changed)
    BY <2>2, <2>4, PartSet
  <3>2. changed.region = site.region
    BY <2>2, <2>4 DEF IsSite
  <3> QED BY <3>1, <3>2
 <2>6. FileInv'
  <3>1. CASE Calculable(site)
    BY <2>3, <2>4, <2>5, <3>1, StoredIsComplete DEF Calculable, FileInv
  <3>2. CASE ~Calculable(site)
    BY <2>3, <3>2 DEF SiteInv, FileInv
  <3> QED BY <3>1, <3>2
 <2>7. PatchesInv'
  <3>1. patching' = [patching EXCEPT ![p] = <<>>]
    BY <1>3 DEF PatchWrite
  <3> QED BY <3>1 DEF SiteInv, PatchesInv, IsDraft
 <2> QED BY <1>3, <2>6, <2>7 DEF PatchWrite, SiteInv, DraftsInv, LookupsInv
<1> QED BY <1>1, <1>2, <1>3

LEMMA PanelKeeps ==
    ASSUME SiteInv, NEW e \in Workbenches,
           Open(e) \/ AskMultipliers(e) \/ \E p \in Places : PickAddress(e, p)
    PROVE  SiteInv'
<1>1. CASE Open(e)
 <2>1. PICK found : found = FoundSite
   OBVIOUS
 <2>2. IsDraft(found)
   BY <2>1, FoundIsSite DEF IsDraft, SiteInv
 <2>3. draft' = [draft EXCEPT ![e] = found] /\ UNCHANGED <<file, sending, asking, patching>>
   BY <1>1, <2>1 DEF Open
 <2>4. DraftsInv'
  <3>1. \A q \in Workbenches : draft'[q] = IF q = e THEN found ELSE draft[q]
    BY <2>3 DEF SiteInv, DraftsInv
  <3>2. ASSUME NEW q \in Workbenches PROVE IsDraft(draft'[q])
    BY <2>2, <3>1 DEF SiteInv, DraftsInv
  <3> QED BY <2>3, <3>2 DEF SiteInv, DraftsInv, IsDraft
 <2> QED BY <2>3, <2>4 DEF SiteInv, FileInv, LookupsInv, PatchesInv
<1>2. CASE AskMultipliers(e)
 <2>1. IsSite(Draft(e))
   BY <1>2 DEF AskMultipliers, SiteInv, DraftsInv, IsDraft, Loaded, Draft
 <2>2. LookupsInv'
   BY <1>2, <2>1 DEF AskMultipliers, SiteInv, LookupsInv
 <2> QED BY <1>2, <2>2 DEF AskMultipliers, SiteInv, FileInv, DraftsInv, PatchesInv
<1>3. ASSUME NEW p \in Places, PickAddress(e, p) PROVE SiteInv'
 <2>1. PICK site : site = Draft(e)
   OBVIOUS
 <2>2. IsSite(site)
   BY <1>3, <2>1 DEF PickAddress, SiteInv, DraftsInv, IsDraft, Loaded, Draft
 <2>3. PICK moved : /\ IsSite(moved) /\ Edit(e, moved)
                    /\ asking' = asking \cup {[kind |-> "region", editor |-> e, began |-> moved]}
   BY <1>3, <2>1, <2>2, Moved DEF PickAddress
 <2>4. DraftsInv' /\ LookupsInv'
   BY <2>3, EditKeeps DEF SiteInv, LookupsInv
 <2> QED BY <1>3, <2>4 DEF PickAddress, SiteInv, FileInv, PatchesInv
<1> QED BY <1>1, <1>2, <1>3

\* What is in flight of e becomes s.
LEMMA SendingSet ==
    ASSUME DraftsInv, NEW e \in Workbenches, NEW s, s # <<>> => IsSave(s[1]),
           sending' = [sending EXCEPT ![e] = s], UNCHANGED draft
    PROVE  DraftsInv'
<1>1. \A q \in Workbenches : sending'[q] = IF q = e THEN s ELSE sending[q]
  BY DEF DraftsInv
<1>2. ASSUME NEW q \in Workbenches, sending'[q] # <<>> PROVE IsSave(sending'[q][1])
  BY <1>1, <1>2 DEF DraftsInv
<1>3. \A q \in Workbenches : IsDraft(draft'[q])
  BY DEF DraftsInv
<1> QED BY <1>2, <1>3 DEF DraftsInv

LEMMA SavingKeeps ==
    ASSUME SiteInv, NEW e \in Workbenches, Send(e) \/ Serve(e) \/ Hear(e)
    PROVE  SiteInv'
<1>1. CASE Send(e)
 <2>1. IsSite(Draft(e))
   BY <1>1 DEF Send, SiteInv, DraftsInv, IsDraft, Loaded, Draft
 <2>2. PICK save : save = [site |-> Draft(e), edited |-> FALSE, answer |-> <<>>]
   OBVIOUS
 <2>3. IsSave(save)
   BY <2>1, <2>2 DEF IsSave
 <2>4. DraftsInv'
  <3>1. sending' = [sending EXCEPT ![e] = <<save>>] /\ UNCHANGED draft
    BY <1>1, <2>2 DEF Send
  <3> QED BY <2>3, <3>1, SendingSet DEF SiteInv
 <2> QED BY <1>1, <2>4 DEF Send, SiteInv, FileInv, LookupsInv, PatchesInv
<1>2. CASE Serve(e)
 <2>1. PICK old, site : old = sending[e][1] /\ site = old.site
   OBVIOUS
 <2>2. IsSave(old) /\ IsSite(site)
   BY <1>2, <2>1 DEF Serve, SiteInv, DraftsInv, IsSave
 <2>3. PICK accepted \in BOOLEAN : accepted = (Valid(site) /\ Calculable(site))
   OBVIOUS
 <2>4. PICK save : save = [old EXCEPT !.answer = IF accepted THEN <<"saved">> ELSE <<"refused">>]
   OBVIOUS
 <2>5. /\ file' = IF accepted THEN Stored(site) ELSE file
       /\ sending' = [sending EXCEPT ![e] = <<save>>]
       /\ UNCHANGED <<draft, asking, patching>>
   BY <1>2, <2>1, <2>3, <2>4 DEF Serve, SiteInv, DraftsInv
 <2>6. FileInv'
  <3>1. CASE accepted
    BY <2>2, <2>3, <2>5, <3>1, StoredIsComplete DEF Calculable, FileInv
  <3>2. CASE ~accepted
    BY <2>5, <3>2 DEF SiteInv, FileInv
  <3> QED BY <3>1, <3>2
 <2>7. IsSave(save)
  <3>1. save = [site |-> site, edited |-> old.edited,
                answer |-> IF accepted THEN <<"saved">> ELSE <<"refused">>]
    BY <2>1, <2>2, <2>4 DEF IsSave
  <3>2. <<"refused">> # <<"saved">>
    OBVIOUS
  <3> QED BY <2>2, <2>3, <3>1, <3>2 DEF IsSave, Calculable
 <2>8. DraftsInv'
   BY <2>5, <2>7, SendingSet DEF SiteInv
 <2> QED BY <2>5, <2>6, <2>8 DEF SiteInv, LookupsInv, PatchesInv
<1>3. CASE Hear(e)
 <2>1. PICK old : old = sending[e][1]
   OBVIOUS
 <2>2. IsSave(old)
   BY <1>3, <2>1 DEF Hear, SiteInv, DraftsInv
 <2>3. PICK kept : /\ IsDraft(kept) /\ draft' = [draft EXCEPT ![e] = kept]
  <3>1. CASE old.answer = <<"saved">> /\ ~old.edited
   <4>1. IsSite(Seeded(old.site))
     BY <2>2, <3>1, SeededIsComplete DEF IsSave, Complete
   <4>2. draft' = [draft EXCEPT ![e] = <<Seeded(old.site)>>]
     BY <1>3, <2>1, <3>1 DEF Hear
   <4> QED BY <4>1, <4>2 DEF IsDraft
  <3>2. CASE ~(old.answer = <<"saved">> /\ ~old.edited)
   <4>1. draft' = draft
     BY <1>3, <2>1, <3>2 DEF Hear
   <4>2. draft' = [draft EXCEPT ![e] = draft[e]] /\ IsDraft(draft[e])
     BY <4>1 DEF SiteInv, DraftsInv
   <4> QED BY <4>2
  <3> QED BY <3>1, <3>2
 <2>4. sending' = [sending EXCEPT ![e] = <<>>] /\ UNCHANGED <<file, asking, patching>>
   BY <1>3 DEF Hear
 <2>5. DraftsInv'
  <3>1. \A q \in Workbenches : draft'[q] = IF q = e THEN kept ELSE draft[q]
    BY <2>3 DEF SiteInv, DraftsInv
  <3>2. \A q \in Workbenches : sending'[q] = IF q = e THEN <<>> ELSE sending[q]
    BY <2>4 DEF SiteInv, DraftsInv
  <3>3. ASSUME NEW q \in Workbenches PROVE IsDraft(draft'[q])
    BY <2>3, <3>1 DEF SiteInv, DraftsInv
  <3>4. ASSUME NEW q \in Workbenches, sending'[q] # <<>> PROVE IsSave(sending'[q][1])
    BY <3>2, <3>4 DEF SiteInv, DraftsInv
  <3> QED BY <2>3, <2>4, <3>3, <3>4 DEF SiteInv, DraftsInv
 <2> QED BY <2>4, <2>5 DEF SiteInv, FileInv, LookupsInv, PatchesInv
<1> QED BY <1>1, <1>2, <1>3

LEMMA SiteInitially == SiteInit => SiteInv
<1> SUFFICES ASSUME SiteInit PROVE SiteInv
  OBVIOUS
<1>1. FileInv
 <2>1. CASE file = Missing
   BY <2>1 DEF Missing, FileInv
 <2>2. CASE file # Missing
  <3>1. PICK u \in Uploads : Valid(u) /\ file = Stored(u)
    BY <2>2 DEF SiteInit
  <3>2. IsSite(u)
    BY SiteBasisAssumption
  <3> QED BY <3>1, <3>2, StoredIsComplete DEF Valid, FileInv
 <2> QED BY <2>1, <2>2
<1>2. DraftsInv /\ LookupsInv /\ PatchesInv
  BY DEF SiteInit, DraftsInv, LookupsInv, PatchesInv, IsDraft
<1> QED BY <1>1, <1>2 DEF SiteInv

LEMMA SiteStep == SiteInv /\ [SiteNext]_siteVars => SiteInv'
<1> SUFFICES ASSUME SiteInv, [SiteNext]_siteVars PROVE SiteInv'
  OBVIOUS
<1>1. CASE (\E u \in Uploads : Upload(u)) \/
           \E p \in Patchers : PatchRead(p) \/ \E change \in Change : PatchWrite(p, change)
  BY <1>1, FileKeeps
<1>2. CASE \E e \in Workbenches : Open(e) \/ AskMultipliers(e) \/ \E p \in Places : PickAddress(e, p)
  BY <1>2, PanelKeeps
<1>3. CASE \E e \in Workbenches : Send(e) \/ Serve(e) \/ Hear(e)
  BY <1>3, SavingKeeps
<1>4. CASE \E e \in Workbenches : Typing(e)
  BY <1>4, TypingKeeps
<1>5. CASE \E a \in asking : RegionFound(a) \/ Adopt(a) \/ LookupFails(a)
  BY <1>5, LookupKeeps
<1>6. CASE UNCHANGED siteVars
  BY <1>6 DEF siteVars, SiteInv, FileInv, DraftsInv, LookupsInv, PatchesInv
<1> QED BY <1>1, <1>2, <1>3, <1>4, <1>5, <1>6 DEF SiteNext, Typing

LEMMA SiteInvariant == SiteSpec => []SiteInv
  BY SiteInitially, SiteStep, PTL DEF SiteSpec

\* Evidence that is not stale is of the site as it is.
LEMMA FreshIsOwn == SiteInv => FreshEvidenceIsItsOwn
<1> SUFFICES ASSUME SiteInv, file.state = "stored", file.site.evidence # <<>>, ~Stale(file.site),
                    NEW c \in file.site.evidence[1].adopted,
                    file.site.tables[c] # <<>>, file.site.tables[c][1].method # "typed"
             PROVE  /\ file.site.tables[c][1].of.at = file.site.at
                    /\ file.site.tables[c][1].method = "local" =>
                          [file.site.tables[c][1].of EXCEPT !.region = file.site.region]
                              = OwnInputs(file.site)
  BY DEF FreshEvidenceIsItsOwn
<1>1. PICK s, e, t : s = file.site /\ e = s.evidence[1] /\ t = s.tables[c][1]
  OBVIOUS
<1>2. Sourced(s)
  BY <1>1 DEF SiteInv, FileInv, Complete, IsSite
<1>3. t.method = e.method /\ t.of = e.of /\ IsInputs(e.of)
  BY <1>1, <1>2 DEF Sourced
<1>4. e.of.at = s.at
  BY <1>1 DEF Stale, OwnInputs
<1>5. ASSUME e.method = "local" PROVE [e.of EXCEPT !.region = s.region] = OwnInputs(s)
 <2>1. PICK own : own = OwnInputs(s)
   OBVIOUS
 <2>2. own = [at |-> s.at, placed |-> own.placed, size |-> own.size, bearing |-> own.bearing,
              height |-> own.height, terrain |-> own.terrain, region |-> s.region]
   BY <2>1 DEF OwnInputs
 <2>3. /\ e.of.terrain = own.terrain /\ e.of.placed = own.placed /\ e.of.height = own.height
       /\ e.of.size = own.size /\ e.of.bearing = own.bearing
   BY <1>1, <1>5, <2>1 DEF Stale
 <2> QED BY <1>3, <1>4, <2>1, <2>2, <2>3 DEF IsInputs
<1> QED BY <1>1, <1>3, <1>4, <1>5

----
(* Faces of the building and the fastest wind on each.                     *)

\* Any set of numbers has a least one, and a bounded one a greatest.
LEMMA LeastNumber ==
    ASSUME NEW T \in SUBSET Nat, T # {}
    PROVE  Min(T) \in T /\ \A y \in T : Min(T) <= y
<1> DEFINE R == {ss \in Nat \X Nat : ss[1] < ss[2]}
<1>1. IsWellFoundedOn(R, Nat)
  BY NatLessThanWellFounded DEF OpToRel
<1> HIDE DEF R
<1>2. PICK x \in T : \A y \in T : ~ (<<y, x>> \in R)
  BY <1>1, WFMin
<1>3. ASSUME NEW y \in T PROVE x <= y
 <2>1. x \in Nat /\ y \in Nat /\ ~(y < x)
   BY <1>2 DEF R
 <2> QED BY <2>1
<1> QED BY <1>3 DEF Min

LEMMA GreatestNumber ==
    ASSUME NEW T \in SUBSET Nat, T # {}, NEW top \in Nat, \A y \in T : y <= top
    PROVE  Max(T) \in T /\ \A y \in T : y <= Max(T)
<1> DEFINE left == {top - y : y \in T}
<1>0. ASSUME NEW y \in T PROVE top - y \in Nat
 <2>1. y \in Nat /\ y <= top
   OBVIOUS
 <2> QED BY <2>1
<1>1. left \in SUBSET Nat /\ left # {}
  BY <1>0
<1>2. PICK least \in left : \A n \in left : least <= n
  BY <1>1, LeastNumber
<1>3. PICK x \in T : least = top - x
  BY <1>2
<1>4. ASSUME NEW y \in T PROVE x >= y
 <2>1. top - y \in left /\ x \in Nat /\ y \in Nat
   OBVIOUS
 <2>2. top - x <= top - y
   BY <1>2, <1>3, <2>1
 <2> QED BY <2>1, <2>2
<1> QED BY <1>4 DEF Max

\* An angle on a circle, and how far two directions are apart.
LEMMA ApartIs ==
    ASSUME NEW a \in Int, NEW b \in Int, (a - b) % 360 <= 45 \/ (a - b) % 360 >= 315
    PROVE  Apart(a, b % 360) <= 45
<1>1. PICK x \in 0..359 : x = (a - b) % 360
  OBVIOUS
<1>2. (a - (b % 360) + 180) % 360 = (x + 180) % 360
  BY <1>1
<1>3. CASE x <= 45
 <2>1. (x + 180) % 360 = x + 180
   BY <1>3
 <2> QED BY <1>2, <1>3, <2>1 DEF Apart
<1>4. CASE x >= 315
 <2>1. (x + 180) % 360 = x - 180
   BY <1>4
 <2> QED BY <1>2, <1>4, <2>1 DEF Apart
<1> QED BY <1>1, <1>3, <1>4

\* Every direction is within 45 degrees of one of the faces.
LEMMA SomeFace ==
    ASSUME NEW a \in Int, NEW site, site.bearing \in Int
    PROVE  \E f \in Faces : Apart(a, FaceBearing(site, f)) <= 45
<1>1. PICK b \in Int : b = site.bearing
  OBVIOUS
<1>2. PICK x \in 0..359 : x = (a - b) % 360
  BY <1>1
<1>3. /\ (a - (b + 0)) % 360 = x % 360 /\ (a - (b + 90)) % 360 = (x - 90) % 360
      /\ (a - (b + 180)) % 360 = (x - 180) % 360 /\ (a - (b + 270)) % 360 = (x - 270) % 360
  BY <1>1, <1>2
<1>4. /\ FaceBearing(site, "front") = (b + 0) % 360 /\ FaceBearing(site, "right") = (b + 90) % 360
      /\ FaceBearing(site, "back") = (b + 180) % 360 /\ FaceBearing(site, "left") = (b + 270) % 360
  BY <1>1 DEF FaceBearing, Offset
<1>5. CASE x <= 45 \/ x >= 315
 <2>1. b + 0 \in Int
   BY <1>1
 <2>2. (a - (b + 0)) % 360 <= 45 \/ (a - (b + 0)) % 360 >= 315
   BY <1>2, <1>3, <1>5
 <2>3. Apart(a, (b + 0) % 360) <= 45
   BY <2>1, <2>2, ApartIs
 <2> QED BY <1>4, <2>3 DEF Faces
<1>6. CASE 45 <= x /\ x <= 135
 <2>1. b + 90 \in Int
   BY <1>1
 <2>2. (a - (b + 90)) % 360 <= 45 \/ (a - (b + 90)) % 360 >= 315
   BY <1>2, <1>3, <1>6
 <2>3. Apart(a, (b + 90) % 360) <= 45
   BY <2>1, <2>2, ApartIs
 <2> QED BY <1>4, <2>3 DEF Faces
<1>7. CASE 135 <= x /\ x <= 225
 <2>1. b + 180 \in Int
   BY <1>1
 <2>2. (a - (b + 180)) % 360 <= 45 \/ (a - (b + 180)) % 360 >= 315
   BY <1>2, <1>3, <1>7
 <2>3. Apart(a, (b + 180) % 360) <= 45
   BY <2>1, <2>2, ApartIs
 <2> QED BY <1>4, <2>3 DEF Faces
<1>8. CASE 225 <= x /\ x <= 315
 <2>1. b + 270 \in Int
   BY <1>1
 <2>2. (a - (b + 270)) % 360 <= 45 \/ (a - (b + 270)) % 360 >= 315
   BY <1>2, <1>3, <1>8
 <2>3. Apart(a, (b + 270) % 360) <= 45
   BY <2>1, <2>2, ApartIs
 <2> QED BY <1>4, <2>3 DEF Faces
<1> QED BY <1>2, <1>5, <1>6, <1>7, <1>8

\* Some sectors have a fastest one, found sector by sector.
HasFastest(K, v) == K # {} => \E x \in K : \A y \in K : v[y] <= v[x]

LEMMA OneMore ==
    ASSUME NEW v, NEW K, NEW k, \A j \in K \cup {k} : v[j] \in Int, HasFastest(K, v)
    PROVE  HasFastest(K \cup {k}, v)
<1>1. CASE K = {}
  BY <1>1 DEF HasFastest
<1>2. CASE K # {}
 <2>1. PICK x \in K : \A y \in K : v[y] <= v[x]
   BY <1>2 DEF HasFastest
 <2>2. CASE v[k] <= v[x]
   BY <2>1, <2>2 DEF HasFastest
 <2>3. CASE ~(v[k] <= v[x])
  <3>1. \A y \in K \cup {k} : v[y] <= v[k]
    BY <2>1, <2>3
  <3> QED BY <3>1 DEF HasFastest
 <2> QED BY <2>2, <2>3
<1> QED BY <1>1, <1>2

LEMMA SomeFastest ==
    ASSUME NEW K \in SUBSET Sectors, K # {}, NEW v, \A j \in K : v[j] \in Int
    PROVE  \E x \in K : \A y \in K : v[y] <= v[x]
<1> DEFINE Up(n) == K \cap 0..n
<1>1. ASSUME NEW n \in 0..6, HasFastest(Up(n), v) PROVE HasFastest(Up(n + 1), v)
 <2>1. CASE n + 1 \in K
  <3>1. Up(n + 1) = Up(n) \cup {n + 1}
    BY <2>1
  <3>2. PICK U, k : U = Up(n) /\ k = n + 1
    OBVIOUS
  <3>3. U \in SUBSET Sectors /\ k \in Sectors /\ \A j \in U \cup {k} : v[j] \in Int
    BY <2>1, <3>2
  <3>4. HasFastest(U \cup {k}, v)
    BY <1>1, <3>2, <3>3, OneMore
  <3> QED BY <3>1, <3>2, <3>4
 <2>2. CASE n + 1 \notin K
  <3>1. Up(n + 1) = Up(n)
    BY <2>2 DEF Sectors
  <3> QED BY <1>1, <3>1
 <2> QED BY <2>1, <2>2
<1>2. HasFastest(Up(0), v)
 <2>1. \A x, y \in Up(0) : x = y /\ v[y] <= v[x]
   OBVIOUS
 <2> QED BY <2>1 DEF HasFastest
<1>3. Up(7) = K
  BY DEF Sectors
<1> HIDE DEF Up
<1>4. HasFastest(Up(0 + 1), v)
  BY <1>1, <1>2
<1>5. HasFastest(Up(1 + 1), v)
  BY <1>1, <1>4
<1>6. HasFastest(Up(2 + 1), v)
  BY <1>1, <1>5
<1>7. HasFastest(Up(3 + 1), v)
  BY <1>1, <1>6
<1>8. HasFastest(Up(4 + 1), v)
  BY <1>1, <1>7
<1>9. HasFastest(Up(5 + 1), v)
  BY <1>1, <1>8
<1>10. HasFastest(Up(6 + 1), v)
  BY <1>1, <1>9
<1> QED BY <1>3, <1>10 DEF HasFastest

\* The speeds of the tables and what stands in for missing tables are numbers.
LEMMA RegionalSpeedType ==
    ASSUME NEW region \in Regions, NEW years
    PROVE  RegionalSpeed(region, years) \in Nat \ {0}
<1>0. /\ Recurrences \in SUBSET Nat
      /\ \A r \in Recurrences : RegionSpeed(region, r) \in Nat \ {0}
  BY SiteBasisAssumption
<1>1. PICK top \in Recurrences : \A r \in Recurrences : r <= top
  BY SiteBasisAssumption
<1> DEFINE larger == {r \in Recurrences : r >= years}
<1>2. CASE larger # {}
 <2>1. larger \in SUBSET Nat
   BY <1>0
 <2>2. Min(larger) \in larger
   BY <1>2, <2>1, LeastNumber
 <2> QED BY <1>0, <1>2, <2>2 DEF RegionalSpeed
<1>3. CASE larger = {}
 <2>1. Max(Recurrences) \in Recurrences
   BY <1>0, <1>1, GreatestNumber
 <2> QED BY <1>0, <1>3, <2>1 DEF RegionalSpeed
<1> QED BY <1>2, <1>3

LEMMA TerrainHeightType ==
    ASSUME NEW h \in Int
    PROVE  TerrainHeight(h) \in Int
<1>0. HeightRows \in SUBSET Nat /\ \A r \in HeightRows : HeightFactor(r) \in Int
  BY SiteBasisAssumption
<1>1. PICK top \in HeightRows : \A r \in HeightRows : r <= top
  BY SiteBasisAssumption
<1>2. /\ Min(HeightRows) \in HeightRows /\ \A r \in HeightRows : Min(HeightRows) <= r
      /\ Max(HeightRows) \in HeightRows /\ \A r \in HeightRows : r <= Max(HeightRows)
  BY <1>0, <1>1, LeastNumber, GreatestNumber
<1> DEFINE lower == {r \in HeightRows : r <= h}
           upper == {r \in HeightRows : r >= h}
           below == Max(lower)
           above == Min(upper)
<1>3. CASE h <= Min(HeightRows)
  BY <1>0, <1>2, <1>3 DEF TerrainHeight
<1>4. CASE ~(h <= Min(HeightRows)) /\ h >= Max(HeightRows)
  BY <1>0, <1>2, <1>4 DEF TerrainHeight
<1>5. CASE ~(h <= Min(HeightRows)) /\ ~(h >= Max(HeightRows))
 <2>0. Min(HeightRows) \in lower /\ Max(HeightRows) \in upper
  <3>1. PICK x, y : x = Min(HeightRows) /\ y = Max(HeightRows)
    OBVIOUS
  <3>2. x \in HeightRows /\ y \in HeightRows /\ x \in Nat /\ y \in Nat
    BY <1>0, <1>2, <3>1
  <3>3. x <= h /\ y >= h
    BY <1>5, <3>1, <3>2
  <3> QED BY <3>1, <3>2, <3>3
 <2>1. /\ lower \in SUBSET Nat /\ lower # {} /\ \A r \in lower : r <= top
       /\ upper \in SUBSET Nat /\ upper # {}
   BY <1>0, <1>1, <2>0
 <2>2. below \in lower /\ above \in upper /\ top \in Nat
   BY <1>0, <1>1, <2>1, LeastNumber, GreatestNumber
 <2> HIDE DEF below, above
 <2>3. /\ below \in HeightRows /\ above \in HeightRows /\ below <= h /\ h <= above
       /\ below \in Nat /\ above \in Nat
   BY <1>0, <2>2
 <2>4. HeightFactor(below) \in Int /\ HeightFactor(above) \in Int
   BY <1>0, <2>3
 <2>5. CASE below = above
  <3>1. TerrainHeight(h) = HeightFactor(below)
    BY <1>5, <2>5 DEF TerrainHeight, below, above
  <3> QED BY <2>4, <3>1
 <2>6. CASE below # above
  <3>1. PICK rise \in Int : rise = (h - below) * (HeightFactor(above) - HeightFactor(below))
    BY <2>3, <2>4
  <3>2. above - below \in Nat \ {0}
    BY <2>3, <2>6
  <3>3. rise \div (above - below) \in Int
    BY <3>2
  <3>4. TerrainHeight(h) = HeightFactor(below) + rise \div (above - below)
    BY <1>5, <2>6, <3>1 DEF TerrainHeight, below, above
  <3> QED BY <2>4, <3>3, <3>4
 <2> QED BY <2>5, <2>6
<1> QED BY <1>3, <1>4, <1>5

\* The multipliers are numbers, whatever source they are from.  A hypothesis and not an
\* assumption of the model, since the sources are no set that TLC could go through.
MultipliersAreNumbers ==
    \A c \in Components, k \in Sectors : \A source : Multiplier(c, source, k) \in Int

LEMMA TableValueType ==
    ASSUME MultipliersAreNumbers, NEW s, IsSite(s), NEW c \in Components,
           NEW k \in Sectors
    PROVE  TableValue(s, c, k) \in Int
<1>1. s.height \in Int /\ s.single["Ms"] \in Int /\ s.single["Mt"] \in Int
  BY DEF IsSite
<1> QED BY <1>1, TerrainHeightType DEF TableValue, MultipliersAreNumbers, Components

LEMMA Products ==
    ASSUME NEW x \in Int, NEW a \in Int, NEW b \in Int, NEW c \in Int, NEW d \in Int, NEW e \in Int
    PROVE  x * a * b * c * d * e = x * (a * b * c * d * e) /\ a * b * c * d * e \in Int
  OBVIOUS

LEMMA SameOrder ==
    ASSUME NEW x \in Nat \ {0}, NEW y \in Nat, NEW a \in Int, NEW b \in Int, x * a <= x * b
    PROVE  y * a <= y * b
<1>1. a <= b
 <2> SUFFICES ASSUME b - a < 0 PROVE FALSE
   OBVIOUS
 <2>1. x * (b - a) < 0
   OBVIOUS
 <2>2. x * (b - a) = x * b - x * a
   OBVIOUS
 <2> QED BY <2>1, <2>2
<1>2. y * (b - a) >= 0
  BY <1>1
<1>3. y * (b - a) = y * b - y * a
  OBVIOUS
<1> QED BY <1>2, <1>3

\* The speeds of the sectors are those of the region, each times a number that the
\* interval of the event does not change.
LEMMA SpeedIs ==
    ASSUME MultipliersAreNumbers, NEW s, Complete(s), Calculable(s), NEW k \in Sectors
    PROVE  \E m \in Int : \A interval :
               Speed(s, k, interval) = RegionalSpeed(s.region, Years(s, interval)) * m
<1>1. PICK a, b, c, d, e :
          /\ a = s.climate[1] /\ b = s.direction[1][k] /\ c = TableValue(s, "Mz", k)
          /\ d = TableValue(s, "Ms", k) /\ e = TableValue(s, "Mt", k)
  OBVIOUS
<1>2. a \in Int /\ b \in Int
  BY <1>1 DEF Complete, IsSite
<1>3. c \in Int /\ d \in Int /\ e \in Int
  BY <1>1, TableValueType DEF Complete, Components
<1>4. ASSUME NEW interval
      PROVE  Speed(s, k, interval) = RegionalSpeed(s.region, Years(s, interval)) * (a * b * c * d * e)
 <2>1. PICK x : x = RegionalSpeed(s.region, Years(s, interval))
   OBVIOUS
 <2>2. x \in Int
   BY <2>1, RegionalSpeedType DEF Calculable
 <2>3. Speed(s, k, interval) = x * a * b * c * d * e
   BY <1>1, <2>1 DEF Speed
 <2> QED BY <1>2, <1>3, <2>1, <2>2, <2>3, Products
<1>5. a * b * c * d * e \in Int
  BY <1>2, <1>3
<1> QED BY <1>4, <1>5

\* The sector that governs a face is one of the face's, and no other of them is faster.
LEMMA FastestGoverns ==
    ASSUME MultipliersAreNumbers, NEW s, Complete(s), Calculable(s),
           NEW K \in SUBSET Sectors, K # {}
    PROVE  /\ FastestSector(s, K) \in K
           /\ \A l \in K : Speed(s, l, <<>>) <= Speed(s, FastestSector(s, K), <<>>)
<1> DEFINE speed == [k \in K |-> Speed(s, k, <<>>)]
           best == {k \in K : \A l \in K : speed[l] <= speed[k]}
<1>1. ASSUME NEW k \in K PROVE speed[k] \in Int
 <2>1. PICK m \in Int : Speed(s, k, <<>>) = RegionalSpeed(s.region, Years(s, <<>>)) * m
   BY SpeedIs
 <2>2. RegionalSpeed(s.region, Years(s, <<>>)) \in Int
   BY RegionalSpeedType DEF Calculable
 <2> QED BY <2>1, <2>2
<1>2. PICK v : v = speed
  OBVIOUS
<1>3. \E x \in K : \A y \in K : v[y] <= v[x]
  BY <1>1, <1>2, SomeFastest
<1>4. best \in SUBSET Nat /\ best # {}
 <2>1. PICK x \in K : \A y \in K : speed[y] <= speed[x]
   BY <1>2, <1>3
 <2>2. x \in best
   BY <2>1
 <2>3. K \in SUBSET Nat
   BY DEF Sectors
 <2> QED BY <2>2, <2>3
<1>5. Min(best) \in best
  BY <1>4, LeastNumber
<1>6. FastestSector(s, K) = Min(best)
  BY DEF FastestSector
<1> QED BY <1>5, <1>6

LEMMA FacesGoverned ==
    ASSUME MultipliersAreNumbers, NEW s, Complete(s), Calculable(s), NEW interval
    PROVE  GovernsAllSectors(s, interval)
<1>1. UNION {Contributing(s, f) : f \in Faces} = Sectors
 <2>1. ASSUME NEW k \in Sectors PROVE \E f \in Faces : k \in Contributing(s, f)
  <3>1. 45 * k \in Int /\ s.bearing \in Int
    BY DEF Sectors, Complete, IsSite
  <3>2. PICK f \in Faces : Apart(45 * k, FaceBearing(s, f)) <= 45
    BY <3>1, SomeFace
  <3> QED BY <3>2 DEF Contributing
 <2>2. \A f \in Faces : Contributing(s, f) \subseteq Sectors
   BY DEF Contributing
 <2> QED BY <2>1, <2>2
<1>2. ASSUME NEW f \in Faces, NEW k \in Sectors, Apart(45 * k, FaceBearing(s, f)) <= 45
      PROVE  Speed(s, k, interval) <= Speed(s, FastestSector(s, Contributing(s, f)), interval)
 <2>1. PICK K, g : K = Contributing(s, f) /\ g = FastestSector(s, K)
   OBVIOUS
 <2>2. K \in SUBSET Sectors /\ k \in K
   BY <1>2, <2>1 DEF Contributing
 <2>3. g \in Sectors /\ Speed(s, k, <<>>) <= Speed(s, g, <<>>)
   BY <2>1, <2>2, FastestGoverns
 <2>4. PICK m \in Int : \A any :
           Speed(s, k, any) = RegionalSpeed(s.region, Years(s, any)) * m
   BY SpeedIs
 <2>5. PICK n \in Int : \A any :
           Speed(s, g, any) = RegionalSpeed(s.region, Years(s, any)) * n
   BY <2>3, SpeedIs
 <2>6. PICK x, y : /\ x = RegionalSpeed(s.region, Years(s, <<>>))
                   /\ y = RegionalSpeed(s.region, Years(s, interval))
   OBVIOUS
 <2>7. x \in Nat \ {0} /\ y \in Nat
   BY <2>6, RegionalSpeedType DEF Calculable
 <2>8. x * m <= x * n
   BY <2>3, <2>4, <2>5, <2>6
 <2>9. y * m <= y * n
   BY <2>7, <2>8, SameOrder
 <2> QED BY <2>1, <2>4, <2>5, <2>6, <2>9
<1>3. ASSUME NEW f \in Faces, NEW k \in Sectors, Apart(45 * k, FaceBearing(s, f)) <= 45
      PROVE  FastestSector(s, Contributing(s, f)) \in Sectors
 <2>1. Contributing(s, f) \in SUBSET Sectors /\ k \in Contributing(s, f)
   BY <1>3 DEF Contributing
 <2> QED BY <2>1, FastestGoverns
<1> QED BY <1>1, <1>2, <1>3 DEF GovernsAllSectors

\* The site of every state: adopted multipliers are of what the site is, unless the
\* evidence is stale, after any edits, late answers, patches and texts; and each face
\* takes the fastest of its sectors, for any bearing of the building.
THEOREM SiteCorrect ==
    ASSUME MultipliersAreNumbers
    PROVE  SiteSpec => []SiteIsSound
<1>1. SiteInv => SiteIsSound
 <2>1. SiteInv => FaceBasisGoverns
   BY FacesGoverned DEF SiteInv, FileInv, FaceBasisGoverns
 <2> QED BY <2>1, FreshIsOwn DEF SiteIsSound
<1> QED BY <1>1, SiteInvariant, PTL


(***************************************************************************)
(* The structure on the site (StructuralChecks), for any frames.  A brace  *)
(* is traced breadth first; what a search has seen, and what is left in    *)
(* its queue, decide what stands on the ground, and a count of the joints  *)
(* behind it shows that it comes to an end in time.  The invariant says of *)
(* each check what its verdicts mean for the frame, not how they are       *)
(* found: a gate that passes then adds up to what a certificate claims.    *)
(***************************************************************************)

\* A recursion by a function of numbers has a solution.
StepsOn(step, S, m) == step \in [1..m -> [S -> S]]
RunsOn(f, step, first, S, m) ==
    f \in [0..m -> S] /\ f[0] = first /\ \A n \in 1..m : f[n] = step[n][f[n - 1]]

LEMMA SomeRun ==
    ASSUME NEW S, NEW first \in S, NEW m \in Nat, NEW step, StepsOn(step, S, m)
    PROVE  \E f : RunsOn(f, step, first, S, m)
<1> USE DEF StepsOn
<1> DEFINE Runs(f, k) == f \in [0..k -> S] /\ f[0] = first /\ \A n \in 1..k : f[n] = step[n][f[n - 1]]
           T == {k \in Nat : k <= m => \E f : Runs(f, k)}
<1>1. 0 \in T
 <2>1. PICK f : f = [n \in 0..0 |-> first]
   OBVIOUS
 <2>2. Runs(f, 0)
   BY <2>1
 <2> QED BY <2>2
<1>2. ASSUME NEW k \in Nat, k \in T PROVE k + 1 \in T
 <2> SUFFICES ASSUME k + 1 <= m PROVE \E f : Runs(f, k + 1)
   OBVIOUS
 <2>1. PICK f : Runs(f, k)
   BY <1>2
 <2>2. PICK g : g = [n \in 0..(k + 1) |-> IF n <= k THEN f[n] ELSE step[k + 1][f[k]]]
   OBVIOUS
 <2>3. f[k] \in S /\ step[k + 1] \in [S -> S]
   BY <2>1
 <2>4. step[k + 1][f[k]] \in S
   BY <2>3
 <2>5. g \in [0..(k + 1) -> S] /\ g[0] = first
   BY <2>1, <2>2, <2>4
 <2>6. ASSUME NEW n \in 1..(k + 1) PROVE g[n] = step[n][g[n - 1]]
  <3>1. g[n - 1] = f[n - 1]
    BY <2>2, <2>6
  <3>2. CASE n = k + 1
    BY <2>2, <3>1, <3>2
  <3>3. CASE n # k + 1
   <4>1. n \in 1..k /\ g[n] = f[n]
     BY <2>2, <2>6, <3>3
   <4> QED BY <2>1, <3>1, <4>1
  <3> QED BY <3>2, <3>3
 <2> QED BY <2>5, <2>6
<1> HIDE DEF T
<1>3. m \in T
  BY <1>1, <1>2, AllNaturals
<1> QED BY <1>3 DEF T, RunsOn

----
Parts == UNION {ToSet(j.ends) : j \in FrameJoints}
Entries(brace) == [at : Parts \ {brace}, via : SUBSET Nat]
Searches(brace) == [queue : Seq(Entries(brace)), seen : SUBSET (Parts \cup {brace})]

\* What ChecksAssumption says of the frame that is analysed.
LEMMA FrameFacts ==
    ASSUME frame \in Frames
    PROVE  /\ IsFrame(frame) /\ Len(frame.joints) \in Nat
           /\ DOMAIN frame.joints = 1..Len(frame.joints)
           /\ FrameJoints = {frame.joints[n] : n \in 1..Len(frame.joints)}
           /\ \A j \in FrameJoints : IsJoint(j)
           /\ \A i, j \in FrameJoints : i.id = j.id => i = j
           /\ IsFiniteSet(FrameJoints) /\ Cardinality(FrameJoints) \in Nat
<1>1. IsFrame(frame)
  BY ChecksAssumption
<1>2. PICK S : frame.joints \in Seq(S)
  BY <1>1 DEF IsFrame
<1>3. Len(frame.joints) \in Nat /\ DOMAIN frame.joints = 1..Len(frame.joints)
  BY <1>2, LenProperties
<1>4. FrameJoints = {frame.joints[n] : n \in 1..Len(frame.joints)}
  BY <1>3 DEF FrameJoints, ToSet
<1>5. \A j \in FrameJoints : IsJoint(j)
  BY <1>1, <1>3, <1>4 DEF IsFrame
<1>6. \A i, j \in FrameJoints : i.id = j.id => i = j
 <2>1. \A n, m \in 1..Len(frame.joints) : frame.joints[n].id = frame.joints[m].id => n = m
   BY <1>1, <1>3 DEF IsFrame
 <2> SUFFICES ASSUME NEW i \in FrameJoints, NEW j \in FrameJoints, i.id = j.id PROVE i = j
   OBVIOUS
 <2>2. PICK n \in 1..Len(frame.joints) : i = frame.joints[n]
   BY <1>4
 <2>3. PICK m \in 1..Len(frame.joints) : j = frame.joints[m]
   BY <1>4
 <2> QED BY <2>1, <2>2, <2>3
<1>7. IsFiniteSet(FrameJoints) /\ Cardinality(FrameJoints) \in Nat
 <2>1. IsFiniteSet(1..Len(frame.joints))
   BY <1>3, FS_Interval
 <2>2. PICK f : f = [n \in 1..Len(frame.joints) |-> frame.joints[n]]
   OBVIOUS
 <2>3. f \in Surjection(1..Len(frame.joints), FrameJoints)
   BY <1>4, <2>2 DEF Surjection
 <2>4. IsFiniteSet(FrameJoints)
   BY <2>1, <2>3, FS_Surjection
 <2> QED BY <2>4, FS_CardinalityType
<1> QED BY <1>1, <1>3, <1>4, <1>5, <1>6, <1>7

\* The two ends of a joint.
LEMMA JointEnds ==
    ASSUME NEW j, IsJoint(j), NEW c, Touches(j, c)
    PROVE  /\ ToSet(j.ends) = {j.ends[1], j.ends[2]} /\ ToSet(j.ends) = {c, Across(j, c)}
           /\ Across(j, c) # c /\ Touches(j, Across(j, c)) /\ Across(j, Across(j, c)) = c
<1>1. ToSet(j.ends) = {j.ends[1], j.ends[2]} /\ j.ends[1] # j.ends[2]
  BY DEF ToSet, IsJoint
<1> QED BY <1>1 DEF Touches, Across

Considered(next, brace, j, found) ==
    IF Carries(j) /\ Touches(j, next.at) /\ ~Touches(j, brace) /\ Across(j, next.at) \notin found.seen
    THEN [queue |-> Append(found.queue, [at |-> Across(j, next.at), via |-> next.via \cup {j.id}]),
          seen |-> found.seen \cup {Across(j, next.at)}]
    ELSE found

LEMMA ConsideredType ==
    ASSUME frame \in Frames, NEW brace, NEW next \in Entries(brace), NEW j \in FrameJoints,
           NEW found \in Searches(brace)
    PROVE  Considered(next, brace, j, found) \in Searches(brace)
<1>1. CASE Carries(j) /\ Touches(j, next.at) /\ ~Touches(j, brace) /\ Across(j, next.at) \notin found.seen
 <2>1. IsJoint(j)
   BY FrameFacts
 <2>2. Touches(j, Across(j, next.at))
   BY <1>1, <2>1, JointEnds
 <2>3. Across(j, next.at) \in Parts \ {brace}
   BY <1>1, <2>2 DEF Parts, Touches
 <2>4. next.via \cup {j.id} \in SUBSET Nat
   BY <2>1 DEF IsJoint, Entries
 <2>5. [at |-> Across(j, next.at), via |-> next.via \cup {j.id}] \in Entries(brace)
   BY <2>3, <2>4 DEF Entries
 <2>6. Append(found.queue, [at |-> Across(j, next.at), via |-> next.via \cup {j.id}]) \in Seq(Entries(brace))
   BY <2>5 DEF Searches
 <2>7. found.seen \cup {Across(j, next.at)} \in SUBSET (Parts \cup {brace})
   BY <2>3 DEF Searches
 <2> QED BY <1>1, <2>6, <2>7 DEF Considered, Searches
<1>2. CASE ~(Carries(j) /\ Touches(j, next.at) /\ ~Touches(j, brace) /\ Across(j, next.at) \notin found.seen)
  BY <1>2 DEF Considered
<1> QED BY <1>1, <1>2

\* A visit considers the joints one after another.
VisitSteps(f, s, brace) ==
    /\ f \in [0..Len(frame.joints) -> Searches(brace)]
    /\ f[0] = [queue |-> Tail(s.queue), seen |-> s.seen]
    /\ \A n \in 1..Len(frame.joints) :
          f[n] = Considered(Head(s.queue), brace, frame.joints[n], f[n - 1])

\* The model's choice of a function is one that takes these steps.
LEMMA VisitIs ==
    ASSUME frame \in Frames, NEW brace, NEW s \in Searches(brace), s.queue # <<>>
    PROVE  \E f : VisitSteps(f, s, brace) /\ Visit(s, brace) = f[Len(frame.joints)]
<1>1. PICK m \in Nat : m = Len(frame.joints) /\ \A n \in 1..m : frame.joints[n] \in FrameJoints
  BY FrameFacts
<1>2. PICK first : first = [queue |-> Tail(s.queue), seen |-> s.seen]
  OBVIOUS
<1>3. s.queue \in Seq(Entries(brace)) /\ s.seen \in SUBSET (Parts \cup {brace})
  BY DEF Searches
<1>4. first \in Searches(brace)
 <2>1. Tail(s.queue) \in Seq(Entries(brace))
   BY <1>3
 <2> QED BY <1>2, <1>3, <2>1 DEF Searches
<1>5. PICK next \in Entries(brace) : next = Head(s.queue)
  BY <1>3, HeadTailProperties
<1>6. PICK step : step = [n \in 1..m |-> [x \in Searches(brace) |->
                                              Considered(next, brace, frame.joints[n], x)]]
  OBVIOUS
<1>7. step \in [1..m -> [Searches(brace) -> Searches(brace)]]
 <2>1. \A n \in 1..m : \A x \in Searches(brace) :
          Considered(next, brace, frame.joints[n], x) \in Searches(brace)
   BY <1>1, ConsideredType
 <2> QED BY <1>6, <2>1
<1>8. PICK f \in [0..m -> Searches(brace)] : f[0] = first /\ \A n \in 1..m : f[n] = step[n][f[n - 1]]
 <2>1. StepsOn(step, Searches(brace), m)
   BY <1>7 DEF StepsOn
 <2>2. PICK f : RunsOn(f, step, first, Searches(brace), m)
   BY <1>1, <1>4, <2>1, SomeRun, Zenon
 <2> QED BY <2>2 DEF RunsOn
<1>9. ASSUME NEW n \in 1..m PROVE f[n] = Considered(next, brace, frame.joints[n], f[n - 1])
 <2>1. f[n - 1] \in Searches(brace)
   BY <1>8
 <2>2. step[n] = [x \in Searches(brace) |-> Considered(next, brace, frame.joints[n], x)]
   BY <1>6
 <2>3. f[n] = step[n][f[n - 1]]
   BY <1>8
 <2> QED BY <2>1, <2>2, <2>3
<1> DEFINE All(g) == [n \in 0..m |-> IF n = 0 THEN first
                                     ELSE Considered(next, brace, frame.joints[n], g[n - 1])]
           after == CHOOSE g : g = All(g)
<1>10. f = All(f)
 <2>1. \A n \in 0..m : f[n] = IF n = 0 THEN first ELSE Considered(next, brace, frame.joints[n], f[n - 1])
  <3>1. ASSUME NEW n \in 0..m, n # 0 PROVE n \in 1..m
    BY <3>1
  <3> QED BY <1>8, <1>9, <3>1, Zenon
 <2> QED BY <1>8, <2>1, Zenon
<1>11. after = All(after)
  BY <1>10, Zenon
<1>12. Visit(s, brace) = after[m]
  BY <1>1, <1>2, <1>5, Zenon DEF Visit, Considered
<1> HIDE DEF after
<1> DEFINE T == {n \in Nat : n <= m => after[n] = f[n]}
<1>13. 0 \in T
  BY <1>8, <1>11
<1>14. ASSUME NEW n \in Nat, n \in T PROVE n + 1 \in T
 <2> SUFFICES ASSUME n + 1 <= m PROVE after[n + 1] = f[n + 1]
   OBVIOUS
 <2>1. after[n] = f[n] /\ n + 1 \in 1..m /\ n + 1 - 1 = n
   BY <1>1, <1>14
 <2>2. after[n + 1] = Considered(next, brace, frame.joints[n + 1], after[n])
  <3>1. PICK k : k = n + 1 /\ k \in 0..m /\ k # 0 /\ k - 1 = n
    BY <1>1, <1>14, <2>1
  <3>2. after[k] = Considered(next, brace, frame.joints[k], after[k - 1])
    BY <1>11, <3>1, Zenon
  <3> QED BY <3>1, <3>2, Zenon
 <2>3. f[n + 1] = Considered(next, brace, frame.joints[n + 1], f[n])
   BY <1>9, <2>1
 <2> QED BY <2>1, <2>2, <2>3
<1> HIDE DEF T
<1>15. m \in T
  BY <1>13, <1>14, AllNaturals
<1>16. after[m] = f[m]
  BY <1>15 DEF T
<1>17. VisitSteps(f, s, brace)
  BY <1>1, <1>2, <1>5, <1>8, <1>9 DEF VisitSteps
<1> QED BY <1>1, <1>12, <1>16, <1>17

----
\* What a search has found, and what is left of it.
Queued(s, x) == \E i \in DOMAIN s.queue : s.queue[i].at = x
Exhausted(x, brace, seen) ==
    /\ x \notin frame.grounded
    /\ \A j \in FrameJoints :
          Carries(j) /\ Touches(j, x) /\ ~Touches(j, brace) => Across(j, x) \in seen
ClosedUnder(island, joints) ==
    \A j \in joints : ToSet(j.ends) \cap island # {} => ToSet(j.ends) \subseteq island
Along(via) == {j \in FrameJoints : j.id \in via}
Leads(start, brace, e) ==
    /\ \A id \in e.via : \E j \in FrameJoints : j.id = id /\ Carries(j) /\ ~Touches(j, brace)
    /\ \A island \in SUBSET (Parts \ {brace}) :
          start \in island /\ ClosedUnder(island, Along(e.via)) => e.at \in island

Explored(start, brace, s, visiting) ==
    /\ s \in Searches(brace) /\ start \in s.seen
    /\ \A i \in DOMAIN s.queue : Leads(start, brace, s.queue[i]) /\ s.queue[i].at \in s.seen
    /\ \A x \in s.seen \ {brace} : x \in visiting \/ Queued(s, x) \/ Exhausted(x, brace, s.seen)

\* The joints whose ends have both been seen.
Behind(seen) == {j \in FrameJoints : ToSet(j.ends) \subseteq seen}

LEMMA BehindCount ==
    ASSUME frame \in Frames, NEW seen
    PROVE  /\ IsFiniteSet(Behind(seen)) /\ Cardinality(Behind(seen)) \in Nat
           /\ Cardinality(Behind(seen)) <= Cardinality(FrameJoints)
<1>1. IsFiniteSet(FrameJoints) /\ Behind(seen) \subseteq FrameJoints
  BY FrameFacts DEF Behind
<1> QED BY <1>1, FS_Subset, FS_CardinalityType

\* A joint leads on what a path has led to.
LEMMA LeadsOn ==
    ASSUME frame \in Frames, NEW start, NEW brace,
           NEW next \in Entries(brace), Leads(start, brace, next),
           NEW j \in FrameJoints, Carries(j), Touches(j, next.at), ~Touches(j, brace)
    PROVE  Leads(start, brace, [at |-> Across(j, next.at), via |-> next.via \cup {j.id}])
<1>1. PICK e : e = [at |-> Across(j, next.at), via |-> next.via \cup {j.id}]
  OBVIOUS
<1>2. ToSet(j.ends) = {next.at, Across(j, next.at)}
  BY FrameFacts, JointEnds
<1>3. ASSUME NEW id \in e.via PROVE \E i \in FrameJoints : i.id = id /\ Carries(i) /\ ~Touches(i, brace)
 <2>1. CASE id = j.id
   BY <2>1
 <2>2. CASE id \in next.via
   BY <2>2 DEF Leads
 <2> QED BY <1>1, <1>3, <2>1, <2>2
<1>4. ASSUME NEW island \in SUBSET (Parts \ {brace}), start \in island, ClosedUnder(island, Along(e.via))
      PROVE  e.at \in island
 <2>1. Along(next.via) \subseteq Along(e.via) /\ j \in Along(e.via)
   BY <1>1 DEF Along
 <2>2. ClosedUnder(island, Along(next.via))
   BY <1>4, <2>1, Zenon DEF ClosedUnder
 <2>3. next.at \in island
   BY <1>4, <2>2 DEF Leads
 <2>4. ToSet(j.ends) \cap island # {} => ToSet(j.ends) \subseteq island
   BY <1>4, <2>1, Zenon DEF ClosedUnder
 <2>5. ToSet(j.ends) \subseteq island
   BY <1>2, <2>3, <2>4
 <2> QED BY <1>1, <1>2, <2>5
<1>5. Leads(start, brace, e)
  BY <1>3, <1>4, Zenon DEF Leads
<1> QED BY <1>1, <1>5

\* A queue with one more.
LEMMA QueueMore ==
    ASSUME NEW S, NEW q \in Seq(S), NEW e \in S, NEW r, r = Append(q, e)
    PROVE  /\ r \in Seq(S) /\ Len(r) = Len(q) + 1 /\ DOMAIN r = 1..(Len(q) + 1)
           /\ \A i \in DOMAIN q : i \in DOMAIN r /\ r[i] = q[i]
           /\ Len(q) + 1 \in DOMAIN r /\ r[Len(q) + 1] = e
           /\ \A i \in DOMAIN r : i \in DOMAIN q \/ i = Len(q) + 1
  OBVIOUS

IsConsidered(new, next, brace, j, s) == new = Considered(next, brace, j, s)

\* One joint considered: what the search has explored stays explored, the joint's far
\* end is seen, and what it adds to the queue it adds to the joints behind.
LEMMA ConsideredKeeps ==
    ASSUME frame \in Frames, NEW start, NEW brace,
           NEW next \in Entries(brace), Leads(start, brace, next), NEW j \in FrameJoints,
           NEW s, Explored(start, brace, s, {next.at}), next.at \in s.seen,
           NEW new, IsConsidered(new, next, brace, j, s)
    PROVE  /\ Explored(start, brace, new, {next.at})
           /\ s.seen \subseteq new.seen
           /\ Carries(j) /\ Touches(j, next.at) /\ ~Touches(j, brace) => Across(j, next.at) \in new.seen
           /\ Len(new.queue) + Cardinality(Behind(s.seen))
                <= Len(s.queue) + Cardinality(Behind(new.seen))
<1>0. s \in Searches(brace) /\ Len(s.queue) \in Nat /\ s.queue \in Seq(Entries(brace))
  BY DEF Explored, Searches
<1>1. CASE Carries(j) /\ Touches(j, next.at) /\ ~Touches(j, brace) /\ Across(j, next.at) \notin s.seen
 <2>1. PICK e : e = [at |-> Across(j, next.at), via |-> next.via \cup {j.id}]
   OBVIOUS
 <2>2. new.queue = Append(s.queue, e) /\ new.seen = s.seen \cup {e.at} /\ e.at \notin s.seen
   BY <1>1, <2>1 DEF Considered, IsConsidered
 <2>3. new \in Searches(brace)
   BY <1>0, ConsideredType DEF IsConsidered
 <2>4. Leads(start, brace, e)
   BY <1>1, <2>1, LeadsOn
 <2>5. e \in Entries(brace)
  <3>1. new.queue \in Seq(Entries(brace)) /\ Len(s.queue) + 1 \in 1..Len(new.queue)
        /\ new.queue[Len(s.queue) + 1] = e
    BY <1>0, <2>2, <2>3 DEF Searches
  <3> QED BY <3>1, ElementOfSeq
 <2>6. /\ Len(new.queue) = Len(s.queue) + 1
       /\ \A i \in DOMAIN s.queue : i \in DOMAIN new.queue /\ new.queue[i] = s.queue[i]
       /\ Len(s.queue) + 1 \in DOMAIN new.queue /\ new.queue[Len(s.queue) + 1] = e
       /\ \A i \in DOMAIN new.queue : i \in DOMAIN s.queue \/ i = Len(s.queue) + 1
   BY <1>0, <2>2, <2>5, QueueMore
 <2>7. \A i \in DOMAIN new.queue : Leads(start, brace, new.queue[i]) /\ new.queue[i].at \in new.seen
   BY <2>2, <2>4, <2>6 DEF Explored
 <2>8. ASSUME NEW x \in new.seen \ {brace}
       PROVE  x \in {next.at} \/ Queued(new, x) \/ Exhausted(x, brace, new.seen)
  <3>1. CASE x = e.at
    BY <2>6, <3>1 DEF Queued
  <3>2. CASE Queued(s, x)
    BY <2>6, <3>2 DEF Queued
  <3>3. CASE Exhausted(x, brace, s.seen)
    BY <2>2, <3>3 DEF Exhausted
  <3>4. x = e.at \/ x \in {next.at} \/ Queued(s, x) \/ Exhausted(x, brace, s.seen)
    BY <2>2, <2>8 DEF Explored
  <3> QED BY <3>1, <3>2, <3>3, <3>4
 <2>9. Explored(start, brace, new, {next.at})
   BY <2>2, <2>3, <2>7, <2>8 DEF Explored
 <2>10. Cardinality(Behind(s.seen)) + 1 <= Cardinality(Behind(new.seen))
  <3>1. ToSet(j.ends) = {next.at, e.at}
    BY <1>1, <2>1, FrameFacts, JointEnds
  <3>2. j \notin Behind(s.seen) /\ j \in Behind(new.seen) /\ Behind(s.seen) \subseteq Behind(new.seen)
    BY <2>2, <3>1 DEF Behind
  <3>3. Cardinality(Behind(s.seen) \cup {j}) = Cardinality(Behind(s.seen)) + 1
    BY <3>2, BehindCount, FS_AddElement
  <3>4. Behind(s.seen) \cup {j} \subseteq Behind(new.seen)
    BY <3>2
  <3>5. Cardinality(Behind(s.seen) \cup {j}) <= Cardinality(Behind(new.seen))
    BY <3>4, BehindCount, FS_Subset
  <3> QED BY <3>3, <3>5
 <2>11. Cardinality(Behind(s.seen)) \in Nat /\ Cardinality(Behind(new.seen)) \in Nat
   BY BehindCount
 <2> QED BY <1>0, <2>1, <2>2, <2>6, <2>9, <2>10, <2>11
<1>2. CASE ~(Carries(j) /\ Touches(j, next.at) /\ ~Touches(j, brace) /\ Across(j, next.at) \notin s.seen)
 <2>1. new = s
   BY <1>2 DEF Considered, IsConsidered
 <2>2. Len(s.queue) + Cardinality(Behind(s.seen)) <= Len(s.queue) + Cardinality(Behind(s.seen))
   BY <1>0, BehindCount
 <2> QED BY <1>2, <2>1, <2>2
<1> QED BY <1>1, <1>2

\* A visit settles the one that it takes.
LEMMA VisitKeeps ==
    ASSUME frame \in Frames, NEW start, NEW brace, NEW s, Explored(start, brace, s, {}), ~Arrived(s)
    PROVE  /\ Explored(start, brace, Visit(s, brace), {})
           /\ Len(Visit(s, brace).queue) + 1 + Cardinality(Behind(s.seen))
                <= Len(s.queue) + Cardinality(Behind(Visit(s, brace).seen))
<1>1. s \in Searches(brace) /\ s.queue \in Seq(Entries(brace)) /\ s.queue # <<>> /\ Len(s.queue) \in Nat
  BY DEF Explored, Searches, Arrived
<1>2. PICK f : VisitSteps(f, s, brace) /\ Visit(s, brace) = f[Len(frame.joints)]
  BY <1>1, VisitIs
<1>3. PICK next : next = Head(s.queue)
  OBVIOUS
<1>4. next \in Entries(brace) /\ next = s.queue[1] /\ 1 \in DOMAIN s.queue
  BY <1>1, <1>3
<1>5. Leads(start, brace, next) /\ next.at \in s.seen /\ next.at \notin frame.grounded
  BY <1>3, <1>4 DEF Explored, Arrived
<1>6. PICK m \in Nat : m = Len(frame.joints)
  BY FrameFacts
<1>7. FrameJoints = {frame.joints[n] : n \in 1..m}
  BY <1>6, FrameFacts
<1>8. /\ f[0] = [queue |-> Tail(s.queue), seen |-> s.seen]
      /\ \A n \in 1..m : f[n] = Considered(next, brace, frame.joints[n], f[n - 1])
      /\ \A n \in 0..m : f[n] \in Searches(brace)
  BY <1>2, <1>3, <1>6 DEF VisitSteps
<1>9. PICK b : b = Cardinality(Behind(s.seen)) /\ b \in Nat
  BY BehindCount
<1> DEFINE Good(n) ==
             /\ Explored(start, brace, f[n], {next.at})
             /\ s.seen \subseteq f[n].seen
             /\ \A k \in 1..n :
                  LET j == frame.joints[k]
                  IN  Carries(j) /\ Touches(j, next.at) /\ ~Touches(j, brace) => Across(j, next.at) \in f[n].seen
             /\ Len(f[n].queue) + 1 + b <= Len(s.queue) + Cardinality(Behind(f[n].seen))
           T == {n \in Nat : n <= m => Good(n)}
<1>10. Good(0)
 <2>1. PICK q : q = Tail(s.queue)
   OBVIOUS
 <2>2. /\ q \in Seq(Entries(brace)) /\ Len(q) = Len(s.queue) - 1
       /\ \A i \in DOMAIN q : i + 1 \in DOMAIN s.queue /\ q[i] = s.queue[i + 1]
       /\ \A i \in DOMAIN s.queue : i # 1 => i - 1 \in DOMAIN q /\ q[i - 1] = s.queue[i]
   BY <1>1, <2>1
 <2>3. f[0] \in Searches(brace) /\ f[0].queue = q /\ f[0].seen = s.seen
   BY <1>6, <1>8, <2>1
 <2>4. \A i \in DOMAIN q : Leads(start, brace, q[i]) /\ q[i].at \in s.seen
   BY <2>2 DEF Explored
 <2>5. ASSUME NEW x \in s.seen \ {brace}
       PROVE  x \in {next.at} \/ Queued(f[0], x) \/ Exhausted(x, brace, s.seen)
  <3>1. CASE Queued(s, x)
   <4>1. PICK i \in DOMAIN s.queue : s.queue[i].at = x
     BY <3>1 DEF Queued
   <4>2. CASE i = 1
     BY <1>4, <4>1, <4>2
   <4>3. CASE i # 1
     BY <2>2, <2>3, <4>1, <4>3 DEF Queued
   <4> QED BY <4>2, <4>3
  <3>2. Queued(s, x) \/ Exhausted(x, brace, s.seen)
    BY <2>5 DEF Explored
  <3> QED BY <3>1, <3>2
 <2>6. Explored(start, brace, f[0], {next.at})
  <3>1. start \in s.seen
    BY DEF Explored
  <3> QED BY <2>3, <2>4, <2>5, <3>1 DEF Explored
 <2>7. Len(f[0].queue) + 1 + b <= Len(s.queue) + Cardinality(Behind(f[0].seen))
   BY <1>1, <1>9, <2>2, <2>3
 <2> QED BY <2>3, <2>6, <2>7
<1>11. ASSUME NEW n \in Nat, n \in T PROVE n + 1 \in T
 <2> SUFFICES ASSUME n + 1 <= m PROVE Good(n + 1)
   OBVIOUS
 <2>1. Good(n)
   BY <1>6, <1>11
 <2>2. n + 1 \in 1..m /\ n + 1 - 1 = n /\ n \in 0..m /\ n + 1 \in 0..m
   BY <1>6
 <2>3. PICK j \in FrameJoints : j = frame.joints[n + 1]
   BY <1>7, <2>2
 <2>4. PICK old, new : old = f[n] /\ new = f[n + 1]
   OBVIOUS
 <2>5. IsConsidered(new, next, brace, j, old)
   BY <1>8, <2>2, <2>3, <2>4 DEF IsConsidered
 <2>6. Explored(start, brace, old, {next.at}) /\ next.at \in old.seen /\ s.seen \subseteq old.seen
   BY <1>5, <2>1, <2>4
 <2>7. /\ Explored(start, brace, new, {next.at})
       /\ old.seen \subseteq new.seen
       /\ Carries(j) /\ Touches(j, next.at) /\ ~Touches(j, brace) => Across(j, next.at) \in new.seen
       /\ Len(new.queue) + Cardinality(Behind(old.seen)) <= Len(old.queue) + Cardinality(Behind(new.seen))
  <3>1. next \in Entries(brace) /\ Leads(start, brace, next)
    BY <1>4, <1>5
  <3>2. Explored(start, brace, old, {next.at}) /\ next.at \in old.seen
    BY <2>6
  <3> HIDE <1>4, <1>5
  <3> QED BY <2>5, <3>1, <3>2, ConsideredKeeps, Zenon
 <2>8. ASSUME NEW k \in 1..(n + 1), Carries(frame.joints[k]), Touches(frame.joints[k], next.at),
              ~Touches(frame.joints[k], brace)
       PROVE  Across(frame.joints[k], next.at) \in new.seen
  <3>1. CASE k = n + 1
    BY <2>3, <2>7, <2>8, <3>1
  <3>2. CASE k # n + 1
   <4>1. k \in 1..n
     BY <3>2
   <4>2. Across(frame.joints[k], next.at) \in old.seen
     BY <2>1, <2>4, <2>8, <4>1
   <4> QED BY <2>7, <4>2
  <3> QED BY <3>1, <3>2
 <2>9. Len(new.queue) + 1 + b <= Len(s.queue) + Cardinality(Behind(new.seen))
  <3>1. Len(old.queue) + 1 + b <= Len(s.queue) + Cardinality(Behind(old.seen))
    BY <2>1, <2>4
  <3>2. Len(old.queue) \in Nat /\ Len(new.queue) \in Nat
    BY <1>8, <2>2, <2>4 DEF Searches
  <3>3. Cardinality(Behind(old.seen)) \in Nat /\ Cardinality(Behind(new.seen)) \in Nat
    BY BehindCount
  <3> QED BY <1>1, <1>9, <2>7, <3>1, <3>2, <3>3
 <2>10. s.seen \subseteq new.seen
   BY <2>6, <2>7
 <2> QED BY <2>4, <2>7, <2>8, <2>9, <2>10
<1> HIDE DEF T
<1>12. m \in T
  BY <1>10, <1>11, AllNaturals DEF T
<1>13. Good(m)
  BY <1>12 DEF T
<1>14. PICK v : v = f[m] /\ v = Visit(s, brace)
  BY <1>2, <1>6
<1>15. Exhausted(next.at, brace, v.seen)
 <2>1. ASSUME NEW j \in FrameJoints, Carries(j), Touches(j, next.at), ~Touches(j, brace)
       PROVE  Across(j, next.at) \in v.seen
  <3>1. PICK k \in 1..m : j = frame.joints[k]
    BY <1>7
  <3> QED BY <1>13, <1>14, <2>1, <3>1
 <2> QED BY <1>5, <2>1 DEF Exhausted
<1>16. Explored(start, brace, v, {})
 <2>1. Explored(start, brace, v, {next.at})
   BY <1>13, <1>14
 <2> QED BY <1>15, <2>1 DEF Explored
<1> QED BY <1>9, <1>13, <1>14, <1>16

\* The whole search, visit by visit.
Onward(s, brace) == IF Arrived(s) THEN s ELSE Visit(s, brace)
Setout(start, brace) == [queue |-> <<[at |-> start, via |-> {}]>>, seen |-> {start, brace}]
SearchSteps(f, m, start, brace) ==
    /\ f[0] = Setout(start, brace)
    /\ \A n \in 1..m : f[n] = Onward(f[n - 1], brace)

LEMMA VisitType ==
    ASSUME frame \in Frames, NEW brace, NEW s \in Searches(brace)
    PROVE  Onward(s, brace) \in Searches(brace)
<1>1. CASE Arrived(s)
  BY <1>1 DEF Onward
<1>2. CASE ~Arrived(s)
 <2>1. s.queue # <<>>
   BY <1>2 DEF Arrived
 <2>2. PICK f : VisitSteps(f, s, brace) /\ Visit(s, brace) = f[Len(frame.joints)]
   BY <2>1, VisitIs
 <2>3. Len(frame.joints) \in 0..Len(frame.joints)
   BY FrameFacts
 <2>4. Visit(s, brace) \in Searches(brace)
   BY <2>2, <2>3 DEF VisitSteps
 <2> QED BY <1>2, <2>4 DEF Onward
<1> QED BY <1>1, <1>2

\* How a search sets out.
LEMMA SetoutExplored ==
    ASSUME frame \in Frames, NEW brace, NEW start \in Parts, start # brace
    PROVE  /\ Explored(start, brace, Setout(start, brace), {})
           /\ Len(Setout(start, brace).queue) = 1
<1>1. PICK e : e = [at |-> start, via |-> {}]
  OBVIOUS
<1>2. e \in Entries(brace)
  BY <1>1 DEF Entries
<1>3. PICK s : s = Setout(start, brace)
  OBVIOUS
<1>4. s.queue = <<e>> /\ s.seen = {start, brace}
  BY <1>1, <1>3 DEF Setout
<1>5. s \in Searches(brace)
 <2>1. <<e>> \in Seq(Entries(brace)) /\ {start, brace} \in SUBSET (Parts \cup {brace})
   BY <1>2
 <2> QED BY <1>1, <1>3, <2>1 DEF Setout, Searches
<1>6. Leads(start, brace, e)
  BY <1>1 DEF Leads
<1>7. \A i \in DOMAIN s.queue : s.queue[i] = e
  BY <1>4
<1>8. Queued(s, start)
  BY <1>1, <1>4 DEF Queued
<1>9. Explored(start, brace, s, {})
  BY <1>1, <1>4, <1>5, <1>6, <1>7, <1>8 DEF Explored
<1>10. Len(s.queue) = 1
  BY <1>4
<1> QED BY <1>3, <1>9, <1>10

\* The queue a search ends with is the last of these steps.
LEMMA PathsIs ==
    ASSUME frame \in Frames, NEW brace, NEW start \in Parts, start # brace,
           NEW m \in Nat, m = Cardinality(FrameJoints) + 1
    PROVE  \E f : SearchSteps(f, m, start, brace) /\ PathsFrom(start, brace) = f[m].queue
<1>1. m \in Nat
  BY FrameFacts
<1>2. PICK S : S = Searches(brace)
  OBVIOUS
<1>3. PICK first : first = Setout(start, brace)
  OBVIOUS
<1>4. first \in S
  BY <1>2, <1>3, SetoutExplored DEF Explored
<1>5. PICK step : step = [n \in 1..m |-> [s \in S |-> Onward(s, brace)]]
  OBVIOUS
<1>6. step \in [1..m -> [S -> S]]
 <2>1. \A s \in S : Onward(s, brace) \in S
   BY <1>2, VisitType
 <2> QED BY <1>5, <2>1
<1>7. PICK f \in [0..m -> S] : f[0] = first /\ \A n \in 1..m : f[n] = step[n][f[n - 1]]
 <2>1. StepsOn(step, S, m)
   BY <1>6 DEF StepsOn
 <2>2. PICK f : RunsOn(f, step, first, S, m)
   BY <1>1, <1>4, <2>1, SomeRun, Zenon
 <2> QED BY <2>2 DEF RunsOn
<1>8. ASSUME NEW n \in 1..m PROVE f[n] = Onward(f[n - 1], brace)
 <2>1. f[n - 1] \in S
   BY <1>7
 <2>2. step[n] = [s \in S |-> Onward(s, brace)]
   BY <1>5
 <2>3. f[n] = step[n][f[n - 1]]
   BY <1>7
 <2> QED BY <2>1, <2>2, <2>3
<1> DEFINE All(g) == [n \in 0..m |-> IF n = 0 THEN first ELSE Onward(g[n - 1], brace)]
           search == CHOOSE g : g = All(g)
<1>9. f = All(f)
 <2>1. \A n \in 0..m : f[n] = IF n = 0 THEN first ELSE Onward(f[n - 1], brace)
  <3>1. ASSUME NEW n \in 0..m, n # 0 PROVE n \in 1..m
    BY <3>1
  <3> QED BY <1>7, <1>8, <3>1, Zenon
 <2> QED BY <1>7, <2>1, Zenon
<1>10. search = All(search)
  BY <1>9, Zenon
<1>11. PathsFrom(start, brace) = search[m].queue
  BY <1>3, Zenon DEF PathsFrom, Onward, Setout
<1>12. SearchSteps(search, m, start, brace)
 <2>1. \A n \in 0..m : search[n] = IF n = 0 THEN first ELSE Onward(search[n - 1], brace)
   BY <1>10
 <2>2. \A n \in 1..m : n \in 0..m /\ n # 0
   BY <1>1
 <2>3. 0 \in 0..m
   BY <1>1
 <2> HIDE DEF search
 <2>4. search[0] = first
   BY <2>1, <2>3
 <2>5. \A n \in 1..m : search[n] = Onward(search[n - 1], brace)
   BY <2>1, <2>2
 <2> QED BY <1>3, <2>4, <2>5 DEF SearchSteps
<1> QED BY <1>11, <1>12

\* Every visit takes one from the queue, and every joint put one there at most.
InTime(n, s) == Arrived(s) \/ n + Len(s.queue) <= 1 + Cardinality(Behind(s.seen))

\* A search that ends with something in its queue has a path to the ground; one that
\* ends with nothing has seen all that the start stands with, and none of it is grounded.
LEMMA PathsReach ==
    ASSUME frame \in Frames, NEW brace, NEW start \in Parts, start # brace
    PROVE  \E s : /\ PathsFrom(start, brace) = s.queue
                  /\ Explored(start, brace, s, {}) /\ Arrived(s)
<1>1. PICK m \in Nat : m = Cardinality(FrameJoints) + 1
  BY FrameFacts
<1>2. PICK f : SearchSteps(f, m, start, brace) /\ PathsFrom(start, brace) = f[m].queue
  BY <1>1, PathsIs
<1> DEFINE Good(n) ==
             /\ Explored(start, brace, f[n], {})
             /\ InTime(n, f[n])
           T == {n \in Nat : n <= m => Good(n)}
<1>3. Good(0)
 <2>1. f[0] = Setout(start, brace)
   BY <1>2 DEF SearchSteps
 <2>2. Explored(start, brace, f[0], {}) /\ Len(f[0].queue) = 1
   BY <2>1, SetoutExplored
 <2>3. Cardinality(Behind(f[0].seen)) \in Nat
   BY BehindCount
 <2> QED BY <2>2, <2>3 DEF InTime
<1>4. ASSUME NEW n \in Nat, n \in T PROVE n + 1 \in T
 <2> SUFFICES ASSUME n + 1 <= m PROVE Good(n + 1)
   OBVIOUS
 <2>1. Good(n)
   BY <1>1, <1>4
 <2>2. PICK old, new : old = f[n] /\ new = f[n + 1]
   OBVIOUS
 <2>3. n + 1 \in 1..m /\ n + 1 - 1 = n
   BY <1>1
 <2>4. new = Onward(old, brace)
   BY <1>2, <2>2, <2>3 DEF SearchSteps
 <2>5. CASE Arrived(old)
   BY <2>1, <2>2, <2>4, <2>5 DEF Onward, InTime
 <2>6. CASE ~Arrived(old)
  <3>1. new = Visit(old, brace)
    BY <2>4, <2>6 DEF Onward
  <3>2. Explored(start, brace, old, {})
    BY <2>1, <2>2
  <3>3. /\ Explored(start, brace, new, {})
        /\ Len(new.queue) + 1 + Cardinality(Behind(old.seen))
             <= Len(old.queue) + Cardinality(Behind(new.seen))
    BY <2>6, <3>1, <3>2, VisitKeeps
  <3>4. Len(old.queue) \in Nat /\ Len(new.queue) \in Nat
    BY <3>2, <3>3 DEF Explored, Searches
  <3>5. Cardinality(Behind(old.seen)) \in Nat /\ Cardinality(Behind(new.seen)) \in Nat
    BY BehindCount
  <3>6. n + Len(old.queue) <= 1 + Cardinality(Behind(old.seen))
    BY <2>1, <2>2, <2>6 DEF InTime
  <3>7. n + 1 + Len(new.queue) <= 1 + Cardinality(Behind(new.seen))
   <4>1. PICK a, b, c, d :
           /\ a = Len(old.queue) /\ b = Len(new.queue)
           /\ c = Cardinality(Behind(old.seen)) /\ d = Cardinality(Behind(new.seen))
     OBVIOUS
   <4>2. a \in Nat /\ b \in Nat /\ c \in Nat /\ d \in Nat
     BY <3>4, <3>5, <4>1
   <4>3. b + 1 + c <= a + d /\ n + a <= 1 + c
     BY <3>3, <3>6, <4>1
   <4>4. n + 1 + b <= 1 + d
     BY <4>2, <4>3
   <4> QED BY <4>1, <4>4
  <3> QED BY <2>2, <3>3, <3>7 DEF InTime
 <2> QED BY <2>5, <2>6
<1> HIDE DEF T
<1>5. m \in T
  BY <1>3, <1>4, AllNaturals DEF T
<1>6. Good(m)
  BY <1>5 DEF T
<1>7. PICK s : s = f[m] /\ (Arrived(s) \/ m + Len(s.queue) <= 1 + Cardinality(Behind(s.seen)))
  BY <1>6 DEF InTime
<1>8. CASE m + Len(s.queue) <= 1 + Cardinality(Behind(s.seen))
 <2>1. s.queue \in Seq(Entries(brace)) /\ Len(s.queue) \in Nat
   BY <1>6, <1>7 DEF Explored, Searches
 <2>2. Cardinality(Behind(s.seen)) \in Nat /\ Cardinality(Behind(s.seen)) <= Cardinality(FrameJoints)
       /\ Cardinality(FrameJoints) \in Nat
   BY BehindCount, FrameFacts
 <2>3. Len(s.queue) = 0
   BY <1>1, <1>8, <2>1, <2>2
 <2>4. s.queue = <<>>
   BY <2>1, <2>3
 <2>5. Arrived(s)
   BY <2>4 DEF Arrived
 <2> QED BY <1>2, <1>6, <1>7, <2>5
<1> QED BY <1>2, <1>6, <1>7, <1>8

\* What a start stands on, as the two outcomes of a search have it.
LEMMA PathsFound ==
    ASSUME frame \in Frames, NEW brace, NEW start \in Parts, start # brace,
           PathsFrom(start, brace) # <<>>,
           NEW joints, Along(Head(PathsFrom(start, brace)).via) \subseteq joints
    PROVE  /\ StandsOn(start, brace, joints)
           /\ \A id \in Head(PathsFrom(start, brace)).via :
                 \E j \in FrameJoints : j.id = id /\ Carries(j)
<1>1. PICK s : /\ PathsFrom(start, brace) = s.queue
               /\ Explored(start, brace, s, {}) /\ Arrived(s)
  BY PathsReach
<1>2. s.queue \in Seq(Entries(brace)) /\ s.queue # <<>>
  BY <1>1 DEF Explored, Searches
<1>3. PICK e : e = Head(s.queue)
  OBVIOUS
<1>4. e = s.queue[1] /\ 1 \in DOMAIN s.queue
  BY <1>2, <1>3
<1>5. Leads(start, brace, e) /\ e.at \in frame.grounded
  BY <1>1, <1>2, <1>3, <1>4 DEF Explored, Arrived
<1>6. Along(e.via) \subseteq joints /\ e = Head(PathsFrom(start, brace))
  BY <1>1, <1>3
<1>7. ASSUME NEW island \in SUBSET (Parts \ {brace}), start \in island,
             \A j \in joints : ~Touches(j, brace) /\ ToSet(j.ends) \cap island # {}
                => ToSet(j.ends) \subseteq island
      PROVE  island \cap frame.grounded # {}
 <2>1. ASSUME NEW j \in Along(e.via) PROVE j \in joints /\ ~Touches(j, brace)
  <3>1. j \in FrameJoints /\ j.id \in e.via
    BY DEF Along
  <3>2. PICK i \in FrameJoints : i.id = j.id /\ ~Touches(i, brace)
    BY <1>5, <3>1 DEF Leads
  <3>3. i = j
    BY <3>1, <3>2, FrameFacts
  <3> QED BY <1>6, <3>2, <3>3
 <2>2. ClosedUnder(island, Along(e.via))
   BY <1>7, <2>1, Zenon DEF ClosedUnder
 <2>3. e.at \in island
   BY <1>5, <1>7, <2>2 DEF Leads
 <2> QED BY <1>5, <2>3
<1>8. StandsOn(start, brace, joints)
 <2>1. PICK all : all = Parts \ {brace}
   OBVIOUS
 <2>2. \A island \in SUBSET all :
          (/\ start \in island
           /\ \A j \in joints : ~Touches(j, brace) /\ ToSet(j.ends) \cap island # {}
                => ToSet(j.ends) \subseteq island)
          => island \cap frame.grounded # {}
   BY <1>7, <2>1
 <2>3. all = (UNION {ToSet(j.ends) : j \in FrameJoints}) \ {brace}
   BY <2>1 DEF Parts
 <2> QED BY <2>2, <2>3 DEF StandsOn
<1>9. \A id \in e.via : \E j \in FrameJoints : j.id = id /\ Carries(j)
  BY <1>5, Zenon DEF Leads
<1> QED BY <1>6, <1>8, <1>9

\* Nothing found: what was seen is closed under the joints and free of the ground.
LEMMA NothingFound ==
    ASSUME frame \in Frames, NEW brace, NEW start \in Parts, start # brace,
           PathsFrom(start, brace) = <<>>
    PROVE  ~StandsOn(start, brace, {k \in FrameJoints : Carries(k)})
<1>1. PICK s : /\ PathsFrom(start, brace) = s.queue
               /\ Explored(start, brace, s, {}) /\ Arrived(s)
  BY PathsReach
<1>2. s.queue = <<>> /\ s.seen \subseteq Parts \cup {brace} /\ start \in s.seen
  BY <1>1 DEF Explored, Searches
<1>3. PICK island : island = s.seen \ {brace}
  OBVIOUS
<1>4. island \in SUBSET (Parts \ {brace}) /\ start \in island
  BY <1>2, <1>3
<1>5. \A x \in island : Exhausted(x, brace, s.seen)
 <2>1. \A x : ~Queued(s, x)
   BY <1>2 DEF Queued
 <2> QED BY <1>1, <1>3, <2>1 DEF Explored
<1>6. ASSUME NEW j \in FrameJoints, Carries(j), ~Touches(j, brace), ToSet(j.ends) \cap island # {}
      PROVE  ToSet(j.ends) \subseteq island
 <2>1. PICK x \in island : Touches(j, x)
   BY <1>6 DEF Touches
 <2>2. Across(j, x) \in s.seen
   BY <1>5, <1>6, <2>1 DEF Exhausted
 <2>3. ToSet(j.ends) = {x, Across(j, x)} /\ Touches(j, Across(j, x))
   BY <2>1, FrameFacts, JointEnds
 <2>4. Across(j, x) # brace
   BY <1>6, <2>3
 <2> QED BY <1>3, <2>1, <2>2, <2>3, <2>4
<1>7. island \cap frame.grounded = {}
  BY <1>5 DEF Exhausted
<1>8. PICK joints : joints = {k \in FrameJoints : Carries(k)}
  OBVIOUS
<1>9. \A j \in joints : ~Touches(j, brace) /\ ToSet(j.ends) \cap island # {} => ToSet(j.ends) \subseteq island
  BY <1>6, <1>8
<1>10. ~StandsOn(start, brace, joints)
 <2>1. PICK all : all = Parts \ {brace}
   OBVIOUS
 <2>2. all = (UNION {ToSet(j.ends) : j \in FrameJoints}) \ {brace}
   BY <2>1 DEF Parts
 <2>3. ASSUME StandsOn(start, brace, joints) PROVE FALSE
  <3>1. \A i \in SUBSET all :
           (/\ start \in i
            /\ \A j \in joints : ~Touches(j, brace) /\ ToSet(j.ends) \cap i # {}
                 => ToSet(j.ends) \subseteq i)
           => i \cap frame.grounded # {}
    BY <2>2, <2>3 DEF StandsOn
  <3> QED BY <1>4, <1>7, <1>9, <2>1, <3>1
 <2> QED BY <2>3
<1> QED BY <1>8, <1>10

----
\* Two ends.
LEMMA TwoEnds ==
    ASSUME frame \in Frames, NEW t, Cardinality(BraceEnds(t)) >= 2
    PROVE  \E i, j \in BraceEnds(t) : i # j
<1> SUFFICES ASSUME \A i, j \in BraceEnds(t) : i = j PROVE FALSE
  OBVIOUS
<1>2. BraceEnds(t) # {}
 <2>1. Cardinality({}) = 0
   BY FS_EmptySet
 <2> QED BY <2>1
<1>3. PICK i \in BraceEnds(t) : TRUE
  BY <1>2
<1>4. BraceEnds(t) = {i}
  BY <1>3
<1>5. Cardinality(BraceEnds(t)) = 1
  BY <1>4, FS_Singleton
<1> QED BY <1>5

\* An end is a joint of the brace, and leads to something else.
LEMMA EndsAre ==
    ASSUME frame \in Frames, NEW t, NEW j \in BraceEnds(t)
    PROVE  /\ j \in BraceJoints(t.component) /\ j \in FrameJoints
           /\ Across(j, t.component) \in Parts /\ Across(j, t.component) # t.component
<1>1. j \in BraceJoints(t.component) /\ j \in FrameJoints /\ Touches(j, t.component) /\ IsJoint(j)
  BY FrameFacts DEF BraceEnds, BraceJoints
<1>2. Across(j, t.component) # t.component /\ Touches(j, Across(j, t.component))
  BY <1>1, JointEnds
<1> QED BY <1>1, <1>2 DEF Parts, Touches

\* A brace with two joints has two ends.
LEMMA EndsOfMany ==
    ASSUME frame \in Frames, NEW t, Cardinality(BraceEnds(t)) < 2
    PROVE  Cardinality(BraceJoints(t.component)) < 2
<1>1. PICK B : B = BraceJoints(t.component)
  OBVIOUS
<1>2. B \subseteq FrameJoints /\ IsFiniteSet(B) /\ Cardinality(B) \in Nat
 <2>1. B \subseteq FrameJoints
   BY <1>1 DEF BraceJoints
 <2> QED BY <2>1, FrameFacts, FS_Subset, FS_CardinalityType
<1>3. \A j \in B : j.id \in Nat
  BY <1>2, FrameFacts DEF IsJoint
<1>5. BraceEnds(t) = {j \in B : Cardinality({k \in B : k.id < j.id}) < 2}
  BY <1>1 DEF BraceEnds
<1> SUFFICES ASSUME Cardinality(B) >= 2 PROVE FALSE
  BY <1>1, <1>2
<1>6. B # {}
 <2>1. Cardinality({}) = 0
   BY FS_EmptySet
 <2> QED BY <2>1
<1>7. PICK i \in B : \A k \in B : i.id <= k.id
 <2>1. PICK N : N = {k.id : k \in B}
   OBVIOUS
 <2>2. N \in SUBSET Nat /\ N # {}
   BY <1>3, <1>6, <2>1
 <2>3. PICK x \in N : \A y \in N : x <= y
   BY <2>2, LeastNatural
 <2> QED BY <2>1, <2>3
<1>8. PICK C : C = B \ {i}
  OBVIOUS
<1>9. IsFiniteSet(C) /\ Cardinality(C) = Cardinality(B) - 1
  BY <1>2, <1>7, <1>8, FS_RemoveElement
<1>10. C # {}
 <2>1. Cardinality({}) = 0
   BY FS_EmptySet
 <2> QED BY <1>2, <1>9, <2>1
<1>11. PICK j \in C : \A k \in C : j.id <= k.id
 <2>1. PICK N : N = {k.id : k \in C}
   OBVIOUS
 <2>2. N \in SUBSET Nat /\ N # {}
   BY <1>3, <1>8, <1>10, <2>1
 <2>3. PICK x \in N : \A y \in N : x <= y
   BY <2>2, LeastNatural
 <2> QED BY <2>1, <2>3
<1>12. i # j /\ j \in B
  BY <1>8, <1>11
<1>13. i \in BraceEnds(t)
 <2>1. {k \in B : k.id < i.id} = {}
  <3>1. \A k \in B : ~(k.id < i.id)
    BY <1>3, <1>7
  <3> QED BY <3>1
 <2>2. Cardinality({k \in B : k.id < i.id}) = 0
   BY <2>1, FS_EmptySet
 <2> QED BY <1>5, <1>7, <2>2
<1>14. j \in BraceEnds(t)
 <2>1. {k \in B : k.id < j.id} \subseteq {i}
  <3>1. \A k \in C : ~(k.id < j.id)
    BY <1>3, <1>8, <1>11
  <3> QED BY <1>8, <3>1
 <2>2. IsFiniteSet({i}) /\ Cardinality({i}) = 1
   BY FS_Singleton
 <2>3. Cardinality({k \in B : k.id < j.id}) \in Nat /\ Cardinality({k \in B : k.id < j.id}) <= 1
   BY <2>1, <2>2, FS_Subset, FS_CardinalityType
 <2> QED BY <1>5, <1>12, <2>3
<1>15. IsFiniteSet(BraceEnds(t)) /\ Cardinality(BraceEnds(t)) \in Nat
 <2>1. BraceEnds(t) \subseteq B
   BY <1>5
 <2> QED BY <1>2, <2>1, FS_Subset, FS_CardinalityType
<1>16. Cardinality({i, j}) = 2 /\ {i, j} \subseteq BraceEnds(t)
 <2>1. IsFiniteSet({i}) /\ Cardinality({i}) = 1 /\ j \notin {i}
   BY <1>12, FS_Singleton
 <2>2. Cardinality({i} \cup {j}) = 2
   BY <2>1, FS_AddElement
 <2>3. {i} \cup {j} = {i, j}
   OBVIOUS
 <2> QED BY <1>13, <1>14, <2>2, <2>3
<1>17. 2 <= Cardinality(BraceEnds(t))
  BY <1>15, <1>16, FS_Subset
<1> QED BY <1>15, <1>17

\* What passes, and what stands on it.
Passing == {j \in FrameJoints : jointCheck[j.id].status = "pass"}

Leg(t, j) == PathsFrom(Across(j, t.component), t.component)

\* What the verdict on a brace says of the frame.
TraceShows(t, verdict) ==
    /\ verdict = "pass" => HeldByTwo(t.component, Passing)
    /\ verdict = "blocked" =>
          \/ Cardinality(BraceJoints(t.component)) < 2
          \/ \E j \in BraceJoints(t.component) :
                ~StandsOn(Across(j, t.component), t.component, {k \in FrameJoints : Carries(k)})

Route(t) == UNION {{j.id} \cup Head(Leg(t, j)).via : j \in BraceEnds(t)}

\* The trace, without its data.
LEMMA TraceIs ==
    ASSUME NEW t
    PROVE  /\ Trace(t) = "blocked" =>
                 Cardinality(BraceEnds(t)) < 2 \/ \E j \in BraceEnds(t) : Leg(t, j) = <<>>
           /\ Trace(t) = "pass" =>
                 /\ ~(Cardinality(BraceEnds(t)) < 2)
                 /\ \A j \in BraceEnds(t) : Leg(t, j) # <<>>
                 /\ \A id \in Route(t) : jointCheck[id].status = "pass"
           /\ Trace(t) \in {"pass", "fail", "candidate", "blocked"}
<1>1. PICK verdicts : verdicts = {jointCheck[id].status : id \in Route(t)}
  OBVIOUS
<1>2. Trace(t) =
         IF Cardinality(BraceEnds(t)) < 2 \/ \E j \in BraceEnds(t) : Leg(t, j) = <<>> THEN "blocked"
         ELSE IF tieCheck[t] = "fail" \/ "fail" \in verdicts THEN "fail"
         ELSE IF verdicts # {"pass"} \/ tieCheck[t] # "pass" \/ EndStatus(t) # "verified"
         THEN "candidate" ELSE "pass"
  BY <1>1, Zenon DEF Trace, Route, Leg
<1>3. verdicts = {"pass"} => \A id \in Route(t) : jointCheck[id].status = "pass"
  BY <1>1
<1> QED BY <1>2, <1>3

\* The verdict of a trace is true of the frame: the search proves it.
LEMMA TraceTells ==
    ASSUME frame \in Frames, NEW t
    PROVE  TraceShows(t, Trace(t))
<1>1. ASSUME Trace(t) = "blocked"
      PROVE  \/ Cardinality(BraceJoints(t.component)) < 2
             \/ \E j \in BraceJoints(t.component) :
                   ~StandsOn(Across(j, t.component), t.component, {k \in FrameJoints : Carries(k)})
 <2>1. CASE Cardinality(BraceEnds(t)) < 2
   BY <2>1, EndsOfMany
 <2>2. CASE \E j \in BraceEnds(t) : Leg(t, j) = <<>>
  <3>1. PICK j \in BraceEnds(t) : Leg(t, j) = <<>>
    BY <2>2
  <3>2. PICK c, a : c = t.component /\ a = Across(j, t.component)
    OBVIOUS
  <3>3. a \in Parts /\ a # c /\ j \in BraceJoints(t.component) /\ PathsFrom(a, c) = <<>>
    BY <3>1, <3>2, EndsAre DEF Leg
  <3>4. ~StandsOn(a, c, {k \in FrameJoints : Carries(k)})
    BY <3>3, NothingFound
  <3> QED BY <3>2, <3>3, <3>4
 <2> QED BY <1>1, <2>1, <2>2, TraceIs
<1>2. ASSUME Trace(t) = "pass" PROVE HeldByTwo(t.component, Passing)
 <2>1. /\ ~(Cardinality(BraceEnds(t)) < 2)
       /\ \A j \in BraceEnds(t) : Leg(t, j) # <<>>
       /\ \A id \in Route(t) : jointCheck[id].status = "pass"
   BY <1>2, TraceIs
 <2>2. PICK c : c = t.component
   OBVIOUS
 <2>3. PICK joints : joints = {k \in Passing : Carries(k)}
   OBVIOUS
 <2>4. ASSUME NEW j \in BraceEnds(t)
       PROVE  j \in BraceJoints(c) \cap Passing /\ StandsOn(Across(j, c), c, joints)
  <3>1. PICK a : a = Across(j, c)
    OBVIOUS
  <3>2. a \in Parts /\ a # c /\ j \in BraceJoints(c) /\ j \in FrameJoints /\ Leg(t, j) = PathsFrom(a, c)
    BY <2>2, <3>1, EndsAre DEF Leg
  <3>3. PICK via : via = Head(PathsFrom(a, c)).via
    OBVIOUS
  <3>4. {j.id} \cup via \subseteq Route(t)
    BY <3>2, <3>3 DEF Route
  <3>5. j \in Passing
    BY <2>1, <3>2, <3>4 DEF Passing
  <3>6. PathsFrom(a, c) # <<>>
    BY <2>1, <3>2
  <3>7. \A id \in via : \E k \in FrameJoints : k.id = id /\ Carries(k)
    BY <3>2, <3>3, <3>6, PathsFound
  <3>8. Along(via) \subseteq joints
   <4>1. ASSUME NEW k \in Along(via) PROVE k \in joints
    <5>1. k \in FrameJoints /\ k.id \in via
      BY <4>1 DEF Along
    <5>2. Carries(k)
      BY <3>7, <5>1, FrameFacts
    <5>3. k \in Passing
      BY <2>1, <3>4, <5>1 DEF Passing
    <5> QED BY <2>3, <5>2, <5>3
   <4> QED BY <4>1
  <3>9. StandsOn(a, c, joints)
    BY <3>2, <3>3, <3>6, <3>8, PathsFound
  <3> QED BY <3>1, <3>2, <3>5, <3>9
 <2>5. Cardinality(BraceEnds(t)) >= 2
  <3>1. BraceEnds(t) \subseteq FrameJoints
    BY DEF BraceEnds, BraceJoints
  <3>2. Cardinality(BraceEnds(t)) \in Nat
    BY <3>1, FrameFacts, FS_Subset, FS_CardinalityType
  <3> QED BY <2>1, <3>2
 <2>6. PICK i, j \in BraceEnds(t) : i # j
   BY <2>5, TwoEnds
 <2>7. HeldByTwo(c, Passing)
   BY <2>3, <2>4, <2>6 DEF HeldByTwo
 <2> QED BY <2>2, <2>7
<1> QED BY <1>1, <1>2 DEF TraceShows

----
\* What depends on the frame alone stays with it.
LEMMA SameFrame ==
    ASSUME frame' = frame
    PROVE  /\ FrameJoints' = FrameJoints /\ Parts' = Parts
           /\ \A c : BraceJoints(c)' = BraceJoints(c)
           /\ WindLoads' = WindLoads
<1>1. FrameJoints' = FrameJoints
  BY DEF FrameJoints, ToSet
<1>2. Parts' = Parts
  BY <1>1 DEF Parts, ToSet
<1>3. ASSUME NEW c PROVE BraceJoints(c)' = BraceJoints(c)
  BY <1>1 DEF BraceJoints, Carries, Touches, ToSet
<1>4. WindLoads' = WindLoads
  BY DEF WindLoads
<1> QED BY <1>1, <1>2, <1>3, <1>4

LEMMA StandsKept ==
    ASSUME frame' = frame, NEW c, NEW brace, NEW joints
    PROVE  StandsOn(c, brace, joints)' <=> StandsOn(c, brace, joints)
<1>1. frame.grounded' = frame.grounded
  OBVIOUS
<1>2. PICK all : all = Parts \ {brace}
  OBVIOUS
<1>3. all = (UNION {ToSet(j.ends) : j \in FrameJoints}) \ {brace}
      /\ all = (UNION {ToSet(j.ends)' : j \in FrameJoints'}) \ {brace}
  BY <1>2, SameFrame DEF Parts, ToSet
<1> QED BY <1>1, <1>3 DEF StandsOn, Touches, ToSet

LEMMA HeldKept ==
    ASSUME frame' = frame, NEW c, NEW joints
    PROVE  HeldByTwo(c, joints)' <=> HeldByTwo(c, joints)
<1>1. \A a, k : StandsOn(a, c, k)' <=> StandsOn(a, c, k)
  BY StandsKept
<1> QED BY <1>1, SameFrame DEF HeldByTwo, Across, Carries

LEMMA TraceKept ==
    ASSUME frame' = frame, jointCheck' = jointCheck, NEW t, NEW verdict
    PROVE  TraceShows(t, verdict)' <=> TraceShows(t, verdict)
<1>1. PICK passing : passing = Passing /\ passing = Passing'
  BY SameFrame DEF Passing
<1>2. PICK carrying : carrying = {k \in FrameJoints : Carries(k)}
                      /\ carrying = {k \in FrameJoints' : Carries(k)'}
  BY SameFrame DEF Carries
<1>3. PICK c : c = t.component
  OBVIOUS
<1>4. \A x, k : HeldByTwo(x, k)' <=> HeldByTwo(x, k)
  BY HeldKept
<1>5. \A a, x, k : StandsOn(a, x, k)' <=> StandsOn(a, x, k)
  BY StandsKept
<1>6. HeldByTwo(t.component, Passing)' <=> HeldByTwo(t.component, Passing)
  BY <1>1, <1>4
<1>7. ASSUME NEW j
      PROVE  StandsOn(Across(j, t.component), t.component, {k \in FrameJoints : Carries(k)})'
             <=> StandsOn(Across(j, t.component), t.component, {k \in FrameJoints : Carries(k)})
  BY <1>2, <1>5 DEF Across
<1>8. BraceJoints(t.component)' = BraceJoints(t.component)
  BY SameFrame
<1> QED BY <1>6, <1>7, <1>8 DEF TraceShows

----
\* The calculation that decides for a joint is one that has a status; on the ground it is
\* of an anchored kind if the fixture has one.
AnchoredFirst(j, kind) ==
    GroundsOf(j) # {} /\ AnchoredFixture(j) # "none" => kind \in {"fixture", "direct"}

LEMMA CalculatedIs ==
    ASSUME NEW j
    PROVE  \/ /\ Calculated(j).status = "none"
              /\ \A n \in 1..5 : Calculations(j)[n].status = "none"
           \/ \E n \in DOMAIN Calculations(j) :
                 /\ Calculated(j) = Calculations(j)[n] /\ Calculations(j)[n].status # "none"
                 /\ AnchoredFirst(j, Calculations(j)[n].kind)
<1>1. PICK all : all = Calculations(j)
  OBVIOUS
<1>2. DOMAIN all = 1..5 /\ all[4].kind = "fixture" /\ all[4].status = AnchoredFixture(j)
  BY <1>1 DEF Calculations
<1>3. ASSUME NEW best, best \subseteq {n \in DOMAIN all : all[n].status # "none"}, best # {}
      PROVE  Earliest(best) \in best
 <2>1. best \in SUBSET Nat
   BY <1>2, <1>3
 <2>2. \E n \in best : \A m \in best : n <= m
   BY <1>3, <2>1, LeastNatural
 <2> QED BY <2>2 DEF Earliest
<1> DEFINE found == {n \in DOMAIN all : all[n].status # "none"}
           whole == {n \in found : all[n].status # "unsupported"}
           anchored == {n \in found : GroundsOf(j) # {} /\ all[n].kind \in {"fixture", "direct"}}
           best == IF anchored # {} THEN anchored ELSE IF whole # {} THEN whole ELSE found
<1>4. Calculated(j) = IF best = {} THEN [kind |-> "none", status |-> "none"] ELSE all[Earliest(best)]
  BY <1>1, Zenon DEF Calculated
<1>5. best \subseteq found /\ (best = {} => found = {})
  OBVIOUS
<1>6. ASSUME NEW n \in best PROVE AnchoredFirst(j, all[n].kind)
 <2> SUFFICES ASSUME GroundsOf(j) # {}, AnchoredFixture(j) # "none"
              PROVE  all[n].kind \in {"fixture", "direct"}
   BY DEF AnchoredFirst
 <2>1. 4 \in anchored
   BY <1>2
 <2>2. best = anchored
   BY <2>1
 <2> QED BY <2>2
<1> HIDE DEF best
<1>7. CASE best = {}
 <2>1. \A n \in 1..5 : all[n].status = "none"
   BY <1>2, <1>5, <1>7
 <2> QED BY <1>1, <1>4, <1>7, <2>1
<1>8. CASE best # {}
 <2>1. Earliest(best) \in best /\ Earliest(best) \in found
   BY <1>3, <1>5, <1>8
 <2>2. AnchoredFirst(j, all[Earliest(best)].kind)
   BY <1>6, <2>1
 <2> QED BY <1>1, <1>4, <1>8, <2>1, <2>2
<1> QED BY <1>7, <1>8

\* The calculations that can decide, and those that the connectors select.
CalculatedKinds == {"cleat", "screw", "gusset", "fixture", "direct"}
IsCalculated(j) ==
    \/ j.kinds \cap {"cleat", "screw", "gusset", "fixture"} # {}
    \/ j.kinds = {"anchor"} /\ j.connectors = 1

LEMMA PartTells ==
    ASSUME NEW j
    PROVE  /\ AnchorGroup(j) \in {"none", "unsupported", "fail", "pass"}
           /\ BoltedSheet(j) \in {"none", "unsupported", "fail", "pass"}
           /\ AnchorGroup(j) \in {"fail", "pass"} =>
                 "anchor" \in j.kinds \ j.lacking /\ Cardinality(GroundsOf(j)) = 1
           /\ AnchorGroup(j) = "pass" => "anchor" \notin j.over \cup j.poor
           /\ AnchorGroup(j) = "none" => "anchor" \notin j.kinds
           /\ BoltedSheet(j) \in {"fail", "pass"} => "bolts" \in j.kinds \ j.lacking
           /\ BoltedSheet(j) = "pass" => "bolts" \notin j.over \cup j.poor
  BY DEF AnchorGroup, BoltedSheet, Rated, IsKnown, FallsShort

LEMMA StatusTells ==
    ASSUME NEW j
    PROVE  /\ \A n \in 1..5 : Calculations(j)[n].status \in {"none", "unsupported", "fail", "pass"}
           /\ IsCalculated(j) => \E n \in 1..5 : Calculations(j)[n].status # "none"
           /\ "fixture" \in j.kinds => AnchoredFixture(j) # "none"
           /\ ~IsCalculated(j) => \A n \in 1..5 : Calculations(j)[n].status = "none"
<1> USE DEF Rated, IsKnown, FallsShort
<1>1. /\ Cleat(j) \in {"none", "unsupported", "fail", "pass"}
      /\ Cleat(j) = "none" <=> "cleat" \notin j.kinds
  BY DEF Cleat
<1>2. /\ Screw(j) \in {"none", "unsupported", "fail", "pass"}
      /\ Screw(j) = "none" <=> "screw" \notin j.kinds
  BY DEF Screw
<1>3. /\ Gusset(j) \in {"none", "unsupported", "fail", "pass"}
      /\ Gusset(j) = "none" <=> "gusset" \notin j.kinds
  BY DEF Gusset
<1>4. /\ AnchoredFixture(j) \in {"none", "unsupported", "fail", "pass"}
      /\ AnchoredFixture(j) = "none" <=> "fixture" \notin j.kinds
  BY PartTells DEF AnchoredFixture
<1>5. /\ DirectAnchor(j) \in {"none", "unsupported", "fail", "pass"}
      /\ DirectAnchor(j) = "none" <=> ~(j.kinds = {"anchor"} /\ j.connectors = 1)
  BY PartTells DEF DirectAnchor, IsDirect
<1>6. /\ Calculations(j)[1].status = Cleat(j) /\ Calculations(j)[2].status = Screw(j)
      /\ Calculations(j)[3].status = Gusset(j) /\ Calculations(j)[4].status = AnchoredFixture(j)
      /\ Calculations(j)[5].status = DirectAnchor(j)
  BY DEF Calculations
<1>7. \A n \in 1..5 : n = 1 \/ n = 2 \/ n = 3 \/ n = 4 \/ n = 5
  OBVIOUS
<1> QED BY <1>1, <1>2, <1>3, <1>4, <1>5, <1>6, <1>7 DEF IsCalculated

\* A calculation that passes or fails is about the joint and knows its parts; one that
\* passes has found them within their resistance.
Decides(kind, j) ==
    kind \in CalculatedKinds /\ IsAbout(kind, j) /\ PartsOf(kind) \cap j.lacking = {}

LEMMA CalculationTells ==
    ASSUME HasUltimate, NEW j, ~AssertionRaises(j),
           NEW n \in 1..5, NEW c, c = Calculations(j)[n], AnchoredFirst(j, c.kind)
    PROVE  /\ c.status \in {"pass", "fail"} => Decides(c.kind, j)
           /\ c.status = "pass" => PartsOf(c.kind) \cap (j.over \cup j.poor) = {}
<1> USE DEF Rated, IsKnown, FallsShort, Bends
<1>1. GroundsOf(j) # {} /\ "fixture" \in j.kinds /\ j.kinds # {"anchor"} /\ c.kind # "direct"
         => c.kind = "fixture"
  BY StatusTells DEF AnchoredFirst
<1>2. CASE n = 1
 <2>1. c.kind = "cleat" /\ c.status = Cleat(j) /\ PartsOf(c.kind) = {"cleat"}
   BY <1>2 DEF Calculations, PartsOf
 <2> QED BY <1>1, <2>1 DEF Cleat, Decides, IsAbout, CalculatedKinds
<1>3. CASE n = 2
 <2>1. c.kind = "screw" /\ c.status = Screw(j) /\ PartsOf(c.kind) = {"screw"}
   BY <1>3 DEF Calculations, PartsOf
 <2> QED BY <1>1, <2>1 DEF Screw, Decides, IsAbout, CalculatedKinds
<1>4. CASE n = 3
 <2>1. c.kind = "gusset" /\ c.status = Gusset(j) /\ PartsOf(c.kind) = {"gusset"}
   BY <1>4 DEF Calculations, PartsOf
 <2> QED BY <1>1, <2>1 DEF Gusset, Decides, IsAbout, CalculatedKinds
<1>5. CASE n = 4
 <2>1. c.kind = "fixture" /\ c.status = AnchoredFixture(j)
       /\ PartsOf(c.kind) = {"fixture", "anchor", "bolts"}
   BY <1>5 DEF Calculations, PartsOf
 <2>2. c.status \in {"pass", "fail"} =>
         /\ "fixture" \in j.kinds \ j.lacking /\ "moment" \notin j.transfers
         /\ AnchorGroup(j) \in {"fail", "pass"} /\ BoltedSheet(j) \in {"fail", "pass"}
   BY <2>1, PartTells DEF AnchoredFixture
 <2>3. c.status = "pass" =>
         /\ AnchorGroup(j) = "pass" /\ BoltedSheet(j) = "pass" /\ "fixture" \notin j.over \cup j.poor
   BY <2>1, <2>2, PartTells DEF AnchoredFixture
 <2> QED BY <2>1, <2>2, <2>3, PartTells DEF Decides, IsAbout, CalculatedKinds
<1>6. CASE n = 5
 <2>1. c.kind = "direct" /\ c.status = DirectAnchor(j) /\ PartsOf(c.kind) = {"direct", "anchor"}
   BY <1>6 DEF Calculations, PartsOf
 <2>2. c.status \in {"pass", "fail"} =>
         /\ j.kinds = {"anchor"} /\ j.connectors = 1 /\ "direct" \notin j.lacking
         /\ "moment" \notin j.transfers /\ AnchorGroup(j) \in {"fail", "pass"}
   BY <2>1, PartTells DEF DirectAnchor, DirectIsWhole, IsDirect, AssertionRaises
 <2>3. c.status = "pass" => AnchorGroup(j) = "pass" /\ "direct" \notin j.over \cup j.poor
   BY <2>1, <2>2 DEF DirectAnchor
 <2> QED BY <2>1, <2>2, <2>3, PartTells DEF Decides, IsAbout, CalculatedKinds
<1> QED BY <1>2, <1>3, <1>4, <1>5, <1>6

LEMMA CalculatedType ==
    ASSUME NEW j
    PROVE  /\ Calculated(j).status \in {"none", "unsupported", "fail", "pass"}
           /\ Calculated(j).status # "none" <=> IsCalculated(j)
<1>1. DOMAIN Calculations(j) = 1..5
  BY DEF Calculations
<1> QED BY <1>1, CalculatedIs, StatusTells

LEMMA CalculatedTells ==
    ASSUME HasUltimate, NEW j, ~AssertionRaises(j)
    PROVE  /\ Calculated(j).status \in {"pass", "fail"} => Decides(Calculated(j).kind, j)
           /\ Calculated(j).status = "pass" =>
                 PartsOf(Calculated(j).kind) \cap (j.over \cup j.poor) = {}
<1>1. DOMAIN Calculations(j) = 1..5
  BY DEF Calculations
<1>2. CASE Calculated(j).status = "none"
  BY <1>2
<1>3. CASE Calculated(j).status # "none"
 <2>1. PICK n \in 1..5 : /\ Calculated(j) = Calculations(j)[n]
                         /\ AnchoredFirst(j, Calculations(j)[n].kind)
   BY <1>1, <1>3, CalculatedIs
 <2> QED BY <2>1, CalculationTells
<1> QED BY <1>2, <1>3

\* The tie at a joint is one of the frame, and there is no other.
LEMMA TieAtIs ==
    ASSUME NEW j, NEW t \in TieAt(j), IsFiniteSet(frame.ties)
    PROVE  t \in frame.ties /\ TieAt(j) = {t}
<1> DEFINE naming == {s \in frame.ties : j.id \in s.named}
           meeting == {s \in frame.ties : Touches(j, s.component)}
<1>1. TieAt(j) = IF j.pack # "none" \/ ~(j.transfers \subseteq {"force"}) THEN {}
                 ELSE IF naming # {} THEN {CHOOSE s \in naming : TRUE}
                 ELSE IF Cardinality(meeting) = 1 THEN meeting ELSE {}
  BY Zenon DEF TieAt
<1>2. naming # {} => (CHOOSE s \in naming : TRUE) \in naming
  OBVIOUS
<1>3. meeting \subseteq frame.ties /\ naming \subseteq frame.ties
  OBVIOUS
<1>4. Cardinality(meeting) = 1 => \E s : meeting = {s}
 <2>1. IsFiniteSet(meeting)
   BY <1>3, FS_Subset
 <2> HIDE DEF meeting
 <2> QED BY <2>1, FS_Singleton
<1> HIDE DEF naming, meeting
<1> QED BY <1>1, <1>2, <1>3, <1>4

\* A fastener that qualifies was tested strong.
LEMMA QualifiedTells ==
    ASSUME NEW t, IsTie(t)
    PROVE  /\ EndStatus(t) = "verified" /\ Qualification(t) # "fail" => EndIsRated(t)
           /\ EndIsRated(t) => Qualification(t) = "pass" /\ FastenersHold(t)
<1>1. Qualification(t) = "pass" =>
         /\ t.tested = "high" /\ t.verified /\ t.same /\ t.details /\ t.bears /\ t.count # 0
  BY DEF Qualification, OneProduct, IsTie
<1>2. EndIsRated(t) => Qualification(t) = "pass"
  BY DEF EndIsRated
<1>3. EndIsRated(t) => FastenersHold(t)
  BY <1>1, <1>2 DEF EndIsRated, LayoutMatches, FastenersHold
<1>4. EndStatus(t) = "verified" /\ Qualification(t) # "fail" => EndIsRated(t)
  BY DEF EndStatus
<1> QED BY <1>2, <1>3, <1>4

\* A joint that passes is sound, whichever of the verdicts decided.
LEMMA JointTells ==
    ASSUME frame \in Frames, NEW j \in FrameJoints, ~AssertionRaises(j), JointStatus(j) = "pass"
    PROVE  Sound(j)
<1>1. IsJoint(j) /\ IsFiniteSet(frame.ties) /\ \A t \in frame.ties : IsTie(t)
 <2>1. IsJoint(j) /\ IsFrame(frame)
   BY FrameFacts
 <2> QED BY <2>1 DEF IsFrame
<1>2. HasUltimate /\ (j.pack = "none" \/ (j.pack = "verified" /\ j.same))
 <2>1. HasUltimate
   BY DEF JointStatus
 <2>2. j.pack # "candidate" /\ ~(j.pack = "verified" /\ ~j.same)
   BY DEF JointStatus
 <2> QED BY <1>1, <2>1, <2>2 DEF IsJoint
<1>3. PICK c : c = Calculated(j)
  OBVIOUS
<1>4. /\ c.status \in {"none", "unsupported", "fail", "pass"}
      /\ c.status # "none" <=> IsCalculated(j)
      /\ c.status \in {"pass", "fail"} => Decides(c.kind, j)
      /\ c.status = "pass" => PartsOf(c.kind) \cap (j.over \cup j.poor) = {}
  BY <1>2, <1>3, CalculatedType, CalculatedTells
<1>5. CASE TieAt(j) # {}
 <2>1. PICK t : t = (CHOOSE s \in TieAt(j) : TRUE)
   OBVIOUS
 <2>2. t \in TieAt(j) /\ TieAt(j) = {t} /\ IsTie(t)
  <3>1. t \in TieAt(j)
    BY <1>5, <2>1
  <3>2. t \in frame.ties /\ TieAt(j) = {t}
    BY <1>1, <3>1, TieAtIs
  <3> QED BY <1>1, <3>1, <3>2
 <2>3. TieJoint(j, t) = "pass"
   BY <1>5, <2>1, Zenon DEF JointStatus
 <2>4. /\ Qualification(t) # "fail" /\ EndStatus(t) = "verified" /\ c.status # "unsupported"
       /\ c.status # "none" => ~Exceeded(j, c.kind)
       /\ c.status = "none" => t.load # "over"
   BY <1>3, <2>3 DEF TieJoint
 <2>5. \A s \in TieAt(j) : FastenersHold(s)
   BY <2>2, <2>4, QualifiedTells
 <2>6. CASE c.status = "none"
  <3>1. t.load = "ok" /\ ~IsCalculated(j)
    BY <1>4, <2>2, <2>4, <2>6 DEF IsTie
  <3> QED BY <1>2, <2>2, <2>5, <3>1 DEF Sound, IsCalculated
 <2>7. CASE c.status # "none"
  <3>1. Decides(c.kind, j) /\ ~Exceeded(j, c.kind) /\ IsCalculated(j)
    BY <1>4, <2>4, <2>7
  <3>2. c.kind \in CalculatedKinds /\ Shows(c.kind, j)
    BY <1>5, <3>1 DEF Decides, Exceeded, Shows
  <3> QED BY <1>2, <2>5, <3>1, <3>2 DEF Sound, IsCalculated, CalculatedKinds
 <2> QED BY <2>6, <2>7
<1>6. CASE TieAt(j) = {} /\ c.status # "none"
 <2>1. c.status = "pass"
   BY <1>3, <1>6 DEF JointStatus
 <2>2. c.kind \in CalculatedKinds /\ Shows(c.kind, j) /\ IsCalculated(j)
   BY <1>4, <2>1 DEF Decides, Shows
 <2> QED BY <1>2, <1>6, <2>2 DEF Sound, IsCalculated, CalculatedKinds
<1>7. CASE TieAt(j) = {} /\ c.status = "none"
 <2>1. j.pack = "verified" /\ j.load = "ok" /\ ~IsCalculated(j)
   BY <1>1, <1>3, <1>4, <1>7 DEF JointStatus, IsJoint
 <2> QED BY <1>2, <1>7, <2>1 DEF Sound, IsCalculated
<1> QED BY <1>5, <1>6, <1>7

\* So is a tie.
LEMMA TieTells ==
    ASSUME NEW t, IsTie(t), TieStatus(t) = "pass"
    PROVE  t.member = "ok" /\ t.load = "ok"
<1>1. HasUltimate /\ ~TieIsOver(t) /\ t.member # "unknown" /\ EndStatus(t) = "verified"
      /\ Qualification(t) # "fail"
  BY DEF TieStatus
<1>2. EndIsRated(t)
  BY <1>1, QualifiedTells
<1> QED BY <1>1, <1>2 DEF TieIsOver, IsTie

\* A tie is found at a joint in the same way as long as the frame stays.
LEMMA SoundKept ==
    ASSUME frame' = frame, NEW j
    PROVE  Sound(j)' <=> Sound(j)
<1>1. PICK naming : naming = {t \in frame.ties : j.id \in t.named}
                    /\ naming = {t \in frame'.ties : j.id \in t.named}
  OBVIOUS
<1>2. PICK meeting : meeting = {t \in frame.ties : Touches(j, t.component)}
                 /\ meeting = {t \in frame'.ties : Touches(j, t.component)'}
  BY DEF Touches, ToSet
<1>3. TieAt(j)' = TieAt(j)
  BY <1>1, <1>2 DEF TieAt
<1>4. ASSUME NEW t PROVE FastenersHold(t)' <=> FastenersHold(t)
 <2>1. EndsOf(t)' = EndsOf(t)
   BY SameFrame DEF EndsOf, Carries, Touches, ToSet
 <2> QED BY <2>1 DEF FastenersHold
<1>5. ASSUME NEW kind PROVE Shows(kind, j)' <=> Shows(kind, j)
 <2>1. GroundsOf(j)' = GroundsOf(j)
   BY DEF GroundsOf, ToSet
 <2>2. IsAbout(kind, j)' <=> IsAbout(kind, j)
   BY <2>1 DEF IsAbout, PartsOf
 <2> QED BY <1>3, <2>2 DEF Shows, PartsOf
<1> QED BY <1>3, <1>4, <1>5 DEF Sound

----
\* The stages from one on.
Decided == {"evidence"}
SinceAssembly == {"assembled"} \cup Decided
SinceDeflections == {"member_diagrams"} \cup SinceAssembly
SinceRestraints == {"member_stability"} \cup SinceDeflections
SinceTraces == {"bracing"} \cup SinceRestraints
SinceJoints == {"connections"} \cup SinceTraces
SinceTies == {"tension_members"} \cup SinceJoints

TiesShow ==
    DOMAIN tieCheck = frame.ties
    /\ \A t \in frame.ties : tieCheck[t] = "pass" => t.member = "ok" /\ t.load = "ok"

JointsShow ==
    DOMAIN jointCheck = {j.id : j \in FrameJoints}
    /\ \A j \in FrameJoints : jointCheck[j.id].status = "pass" => Sound(j)

TracesShow ==
    DOMAIN braceTrace = frame.ties
    /\ \A t \in frame.ties : TraceShows(t, braceTrace[t])

\* A candidate does its part in a combination, or its member needs none.
Restrains(c, k) ==
    \/ c.member \in {s.member : s \in frame.segments}
    \/ (c.anchored \/ c.pack = "none" \/ (c.ground /\ c.route # {})) /\ c.demand[k] = "ok"

RestraintsShow ==
    frame.memberCombos # {} => \A c \in frame.candidates, k \in frame.memberCombos \cup {active.id} :
        \E r \in restraintCheck : r.status \in {"pass", "not_required"} => Restrains(c, k)

Stiff == "pass" \in deflection /\ {"fail", "not_checked"} \cap deflection = {}
SpansStiff ==
    active.limit = "serviceability" /\ "ok" \in frame.spans /\ frame.spans \subseteq {"ok", "axial"}

WindStands ==
    /\ \A l \in WindLoads : l.linked /\ l.coefficient = "verified" /\ l.path # "blocked"
    /\ frame.wind \subseteq {"verified"} /\ (frame.wind # {} => WindLoads # {})

EvidenceShows ==
    /\ evidence.actions = "pass" => WindStands
    /\ evidence.cross_section = "pass" =>
          frame.envelope # {} /\ frame.sections \subseteq {"ok", "skipped"}
    /\ evidence.member_stability = "pass" =>
          frame.memberCombos # {} /\ \A s \in frame.segments : s.outcome = "ok"
    /\ evidence.bracing = "pass" =>
          /\ \A t \in DOMAIN braceTrace : braceTrace[t] = "pass"
          /\ \A r \in restraintCheck : r.status \in {"pass", "not_required"}
    /\ evidence.connections = "pass" => \A id \in DOMAIN jointCheck : jointCheck[id].status = "pass"
    /\ evidence.serviceability = "pass" => Stiff

\* What the gates ask for before a certificate is drafted.
GatesShow ==
    gate.document = "certificate_draft_ready" =>
        /\ stage = "evidence" /\ frame.balanced /\ frame.actionPack = "verified"
        /\ \A s \in {"actions", "cross_section", "member_stability", "bracing", "connections",
                     "serviceability"} : evidence[s] = "pass"
        /\ \A t \in DOMAIN tieCheck : tieCheck[t] = "pass"

\* The results are of one of the combinations.
CombinationNames == {Combinations[n].id : n \in DOMAIN Combinations}
ActiveIsOne == \E n \in DOMAIN Combinations : active = Keep(Combinations[n])

ChecksInv ==
    /\ frame \in Frames
    /\ stage \in {"topology", "response"} \cup SinceTies => ActiveIsOne
    /\ stage \in SinceTies => TiesShow
    /\ stage \in SinceJoints => JointsShow
    /\ stage \in SinceTraces => TracesShow
    /\ stage \in SinceRestraints => RestraintsShow
    /\ stage \in SinceDeflections => (Stiff => SpansStiff)
    /\ stage \in SinceAssembly => EvidenceShows
    /\ GatesShow

\* The invariant says what the properties say.
LEMMA ShowsBraces == ASSUME ChecksInv PROVE BracesReachGround
<1> SUFFICES ASSUME stage = "bracing", NEW t \in DOMAIN braceTrace
             PROVE  TraceShows(t, braceTrace[t])
  BY DEF BracesReachGround, TraceShows, Passing
<1>1. stage \in SinceTraces
  BY DEF SinceTraces
<1> QED BY <1>1 DEF ChecksInv, TracesShow

\* Standing on some joints is standing on more.
LEMMA StandsOnMore ==
    ASSUME NEW c, NEW brace, NEW few, NEW more, few \subseteq more, StandsOn(c, brace, few)
    PROVE  StandsOn(c, brace, more)
<1>1. PICK all : all = (UNION {ToSet(j.ends) : j \in FrameJoints}) \ {brace}
  OBVIOUS
<1>2. ASSUME NEW island \in SUBSET all, c \in island,
             \A j \in more : ~Touches(j, brace) /\ ToSet(j.ends) \cap island # {}
                => ToSet(j.ends) \subseteq island
      PROVE  island \cap frame.grounded # {}
 <2>1. \A j \in few : ~Touches(j, brace) /\ ToSet(j.ends) \cap island # {}
               => ToSet(j.ends) \subseteq island
   BY <1>2
 <2> QED BY <1>1, <1>2, <2>1 DEF StandsOn
<1> QED BY <1>1, <1>2 DEF StandsOn

LEMMA HeldByMore ==
    ASSUME NEW c, NEW few, NEW more, few \subseteq more, HeldByTwo(c, few)
    PROVE  HeldByTwo(c, more)
<1>1. PICK i, j \in BraceJoints(c) \cap few :
        /\ i # j
        /\ StandsOn(Across(i, c), c, {k \in few : Carries(k)})
        /\ StandsOn(Across(j, c), c, {k \in few : Carries(k)})
  BY Zenon DEF HeldByTwo
<1>2. {k \in few : Carries(k)} \subseteq {k \in more : Carries(k)}
  OBVIOUS
<1>3. /\ StandsOn(Across(i, c), c, {k \in more : Carries(k)})
      /\ StandsOn(Across(j, c), c, {k \in more : Carries(k)})
  BY <1>1, <1>2, StandsOnMore
<1>4. i \in BraceJoints(c) \cap more /\ j \in BraceJoints(c) \cap more
  BY <1>1
<1> QED BY <1>1, <1>3, <1>4 DEF HeldByTwo

LEMMA ShowsEarned == ASSUME ChecksInv PROVE CertificateIsEarned
<1> SUFFICES ASSUME gate.document = "certificate_draft_ready" PROVE CertificateIsEarned
  BY DEF CertificateIsEarned
<1>1. /\ stage = "evidence" /\ frame.balanced /\ frame.actionPack = "verified"
      /\ evidence.actions = "pass" /\ evidence.cross_section = "pass"
      /\ evidence.member_stability = "pass" /\ evidence.bracing = "pass"
      /\ evidence.connections = "pass" /\ evidence.serviceability = "pass"
      /\ \A t \in DOMAIN tieCheck : tieCheck[t] = "pass"
  BY DEF ChecksInv, GatesShow
<1>2. /\ TiesShow /\ JointsShow /\ TracesShow /\ RestraintsShow /\ (Stiff => SpansStiff)
      /\ EvidenceShows /\ frame \in Frames
  BY <1>1
      DEF ChecksInv, SinceTies, SinceJoints, SinceTraces, SinceRestraints, SinceDeflections,
          SinceAssembly, Decided
<1>3. WindStands
  BY <1>1, <1>2 DEF EvidenceShows
<1>4. frame.envelope # {} /\ frame.sections \subseteq {"ok", "skipped"}
      /\ frame.memberCombos # {} /\ \A s \in frame.segments : s.outcome = "ok"
  BY <1>1, <1>2 DEF EvidenceShows
<1>5. SpansStiff
  BY <1>1, <1>2 DEF EvidenceShows
<1>6. \A j \in FrameJoints : Sound(j)
  BY <1>1, <1>2 DEF EvidenceShows, JointsShow
<1>7. ASSUME NEW t \in frame.ties
      PROVE  t.member = "ok" /\ t.load = "ok" /\ HeldByTwo(t.component, {j \in FrameJoints : Sound(j)})
 <2>1. t.member = "ok" /\ t.load = "ok"
   BY <1>1, <1>2 DEF TiesShow
 <2>2. HeldByTwo(t.component, Passing)
   BY <1>1, <1>2 DEF EvidenceShows, TracesShow, TraceShows
 <2>3. Passing \subseteq {j \in FrameJoints : Sound(j)}
   BY <1>6 DEF Passing
 <2> QED BY <2>1, <2>2, <2>3, HeldByMore
<1>8. ASSUME NEW c \in frame.candidates
      PROVE  \/ c.member \in {s.member : s \in frame.segments}
             \/ /\ c.anchored \/ c.pack = "none" \/ (c.ground /\ c.route # {})
                /\ \A k \in frame.memberCombos \cup {active.id} : c.demand[k] = "ok"
 <2>1. ASSUME NEW k \in frame.memberCombos \cup {active.id} PROVE Restrains(c, k)
  <3>1. PICK r \in restraintCheck : r.status \in {"pass", "not_required"} => Restrains(c, k)
    BY <1>2, <1>4 DEF RestraintsShow
  <3> QED BY <1>1, <1>2, <3>1 DEF EvidenceShows
 <2>2. \E k \in frame.memberCombos \cup {active.id} : TRUE
   OBVIOUS
 <2> QED BY <2>1, <2>2 DEF Restrains
<1> QED BY <1>1, <1>3, <1>4, <1>5, <1>6, <1>7, <1>8 DEF CertificateIsEarned, WindStands, SpansStiff

\* Some of the first m have a greatest value.
LEMMA SomeGreatest ==
    ASSUME NEW m \in Nat, NEW v \in [1..m -> Nat], NEW P \in SUBSET (1..m), P # {}
    PROVE  \E p \in P : \A q \in P : v[q] <= v[p]
<1> DEFINE First(n) == P \cap 1..n
           Has(n) == First(n) # {} => \E p \in First(n) : \A q \in First(n) : v[q] <= v[p]
           T == {n \in Nat : n <= m => Has(n)}
<1>1. 0 \in T
  OBVIOUS
<1>2. ASSUME NEW n \in Nat, n \in T PROVE n + 1 \in T
 <2> SUFFICES ASSUME n + 1 <= m PROVE Has(n + 1)
   OBVIOUS
 <2>1. Has(n)
   BY <1>2
 <2>2. CASE n + 1 \notin P
  <3>1. First(n + 1) = First(n)
    BY <2>2
  <3> QED BY <2>1, <3>1
 <2>3. CASE n + 1 \in P
  <3>1. First(n + 1) = First(n) \cup {n + 1}
    BY <2>3
  <3>2. CASE First(n) = {}
    BY <2>3, <3>1, <3>2
  <3>3. CASE First(n) # {}
   <4>1. PICK p \in First(n) : \A q \in First(n) : v[q] <= v[p]
     BY <2>1, <3>3
   <4>2. v[p] \in Nat /\ v[n + 1] \in Nat /\ \A q \in First(n) : v[q] \in Nat
     BY <2>3, <4>1
   <4>3. CASE v[p] <= v[n + 1]
    <5>1. \A q \in First(n + 1) : v[q] <= v[n + 1]
      BY <3>1, <4>1, <4>2, <4>3
    <5> QED BY <3>1, <5>1
   <4>4. CASE ~(v[p] <= v[n + 1])
    <5>1. v[n + 1] <= v[p]
     <6>1. PICK a, b : a = v[p] /\ b = v[n + 1]
       OBVIOUS
     <6>2. a \in Nat /\ b \in Nat /\ ~(a <= b)
       BY <4>2, <4>4, <6>1
     <6>3. b <= a
       BY <6>2
     <6> QED BY <6>1, <6>3
    <5>2. \A q \in First(n + 1) : q \in First(n) \/ q = n + 1
      BY <3>1
    <5>3. \A q \in First(n + 1) : v[q] <= v[p]
      BY <4>1, <5>1, <5>2, Zenon
    <5> QED BY <3>1, <4>1, <5>3
   <4> QED BY <4>3, <4>4
  <3> QED BY <3>2, <3>3
 <2> QED BY <2>2, <2>3
<1> HIDE DEF T
<1>3. m \in T
  BY <1>1, <1>2, AllNaturals
<1>4. Has(m)
  BY <1>3 DEF T
<1>5. First(m) = P
  OBVIOUS
<1> QED BY <1>4, <1>5

\* The combinations of a frame, authored or not.
LEMMA NamesAre ==
    ASSUME frame \in Frames
    PROVE  /\ DOMAIN Combinations = 1..Len(Combinations) /\ Len(Combinations) \in Nat
           /\ CombinationNames \subseteq {frame.combos[n].id : n \in DOMAIN frame.combos} \cup {"all"}
           /\ \A n \in DOMAIN Combinations : Combinations[n].score \in Nat
           /\ DOMAIN Combinations # {}
<1>1. IsFrame(frame)
  BY ChecksAssumption
<1>2. CASE frame.combos # <<>>
 <2>1. PICK S : frame.combos \in Seq(S)
   BY <1>1 DEF IsFrame
 <2>2. Combinations = frame.combos
   BY <1>2 DEF Combinations
 <2>3. DOMAIN Combinations = 1..Len(Combinations) /\ Len(Combinations) \in Nat
   BY <2>1, <2>2
 <2>4. CombinationNames = {frame.combos[n].id : n \in DOMAIN frame.combos}
   BY <2>2 DEF CombinationNames
 <2>5. \A n \in DOMAIN Combinations : Combinations[n].score \in Nat
   BY <1>1, <2>2 DEF IsFrame
 <2>6. 1 \in DOMAIN Combinations
  <3>1. Len(Combinations) # 0
    BY <1>2, <2>1, <2>2
  <3> QED BY <2>3, <3>1
 <2> QED BY <2>3, <2>4, <2>5, <2>6
<1>3. CASE frame.combos = <<>>
 <2>1. PICK all : all = [id |-> "all", limit |-> "serviceability", design |-> TRUE, factors |-> TRUE,
                         demo |-> FALSE, score |-> 0]
   OBVIOUS
 <2>2. Combinations = <<all>>
   BY <1>3, <2>1 DEF Combinations
 <2>3. DOMAIN Combinations = {1} /\ Len(Combinations) = 1 /\ Combinations[1] = all
   BY <2>2
 <2> QED BY <2>1, <2>3 DEF CombinationNames
<1> QED BY <1>2, <1>3

LEMMA SomeEarliest ==
    ASSUME NEW S \in SUBSET Nat, S # {}
    PROVE  Earliest(S) \in S
<1>1. \E n \in S : \A m \in S : n <= m
  BY LeastNatural
<1> QED BY <1>1 DEF Earliest

\* The combination that is chosen is one of them.
LEMMA SelectedIs ==
    ASSUME frame \in Frames, Meant # {}
    PROVE  \E n \in DOMAIN Combinations : Selected = Combinations[n]
<1>1. Meant \subseteq DOMAIN Combinations
  BY DEF Meant, Serviceable
<1>2. Meant \in SUBSET Nat
  BY <1>1, NamesAre
<1> QED BY <1>1, <1>2, SomeEarliest DEF Selected

LEMMA GoverningIs ==
    ASSUME frame \in Frames, chosen = "none"
    PROVE  \E n \in DOMAIN Combinations : Governing = Combinations[n]
<1> DEFINE credible == {n \in Serviceable : ~Combinations[n].demo}
           worst == {n \in credible : \A m \in credible : Combinations[m].score <= Combinations[n].score}
<1>1. credible \subseteq DOMAIN Combinations
  BY DEF Serviceable
<1>2. Governing = IF credible = {} THEN Selected ELSE Combinations[Earliest(worst)]
  BY Zenon DEF Governing
<1>3. CASE credible = {}
 <2>1. Meant # {}
   BY NamesAre DEF Meant
 <2> QED BY <1>2, <1>3, <2>1, SelectedIs
<1>4. CASE credible # {}
 <2>1. PICK m \in Nat : m = Len(Combinations) /\ DOMAIN Combinations = 1..m
   BY NamesAre
 <2>2. PICK v : v = [n \in 1..m |-> Combinations[n].score]
   OBVIOUS
 <2>3. v \in [1..m -> Nat] /\ credible \in SUBSET (1..m)
   BY <1>1, <2>1, <2>2, NamesAre
 <2>4. PICK p \in credible : \A q \in credible : v[q] <= v[p]
   BY <1>4, <2>3, SomeGreatest
 <2>5. p \in worst
   BY <2>2, <2>3, <2>4
 <2>6. worst \in SUBSET Nat /\ worst # {}
   BY <2>3, <2>5
 <2>7. Earliest(worst) \in worst
   BY <2>6, SomeEarliest
 <2> QED BY <1>1, <1>2, <1>4, <2>7
<1> QED BY <1>3, <1>4

----
\* What one variable shows stays with it and the frame.
LEMMA ActiveKept ==
    ASSUME frame' = frame, active' = active, ActiveIsOne
    PROVE  ActiveIsOne'
<1>1. Combinations' = Combinations
  BY DEF Combinations
<1> QED BY <1>1 DEF ActiveIsOne, Keep

LEMMA TiesKept ==
    ASSUME frame' = frame, tieCheck' = tieCheck, TiesShow
    PROVE  TiesShow'
  BY DEF TiesShow

LEMMA JointsKept ==
    ASSUME frame' = frame, jointCheck' = jointCheck, JointsShow
    PROVE  JointsShow'
<1>1. \A j : Sound(j)' <=> Sound(j)
  BY SoundKept
<1> QED BY <1>1, SameFrame DEF JointsShow

LEMMA TracesKept ==
    ASSUME frame' = frame, jointCheck' = jointCheck, braceTrace' = braceTrace, TracesShow
    PROVE  TracesShow'
<1>1. \A t, v : TraceShows(t, v)' <=> TraceShows(t, v)
  BY TraceKept
<1>2. ASSUME NEW t \in frame.ties PROVE TraceShows(t, braceTrace[t])'
 <2>1. PICK v : v = braceTrace[t]
   OBVIOUS
 <2>2. TraceShows(t, v)
   BY <2>1 DEF TracesShow
 <2>3. TraceShows(t, v)'
   BY <1>1, <2>2
 <2>4. v = braceTrace'[t]
   BY <2>1
 <2> QED BY <2>3, <2>4 DEF TraceShows
<1> QED BY <1>2 DEF TracesShow

LEMMA RestraintsKept ==
    ASSUME frame' = frame, active' = active, restraintCheck' = restraintCheck, RestraintsShow
    PROVE  RestraintsShow'
<1>1. \A c, k : Restrains(c, k)' <=> Restrains(c, k)
  BY DEF Restrains
<1> QED BY <1>1 DEF RestraintsShow

LEMMA DeflectionsKept ==
    ASSUME frame' = frame, active' = active, deflection' = deflection, Stiff => SpansStiff
    PROVE  (Stiff => SpansStiff)'
  BY DEF Stiff, SpansStiff

LEMMA EvidenceKept ==
    ASSUME frame' = frame, jointCheck' = jointCheck, braceTrace' = braceTrace,
           restraintCheck' = restraintCheck, deflection' = deflection, evidence' = evidence,
           EvidenceShows
    PROVE  EvidenceShows'
<1>1. WindStands' <=> WindStands
  BY SameFrame DEF WindStands
<1>2. Stiff' <=> Stiff
  BY DEF Stiff
<1> QED BY <1>1, <1>2 DEF EvidenceShows

\* No certificate before the last stage.
LEMMA NoGateYet ==
    ASSUME ChecksInv, stage # "evidence"
    PROVE  gate.document # "certificate_draft_ready"
  BY DEF ChecksInv, GatesShow

----
(* The steps.                                                              *)

LEMMA ChecksInitially == ChecksInit => ChecksInv
<1> SUFFICES ASSUME ChecksInit PROVE ChecksInv
  OBVIOUS
<1>1. stage = "new" /\ frame \in Frames /\ gate.document = "none"
  BY DEF ChecksInit, NoGate
<1> QED BY <1>1
    DEF ChecksInv, GatesShow, SinceTies, SinceJoints, SinceTraces, SinceRestraints,
        SinceDeflections, SinceAssembly, Decided

LEMMA PrepareKeeps == ASSUME ChecksInv, Prepare PROVE ChecksInv'
<1>1. stage = "new" /\ frame' = frame /\ gate' = gate /\ frame \in Frames
      /\ stage' \in {"topology", "refused"} /\ (stage' = "topology" => Meant # {} /\ active' = Keep(Selected))
  BY DEF Prepare, ChecksInv
<1>2. stage' = "topology" => ActiveIsOne'
 <2> SUFFICES ASSUME stage' = "topology" PROVE ActiveIsOne'
   OBVIOUS
 <2>1. PICK n \in DOMAIN Combinations : Selected = Combinations[n]
   BY <1>1, SelectedIs
 <2>2. active' = Keep(Combinations[n])
   BY <1>1, <2>1
 <2>3. Combinations' = Combinations
   BY <1>1 DEF Combinations
 <2> QED BY <2>2, <2>3 DEF ActiveIsOne, Keep
<1>3. gate'.document # "certificate_draft_ready"
  BY <1>1, NoGateYet
<1> QED BY <1>1, <1>2, <1>3
    DEF ChecksInv, GatesShow, SinceTies, SinceJoints, SinceTraces, SinceRestraints,
        SinceDeflections, SinceAssembly, Decided

LEMMA SolveKeeps == ASSUME ChecksInv, Solve PROVE ChecksInv'
<1>1. /\ stage = "topology" /\ frame' = frame /\ gate' = gate /\ frame \in Frames /\ ActiveIsOne
      /\ stage' \in {"response", "refused"}
      /\ stage' = "response" => active' = active \/ (chosen = "none" /\ active' = Keep(Governing))
  BY DEF Solve, ChecksInv
<1>2. stage' = "response" => ActiveIsOne'
 <2> SUFFICES ASSUME stage' = "response" PROVE ActiveIsOne'
   OBVIOUS
 <2>1. CASE active' = active
   BY <1>1, <2>1, ActiveKept
 <2>2. CASE chosen = "none" /\ active' = Keep(Governing)
  <3>1. PICK n \in DOMAIN Combinations : Governing = Combinations[n]
    BY <1>1, <2>2, GoverningIs
  <3>2. active' = Keep(Combinations[n])
    BY <2>2, <3>1
  <3>3. Combinations' = Combinations
    BY <1>1 DEF Combinations
  <3> QED BY <3>2, <3>3 DEF ActiveIsOne, Keep
 <2> QED BY <1>1, <2>1, <2>2
<1>3. gate'.document # "certificate_draft_ready"
  BY <1>1, NoGateYet
<1> QED BY <1>1, <1>2, <1>3
    DEF ChecksInv, GatesShow, SinceTies, SinceJoints, SinceTraces, SinceRestraints,
        SinceDeflections, SinceAssembly, Decided

LEMMA CheckTiesKeeps == ASSUME ChecksInv, CheckTies PROVE ChecksInv'
<1>1. /\ stage = "response" /\ stage' = "tension_members" /\ frame' = frame /\ gate' = gate
      /\ active' = active /\ frame \in Frames /\ ActiveIsOne
      /\ tieCheck' = [t \in frame.ties |-> TieStatus(t)]
  BY DEF CheckTies, ChecksInv
<1>2. TiesShow'
 <2>1. ASSUME NEW t \in frame.ties, TieStatus(t) = "pass" PROVE t.member = "ok" /\ t.load = "ok"
  <3>1. IsTie(t)
    BY <1>1, ChecksAssumption DEF IsFrame
  <3> QED BY <2>1, <3>1, TieTells
 <2> QED BY <1>1, <2>1 DEF TiesShow
<1>3. gate'.document # "certificate_draft_ready"
  BY <1>1, NoGateYet
<1>4. ActiveIsOne'
  BY <1>1, ActiveKept
<1> QED BY <1>1, <1>2, <1>3, <1>4
    DEF ChecksInv, GatesShow, SinceTies, SinceJoints, SinceTraces, SinceRestraints,
        SinceDeflections, SinceAssembly, Decided

LEMMA CheckJointsKeeps == ASSUME ChecksInv, CheckJoints PROVE ChecksInv'
<1>1. /\ stage = "tension_members" /\ frame' = frame /\ gate' = gate /\ tieCheck' = tieCheck
      /\ active' = active /\ frame \in Frames
      /\ stage' \in {"connections", "crashed"}
      /\ stage' = "connections" => \A j \in FrameJoints : ~AssertionRaises(j)
      /\ stage' = "connections" =>
            jointCheck' = [id \in {j.id : j \in FrameJoints} |->
                              CheckOfJoint(CHOOSE j \in FrameJoints : j.id = id)]
  BY DEF CheckJoints, ChecksInv
<1>2. ActiveIsOne /\ TiesShow
  BY <1>1 DEF ChecksInv, SinceTies
<1>3. ActiveIsOne' /\ TiesShow'
  BY <1>1, <1>2, ActiveKept, TiesKept
<1>4. stage' = "connections" => JointsShow'
 <2> SUFFICES ASSUME stage' = "connections" PROVE JointsShow'
   OBVIOUS
 <2>1. ASSUME NEW j \in FrameJoints PROVE (CHOOSE i \in FrameJoints : i.id = j.id) = j
   BY <1>1, FrameFacts
 <2>2. ASSUME NEW j \in FrameJoints PROVE jointCheck'[j.id] = CheckOfJoint(j)
   BY <1>1, <2>1
 <2>3. ASSUME NEW j \in FrameJoints, jointCheck'[j.id].status = "pass" PROVE Sound(j)
  <3>1. \E v, f, m, s : CheckOfJoint(j) = [status |-> JointStatus(j), verified |-> v,
                                        force |-> f, moment |-> m, stiff |-> s]
    BY Zenon DEF CheckOfJoint
  <3>2. CheckOfJoint(j).status = JointStatus(j)
    BY <3>1
  <3>3. JointStatus(j) = "pass"
    BY <2>2, <2>3, <3>2
  <3>4. ~AssertionRaises(j)
    BY <1>1
  <3> QED BY <1>1, <3>3, <3>4, JointTells
 <2>4. \A j : Sound(j)' <=> Sound(j)
   BY <1>1, SoundKept
 <2>5. FrameJoints' = FrameJoints
   BY <1>1, SameFrame
 <2>6. DOMAIN jointCheck' = {j.id : j \in FrameJoints}
   BY <1>1
 <2> QED BY <2>3, <2>4, <2>5, <2>6 DEF JointsShow
<1>5. gate'.document # "certificate_draft_ready"
  BY <1>1, NoGateYet
<1> QED BY <1>1, <1>3, <1>4, <1>5
    DEF ChecksInv, GatesShow, SinceTies, SinceJoints, SinceTraces, SinceRestraints,
        SinceDeflections, SinceAssembly, Decided

LEMMA TraceBracesKeeps == ASSUME ChecksInv, TraceBraces PROVE ChecksInv'
<1>1. /\ stage = "connections" /\ stage' = "bracing" /\ frame' = frame /\ gate' = gate
      /\ tieCheck' = tieCheck /\ jointCheck' = jointCheck
      /\ active' = active /\ frame \in Frames
      /\ braceTrace' = [t \in DOMAIN tieCheck |-> Trace(t)]
  BY DEF TraceBraces, ChecksInv
<1>2. ActiveIsOne /\ TiesShow /\ JointsShow
  BY <1>1 DEF ChecksInv, SinceTies, SinceJoints
<1>3. ActiveIsOne' /\ TiesShow' /\ JointsShow'
  BY <1>1, <1>2, ActiveKept, TiesKept, JointsKept
<1>4. TracesShow'
 <2>1. DOMAIN tieCheck = frame.ties
   BY <1>2 DEF TiesShow
 <2>2. ASSUME NEW t \in frame.ties PROVE TraceShows(t, braceTrace[t])'
  <3>1. PICK v : v = Trace(t)
    OBVIOUS
  <3>2. TraceShows(t, v)'
    BY <1>1, <3>1, TraceTells, TraceKept
  <3>3. braceTrace'[t] = v
    BY <1>1, <2>1, <3>1
  <3> QED BY <3>2, <3>3 DEF TraceShows
 <2> QED BY <1>1, <2>1, <2>2 DEF TracesShow
<1>5. gate'.document # "certificate_draft_ready"
  BY <1>1, NoGateYet
<1> QED BY <1>1, <1>3, <1>4, <1>5
    DEF ChecksInv, GatesShow, SinceTies, SinceJoints, SinceTraces, SinceRestraints,
        SinceDeflections, SinceAssembly, Decided

\* The verdict on a restraint says what holds it.
LEMMA RestraintTells ==
    ASSUME frame \in Frames, ActiveIsOne, frame.memberCombos # {},
           NEW c \in frame.candidates, NEW k \in frame.memberCombos \cup {active.id}
    PROVE  \E r \in RestraintVerdicts : r.status \in {"pass", "not_required"} => Restrains(c, k)
<1>1. PICK r : r = [candidate |-> c.id, combination |-> k,
                    status |-> IF c.member \in Unbraced THEN "not_required" ELSE RestraintStatus(c, k)]
  OBVIOUS
<1>2. r \in RestraintVerdicts
 <2>1. PICK all : all = IF frame.memberCombos = {} THEN {} ELSE frame.candidates
   OBVIOUS
 <2>2. c \in all
   BY <2>1
 <2> QED BY <1>1, <2>1, <2>2 DEF RestraintVerdicts
<1>3. r.status = IF c.member \in Unbraced THEN "not_required" ELSE RestraintStatus(c, k)
  BY <1>1
<1>4. CASE c.member \in Unbraced
 <2>1. c.member \in {s.member : s \in frame.segments}
   BY <1>4 DEF Unbraced, CheckedSegments
 <2> QED BY <1>2, <2>1 DEF Restrains
<1>5. ASSUME c.member \notin Unbraced, r.status \in {"pass", "not_required"} PROVE Restrains(c, k)
 <2>1. RestraintStatus(c, k) \in {"pass", "not_required"}
   BY <1>3, <1>5
 <2>2. /\ c.demand[k] \notin {"unknown", "over"}
       /\ c.pack = "none" \/ IsAnchored(c)
   BY <2>1 DEF RestraintStatus, Demand
 <2>3. c.demand[k] \in {"ok", "over", "unknown"}
  <3>1. IsCandidate(c, frame)
    BY ChecksAssumption DEF IsFrame
  <3>2. active.id \in CombinationNames
    BY DEF ActiveIsOne, CombinationNames, Keep
  <3>3. k \in frame.memberCombos \cup {frame.combos[n].id : n \in DOMAIN frame.combos} \cup {"all"}
    BY <3>2, NamesAre
  <3> QED BY <3>1, <3>3 DEF IsCandidate
 <2> QED BY <2>2, <2>3 DEF Restrains, IsAnchored
<1> QED BY <1>2, <1>4, <1>5

LEMMA CheckRestraintsKeeps == ASSUME ChecksInv, CheckRestraints PROVE ChecksInv'
<1>1. /\ stage = "bracing" /\ stage' = "member_stability" /\ frame' = frame /\ gate' = gate
      /\ tieCheck' = tieCheck /\ jointCheck' = jointCheck /\ braceTrace' = braceTrace
      /\ active' = active /\ frame \in Frames
      /\ restraintCheck' = RestraintVerdicts
  BY DEF CheckRestraints, ChecksInv
<1>2. ActiveIsOne /\ TiesShow /\ JointsShow /\ TracesShow
  BY <1>1 DEF ChecksInv, SinceTies, SinceJoints, SinceTraces
<1>3. ActiveIsOne' /\ TiesShow' /\ JointsShow' /\ TracesShow'
  BY <1>1, <1>2, ActiveKept, TiesKept, JointsKept, TracesKept
<1>4. RestraintsShow'
 <2>1. \A c, k : Restrains(c, k)' <=> Restrains(c, k)
   BY <1>1 DEF Restrains
 <2>2. ASSUME frame.memberCombos # {}, NEW c \in frame.candidates,
              NEW k \in frame.memberCombos \cup {active.id}
       PROVE  \E r \in RestraintVerdicts : r.status \in {"pass", "not_required"} => Restrains(c, k)
   BY <1>1, <1>2, <2>2, RestraintTells
 <2> QED BY <1>1, <2>1, <2>2 DEF RestraintsShow
<1>5. gate'.document # "certificate_draft_ready"
  BY <1>1, NoGateYet
<1> QED BY <1>1, <1>3, <1>4, <1>5
    DEF ChecksInv, GatesShow, SinceTies, SinceJoints, SinceTraces, SinceRestraints,
        SinceDeflections, SinceAssembly, Decided

LEMMA CheckDeflectionsKeeps == ASSUME ChecksInv, CheckDeflections PROVE ChecksInv'
<1>1. /\ stage = "member_stability" /\ stage' = "member_diagrams" /\ frame' = frame /\ gate' = gate
      /\ tieCheck' = tieCheck /\ jointCheck' = jointCheck /\ braceTrace' = braceTrace
      /\ active' = active /\ frame \in Frames /\ restraintCheck' = restraintCheck
      /\ deflection' = {DeflectionStatus(s) : s \in frame.spans}
  BY DEF CheckDeflections, ChecksInv
<1>2. ActiveIsOne /\ TiesShow /\ JointsShow /\ TracesShow /\ RestraintsShow
  BY <1>1 DEF ChecksInv, SinceTies, SinceJoints, SinceTraces, SinceRestraints
<1>3. ActiveIsOne' /\ TiesShow' /\ JointsShow' /\ TracesShow' /\ RestraintsShow'
  BY <1>1, <1>2, ActiveKept, TiesKept, JointsKept, TracesKept, RestraintsKept
<1>4. (Stiff => SpansStiff)'
 <2> SUFFICES ASSUME Stiff' PROVE SpansStiff'
   OBVIOUS
 <2>1. "pass" \in deflection' /\ "fail" \notin deflection' /\ "not_checked" \notin deflection'
   BY DEF Stiff
 <2>2. frame.spans \subseteq {"ok", "over", "no limit", "axial"}
   BY <1>1, ChecksAssumption DEF IsFrame
 <2>3. PICK s \in frame.spans : DeflectionStatus(s) = "pass"
   BY <1>1, <2>1
 <2>4. active.limit = "serviceability" /\ s = "ok"
   BY <2>2, <2>3 DEF DeflectionStatus
 <2>5. ASSUME NEW x \in frame.spans PROVE x \in {"ok", "axial"}
  <3>1. DeflectionStatus(x) \in deflection'
    BY <1>1
  <3>2. DeflectionStatus(x) # "fail" /\ DeflectionStatus(x) # "not_checked"
    BY <2>1, <3>1
  <3> QED BY <2>2, <3>2 DEF DeflectionStatus
 <2> QED BY <1>1, <2>3, <2>4, <2>5 DEF SpansStiff
<1>5. gate'.document # "certificate_draft_ready"
  BY <1>1, NoGateYet
<1> QED BY <1>1, <1>3, <1>4, <1>5
    DEF ChecksInv, GatesShow, SinceTies, SinceJoints, SinceTraces, SinceRestraints,
        SinceDeflections, SinceAssembly, Decided

\* The stages of the evidence, as the record has them.
LEMMA StagesAre ==
    /\ StageEvidence.actions = ActionsStage
    /\ StageEvidence.cross_section = Rolled(SectionVerdicts)
    /\ StageEvidence.member_stability = Rolled(SegmentVerdicts)
    /\ StageEvidence.bracing = BracingStage
    /\ StageEvidence.connections = Rolled(JointVerdicts)
    /\ StageEvidence.stability = StabilityStage
    /\ StageEvidence.serviceability = ServiceabilityStage
  BY DEF StageEvidence

LEMMA RolledTells ==
    ASSUME NEW verdicts, Rolled(verdicts) = "pass"
    PROVE  verdicts = {"pass"}
  BY DEF Rolled

\* What a stage that passes says of the checks and of the frame.
LEMMA EvidenceTells ==
    ASSUME frame \in Frames
    PROVE  /\ ActionsStage = "pass" => WindStands
           /\ Rolled(SectionVerdicts) = "pass" =>
                 frame.envelope # {} /\ frame.sections \subseteq {"ok", "skipped"}
           /\ Rolled(SegmentVerdicts) = "pass" =>
                 frame.memberCombos # {} /\ \A s \in frame.segments : s.outcome = "ok"
           /\ BracingStage = "pass" =>
                 /\ \A t \in DOMAIN braceTrace : braceTrace[t] = "pass"
                 /\ \A r \in restraintCheck : r.status \in {"pass", "not_required"}
           /\ Rolled(JointVerdicts) = "pass" => \A id \in DOMAIN jointCheck : jointCheck[id].status = "pass"
           /\ ServiceabilityStage = "pass" => Stiff
<1>0. IsFrame(frame)
  BY ChecksAssumption
<1>1. ActionsStage = "pass" => WindStands
 <2> SUFFICES ASSUME ActionsStage = "pass" PROVE WindStands
   OBVIOUS
 <2>1. WindReady /\ ~(WindRequired /\ WindLoads = {})
   BY DEF ActionsStage
 <2>2. CASE ~WindRequired /\ WindLoads = {}
   BY <2>2 DEF WindRequired, WindStands
 <2>3. CASE ~(~WindRequired /\ WindLoads = {})
   BY <2>1, <2>3 DEF WindReady, WindStands
 <2> QED BY <2>2, <2>3
<1>2. ASSUME Rolled(SectionVerdicts) = "pass"
      PROVE  frame.envelope # {} /\ frame.sections \subseteq {"ok", "skipped"}
 <2>1. SectionVerdicts = {"pass"}
   BY <1>2, RolledTells
 <2>2. frame.envelope # {}
   BY <2>1 DEF SectionVerdicts
 <2>3. \A s \in frame.sections \ {"skipped"} : SectionStatus(s) = "pass"
   BY <2>1, <2>2 DEF SectionVerdicts
 <2>4. \A s \in frame.sections \ {"skipped"} : s = "ok"
   BY <1>0, <2>3 DEF SectionStatus, IsFrame
 <2> QED BY <2>2, <2>4
<1>3. ASSUME Rolled(SegmentVerdicts) = "pass"
      PROVE  frame.memberCombos # {} /\ \A s \in frame.segments : s.outcome = "ok"
 <2>1. SegmentVerdicts = {"pass"}
   BY <1>3, RolledTells
 <2>2. frame.memberCombos # {}
   BY <2>1 DEF SegmentVerdicts, CheckedSegments
 <2>3. \A s \in frame.segments : SegmentStatus(s.outcome) = "pass"
   BY <2>1, <2>2 DEF SegmentVerdicts, CheckedSegments
 <2> QED BY <1>0, <2>2, <2>3 DEF SegmentStatus, IsFrame
<1>4. ASSUME BracingStage = "pass"
      PROVE  /\ \A t \in DOMAIN braceTrace : braceTrace[t] = "pass"
             /\ \A r \in restraintCheck : r.status \in {"pass", "not_required"}
 <2>1. Restrained \subseteq {"pass", "not_required"} /\ StatusesOf(braceTrace) \subseteq {"pass"}
  <3>1. PICK ties, traces, rest :
           ties = StatusesOf(tieCheck) /\ traces = StatusesOf(braceTrace) /\ rest = Restrained
    OBVIOUS
  <3>2. rest \subseteq {"pass", "not_required"} /\ ties \cup traces \subseteq {"pass"}
    BY <1>4, <3>1 DEF BracingStage
  <3> QED BY <3>1, <3>2
 <2> QED BY <2>1 DEF Restrained, StatusesOf
<1>5. ASSUME Rolled(JointVerdicts) = "pass"
      PROVE  \A id \in DOMAIN jointCheck : jointCheck[id].status = "pass"
 <2>1. JointVerdicts = {"pass"}
   BY <1>5, RolledTells
 <2> QED BY <2>1 DEF JointVerdicts
<1>6. ServiceabilityStage = "pass" => Stiff
  BY DEF ServiceabilityStage, Stiff
<1> QED BY <1>1, <1>2, <1>3, <1>4, <1>5, <1>6

LEMMA AssembleKeeps == ASSUME ChecksInv, Assemble PROVE ChecksInv'
<1>1. /\ stage = "member_diagrams" /\ stage' = "assembled" /\ frame' = frame /\ gate' = gate
      /\ tieCheck' = tieCheck /\ jointCheck' = jointCheck /\ braceTrace' = braceTrace
      /\ active' = active /\ frame \in Frames /\ restraintCheck' = restraintCheck
      /\ deflection' = deflection /\ evidence' = StageEvidence
  BY DEF Assemble, ChecksInv
<1>2. /\ ActiveIsOne /\ TiesShow /\ JointsShow /\ TracesShow /\ RestraintsShow /\ (Stiff => SpansStiff)
  BY <1>1 DEF ChecksInv, SinceTies, SinceJoints, SinceTraces, SinceRestraints, SinceDeflections
<1>3. /\ ActiveIsOne' /\ TiesShow' /\ JointsShow' /\ TracesShow' /\ RestraintsShow'
      /\ (Stiff => SpansStiff)'
  BY <1>1, <1>2, ActiveKept, TiesKept, JointsKept, TracesKept, RestraintsKept, DeflectionsKept
<1>4. EvidenceShows'
 <2>1. WindStands' <=> WindStands
   BY <1>1, SameFrame DEF WindStands
 <2>2. Stiff' <=> Stiff
   BY <1>1 DEF Stiff
 <2>3. /\ evidence'.actions = ActionsStage /\ evidence'.cross_section = Rolled(SectionVerdicts)
       /\ evidence'.member_stability = Rolled(SegmentVerdicts) /\ evidence'.bracing = BracingStage
       /\ evidence'.connections = Rolled(JointVerdicts)
       /\ evidence'.serviceability = ServiceabilityStage
   BY <1>1, StagesAre
 <2> QED BY <1>1, <2>1, <2>2, <2>3, EvidenceTells DEF EvidenceShows
<1>5. gate'.document # "certificate_draft_ready"
  BY <1>1, NoGateYet
<1> QED BY <1>1, <1>3, <1>4, <1>5
    DEF ChecksInv, GatesShow, SinceTies, SinceJoints, SinceTraces, SinceRestraints,
        SinceDeflections, SinceAssembly, Decided

LEMMA CombinedTells ==
    ASSUME NEW stages, Combined(stages) = "pass"
    PROVE  \A s \in stages : evidence[s] = "pass"
<1>1. {evidence[s] : s \in stages} = {"pass"}
  BY DEF Combined
<1> QED BY <1>1

\* What a certificate asks of the evidence.
LEMMA DocumentTells ==
    ASSUME Document(Gates) = "certificate_draft_ready"
    PROVE  /\ frame.balanced /\ frame.actionPack = "verified"
           /\ \A s \in {"actions", "cross_section", "member_stability", "bracing", "connections",
                        "serviceability"} : evidence[s] = "pass"
           /\ \A t \in DOMAIN tieCheck : tieCheck[t] = "pass"
<1>1. StatusesOf(Gates) = {"pass"}
  BY DEF Document
<1>2. /\ Gates.actions = PassOr(Combined({"actions", "combinations"}) = "pass" /\ frame.actionPack = "verified",
               "blocked")
      /\ Gates.analysis = PassOr(Combined({"geometry", "analysis"}) = "pass" /\ frame.balanced,
               IF frame.balanced THEN "blocked" ELSE "fail")
      /\ Gates.member_capacity = Combined({"cross_section", "member_stability"})
      /\ Gates.load_path = PassOr(Combined({"bracing", "connections"}) = "pass" /\ StatusesOf(tieCheck) \subseteq {"pass"},
               IF Combined({"bracing", "connections"}) = "fail" THEN "fail" ELSE "blocked")
      /\ Gates.serviceability = evidence.serviceability
      /\ {"actions", "analysis", "member_capacity", "load_path", "serviceability"} \subseteq DOMAIN Gates
 <2>1. \E a, b : Gates =
           [project_basis |-> a,
            actions |-> PassOr(Combined({"actions", "combinations"}) = "pass" /\ frame.actionPack = "verified",
                               "blocked"),
            analysis |-> PassOr(Combined({"geometry", "analysis"}) = "pass" /\ frame.balanced,
                                IF frame.balanced THEN "blocked" ELSE "fail"),
            stability |-> b,
            member_capacity |-> Combined({"cross_section", "member_stability"}),
            load_path |-> PassOr(Combined({"bracing", "connections"}) = "pass" /\ StatusesOf(tieCheck) \subseteq {"pass"},
                                 IF Combined({"bracing", "connections"}) = "fail" THEN "fail" ELSE "blocked"),
            serviceability |-> evidence.serviceability]
   BY Zenon DEF Gates
 <2> QED BY <2>1
<1>3. \A g \in {"actions", "analysis", "member_capacity", "load_path", "serviceability"} :
         Gates[g] = "pass"
  BY <1>1, <1>2 DEF StatusesOf
<1>4. Combined({"actions", "combinations"}) = "pass" /\ frame.actionPack = "verified"
  BY <1>2, <1>3 DEF PassOr
<1>5. frame.balanced
  BY <1>2, <1>3 DEF PassOr
<1>6. Combined({"cross_section", "member_stability"}) = "pass"
  BY <1>2, <1>3
<1>7. Combined({"bracing", "connections"}) = "pass" /\ StatusesOf(tieCheck) \subseteq {"pass"}
  BY <1>2, <1>3 DEF PassOr
<1>8. evidence.serviceability = "pass"
  BY <1>2, <1>3
<1>9. \A s \in {"actions", "cross_section", "member_stability", "bracing", "connections"} :
         evidence[s] = "pass"
  BY <1>4, <1>6, <1>7, CombinedTells
<1>10. \A t \in DOMAIN tieCheck : tieCheck[t] = "pass"
  BY <1>7 DEF StatusesOf
<1> QED BY <1>4, <1>5, <1>8, <1>9, <1>10

LEMMA DecideKeeps == ASSUME ChecksInv, Decide PROVE ChecksInv'
<1>1. /\ stage = "assembled" /\ stage' = "evidence" /\ frame' = frame
      /\ tieCheck' = tieCheck /\ jointCheck' = jointCheck /\ braceTrace' = braceTrace
      /\ active' = active /\ frame \in Frames /\ restraintCheck' = restraintCheck
      /\ deflection' = deflection /\ evidence' = evidence
      /\ gate' = [gates |-> Gates, document |-> Document(Gates), colours |-> Colours]
  BY DEF Decide, ChecksInv
<1>2. /\ ActiveIsOne /\ TiesShow /\ JointsShow /\ TracesShow /\ RestraintsShow /\ (Stiff => SpansStiff)
      /\ EvidenceShows
  BY <1>1
      DEF ChecksInv, SinceTies, SinceJoints, SinceTraces, SinceRestraints, SinceDeflections,
          SinceAssembly
<1>3. /\ ActiveIsOne' /\ TiesShow' /\ JointsShow' /\ TracesShow' /\ RestraintsShow'
      /\ (Stiff => SpansStiff)' /\ EvidenceShows'
  BY <1>1, <1>2, ActiveKept, TiesKept, JointsKept, TracesKept, RestraintsKept, DeflectionsKept,
     EvidenceKept
<1>4. gate'.document = Document(Gates)
  BY <1>1
<1>5. GatesShow'
  BY <1>1, <1>4, DocumentTells DEF GatesShow
<1> QED BY <1>1, <1>3, <1>5
    DEF ChecksInv, SinceTies, SinceJoints, SinceTraces, SinceRestraints, SinceDeflections,
        SinceAssembly, Decided

LEMMA ChecksUnchanged == ASSUME ChecksInv, UNCHANGED checkVars PROVE ChecksInv'
<1>1. /\ stage' = stage /\ frame' = frame /\ gate' = gate
      /\ tieCheck' = tieCheck /\ jointCheck' = jointCheck /\ braceTrace' = braceTrace
      /\ active' = active /\ restraintCheck' = restraintCheck
      /\ deflection' = deflection /\ evidence' = evidence
  BY DEF checkVars
<1>2. /\ ActiveIsOne => ActiveIsOne'
      /\ TiesShow => TiesShow'
      /\ JointsShow => JointsShow'
      /\ TracesShow => TracesShow'
      /\ RestraintsShow => RestraintsShow'
      /\ (Stiff => SpansStiff) => (Stiff => SpansStiff)'
      /\ EvidenceShows => EvidenceShows'
  BY <1>1, ActiveKept, TiesKept, JointsKept, TracesKept, RestraintsKept, DeflectionsKept, EvidenceKept
<1>3. GatesShow => GatesShow'
  BY <1>1 DEF GatesShow
<1> QED BY <1>1, <1>2, <1>3 DEF ChecksInv

LEMMA ChecksStep == ChecksInv /\ [ChecksNext]_checkVars => ChecksInv'
  BY PrepareKeeps, SolveKeeps, CheckTiesKeeps, CheckJointsKeeps, TraceBracesKeeps,
     CheckRestraintsKeeps, CheckDeflectionsKeeps, AssembleKeeps, DecideKeeps, ChecksUnchanged
     DEF ChecksNext

LEMMA ChecksInvariant == ChecksSpec => []ChecksInv
  BY ChecksInitially, ChecksStep, PTL DEF ChecksSpec

\* The trace of a brace passes only when two of its ends stand on the ground through
\* connections that pass, without the brace, and is blocked only when an end does not,
\* whatever the order of the connections (_bracing_load_path_traces, _path_to_ground).
THEOREM BracesCorrect == ChecksSpec => []BracesReachGround
  BY ChecksInvariant, ShowsBraces, PTL

\* A certificate is drafted only for a frame that stands: no check, stage or gate on the
\* way from the declaration passes what is over its resistance or has none, for any
\* frames and requests (_certification_evidence, _australian_certification_readiness).
THEOREM CertificateCorrect == ChecksSpec => []CertificateIsEarned
  BY ChecksInvariant, ShowsEarned, PTL

----
(* Types.                                                                  *)

Opinion == Verdict \cup {"warning", "blocked"}

ChecksTyped ==
    ChecksTypeOK /\ (stage \in SinceAssembly => {"stability", "serviceability"} \subseteq DOMAIN evidence)

LEMMA TieStatusType == ASSUME NEW t PROVE TieStatus(t) \in Verdict
  BY DEF TieStatus, Verdict

LEMMA JointStatusType == ASSUME NEW j PROVE JointStatus(j) \in Verdict
<1>1. Calculated(j).status \in {"none", "unsupported", "fail", "pass"}
  BY CalculatedType
<1>2. \A t : TieJoint(j, t) \in Verdict
  BY DEF TieJoint, Verdict
<1> QED BY <1>1, <1>2 DEF JointStatus, Verdict

LEMMA CheckOfJointType == ASSUME NEW j PROVE CheckOfJoint(j).status \in Verdict
<1>1. \E v, f, m, s : CheckOfJoint(j) = [status |-> JointStatus(j), verified |-> v,
                                          force |-> f, moment |-> m, stiff |-> s]
  BY Zenon DEF CheckOfJoint
<1> QED BY <1>1, JointStatusType

LEMMA RestraintType ==
    ASSUME NEW r \in RestraintVerdicts
    PROVE  r.status \in {"pass", "fail", "candidate", "unsupported", "not_required"}
<1>1. PICK all : all = IF frame.memberCombos = {} THEN {} ELSE frame.candidates
  OBVIOUS
<1>2. PICK c \in all, k \in frame.memberCombos \cup {active.id} :
         r = [candidate |-> c.id, combination |-> k,
              status |-> IF c.member \in Unbraced THEN "not_required" ELSE RestraintStatus(c, k)]
  BY <1>1 DEF RestraintVerdicts
<1>3. RestraintStatus(c, k) \in {"pass", "fail", "candidate", "unsupported"}
  BY DEF RestraintStatus
<1> QED BY <1>2, <1>3

LEMMA StageType ==
    /\ StatusesOf(StageEvidence) \subseteq Opinion
    /\ {"stability", "serviceability"} \subseteq DOMAIN StageEvidence
<1>1. /\ GeometryStage \in Opinion /\ ActionsStage \in Opinion /\ CombinationsStage \in Opinion
      /\ AnalysisStage \in Opinion /\ StabilityStage \in Opinion
      /\ ServiceabilityStage \in Opinion /\ BracingStage \in Opinion
      /\ \A v : Rolled(v) \in Opinion
 <2>1. GeometryStage \in Opinion /\ ActionsStage \in Opinion /\ CombinationsStage \in Opinion
   BY DEF GeometryStage, ActionsStage, CombinationsStage, Opinion, Verdict
 <2>2. AnalysisStage \in Opinion /\ StabilityStage \in Opinion
   BY DEF AnalysisStage, StabilityStage, Opinion, Verdict
 <2>3. ServiceabilityStage \in Opinion
   BY DEF ServiceabilityStage, Opinion, Verdict
 <2>4. BracingStage \in Opinion
   BY DEF BracingStage, Opinion, Verdict
 <2>5. \A v : Rolled(v) \in Opinion
   BY DEF Rolled, Opinion, Verdict
 <2> QED BY <2>1, <2>2, <2>3, <2>4, <2>5
<1>2. DOMAIN StageEvidence =
        {"geometry", "actions", "combinations", "analysis", "stability", "cross_section",
         "member_stability", "bracing", "connections", "serviceability"}
  BY DEF StageEvidence
<1>3. /\ StageEvidence.geometry = GeometryStage /\ StageEvidence.combinations = CombinationsStage
      /\ StageEvidence.analysis = AnalysisStage
  BY DEF StageEvidence
<1>4. \A s \in DOMAIN StageEvidence : StageEvidence[s] \in Opinion
  BY <1>1, <1>2, <1>3, StagesAre
<1> QED BY <1>2, <1>4 DEF StatusesOf

LEMMA GatesType ==
    ASSUME StatusesOf(evidence) \subseteq Opinion,
           {"stability", "serviceability"} \subseteq DOMAIN evidence
    PROVE  StatusesOf(Gates) \subseteq Opinion
<1>1. evidence.stability \in Opinion /\ evidence.serviceability \in Opinion
  BY DEF StatusesOf
<1>2. \A s : Combined(s) \in Opinion
  BY DEF Combined, Opinion, Verdict
<1>3. \A c, x : x \in Opinion => PassOr(c, x) \in Opinion
  BY DEF PassOr, Opinion, Verdict
<1>4. PICK a, b, c, d :
         /\ Gates = [project_basis |-> a, actions |-> b, analysis |-> c, stability |-> evidence.stability,
                     member_capacity |-> Combined({"cross_section", "member_stability"}),
                     load_path |-> d, serviceability |-> evidence.serviceability]
         /\ {a, b, c, d} \subseteq Opinion
 <2>1. PICK a : a = PassOr(/\ frame.basis.given /\ frame.basis.register /\ frame.basis.confirmed
                           /\ "unverified" \notin frame.wind, "blocked")
   OBVIOUS
 <2>2. PICK b : b = PassOr(Combined({"actions", "combinations"}) = "pass" /\ frame.actionPack = "verified",
                           "blocked")
   OBVIOUS
 <2>3. PICK c : c = PassOr(Combined({"geometry", "analysis"}) = "pass" /\ frame.balanced,
                           IF frame.balanced THEN "blocked" ELSE "fail")
   OBVIOUS
 <2>4. PICK d : d = PassOr(Combined({"bracing", "connections"}) = "pass" /\ StatusesOf(tieCheck) \subseteq {"pass"},
                           IF Combined({"bracing", "connections"}) = "fail" THEN "fail" ELSE "blocked")
   OBVIOUS
 <2>5. Gates = [project_basis |-> a, actions |-> b, analysis |-> c, stability |-> evidence.stability,
                member_capacity |-> Combined({"cross_section", "member_stability"}),
                load_path |-> d, serviceability |-> evidence.serviceability]
   BY <2>1, <2>2, <2>3, <2>4, Zenon DEF Gates
 <2>6. "blocked" \in Opinion /\ "fail" \in Opinion
   BY DEF Opinion, Verdict
 <2>7. (IF frame.balanced THEN "blocked" ELSE "fail") \in Opinion
       /\ (IF Combined({"bracing", "connections"}) = "fail" THEN "fail" ELSE "blocked") \in Opinion
   BY <2>6
 <2>8. a \in Opinion
   BY <1>3, <2>1, <2>6, Zenon
 <2>9. b \in Opinion
   BY <1>3, <2>2, <2>6, Zenon
 <2>10. c \in Opinion
   BY <1>3, <2>3, <2>7, Zenon
 <2>11. d \in Opinion
   BY <1>3, <2>4, <2>7, Zenon
 <2> QED BY <2>5, <2>8, <2>9, <2>10, <2>11
<1>5. PICK e : e = Combined({"cross_section", "member_stability"})
  OBVIOUS
<1> QED BY <1>1, <1>2, <1>4, <1>5 DEF StatusesOf

LEMMA TypedInitially == ChecksInit => ChecksTyped
<1> SUFFICES ASSUME ChecksInit PROVE ChecksTyped
  OBVIOUS
<1>1. /\ chosen \in Selections /\ stage = "new" /\ active = NoCombination
      /\ StatusesOf(tieCheck) = {} /\ JointVerdicts = {} /\ StatusesOf(braceTrace) = {}
      /\ Restrained = {} /\ deflection = {} /\ StatusesOf(evidence) = {}
      /\ gate = NoGate
  BY DEF ChecksInit, NoVerdicts, StatusesOf, JointVerdicts, Restrained
<1>2. StatusesOf(gate.gates) = {} /\ gate.document = "none" /\ gate.colours = "none"
  BY <1>1 DEF NoGate, NoVerdicts, StatusesOf
<1> QED BY <1>1, <1>2 DEF ChecksTyped, ChecksTypeOK, Stages, SinceAssembly, Decided

LEMMA TypedStep == ChecksInv /\ ChecksInv' /\ ChecksTyped /\ [ChecksNext]_checkVars => ChecksTyped'
<1> SUFFICES ASSUME ChecksInv, ChecksInv', ChecksTyped, [ChecksNext]_checkVars PROVE ChecksTyped'
  OBVIOUS
<1>0. frame' = frame /\ chosen' = chosen
  BY DEF ChecksNext, checkVars, Prepare, Solve, CheckTies, CheckJoints, TraceBraces,
         CheckRestraints,
         CheckDeflections, Assemble, Decide
<1>1. (chosen \in Selections)'
  BY <1>0 DEF ChecksTyped, ChecksTypeOK
<1>2. (stage \in Stages \cup {"refused", "crashed"})'
  BY DEF ChecksTyped, ChecksTypeOK, Stages, ChecksNext, checkVars, Prepare, Solve, CheckTies,
         CheckJoints,
         TraceBraces, CheckRestraints, CheckDeflections, Assemble, Decide
<1>3. (active = NoCombination \/ \E c \in ToSet(Combinations) : active = Keep(c))'
 <2>1. CASE active' = active
  <3>1. Combinations' = Combinations
    BY <1>0 DEF Combinations
  <3> QED BY <2>1, <3>1 DEF ChecksTyped, ChecksTypeOK, ToSet, Keep, NoCombination
 <2>2. CASE stage' \in {"topology", "response"}
   BY <2>2 DEF ChecksInv, ActiveIsOne, ToSet
 <2>3. active' = active \/ stage' \in {"topology", "response"}
   BY DEF ChecksNext, checkVars, Prepare, Solve, CheckTies, CheckJoints, TraceBraces,
          CheckRestraints,
          CheckDeflections, Assemble, Decide
 <2> QED BY <2>1, <2>2, <2>3
<1>4. (StatusesOf(tieCheck) \cup JointVerdicts \subseteq Verdict)'
 <2>1. (StatusesOf(tieCheck) \subseteq Verdict)'
  <3>1. CASE tieCheck' = tieCheck
    BY <3>1 DEF ChecksTyped, ChecksTypeOK, StatusesOf
  <3>2. CASE tieCheck' = [t \in frame.ties |-> TieStatus(t)]
    BY <3>2, TieStatusType DEF StatusesOf
  <3> QED BY <3>1, <3>2
      DEF ChecksNext, checkVars, Prepare, Solve, CheckTies, CheckJoints, TraceBraces,
             CheckRestraints, CheckDeflections, Assemble, Decide
 <2>2. (JointVerdicts \subseteq Verdict)'
  <3>1. CASE jointCheck' = jointCheck
    BY <3>1 DEF ChecksTyped, ChecksTypeOK, JointVerdicts
  <3>2. CASE jointCheck' = [id \in {j.id : j \in FrameJoints} |->
                              CheckOfJoint(CHOOSE j \in FrameJoints : j.id = id)]
    BY <3>2, CheckOfJointType DEF JointVerdicts
  <3> QED BY <3>1, <3>2
      DEF ChecksNext, checkVars, Prepare, Solve, CheckTies, CheckJoints, TraceBraces,
             CheckRestraints, CheckDeflections, Assemble, Decide
 <2> QED BY <2>1, <2>2 DEF Verdict
<1>5. (StatusesOf(braceTrace) \subseteq {"pass", "fail", "candidate", "blocked"})'
 <2>1. CASE braceTrace' = braceTrace
   BY <2>1 DEF ChecksTyped, ChecksTypeOK, StatusesOf
 <2>2. CASE braceTrace' = [t \in DOMAIN tieCheck |-> Trace(t)]
   BY <2>2, TraceIs DEF StatusesOf
 <2> QED BY <2>1, <2>2
     DEF ChecksNext, checkVars, Prepare, Solve, CheckTies, CheckJoints, TraceBraces,
            CheckRestraints, CheckDeflections, Assemble, Decide
<1>6. (Restrained \subseteq {"pass", "fail", "candidate", "unsupported", "not_required"})'
 <2>1. CASE restraintCheck' = restraintCheck
   BY <2>1 DEF ChecksTyped, ChecksTypeOK, Restrained
 <2>2. CASE restraintCheck' = RestraintVerdicts
   BY <2>2, RestraintType DEF Restrained
 <2> QED BY <2>1, <2>2
     DEF ChecksNext, checkVars, Prepare, Solve, CheckTies, CheckJoints, TraceBraces,
            CheckRestraints, CheckDeflections, Assemble, Decide
<1>7. (deflection \subseteq {"pass", "fail", "not_checked", "not_applicable"})'
 <2>1. CASE deflection' = deflection
   BY <2>1 DEF ChecksTyped, ChecksTypeOK
 <2>2. CASE deflection' = {DeflectionStatus(s) : s \in frame.spans}
   BY <2>2 DEF DeflectionStatus
 <2> QED BY <2>1, <2>2
     DEF ChecksNext, checkVars, Prepare, Solve, CheckTies, CheckJoints, TraceBraces,
            CheckRestraints, CheckDeflections, Assemble, Decide
<1>8. (StatusesOf(evidence) \subseteq Opinion)'
      /\ (stage \in SinceAssembly => {"stability", "serviceability"} \subseteq DOMAIN evidence)'
 <2>1. CASE evidence' = evidence /\ (stage' \in SinceAssembly => stage \in SinceAssembly)
   BY <2>1 DEF ChecksTyped, ChecksTypeOK, StatusesOf, Opinion, Verdict
 <2>2. CASE evidence' = StageEvidence
   BY <2>2, StageType DEF StatusesOf, Opinion, Verdict
 <2> QED BY <2>1, <2>2
     DEF ChecksNext, checkVars, Prepare, Solve, CheckTies, CheckJoints, TraceBraces,
            CheckRestraints, CheckDeflections, Assemble, Decide, SinceAssembly, Decided
<1>9. /\ (StatusesOf(gate.gates) \subseteq Opinion)'
      /\ (gate.document \in
             {"none", "certificate_draft_ready", "engineering_review_draft", "analysis_incomplete"})'
      /\ (gate.colours \in {"none", "shown", "neutral"})'
 <2>1. CASE gate' = gate
   BY <2>1 DEF ChecksTyped, ChecksTypeOK, StatusesOf, Opinion, Verdict
 <2>2. CASE Decide
  <3>1. stage \in SinceAssembly /\ gate' = [gates |-> Gates, document |-> Document(Gates), colours |-> Colours]
    BY <2>2 DEF Decide, SinceAssembly
  <3>2. StatusesOf(evidence) \subseteq Opinion /\ {"stability", "serviceability"} \subseteq DOMAIN evidence
    BY <3>1 DEF ChecksTyped, ChecksTypeOK, Opinion
  <3>3. gate'.gates = Gates /\ gate'.document = Document(Gates) /\ gate'.colours = Colours
    BY <3>1
  <3>4. StatusesOf(Gates) \subseteq Opinion
    BY <3>2, GatesType
  <3>5. Document(Gates) \in {"certificate_draft_ready", "engineering_review_draft", "analysis_incomplete"}
        /\ Colours \in {"shown", "neutral"}
    BY DEF Document, Colours
  <3> QED BY <3>3, <3>4, <3>5 DEF StatusesOf, Opinion, Verdict
 <2> QED BY <2>1, <2>2
     DEF ChecksNext, checkVars, Prepare, Solve, CheckTies, CheckJoints, TraceBraces,
            CheckRestraints, CheckDeflections, Assemble
<1> QED BY <1>1, <1>2, <1>3, <1>4, <1>5, <1>6, <1>7, <1>8, <1>9
    DEF ChecksTyped, ChecksTypeOK, Opinion

\* The analysis and its verdicts are well typed for any frames and requests.
THEOREM ChecksTypeCorrect == ChecksSpec => []ChecksTypeOK
<1>1. ChecksInit => ChecksInv /\ ChecksTyped
  BY ChecksInitially, TypedInitially
<1>2. ChecksInv /\ ChecksTyped /\ [ChecksNext]_checkVars => ChecksInv' /\ ChecksTyped'
  BY ChecksStep, TypedStep
<1>3. ChecksInv /\ ChecksTyped => ChecksTypeOK
  BY DEF ChecksTyped
<1> QED BY <1>1, <1>2, <1>3, PTL DEF ChecksSpec

----
(***************************************************************************)
(* The wind on the building (WindActions), for any buildings, sites and    *)
(* settings.  The loads of each step are a function of the measured building, *)
(* and what is said of them follows from that: a load is known by its case, *)
(* member and part; sums over loads are counts of places, and the strips of *)
(* the frames, doubled, part the length of the building; a member of a     *)
(* symmetric building and its image carry twins.                           *)
(***************************************************************************)

\* A collection of sets with the empty one, and with every set it has one element more,

\* has every finite set.
LEMMA FiniteGrowth ==
    ASSUME NEW S, IsFiniteSet(S), NEW W, {} \in W,
           \A T \in SUBSET S, x \in S : T \in W => T \cup {x} \in W
    PROVE  S \in W
<1> DEFINE n == Cardinality(S)
<1>1. n \in Nat /\ ExistsBijection(1..n, S)
  BY FS_CardinalityType
<1>2. PICK f \in Bijection(1..n, S) : TRUE
  BY <1>1 DEF ExistsBijection
<1>3. f \in [1..n -> S] /\ \A y \in S : \E i \in 1..n : f[i] = y
  BY <1>2 DEF Bijection, Injection, Surjection
<1> DEFINE First(k) == {f[i] : i \in 1..k}
           N == {k \in Nat : k <= n => First(k) \in W}
<1> HIDE DEF n
<1>4. 0 \in N
 <2>1. First(0) = {}
   OBVIOUS
 <2> HIDE DEF First
 <2> QED BY <2>1
<1>5. ASSUME NEW k \in Nat, k \in N PROVE k + 1 \in N
 <2> SUFFICES ASSUME k + 1 <= n PROVE First(k + 1) \in W
   OBVIOUS
 <2>1. First(k + 1) = First(k) \cup {f[k + 1]}
  <3>1. 1..(k + 1) = (1..k) \cup {k + 1}
    OBVIOUS
  <3> QED BY <3>1
 <2>2. First(k) \in SUBSET S /\ f[k + 1] \in S /\ First(k) \in W
   BY <1>1, <1>3, <1>5
 <2> HIDE DEF First
 <2> QED BY <2>1, <2>2
<1> HIDE DEF N
<1>6. n \in N
  BY <1>1, <1>4, <1>5, AllNaturals
<1>7. First(n) = S
  BY <1>3
<1> HIDE DEF First
<1>8. n <= n => First(n) \in W
  BY <1>6 DEF N
<1> QED BY <1>1, <1>7, <1>8

\* Some numbers, finitely many, have a greatest and a least one.
LEMMA Extremes ==
    ASSUME NEW S \in SUBSET Int, IsFiniteSet(S), S # {}
    PROVE  /\ Max(S) \in S /\ \A y \in S : y <= Max(S)
           /\ Min(S) \in S /\ \A y \in S : Min(S) <= y
<1> DEFINE W == {T \in SUBSET S : T # {} => /\ \E x \in T : \A y \in T : x >= y
                                           /\ \E x \in T : \A y \in T : x <= y}
<1>1. {} \in W
  OBVIOUS
<1>2. ASSUME NEW T \in SUBSET S, NEW z \in S, T \in W PROVE T \cup {z} \in W
 <2>1. CASE T = {}
   BY <2>1
 <2>2. CASE T # {}
  <3>1. PICK a \in T : \A y \in T : a >= y
    BY <1>2, <2>2
  <3>2. PICK b \in T : \A y \in T : b <= y
    BY <1>2, <2>2
  <3>3. \A y \in T \cup {z} : (IF a >= z THEN a ELSE z) >= y
    BY <3>1
  <3>4. \A y \in T \cup {z} : (IF b <= z THEN b ELSE z) <= y
    BY <3>2
  <3> QED BY <3>1, <3>2, <3>3, <3>4
 <2> QED BY <2>1, <2>2
<1>3. S \in W
 <2> HIDE DEF W
 <2> QED BY <1>1, <1>2, FiniteGrowth
<1>4. (\E x \in S : \A y \in S : x >= y) /\ \E x \in S : \A y \in S : x <= y
  BY <1>3
<1>5. Max(S) \in S /\ \A y \in S : Max(S) >= y
  BY <1>4 DEF Max
<1>6. Min(S) \in S /\ \A y \in S : Min(S) <= y
  BY <1>4 DEF Min
<1> QED BY <1>5, <1>6

----
(* A sum over a set, element by element in some order.                     *)

\* What is chosen first.
Chooses(ch, S) == \A s \in SUBSET S : s # {} => ch[s] \in s

\* The sum of what is chosen and of the rest, of every set of some sets.
Runs(it, D, ch, w) == it = [s \in D |-> IF s = {} THEN 0 ELSE w[ch[s]] + it[s \ {ch[s]}]]

\* There is a way to choose.
LEMMA SomeChoice ==
    ASSUME NEW S
    PROVE  \E ch : Chooses(ch, S) /\ \A s \in SUBSET S : ch[s] = CHOOSE x \in s : TRUE
<1> DEFINE ch == [s \in SUBSET S |-> CHOOSE x \in s : TRUE]
<1>1. ASSUME NEW s \in SUBSET S PROVE ch[s] = (CHOOSE x \in s : TRUE) /\ (s # {} => ch[s] \in s)
 <2>1. ch[s] = CHOOSE x \in s : TRUE
   BY Zenon
 <2>2. s # {} => (CHOOSE x \in s : TRUE) \in s
   BY Zenon
 <2> QED BY <2>1, <2>2, Zenon
<1> HIDE DEF ch
<1> QED BY <1>1 DEF Chooses

\* A sum of the sets of at most n elements.
LEMMA LevelRuns ==
    ASSUME NEW S, IsFiniteSet(S), NEW ch, Chooses(ch, S), NEW w, NEW n \in Nat
    PROVE  \E it : Runs(it, {s \in SUBSET S : Cardinality(s) <= n}, ch, w)
<1> DEFINE Level(k) == {s \in SUBSET S : Cardinality(s) <= k}
           N == {k \in Nat : \E it : Runs(it, Level(k), ch, w)}
<1>0. ASSUME NEW s \in SUBSET S
      PROVE  /\ IsFiniteSet(s) /\ Cardinality(s) \in Nat
             /\ Cardinality(s) = 0 <=> s = {}
             /\ \A x \in s : Cardinality(s \ {x}) = Cardinality(s) - 1
  BY FS_Subset, FS_CardinalityType, FS_EmptySet, FS_RemoveElement
<1>1. 0 \in N
 <2> DEFINE none == [s \in Level(0) |-> 0]
 <2>1. \A s \in Level(0) : s = {}
   BY <1>0
 <2>2. none = [s \in Level(0) |-> IF s = {} THEN 0 ELSE w[ch[s]] + none[s \ {ch[s]}]]
   BY <2>1, Zenon
 <2>3. \E it : it = [s \in Level(0) |-> IF s = {} THEN 0 ELSE w[ch[s]] + it[s \ {ch[s]}]]
   BY <2>2, Zenon
 <2>4. \E it : Runs(it, Level(0), ch, w)
   BY <2>3, Zenon DEF Runs
 <2> QED BY <2>4, Zenon
<1>2. ASSUME NEW k \in Nat, k \in N PROVE k + 1 \in N
 <2>1. PICK it : Runs(it, Level(k), ch, w)
   BY <1>2
 <2> DEFINE more == [s \in Level(k + 1) |-> IF s = {} THEN 0 ELSE w[ch[s]] + it[s \ {ch[s]}]]
 <2>2. ASSUME NEW s \in Level(k) PROVE s \in Level(k + 1) /\ more[s] = it[s]
  <3>1. s \in Level(k + 1)
    BY <1>0
  <3>2. it[s] = IF s = {} THEN 0 ELSE w[ch[s]] + it[s \ {ch[s]}]
   <4> HIDE DEF Level
   <4> QED BY <2>1, <2>2, Zenon DEF Runs
  <3>3. more[s] = IF s = {} THEN 0 ELSE w[ch[s]] + it[s \ {ch[s]}]
   <4> HIDE DEF Level
   <4> QED BY <3>1, Zenon
  <3> QED BY <3>1, <3>2, <3>3, Zenon
 <2>3. ASSUME NEW s \in Level(k + 1), s # {} PROVE s \ {ch[s]} \in Level(k)
   BY <1>0, <2>3 DEF Chooses
 <2>4. ASSUME NEW s \in Level(k + 1), s # {} PROVE more[s \ {ch[s]}] = it[s \ {ch[s]}]
  <3> HIDE DEF more, Level
  <3> QED BY <2>2, <2>3, <2>4, Zenon
 <2>5. ASSUME NEW s \in Level(k + 1)
       PROVE  more[s] = IF s = {} THEN 0 ELSE w[ch[s]] + more[s \ {ch[s]}]
  <3>1. more[s] = IF s = {} THEN 0 ELSE w[ch[s]] + it[s \ {ch[s]}]
   <4> HIDE DEF Level
   <4> QED BY Zenon
  <3> HIDE DEF more, Level
  <3> QED BY <2>4, <3>1, Zenon
 <2>6. Runs(more, Level(k + 1), ch, w)
  <3>1. more = [s \in Level(k + 1) |-> more[s]]
   <4> HIDE DEF Level
   <4> QED BY Zenon
  <3>2. [s \in Level(k + 1) |-> more[s]]
          = [s \in Level(k + 1) |-> IF s = {} THEN 0 ELSE w[ch[s]] + more[s \ {ch[s]}]]
   <4> HIDE DEF more, Level
   <4> QED BY <2>5, Zenon
  <3> HIDE DEF more, Level
  <3> QED BY <3>1, <3>2, Zenon DEF Runs
 <2> HIDE DEF more, Level
 <2> QED BY <2>6
<1> HIDE DEF N
<1>3. n \in N
  BY <1>1, <1>2, AllNaturals
<1> QED BY <1>3 DEF N

\* There is a sum of all the subsets of a finite set.
LEMMA SomeSum ==
    ASSUME NEW S, IsFiniteSet(S), NEW ch, Chooses(ch, S), NEW w
    PROVE  \E it : Runs(it, SUBSET S, ch, w)
<1> DEFINE n == Cardinality(S)
<1>1. n \in Nat
  BY FS_CardinalityType
<1>2. \A s \in SUBSET S : Cardinality(s) <= n
  BY FS_Subset
<1>3. {s \in SUBSET S : Cardinality(s) <= n} = SUBSET S
  BY <1>2
<1> HIDE DEF n
<1>4. \E it : Runs(it, {s \in SUBSET S : Cardinality(s) <= n}, ch, w)
  BY <1>1, LevelRuns
<1> QED BY <1>3, <1>4, Zenon

\* The sum of a function over a set, as the library folds it.
LEMMA SumOnSetRuns ==
    ASSUME NEW S, IsFiniteSet(S), NEW f
    PROVE  \E ch, it : Chooses(ch, S) /\ Runs(it, SUBSET S, ch, f) /\ SumFunctionOnSet(f, S) = it[S]
<1>1. PICK ch : Chooses(ch, S) /\ \A s \in SUBSET S : ch[s] = CHOOSE x \in s : TRUE
  BY SomeChoice
<1>2. PICK run : Runs(run, SUBSET S, ch, f)
  BY <1>1, SomeSum
<1>3. run = [s \in SUBSET S |-> IF s = {} THEN 0
                ELSE f[CHOOSE x \in s : TRUE] + run[s \ {CHOOSE x \in s : TRUE}]]
 <2>1. [s \in SUBSET S |-> IF s = {} THEN 0 ELSE f[ch[s]] + run[s \ {ch[s]}]]
         = [s \in SUBSET S |-> IF s = {} THEN 0
               ELSE f[CHOOSE x \in s : TRUE] + run[s \ {CHOOSE x \in s : TRUE}]]
   BY <1>1, Zenon
 <2> QED BY <1>2, <2>1, Zenon DEF Runs
<1>4. PICK it : /\ it = [s \in SUBSET S |-> IF s = {} THEN 0
                          ELSE f[CHOOSE x \in s : TRUE] + it[s \ {CHOOSE x \in s : TRUE}]]
                /\ SumFunctionOnSet(f, S) = it[S]
  BY <1>3, Zenon DEF SumFunctionOnSet, FoldFunctionOnSet, MapThenFoldSet
<1>5. [s \in SUBSET S |-> IF s = {} THEN 0 ELSE f[ch[s]] + it[s \ {ch[s]}]]
        = [s \in SUBSET S |-> IF s = {} THEN 0
              ELSE f[CHOOSE x \in s : TRUE] + it[s \ {CHOOSE x \in s : TRUE}]]
  BY <1>1, Zenon
<1>6. Runs(it, SUBSET S, ch, f)
  BY <1>4, <1>5, Zenon DEF Runs
<1> QED BY <1>1, <1>4, <1>6, Zenon

\* The sum of the widths of loads, as the library folds it.
LEMMA WidthsRun ==
    ASSUME NEW S, IsFiniteSet(S)
    PROVE  \E ch, it : /\ Chooses(ch, S) /\ Runs(it, SUBSET S, ch, [l \in S |-> l.width])
                       /\ MapThenSumSet(LAMBDA l : l.width, S) = it[S]
<1> DEFINE f == [l \in S |-> l.width]
<1>1. PICK ch : Chooses(ch, S) /\ \A s \in SUBSET S : ch[s] = CHOOSE x \in s : TRUE
  BY SomeChoice
<1>2. PICK run : Runs(run, SUBSET S, ch, f)
  BY <1>1, SomeSum
<1>0. ASSUME NEW s \in SUBSET S, s # {} PROVE f[ch[s]] = (CHOOSE x \in s : TRUE).width
 <2>1. ch[s] \in S /\ ch[s] = CHOOSE x \in s : TRUE
   BY <1>0, <1>1 DEF Chooses
 <2>2. f[ch[s]] = ch[s].width
   BY <2>1
 <2> QED BY <2>1, <2>2, Zenon
<1> HIDE DEF f
<1>3. run = [s \in SUBSET S |-> IF s = {} THEN 0
                ELSE (CHOOSE x \in s : TRUE).width + run[s \ {CHOOSE x \in s : TRUE}]]
 <2>1. [s \in SUBSET S |-> IF s = {} THEN 0 ELSE f[ch[s]] + run[s \ {ch[s]}]]
         = [s \in SUBSET S |-> IF s = {} THEN 0
               ELSE (CHOOSE x \in s : TRUE).width + run[s \ {CHOOSE x \in s : TRUE}]]
   BY <1>0, <1>1, Zenon
 <2> QED BY <1>2, <2>1, Zenon DEF Runs
<1>4. PICK it : /\ it = [s \in SUBSET S |-> IF s = {} THEN 0
                          ELSE (CHOOSE x \in s : TRUE).width + it[s \ {CHOOSE x \in s : TRUE}]]
                /\ MapThenSumSet(LAMBDA l : l.width, S) = it[S]
  BY <1>3, Zenon DEF MapThenSumSet, MapThenFoldSet
<1>5. [s \in SUBSET S |-> IF s = {} THEN 0 ELSE f[ch[s]] + it[s \ {ch[s]}]]
        = [s \in SUBSET S |-> IF s = {} THEN 0
              ELSE (CHOOSE x \in s : TRUE).width + it[s \ {CHOOSE x \in s : TRUE}]]
  BY <1>0, <1>1, Zenon
<1>6. Runs(it, SUBSET S, ch, f)
  BY <1>4, <1>5, Zenon DEF Runs
<1> QED BY <1>1, <1>4, <1>6, Zenon DEF f

\* Places of a set: as many for an element as it counts.
Slots(S, w) == {p \in S \X Nat : 1 <= p[2] /\ p[2] <= w[p[1]]}

\* One element more brings as many places as it counts.
LEMMA SlotsOfMore ==
    ASSUME NEW s, NEW x \in s, NEW w, w[x] \in Nat,
           IsFiniteSet(Slots(s \ {x}, w))
    PROVE  /\ IsFiniteSet(Slots(s, w))
           /\ Cardinality(Slots(s, w)) = w[x] + Cardinality(Slots(s \ {x}, w))
<1> DEFINE A == Slots(s \ {x}, w)
           B == {x} \X (1..w[x])
<1>1. Slots(s, w) = A \cup B
 <2>1. \A p : p \in Slots(s, w) <=> p \in A \/ p \in B
   BY DEF Slots
 <2> QED BY <2>1
<1>2. A \cap B = {}
  BY DEF Slots
<1>3. IsFiniteSet(1..w[x]) /\ Cardinality(1..w[x]) = w[x]
  BY FS_Interval
<1>4. IsFiniteSet({x}) /\ Cardinality({x}) = 1
  BY FS_Singleton
<1>5. IsFiniteSet(B) /\ Cardinality(B) = 1 * w[x]
 <2>1. PICK X, Y : X = {x} /\ Y = 1..w[x]
   OBVIOUS
 <2>2. IsFiniteSet(X \X Y) /\ Cardinality(X \X Y) = Cardinality(X) * Cardinality(Y)
   BY <1>3, <1>4, <2>1, FS_Product
 <2> QED BY <1>3, <1>4, <2>1, <2>2
<1> HIDE DEF A, B
<1>6. /\ IsFiniteSet(A \cup B)
      /\ Cardinality(A \cup B) = Cardinality(A) + Cardinality(B) - Cardinality(A \cap B)
  BY <1>5, FS_Union DEF A
<1>7. Cardinality(A \cap B) = 0
  BY <1>2, FS_EmptySet
<1>8. Cardinality(A) \in Nat
  BY FS_CardinalityType DEF A
<1> QED BY <1>1, <1>5, <1>6, <1>7, <1>8 DEF A

\* A sum of whole numbers is one, and of counts it is how many places there are.
LEMMA SumCounts ==
    ASSUME NEW S, IsFiniteSet(S), NEW ch, Chooses(ch, S), NEW w, NEW it, Runs(it, SUBSET S, ch, w)
    PROVE  /\ (\A x \in S : w[x] \in Int) => it[S] \in Int
           /\ (\A x \in S : w[x] \in Nat) =>
                  IsFiniteSet(Slots(S, w)) /\ it[S] = Cardinality(Slots(S, w))
<1>0. ASSUME NEW s \in SUBSET S
      PROVE  /\ IsFiniteSet(s) /\ Cardinality(s) \in Nat
             /\ Cardinality(s) = 0 <=> s = {}
             /\ \A x \in s : Cardinality(s \ {x}) = Cardinality(s) - 1
  BY FS_Subset, FS_CardinalityType, FS_EmptySet, FS_RemoveElement
<1>1. it[{}] = 0
  BY Zenon DEF Runs
<1>2. ASSUME NEW s \in SUBSET S, s # {}
      PROVE  ch[s] \in s /\ s \ {ch[s]} \in SUBSET S /\ it[s] = w[ch[s]] + it[s \ {ch[s]}]
 <2>1. ch[s] \in s
   BY <1>2 DEF Chooses
 <2>2. it[s] = w[ch[s]] + it[s \ {ch[s]}]
   BY <1>2, Zenon DEF Runs
 <2> QED BY <2>1, <2>2
<1> DEFINE Level(k) == {s \in SUBSET S : Cardinality(s) <= k}
<1>3. ASSUME NEW k \in Nat, NEW s \in Level(k + 1), s # {} PROVE s \ {ch[s]} \in Level(k)
 <2>1. Cardinality(s \ {ch[s]}) = Cardinality(s) - 1
   BY <1>0, <1>2, <1>3
 <2> QED BY <1>0, <1>2, <1>3, <2>1
<1>4. \A s \in Level(0) : s = {}
  BY <1>0
<1>5. S \in Level(Cardinality(S)) /\ Cardinality(S) \in Nat
  BY <1>0
<1>6. \A k \in Nat : Level(k) \subseteq SUBSET S
  OBVIOUS
<1> HIDE DEF Level
<1>7. ASSUME \A x \in S : w[x] \in Int PROVE it[S] \in Int
 <2> DEFINE N == {k \in Nat : \A s \in Level(k) : it[s] \in Int}
 <2>1. 0 \in N
  <3>1. \A s \in Level(0) : it[s] = 0
    BY <1>1, <1>4, Zenon
  <3>2. \A s \in Level(0) : it[s] \in Int
    BY <3>1
  <3> QED BY <3>2
 <2>2. ASSUME NEW k \in Nat, k \in N PROVE k + 1 \in N
  <3>1. ASSUME NEW s \in Level(k + 1), s # {} PROVE it[s] \in Int
   <4>1. s \in SUBSET S
     BY <1>6
   <4>2. PICK x \in s : x = ch[s] /\ it[s] = w[x] + it[s \ {x}]
     BY <1>2, <3>1, <4>1
   <4>3. it[s \ {x}] \in Int
    <5>1. s \ {x} \in Level(k)
      BY <1>3, <3>1, <4>2
    <5> QED BY <2>2, <5>1
   <4>4. w[x] \in Int
     BY <1>7, <4>1
   <4> QED BY <4>2, <4>3, <4>4
  <3> QED BY <1>1, <3>1
 <2> HIDE DEF N
 <2>3. \A k \in Nat : k \in N
   BY <2>1, <2>2, AllNaturals
 <2> QED BY <1>5, <2>3 DEF N
<1>8. ASSUME \A x \in S : w[x] \in Nat
      PROVE  IsFiniteSet(Slots(S, w)) /\ it[S] = Cardinality(Slots(S, w))
 <2> DEFINE Counts(s) == IsFiniteSet(Slots(s, w)) /\ it[s] = Cardinality(Slots(s, w))
            N == {k \in Nat : \A s \in Level(k) : Counts(s)}
 <2>0. Counts({})
  <3>1. Slots({}, w) = {}
    BY DEF Slots
  <3> QED BY <1>1, <3>1, FS_EmptySet
 <2>1. 0 \in N
   BY <1>4, <2>0
 <2>2. ASSUME NEW k \in Nat, k \in N PROVE k + 1 \in N
  <3>1. ASSUME NEW s \in Level(k + 1), s # {} PROVE Counts(s)
   <4>1. s \in SUBSET S
     BY <1>6
   <4>2. PICK x \in s : x = ch[s] /\ it[s] = w[x] + it[s \ {x}]
     BY <1>2, <3>1, <4>1
   <4>3. Counts(s \ {x})
    <5>1. s \ {x} \in Level(k)
      BY <1>3, <3>1, <4>2
    <5> HIDE DEF Counts
    <5> QED BY <2>2, <5>1
   <4>4. w[x] \in Nat
     BY <1>8, <4>1
   <4>5. IsFiniteSet(Slots(s, w)) /\ Cardinality(Slots(s, w)) = w[x] + Cardinality(Slots(s \ {x}, w))
     BY <4>3, <4>4, SlotsOfMore
   <4> QED BY <4>2, <4>3, <4>5
  <3> HIDE DEF Counts
  <3> QED BY <2>0, <3>1
 <2> HIDE DEF N
 <2>3. \A k \in Nat : k \in N
   BY <2>1, <2>2, AllNaturals
 <2> QED BY <1>5, <2>3 DEF N
<1> QED BY <1>7, <1>8

----
(* The loads that every step leaves, and the steps.                        *)

\* A building of portal frames that was measured.
Fits(b, s) ==
    /\ FramesAt(b) # {} /\ \A y \in FramesAt(b) : IsPortal(b, y)
    /\ \A m \in Framing(b) : ~m.skewed
    /\ s = Measured(b) /\ s.length # 0 /\ ~(s.width <= 0) /\ s.pitch \in 10..25

\* The action cases that are derived from the building.
Derived == {RoofCase} \cup WindCases

\* All loads of a building: those of the winds across with the imposed ones, those of
\* the winds along, and a distributed load of each.
LoadsAcross(b, site, s) ==
    (UNION {AcrossLoads(b, site, s, c, c.role[4]) : c \in {d \in WindCases : d.role[3] = "x"}})
    \cup {RoofLoad(b, m) : m \in With(b, "rafter")}
LoadsAlong(b, site, s) ==
    UNION {AlongLoads(b, site, s, c, c.role[4]) : c \in {d \in WindCases : d.role[3] = "y"}}
AllLoads(b, site, s) == LoadsAcross(b, site, s) \cup LoadsAlong(b, site, s)
LineOf(l, site) ==
    [of |-> l.id, member |-> l.member, case |-> l.case, pressure |-> Overlaid(l, site).pressure,
     width |-> l.width, toward |-> l.toward]

\* The loads, the bases and the lines of a building whose wind was worked out.
Carried ==
    /\ Fits(shed, shape) /\ Derived \subseteq cases
    /\ surface = {Overlaid(l, where[1]) : l \in AllLoads(shed, where[1], shape)}
    /\ bases = {EventBasis(where[1], e, f) : e \in Events, f \in Faces}
    /\ lines = {LineOf(l, where[1]) : l \in AllLoads(shed, where[1], shape)}

\* Action cases have names of their own.
CasesStand ==
    /\ \A c \in cases : c = [id |-> c.id, role |-> c.role, profile |-> c.profile]
    /\ \A c, d \in cases : c.id = d.id => c = d

\* A point load is configured, or the concentrated action of a case of its name.
PointsStand ==
    \A p \in points \ given.points :
        \E c \in cases : c.id = p /\ c.role = Imposed /\ c.profile = "concentrated"

\* The surface loads that each step has left.
SurfaceStands ==
    /\ phase \in {"new", "framed", "cases"} => surface = {}
    /\ phase \in {"across", "points"} => surface = LoadsAcross(shed, where[1], shape)
    /\ phase = "along" => surface = AllLoads(shed, where[1], shape)
    /\ phase \in {"loaded", "traced", "combined"} => surface = {} \/ Carried

\* What holds of a request in every state.
WindInv ==
    /\ shed \in Sheds /\ given \in WindSettings
    /\ CasesStand /\ PointsStand /\ SurfaceStands
    /\ phase \in {"framed", "cases", "across", "points", "along"} => Fits(shed, shape)
    /\ phase \in {"cases", "across", "points", "along"} => Derived \subseteq cases
    /\ phase = "combined" =>
          combined = [combinations |-> Available(cases), unavailable |-> Unavailable(cases),
                      sway |-> SwayCheck(shed, Available(cases), cases)]

\* A new request has only what is configured.
LEMMA WindInitially == WindInit => WindInv
<1> SUFFICES ASSUME WindInit PROVE WindInv
  OBVIOUS
<1>1. CasesStand
  BY WindAssumption DEF WindInit, CasesStand
<1> QED BY <1>1 DEF WindInit, WindInv, PointsStand, SurfaceStands

\* The rest of a step that leaves the cases and the points alone.
LEMMA CasesKept ==
    ASSUME CasesStand, PointsStand, UNCHANGED <<cases, points, given>>
    PROVE  CasesStand' /\ PointsStand'
BY DEF CasesStand, PointsStand

\* Nothing is worked out of a request that is refused.
LEMMA RejectKeeps == ASSUME WindInv, Reject PROVE WindInv'
<1>1. CasesStand' /\ PointsStand'
  BY CasesKept DEF WindInv, Reject, GoesTo
<1> QED BY <1>1 DEF WindInv, Reject, GoesTo, SurfaceStands

\* Without wind actions the request keeps what is configured.
LEMMA WithoutWindKeeps == ASSUME WindInv, phase = "new", NEW mark, WithoutWind(mark) PROVE WindInv'
<1>1. CasesStand' /\ PointsStand'
  BY CasesKept DEF WindInv, WithoutWind, GoesTo
<1> QED BY <1>1 DEF WindInv, WithoutWind, GoesTo, SurfaceStands

\* The steps that look at the building leave no load.
LEMMA BeginningKeeps ==
    ASSUME WindInv, NotConfigured \/ WithoutSite \/ NoAxis \/ Skewed \/ NoFrames
    PROVE  WindInv'
<1>1. CASE NotConfigured
 <2>1. phase = "new"
   BY <1>1 DEF NotConfigured
 <2>2. CASE WithoutWind("own")
   BY <2>1, <2>2, WithoutWindKeeps
 <2>3. CASE Reject
   BY <2>3, RejectKeeps
 <2>4. CASE GoesTo("loaded") /\ UNCHANGED <<shape, cases, surface, points, lines, blocked, combined>>
  <3>1. CasesStand' /\ PointsStand'
    BY <2>4, CasesKept DEF WindInv, GoesTo
  <3> QED BY <2>1, <2>4, <3>1 DEF WindInv, GoesTo, SurfaceStands
 <2> QED BY <1>1, <2>2, <2>3, <2>4 DEF NotConfigured
<1>2. CASE WithoutSite
  BY <1>2, WithoutWindKeeps DEF WithoutSite
<1>3. CASE NoAxis
  BY <1>3, RejectKeeps DEF NoAxis
<1>4. CASE Skewed
  BY <1>4, WithoutWindKeeps DEF Skewed, WindAsked
<1>5. CASE NoFrames
  BY <1>5, WithoutWindKeeps DEF NoFrames, Plane, WindAsked
<1> QED BY <1>1, <1>2, <1>3, <1>4, <1>5

\* A building that is framed is measured.
LEMMA MeasureKeeps == ASSUME WindInv, MeasureFrames PROVE WindInv'
<1>1. phase = "new" /\ FramesAt(shed) # {} /\ (\A y \in FramesAt(shed) : IsPortal(shed, y))
      /\ \A m \in Framing(shed) : ~m.skewed
  BY DEF MeasureFrames, Plane, WindAsked
<1>2. PICK s, e : /\ s = Measured(shed)
                  /\ IF ~given.pack THEN Reject
                     ELSE IF s.length = 0 THEN WithoutWind("own")
                     ELSE IF s.rise <= 0 \/ s.width <= 0 \/ s.pitch \notin 10..25 THEN Reject
                     ELSE IF e.enclosure # "enclosed" \/ (e.policy = "verified_only" /\ e.capacity # "verified")
                     THEN WithoutWind("own")
                     ELSE /\ GoesTo("framed")
                          /\ shape' = s
                          /\ UNCHANGED <<cases, surface, points, bases, marks, lines, blocked, combined>>
  BY Zenon DEF MeasureFrames
<1>3. CASE Reject
  BY <1>3, RejectKeeps
<1>4. CASE WithoutWind("own")
  BY <1>1, <1>4, WithoutWindKeeps
<1>5. CASE /\ s.length # 0 /\ ~(s.width <= 0) /\ s.pitch \in 10..25
           /\ GoesTo("framed") /\ shape' = s
           /\ UNCHANGED <<cases, surface, points, bases, marks, lines, blocked, combined>>
 <2>1. CasesStand' /\ PointsStand'
   BY <1>5, CasesKept DEF WindInv, GoesTo
 <2>2. Fits(shed, shape)'
   BY <1>1, <1>2, <1>5 DEF Fits, GoesTo
 <2> QED BY <1>1, <1>5, <2>1, <2>2 DEF WindInv, GoesTo, SurfaceStands
<1> QED BY <1>2, <1>3, <1>4, <1>5

\* New cases that are not in the way of the known ones leave every name with one meaning.
LEMMA CasesAdded ==
    ASSUME CasesStand, NEW new, \A n \in new : ~InTheWay(cases, n),
           \A n \in new : n = [id |-> n.id, role |-> n.role, profile |-> n.profile],
           \A m, n \in new : m.id = n.id => m = n,
           cases' = cases \cup new
    PROVE  CasesStand'
<1>1. ASSUME NEW c \in cases, NEW n \in new, c.id = n.id PROVE c = n
 <2>1. ~InTheWay(cases, n)
   OBVIOUS
 <2>2. \E d \in cases : Same(d, n)
   BY <1>1, <2>1 DEF InTheWay
 <2>3. PICK d \in cases : d.id = n.id /\ d.role = n.role /\ d.profile = n.profile
   BY <2>2 DEF Same
 <2>4. d = c /\ d = [id |-> d.id, role |-> d.role, profile |-> d.profile]
   BY <1>1, <2>3 DEF CasesStand
 <2>5. d = n
   BY <2>3, <2>4
 <2> QED BY <2>4, <2>5
<1>2. ASSUME NEW c \in cases', NEW d \in cases', c.id = d.id PROVE c = d
  BY <1>1, <1>2 DEF CasesStand
<1> QED BY <1>2 DEF CasesStand

\* The derived cases have names of their own.
LEMMA DerivedAre ==
    /\ \A n \in Derived : n = [id |-> n.id, role |-> n.role, profile |-> n.profile]
    /\ \A m, n \in Derived : m.id = n.id => m = n
<1>1. ASSUME NEW n \in WindCases
      PROVE  /\ n = [id |-> n.id, role |-> n.role, profile |-> n.profile]
             /\ n = [id |-> n.id, role |-> n.id, profile |-> "none"]
             /\ Len(n.id) = 4
  BY DEF WindCases, ActionCase, WindRole
<1>2. /\ RoofCase = [id |-> RoofCase.id, role |-> RoofCase.role, profile |-> RoofCase.profile]
      /\ Len(RoofCase.id) = 1
  BY DEF RoofCase, ActionCase
<1>3. ASSUME NEW m \in Derived, NEW n \in Derived, m.id = n.id PROVE m = n
  BY <1>1, <1>2, <1>3 DEF Derived
<1>4. ASSUME NEW n \in Derived PROVE n = [id |-> n.id, role |-> n.role, profile |-> n.profile]
  BY <1>1, <1>2, <1>4 DEF Derived
<1> QED BY <1>3, <1>4

\* The derived cases stand beside the configured ones.
LEMMA DeriveKeeps == ASSUME WindInv, DeriveCases PROVE WindInv'
<1>1. PICK new : /\ new = Derived
                 /\ IF (~\E c \in cases : c.role = Permanent) \/ \E n \in new : InTheWay(cases, n) THEN Reject
                    ELSE /\ GoesTo("cases")
                         /\ cases' = cases \cup new
                         /\ UNCHANGED <<shape, surface, points, bases, marks, lines, blocked, combined>>
  BY Zenon DEF DeriveCases, Derived
<1>2. CASE Reject
  BY <1>2, RejectKeeps
<1>3. CASE /\ \A n \in new : ~InTheWay(cases, n)
           /\ GoesTo("cases") /\ cases' = cases \cup new
           /\ UNCHANGED <<shape, surface, points, bases, marks, lines, blocked, combined>>
 <2>1. CasesStand'
  <3>1. CasesStand
    BY DEF WindInv
  <3>2. /\ \A n \in new : n = [id |-> n.id, role |-> n.role, profile |-> n.profile]
        /\ \A m, n \in new : m.id = n.id => m = n
    BY <1>1, DerivedAre
  <3> QED BY <1>3, <3>1, <3>2, CasesAdded
 <2>2. PointsStand'
   BY <1>3 DEF WindInv, PointsStand, GoesTo
 <2>3. phase = "framed"
   BY DEF DeriveCases
 <2> QED BY <1>1, <1>3, <2>1, <2>2, <2>3 DEF WindInv, GoesTo, SurfaceStands
<1> QED BY <1>1, <1>2, <1>3

\* The loads of the winds across are made at once.
LEMMA AcrossKeeps == ASSUME WindInv, LoadAcross PROVE WindInv'
<1>1. CASE Reject
  BY <1>1, RejectKeeps
<1>2. CASE /\ GoesTo("across") /\ surface' = LoadsAcross(shed, where[1], shape)
           /\ UNCHANGED <<shape, cases, points, bases, marks, lines, blocked, combined>>
 <2>1. CasesStand' /\ PointsStand'
   BY <1>2, CasesKept DEF WindInv, GoesTo
 <2>2. phase = "cases"
   BY DEF LoadAcross
 <2> QED BY <1>2, <2>1, <2>2 DEF WindInv, GoesTo, SurfaceStands
<1> QED BY <1>1, <1>2, Zenon DEF LoadAcross, LoadsAcross

\* A point load comes with its case.
LEMMA PointsKeep == ASSUME WindInv, LoadPoints PROVE WindInv'
<1> DEFINE new == {PointCase(m) : m \in With(shed, "purlin")}
<1>1. CASE Reject
  BY <1>1, RejectKeeps
<1>2. CASE /\ \A c \in new : ~InTheWay(cases, c)
           /\ GoesTo("points") /\ cases' = cases \cup new
           /\ points' = points \cup {c.id : c \in new}
           /\ UNCHANGED <<shape, surface, bases, lines, blocked, combined>>
 <2>1. ASSUME NEW c \in new
       PROVE  /\ c = [id |-> c.id, role |-> c.role, profile |-> c.profile]
              /\ c = [id |-> c.id, role |-> Imposed, profile |-> "concentrated"]
   BY DEF PointCase, ActionCase
 <2> HIDE DEF new
 <2>2. CasesStand'
  <3>1. CasesStand
    BY DEF WindInv
  <3>2. /\ \A n \in new : n = [id |-> n.id, role |-> n.role, profile |-> n.profile]
        /\ \A m, n \in new : m.id = n.id => m = n
   <4>1. ASSUME NEW m \in new, NEW n \in new, m.id = n.id PROVE m = n
     BY <2>1, <4>1
   <4> QED BY <2>1, <4>1
  <3> QED BY <1>2, <3>1, <3>2, CasesAdded
 <2>3. PointsStand'
  <3>1. ASSUME NEW p \in points \ given.points
        PROVE  \E c \in cases' : c.id = p /\ c.role = Imposed /\ c.profile = "concentrated"
    BY <1>2, <3>1 DEF WindInv, PointsStand
  <3>2. ASSUME NEW c \in new
        PROVE  \E d \in cases' : d.id = c.id /\ d.role = Imposed /\ d.profile = "concentrated"
   <4>1. c \in cases' /\ c.role = Imposed /\ c.profile = "concentrated"
     BY <1>2, <2>1
   <4> QED BY <4>1
  <3> QED BY <1>2, <3>1, <3>2 DEF PointsStand, GoesTo
 <2>4. phase = "across"
   BY DEF LoadPoints
 <2> QED BY <1>2, <2>2, <2>3, <2>4 DEF WindInv, GoesTo, SurfaceStands
<1> QED BY <1>1, <1>2, Zenon DEF LoadPoints

\* The loads of the winds along complete the surface.
LEMMA AlongKeeps == ASSUME WindInv, LoadAlong PROVE WindInv'
<1>1. /\ phase = "points" /\ GoesTo("along")
      /\ surface' = surface \cup LoadsAlong(shed, where[1], shape)
      /\ UNCHANGED <<shape, cases, points, bases, marks, lines, blocked, combined>>
  BY Zenon DEF LoadAlong, LoadsAlong
<1>2. CasesStand' /\ PointsStand'
  BY <1>1, CasesKept DEF WindInv, GoesTo
<1> QED BY <1>1, <1>2 DEF WindInv, GoesTo, SurfaceStands, AllLoads

\* The site is laid over all loads.
LEMMA OverlayKeeps == ASSUME WindInv, OverlaySite PROVE WindInv'
<1>1. CASE Reject
  BY <1>1, RejectKeeps
<1>2. CASE /\ GoesTo("loaded")
           /\ bases' = {EventBasis(where[1], e, f) : e \in Events, f \in Faces}
           /\ surface' = {Overlaid(l, where[1]) : l \in surface}
           /\ lines' = {LineOf(l, where[1]) : l \in surface}
           /\ UNCHANGED <<shape, cases, points, blocked, combined>>
 <2>1. CasesStand' /\ PointsStand'
   BY <1>2, CasesKept DEF WindInv, GoesTo
 <2>2. phase = "along"
   BY DEF OverlaySite
 <2>3. Carried'
   BY <1>2, <2>2 DEF WindInv, SurfaceStands, Carried, GoesTo
 <2> QED BY <1>2, <2>1, <2>2, <2>3 DEF WindInv, GoesTo, SurfaceStands
<1>3. {LineOf(l, where[1]) : l \in surface} =
         {[of |-> l.id, member |-> l.member, case |-> l.case,
           pressure |-> Overlaid(l, where[1]).pressure, width |-> l.width,
           toward |-> l.toward] : l \in surface}
  BY Zenon DEF LineOf
<1>4. ~Calculable(where[1]) => Reject
  BY DEF OverlaySite
<1>5. Calculable(where[1]) =>
           /\ GoesTo("loaded")
           /\ surface' = {Overlaid(l, where[1]) : l \in surface}
           /\ lines' = {[of |-> l.id, member |-> l.member, case |-> l.case,
                         pressure |-> Overlaid(l, where[1]).pressure, width |-> l.width,
                         toward |-> l.toward] : l \in surface}
           /\ UNCHANGED <<shape, cases, points, blocked, combined>>
  BY DEF OverlaySite
<1>6. Calculable(where[1]) => bases' = {EventBasis(where[1], e, f) : e \in Events, f \in Faces}
  BY DEF OverlaySite
<1> QED BY <1>1, <1>2, <1>3, <1>4, <1>5, <1>6

\* Tracing changes no load.
LEMMA TraceKeeps == ASSUME WindInv, TraceLoads PROVE WindInv'
<1>1. /\ phase = "loaded" /\ GoesTo("traced")
      /\ UNCHANGED <<shape, cases, surface, points, bases, marks, lines, combined>>
  BY DEF TraceLoads
<1>2. CasesStand' /\ PointsStand'
  BY <1>1, CasesKept DEF WindInv, GoesTo
<1>3. Carried => Carried'
  BY <1>1 DEF Carried, GoesTo
<1> QED BY <1>1, <1>2, <1>3 DEF WindInv, GoesTo, SurfaceStands

\* What is combined is what is available of the cases.
LEMMA CombineKeeps == ASSUME WindInv, Combine PROVE WindInv'
<1>1. CASE Reject
  BY <1>1, RejectKeeps
<1>2. CASE /\ GoesTo("combined")
           /\ combined' = [combinations |-> Available(cases), unavailable |-> Unavailable(cases),
                           sway |-> SwayCheck(shed, Available(cases), cases)]
           /\ UNCHANGED <<shape, cases, surface, points, bases, marks, lines, blocked>>
 <2>1. CasesStand' /\ PointsStand'
   BY <1>2, CasesKept DEF WindInv, GoesTo
 <2>2. Carried => Carried'
   BY <1>2 DEF Carried, GoesTo
 <2>3. phase = "traced"
   BY DEF Combine
 <2>4. /\ cases' = cases /\ shed' = shed
       /\ combined' = [combinations |-> Available(cases'), unavailable |-> Unavailable(cases'),
                       sway |-> SwayCheck(shed', Available(cases'), cases')]
   BY <1>2 DEF GoesTo
 <2> QED BY <1>2, <2>1, <2>2, <2>3, <2>4 DEF WindInv, GoesTo, SurfaceStands
<1> QED BY <1>1, <1>2, Zenon DEF Combine

\* Every step keeps the invariant.
LEMMA WindStep == WindInv /\ [WindNext]_windVars => WindInv'
<1> SUFFICES ASSUME WindInv, [WindNext]_windVars PROVE WindInv'
  OBVIOUS
<1>1. CASE UNCHANGED windVars
 <2>1. CasesStand' /\ PointsStand'
   BY <1>1, CasesKept DEF WindInv, windVars
 <2>2. Carried => Carried'
   BY <1>1 DEF Carried, windVars
 <2> QED BY <1>1, <2>1, <2>2 DEF WindInv, windVars, SurfaceStands
<1> QED BY <1>1, BeginningKeeps, MeasureKeeps, DeriveKeeps, AcrossKeeps, PointsKeep, AlongKeeps,
           OverlayKeeps, TraceKeeps, CombineKeeps DEF WindNext

\* The invariant holds in every state of a request.
LEMMA WindInvariant == WindSpec => []WindInv
<1> QED BY WindInitially, WindStep, PTL DEF WindSpec

----
(* The loads one by one.                                                   *)

\* The loads one by one, under the pressures inside.
InsideAcross(b, site, s, sign) ==
    InternalPressures(OpenSurfaces(b, site, "x", sign), LeewardAcross(s.pitch),
                      Min({UpwindRoof(s), DownwindRoof(s)}))

\* What a frame carries of a member.
AreaOf(b, m) == (m.length * TwiceStrip(b, m.y)) \div 2
WallAcross(b, s, c, sign, inside, m) ==
    IF MeetsWind(b, m, sign)
    THEN FaceLoad(c, m, "wall", "windward", 70, inside, AreaOf(b, m), TwiceStrip(b, m.y), WallOut(m))
    ELSE FaceLoad(c, m, "wall", "leeward", LeewardAcross(s.pitch), inside, AreaOf(b, m),
                  TwiceStrip(b, m.y), WallOut(m))
RoofAcross(b, s, c, sign, inside, m) ==
    FaceLoad(c, m, "roof", "roof", IF UpwindOf(m, sign) THEN UpwindRoof(s) ELSE DownwindRoof(s),
             inside, AreaOf(b, m), TwiceStrip(b, m.y), RoofOut(m))

\* The pressures inside under a wind along.
InsideAlong(b, site, s, sign) ==
    InternalPressures(OpenSurfaces(b, site, "y", sign), LeewardAlong(s),
                      Min({StripRoof(StripDistance(b, y, sign), s) : y \in FramesAt(b)}))

\* The gables of a building.
EndFrames(b) == {FirstFrame(b), LastFrame(b)}
WindwardEnd(b, sign) == IF sign = 1 THEN FirstFrame(b) ELSE LastFrame(b)
GableOut(b, y) == <<0, IF y = FirstFrame(b) THEN -1 ELSE 1, 0>>
Gable(b, s, c, sign, inside, m, part, area, width) ==
    FaceLoad(c, m, part, IF m.y = WindwardEnd(b, sign) THEN "windward" ELSE "leeward",
             IF m.y = WindwardEnd(b, sign) THEN 70 ELSE LeewardAlong(s), inside, area, width,
             GableOut(b, m.y))
TriangleOf(m) == (Magnitude(m.x2 - m.x1) * Magnitude(m.z2 - m.z1)) \div 2
GableWall(b, s, c, sign, inside, m) ==
    Gable(b, s, c, sign, inside, m, "gable-wall", (m.length * s.width) \div 2, s.width)
GableTop(b, s, c, sign, inside, m) ==
    Gable(b, s, c, sign, inside, m, "gable", TriangleOf(m), (2 * TriangleOf(m)) \div m.length)
RoofAlong(b, s, c, sign, inside, m) ==
    FaceLoad(c, m, "roof", "roof", StripRoof(StripDistance(b, m.y, sign), s), inside,
             AreaOf(b, m), TwiceStrip(b, m.y), RoofOut(m))

\* The loads of a wind across are those of the walls and the roofs.
LEMMA AcrossAre ==
    ASSUME NEW b, NEW site, NEW s, NEW c, NEW sign
    PROVE  AcrossLoads(b, site, s, c, sign) =
             {WallAcross(b, s, c, sign, InsideAcross(b, site, s, sign), m) : m \in With(b, "column")}
             \cup {RoofAcross(b, s, c, sign, InsideAcross(b, site, s, sign), m) : m \in With(b, "rafter")}
BY Zenon DEF AcrossLoads, WallAcross, RoofAcross, InsideAcross, AreaOf

\* The loads of a wind along are those of the gables and the roofs.
LEMMA AlongAre ==
    ASSUME NEW b, NEW site, NEW s, NEW c, NEW sign
    PROVE  AlongLoads(b, site, s, c, sign) =
             {GableWall(b, s, c, sign, InsideAlong(b, site, s, sign), m) :
                m \in {n \in With(b, "column") : n.y \in EndFrames(b)}}
             \cup {GableTop(b, s, c, sign, InsideAlong(b, site, s, sign), m) :
                m \in {n \in With(b, "rafter") : n.y \in EndFrames(b) /\ Rises(n)}}
             \cup {RoofAlong(b, s, c, sign, InsideAlong(b, site, s, sign), m) : m \in With(b, "rafter")}
BY Zenon DEF AlongLoads, GableWall, GableTop, RoofAlong, InsideAlong, Gable, GableOut, TriangleOf,
             WindwardEnd, EndFrames, AreaOf

\* The fields of a wind load.
LEMMA FaceLoadIs ==
    ASSUME NEW c, NEW m, NEW part, NEW kind, NEW external, NEW inside, NEW area, NEW width, NEW outward
    PROVE  LET l == FaceLoad(c, m, part, kind, external, inside, area, width, outward)
               net == Worst(external, AreaFactor(area, kind), inside)
           IN  /\ l = [id |-> <<c.id, m.id, part>>, kind |-> "wind", case |-> c.id, member |-> m.id,
                       net |-> net, area |-> area, width |-> width, toward |-> Against(outward, net),
                       basis |-> <<>>, pressure |-> Magnitude(net)]
               /\ l.id = <<c.id, m.id, part>> /\ l.kind = "wind" /\ l.case = c.id /\ l.member = m.id
               /\ l.net = net /\ l.area = area /\ l.width = width /\ l.toward = Against(outward, net)
               /\ l.pressure = Magnitude(net)
<1>1. PICK net : /\ net = Worst(external, AreaFactor(area, kind), inside)
                 /\ FaceLoad(c, m, part, kind, external, inside, area, width, outward)
                    = [id |-> <<c.id, m.id, part>>, kind |-> "wind", case |-> c.id, member |-> m.id,
                       net |-> net, area |-> area, width |-> width, toward |-> Against(outward, net),
                       basis |-> <<>>, pressure |-> Magnitude(net)]
  BY Zenon DEF FaceLoad
<1>2. PICK l : l = FaceLoad(c, m, part, kind, external, inside, area, width, outward)
  OBVIOUS
<1>3. /\ l.id = <<c.id, m.id, part>> /\ l.kind = "wind" /\ l.case = c.id /\ l.member = m.id
      /\ l.net = net /\ l.area = area /\ l.width = width /\ l.toward = Against(outward, net)
      /\ l.pressure = Magnitude(net)
  BY <1>1, <1>2
<1> QED BY <1>1, <1>2, <1>3, Zenon

\* The fields of an imposed load.
LEMMA RoofLoadIs ==
    ASSUME NEW b, NEW m
    PROVE  LET l == RoofLoad(b, m)
           IN  /\ l.id = <<RoofCase.id, m.id, "roof">> /\ l.kind = "live" /\ l.case = RoofCase.id
               /\ l.member = m.id
               /\ l = [id |-> l.id, kind |-> "live", case |-> l.case, member |-> l.member,
                       net |-> l.net, area |-> l.area, width |-> l.width, toward |-> l.toward,
                       basis |-> <<>>, pressure |-> l.pressure]
<1> DEFINE plan == (Magnitude(m.x2 - m.x1) * TwiceStrip(b, m.y)) \div 2
           imposed == Max({2880 \div plan + 12, 25})
           width == (TwiceStrip(b, m.y) * Magnitude(m.x2 - m.x1)) \div m.length
<1>1. RoofLoad(b, m) =
        [id |-> <<RoofCase.id, m.id, "roof">>, kind |-> "live", case |-> RoofCase.id,
         member |-> m.id, net |-> imposed, area |-> plan, width |-> width,
         toward |-> <<0, 0, -1>>, basis |-> <<>>, pressure |-> imposed]
  BY DEF RoofLoad
<1> HIDE DEF plan, imposed, width
<1> QED BY <1>1

\* The wind cases one by one.
LEMMA WindCasesAre ==
    /\ \A e \in Events, a \in {"x", "y"}, s \in Signs :
          ActionCase(WindRole(e, a, s), WindRole(e, a, s), "none") \in WindCases
    /\ \A c \in WindCases : \E e \in Events, a \in {"x", "y"}, s \in Signs :
          /\ c = [id |-> WindRole(e, a, s), role |-> WindRole(e, a, s), profile |-> "none"]
          /\ c.id = WindRole(e, a, s) /\ c.role = c.id /\ c.profile = "none"
          /\ c.id[1] = "wind" /\ c.id[2] = e /\ c.id[3] = a /\ c.id[4] = s
<1>1. \A e \in Events, a \in {"x", "y"}, s \in Signs :
          ActionCase(WindRole(e, a, s), WindRole(e, a, s), "none") \in WindCases
  BY DEF WindCases
<1>2. ASSUME NEW c \in WindCases
      PROVE  \E e \in Events, a \in {"x", "y"}, s \in Signs :
                c = [id |-> WindRole(e, a, s), role |-> WindRole(e, a, s), profile |-> "none"]
  BY DEF WindCases, ActionCase
<1>3. ASSUME NEW e, NEW a, NEW s, NEW c,
             c = [id |-> WindRole(e, a, s), role |-> WindRole(e, a, s), profile |-> "none"]
      PROVE  /\ c.id = WindRole(e, a, s) /\ c.role = c.id /\ c.profile = "none"
             /\ c.id[1] = "wind" /\ c.id[2] = e /\ c.id[3] = a /\ c.id[4] = s
  BY <1>3 DEF WindRole
<1> QED BY <1>1, <1>2, <1>3

\* A load is the imposed one of a rafter, or one of a wind on a column or a rafter.
OnMember(l, c, m) ==
    \E part, kind, external, inside, area, width, outward :
        l = FaceLoad(c, m, part, kind, external, inside, area, width, outward)

\* Every load is of one of the two kinds.
LEMMA LoadsAre ==
    ASSUME NEW b, NEW site, NEW s, NEW l \in AllLoads(b, site, s)
    PROVE  \/ \E m \in With(b, "rafter") : l = RoofLoad(b, m)
           \/ \E c \in WindCases, m \in Framing(b) : OnMember(l, c, m)
<1>1. CASE l \in {RoofLoad(b, m) : m \in With(b, "rafter")}
  BY <1>1
<1>2. ASSUME NEW c \in WindCases, l \in AcrossLoads(b, site, s, c, c.role[4])
      PROVE  \E m \in Framing(b) : OnMember(l, c, m)
 <2>1. CASE \E m \in With(b, "column") :
              l = WallAcross(b, s, c, c.role[4], InsideAcross(b, site, s, c.role[4]), m)
   BY <2>1, Zenon DEF WallAcross, OnMember, Framing
 <2>2. CASE \E m \in With(b, "rafter") :
              l = RoofAcross(b, s, c, c.role[4], InsideAcross(b, site, s, c.role[4]), m)
   BY <2>2, Zenon DEF RoofAcross, OnMember, Framing
 <2> QED BY <1>2, <2>1, <2>2, AcrossAre
<1>3. ASSUME NEW c \in WindCases, l \in AlongLoads(b, site, s, c, c.role[4])
      PROVE  \E m \in Framing(b) : OnMember(l, c, m)
 <2> DEFINE inside == InsideAlong(b, site, s, c.role[4])
 <2>1. CASE \E m \in {n \in With(b, "column") : n.y \in EndFrames(b)} :
              l = GableWall(b, s, c, c.role[4], inside, m)
   BY <2>1, Zenon DEF GableWall, Gable, OnMember, Framing
 <2>2. CASE \E m \in {n \in With(b, "rafter") : n.y \in EndFrames(b) /\ Rises(n)} :
              l = GableTop(b, s, c, c.role[4], inside, m)
   BY <2>2, Zenon DEF GableTop, Gable, OnMember, Framing
 <2>3. CASE \E m \in With(b, "rafter") : l = RoofAlong(b, s, c, c.role[4], inside, m)
   BY <2>3, Zenon DEF RoofAlong, OnMember, Framing
 <2> QED BY <1>3, <2>1, <2>2, <2>3, AlongAre
<1>4. \/ l \in {RoofLoad(b, m) : m \in With(b, "rafter")}
      \/ \E c \in WindCases : l \in AcrossLoads(b, site, s, c, c.role[4])
      \/ \E c \in WindCases : l \in AlongLoads(b, site, s, c, c.role[4])
 <2>1. CASE l \in LoadsAcross(b, site, s)
  <3> DEFINE A == UNION {AcrossLoads(b, site, s, c, c.role[4]) : c \in {d \in WindCases : d.role[3] = "x"}}
             B == {RoofLoad(b, m) : m \in With(b, "rafter")}
  <3>1. LoadsAcross(b, site, s) = A \cup B
    BY DEF LoadsAcross
  <3>2. \A x \in A : \E c \in WindCases : x \in AcrossLoads(b, site, s, c, c.role[4])
    BY Zenon
  <3> HIDE DEF A
  <3> QED BY <2>1, <3>1, <3>2
 <2>2. CASE l \in LoadsAlong(b, site, s)
   BY <2>2, Zenon DEF LoadsAlong
 <2> QED BY <2>1, <2>2, Zenon DEF AllLoads
<1> QED BY <1>1, <1>2, <1>3, <1>4

\* What the site adds to a load.
LEMMA OverlaidIs ==
    ASSUME NEW b, NEW site, NEW s, NEW l \in AllLoads(b, site, s)
    PROVE  LET o == Overlaid(l, site)
               of == EventBasis(site, l.case[2], FaceOfCase(l.case))
           IN  /\ o.id = l.id /\ o.kind = l.kind /\ o.case = l.case /\ o.member = l.member
               /\ o.net = l.net /\ o.area = l.area /\ o.width = l.width /\ o.toward = l.toward
               /\ l.kind = "wind" =>
                     o.basis = <<of.event, of.face>> /\ o.pressure = Magnitude(l.net) * of.q
<1> DEFINE o == Overlaid(l, site)
           of == EventBasis(site, l.case[2], FaceOfCase(l.case))
<1>1. CASE l.kind # "wind"
 <2>1. o = l
   BY <1>1, Zenon DEF Overlaid
 <2> HIDE DEF o, of
 <2> QED BY <1>1, <2>1 DEF o, of
<1>2. CASE l.kind = "wind"
 <2>1. PICK x : x = of /\ o = [l EXCEPT !.basis = <<x.event, x.face>>, !.pressure = @ * x.q]
   BY <1>2, Zenon DEF Overlaid
 <2>2. PICK c \in WindCases, m \in Framing(b) : OnMember(l, c, m)
   BY <1>2, LoadsAre, RoofLoadIs
 <2>3. PICK part, kind, external, inside, area, width, outward :
         l = FaceLoad(c, m, part, kind, external, inside, area, width, outward)
   BY <2>2 DEF OnMember
 <2>4. PICK net : /\ l = [id |-> <<c.id, m.id, part>>, kind |-> "wind", case |-> c.id, member |-> m.id,
                          net |-> net, area |-> area, width |-> width, toward |-> Against(outward, net),
                          basis |-> <<>>, pressure |-> Magnitude(net)]
  <3>1. PICK n : n = Worst(external, AreaFactor(area, kind), inside)
    OBVIOUS
  <3>2. l = [id |-> <<c.id, m.id, part>>, kind |-> "wind", case |-> c.id, member |-> m.id,
             net |-> n, area |-> area, width |-> width, toward |-> Against(outward, n),
             basis |-> <<>>, pressure |-> Magnitude(n)]
    BY <2>3, <3>1, FaceLoadIs
  <3> QED BY <3>2
 <2> HIDE DEF o, of
 <2>5. /\ o.id = l.id /\ o.kind = l.kind /\ o.case = l.case /\ o.member = l.member
       /\ o.net = l.net /\ o.area = l.area /\ o.width = l.width /\ o.toward = l.toward
       /\ o.basis = <<x.event, x.face>> /\ o.pressure = Magnitude(l.net) * x.q
   BY <2>1, <2>4
 <2> QED BY <2>1, <2>5 DEF o, of
<1> QED BY <1>1, <1>2

----
(* Combinations.                                                           *)

----
(* Combinations.                                                           *)

\* A case acts in an event: imposed actions in both, a wind in its own.
ActsIn(c, e) ==
    \/ c.profile \in {"distributed", "concentrated"}
    \/ \E a \in {"x", "y"}, s \in Signs : c.role = WindRole(e, a, s)

\* The combinations of the permanent action alone, with an imposed one, and with a wind.
Alone == {Factored("serviceability", "alone", 100, 0, {}),
          Factored("ultimate", "alone", 90, 0, {}), Factored("ultimate", "alone", 135, 0, {})}
PairOf(p, f, c) == {Factored("serviceability", p, 100, f, {c.id}), Factored("ultimate", p, 120, 150, {c.id})}
InService(c) == Factored("serviceability", "wind", 100, 100, {c.id})
AtLimit(g, c) == Factored("ultimate", "wind", g, 100, {c.id})

\* The combinations one by one.
LEMMA AvailableAre ==
    ASSUME NEW known, NEW d
    PROVE  d \in Available(known) <=>
              \/ d \in Alone
              \/ \E c \in OfProfile(known, "distributed") : d \in PairOf("distributed", 70, c)
              \/ \E c \in OfProfile(known, "concentrated") : d \in PairOf("concentrated", 100, c)
              \/ \E c \in OfWind(known, "serviceability") : d = InService(c)
              \/ \E g \in {90, 120}, c \in OfWind(known, "ultimate") : d = AtLimit(g, c)
<1> DEFINE B == UNION {PairOf("distributed", 70, c) : c \in OfProfile(known, "distributed")}
           C == UNION {PairOf("concentrated", 100, c) : c \in OfProfile(known, "concentrated")}
           D == {InService(c) : c \in OfWind(known, "serviceability")}
           E == {AtLimit(g, c) : g \in {90, 120}, c \in OfWind(known, "ultimate")}
<1>1. Available(known) = (((Alone \cup B) \cup C) \cup D) \cup E
  BY SMT DEF Available, Alone, PairOf, InService, AtLimit
<1>2. d \in B <=> \E c \in OfProfile(known, "distributed") : d \in PairOf("distributed", 70, c)
  BY Zenon
<1>3. d \in C <=> \E c \in OfProfile(known, "concentrated") : d \in PairOf("concentrated", 100, c)
  BY Zenon
<1>4. d \in D <=> \E c \in OfWind(known, "serviceability") : d = InService(c)
  BY Zenon
<1>5. d \in E <=> \E g \in {90, 120}, c \in OfWind(known, "ultimate") : d = AtLimit(g, c)
  BY SMT
<1> HIDE DEF B, C, D, E
<1> QED BY <1>1, <1>2, <1>3, <1>4, <1>5

\* The fields of a combination.
LEMMA FactoredIs ==
    ASSUME NEW state, NEW with, NEW g, NEW factor, NEW added
    PROVE  LET d == Factored(state, with, g, factor, added)
           IN  d.state = state /\ d.with = with /\ d.g = g /\ d.factor = factor /\ d.added = added
BY DEF Factored

\* The combinations with an action are those of the limit states the action acts in.
LEMMA AvailableHave ==
    ASSUME NEW known, NEW d \in Available(known), NEW id \in d.added
    PROVE  d.state \in Events /\ d.added = {id} /\ \E c \in known : c.id = id /\ ActsIn(c, d.state)
<1>1. d \notin Alone
  BY FactoredIs DEF Alone
<1>2. ASSUME NEW c \in OfProfile(known, "distributed"), d \in PairOf("distributed", 70, c)
      PROVE  d.added = {c.id} /\ d.state \in Events /\ c \in known /\ ActsIn(c, d.state)
  BY <1>2, FactoredIs DEF PairOf, Events, OfProfile, ActsIn
<1>3. ASSUME NEW c \in OfProfile(known, "concentrated"), d \in PairOf("concentrated", 100, c)
      PROVE  d.added = {c.id} /\ d.state \in Events /\ c \in known /\ ActsIn(c, d.state)
  BY <1>3, FactoredIs DEF PairOf, Events, OfProfile, ActsIn
<1>4. ASSUME NEW c \in OfWind(known, "serviceability"), d = InService(c)
      PROVE  d.added = {c.id} /\ d.state \in Events /\ c \in known /\ ActsIn(c, d.state)
  BY <1>4, FactoredIs DEF InService, Events, OfWind, ActsIn
<1>5. ASSUME NEW g, NEW c \in OfWind(known, "ultimate"), d = AtLimit(g, c)
      PROVE  d.added = {c.id} /\ d.state \in Events /\ c \in known /\ ActsIn(c, d.state)
  BY <1>5, FactoredIs DEF AtLimit, Events, OfWind, ActsIn
<1>6. PICK c \in known : d.added = {c.id} /\ d.state \in Events /\ ActsIn(c, d.state)
  BY <1>1, <1>2, <1>3, <1>4, <1>5, AvailableAre
<1> QED BY <1>6

\* An action is in a combination of every event it acts in.
LEMMA AvailableFor ==
    ASSUME NEW known, NEW c \in known, NEW e \in Events, ActsIn(c, e)
    PROVE  \E d \in Available(known) : d.state = e /\ c.id \in d.added
<1>1. ASSUME NEW p \in {"distributed", "concentrated"}, c.profile = p
      PROVE  \E d \in Available(known) : d.state = e /\ c.id \in d.added
 <2>1. c \in OfProfile(known, p)
   BY <1>1 DEF OfProfile
 <2>2. PICK f : \A d \in PairOf(p, f, c) : d \in Available(known)
   BY <1>1, <2>1, AvailableAre
 <2>3. \E d \in PairOf(p, f, c) : d.state = e /\ d.added = {c.id}
  <3>1. CASE e = "serviceability"
    BY <3>1, FactoredIs DEF PairOf
  <3>2. CASE e = "ultimate"
    BY <3>2, FactoredIs DEF PairOf
  <3> QED BY <3>1, <3>2 DEF Events
 <2> QED BY <2>2, <2>3
<1>2. CASE \E a \in {"x", "y"}, s \in Signs : c.role = WindRole(e, a, s)
 <2>1. c \in OfWind(known, e)
   BY <1>2 DEF OfWind
 <2>2. CASE e = "serviceability"
  <3>1. InService(c) \in Available(known)
    BY <2>1, <2>2, AvailableAre
  <3>2. InService(c).state = e /\ InService(c).added = {c.id}
    BY <2>2, FactoredIs DEF InService
  <3> QED BY <3>1, <3>2
 <2>3. CASE e = "ultimate"
  <3>1. AtLimit(120, c) \in Available(known)
    BY <2>1, <2>3, AvailableAre
  <3>2. AtLimit(120, c).state = e /\ AtLimit(120, c).added = {c.id}
    BY <2>3, FactoredIs DEF AtLimit
  <3> QED BY <3>1, <3>2
 <2> QED BY <2>2, <2>3 DEF Events
<1> QED BY <1>1, <1>2 DEF ActsIn

\* The limit states an action is combined in.
StatesOf(all, id) == {c.state : c \in {d \in all : id \in d.added}}

\* An action case is combined in the events it acts in.
LEMMA ActsInStates ==
    ASSUME CasesStand, NEW c \in cases
    PROVE  StatesOf(Available(cases), c.id) = {e \in Events : ActsIn(c, e)}
<1>1. ASSUME NEW e \in StatesOf(Available(cases), c.id) PROVE e \in Events /\ ActsIn(c, e)
 <2>1. PICK d \in Available(cases) : c.id \in d.added /\ d.state = e
   BY <1>1 DEF StatesOf
 <2>2. d.state \in Events /\ \E k \in cases : k.id = c.id /\ ActsIn(k, d.state)
   BY <2>1, AvailableHave
 <2> QED BY <2>1, <2>2 DEF CasesStand
<1>2. ASSUME NEW e \in Events, ActsIn(c, e) PROVE e \in StatesOf(Available(cases), c.id)
  BY <1>2, AvailableFor DEF StatesOf
<1> QED BY <1>1, <1>2

\* A wind acts in one event.
LEMMA WindActsIn ==
    ASSUME NEW c, NEW e, NEW a, NEW s, NEW f, c.role = WindRole(e, a, s),
           c.profile \notin {"distributed", "concentrated"}, ActsIn(c, f)
    PROVE  f = e
BY DEF ActsIn, WindRole

\* The sway check of a direction is on the combination with its wind.
LEMMA SwayCarries ==
    ASSUME NEW known, NEW axis \in {"x", "y"}, NEW sign \in Signs, NEW k \in known,
           k.role = WindRole("ultimate", axis, sign)
    PROVE  \E j \in known : /\ j.role = WindRole("ultimate", axis, sign)
                            /\ SwayRestsOn(Available(known), known, axis, sign).added = {j.id}
<1> DEFINE wind == {c \in Available(known) : c.g = 120 /\ c.with = "wind" /\ \E j \in known :
                       j.role = WindRole("ultimate", axis, sign) /\ c.added = {j.id}}
           d == AtLimit(120, k)
<1>1. k \in OfWind(known, "ultimate")
  BY DEF OfWind
<1>2. d \in Available(known)
  BY <1>1, AvailableAre
<1>3. d.g = 120 /\ d.with = "wind" /\ d.added = {k.id}
  BY FactoredIs DEF AtLimit
<1> HIDE DEF d
<1>4. d \in wind
  BY <1>2, <1>3
<1>5. SwayRestsOn(Available(known), known, axis, sign) = IF wind # {} THEN CHOOSE c \in wind : TRUE
                                                         ELSE Vertical(Available(known))
  BY Zenon DEF SwayRestsOn
<1>6. SwayRestsOn(Available(known), known, axis, sign) \in wind
 <2> HIDE DEF wind
 <2>1. (CHOOSE c \in wind : TRUE) \in wind
   BY <1>4, Zenon
 <2> QED BY <1>4, <1>5, <2>1, Zenon
<1> QED BY <1>6

\* The direction of a sway check rests on what was chosen for it.
LEMMA SwayIs ==
    ASSUME NEW b, NEW combinations, NEW known, SwayCheck(b, combinations, known) # <<>>,
           NEW axis \in {"x", "y"}, NEW sign \in Signs
    PROVE  SwayCheck(b, combinations, known)[1].direction[<<axis, sign>>]
             = SwayRestsOn(combinations, known, axis, sign)
<1> DEFINE f == [d \in {"x", "y"} \X Signs |-> SwayRestsOn(combinations, known, d[1], d[2])]
<1>1. SwayCheck(b, combinations, known) =
        <<[base |-> BaseModel(b), direction |-> f, rests |-> Vertical(combinations)]>>
  BY Zenon DEF SwayCheck
<1>2. f[<<axis, sign>>] = SwayRestsOn(combinations, known, axis, sign)
  BY Signs = {1, -1} DEF Signs
<1> HIDE DEF f
<1>3. SwayCheck(b, combinations, known)[1].direction = f
  BY <1>1
<1> QED BY <1>2, <1>3

\* Derived loads and winds are combined as their cases say.
LEMMA ShowsCombined == ASSUME WindInv PROVE LoadsAreCombined
<1> SUFFICES ASSUME phase = "combined" PROVE LoadsAreCombined
  BY DEF LoadsAreCombined
<1>0. CasesStand /\ PointsStand /\ (surface = {} \/ Carried)
  BY DEF WindInv, SurfaceStands
<1> DEFINE all == combined.combinations
           In(id) == {c.state : c \in {d \in all : id \in d.added}}
<1>1. /\ all = Available(cases) /\ combined.unavailable = Unavailable(cases)
      /\ combined.sway = SwayCheck(shed, Available(cases), cases)
  BY DEF WindInv
<1>2. ASSUME NEW c \in cases PROVE In(c.id) = {e \in Events : ActsIn(c, e)}
 <2>1. In(c.id) = StatesOf(Available(cases), c.id)
   BY <1>1, Zenon DEF StatesOf
 <2> QED BY <1>0, <2>1, ActsInStates
<1> HIDE DEF all, In
<1>3. ASSUME NEW l \in surface PROVE In(l.case) = IF l.kind = "wind" THEN {l.case[2]} ELSE Events
 <2>0. Carried
   BY <1>0, <1>3
 <2>1. PICK r \in AllLoads(shed, where[1], shape) : l = Overlaid(r, where[1])
   BY <2>0 DEF Carried
 <2>2. l.kind = r.kind /\ l.case = r.case
   BY <2>1, OverlaidIs
 <2>3. CASE \E m \in With(shed, "rafter") : r = RoofLoad(shed, m)
  <3>1. l.kind # "wind" /\ l.case = RoofCase.id
    BY <2>2, <2>3, RoofLoadIs
  <3>2. RoofCase \in cases /\ RoofCase.profile = "distributed"
    BY <2>0 DEF Carried, Derived, RoofCase, ActionCase
  <3>3. In(RoofCase.id) = Events
    BY <1>2, <3>2 DEF ActsIn
  <3> QED BY <3>1, <3>3
 <2>4. ASSUME NEW c \in WindCases, NEW m, OnMember(r, c, m)
       PROVE  In(l.case) = IF l.kind = "wind" THEN {l.case[2]} ELSE Events
  <3>1. l.kind = "wind" /\ l.case = c.id
    BY <2>2, <2>4, FaceLoadIs DEF OnMember
  <3>2. c \in cases
    BY <2>0 DEF Carried, Derived
  <3>3. PICK e \in Events, a \in {"x", "y"}, s \in Signs :
          c.role = WindRole(e, a, s) /\ c.profile = "none" /\ c.id[2] = e
    BY WindCasesAre
  <3>4. ActsIn(c, e)
    BY <3>3 DEF ActsIn
  <3>5. \A f : ActsIn(c, f) => f = e
    BY <3>3, WindActsIn
  <3>6. {f \in Events : ActsIn(c, f)} = {e}
    BY <3>4, <3>5
  <3> QED BY <1>2, <3>1, <3>2, <3>3, <3>6
 <2> QED BY <2>3, <2>4, LoadsAre
<1>4. ASSUME NEW p \in points \ given.points PROVE In(p) = Events
 <2>1. PICK c \in cases : c.id = p /\ c.profile = "concentrated"
   BY <1>0 DEF PointsStand
 <2> QED BY <1>2, <2>1 DEF ActsIn
<1>5. ASSUME NEW c \in WindCases, NEW k \in cases, k.role = c.role
      PROVE  In(k.id) # {}
 <2>1. PICK e \in Events, a \in {"x", "y"}, s \in Signs : c.role = WindRole(e, a, s)
   BY WindCasesAre
 <2>2. ActsIn(k, e)
   BY <1>5, <2>1 DEF ActsIn
 <2> QED BY <1>2, <2>2
<1>6. ASSUME NEW c \in WindCases
      PROVE  c.role \in combined.unavailable <=> ~\E k \in cases : k.role = c.role
 <2>1. \A p : c.role # <<p>>
  <3>1. Len(c.role) = 4
    BY WindCasesAre DEF WindRole
  <3> QED BY <3>1
 <2>2. Unavailable(cases) =
         {<<p>> : p \in {q \in {"distributed", "concentrated"} : OfProfile(cases, q) = {}}}
         \cup ({d.role : d \in WindCases} \ {d.role : d \in cases})
   BY DEF Unavailable
 <2> QED BY <1>1, <2>1, <2>2
<1>7. ASSUME NEW c \in WindCases
      PROVE  (c.role \in combined.unavailable) # (\E k \in cases : k.role = c.role /\ In(k.id) # {})
  BY <1>5, <1>6, <1>7
<1>8. ASSUME combined.sway # <<>>, NEW c \in WindCases, c.role[2] = "ultimate"
      PROVE  c.role \in combined.unavailable
                 \/ \E k \in cases :
                       /\ k.role = c.role
                       /\ combined.sway[1].direction[<<c.role[3], c.role[4]>>].added = {k.id}
 <2>1. PICK a \in {"x", "y"}, s \in Signs :
         c.role = WindRole("ultimate", a, s) /\ c.role[3] = a /\ c.role[4] = s
   BY <1>8, WindCasesAre
 <2>2. combined.sway[1].direction[<<a, s>>] = SwayRestsOn(Available(cases), cases, a, s)
   BY <1>1, <1>8, SwayIs
 <2>3. (\E k \in cases : k.role = c.role) =>
         \E k \in cases : k.role = c.role /\ SwayRestsOn(Available(cases), cases, a, s).added = {k.id}
   BY <2>1, SwayCarries
 <2> QED BY <1>6, <2>1, <2>2, <2>3
<1> QED BY <1>3, <1>4, <1>7, <1>8, Zenon DEF LoadsAreCombined, all, In

----
(* Tables and pressures.                                                   *)

----
(* Values of tables.                                                       *)

\* A quotient of a product lies between nothing and the factor whose share it takes.
LEMMA ShareOf ==
    ASSUME NEW x \in Int, NEW q \in Int, NEW h \in Int, 0 < q, 0 <= x, x <= q
    PROVE  /\ h >= 0 => (x * h) \div q \in 0..h
           /\ h <= 0 => (x * h) \div q \in h..0
<1> DEFINE r == (x * h) \div q
           p == x * h
<1>1. p \in Int /\ r \in Int /\ q * r <= p /\ p < q * r + q
  OBVIOUS
<1>2. CASE h >= 0
 <2>1. 0 <= p /\ p <= q * h
  <3>1. x * h <= q * h
    BY <1>2
  <3>2. 0 <= x * h
    BY <1>2
  <3> QED BY <3>1, <3>2
 <2> HIDE DEF r, p
 <2>2. q * (r + 1) > 0 /\ q * r <= q * h
   BY <1>1, <2>1
 <2>3. r >= 0
   BY <1>1, <2>2
 <2>4. r <= h
   BY <1>1, <2>2
 <2> QED BY <1>1, <1>2, <2>3, <2>4 DEF r, p
<1>3. CASE h <= 0
 <2>1. p <= 0 /\ q * h <= p
  <3>1. q * h <= x * h
    BY <1>3
  <3>2. x * h <= 0
    BY <1>3
  <3> QED BY <3>1, <3>2
 <2> HIDE DEF r, p
 <2>2. q * r <= 0 /\ q * h < q * (r + 1)
   BY <1>1, <2>1
 <2>3. r <= 0
   BY <1>1, <2>2
 <2>4. r >= h
   BY <1>1, <2>2
 <2> QED BY <1>1, <1>3, <2>3, <2>4 DEF r, p
<1> QED BY <1>2, <1>3

\* An interpolated value is between those it is interpolated from.
LEMMA BetweenWithin ==
    ASSUME NEW lo \in Int, NEW hi \in Int, NEW v \in Int, NEW a \in Int, NEW b \in Int,
           NEW c \in lo..hi, NEW d \in lo..hi, a <= v, v <= b, a < b
    PROVE  Between(v, <<a, c>>, <<b, d>>) \in lo..hi
<1>1. PICK x \in Int, q \in Int, h \in Int : x = v - a /\ q = b - a /\ h = d - c
  OBVIOUS
<1>2. Between(v, <<a, c>>, <<b, d>>) = c + (x * h) \div q
  BY <1>1 DEF Between
<1>3. PICK r \in Int : r = (x * h) \div q
  BY <1>1
<1>4. (h >= 0 => r \in 0..h) /\ (h <= 0 => r \in h..0)
  BY <1>1, <1>3, ShareOf
<1> QED BY <1>1, <1>2, <1>3, <1>4

\* Rows of a table, by rising places, whose values are within bounds.
IsTable(table, n, lo, hi) ==
    /\ n \in Nat \ {0} /\ Len(table) = n /\ DOMAIN table = 1..n
    /\ \A i \in 1..n : table[i] = <<table[i][1], table[i][2]>> /\ table[i][1] \in Int /\ table[i][2] \in lo..hi
    /\ \A i, j \in 1..n : i < j => table[i][1] < table[j][1]

\* A value of a table is between the least and the greatest that it holds.
LEMMA TabulatedWithin ==
    ASSUME NEW lo \in Int, NEW hi \in Int, NEW n, NEW table, IsTable(table, n, lo, hi), NEW v \in Int
    PROVE  Tabulated(v, table) \in lo..hi
<1> DEFINE above == {i \in DOMAIN table : v <= table[i][1]}
           m == Min(above)
<1>1. Tabulated(v, table) = IF above = {} THEN table[Len(table)][2]
                            ELSE IF m = 1 THEN table[1][2]
                            ELSE Between(v, table[m - 1], table[m])
  BY Zenon DEF Tabulated
<1>2. CASE above = {}
  BY <1>1, <1>2 DEF IsTable
<1>3. CASE above # {}
 <2>1. above \in SUBSET Int /\ above \subseteq 1..n /\ IsFiniteSet(above)
  <3>1. above \subseteq 1..n /\ n \in Int
    BY DEF IsTable
  <3>2. IsFiniteSet(1..n)
    BY <3>1, FS_Interval
  <3> HIDE DEF above
  <3>3. IsFiniteSet(above)
    BY <3>1, <3>2, FS_Subset
  <3> QED BY <3>1, <3>3
 <2>2. m \in above /\ \A y \in above : m <= y
   BY <1>3, <2>1, Extremes
 <2>3. CASE m = 1
   BY <1>1, <1>3, <2>3 DEF IsTable
 <2>4. CASE m # 1
  <3>1. m \in 2..n /\ m - 1 \in 1..n /\ v <= table[m][1]
    BY <2>1, <2>2, <2>4 DEF IsTable
  <3>2. table[m - 1][1] < v
   <4>1. m - 1 \notin above
    <5> HIDE DEF above, m
    <5>1. m \in Int /\ m - 1 \in Int /\ ~(m <= m - 1)
      BY <3>1
    <5> QED BY <2>2, <5>1
   <4> QED BY <3>1, <4>1 DEF IsTable
  <3> HIDE DEF above, m
  <3>3. PICK a \in Int, b \in Int, c \in lo..hi, d \in lo..hi :
          table[m - 1] = <<a, c>> /\ table[m] = <<b, d>> /\ a < v /\ v <= b
   <4>1. PICK k : k = m - 1 /\ k \in 1..n
     BY <3>1
   <4>2. m \in 1..n
     BY <3>1 DEF IsTable
   <4>3. /\ table[k] = <<table[k][1], table[k][2]>> /\ table[k][1] \in Int /\ table[k][2] \in lo..hi
         /\ table[m] = <<table[m][1], table[m][2]>> /\ table[m][1] \in Int /\ table[m][2] \in lo..hi
     BY <4>1, <4>2, Zenon DEF IsTable
   <4>4. table[k][1] < v /\ v <= table[m][1]
     BY <3>1, <3>2, <4>1
   <4> QED BY <4>1, <4>3, <4>4
  <3>4. Between(v, <<a, c>>, <<b, d>>) \in lo..hi
   <4>1. a <= v /\ a < b
     BY <3>3
   <4> QED BY <3>3, <4>1, BetweenWithin, Zenon
  <3> QED BY <1>1, <1>3, <2>4, <3>3, <3>4
 <2> QED BY <2>3, <2>4
<1> QED BY <1>2, <1>3

\* Three rows are a table.
LEMMA TableOfThree ==
    ASSUME NEW lo \in Int, NEW hi \in Int, NEW a \in Int, NEW b \in Int, NEW c \in Int,
           NEW d \in lo..hi, NEW e \in lo..hi, NEW f \in lo..hi, a < b, b < c
    PROVE  IsTable(<<<<a, d>>, <<b, e>>, <<c, f>>>>, 3, lo, hi)
<1> DEFINE t == <<<<a, d>>, <<b, e>>, <<c, f>>>>
<1>1. Len(t) = 3 /\ DOMAIN t = 1..3 /\ t[1] = <<a, d>> /\ t[2] = <<b, e>> /\ t[3] = <<c, f>>
  OBVIOUS
<1> HIDE DEF t
<1>2. \A i \in 1..3 : i = 1 \/ i = 2 \/ i = 3
  OBVIOUS
<1>3. /\ t[1][1] = a /\ t[1][2] = d /\ t[2][1] = b /\ t[2][2] = e /\ t[3][1] = c /\ t[3][2] = f
  BY <1>1
<1> QED BY <1>1, <1>2, <1>3 DEF IsTable, t

\* A row for each of the four pitches is a table.
LEMMA TableOfFour ==
    ASSUME NEW lo \in Int, NEW hi \in Int, NEW t, Len(t) = 4, DOMAIN t = 1..4,
           \A i \in 1..4 : t[i] = <<t[i][1], t[i][2]>> /\ t[i][1] = 5 + 5 * i /\ t[i][2] \in lo..hi
    PROVE  IsTable(t, 4, lo, hi)
BY DEF IsTable

\* A clamped value is within its bounds.
LEMMA ClampWithin ==
    ASSUME NEW low \in Int, NEW high \in Int, NEW v \in Int, low <= high
    PROVE  Clamp(low, v, high) \in low..high
BY DEF Clamp

\* The area takes at most a tenth off a windward wall.
LEMMA WindwardFactor == ASSUME NEW area \in Int PROVE AreaFactor(area, "windward") \in 90..100
<1>1. AreaFactor(area, "windward") = Tabulated(area, <<<<160, 100>>, <<400, 95>>, <<1600, 90>>>>)
  BY DEF AreaFactor
<1>2. IsTable(<<<<160, 100>>, <<400, 95>>, <<1600, 90>>>>, 3, 90, 100)
 <2>1. PICK lo \in Int, hi \in Int, a \in Int, b \in Int, c \in Int :
         lo = 90 /\ hi = 100 /\ a = 160 /\ b = 400 /\ c = 1600
   OBVIOUS
 <2>2. PICK d \in lo..hi, e \in lo..hi, f \in lo..hi : d = 100 /\ e = 95 /\ f = 90
   BY <2>1
 <2>3. a < b /\ b < c
   BY <2>1
 <2>4. IsTable(<<<<a, d>>, <<b, e>>, <<c, f>>>>, 3, lo, hi)
   BY <2>3, TableOfThree, Zenon
 <2> QED BY <2>1, <2>2, <2>4
<1> QED BY <1>1, <1>2, TabulatedWithin

\* A leeward wall is drawn outwards, by at most a half.
LEMMA LeewardWithin == ASSUME NEW pitch \in Int PROVE LeewardAcross(pitch) \in -50..0
<1> DEFINE t == <<<<10, -30>>, <<15, -30>>, <<20, -40>>, <<25, -50>>>>
<1>1. LeewardAcross(pitch) = Tabulated(pitch, t)
  BY DEF LeewardAcross
<1>2. /\ Len(t) = 4 /\ DOMAIN t = 1..4
      /\ t[1] = <<10, -30>> /\ t[2] = <<15, -30>> /\ t[3] = <<20, -40>> /\ t[4] = <<25, -50>>
  OBVIOUS
<1> HIDE DEF t
<1>3. \A i \in 1..4 : i = 1 \/ i = 2 \/ i = 3 \/ i = 4
  OBVIOUS
<1>4. IsTable(t, 4, -50, 0)
  BY <1>2, <1>3, TableOfFour
<1> QED BY <1>1, <1>4, TabulatedWithin

\* A finite set of things has finitely many images, and a few things are finitely many.
LEMMA ImageIsFinite ==
    ASSUME NEW S, IsFiniteSet(S), NEW f, NEW T, T \subseteq {f[x] : x \in S}
    PROVE  IsFiniteSet(T)
<1> DEFINE U == {f[x] : x \in S}
           g == [x \in S |-> f[x]]
<1>1. g \in Surjection(S, U)
  BY DEF Surjection
<1>2. IsFiniteSet(U)
  BY <1>1, FS_Surjection
<1> QED BY <1>2, FS_Subset

\* Some sets that are listed.
LEMMA FewAreFinite == \A a, b, c, d, e, f : IsFiniteSet({a, b, c, d, e, f}) /\ IsFiniteSet({a, b})
<1> SUFFICES ASSUME NEW a, NEW b, NEW c, NEW d, NEW e, NEW f
             PROVE  IsFiniteSet({a, b, c, d, e, f}) /\ IsFiniteSet({a, b})
  OBVIOUS
<1> DEFINE T == (((({a} \cup {b}) \cup {c}) \cup {d}) \cup {e}) \cup {f}
<1>1. IsFiniteSet({a} \cup {b})
  BY FS_Singleton, FS_AddElement
<1>2. IsFiniteSet(({a} \cup {b}) \cup {c})
  BY <1>1, FS_AddElement
<1>3. IsFiniteSet((({a} \cup {b}) \cup {c}) \cup {d})
  BY <1>2, FS_AddElement
<1>4. IsFiniteSet(((({a} \cup {b}) \cup {c}) \cup {d}) \cup {e})
  BY <1>3, FS_AddElement
<1>5. IsFiniteSet(T)
  BY <1>4, FS_AddElement
<1>6. T = {a, b, c, d, e, f} /\ {a, b} = {a} \cup {b}
  OBVIOUS
<1> QED BY <1>1, <1>5, <1>6

\* A row of a table of roofs, by the pitch.
RowOf(row, s) == Tabulated(s.pitch, [i \in 1..4 |-> <<5 + 5 * i, row[i]>>])
IsRow(row) == row[1] \in -130..0 /\ row[2] \in -130..0 /\ row[3] \in -130..0 /\ row[4] \in -130..0

\* What the loads need of the measures.
Sized(s) == s.width \in Int /\ s.width > 0 /\ s.twiceHeight \in Int /\ s.pitch \in Int

\* A roof is never pressed at any pitch,
LEMMA RowWithin ==
    ASSUME NEW row, IsRow(row), NEW s, s.pitch \in Int
    PROVE  RowOf(row, s) \in -130..0
<1> DEFINE t == [i \in 1..4 |-> <<5 + 5 * i, row[i]>>]
<1>1. \A i \in 1..4 : t[i] = <<5 + 5 * i, row[i]>> /\ row[i] \in -130..0
  BY DEF IsRow
<1>2. t \in Seq(Int \X (-130..0)) /\ DOMAIN t = 1..4
  BY <1>1
<1>3. Len(t) = 4
 <2> HIDE DEF t
 <2> QED BY <1>2
<1>4. \A i \in 1..4 : t[i] = <<t[i][1], t[i][2]>> /\ t[i][1] = 5 + 5 * i /\ t[i][2] \in -130..0
  BY <1>1
<1> HIDE DEF t
<1>5. IsTable(t, 4, -130, 0)
 <2>1. PICK lo \in Int, hi \in Int : lo = -130 /\ hi = 0
   OBVIOUS
 <2> QED BY <1>2, <1>3, <1>4, <2>1, TableOfFour
<1>6. RowOf(row, s) = Tabulated(s.pitch, t)
  BY DEF RowOf, t
<1>7. PICK lo \in Int, hi \in Int : lo = -130 /\ hi = 0
  OBVIOUS
<1>8. Tabulated(s.pitch, t) \in lo..hi
  BY <1>5, <1>7, TabulatedWithin
<1> QED BY <1>6, <1>7, <1>8

\* nor at any slenderness,
LEMMA GridWithin ==
    ASSUME NEW rows, IsRow(rows[1]), IsRow(rows[2]), IsRow(rows[3]), NEW s, Sized(s)
    PROVE  Grid(rows, s) \in -130..0
<1>1. PICK v : /\ v = Clamp(25, (50 * s.twiceHeight) \div s.width, 100)
               /\ Grid(rows, s) = Tabulated(v, <<<<25, RowOf(rows[1], s)>>, <<50, RowOf(rows[2], s)>>,
                                                 <<100, RowOf(rows[3], s)>>>>)
  BY DEF Grid, RowOf
<1>2. v \in Int
 <2>1. PICK u \in Int : u = (50 * s.twiceHeight) \div s.width
   BY DEF Sized
 <2> QED BY <1>1, <2>1, ClampWithin
<1>3. PICK d, e, f : d = RowOf(rows[1], s) /\ e = RowOf(rows[2], s) /\ f = RowOf(rows[3], s)
  OBVIOUS
<1>4. PICK lo \in Int, hi \in Int, a \in Int, b \in Int, c \in Int :
         lo = -130 /\ hi = 0 /\ a = 25 /\ b = 50 /\ c = 100
  OBVIOUS
<1>5. d \in lo..hi /\ e \in lo..hi /\ f \in lo..hi /\ a < b /\ b < c
  BY <1>3, <1>4, RowWithin DEF Sized
<1>6. IsTable(<<<<a, d>>, <<b, e>>, <<c, f>>>>, 3, lo, hi)
  BY <1>5, TableOfThree, Zenon
<1>7. Tabulated(v, <<<<a, d>>, <<b, e>>, <<c, f>>>>) \in lo..hi
  BY <1>2, <1>6, TabulatedWithin
<1> QED BY <1>1, <1>3, <1>4, <1>7

\* nor on either side of the ridge.
LEMMA RoofsWithin ==
    ASSUME NEW s, Sized(s)
    PROVE  UpwindRoof(s) \in -130..0 /\ DownwindRoof(s) \in -130..0
<1> DEFINE u == <<<<-70, -50, -30, -20>>, <<-90, -70, -40, -30>>, <<-130, -100, -70, -50>>>>
           d == <<<<-30, -50, -60, -60>>, <<-50, -50, -60, -60>>, <<-70, -60, -60, -60>>>>
<1>1. IsRow(u[1]) /\ IsRow(u[2]) /\ IsRow(u[3])
  BY DEF IsRow
<1>2. IsRow(d[1]) /\ IsRow(d[2]) /\ IsRow(d[3])
  BY DEF IsRow
<1>3. UpwindRoof(s) = Grid(u, s) /\ DownwindRoof(s) = Grid(d, s)
  BY DEF UpwindRoof, DownwindRoof
<1> HIDE DEF u, d
<1> QED BY <1>1, <1>2, <1>3, GridWithin

----
(* The net pressure on a wall that meets the wind pushes it in.            *)

\* The net pressure on a windward wall is inwards.
LEMMA WorstPushes ==
    ASSUME NEW f \in 90..100, NEW inside \in SUBSET Int, IsFiniteSet(inside), -30 \in inside,
           \A i \in inside : i <= 70
    PROVE  Worst(70, f, inside) \in Int /\ Worst(70, f, inside) > 0
<1> DEFINE Net(i) == 70 * f - 100 * i
           worst == {i \in inside : \A j \in inside : Magnitude(Net(j)) <= Magnitude(Net(i))}
           M == {Magnitude(Net(j)) : j \in inside}
<1>1. Worst(70, f, inside) = Net(Min(worst))
  BY DEF Worst
<1>2. \A i \in inside : Net(i) \in Int /\ Magnitude(Net(i)) \in Int
  BY DEF Magnitude
<1>3. M \in SUBSET Int /\ IsFiniteSet(M) /\ M # {}
 <2>1. IsFiniteSet(M)
  <3>1. M \subseteq {[j \in inside |-> Magnitude(Net(j))][x] : x \in inside}
    OBVIOUS
  <3> HIDE DEF M
  <3> QED BY <3>1, ImageIsFinite
 <2> QED BY <1>2, <2>1
<1>4. Max(M) \in M /\ \A y \in M : y <= Max(M)
  BY <1>3, Extremes
<1>5. worst # {}
  BY <1>4
<1>6. worst \in SUBSET Int /\ IsFiniteSet(worst)
  BY FS_Subset
<1>7. Min(worst) \in worst
  BY <1>5, <1>6, Extremes
<1>8. PICK k \in inside : k = Min(worst) /\ \A j \in inside : Magnitude(Net(j)) <= Magnitude(Net(k))
  BY <1>7
<1>9. Magnitude(Net(-30)) <= Magnitude(Net(k)) /\ k <= 70
  BY <1>8
<1> QED BY <1>1, <1>8, <1>9 DEF Magnitude

\* The pressures inside include that of a sealed building and are at most those

\* of an opening to windward.
LEMMA InsideAcrossIs ==
    ASSUME NEW b, NEW site, NEW s, Sized(s), NEW sign
    PROVE  LET inside == InsideAcross(b, site, s, sign)
           IN  /\ inside \in SUBSET Int /\ IsFiniteSet(inside) /\ -30 \in inside
               /\ \A i \in inside : i <= 70
<1>1. PICK leeward \in -50..0 : leeward = LeewardAcross(s.pitch)
  BY LeewardWithin DEF Sized
<1>2. PICK r \in -130..0 : r = Min({UpwindRoof(s), DownwindRoof(s)})
 <2>1. PICK u \in -130..0, d \in -130..0 : u = UpwindRoof(s) /\ d = DownwindRoof(s)
   BY RoofsWithin
 <2>2. IsFiniteSet({u, d})
   BY FewAreFinite, Zenon
 <2>3. Min({u, d}) \in {u, d}
   BY <2>2, Extremes
 <2> QED BY <2>1, <2>3
<1>3. PICK o : InsideAcross(b, site, s, sign) = InternalPressures(o, leeward, r)
  BY <1>1, <1>2 DEF InsideAcross
<1>4. InternalPressures(o, leeward, r) \subseteq {-30, 0, 70, leeward, -65, r}
  BY DEF InternalPressures
<1>5. IsFiniteSet({-30, 0, 70, leeward, -65, r})
  BY FewAreFinite, Zenon
<1>6. IsFiniteSet(InternalPressures(o, leeward, r))
  BY <1>4, <1>5, FS_Subset
<1>7. -30 \in InternalPressures(o, leeward, r)
  BY DEF InternalPressures
<1> QED BY <1>3, <1>4, <1>6, <1>7

----
(* Members and measures.                                                   *)

----
(* The measures of a building.                                             *)

\* The members of a building, their coordinates and their names.
LEMMA MembersAre ==
    ASSUME NEW b \in Sheds
    PROVE  /\ IsFiniteSet(b.members)
           /\ \A role : With(b, role) \subseteq b.members /\ IsFiniteSet(With(b, role))
           /\ Framing(b) \subseteq b.members /\ IsFiniteSet(Framing(b))
           /\ \A m \in b.members : /\ m.x1 \in Int /\ m.z1 \in Int /\ m.x2 \in Int /\ m.z2 \in Int
                                   /\ m.y \in Int /\ m.length \in Int
           /\ \A m, n \in b.members : m.id = n.id => m = n
<1>1. IsFiniteSet(b.members) /\ \A m, n \in b.members : m.id = n.id => m = n
  BY WindAssumption
<1>2. \A role : With(b, role) \subseteq b.members
  BY DEF With
<1>3. Framing(b) \subseteq b.members
  BY <1>2 DEF Framing
<1>4. \A m \in b.members : /\ m.x1 \in Int /\ m.z1 \in Int /\ m.x2 \in Int /\ m.z2 \in Int
                           /\ m.y \in Int /\ m.length \in Int
  BY WindAssumption
<1>5. \A S \in SUBSET b.members : IsFiniteSet(S)
  BY <1>1, FS_Subset
<1> QED BY <1>1, <1>2, <1>3, <1>4, <1>5

\* The places of the frames are finitely many whole numbers.
LEMMA FramesAre ==
    ASSUME NEW b \in Sheds
    PROVE  /\ FramesAt(b) \in SUBSET Int /\ IsFiniteSet(FramesAt(b))
           /\ \A m \in Framing(b) : m.y \in FramesAt(b)
<1>1. FramesAt(b) \subseteq {[m \in Framing(b) |-> m.y][x] : x \in Framing(b)}
  BY DEF FramesAt
<1>2. IsFiniteSet(FramesAt(b))
 <2>1. PICK f : f = [m \in Framing(b) |-> m.y]
   OBVIOUS
 <2>2. FramesAt(b) \subseteq {f[x] : x \in Framing(b)}
   BY <1>1, <2>1
 <2> QED BY <2>2, MembersAre, ImageIsFinite
<1> QED BY <1>2, MembersAre DEF FramesAt

\* The strip of a frame is a whole number.
LEMMA StripIs ==
    ASSUME NEW b \in Sheds, NEW y \in Int
    PROVE  TwiceStrip(b, y) \in Int
<1> DEFINE before == {f \in FramesAt(b) : f < y}
           after == {f \in FramesAt(b) : f > y}
<1>1. TwiceStrip(b, y) = (IF before = {} THEN 0 ELSE y - Max(before))
                         + (IF after = {} THEN 0 ELSE Min(after) - y)
  BY DEF TwiceStrip
<1>2. /\ before \in SUBSET Int /\ IsFiniteSet(before)
      /\ after \in SUBSET Int /\ IsFiniteSet(after)
  BY FramesAre, FS_Subset
<1>3. (before # {} => Max(before) \in Int) /\ (after # {} => Min(after) \in Int)
  BY <1>2, Extremes
<1> HIDE DEF before, after
<1> QED BY <1>1, <1>3

\* A sum of whole numbers is one.
LEMMA SumIsInt ==
    ASSUME NEW S, IsFiniteSet(S), NEW f, \A x \in S : f[x] \in Int
    PROVE  SumFunctionOnSet(f, S) \in Int
<1>1. PICK ch, it : Chooses(ch, S) /\ Runs(it, SUBSET S, ch, f) /\ SumFunctionOnSet(f, S) = it[S]
  BY SumOnSetRuns, Zenon
<1>2. it[S] \in Int
  BY <1>1, SumCounts, Zenon
<1> QED BY <1>1, <1>2

\* The measures of a building are whole numbers.
LEMMA MeasuresAre ==
    ASSUME NEW b \in Sheds, NEW s, Fits(b, s)
    PROVE  /\ Sized(s)
           /\ s.length \in Int /\ s.length = LastFrame(b) - FirstFrame(b)
<1> DEFINE tops == [m \in Framing(b) |-> Max({m.z1, m.z2})]
           columns == With(b, "column")
           rafters == With(b, "rafter")
           twiceAt == {m.x1 + m.x2 : m \in columns}
           heights == {tops[m] : m \in rafters}
           width == (Max(twiceAt) - Min(twiceAt)) \div 2
           eave == SumFunctionOnSet(tops, columns) \div Cardinality(columns)
           ridge == Max(heights)
<1>1. /\ s.width = width /\ s.twiceHeight = eave + ridge
      /\ s.length = LastFrame(b) - FirstFrame(b)
 <2> DEFINE w == width
            h == eave + ridge
            l == Max(FramesAt(b)) - Min(FramesAt(b))
            r == ridge - eave
            p == Pitch(ridge - eave, width \div 2)
 <2>1. s = [width |-> w, length |-> l, rise |-> r, twiceHeight |-> h, pitch |-> p]
   BY Zenon DEF Fits, Measured
 <2> HIDE DEF w, h, l, r, p
 <2>2. s.width = w /\ s.twiceHeight = h /\ s.length = l
   BY <2>1
 <2> QED BY <2>2 DEF w, h, l, FirstFrame, LastFrame
<1>2. columns # {} /\ rafters # {}
 <2>1. PICK y \in FramesAt(b) : IsPortal(b, y)
   BY DEF Fits
 <2>2. Cardinality(OfFrame(b, y, "column")) = 2 /\ Cardinality(OfFrame(b, y, "rafter")) = 2
   BY <2>1 DEF IsPortal
 <2>3. OfFrame(b, y, "column") # {} /\ OfFrame(b, y, "rafter") # {}
   BY <2>2, FS_EmptySet
 <2> QED BY <2>3 DEF OfFrame
<1>3. \A m \in columns \cup rafters :
         m \in Framing(b) /\ tops[m] \in Int /\ m.x1 + m.x2 \in Int
 <2> SUFFICES ASSUME NEW m \in columns \cup rafters
              PROVE  m \in Framing(b) /\ tops[m] \in Int /\ m.x1 + m.x2 \in Int
   OBVIOUS
 <2>1. m \in Framing(b) /\ m \in b.members
   BY MembersAre DEF Framing
 <2>2. m.z1 \in Int /\ m.z2 \in Int /\ m.x1 \in Int /\ m.x2 \in Int
   BY <2>1, MembersAre
 <2>3. {m.z1, m.z2} \in SUBSET Int /\ IsFiniteSet({m.z1, m.z2}) /\ {m.z1, m.z2} # {}
   BY <2>2, FewAreFinite
 <2>4. Max({m.z1, m.z2}) \in Int
   BY <2>3, Extremes
 <2> QED BY <2>1, <2>2, <2>4
<1>4. Cardinality(columns) \in Nat \ {0} /\ IsFiniteSet(columns) /\ IsFiniteSet(rafters)
  BY <1>2, MembersAre, FS_CardinalityType, FS_EmptySet
<1>5. SumFunctionOnSet(tops, columns) \in Int
 <2> HIDE DEF tops, columns, rafters
 <2> QED BY <1>3, <1>4, SumIsInt
<1>6. Max(twiceAt) \in Int /\ Min(twiceAt) \in Int
 <2>1. twiceAt \subseteq {[m \in columns |-> m.x1 + m.x2][x] : x \in columns}
   OBVIOUS
 <2>2. IsFiniteSet(twiceAt)
  <3> HIDE DEF twiceAt
  <3> QED BY <1>4, <2>1, ImageIsFinite
 <2>3. twiceAt \in SUBSET Int /\ twiceAt # {}
   BY <1>2, <1>3
 <2> HIDE DEF twiceAt
 <2> QED BY <2>2, <2>3, Extremes
<1>7. ridge \in Int
 <2>1. IsFiniteSet(heights)
   BY <1>4, ImageIsFinite
 <2>2. heights \in SUBSET Int /\ heights # {}
   BY <1>2, <1>3
 <2> HIDE DEF heights
 <2> QED BY <2>1, <2>2, Extremes
<1>8. eave \in Int
 <2> HIDE DEF tops, columns
 <2> QED BY <1>4, <1>5
<1>9. s.length \in Int
 <2>1. FirstFrame(b) \in Int /\ LastFrame(b) \in Int
   BY FramesAre, Extremes DEF Fits, FirstFrame, LastFrame
 <2> QED BY <1>1, <2>1
<1> HIDE DEF twiceAt, eave, ridge
<1> QED BY <1>1, <1>6, <1>7, <1>8, <1>9 DEF Sized, Fits

----
(* Loads by part.                                                          *)

----
(* Loads by the part of the surface they are on.                           *)

\* The part of the surface a load is on.
AcrossPart(b, site, s, c, r) ==
    LET sign == c.role[4]
        inside == InsideAcross(b, site, s, sign)
    IN  \/ \E m \in With(b, "column") : r = WallAcross(b, s, c, sign, inside, m)
        \/ \E m \in With(b, "rafter") : r = RoofAcross(b, s, c, sign, inside, m)
GablePart(b, site, s, c, r) ==
    LET sign == c.role[4]
        inside == InsideAlong(b, site, s, sign)
    IN  \/ \E m \in With(b, "column") : m.y \in EndFrames(b) /\ r = GableWall(b, s, c, sign, inside, m)
        \/ \E m \in With(b, "rafter") :
              m.y \in EndFrames(b) /\ Rises(m) /\ r = GableTop(b, s, c, sign, inside, m)
AlongPart(b, site, s, c, r) ==
    \/ GablePart(b, site, s, c, r)
    \/ \E m \in With(b, "rafter") :
          r = RoofAlong(b, s, c, c.role[4], InsideAlong(b, site, s, c.role[4]), m)

\* Loads of a wind across, by part.
LEMMA AcrossByPart ==
    ASSUME NEW b, NEW site, NEW s, NEW c, NEW r
    PROVE  r \in AcrossLoads(b, site, s, c, c.role[4]) <=> AcrossPart(b, site, s, c, r)
<1> DEFINE sign == c.role[4]
           inside == InsideAcross(b, site, s, sign)
           A == {WallAcross(b, s, c, sign, inside, m) : m \in With(b, "column")}
           B == {RoofAcross(b, s, c, sign, inside, m) : m \in With(b, "rafter")}
<1>1. AcrossLoads(b, site, s, c, sign) = A \cup B
  BY AcrossAre
<1>2. r \in A <=> \E m \in With(b, "column") : r = WallAcross(b, s, c, sign, inside, m)
  BY Zenon
<1>3. r \in B <=> \E m \in With(b, "rafter") : r = RoofAcross(b, s, c, sign, inside, m)
  BY Zenon
<1>4. AcrossPart(b, site, s, c, r) <=>
         \/ \E m \in With(b, "column") : r = WallAcross(b, s, c, sign, inside, m)
         \/ \E m \in With(b, "rafter") : r = RoofAcross(b, s, c, sign, inside, m)
  BY Zenon DEF AcrossPart
<1> HIDE DEF A, B
<1> QED BY <1>1, <1>2, <1>3, <1>4

\* Loads of a wind along, by part.
LEMMA AlongByPart ==
    ASSUME NEW b, NEW site, NEW s, NEW c, NEW r
    PROVE  r \in AlongLoads(b, site, s, c, c.role[4]) <=> AlongPart(b, site, s, c, r)
<1> DEFINE sign == c.role[4]
           inside == InsideAlong(b, site, s, sign)
           A == {GableWall(b, s, c, sign, inside, m) : m \in {n \in With(b, "column") : n.y \in EndFrames(b)}}
           B == {GableTop(b, s, c, sign, inside, m) :
                    m \in {n \in With(b, "rafter") : n.y \in EndFrames(b) /\ Rises(n)}}
           C == {RoofAlong(b, s, c, sign, inside, m) : m \in With(b, "rafter")}
<1>1. AlongLoads(b, site, s, c, sign) = (A \cup B) \cup C
  BY AlongAre
<1>2. r \in A <=> \E m \in With(b, "column") :
                     m.y \in EndFrames(b) /\ r = GableWall(b, s, c, sign, inside, m)
  BY Zenon
<1>3. r \in B <=> \E m \in With(b, "rafter") :
                     m.y \in EndFrames(b) /\ Rises(m) /\ r = GableTop(b, s, c, sign, inside, m)
  BY Zenon
<1>4. r \in C <=> \E m \in With(b, "rafter") : r = RoofAlong(b, s, c, sign, inside, m)
  BY Zenon
<1>5. AlongPart(b, site, s, c, r) <=>
         \/ \E m \in With(b, "column") : m.y \in EndFrames(b) /\ r = GableWall(b, s, c, sign, inside, m)
         \/ \E m \in With(b, "rafter") :
                     m.y \in EndFrames(b) /\ Rises(m) /\ r = GableTop(b, s, c, sign, inside, m)
         \/ \E m \in With(b, "rafter") : r = RoofAlong(b, s, c, sign, inside, m)
  BY Zenon DEF AlongPart, GablePart
<1> HIDE DEF A, B, C
<1> QED BY <1>1, <1>2, <1>3, <1>4, <1>5

\* All loads, by case and part.
LEMMA AllByPart ==
    ASSUME NEW b, NEW site, NEW s, NEW r
    PROVE  r \in AllLoads(b, site, s) <=>
              \/ \E m \in With(b, "rafter") : r = RoofLoad(b, m)
              \/ \E c \in WindCases : c.role[3] = "x" /\ AcrossPart(b, site, s, c, r)
              \/ \E c \in WindCases : c.role[3] = "y" /\ AlongPart(b, site, s, c, r)
<1> DEFINE A == UNION {AcrossLoads(b, site, s, c, c.role[4]) : c \in {d \in WindCases : d.role[3] = "x"}}
           B == {RoofLoad(b, m) : m \in With(b, "rafter")}
           C == UNION {AlongLoads(b, site, s, c, c.role[4]) : c \in {d \in WindCases : d.role[3] = "y"}}
<1>1. AllLoads(b, site, s) = (A \cup B) \cup C
  BY Zenon DEF AllLoads, LoadsAcross, LoadsAlong
<1>2. r \in A <=> \E c \in WindCases : c.role[3] = "x" /\ r \in AcrossLoads(b, site, s, c, c.role[4])
  BY Zenon
<1>3. r \in C <=> \E c \in WindCases : c.role[3] = "y" /\ r \in AlongLoads(b, site, s, c, c.role[4])
  BY Zenon
<1>4. r \in B <=> \E m \in With(b, "rafter") : r = RoofLoad(b, m)
  BY Zenon
<1> HIDE DEF A, B, C
<1>5. /\ r \in A <=> \E c \in WindCases : c.role[3] = "x" /\ AcrossPart(b, site, s, c, r)
      /\ r \in C <=> \E c \in WindCases : c.role[3] = "y" /\ AlongPart(b, site, s, c, r)
  BY <1>2, <1>3, AcrossByPart, AlongByPart, Zenon
<1> QED BY <1>1, <1>4, <1>5

\* A load names its case, its member and its part.
LEMMA PartsName ==
    ASSUME NEW b, NEW s, NEW c, NEW sign, NEW inside, NEW m
    PROVE  LET Of(l, part) == /\ l.id = <<c.id, m.id, part>> /\ l.id[3] = part
                              /\ l.kind = "wind" /\ l.case = c.id /\ l.member = m.id
           IN  /\ Of(WallAcross(b, s, c, sign, inside, m), "wall")
               /\ Of(RoofAcross(b, s, c, sign, inside, m), "roof")
               /\ Of(GableWall(b, s, c, sign, inside, m), "gable-wall")
               /\ Of(GableTop(b, s, c, sign, inside, m), "gable")
               /\ Of(RoofAlong(b, s, c, sign, inside, m), "roof")
<1> DEFINE Of(l, part) == /\ l.id = <<c.id, m.id, part>> /\ l.id[3] = part
                          /\ l.kind = "wind" /\ l.case = c.id /\ l.member = m.id
<1>0. ASSUME NEW part, NEW kind, NEW external, NEW area, NEW width, NEW outward
      PROVE  Of(FaceLoad(c, m, part, kind, external, inside, area, width, outward), part)
  BY FaceLoadIs
<1> HIDE DEF Of
<1>1. Of(WallAcross(b, s, c, sign, inside, m), "wall")
  BY <1>0, Zenon DEF WallAcross
<1>2. Of(RoofAcross(b, s, c, sign, inside, m), "roof")
  BY <1>0, Zenon DEF RoofAcross
<1>3. Of(GableWall(b, s, c, sign, inside, m), "gable-wall")
  BY <1>0, Zenon DEF GableWall, Gable
<1>4. Of(GableTop(b, s, c, sign, inside, m), "gable")
  BY <1>0, Zenon DEF GableTop, Gable
<1>5. Of(RoofAlong(b, s, c, sign, inside, m), "roof")
  BY <1>0, Zenon DEF RoofAlong
<1> QED BY <1>1, <1>2, <1>3, <1>4, <1>5 DEF Of

----
(* Bases.                                                                  *)

\* A wind basis has the event and the face it was made for.
LEMMA BasisIs ==
    ASSUME NEW site, NEW e, NEW f \in Faces
    PROVE  LET b == EventBasis(site, e, f)
           IN  b.event = e /\ b.face = f /\ b.direction = ActionDirection[f]
<1>1. PICK g : EventBasis(site, e, f) = FaceBasis(site, f, g, e)
  BY DEF EventBasis
<1>2. PICK sectors, k, years, v, q, d, reviewed, recomputes, envelope :
        /\ d = ActionDirection[f]
        /\ FaceBasis(site, f, g, e) =
             [face |-> f, sectors |-> sectors, sector |-> k, years |-> years, event |-> e,
              speed |-> v, q |-> q, direction |-> d, reviewed |-> reviewed,
              recomputes |-> recomputes, envelope |-> envelope]
  BY Zenon DEF FaceBasis
<1> QED BY <1>1, <1>2

\* The face a case comes from is the one whose wind pushes its way.
LEMMA CaseFaces ==
    ASSUME NEW c \in WindCases
    PROVE  /\ FaceOfCase(c.id) \in Faces /\ c.id[2] \in Events
           /\ ActionDirection[FaceOfCase(c.id)] = Towards(c.id)
<1>1. PICK e \in Events, a \in {"x", "y"}, s \in Signs :
         c.id[2] = e /\ c.id[3] = a /\ c.id[4] = s
  BY WindCasesAre
<1>2. s = 1 \/ s = -1
  BY DEF Signs
<1> QED BY <1>1, <1>2 DEF FaceOfCase, Faces, ActionDirection, Towards

----
(* Loads meet their wind.                                                  *)

\* The wall of a wind that it meets is pushed the way of the wind.
LEMMA WallsArePushed ==
    ASSUME NEW b \in Sheds, NEW site, NEW s, Fits(b, s), NEW c, NEW sign \in Signs,
           NEW m \in With(b, "column"), MeetsWind(b, m, sign),
           \E n \in OfFrame(b, m.y, "column") : LeftOf(n),
           \E n \in OfFrame(b, m.y, "column") : ~LeftOf(n)
    PROVE  WallAcross(b, s, c, sign, InsideAcross(b, site, s, sign), m).toward[1] = sign
<1> DEFINE inside == InsideAcross(b, site, s, sign)
           f == AreaFactor(AreaOf(b, m), "windward")
           w == Worst(70, f, inside)
<1>1. m \in b.members /\ m.y \in Int /\ m.length \in Int
  BY MembersAre
<1>2. AreaOf(b, m) \in Int
 <2>1. PICK t \in Int : t = TwiceStrip(b, m.y)
   BY <1>1, StripIs
 <2> QED BY <1>1, <2>1 DEF AreaOf
<1>3. f \in 90..100
  BY <1>2, WindwardFactor
<1>4. /\ inside \in SUBSET Int /\ IsFiniteSet(inside) /\ -30 \in inside
      /\ \A i \in inside : i <= 70
  BY MeasuresAre, InsideAcrossIs
<1> HIDE DEF inside, f
<1>5. w > 0
  BY <1>3, <1>4, WorstPushes
<1> USE DEF inside, f
<1>6. WallAcross(b, s, c, sign, inside, m)
        = FaceLoad(c, m, "wall", "windward", 70, inside, AreaOf(b, m), TwiceStrip(b, m.y), WallOut(m))
  BY Zenon DEF WallAcross
<1>7. WallAcross(b, s, c, sign, inside, m).toward = Against(WallOut(m), w)
  BY <1>6, FaceLoadIs
<1> HIDE DEF inside, f, w
<1>8. Against(WallOut(m), w)[1] = IF LeftOf(m) THEN 1 ELSE -1
  BY <1>5 DEF Against, WallOut
<1>9. LeftOf(m) <=> sign = 1
 <2>1. \A n \in OfFrame(b, m.y, "column") : n \in b.members /\ n.x1 + n.x2 \in Int
   BY MembersAre DEF OfFrame
 <2>2. m.x1 + m.x2 \in Int
   BY <1>1, MembersAre
 <2>3. PICK k \in Int : k = m.x1 + m.x2
   BY <2>2
 <2>4. CASE sign = 1
  <3>1. PICK n \in OfFrame(b, m.y, "column") : LeftOf(n)
    OBVIOUS
  <3>2. PICK j \in Int : j = n.x1 + n.x2
    BY <2>1
  <3>3. n = m \/ k <= j
    BY <2>3, <2>4, <3>2 DEF MeetsWind
  <3> QED BY <2>3, <2>4, <3>1, <3>2, <3>3 DEF LeftOf
 <2>5. CASE sign = -1
  <3>1. PICK n \in OfFrame(b, m.y, "column") : ~LeftOf(n)
    OBVIOUS
  <3>2. PICK j \in Int : j = n.x1 + n.x2
    BY <2>1
  <3>3. n = m \/ k >= j
    BY <2>3, <2>5, <3>2 DEF MeetsWind
  <3> QED BY <2>3, <2>5, <3>1, <3>2, <3>3 DEF LeftOf
 <2> QED BY <2>4, <2>5 DEF Signs
<1> QED BY <1>7, <1>8, <1>9 DEF Signs, inside

\* The pressure of every load is that of the wind its case names.
LEMMA ShowsMet == ASSUME WindInv PROVE LoadsMeetTheirWind
<1> SUFFICES ASSUME phase \in {"loaded", "traced", "combined"},
                    NEW l \in surface, l.kind = "wind"
             PROVE  LET b == CHOOSE x \in bases : <<x.event, x.face>> = l.basis
                        m == CHOOSE n \in shed.members : n.id = l.member
                    IN  /\ b.event = l.case[2] /\ b.direction = Towards(l.case)
                        /\ l.pressure = Magnitude(l.net) * b.q
                        /\ l.id[3] = "wall" /\ MeetsWind(shed, m, l.case[4])
                           /\ (\E n \in OfFrame(shed, m.y, "column") : LeftOf(n))
                           /\ (\E n \in OfFrame(shed, m.y, "column") : ~LeftOf(n)) =>
                                l.toward[1] = l.case[4]
  BY Zenon DEF LoadsMeetTheirWind
<1>0. Carried /\ shed \in Sheds
  BY DEF WindInv, SurfaceStands
<1> DEFINE site == where[1]
           b == CHOOSE x \in bases : <<x.event, x.face>> = l.basis
           m == CHOOSE n \in shed.members : n.id = l.member
<1>1. PICK r \in AllLoads(shed, site, shape) : l = Overlaid(r, site)
  BY <1>0 DEF Carried
<1> DEFINE of == EventBasis(site, r.case[2], FaceOfCase(r.case))
<1>2. /\ l.id = r.id /\ l.kind = r.kind /\ l.case = r.case /\ l.member = r.member
      /\ l.net = r.net /\ l.toward = r.toward
      /\ l.basis = <<of.event, of.face>> /\ l.pressure = Magnitude(l.net) * of.q
  BY <1>1, OverlaidIs
<1>3. PICK c \in WindCases, k \in Framing(shed) : OnMember(r, c, k)
  BY <1>2, LoadsAre, RoofLoadIs
<1>4. r.case = c.id /\ r.member = k.id
  BY <1>3, FaceLoadIs DEF OnMember
<1>5. /\ FaceOfCase(r.case) \in Faces /\ r.case[2] \in Events
      /\ ActionDirection[FaceOfCase(r.case)] = Towards(r.case)
  BY <1>4, CaseFaces
<1>6. b = of
 <2> HIDE DEF of
 <2>1. of \in bases
   BY <1>0, <1>5 DEF Carried, of
 <2>2. \A x \in bases : <<x.event, x.face>> = <<of.event, of.face>> => x = of
  <3>1. of.event = r.case[2] /\ of.face = FaceOfCase(r.case)
    BY <1>5, BasisIs DEF of
  <3>2. \A x \in bases : \E e \in Events, f \in Faces :
           x = EventBasis(site, e, f) /\ x.event = e /\ x.face = f
    BY <1>0, BasisIs DEF Carried
  <3> QED BY <3>1, <3>2 DEF of
 <2>3. \A x \in bases : <<x.event, x.face>> = l.basis <=> x = of
   BY <1>2, <2>1, <2>2
 <2> QED BY <2>1, <2>3, Zenon
<1>7. of.event = l.case[2] /\ of.direction = Towards(l.case)
  BY <1>2, <1>5, BasisIs
<1>8. ASSUME l.id[3] = "wall", MeetsWind(shed, m, l.case[4]),
             \E n \in OfFrame(shed, m.y, "column") : LeftOf(n),
             \E n \in OfFrame(shed, m.y, "column") : ~LeftOf(n)
      PROVE  l.toward[1] = l.case[4]
 <2>1. ~\E n \in With(shed, "rafter") : r = RoofLoad(shed, n)
   BY <1>2, RoofLoadIs
 <2>2. ASSUME NEW d, AlongPart(shed, site, shape, d, r) PROVE FALSE
   BY <1>2, <1>8, <2>2, PartsName DEF AlongPart, GablePart
 <2>3. PICK d \in WindCases : AcrossPart(shed, site, shape, d, r)
   BY <2>1, <2>2, AllByPart
 <2>4. PICK inside : inside = InsideAcross(shed, site, shape, d.role[4])
   OBVIOUS
 <2>5. \/ \E n \in With(shed, "column") : r = WallAcross(shed, shape, d, d.role[4], inside, n)
       \/ \E n \in With(shed, "rafter") : r = RoofAcross(shed, shape, d, d.role[4], inside, n)
   BY <2>3, <2>4, Zenon DEF AcrossPart
 <2>6. PICK n \in With(shed, "column") : r = WallAcross(shed, shape, d, d.role[4], inside, n)
   BY <1>2, <1>8, <2>5, PartsName
 <2>7. r.case = d.id /\ r.member = n.id
   BY <2>6, PartsName
 <2>8. PICK s \in Signs : d.role[4] = s /\ d.id[4] = s
   BY WindCasesAre
 <2>9. m = n
  <3>1. n \in shed.members /\ \A i, j \in shed.members : i.id = j.id => i = j
    BY <1>0, MembersAre
  <3> QED BY <1>2, <2>7, <3>1
 <2>10. WallAcross(shed, shape, d, s, InsideAcross(shed, site, shape, s), n).toward[1] = s
  <3>1. Fits(shed, shape)
    BY <1>0 DEF Carried
  <3> HIDE DEF m
  <3> QED BY <1>0, <1>2, <1>8, <2>7, <2>8, <2>9, <3>1, WallsArePushed
 <2> QED BY <1>2, <2>4, <2>6, <2>7, <2>8, <2>10
<1> HIDE DEF b, m, of
<1> QED BY <1>2, <1>6, <1>7, <1>8 DEF b, m

----
(* Mirror images.                                                          *)

----
(* Mirror images.                                                          *)

\* The way X goes in the mirror.
Way(axis) == IF axis = "x" THEN -1 ELSE 1

\* The ends of a mirror image, in either order.
LEMMA EndsMirrored ==
    ASSUME NEW b \in Sheds, NEW axis \in {"x", "y"}, NEW m \in Framing(b), NEW n \in Framing(b)
    PROVE  Mirrored(b, axis, m, n) <=>
              /\ m.role = n.role
              /\ IF axis = "x" THEN m.y = n.y ELSE m.y + n.y = FirstFrame(b) + LastFrame(b)
              /\ \/ /\ n.x1 = Way(axis) * m.x1 /\ n.z1 = m.z1
                    /\ n.x2 = Way(axis) * m.x2 /\ n.z2 = m.z2
                 \/ /\ n.x1 = Way(axis) * m.x2 /\ n.z1 = m.z2
                    /\ n.x2 = Way(axis) * m.x1 /\ n.z2 = m.z1
<1>1. /\ m.x1 \in Int /\ m.z1 \in Int /\ m.x2 \in Int /\ m.z2 \in Int
      /\ n.x1 \in Int /\ n.z1 \in Int /\ n.x2 \in Int /\ n.z2 \in Int
  BY MembersAre
<1>2. Mirrored(b, axis, m, n) <=>
              /\ m.role = n.role
              /\ {<<Way(axis) * m.x1, m.z1>>, <<Way(axis) * m.x2, m.z2>>}
                   = {<<1 * n.x1, n.z1>>, <<1 * n.x2, n.z2>>}
              /\ IF axis = "x" THEN m.y = n.y ELSE m.y + n.y = FirstFrame(b) + LastFrame(b)
  BY DEF Mirrored, Way
<1>3. PICK a1, a2 : a1 = Way(axis) * m.x1 /\ a2 = Way(axis) * m.x2
  OBVIOUS
<1>4. 1 * n.x1 = n.x1 /\ 1 * n.x2 = n.x2
  BY <1>1
<1>5. PICK x1, x2, z1, z2, u1, u2 :
        x1 = n.x1 /\ x2 = n.x2 /\ z1 = n.z1 /\ z2 = n.z2 /\ u1 = m.z1 /\ u2 = m.z2
  OBVIOUS
<1>6. {<<a1, u1>>, <<a2, u2>>} = {<<x1, z1>>, <<x2, z2>>} <=>
          \/ a1 = x1 /\ u1 = z1 /\ a2 = x2 /\ u2 = z2
          \/ a1 = x2 /\ u1 = z2 /\ a2 = x1 /\ u2 = z1
 <2>2. \A p, q, u, v : <<p, q>> = <<u, v>> <=> p = u /\ q = v
   OBVIOUS
 <2>3. PICK p, q, u, v : p = <<a1, u1>> /\ q = <<a2, u2>> /\ u = <<x1, z1>> /\ v = <<x2, z2>>
   OBVIOUS
 <2>4. {p, q} = {u, v} <=> (p = u /\ q = v) \/ (p = v /\ q = u)
   OBVIOUS
 <2> QED BY <2>2, <2>3, <2>4
<1>7. Mirrored(b, axis, m, n) <=>
              /\ m.role = n.role
              /\ {<<a1, m.z1>>, <<a2, m.z2>>} = {<<n.x1, n.z1>>, <<n.x2, n.z2>>}
              /\ IF axis = "x" THEN m.y = n.y ELSE m.y + n.y = FirstFrame(b) + LastFrame(b)
  BY <1>2, <1>3, <1>4
<1> QED BY <1>3, <1>5, <1>6, <1>7

\* What a member and its mirror image have in common.
LEMMA MirroredAre ==
    ASSUME NEW b \in Sheds, \A k \in Framing(b) : ~k.skewed,
           NEW axis \in {"x", "y"}, NEW m \in Framing(b), NEW n \in Framing(b), Mirrored(b, axis, m, n)
    PROVE  /\ n.role = m.role /\ n.length = m.length
           /\ m.x1 + m.x2 \in Int /\ n.x1 + n.x2 = Way(axis) * (m.x1 + m.x2)
           /\ Magnitude(n.x2 - n.x1) = Magnitude(m.x2 - m.x1) /\ Magnitude(n.x2 - n.x1) \in Int
           /\ Magnitude(n.z2 - n.z1) = Magnitude(m.z2 - m.z1) /\ Magnitude(n.z2 - n.z1) \in Int
           /\ Rises(n) <=> Rises(m)
           /\ Mirrored(b, axis, n, m)
<1>0. m \in b.members /\ n \in b.members
  BY MembersAre
<1>1. /\ m.x1 \in Int /\ m.z1 \in Int /\ m.x2 \in Int /\ m.z2 \in Int /\ m.y \in Int
      /\ n.x1 \in Int /\ n.z1 \in Int /\ n.x2 \in Int /\ n.z2 \in Int /\ n.y \in Int
  BY <1>0, MembersAre
<1>2. /\ m.role = n.role
      /\ IF axis = "x" THEN m.y = n.y ELSE m.y + n.y = FirstFrame(b) + LastFrame(b)
      /\ \/ /\ n.x1 = Way(axis) * m.x1 /\ n.z1 = m.z1
            /\ n.x2 = Way(axis) * m.x2 /\ n.z2 = m.z2
         \/ /\ n.x1 = Way(axis) * m.x2 /\ n.z1 = m.z2
            /\ n.x2 = Way(axis) * m.x1 /\ n.z2 = m.z1
  BY EndsMirrored
<1>3. /\ m.x1 + m.x2 \in Int /\ n.x1 + n.x2 = Way(axis) * (m.x1 + m.x2)
      /\ Magnitude(n.x2 - n.x1) = Magnitude(m.x2 - m.x1) /\ Magnitude(n.x2 - n.x1) \in Int
      /\ Magnitude(n.z2 - n.z1) = Magnitude(m.z2 - m.z1) /\ Magnitude(n.z2 - n.z1) \in Int
      /\ m.x2 - m.x1 \in {n.x2 - n.x1, n.x1 - n.x2}
      /\ m.z2 - m.z1 \in {n.z2 - n.z1, n.z1 - n.z2}
  BY <1>1, <1>2 DEF Magnitude, Way
<1>4. Rises(n) <=> Rises(m)
  BY <1>1, <1>2 DEF Rises, Way
<1>5. n.length = m.length
 <2>1. {m.role, n.role} \subseteq {"column", "rafter"}
   BY DEF Framing, With
 <2> QED BY <1>0, <1>3, <2>1, WindAssumption
<1>6. Mirrored(b, axis, n, m)
 <2>1. /\ IF axis = "x" THEN n.y = m.y ELSE n.y + m.y = FirstFrame(b) + LastFrame(b)
       /\ \/ /\ m.x1 = Way(axis) * n.x1 /\ m.z1 = n.z1
             /\ m.x2 = Way(axis) * n.x2 /\ m.z2 = n.z2
          \/ /\ m.x1 = Way(axis) * n.x2 /\ m.z1 = n.z2
             /\ m.x2 = Way(axis) * n.x1 /\ m.z2 = n.z1
   BY <1>1, <1>2 DEF Way
 <2> QED BY <1>2, <2>1, EndsMirrored
<1> QED BY <1>2, <1>3, <1>4, <1>5, <1>6

\* Loads alike but for one way.
Turned(way, at) == [way EXCEPT ![at] = -@]
Twins(l, k, at) ==
    /\ k.id[3] = l.id[3] /\ k.kind = "wind" /\ k.net = l.net /\ k.area = l.area
    /\ k.toward = Turned(l.toward, at)

\* A load against a turned surface is the turned load.
LEMMA AgainstTurned ==
    ASSUME NEW a \in Int, NEW b \in Int, NEW c \in Int, NEW net
    PROVE  /\ Against(<<-a, b, c>>, net) = Turned(Against(<<a, b, c>>, net), 1)
           /\ Against(<<a, -b, c>>, net) = Turned(Against(<<a, b, c>>, net), 2)
<1>0. ASSUME NEW u, NEW v, NEW w
      PROVE  /\ Against(<<u, v, w>>, net) = [i \in 1..3 |-> Against(<<u, v, w>>, net)[i]]
             /\ Against(<<u, v, w>>, net)[1] = IF net > 0 THEN -u ELSE u
             /\ Against(<<u, v, w>>, net)[2] = IF net > 0 THEN -v ELSE v
             /\ Against(<<u, v, w>>, net)[3] = IF net > 0 THEN -w ELSE w
  BY DEF Against
<1>1. PICK f, g, h :
        f = Against(<<a, b, c>>, net) /\ g = Against(<<-a, b, c>>, net) /\ h = Against(<<a, -b, c>>, net)
  OBVIOUS
<1>2. /\ f = [i \in 1..3 |-> f[i]] /\ g = [i \in 1..3 |-> g[i]] /\ h = [i \in 1..3 |-> h[i]]
      /\ g[1] = -f[1] /\ g[2] = f[2] /\ g[3] = f[3]
      /\ h[1] = f[1] /\ h[2] = -f[2] /\ h[3] = f[3]
  BY <1>0, <1>1
<1>3. \A i \in 1..3 : i = 1 \/ i = 2 \/ i = 3
  OBVIOUS
<1>4. g = [f EXCEPT ![1] = -@]
  BY <1>2, <1>3
<1>5. h = [f EXCEPT ![2] = -@]
  BY <1>2, <1>3
<1> QED BY <1>1, <1>4, <1>5 DEF Turned

\* Loads on mirrored surfaces are twins.
LEMMA FaceTwins ==
    ASSUME NEW c, NEW d, NEW m, NEW n, NEW part, NEW kind, NEW external, NEW inside, NEW area, NEW width,
           NEW p \in Int, NEW q \in Int, NEW r \in Int
    PROVE  /\ Twins(FaceLoad(c, m, part, kind, external, inside, area, width, <<p, q, r>>),
                    FaceLoad(d, n, part, kind, external, inside, area, width, <<-p, q, r>>), 1)
           /\ Twins(FaceLoad(c, m, part, kind, external, inside, area, width, <<p, q, r>>),
                    FaceLoad(d, n, part, kind, external, inside, area, width, <<p, -q, r>>), 2)
<1>1. PICK net : net = Worst(external, AreaFactor(area, kind), inside)
  OBVIOUS
<1>2. ASSUME NEW e, NEW k, NEW out
      PROVE  LET l == FaceLoad(e, k, part, kind, external, inside, area, width, out)
             IN  l.id[3] = part /\ l.kind = "wind" /\ l.net = net /\ l.area = area /\ l.toward = Against(out, net)
  BY <1>1, FaceLoadIs
<1> DEFINE l == FaceLoad(c, m, part, kind, external, inside, area, width, <<p, q, r>>)
           k == FaceLoad(d, n, part, kind, external, inside, area, width, <<-p, q, r>>)
           j == FaceLoad(d, n, part, kind, external, inside, area, width, <<p, -q, r>>)
<1>3. /\ l.id[3] = part /\ l.kind = "wind" /\ l.net = net /\ l.area = area /\ l.toward = Against(<<p, q, r>>, net)
      /\ k.id[3] = part /\ k.kind = "wind" /\ k.net = net /\ k.area = area /\ k.toward = Against(<<-p, q, r>>, net)
      /\ j.id[3] = part /\ j.kind = "wind" /\ j.net = net /\ j.area = area /\ j.toward = Against(<<p, -q, r>>, net)
  BY <1>2
<1> HIDE DEF l, k, j
<1>4. /\ Against(<<-p, q, r>>, net) = Turned(Against(<<p, q, r>>, net), 1)
      /\ Against(<<p, -q, r>>, net) = Turned(Against(<<p, q, r>>, net), 2)
  BY AgainstTurned
<1>5. k.toward = Turned(l.toward, 1) /\ j.toward = Turned(l.toward, 2)
  BY <1>3, <1>4
<1>6. Twins(l, k, 1) /\ Twins(l, j, 2)
  BY <1>3, <1>5 DEF Twins
<1> QED BY <1>6 DEF l, k, j

\* A building that is its own mirror image.
Mirrors(b, s, axis) == b \in Sheds /\ Fits(b, s) /\ axis \in {"x", "y"} /\ Symmetric(b, axis)

----
(* Across.                                                                 *)

\* A column has an image in its own frame.
LEMMA ImagesOfColumns ==
    ASSUME NEW b, NEW s, Mirrors(b, s, "x"), NEW y, NEW k \in OfFrame(b, y, "column")
    PROVE  \E n \in OfFrame(b, y, "column") : n.x1 + n.x2 \in Int /\ n.x1 + n.x2 = -(k.x1 + k.x2)
<1>0. b \in Sheds /\ \A j \in Framing(b) : ~j.skewed
  BY DEF Mirrors, Fits
<1>1. k \in Framing(b) /\ k.role = "column" /\ k.y = y
  BY DEF OfFrame, Framing, With
<1>2. PICK n \in Framing(b) : Mirrored(b, "x", k, n)
  BY <1>1 DEF Mirrors, Symmetric
<1>3. /\ n.role = "column" /\ k.x1 + k.x2 \in Int /\ n.x1 + n.x2 = Way("x") * (k.x1 + k.x2)
      /\ n.y = k.y
  BY <1>0, <1>1, <1>2, MirroredAre, EndsMirrored
<1>4. n \in OfFrame(b, y, "column")
  BY <1>1, <1>3 DEF OfFrame, Framing, With
<1> QED BY <1>3, <1>4 DEF Way

\* The image of a column that meets the wind meets the opposite wind,
LEMMA MeetsMirrored ==
    ASSUME NEW b, NEW s, Mirrors(b, s, "x"), NEW sign \in Signs,
           NEW m \in Framing(b), NEW n \in Framing(b), Mirrored(b, "x", m, n),
           MeetsWind(b, m, sign)
    PROVE  MeetsWind(b, n, -sign)
<1>0. b \in Sheds /\ \A j \in Framing(b) : ~j.skewed
  BY DEF Mirrors, Fits
<1>1. m.x1 + m.x2 \in Int /\ n.x1 + n.x2 = Way("x") * (m.x1 + m.x2) /\ n.y = m.y
  BY <1>0, MirroredAre, EndsMirrored
<1>2. PICK p \in Int : p = m.x1 + m.x2 /\ n.x1 + n.x2 = -p
  BY <1>1 DEF Way
<1>3. ASSUME NEW k \in OfFrame(b, n.y, "column") \ {n}
      PROVE  IF -sign = 1 THEN n.x1 + n.x2 <= k.x1 + k.x2 ELSE n.x1 + n.x2 >= k.x1 + k.x2
 <2>1. PICK j \in OfFrame(b, m.y, "column") : j.x1 + j.x2 \in Int /\ j.x1 + j.x2 = -(k.x1 + k.x2)
   BY <1>1, ImagesOfColumns
 <2>2. PICK u \in Int : u = k.x1 + k.x2
  <3>1. k \in b.members
    BY <1>0, MembersAre DEF OfFrame
  <3> QED BY <1>0, <3>1, MembersAre
 <2>3. j.x1 + j.x2 = -u
   BY <2>1, <2>2
 <2>4. CASE j = m
   BY <1>2, <2>2, <2>3, <2>4
 <2>5. CASE j # m
  <3>1. IF sign = 1 THEN p <= -u ELSE p >= -u
    BY <1>2, <2>1, <2>3, <2>5 DEF MeetsWind
  <3>2. sign = 1 \/ sign = -1
    BY DEF Signs
  <3> QED BY <1>2, <2>2, <3>1, <3>2
 <2> QED BY <2>4, <2>5
<1> QED BY <1>3 DEF MeetsWind

\* The opposite of a sign is a sign.
LEMMA SignsAre == \A s \in Signs : -s \in Signs /\ -(-s) = s /\ s \in Int
BY DEF Signs

\* and only that of such a column does.
LEMMA MeetsBoth ==
    ASSUME NEW b, NEW s, Mirrors(b, s, "x"), NEW sign \in Signs,
           NEW m \in Framing(b), NEW n \in Framing(b), Mirrored(b, "x", m, n)
    PROVE  MeetsWind(b, n, -sign) <=> MeetsWind(b, m, sign)
<1>1. MeetsWind(b, m, sign) => MeetsWind(b, n, -sign)
  BY MeetsMirrored
<1>2. Mirrored(b, "x", n, m)
  BY MirroredAre DEF Mirrors, Fits
<1>3. MeetsWind(b, n, -sign) => MeetsWind(b, m, -(-sign))
 <2>1. -sign \in Signs
   BY SignsAre
 <2> QED BY <1>2, <2>1, MeetsMirrored
<1> QED BY <1>1, <1>3, SignsAre

\* The sides of the building are turned.
LEMMA SidesTurned ==
    ASSUME NEW b, NEW s, Mirrors(b, s, "x"), NEW sign \in Signs,
           NEW m \in Framing(b), NEW n \in Framing(b), Mirrored(b, "x", m, n)
    PROVE  /\ UpwindOf(n, -sign) <=> UpwindOf(m, sign)
           /\ \E p \in Int : WallOut(m) = <<p, 0, 0>> /\ WallOut(n) = <<-p, 0, 0>>
           /\ \E p \in Int, r \in Int : RoofOut(m) = <<p, 0, r>> /\ RoofOut(n) = <<-p, 0, r>>
           /\ n.y = m.y /\ AreaOf(b, n) = AreaOf(b, m)
<1>0. b \in Sheds /\ \A j \in Framing(b) : ~j.skewed
  BY DEF Mirrors, Fits
<1>1. /\ m.x1 + m.x2 \in Int /\ n.x1 + n.x2 = Way("x") * (m.x1 + m.x2) /\ n.y = m.y
      /\ n.length = m.length
      /\ Magnitude(n.x2 - n.x1) = Magnitude(m.x2 - m.x1) /\ Magnitude(n.x2 - n.x1) \in Int
      /\ Magnitude(n.z2 - n.z1) = Magnitude(m.z2 - m.z1) /\ Magnitude(n.z2 - n.z1) \in Int
  BY <1>0, MirroredAre, EndsMirrored
<1>2. PICK p \in Int : p = m.x1 + m.x2 /\ n.x1 + n.x2 = -p /\ p # 0
  BY <1>1 DEF Way, Mirrors, Symmetric
<1>3. LeftOf(n) <=> ~LeftOf(m)
  BY <1>2 DEF LeftOf
<1>4. UpwindOf(n, -sign) <=> UpwindOf(m, sign)
  BY <1>2 DEF UpwindOf, Signs
<1>5. \E q \in Int : WallOut(m) = <<q, 0, 0>> /\ WallOut(n) = <<-q, 0, 0>>
 <2>1. CASE LeftOf(m)
   BY <1>3, <2>1 DEF WallOut
 <2>2. CASE ~LeftOf(m)
   BY <1>3, <2>2 DEF WallOut
 <2> QED BY <2>1, <2>2
<1>6. \E q \in Int, r \in Int : RoofOut(m) = <<q, 0, r>> /\ RoofOut(n) = <<-q, 0, r>>
 <2>1. PICK u \in Int, r \in Int :
         /\ u = Magnitude(m.z2 - m.z1) /\ u = Magnitude(n.z2 - n.z1)
         /\ r = Magnitude(m.x2 - m.x1) /\ r = Magnitude(n.x2 - n.x1)
   BY <1>1
 <2>2. CASE LeftOf(m)
  <3>1. RoofOut(m) = <<-u, 0, r>> /\ RoofOut(n) = <<u, 0, r>>
    BY <1>3, <2>1, <2>2 DEF RoofOut
  <3>2. -u \in Int /\ u = -(-u)
    OBVIOUS
  <3> QED BY <3>1, <3>2
 <2>3. CASE ~LeftOf(m)
  <3>1. RoofOut(m) = <<u, 0, r>> /\ RoofOut(n) = <<-u, 0, r>>
    BY <1>3, <2>1, <2>3 DEF RoofOut
  <3> QED BY <3>1
 <2> QED BY <2>2, <2>3
<1>7. AreaOf(b, n) = AreaOf(b, m)
  BY <1>1 DEF AreaOf
<1> QED BY <1>1, <1>4, <1>5, <1>6, <1>7

\* Walls and roofs under opposite winds across are twins.
LEMMA AcrossTwins ==
    ASSUME NEW b, NEW s, Mirrors(b, s, "x"), NEW site, NEW c, NEW d, NEW sign \in Signs,
           NEW m \in Framing(b), NEW n \in Framing(b), Mirrored(b, "x", m, n)
    PROVE  /\ Twins(WallAcross(b, s, c, sign, InsideAcross(b, site, s, sign), m),
                    WallAcross(b, s, d, -sign, InsideAcross(b, site, s, -sign), n), 1)
           /\ Twins(RoofAcross(b, s, c, sign, InsideAcross(b, site, s, sign), m),
                    RoofAcross(b, s, d, -sign, InsideAcross(b, site, s, -sign), n), 1)
<1>1. PICK inside : inside = InsideAcross(b, site, s, sign) /\ inside = InsideAcross(b, site, s, -sign)
 <2>1. OpenSurfaces(b, site, "x", sign) = OpenSurfaces(b, site, "x", -sign)
   BY Zenon DEF OpenSurfaces
 <2> QED BY <2>1, Zenon DEF InsideAcross
<1>2. PICK area, width :
         /\ area = AreaOf(b, m) /\ area = AreaOf(b, n)
         /\ width = TwiceStrip(b, m.y) /\ width = TwiceStrip(b, n.y)
  BY SidesTurned
<1>3. Twins(WallAcross(b, s, c, sign, inside, m), WallAcross(b, s, d, -sign, inside, n), 1)
 <2>1. PICK p \in Int : WallOut(m) = <<p, 0, 0>> /\ WallOut(n) = <<-p, 0, 0>>
   BY SidesTurned
 <2>2. CASE MeetsWind(b, m, sign)
  <3>1. MeetsWind(b, n, -sign)
    BY <2>2, MeetsBoth
  <3>2. /\ WallAcross(b, s, c, sign, inside, m)
             = FaceLoad(c, m, "wall", "windward", 70, inside, area, width, <<p, 0, 0>>)
        /\ WallAcross(b, s, d, -sign, inside, n)
             = FaceLoad(d, n, "wall", "windward", 70, inside, area, width, <<-p, 0, 0>>)
    BY <1>2, <2>1, <2>2, <3>1 DEF WallAcross
  <3> QED BY <3>2, FaceTwins
 <2>3. CASE ~MeetsWind(b, m, sign)
  <3>1. ~MeetsWind(b, n, -sign)
    BY <2>3, MeetsBoth
  <3>2. /\ WallAcross(b, s, c, sign, inside, m)
             = FaceLoad(c, m, "wall", "leeward", LeewardAcross(s.pitch), inside, area, width, <<p, 0, 0>>)
        /\ WallAcross(b, s, d, -sign, inside, n)
             = FaceLoad(d, n, "wall", "leeward", LeewardAcross(s.pitch), inside, area, width, <<-p, 0, 0>>)
    BY <1>2, <2>1, <2>3, <3>1 DEF WallAcross
  <3> QED BY <3>2, FaceTwins
 <2> QED BY <2>2, <2>3
<1>4. Twins(RoofAcross(b, s, c, sign, inside, m), RoofAcross(b, s, d, -sign, inside, n), 1)
 <2>1. PICK p \in Int, r \in Int : RoofOut(m) = <<p, 0, r>> /\ RoofOut(n) = <<-p, 0, r>>
   BY SidesTurned
 <2>2. PICK e : /\ e = (IF UpwindOf(m, sign) THEN UpwindRoof(s) ELSE DownwindRoof(s))
                /\ e = (IF UpwindOf(n, -sign) THEN UpwindRoof(s) ELSE DownwindRoof(s))
   BY SidesTurned
 <2>3. /\ RoofAcross(b, s, c, sign, inside, m)
            = FaceLoad(c, m, "roof", "roof", e, inside, area, width, <<p, 0, r>>)
       /\ RoofAcross(b, s, d, -sign, inside, n)
            = FaceLoad(d, n, "roof", "roof", e, inside, area, width, <<-p, 0, r>>)
   BY <1>2, <2>1, <2>2 DEF RoofAcross
 <2> QED BY <2>3, FaceTwins
<1> QED BY <1>1, <1>3, <1>4

----
(* Along.                                                                  *)

----
(* Along.                                                                  *)

\* The first and the last frame, by their places.
GablesAt(b, f, l) == f = FirstFrame(b) /\ l = LastFrame(b) /\ f \in Int /\ l \in Int /\ f # l

\* A measured building has two ends.
LEMMA SomeEnds ==
    ASSUME NEW b, NEW s, NEW axis, Mirrors(b, s, axis)
    PROVE  \E f, l : GablesAt(b, f, l)
<1>1. FirstFrame(b) \in Int /\ LastFrame(b) \in Int
  BY FramesAre, Extremes DEF Mirrors, Fits, FirstFrame, LastFrame
<1>2. LastFrame(b) - FirstFrame(b) # 0
  BY MeasuresAre DEF Mirrors, Fits
<1>3. FirstFrame(b) # LastFrame(b)
  BY <1>1, <1>2
<1> QED BY <1>1, <1>3 DEF GablesAt

\* The image of a frame is a frame.
LEMMA FramesMirrored ==
    ASSUME NEW b, NEW s, Mirrors(b, s, "y"), NEW f, NEW l, GablesAt(b, f, l), NEW y \in FramesAt(b)
    PROVE  y \in Int /\ \A k : k = f + l => k - y \in FramesAt(b) /\ k - (k - y) = y
<1>0. b \in Sheds
  BY DEF Mirrors
<1>1. PICK m \in Framing(b) : m.y = y
  BY DEF FramesAt
<1>2. PICK n \in Framing(b) : Mirrored(b, "y", m, n)
  BY DEF Mirrors, Symmetric
<1>3. m.y + n.y = f + l /\ m.y \in Int /\ n.y \in Int
  BY <1>0, <1>2, EndsMirrored, MembersAre DEF GablesAt
<1>4. n.y = f + l - y
  BY <1>1, <1>3 DEF GablesAt
<1>5. n.y \in FramesAt(b)
  BY <1>0, FramesAre
<1> QED BY <1>1, <1>3, <1>4, <1>5 DEF GablesAt

\* The greatest of some numbers is the image of the least of their images.
LEMMA ExtremesMirrored ==
    ASSUME NEW S \in SUBSET Int, IsFiniteSet(S), NEW T \in SUBSET Int, IsFiniteSet(T), NEW k \in Int,
           \A x \in S : k - x \in T, \A x \in T : k - x \in S
    PROVE  /\ S = {} <=> T = {}
           /\ S # {} => Max(S) = k - Min(T)
<1>1. S = {} <=> T = {}
  OBVIOUS
<1>2. ASSUME S # {} PROVE Max(S) = k - Min(T)
 <2>1. PICK a \in S : a = Max(S) /\ \A y \in S : y <= a
   BY <1>2, Extremes
 <2>2. PICK c \in T : c = Min(T) /\ \A y \in T : c <= y
   BY <1>1, <1>2, Extremes
 <2>3. k - c <= a /\ c <= k - a
   BY <2>1, <2>2
 <2>4. a = k - c
   BY <2>3
 <2> QED BY <2>1, <2>2, <2>4
<1> QED BY <1>1, <1>2

\* The strips of a frame and its image are alike.
LEMMA StripsMirrored ==
    ASSUME NEW b, NEW s, Mirrors(b, s, "y"), NEW f, NEW l, GablesAt(b, f, l), NEW y \in Int, NEW z \in Int,
           z = f + l - y
    PROVE  TwiceStrip(b, z) = TwiceStrip(b, y)
<1> DEFINE Before(w) == {g \in FramesAt(b) : g < w}
           After(w) == {g \in FramesAt(b) : g > w}
           k == f + l
<1>0. b \in Sheds /\ k \in Int
  BY DEF Mirrors, GablesAt
<1>00. \A x \in FramesAt(b) : x \in Int /\ k - x \in FramesAt(b) /\ k - (k - x) = x
 <2> SUFFICES ASSUME NEW x \in FramesAt(b)
              PROVE  x \in Int /\ k - x \in FramesAt(b) /\ k - (k - x) = x
   OBVIOUS
 <2>1. \A j : j = f + l => j - x \in FramesAt(b) /\ j - (j - x) = x
   BY FramesMirrored
 <2>2. x \in Int
   BY FramesMirrored
 <2> QED BY <2>1, <2>2, Zenon
<1>1. ASSUME NEW w \in Int
      PROVE  /\ Before(w) \in SUBSET Int /\ IsFiniteSet(Before(w))
             /\ After(w) \in SUBSET Int /\ IsFiniteSet(After(w))
             /\ TwiceStrip(b, w) = (IF Before(w) = {} THEN 0 ELSE w - Max(Before(w)))
                                   + (IF After(w) = {} THEN 0 ELSE Min(After(w)) - w)
 <2>1. Before(w) \in SUBSET FramesAt(b) /\ After(w) \in SUBSET FramesAt(b)
   OBVIOUS
 <2>2. TwiceStrip(b, w) = (IF Before(w) = {} THEN 0 ELSE w - Max(Before(w)))
                                  + (IF After(w) = {} THEN 0 ELSE Min(After(w)) - w)
   BY DEF TwiceStrip
 <2> HIDE DEF Before, After
 <2> QED BY <1>0, <2>1, <2>2, FramesAre, FS_Subset
<1>2. ASSUME NEW u \in Int, NEW w \in Int, u = k - w
      PROVE  /\ Before(u) = {} <=> After(w) = {}
             /\ Before(u) # {} => Max(Before(u)) = k - Min(After(w))
 <2>1. \A x \in Before(u) : k - x \in After(w)
  <3> SUFFICES ASSUME NEW x \in Before(u) PROVE k - x \in After(w)
    OBVIOUS
  <3>1. x \in Int /\ k - x \in FramesAt(b) /\ x < k - w
    BY <1>00, <1>2
  <3> QED BY <1>0, <3>1
 <2>2. \A x \in After(w) : k - x \in Before(u)
  <3> SUFFICES ASSUME NEW x \in After(w) PROVE k - x \in Before(u)
    OBVIOUS
  <3>1. x \in Int /\ k - x \in FramesAt(b) /\ x > w
    BY <1>00
  <3> QED BY <1>0, <1>2, <3>1
 <2>3. PICK S, T : S = Before(u) /\ T = After(w)
   OBVIOUS
 <2> HIDE DEF Before, After, k
 <2>4. /\ S \in SUBSET Int /\ IsFiniteSet(S) /\ T \in SUBSET Int /\ IsFiniteSet(T)
       /\ \A x \in S : k - x \in T
       /\ \A x \in T : k - x \in S
   BY <1>1, <2>1, <2>2, <2>3
 <2>5. (S = {} <=> T = {}) /\ (S # {} => Max(S) = k - Min(T))
   BY <1>0, <2>4, ExtremesMirrored
 <2> QED BY <2>3, <2>5
<1>3. y = k - z /\ z = k - y
  BY DEF GablesAt
<1>4. ASSUME NEW w \in Int, After(w) # {} PROVE Min(After(w)) \in Int
 <2> HIDE DEF After
 <2> QED BY <1>1, <1>4, Extremes
<1> HIDE DEF Before, After, k
<1>5. /\ Before(z) = {} <=> After(y) = {}
      /\ Before(z) # {} => Max(Before(z)) = k - Min(After(y))
  BY <1>2, <1>3
<1>6. /\ Before(y) = {} <=> After(z) = {}
      /\ Before(y) # {} => Max(Before(y)) = k - Min(After(z))
  BY <1>2, <1>3
<1>7. /\ TwiceStrip(b, y) = (IF Before(y) = {} THEN 0 ELSE y - Max(Before(y)))
                            + (IF After(y) = {} THEN 0 ELSE Min(After(y)) - y)
      /\ TwiceStrip(b, z) = (IF Before(z) = {} THEN 0 ELSE z - Max(Before(z)))
                            + (IF After(z) = {} THEN 0 ELSE Min(After(z)) - z)
  BY <1>1
<1>8. PICK p, q : p = Min(After(y)) /\ q = Min(After(z))
  OBVIOUS
<1>9. (After(y) # {} => p \in Int) /\ (After(z) # {} => q \in Int)
  BY <1>4, <1>8
<1> QED BY <1>0, <1>3, <1>5, <1>6, <1>7, <1>8, <1>9

\* A frame is as far from the windward edge as its image is under the opposite wind.
LEMMA DistanceMirrored ==
    ASSUME NEW b, NEW s, Mirrors(b, s, "y"), NEW f, NEW l, GablesAt(b, f, l), NEW y \in Int, NEW z \in Int,
           z = f + l - y, NEW sign \in Signs
    PROVE  StripDistance(b, z, -sign) = StripDistance(b, y, sign)
<1>1. PICK t : t = TwiceStrip(b, y) /\ t = TwiceStrip(b, z)
  BY StripsMirrored
<1>2. FirstFrame(b) = f /\ LastFrame(b) = l /\ f \in Int /\ l \in Int
  BY DEF GablesAt
<1>3. CASE sign = 1
  BY <1>1, <1>2, <1>3 DEF StripDistance
<1>4. CASE sign = -1
 <2>1. PICK r \in Int : r = -sign /\ r = 1 /\ sign # 1
   BY <1>4
 <2>2. StripDistance(b, z, r) = 2 * (z - f) + t \div 2
   BY <1>1, <1>2, <2>1 DEF StripDistance
 <2>3. StripDistance(b, y, sign) = 2 * (l - y) + t \div 2
   BY <1>1, <1>2, <2>1 DEF StripDistance
 <2>4. z - f = l - y
   BY <1>2
 <2> QED BY <2>1, <2>2, <2>3, <2>4
<1> QED BY <1>3, <1>4 DEF Signs

\* Opposite winds along have the same pressures inside, as openings have images.
LEMMA InsideMirrored ==
    ASSUME NEW b, NEW s, Mirrors(b, s, "y"), NEW site, NEW sign \in Signs
    PROVE  InsideAlong(b, site, s, -sign) = InsideAlong(b, site, s, sign)
<1>1. PICK f, l : GablesAt(b, f, l)
  BY SomeEnds
<1> DEFINE Values(g) == {StripRoof(StripDistance(b, y, g), s) : y \in FramesAt(b)}
<1>2. ASSUME NEW g \in Signs PROVE Values(g) \subseteq Values(-g)
 <2>1. ASSUME NEW y \in FramesAt(b) PROVE StripRoof(StripDistance(b, y, g), s) \in Values(-g)
  <3>1. PICK z \in FramesAt(b) : z = f + l - y
   <4>1. PICK k : k = f + l
     OBVIOUS
   <4>2. \A j : j = f + l => j - y \in FramesAt(b) /\ j - (j - y) = y
     BY <1>1, FramesMirrored
   <4>3. y \in Int
     BY FramesAre DEF Mirrors
   <4>4. k - y \in FramesAt(b)
     BY <4>1, <4>2
   <4>5. k - y = f + l - y
     BY <1>1, <4>1, <4>3 DEF GablesAt
   <4> QED BY <4>4, <4>5
  <3>2. y \in Int /\ z \in Int
    BY FramesAre DEF Mirrors
  <3>3. StripDistance(b, z, -g) = StripDistance(b, y, g)
    BY <1>1, <3>1, <3>2, DistanceMirrored
  <3> QED BY <3>3
 <2> QED BY <2>1
<1>3. Values(-sign) = Values(sign)
 <2>1. -sign \in Signs /\ -(-sign) = sign
   BY SignsAre
 <2>2. Values(-sign) \subseteq Values(-(-sign)) /\ Values(sign) \subseteq Values(-sign)
  <3> HIDE DEF Values
  <3> QED BY <1>2, <2>1
 <2> HIDE DEF Values
 <2> QED BY <2>1, <2>2
<1>4. OpenSurfaces(b, site, "y", -sign) = OpenSurfaces(b, site, "y", sign)
 <2>1. f \in OpenFrames(b) <=> l \in OpenFrames(b)
  <3>1. f + l - f = l
    BY <1>1 DEF GablesAt
  <3> QED BY <1>1, <3>1 DEF GablesAt, Mirrors, Symmetric
 <2>2. FirstFrame(b) = f /\ LastFrame(b) = l
   BY <1>1 DEF GablesAt
 <2>3. \A o : (IF (o = "windward") = (-sign = 1) THEN FirstFrame(b) ELSE LastFrame(b)) \in OpenFrames(b)
               <=> (IF (o = "windward") = (sign = 1) THEN FirstFrame(b) ELSE LastFrame(b)) \in OpenFrames(b)
   BY <2>1, <2>2
 <2> DEFINE Held(g) == {o \in {"windward", "leeward"} :
                (IF (o = "windward") = (g = 1) THEN FirstFrame(b) ELSE LastFrame(b)) \in OpenFrames(b)}
 <2>4. Held(-sign) = Held(sign)
   BY <2>3
 <2>5. \A g : OpenSurfaces(b, site, "y", g) =
          IF Sealed(site) THEN {} ELSE IF OpenFrames(b) = {} THEN Openings ELSE Held(g)
   BY DEF OpenSurfaces
 <2> HIDE DEF Held
 <2> QED BY <2>4, <2>5
<1>5. \A g : InsideAlong(b, site, s, g) =
         InternalPressures(OpenSurfaces(b, site, "y", g), LeewardAlong(s), Min(Values(g)))
  BY Zenon DEF InsideAlong
<1> HIDE DEF Values
<1> QED BY <1>3, <1>4, <1>5

\* What a member and its image along the building have in common.
LEMMA AlongAlike ==
    ASSUME NEW b, NEW s, Mirrors(b, s, "y"), NEW sign \in Signs,
           NEW m \in Framing(b), NEW n \in Framing(b), Mirrored(b, "y", m, n)
    PROVE  /\ AreaOf(b, n) = AreaOf(b, m) /\ TwiceStrip(b, n.y) = TwiceStrip(b, m.y)
           /\ n.length = m.length /\ TriangleOf(n) = TriangleOf(m)
           /\ \E p \in Int, r \in Int : RoofOut(m) = <<p, 0, r>> /\ RoofOut(n) = <<p, 0, r>>
           /\ StripDistance(b, n.y, -sign) = StripDistance(b, m.y, sign)
           /\ n.y \in EndFrames(b) <=> m.y \in EndFrames(b)
           /\ n.y = WindwardEnd(b, -sign) <=> m.y = WindwardEnd(b, sign)
           /\ m.y \in EndFrames(b) =>
                 \E q \in Int : GableOut(b, m.y) = <<0, q, 0>> /\ GableOut(b, n.y) = <<0, -q, 0>>
<1>0. b \in Sheds /\ \A j \in Framing(b) : ~j.skewed
  BY DEF Mirrors, Fits
<1>1. PICK f, l : GablesAt(b, f, l)
  BY SomeEnds
<1>2. m.y \in Int /\ n.y \in Int /\ f \in Int /\ l \in Int /\ f # l
  BY <1>0, <1>1, MembersAre DEF GablesAt
<1>3. FirstFrame(b) = f /\ LastFrame(b) = l /\ m.y + n.y = f + l
  BY <1>0, <1>1, EndsMirrored DEF GablesAt
<1>4. PICK y \in Int, z \in Int : y = m.y /\ z = n.y /\ z = f + l - y
  BY <1>2, <1>3
<1>5. /\ n.length = m.length
      /\ m.x1 + m.x2 \in Int /\ n.x1 + n.x2 = Way("y") * (m.x1 + m.x2)
      /\ Magnitude(n.x2 - n.x1) = Magnitude(m.x2 - m.x1) /\ Magnitude(n.x2 - n.x1) \in Int
      /\ Magnitude(n.z2 - n.z1) = Magnitude(m.z2 - m.z1) /\ Magnitude(n.z2 - n.z1) \in Int
  BY <1>0, MirroredAre
<1>6. TwiceStrip(b, n.y) = TwiceStrip(b, m.y)
  BY <1>1, <1>4, StripsMirrored
<1>7. AreaOf(b, n) = AreaOf(b, m) /\ TriangleOf(n) = TriangleOf(m)
  BY <1>5, <1>6 DEF AreaOf, TriangleOf
<1>8. \E p \in Int, r \in Int : RoofOut(m) = <<p, 0, r>> /\ RoofOut(n) = <<p, 0, r>>
 <2>1. PICK u \in Int, r \in Int :
         /\ u = Magnitude(m.z2 - m.z1) /\ u = Magnitude(n.z2 - n.z1)
         /\ r = Magnitude(m.x2 - m.x1) /\ r = Magnitude(n.x2 - n.x1)
   BY <1>5
 <2>2. LeftOf(n) <=> LeftOf(m)
   BY <1>5 DEF LeftOf, Way
 <2>3. CASE LeftOf(m)
  <3>1. RoofOut(m) = <<-u, 0, r>> /\ RoofOut(n) = <<-u, 0, r>> /\ -u \in Int
    BY <2>1, <2>2, <2>3 DEF RoofOut
  <3> QED BY <3>1
 <2>4. CASE ~LeftOf(m)
  <3>1. RoofOut(m) = <<u, 0, r>> /\ RoofOut(n) = <<u, 0, r>>
    BY <2>1, <2>2, <2>4 DEF RoofOut
  <3> QED BY <3>1
 <2> QED BY <2>3, <2>4
<1>9. StripDistance(b, n.y, -sign) = StripDistance(b, m.y, sign)
  BY <1>1, <1>4, DistanceMirrored
<1>10. (z = f <=> y = l) /\ (z = l <=> y = f)
  BY <1>2, <1>4
<1>11. n.y \in EndFrames(b) <=> m.y \in EndFrames(b)
  BY <1>3, <1>4, <1>10 DEF EndFrames
<1>12. n.y = WindwardEnd(b, -sign) <=> m.y = WindwardEnd(b, sign)
 <2>1. (sign = 1 <=> ~(-sign = 1))
   BY DEF Signs
 <2> QED BY <1>3, <1>4, <1>10, <2>1 DEF WindwardEnd
<1>13. ASSUME m.y \in EndFrames(b)
       PROVE  \E q \in Int : GableOut(b, m.y) = <<0, q, 0>> /\ GableOut(b, n.y) = <<0, -q, 0>>
 <2>1. y = f \/ y = l
   BY <1>3, <1>4, <1>13 DEF EndFrames
 <2>2. CASE y = f
  <3>1. GableOut(b, m.y) = <<0, -1, 0>> /\ GableOut(b, n.y) = <<0, 1, 0>>
    BY <1>2, <1>3, <1>4, <1>10, <2>2 DEF GableOut
  <3>2. PICK q \in Int : q = -1 /\ -q = 1
    OBVIOUS
  <3> QED BY <3>1, <3>2
 <2>3. CASE y = l
  <3>1. GableOut(b, m.y) = <<0, 1, 0>> /\ GableOut(b, n.y) = <<0, -1, 0>>
    BY <1>2, <1>3, <1>4, <1>10, <2>3 DEF GableOut
  <3>2. PICK q \in Int : q = 1 /\ -q = -1
    OBVIOUS
  <3> QED BY <3>1, <3>2
 <2> QED BY <2>1, <2>2, <2>3
<1> QED BY <1>5, <1>6, <1>7, <1>8, <1>9, <1>11, <1>12, <1>13

\* Gables under opposite winds along are twins.
LEMMA GableTwins ==
    ASSUME NEW b, NEW s, Mirrors(b, s, "y"), NEW c, NEW d, NEW sign \in Signs, NEW inside,
           NEW m \in Framing(b), NEW n \in Framing(b), Mirrored(b, "y", m, n), m.y \in EndFrames(b),
           NEW part, NEW area, NEW width
    PROVE  Twins(Gable(b, s, c, sign, inside, m, part, area, width),
                 Gable(b, s, d, -sign, inside, n, part, area, width), 2)
<1>1. PICK q \in Int : GableOut(b, m.y) = <<0, q, 0>> /\ GableOut(b, n.y) = <<0, -q, 0>>
  BY AlongAlike
<1>2. n.y = WindwardEnd(b, -sign) <=> m.y = WindwardEnd(b, sign)
  BY AlongAlike
<1>3. PICK kind, e :
        /\ Gable(b, s, c, sign, inside, m, part, area, width)
             = FaceLoad(c, m, part, kind, e, inside, area, width, <<0, q, 0>>)
        /\ Gable(b, s, d, -sign, inside, n, part, area, width)
             = FaceLoad(d, n, part, kind, e, inside, area, width, <<0, -q, 0>>)
 <2>1. CASE m.y = WindwardEnd(b, sign)
   BY <1>1, <1>2, <2>1 DEF Gable
 <2>2. CASE m.y # WindwardEnd(b, sign)
   BY <1>1, <1>2, <2>2 DEF Gable
 <2> QED BY <2>1, <2>2
<1> QED BY <1>3, FaceTwins

\* Gables and roofs under opposite winds along are twins.
LEMMA AlongTwins ==
    ASSUME NEW b, NEW s, Mirrors(b, s, "y"), NEW site, NEW c, NEW d, NEW sign \in Signs,
           NEW m \in Framing(b), NEW n \in Framing(b), Mirrored(b, "y", m, n)
    PROVE  /\ m.y \in EndFrames(b) =>
                 /\ Twins(GableWall(b, s, c, sign, InsideAlong(b, site, s, sign), m),
                          GableWall(b, s, d, -sign, InsideAlong(b, site, s, -sign), n), 2)
                 /\ Twins(GableTop(b, s, c, sign, InsideAlong(b, site, s, sign), m),
                          GableTop(b, s, d, -sign, InsideAlong(b, site, s, -sign), n), 2)
           /\ Twins(RoofAlong(b, s, c, sign, InsideAlong(b, site, s, sign), m),
                    RoofAlong(b, s, d, -sign, InsideAlong(b, site, s, -sign), n), 2)
<1>1. PICK inside : inside = InsideAlong(b, site, s, sign) /\ inside = InsideAlong(b, site, s, -sign)
  BY InsideMirrored
<1>2. /\ AreaOf(b, n) = AreaOf(b, m) /\ TwiceStrip(b, n.y) = TwiceStrip(b, m.y)
      /\ n.length = m.length /\ TriangleOf(n) = TriangleOf(m)
      /\ StripDistance(b, n.y, -sign) = StripDistance(b, m.y, sign)
  BY AlongAlike
<1>3. ASSUME m.y \in EndFrames(b)
      PROVE  /\ Twins(GableWall(b, s, c, sign, inside, m), GableWall(b, s, d, -sign, inside, n), 2)
             /\ Twins(GableTop(b, s, c, sign, inside, m), GableTop(b, s, d, -sign, inside, n), 2)
 <2>1. PICK wall, triangle, width :
         /\ wall = (m.length * s.width) \div 2 /\ wall = (n.length * s.width) \div 2
         /\ triangle = TriangleOf(m) /\ triangle = TriangleOf(n)
         /\ width = (2 * TriangleOf(m)) \div m.length /\ width = (2 * TriangleOf(n)) \div n.length
   BY <1>2
 <2>2. /\ GableWall(b, s, c, sign, inside, m)
            = Gable(b, s, c, sign, inside, m, "gable-wall", wall, s.width)
       /\ GableWall(b, s, d, -sign, inside, n)
            = Gable(b, s, d, -sign, inside, n, "gable-wall", wall, s.width)
       /\ GableTop(b, s, c, sign, inside, m)
            = Gable(b, s, c, sign, inside, m, "gable", triangle, width)
       /\ GableTop(b, s, d, -sign, inside, n)
            = Gable(b, s, d, -sign, inside, n, "gable", triangle, width)
   BY <2>1 DEF GableWall, GableTop
 <2>3. /\ Twins(Gable(b, s, c, sign, inside, m, "gable-wall", wall, s.width),
                Gable(b, s, d, -sign, inside, n, "gable-wall", wall, s.width), 2)
       /\ Twins(Gable(b, s, c, sign, inside, m, "gable", triangle, width),
                Gable(b, s, d, -sign, inside, n, "gable", triangle, width), 2)
   BY <1>3, GableTwins
 <2> QED BY <2>2, <2>3
<1>4. Twins(RoofAlong(b, s, c, sign, inside, m), RoofAlong(b, s, d, -sign, inside, n), 2)
 <2>1. PICK p \in Int, r \in Int : RoofOut(m) = <<p, 0, r>> /\ RoofOut(n) = <<p, 0, r>>
   BY AlongAlike
 <2>2. PICK e, area, width :
         /\ e = StripRoof(StripDistance(b, m.y, sign), s) /\ e = StripRoof(StripDistance(b, n.y, -sign), s)
         /\ area = AreaOf(b, m) /\ area = AreaOf(b, n)
         /\ width = TwiceStrip(b, m.y) /\ width = TwiceStrip(b, n.y)
   BY <1>2
 <2>3. PICK z \in Int : z = 0 /\ -z = 0
   OBVIOUS
 <2>4. /\ RoofAlong(b, s, c, sign, inside, m)
            = FaceLoad(c, m, "roof", "roof", e, inside, area, width, <<p, z, r>>)
       /\ RoofAlong(b, s, d, -sign, inside, n)
            = FaceLoad(d, n, "roof", "roof", e, inside, area, width, <<p, -z, r>>)
   BY <2>1, <2>2, <2>3 DEF RoofAlong
 <2> QED BY <2>4, FaceTwins
<1> QED BY <1>1, <1>3, <1>4

----
(* Twins.                                                                  *)

\* Every wind has an opposite one.
LEMMA SomeOpposite ==
    ASSUME NEW c \in WindCases
    PROVE  \E d \in WindCases :
              /\ d.id = Turned(c.id, 4) /\ d.id[3] = c.id[3]
              /\ d.role[3] = d.id[3] /\ c.role[3] = c.id[3]
              /\ c.role[4] \in Signs /\ d.role[4] = -c.role[4]
<1>1. PICK e \in Events, a \in {"x", "y"}, s \in Signs :
         c.id = WindRole(e, a, s) /\ c.role = c.id
  BY WindCasesAre
<1>2. PICK t \in Signs : t = -s
  BY SignsAre
<1>3. PICK d : d = ActionCase(WindRole(e, a, t), WindRole(e, a, t), "none")
  OBVIOUS
<1>4. d \in WindCases
  BY <1>3, WindCasesAre
<1>5. d.id = <<"wind", e, a, t>> /\ d.role = <<"wind", e, a, t>>
  BY <1>3 DEF ActionCase, WindRole
<1>6. c.id = <<"wind", e, a, s>> /\ c.role = <<"wind", e, a, s>>
  BY <1>1 DEF WindRole
<1>7. Turned(<<"wind", e, a, s>>, 4) = <<"wind", e, a, t>>
  BY <1>2 DEF Turned
<1> QED BY <1>2, <1>4, <1>5, <1>6, <1>7

\* The load of the opposite wind on the mirror image of a load's member.
LEMMA SomeTwin ==
    ASSUME NEW b, NEW s, NEW axis, Mirrors(b, s, axis), NEW site,
           NEW r \in AllLoads(b, site, s), r.kind = "wind", r.case[3] = axis
    PROVE  \E k \in AllLoads(b, site, s), m \in Framing(b), n \in Framing(b) :
              /\ r.member = m.id /\ k.member = n.id /\ Mirrored(b, axis, m, n)
              /\ k.case = Turned(r.case, 4)
              /\ Twins(r, k, IF axis = "x" THEN 1 ELSE 2)
<1>0. b \in Sheds /\ axis \in {"x", "y"} /\ \A m \in Framing(b) : \E n \in Framing(b) : Mirrored(b, axis, m, n)
  BY DEF Mirrors, Symmetric
<1>1. ~\E m \in With(b, "rafter") : r = RoofLoad(b, m)
  BY RoofLoadIs
<1>2. ASSUME NEW c \in WindCases, c.role[3] = "x", AcrossPart(b, site, s, c, r)
      PROVE  r.case = c.id /\ c.id[3] = "x"
  BY <1>2, PartsName, WindCasesAre DEF AcrossPart
<1>3. ASSUME NEW c \in WindCases, c.role[3] = "y", AlongPart(b, site, s, c, r)
      PROVE  r.case = c.id /\ c.id[3] = "y"
  BY <1>3, PartsName, WindCasesAre DEF AlongPart, GablePart
<1>4. CASE axis = "x"
 <2>1. PICK c \in WindCases : c.role[3] = "x" /\ AcrossPart(b, site, s, c, r)
   BY <1>1, <1>3, <1>4, AllByPart
 <2>2. PICK d \in WindCases :
         /\ d.id = Turned(c.id, 4) /\ d.role[3] = "x"
         /\ c.role[4] \in Signs /\ d.role[4] = -c.role[4]
   BY <2>1, SomeOpposite
 <2>3. PICK sign \in Signs : sign = c.role[4] /\ d.role[4] = -sign
   BY <2>2
 <2> DEFINE inside == InsideAcross(b, site, s, sign)
            turned == InsideAcross(b, site, s, -sign)
 <2>4. \/ \E m \in With(b, "column") : r = WallAcross(b, s, c, sign, inside, m)
       \/ \E m \in With(b, "rafter") : r = RoofAcross(b, s, c, sign, inside, m)
   BY <2>1, <2>3, Zenon DEF AcrossPart
 <2>5. CASE \E m \in With(b, "column") : r = WallAcross(b, s, c, sign, inside, m)
  <3>1. PICK m \in With(b, "column") : r = WallAcross(b, s, c, sign, inside, m)
    BY <2>5
  <3>2. m \in Framing(b)
    BY DEF Framing
  <3>3. PICK n \in Framing(b) : Mirrored(b, "x", m, n)
    BY <1>0, <1>4, <3>2
  <3>4. n \in With(b, "column")
    BY <3>3 DEF Mirrored, Framing, With
  <3>5. PICK k : k = WallAcross(b, s, d, -sign, turned, n)
    OBVIOUS
  <3>6. k \in AllLoads(b, site, s)
   <4>1. AcrossPart(b, site, s, d, k)
     BY <2>3, <3>4, <3>5, Zenon DEF AcrossPart
   <4> QED BY <2>2, <4>1, AllByPart
  <3>7. Twins(r, k, 1)
    BY <1>4, <3>1, <3>2, <3>3, <3>5, AcrossTwins
  <3>8. r.member = m.id /\ k.member = n.id /\ k.case = Turned(r.case, 4)
    BY <2>2, <3>1, <3>5, PartsName
  <3> QED BY <1>4, <3>2, <3>3, <3>6, <3>7, <3>8
 <2>6. CASE \E m \in With(b, "rafter") : r = RoofAcross(b, s, c, sign, inside, m)
  <3>1. PICK m \in With(b, "rafter") : r = RoofAcross(b, s, c, sign, inside, m)
    BY <2>6
  <3>2. m \in Framing(b)
    BY DEF Framing
  <3>3. PICK n \in Framing(b) : Mirrored(b, "x", m, n)
    BY <1>0, <1>4, <3>2
  <3>4. n \in With(b, "rafter")
    BY <3>3 DEF Mirrored, Framing, With
  <3>5. PICK k : k = RoofAcross(b, s, d, -sign, turned, n)
    OBVIOUS
  <3>6. k \in AllLoads(b, site, s)
   <4>1. AcrossPart(b, site, s, d, k)
     BY <2>3, <3>4, <3>5, Zenon DEF AcrossPart
   <4> QED BY <2>2, <4>1, AllByPart
  <3>7. Twins(r, k, 1)
    BY <1>4, <3>1, <3>2, <3>3, <3>5, AcrossTwins
  <3>8. r.member = m.id /\ k.member = n.id /\ k.case = Turned(r.case, 4)
    BY <2>2, <3>1, <3>5, PartsName
  <3> QED BY <1>4, <3>2, <3>3, <3>6, <3>7, <3>8
 <2> QED BY <2>4, <2>5, <2>6
<1>5. CASE axis = "y"
 <2>1. PICK c \in WindCases : c.role[3] = "y" /\ AlongPart(b, site, s, c, r)
   BY <1>1, <1>2, <1>5, AllByPart
 <2>2. PICK d \in WindCases :
         /\ d.id = Turned(c.id, 4) /\ d.role[3] = "y"
         /\ c.role[4] \in Signs /\ d.role[4] = -c.role[4]
   BY <2>1, SomeOpposite
 <2>3. PICK sign \in Signs : sign = c.role[4] /\ d.role[4] = -sign
   BY <2>2
 <2> DEFINE inside == InsideAlong(b, site, s, sign)
            turned == InsideAlong(b, site, s, -sign)
            Wall(m) == m \in With(b, "column") /\ m.y \in EndFrames(b)
                       /\ r = GableWall(b, s, c, sign, inside, m)
            Top(m) == m \in With(b, "rafter") /\ m.y \in EndFrames(b) /\ Rises(m)
                       /\ r = GableTop(b, s, c, sign, inside, m)
            Roof(m) == m \in With(b, "rafter") /\ r = RoofAlong(b, s, c, sign, inside, m)
 <2>4. \E m : Wall(m) \/ Top(m) \/ Roof(m)
   BY <2>1, <2>3, Zenon DEF AlongPart, GablePart
 <2>5. PICK m : Wall(m) \/ Top(m) \/ Roof(m)
   BY <2>4
 <2>6. m \in Framing(b)
   BY <2>5 DEF Framing
 <2>7. PICK n \in Framing(b) : Mirrored(b, "y", m, n)
   BY <1>0, <1>5, <2>6
 <2>8. n.role = m.role /\ (\A role \in {"column", "rafter"} : m \in With(b, role) => n \in With(b, role))
   BY <2>7 DEF Mirrored, Framing, With
 <2>9. (n.y \in EndFrames(b) <=> m.y \in EndFrames(b)) /\ (Rises(n) <=> Rises(m))
  <3>1. b \in Sheds /\ \A j \in Framing(b) : ~j.skewed
    BY DEF Mirrors, Fits
  <3> QED BY <1>5, <2>6, <2>7, <3>1, AlongAlike, MirroredAre
 <2>10. CASE Wall(m)
  <3>1. PICK k : k = GableWall(b, s, d, -sign, turned, n)
    OBVIOUS
  <3>2. k \in AllLoads(b, site, s)
   <4>1. n \in With(b, "column") /\ n.y \in EndFrames(b)
     BY <2>8, <2>9, <2>10
   <4>2. AlongPart(b, site, s, d, k)
     BY <2>3, <3>1, <4>1, Zenon DEF AlongPart, GablePart
   <4> QED BY <2>2, <4>2, AllByPart
  <3>3. Twins(r, k, 2)
    BY <1>5, <2>6, <2>7, <2>10, <3>1, AlongTwins
  <3>4. r.member = m.id /\ k.member = n.id /\ k.case = Turned(r.case, 4)
    BY <2>2, <2>10, <3>1, PartsName
  <3> QED BY <1>5, <2>6, <2>7, <3>2, <3>3, <3>4
 <2>11. CASE Top(m)
  <3>1. PICK k : k = GableTop(b, s, d, -sign, turned, n)
    OBVIOUS
  <3>2. k \in AllLoads(b, site, s)
   <4>1. n \in With(b, "rafter") /\ n.y \in EndFrames(b) /\ Rises(n)
     BY <2>8, <2>9, <2>11
   <4>2. AlongPart(b, site, s, d, k)
     BY <2>3, <3>1, <4>1, Zenon DEF AlongPart, GablePart
   <4> QED BY <2>2, <4>2, AllByPart
  <3>3. Twins(r, k, 2)
    BY <1>5, <2>6, <2>7, <2>11, <3>1, AlongTwins
  <3>4. r.member = m.id /\ k.member = n.id /\ k.case = Turned(r.case, 4)
    BY <2>2, <2>11, <3>1, PartsName
  <3> QED BY <1>5, <2>6, <2>7, <3>2, <3>3, <3>4
 <2>12. CASE Roof(m)
  <3>1. PICK k : k = RoofAlong(b, s, d, -sign, turned, n)
    OBVIOUS
  <3>2. k \in AllLoads(b, site, s)
   <4>1. n \in With(b, "rafter")
     BY <2>8, <2>12
   <4>2. AlongPart(b, site, s, d, k)
     BY <2>3, <3>1, <4>1, Zenon DEF AlongPart
   <4> QED BY <2>2, <4>2, AllByPart
  <3>3. Twins(r, k, 2)
    BY <1>5, <2>6, <2>7, <2>12, <3>1, AlongTwins
  <3>4. r.member = m.id /\ k.member = n.id /\ k.case = Turned(r.case, 4)
    BY <2>2, <2>12, <3>1, PartsName
  <3> QED BY <1>5, <2>6, <2>7, <3>2, <3>3, <3>4
 <2> QED BY <2>5, <2>10, <2>11, <2>12
<1> QED BY <1>0, <1>4, <1>5

\* Opposite winds load a symmetric building in mirror images.
LEMMA ShowsMirrored == ASSUME WindInv PROVE OppositeWindsMirror
<1> SUFFICES ASSUME phase = "combined", NEW axis \in {"x", "y"}, Symmetric(shed, axis),
                    NEW l \in surface, l.kind = "wind", l.case[3] = axis
             PROVE  \E k \in {j \in surface : j.kind = "wind" /\ j.case[3] = axis} :
                       /\ k.case = Turned(l.case, 4)
                       /\ Mirrored(shed, axis, CHOOSE n \in shed.members : n.id = l.member,
                                   CHOOSE n \in shed.members : n.id = k.member)
                       /\ k.id[3] = l.id[3] /\ k.net = l.net /\ k.area = l.area
                       /\ k.toward = Turned(l.toward, IF axis = "x" THEN 1 ELSE 2)
  BY Zenon DEF OppositeWindsMirror, Turned
<1>0. Carried /\ shed \in Sheds
  BY DEF WindInv, SurfaceStands
<1>1. Mirrors(shed, shape, axis)
  BY <1>0 DEF Mirrors, Carried
<1> DEFINE site == where[1]
           at == IF axis = "x" THEN 1 ELSE 2
<1>2. PICK r \in AllLoads(shed, site, shape) : l = Overlaid(r, site)
  BY <1>0 DEF Carried
<1>3. /\ l.id = r.id /\ l.kind = r.kind /\ l.case = r.case /\ l.member = r.member
      /\ l.net = r.net /\ l.area = r.area /\ l.toward = r.toward
  BY <1>2, OverlaidIs
<1>4. PICK q \in AllLoads(shed, site, shape), m \in Framing(shed), n \in Framing(shed) :
         /\ r.member = m.id /\ q.member = n.id /\ Mirrored(shed, axis, m, n)
         /\ q.case = Turned(r.case, 4) /\ Twins(r, q, at)
  BY <1>1, <1>3, SomeTwin
<1>5. PICK k : k = Overlaid(q, site)
  OBVIOUS
<1>6. /\ k.id = q.id /\ k.kind = q.kind /\ k.case = q.case /\ k.member = q.member
      /\ k.net = q.net /\ k.area = q.area /\ k.toward = q.toward
  BY <1>5, OverlaidIs
<1>7. k \in surface
  BY <1>0, <1>5 DEF Carried
<1>8. k.kind = "wind" /\ k.id[3] = l.id[3] /\ k.net = l.net /\ k.area = l.area /\ k.toward = Turned(l.toward, at)
  BY <1>3, <1>4, <1>6 DEF Twins
<1>9. k.case = Turned(l.case, 4)
  BY <1>3, <1>4, <1>6
<1>10. k.case[3] = axis
 <2>1. PICK c \in WindCases, i \in Framing(shed) : OnMember(r, c, i)
   BY <1>3, LoadsAre, RoofLoadIs
 <2>2. l.case = c.id
   BY <1>3, <2>1, FaceLoadIs DEF OnMember
 <2>3. PICK d \in WindCases : d.id = Turned(c.id, 4) /\ d.id[3] = c.id[3]
   BY SomeOpposite
 <2> QED BY <1>9, <2>2, <2>3
<1>11. (CHOOSE i \in shed.members : i.id = l.member) = m /\ (CHOOSE i \in shed.members : i.id = k.member) = n
 <2>1. m \in shed.members /\ n \in shed.members /\ \A i, j \in shed.members : i.id = j.id => i = j
   BY <1>0, MembersAre
 <2> QED BY <1>3, <1>4, <1>6, <2>1
<1> HIDE DEF at
<1> QED BY <1>4, <1>7, <1>8, <1>9, <1>10, <1>11 DEF at

----
(* Strips of frames.                                                       *)

----
(* The strips of the frames.                                               *)

\* The frames on either side of one.
Before(b, y) == {f \in FramesAt(b) : f < y}
After(b, y) == {f \in FramesAt(b) : f > y}

\* Twice the ends of a frame's strip.
LowerEdge(b, y) == IF Before(b, y) = {} THEN 2 * y ELSE y + Max(Before(b, y))
UpperEdge(b, y) == IF After(b, y) = {} THEN 2 * y ELSE y + Min(After(b, y))

\* A frame's strip is the way between its edges.
LEMMA EdgesAre ==
    ASSUME NEW b \in Sheds, NEW y \in FramesAt(b)
    PROVE  /\ y \in Int /\ LowerEdge(b, y) \in Int /\ UpperEdge(b, y) \in Int
           /\ TwiceStrip(b, y) = UpperEdge(b, y) - LowerEdge(b, y)
           /\ LowerEdge(b, y) <= UpperEdge(b, y)
           /\ Before(b, y) # {} => Max(Before(b, y)) \in Before(b, y)
                                   /\ \A f \in Before(b, y) : f <= Max(Before(b, y))
           /\ After(b, y) # {} => Min(After(b, y)) \in After(b, y)
                                   /\ \A f \in After(b, y) : Min(After(b, y)) <= f
           /\ Before(b, y) \subseteq Int /\ After(b, y) \subseteq Int
<1>1. y \in Int /\ FramesAt(b) \in SUBSET Int /\ IsFiniteSet(FramesAt(b))
  BY FramesAre
<1>2. /\ Before(b, y) \in SUBSET Int /\ IsFiniteSet(Before(b, y))
      /\ After(b, y) \in SUBSET Int /\ IsFiniteSet(After(b, y))
 <2>1. Before(b, y) \in SUBSET FramesAt(b) /\ After(b, y) \in SUBSET FramesAt(b)
   BY DEF Before, After
 <2> QED BY <1>1, <2>1, FS_Subset
<1>3. Before(b, y) # {} => Max(Before(b, y)) \in Before(b, y)
                           /\ \A f \in Before(b, y) : f <= Max(Before(b, y))
  BY <1>2, Extremes
<1>4. After(b, y) # {} => Min(After(b, y)) \in After(b, y)
                          /\ \A f \in After(b, y) : Min(After(b, y)) <= f
  BY <1>2, Extremes
<1>5. /\ Before(b, y) # {} => Max(Before(b, y)) \in Int /\ Max(Before(b, y)) < y
      /\ After(b, y) # {} => Min(After(b, y)) \in Int /\ Min(After(b, y)) > y
  BY <1>2, <1>3, <1>4 DEF Before, After
<1>6. TwiceStrip(b, y) = (IF Before(b, y) = {} THEN 0 ELSE y - Max(Before(b, y)))
                         + (IF After(b, y) = {} THEN 0 ELSE Min(After(b, y)) - y)
  BY DEF TwiceStrip, Before, After
<1>7. PICK p, q : p = Max(Before(b, y)) /\ q = Min(After(b, y))
  OBVIOUS
<1>8. /\ LowerEdge(b, y) \in Int /\ UpperEdge(b, y) \in Int
      /\ TwiceStrip(b, y) = UpperEdge(b, y) - LowerEdge(b, y)
      /\ LowerEdge(b, y) <= UpperEdge(b, y)
  BY <1>1, <1>5, <1>6, <1>7 DEF LowerEdge, UpperEdge
<1> QED BY <1>1, <1>2, <1>3, <1>4, <1>8

\* A place, twice, is in the strip of a frame.
InStrip(b, y, p) == LowerEdge(b, y) < p /\ p <= UpperEdge(b, y)

\* No place is in the strips of two frames.
LEMMA StripsApart ==
    ASSUME NEW b \in Sheds, NEW y \in FramesAt(b), NEW z \in FramesAt(b), NEW p \in Int,
           InStrip(b, y, p), InStrip(b, z, p)
    PROVE  y = z
<1>1. ASSUME NEW u \in FramesAt(b), NEW v \in FramesAt(b), u < v, InStrip(b, u, p), InStrip(b, v, p)
      PROVE  FALSE
 <2>1. u \in Int /\ v \in Int
   BY EdgesAre
 <2>2. v \in After(b, u) /\ u \in Before(b, v)
   BY <1>1 DEF After, Before
 <2>3. PICK g \in Int : g = Min(After(b, u)) /\ g <= v
  <3>1. /\ \A f \in After(b, u) : Min(After(b, u)) <= f
        /\ Min(After(b, u)) \in After(b, u) /\ After(b, u) \subseteq Int
    BY <2>2, EdgesAre
  <3> QED BY <2>2, <3>1
 <2>4. PICK h \in Int : h = Max(Before(b, v)) /\ u <= h
  <3>1. /\ \A f \in Before(b, v) : f <= Max(Before(b, v))
        /\ Max(Before(b, v)) \in Before(b, v) /\ Before(b, v) \subseteq Int
    BY <2>2, EdgesAre
  <3> QED BY <2>2, <3>1
 <2>5. UpperEdge(b, u) = u + g /\ LowerEdge(b, v) = v + h
   BY <2>2, <2>3, <2>4 DEF UpperEdge, LowerEdge
 <2> QED BY <1>1, <2>1, <2>3, <2>4, <2>5 DEF InStrip
<1>2. y \in Int /\ z \in Int
  BY EdgesAre
<1> QED BY <1>1, <1>2

\* Every place between the first frame and the last one is in some strip.
LEMMA StripsCover ==
    ASSUME NEW b \in Sheds, FramesAt(b) # {}, NEW p \in Int,
           2 * FirstFrame(b) < p, p <= 2 * LastFrame(b)
    PROVE  \E y \in FramesAt(b) : InStrip(b, y, p)
<1> DEFINE below == {y \in FramesAt(b) : LowerEdge(b, y) < p}
<1>0. FramesAt(b) \in SUBSET Int /\ IsFiniteSet(FramesAt(b))
  BY FramesAre
<1>1. /\ FirstFrame(b) \in FramesAt(b) /\ \A f \in FramesAt(b) : FirstFrame(b) <= f
      /\ LastFrame(b) \in FramesAt(b) /\ \A f \in FramesAt(b) : f <= LastFrame(b)
  BY <1>0, Extremes DEF FirstFrame, LastFrame
<1>2. FirstFrame(b) \in below
 <2>1. Before(b, FirstFrame(b)) = {}
   BY <1>0, <1>1 DEF Before
 <2> QED BY <1>1, <2>1 DEF LowerEdge
<1>3. below \in SUBSET Int /\ IsFiniteSet(below)
 <2>1. below \in SUBSET FramesAt(b)
   OBVIOUS
 <2> HIDE DEF below
 <2> QED BY <1>0, <2>1, FS_Subset
<1>4. PICK y \in below : \A f \in below : f <= y
 <2> HIDE DEF below
 <2>1. Max(below) \in below /\ \A f \in below : f <= Max(below)
   BY <1>2, <1>3, Extremes
 <2> QED BY <2>1
<1>5. y \in FramesAt(b) /\ LowerEdge(b, y) < p /\ y \in Int
  BY <1>3
<1>6. CASE After(b, y) = {}
 <2>1. ~(LastFrame(b) > y)
   BY <1>1, <1>6 DEF After
 <2>2. LastFrame(b) = y
   BY <1>0, <1>1, <1>5, <2>1
 <2> QED BY <1>5, <1>6, <2>2 DEF InStrip, UpperEdge
<1>7. CASE After(b, y) # {}
 <2>1. PICK z \in After(b, y) : z = Min(After(b, y)) /\ \A f \in After(b, y) : z <= f
   BY <1>5, <1>7, EdgesAre
 <2>2. z \in FramesAt(b) /\ z > y /\ z \in Int
   BY <1>0, <2>1 DEF After
 <2>3. ~(LowerEdge(b, z) < p)
   BY <1>4, <1>5, <2>2
 <2>4. y \in Before(b, z)
   BY <1>5, <2>2 DEF Before
 <2>5. PICK h \in Before(b, z) : h = Max(Before(b, z)) /\ y <= h
   BY <2>2, <2>4, EdgesAre
 <2>6. h \in FramesAt(b) /\ h < z /\ h \in Int
   BY <1>0, <2>5 DEF Before
 <2>7. ~(h > y)
  <3>1. h > y => h \in After(b, y)
    BY <2>6 DEF After
  <3> QED BY <2>1, <2>2, <2>6, <3>1
 <2>8. h = y
   BY <1>5, <2>5, <2>6, <2>7
 <2>9. LowerEdge(b, z) = z + y /\ UpperEdge(b, y) = y + z
   BY <1>7, <2>1, <2>4, <2>5, <2>8 DEF LowerEdge, UpperEdge
 <2>10. p <= UpperEdge(b, y)
   BY <1>5, <2>2, <2>3, <2>9
 <2> QED BY <1>5, <2>10 DEF InStrip
<1> QED BY <1>6, <1>7

\* The strips lie between the first frame and the last one.
LEMMA StripsWithin ==
    ASSUME NEW b \in Sheds, NEW y \in FramesAt(b)
    PROVE  2 * FirstFrame(b) <= LowerEdge(b, y) /\ UpperEdge(b, y) <= 2 * LastFrame(b)
           /\ FirstFrame(b) \in Int /\ LastFrame(b) \in Int
<1>0. FramesAt(b) \in SUBSET Int /\ IsFiniteSet(FramesAt(b)) /\ FramesAt(b) # {}
  BY FramesAre
<1>1. PICK f \in Int, l \in Int :
        /\ f = FirstFrame(b) /\ l = LastFrame(b)
        /\ \A g \in FramesAt(b) : f <= g /\ g <= l
 <2>1. /\ FirstFrame(b) \in FramesAt(b) /\ \A g \in FramesAt(b) : FirstFrame(b) <= g
       /\ LastFrame(b) \in FramesAt(b) /\ \A g \in FramesAt(b) : g <= LastFrame(b)
   BY <1>0, Extremes DEF FirstFrame, LastFrame
 <2> QED BY <1>0, <2>1
<1>2. y \in Int /\ f <= y /\ y <= l
  BY <1>0, <1>1
<1>3. Before(b, y) # {} => Max(Before(b, y)) \in Int /\ f <= Max(Before(b, y))
 <2> SUFFICES ASSUME Before(b, y) # {} PROVE Max(Before(b, y)) \in Int /\ f <= Max(Before(b, y))
   OBVIOUS
 <2>1. Max(Before(b, y)) \in Before(b, y)
   BY EdgesAre
 <2> QED BY <1>0, <1>1, <2>1 DEF Before
<1>4. After(b, y) # {} => Min(After(b, y)) \in Int /\ Min(After(b, y)) <= l
 <2> SUFFICES ASSUME After(b, y) # {} PROVE Min(After(b, y)) \in Int /\ Min(After(b, y)) <= l
   OBVIOUS
 <2>1. Min(After(b, y)) \in After(b, y)
   BY EdgesAre
 <2> QED BY <1>0, <1>1, <2>1 DEF After
<1>5. PICK p, q : p = Max(Before(b, y)) /\ q = Min(After(b, y))
  OBVIOUS
<1> QED BY <1>1, <1>2, <1>3, <1>4, <1>5 DEF LowerEdge, UpperEdge

----
(* Roofs by rafter.                                                        *)

\* A set of two has another element beside each.
LEMMA TwoAre ==
    ASSUME NEW T, IsFiniteSet(T), Cardinality(T) = 2, NEW a \in T
    PROVE  \E c : c # a /\ T = {a, c}
<1>1. IsFiniteSet(T \ {a}) /\ Cardinality(T \ {a}) = 1
  BY FS_RemoveElement
<1>2. PICK c : T \ {a} = {c}
  BY <1>1, FS_Singleton
<1> QED BY <1>2

\* Which of the two rafters of a frame.
Rank(b, m) == IF m = CHOOSE n \in OfFrame(b, m.y, "rafter") : TRUE THEN 1 ELSE 2

\* A frame has a first rafter and a second one.
LEMMA RanksAre ==
    ASSUME NEW b \in Sheds, NEW s, Fits(b, s)
    PROVE  /\ \A m \in With(b, "rafter") : m.y \in FramesAt(b) /\ Rank(b, m) \in {1, 2}
           /\ \A m, n \in With(b, "rafter") : m.y = n.y /\ Rank(b, m) = Rank(b, n) => m = n
           /\ \A y \in FramesAt(b), k \in {1, 2} :
                 \E m \in With(b, "rafter") : m.y = y /\ Rank(b, m) = k
<1>1. \A m \in With(b, "rafter") : m.y \in FramesAt(b) /\ Rank(b, m) \in {1, 2}
  BY FramesAre DEF Rank, Framing
<1>2. ASSUME NEW y \in FramesAt(b)
      PROVE  \E a, c : /\ a # c /\ OfFrame(b, y, "rafter") = {a, c}
                       /\ a = CHOOSE n \in OfFrame(b, y, "rafter") : TRUE
 <2>1. Cardinality(OfFrame(b, y, "rafter")) = 2
   BY DEF Fits, IsPortal
 <2>2. IsFiniteSet(OfFrame(b, y, "rafter"))
  <3>1. OfFrame(b, y, "rafter") \in SUBSET With(b, "rafter")
    BY DEF OfFrame
  <3> QED BY <3>1, MembersAre, FS_Subset
 <2>3. PICK a : a = CHOOSE n \in OfFrame(b, y, "rafter") : TRUE
   OBVIOUS
 <2>4. OfFrame(b, y, "rafter") # {}
   BY <2>1, FS_EmptySet
 <2>5. a \in OfFrame(b, y, "rafter")
   BY <2>3, <2>4, Zenon
 <2>6. PICK c : c # a /\ OfFrame(b, y, "rafter") = {a, c}
   BY <2>1, <2>2, <2>5, TwoAre
 <2> QED BY <2>3, <2>6
<1>3. ASSUME NEW m \in With(b, "rafter"), NEW n \in With(b, "rafter"), m.y = n.y, Rank(b, m) = Rank(b, n)
      PROVE  m = n
 <2>1. PICK a, c : /\ a # c /\ OfFrame(b, m.y, "rafter") = {a, c}
                   /\ a = CHOOSE k \in OfFrame(b, m.y, "rafter") : TRUE
   BY <1>1, <1>2
 <2>2. m \in {a, c} /\ n \in {a, c}
   BY <1>3, <2>1 DEF OfFrame
 <2>3. (Rank(b, m) = 1 <=> m = a) /\ (Rank(b, n) = 1 <=> n = a)
   BY <1>3, <2>1 DEF Rank
 <2> QED BY <1>3, <2>2, <2>3
<1>4. ASSUME NEW y \in FramesAt(b), NEW k \in {1, 2}
      PROVE  \E m \in With(b, "rafter") : m.y = y /\ Rank(b, m) = k
 <2>1. PICK a, c : /\ a # c /\ OfFrame(b, y, "rafter") = {a, c}
                   /\ a = CHOOSE n \in OfFrame(b, y, "rafter") : TRUE
   BY <1>2
 <2>2. a \in With(b, "rafter") /\ a.y = y /\ c \in With(b, "rafter") /\ c.y = y
   BY <2>1 DEF OfFrame
 <2>3. Rank(b, a) = 1 /\ Rank(b, c) = 2
   BY <2>1, <2>2 DEF Rank
 <2> QED BY <2>2, <2>3
<1> QED BY <1>1, <1>3, <1>4

\* Loads that are those of the rafters, one for one.
OneForEach(b, S, u) ==
    /\ u \in [S -> With(b, "rafter")]
    /\ \A k, l \in S : u[k] = u[l] => k = l
    /\ \A m \in With(b, "rafter") : \E l \in S : u[l] = m

\* The roof loads have four places for every unit of length: two rafters, twice the way.
LEMMA PlacesAre ==
    ASSUME NEW b \in Sheds, NEW s, Fits(b, s), NEW S, IsFiniteSet(S), NEW u, OneForEach(b, S, u),
           NEW w, \A l \in S : w[l] = TwiceStrip(b, u[l].y), IsFiniteSet(Slots(S, w))
    PROVE  Cardinality(Slots(S, w)) = 4 * s.length
<1> DEFINE Of(p) == <<LowerEdge(b, u[p[1]].y) + p[2], Rank(b, u[p[1]])>>
           P == Slots(S, w)
           low == 2 * FirstFrame(b) + 1
           high == 2 * LastFrame(b)
           T == (low..high) \X {1, 2}
           g == [p \in P |-> Of(p)]
<1>0. ASSUME NEW l \in S
      PROVE  /\ u[l] \in With(b, "rafter") /\ u[l].y \in FramesAt(b)
             /\ LowerEdge(b, u[l].y) \in Int /\ UpperEdge(b, u[l].y) \in Int
             /\ w[l] = UpperEdge(b, u[l].y) - LowerEdge(b, u[l].y)
             /\ Rank(b, u[l]) \in {1, 2}
 <2>1. u[l] \in With(b, "rafter")
   BY DEF OneForEach
 <2>2. u[l].y \in FramesAt(b) /\ Rank(b, u[l]) \in {1, 2}
   BY <2>1, RanksAre
 <2> QED BY <2>1, <2>2, EdgesAre
<1>1. /\ FirstFrame(b) \in Int /\ LastFrame(b) \in Int /\ FramesAt(b) # {}
      /\ \A y \in FramesAt(b) : 2 * FirstFrame(b) <= LowerEdge(b, y) /\ UpperEdge(b, y) <= 2 * LastFrame(b)
  BY StripsWithin DEF Fits
<1>2. ASSUME NEW p \in P
      PROVE  /\ p[1] \in S /\ p[2] \in Nat /\ p = <<p[1], p[2]>>
             /\ Of(p)[1] \in low..high /\ InStrip(b, u[p[1]].y, Of(p)[1])
             /\ Of(p)[2] \in {1, 2}
             /\ Of(p)[1] = LowerEdge(b, u[p[1]].y) + p[2] /\ Of(p)[2] = Rank(b, u[p[1]])
 <2>1. p[1] \in S /\ p[2] \in Nat /\ p = <<p[1], p[2]>> /\ 1 <= p[2] /\ p[2] <= w[p[1]]
   BY DEF Slots
 <2>2. PICK l \in S, i \in Nat : l = p[1] /\ i = p[2] /\ 1 <= i /\ i <= w[l]
   BY <2>1
 <2>3. PICK lower \in Int, upper \in Int :
         lower = LowerEdge(b, u[l].y) /\ upper = UpperEdge(b, u[l].y) /\ w[l] = upper - lower
   BY <1>0
 <2>4. Of(p) = <<lower + i, Rank(b, u[l])>>
   BY <2>2, <2>3
 <2>5. 2 * FirstFrame(b) <= lower /\ upper <= 2 * LastFrame(b)
   BY <1>0, <1>1, <2>3
 <2>6. lower + i \in low..high /\ lower < lower + i /\ lower + i <= upper
   BY <1>1, <2>2, <2>3, <2>5
 <2> HIDE DEF low, high
 <2> QED BY <1>0, <2>1, <2>2, <2>3, <2>4, <2>6 DEF InStrip
<1> HIDE DEF P
<1>3. g \in Injection(P, T)
 <2>1. g \in [P -> T]
  <3>1. ASSUME NEW p \in P PROVE Of(p) \in T
   <4> HIDE DEF low, high
   <4> QED BY <1>2
  <3> HIDE DEF T, Of
  <3> QED BY <3>1
 <2>2. ASSUME NEW p \in P, NEW q \in P, g[p] = g[q] PROVE p = q
  <3>1. Of(p) = Of(q)
   <4> HIDE DEF Of
   <4> QED BY <2>2
  <3>2. PICK place \in Int : place = Of(p)[1] /\ place = Of(q)[1]
   <4> HIDE DEF Of
   <4>1. Of(p)[1] \in Int
    <5>1. low \in Int /\ high \in Int
      BY <1>1
    <5> HIDE DEF low, high
    <5> QED BY <1>2, <5>1
   <4> QED BY <3>1, <4>1
  <3>3. u[p[1]].y = u[q[1]].y
   <4>1. InStrip(b, u[p[1]].y, place) /\ InStrip(b, u[q[1]].y, place)
    <5> HIDE DEF Of
    <5> QED BY <1>2, <3>2
   <4>2. u[p[1]].y \in FramesAt(b) /\ u[q[1]].y \in FramesAt(b)
     BY <1>0, <1>2
   <4> QED BY <4>1, <4>2, StripsApart
  <3>4. Rank(b, u[p[1]]) = Rank(b, u[q[1]])
    BY <3>1
  <3>5. u[p[1]] = u[q[1]]
    BY <1>0, <1>2, <3>3, <3>4, RanksAre
  <3>6. p[1] = q[1]
    BY <1>2, <3>5 DEF OneForEach
  <3>7. LowerEdge(b, u[p[1]].y) + p[2] = LowerEdge(b, u[q[1]].y) + q[2]
    BY <3>1
  <3>8. p[2] = q[2]
   <4>1. PICK e \in Int : e = LowerEdge(b, u[p[1]].y) /\ e = LowerEdge(b, u[q[1]].y)
     BY <1>0, <1>2, <3>3
   <4> QED BY <1>2, <3>7, <4>1
  <3> QED BY <1>2, <3>6, <3>8
 <2> HIDE DEF g, T
 <2>3. DOMAIN g = P
   BY <2>1
 <2> QED BY <2>1, <2>2, <2>3 DEF Injection, IsInjective
<1>4. ASSUME NEW t \in T PROVE \E p \in P : g[p] = t
 <2>1. PICK place \in low..high, k \in {1, 2} : t = <<place, k>>
   OBVIOUS
 <2>2. place \in Int /\ 2 * FirstFrame(b) < place /\ place <= 2 * LastFrame(b)
   BY <1>1
 <2>3. PICK y \in FramesAt(b) : InStrip(b, y, place)
   BY <1>1, <2>2, StripsCover
 <2>4. PICK m \in With(b, "rafter") : m.y = y /\ Rank(b, m) = k
   BY RanksAre
 <2>5. PICK l \in S : u[l] = m
   BY DEF OneForEach
 <2>6. PICK lower \in Int, upper \in Int :
         /\ lower = LowerEdge(b, y) /\ upper = UpperEdge(b, y) /\ w[l] = upper - lower
         /\ lower < place /\ place <= upper
   BY <1>0, <2>3, <2>4, <2>5 DEF InStrip
 <2>7. PICK i \in Nat : i = place - lower /\ 1 <= i /\ i <= w[l] /\ lower + i = place
   BY <2>2, <2>6
 <2>8. PICK p : p = <<l, i>>
   OBVIOUS
 <2>9. p \in P
   BY <2>7, <2>8 DEF P, Slots
 <2>10. p[1] = l /\ p[2] = i
   BY <2>8
 <2>11. Of(p) = <<place, k>>
   BY <2>4, <2>5, <2>6, <2>7, <2>10
 <2> HIDE DEF Of
 <2> QED BY <2>1, <2>9, <2>11
<1>5. g \in Bijection(P, T)
 <2> HIDE DEF g, T
 <2> QED BY <1>3, <1>4 DEF Injection, Surjection, Bijection
<1>6. Cardinality(T) = 4 * s.length
 <2>1. low \in Int /\ high \in Int
   BY <1>1
 <2>2. s.length \in Int /\ s.length = LastFrame(b) - FirstFrame(b)
   BY MeasuresAre
 <2>3. IsFiniteSet(low..high) /\ Cardinality(low..high) = IF low > high THEN 0 ELSE high - low + 1
  <3> HIDE DEF low, high
  <3> QED BY <2>1, FS_Interval
 <2>4. FirstFrame(b) <= LastFrame(b)
   BY FramesAre, Extremes DEF Fits, FirstFrame, LastFrame
 <2>5. Cardinality(low..high) = 2 * s.length
  <3>1. low > high => high - low + 1 = 0
    BY <1>1, <2>4
  <3>2. high - low + 1 = 2 * s.length
    BY <1>1, <2>2
  <3> QED BY <2>3, <3>1, <3>2
 <2>6. IsFiniteSet({1, 2}) /\ Cardinality({1, 2}) = 2
  <3>1. IsFiniteSet({1}) /\ Cardinality({1}) = 1
    BY FS_Singleton
  <3>2. IsFiniteSet({1} \cup {2}) /\ Cardinality({1} \cup {2}) = 2
   <4>1. /\ IsFiniteSet({1} \cup {2})
         /\ Cardinality({1} \cup {2}) = IF 2 \in {1} THEN Cardinality({1}) ELSE Cardinality({1}) + 1
     BY <3>1, FS_AddElement, Zenon
   <4> QED BY <3>1, <4>1
  <3>3. {1, 2} = {1} \cup {2}
    OBVIOUS
  <3> QED BY <3>2, <3>3
 <2> HIDE DEF low, high
 <2>7. Cardinality(T) = Cardinality(low..high) * Cardinality({1, 2})
   BY <2>3, <2>6, FS_Product
 <2> HIDE DEF T
 <2> QED BY <2>2, <2>5, <2>6, <2>7
<1>7. Cardinality(T) = Cardinality(P)
 <2>1. ExistsBijection(P, T)
  <3> HIDE DEF g, T
  <3> QED BY <1>5 DEF ExistsBijection
 <2> HIDE DEF T
 <2> QED BY <2>1, FS_Bijection DEF P
<1> HIDE DEF T
<1> QED BY <1>6, <1>7 DEF P

----
(* Loads by case.                                                          *)

----
(* The loads of a case.                                                    *)

\* The roof load and the wall load of a wind on a member, whichever its axis.
RoofOf(b, site, s, c, m) ==
    IF c.role[3] = "x" THEN RoofAcross(b, s, c, c.role[4], InsideAcross(b, site, s, c.role[4]), m)
    ELSE RoofAlong(b, s, c, c.role[4], InsideAlong(b, site, s, c.role[4]), m)
WallOf(b, site, s, c, m) ==
    IF c.role[3] = "x" THEN WallAcross(b, s, c, c.role[4], InsideAcross(b, site, s, c.role[4]), m)
    ELSE IF m.role = "column" THEN GableWall(b, s, c, c.role[4], InsideAlong(b, site, s, c.role[4]), m)
    ELSE GableTop(b, s, c, c.role[4], InsideAlong(b, site, s, c.role[4]), m)

\* The members that carry a wall load of a wind.
Walled(b, c) ==
    IF c.role[3] = "x" THEN With(b, "column")
    ELSE {m \in Framing(b) : m.y \in EndFrames(b) /\ (m.role = "rafter" => Rises(m))}

\* The loads of a case.
OwnOf(b, site, s, c, r) ==
    \/ \E m \in With(b, "rafter") : r = RoofOf(b, site, s, c, m)
    \/ \E m \in Walled(b, c) : r = WallOf(b, site, s, c, m)

\* A roof load is as wide as its frame's strip.
LEMMA RoofWidth ==
    ASSUME NEW b, NEW site, NEW s, NEW c, NEW m
    PROVE  RoofOf(b, site, s, c, m).width = TwiceStrip(b, m.y)
<1>1. \A sign, inside : /\ RoofAcross(b, s, c, sign, inside, m).width = TwiceStrip(b, m.y)
                        /\ RoofAlong(b, s, c, sign, inside, m).width = TwiceStrip(b, m.y)
  BY FaceLoadIs DEF RoofAcross, RoofAlong
<1> QED BY <1>1 DEF RoofOf

\* A load of a case has the name of its case, member and part.
LEMMA OwnName ==
    ASSUME NEW b, NEW site, NEW s, NEW c, NEW m
    PROVE  /\ LET r == RoofOf(b, site, s, c, m)
              IN  r.id = <<c.id, m.id, "roof">> /\ r.id[3] = "roof" /\ r.case = c.id /\ r.member = m.id
           /\ LET r == WallOf(b, site, s, c, m)
              IN  r.id[1] = c.id /\ r.id[2] = m.id /\ r.id[3] # "roof" /\ r.case = c.id /\ r.member = m.id
<1> DEFINE R == RoofOf(b, site, s, c, m)
           W == WallOf(b, site, s, c, m)
<1>1. R.id = <<c.id, m.id, "roof">> /\ R.id[3] = "roof" /\ R.case = c.id /\ R.member = m.id
 <2>1. \/ \E sign, inside : R = RoofAcross(b, s, c, sign, inside, m)
       \/ \E sign, inside : R = RoofAlong(b, s, c, sign, inside, m)
   BY Zenon DEF RoofOf
 <2> HIDE DEF R
 <2> QED BY <2>1, PartsName
<1>2. W.id[1] = c.id /\ W.id[2] = m.id /\ W.id[3] # "roof" /\ W.case = c.id /\ W.member = m.id
 <2>1. \/ \E sign, inside : W = WallAcross(b, s, c, sign, inside, m)
       \/ \E sign, inside : W = GableWall(b, s, c, sign, inside, m)
       \/ \E sign, inside : W = GableTop(b, s, c, sign, inside, m)
   BY Zenon DEF WallOf
 <2> HIDE DEF W
 <2>2. \E part \in {"wall", "gable-wall", "gable"} :
          W.id = <<c.id, m.id, part>> /\ W.case = c.id /\ W.member = m.id
   BY <2>1, PartsName
 <2> QED BY <2>2
<1> QED BY <1>1, <1>2

\* The loads of a case are its roofs and its walls.
LEMMA OwnAre ==
    ASSUME NEW b, NEW site, NEW s, NEW c \in WindCases, NEW r
    PROVE  (r \in AllLoads(b, site, s) /\ r.case = c.id) <=> OwnOf(b, site, s, c, r)
<1>0. c.role[3] \in {"x", "y"}
  BY WindCasesAre
<1>1. ASSUME NEW d \in WindCases, d.id = c.id PROVE d = c
  BY <1>1, DerivedAre DEF Derived
<1>2. c.role[3] = "x" => (OwnOf(b, site, s, c, r) <=> AcrossPart(b, site, s, c, r))
 <2> SUFFICES ASSUME c.role[3] = "x" PROVE OwnOf(b, site, s, c, r) <=> AcrossPart(b, site, s, c, r)
   OBVIOUS
 <2>1. PICK sign, inside : sign = c.role[4] /\ inside = InsideAcross(b, site, s, sign)
   OBVIOUS
 <2>2. /\ Walled(b, c) = With(b, "column")
       /\ \A m : RoofOf(b, site, s, c, m) = RoofAcross(b, s, c, sign, inside, m)
       /\ \A m : WallOf(b, site, s, c, m) = WallAcross(b, s, c, sign, inside, m)
   BY <2>1 DEF Walled, RoofOf, WallOf
 <2>3. AcrossPart(b, site, s, c, r) <=>
          \/ \E m \in With(b, "column") : r = WallAcross(b, s, c, sign, inside, m)
          \/ \E m \in With(b, "rafter") : r = RoofAcross(b, s, c, sign, inside, m)
   BY <2>1, Zenon DEF AcrossPart
 <2> QED BY <2>2, <2>3 DEF OwnOf
<1>3. c.role[3] = "y" => (OwnOf(b, site, s, c, r) <=> AlongPart(b, site, s, c, r))
 <2> SUFFICES ASSUME c.role[3] = "y" PROVE OwnOf(b, site, s, c, r) <=> AlongPart(b, site, s, c, r)
   OBVIOUS
 <2>1. PICK sign, inside : sign = c.role[4] /\ inside = InsideAlong(b, site, s, sign)
   OBVIOUS
 <2>2. /\ Walled(b, c) = {m \in Framing(b) : m.y \in EndFrames(b) /\ (m.role = "rafter" => Rises(m))}
       /\ \A m : RoofOf(b, site, s, c, m) = RoofAlong(b, s, c, sign, inside, m)
       /\ \A m : WallOf(b, site, s, c, m) = IF m.role = "column" THEN GableWall(b, s, c, sign, inside, m)
                                            ELSE GableTop(b, s, c, sign, inside, m)
   BY <2>1 DEF Walled, RoofOf, WallOf
 <2>3. AlongPart(b, site, s, c, r) <=>
          \/ \E m \in With(b, "column") : m.y \in EndFrames(b) /\ r = GableWall(b, s, c, sign, inside, m)
          \/ \E m \in With(b, "rafter") :
                m.y \in EndFrames(b) /\ Rises(m) /\ r = GableTop(b, s, c, sign, inside, m)
          \/ \E m \in With(b, "rafter") : r = RoofAlong(b, s, c, sign, inside, m)
   BY <2>1, Zenon DEF AlongPart, GablePart
 <2>4. \A m : /\ m \in With(b, "column") <=> m \in Framing(b) /\ m.role = "column"
              /\ m \in With(b, "rafter") <=> m \in Framing(b) /\ m.role # "column"
              /\ m \in With(b, "rafter") => m.role = "rafter"
   BY DEF With, Framing
 <2>5. (\E m \in Walled(b, c) : r = WallOf(b, site, s, c, m)) <=>
          \/ \E m \in With(b, "column") : m.y \in EndFrames(b) /\ r = GableWall(b, s, c, sign, inside, m)
          \/ \E m \in With(b, "rafter") :
                m.y \in EndFrames(b) /\ Rises(m) /\ r = GableTop(b, s, c, sign, inside, m)
  <3>1. \A m \in Walled(b, c) :
           \/ m \in With(b, "column") /\ m.y \in EndFrames(b)
              /\ WallOf(b, site, s, c, m) = GableWall(b, s, c, sign, inside, m)
           \/ m \in With(b, "rafter") /\ m.y \in EndFrames(b) /\ Rises(m)
              /\ WallOf(b, site, s, c, m) = GableTop(b, s, c, sign, inside, m)
    BY <2>2, <2>4
  <3>2. \A m \in With(b, "column") : m.y \in EndFrames(b) =>
           m \in Walled(b, c) /\ WallOf(b, site, s, c, m) = GableWall(b, s, c, sign, inside, m)
    BY <2>2, <2>4
  <3>3. \A m \in With(b, "rafter") : m.y \in EndFrames(b) /\ Rises(m) =>
           m \in Walled(b, c) /\ WallOf(b, site, s, c, m) = GableTop(b, s, c, sign, inside, m)
    BY <2>2, <2>4
  <3> QED BY <3>1, <3>2, <3>3
 <2> QED BY <2>2, <2>3, <2>5 DEF OwnOf
<1>4. ASSUME r \in AllLoads(b, site, s), r.case = c.id PROVE OwnOf(b, site, s, c, r)
 <2>1. ~\E m \in With(b, "rafter") : r = RoofLoad(b, m)
  <3>1. RoofCase.id # c.id
    BY WindCasesAre DEF RoofCase, ActionCase, WindRole
  <3> QED BY <1>4, <3>1, RoofLoadIs
 <2>2. ASSUME NEW d \in WindCases, d.role[3] = "x", AcrossPart(b, site, s, d, r) PROVE d = c
  <3>1. r.case = d.id
    BY <2>2, PartsName DEF AcrossPart
  <3> QED BY <1>1, <1>4, <3>1
 <2>3. ASSUME NEW d \in WindCases, d.role[3] = "y", AlongPart(b, site, s, d, r) PROVE d = c
  <3>1. r.case = d.id
    BY <2>3, PartsName DEF AlongPart, GablePart
  <3> QED BY <1>1, <1>4, <3>1
 <2> QED BY <1>2, <1>3, <1>4, <2>1, <2>2, <2>3, AllByPart
<1>5. ASSUME OwnOf(b, site, s, c, r) PROVE r \in AllLoads(b, site, s) /\ r.case = c.id
 <2>1. r.case = c.id
   BY <1>5, OwnName DEF OwnOf
 <2>2. r \in AllLoads(b, site, s)
   BY <1>0, <1>2, <1>3, <1>5, AllByPart
 <2> QED BY <2>1, <2>2
<1> QED BY <1>4, <1>5

\* A name is that of one load.
LEMMA NamesAreOwn ==
    ASSUME NEW b \in Sheds, NEW site, NEW s, NEW r \in AllLoads(b, site, s), NEW q \in AllLoads(b, site, s),
           r.id = q.id
    PROVE  r = q
<1>0. \A m, n \in b.members : m.id = n.id => m = n
  BY MembersAre
<1>1. ASSUME NEW x \in AllLoads(b, site, s)
      PROVE  \/ /\ x.id[1] = RoofCase.id
                /\ \E m \in b.members : x = RoofLoad(b, m) /\ x.id[2] = m.id
             \/ \E c \in WindCases : x.id[1] = c.id /\ OwnOf(b, site, s, c, x)
 <2>1. CASE \E m \in With(b, "rafter") : x = RoofLoad(b, m)
  <3>1. PICK m \in With(b, "rafter") : x = RoofLoad(b, m)
    BY <2>1
  <3>2. x.id = <<RoofCase.id, m.id, "roof">> /\ m \in b.members
    BY <3>1, RoofLoadIs, MembersAre
  <3> QED BY <3>1, <3>2
 <2>2. ASSUME NEW c \in WindCases, NEW m, OnMember(x, c, m)
       PROVE  x.id[1] = c.id /\ OwnOf(b, site, s, c, x)
  <3>1. x.case = c.id /\ x.id = <<c.id, m.id, x.id[3]>>
    BY <2>2, FaceLoadIs DEF OnMember
  <3> QED BY <3>1, OwnAre
 <2> QED BY <2>1, <2>2, LoadsAre
<1>2. \A c \in WindCases : c.id # RoofCase.id
  BY WindCasesAre DEF RoofCase, ActionCase, WindRole
<1>3. CASE r.id[1] = RoofCase.id
 <2>1. PICK m \in b.members : r = RoofLoad(b, m) /\ r.id[2] = m.id
   BY <1>1, <1>2, <1>3
 <2>2. PICK n \in b.members : q = RoofLoad(b, n) /\ q.id[2] = n.id
   BY <1>1, <1>2, <1>3
 <2> QED BY <1>0, <2>1, <2>2
<1>4. CASE r.id[1] # RoofCase.id
 <2>1. PICK c \in WindCases : r.id[1] = c.id /\ OwnOf(b, site, s, c, r)
   BY <1>1, <1>4
 <2>2. PICK d \in WindCases : q.id[1] = d.id /\ OwnOf(b, site, s, d, q)
   BY <1>1, <1>4
 <2>3. d = c
   BY <2>1, <2>2, DerivedAre DEF Derived
 <2>4. ASSUME NEW x, OwnOf(b, site, s, c, x)
       PROVE  \E m \in b.members :
                 /\ x.id[2] = m.id
                 /\ \/ x.id[3] = "roof" /\ x = RoofOf(b, site, s, c, m)
                    \/ x.id[3] # "roof" /\ x = WallOf(b, site, s, c, m)
  <3>1. CASE \E m \in With(b, "rafter") : x = RoofOf(b, site, s, c, m)
   <4>1. PICK m \in With(b, "rafter") : x = RoofOf(b, site, s, c, m)
     BY <3>1
   <4>2. m \in b.members /\ x.id = <<c.id, m.id, "roof">>
     BY <4>1, MembersAre, OwnName
   <4> QED BY <4>1, <4>2
  <3>2. CASE \E m \in Walled(b, c) : x = WallOf(b, site, s, c, m)
   <4>1. PICK m \in Walled(b, c) : x = WallOf(b, site, s, c, m)
     BY <3>2
   <4>2. m \in b.members
     BY MembersAre DEF Walled
   <4>3. x.id[2] = m.id /\ x.id[3] # "roof"
     BY <4>1, OwnName
   <4> QED BY <4>1, <4>2, <4>3
  <3> QED BY <2>4, <3>1, <3>2 DEF OwnOf
 <2>5. PICK m \in b.members : /\ r.id[2] = m.id
                              /\ \/ r.id[3] = "roof" /\ r = RoofOf(b, site, s, c, m)
                                 \/ r.id[3] # "roof" /\ r = WallOf(b, site, s, c, m)
   BY <2>1, <2>4
 <2>6. PICK n \in b.members : /\ q.id[2] = n.id
                              /\ \/ q.id[3] = "roof" /\ q = RoofOf(b, site, s, c, n)
                                 \/ q.id[3] # "roof" /\ q = WallOf(b, site, s, c, n)
   BY <2>2, <2>3, <2>4
 <2>7. m = n
   BY <1>0, <2>5, <2>6
 <2> QED BY <2>5, <2>6, <2>7
<1> QED BY <1>3, <1>4

----
(* The envelope.                                                           *)

\* With the site laid over them, the roofs and the walls of a case are still those.
LEMMA RoofsAndWalls ==
    ASSUME Carried, shed \in Sheds, NEW c \in WindCases
    PROVE  LET own == {l \in surface : l.case = c.id}
               Roofs == {l \in own : l.id[3] = "roof"}
               Walls == {l \in own : l.id[3] # "roof"}
               Load(r) == Overlaid(r, where[1])
           IN  /\ \A l : l \in Roofs <=> \E m \in With(shed, "rafter") :
                                            l = Load(RoofOf(shed, where[1], shape, c, m))
               /\ \A l : l \in Walls <=> \E m \in Walled(shed, c) :
                                            l = Load(WallOf(shed, where[1], shape, c, m))
               /\ \A m \in With(shed, "rafter") :
                     LET l == Load(RoofOf(shed, where[1], shape, c, m))
                     IN  l.member = m.id /\ l.width = TwiceStrip(shed, m.y)
               /\ \A m \in Walled(shed, c) : Load(WallOf(shed, where[1], shape, c, m)).member = m.id
<1> DEFINE site == where[1]
           all == AllLoads(shed, site, shape)
           own == {l \in surface : l.case = c.id}
           Roofs == {l \in own : l.id[3] = "roof"}
           Walls == {l \in own : l.id[3] # "roof"}
           Load(r) == Overlaid(r, site)
           Roof(m) == RoofOf(shed, site, shape, c, m)
           Wall(m) == WallOf(shed, site, shape, c, m)
<1>1. \A l : l \in surface <=> \E r \in all : l = Load(r)
  BY DEF Carried
<1>2. \A r \in all : Load(r).id = r.id /\ Load(r).case = r.case /\ Load(r).member = r.member
                     /\ Load(r).width = r.width
  BY OverlaidIs
<1>3. \A r : (r \in all /\ r.case = c.id) <=> OwnOf(shed, site, shape, c, r)
  BY OwnAre
<1>4. \A r : OwnOf(shed, site, shape, c, r) <=>
                \/ \E m \in With(shed, "rafter") : r = Roof(m)
                \/ \E m \in Walled(shed, c) : r = Wall(m)
  BY DEF OwnOf
<1>5. \A m : /\ Roof(m).id[3] = "roof" /\ Roof(m).member = m.id
             /\ Wall(m).id[3] # "roof" /\ Wall(m).member = m.id
  BY OwnName
<1>6. \A m : Roof(m).width = TwiceStrip(shed, m.y)
  BY RoofWidth
<1> HIDE DEF all, Load, Roof, Wall
<1>7. \A l : l \in Roofs <=> \E m \in With(shed, "rafter") : l = Load(Roof(m))
 <2>1. ASSUME NEW l \in Roofs PROVE \E m \in With(shed, "rafter") : l = Load(Roof(m))
  <3>1. l \in surface /\ l.case = c.id /\ l.id[3] = "roof"
    OBVIOUS
  <3>2. PICK r \in all : l = Load(r)
    BY <1>1, <3>1
  <3>3. r.case = c.id /\ r.id[3] = "roof"
    BY <1>2, <3>1, <3>2
  <3>4. OwnOf(shed, site, shape, c, r)
    BY <1>3, <3>2, <3>3
  <3> QED BY <1>4, <1>5, <3>2, <3>3, <3>4
 <2>2. ASSUME NEW m \in With(shed, "rafter") PROVE Load(Roof(m)) \in Roofs
  <3>1. OwnOf(shed, site, shape, c, Roof(m))
    BY <1>4
  <3>2. Roof(m) \in all /\ Roof(m).case = c.id
    BY <1>3, <3>1
  <3>3. Load(Roof(m)) \in surface
    BY <1>1, <3>2
  <3>4. Load(Roof(m)).id = Roof(m).id /\ Load(Roof(m)).case = c.id
    BY <1>2, <3>2
  <3> QED BY <1>5, <3>3, <3>4
 <2> HIDE DEF Roofs
 <2> QED BY <2>1, <2>2
<1>8. \A l : l \in Walls <=> \E m \in Walled(shed, c) : l = Load(Wall(m))
 <2>1. ASSUME NEW l \in Walls PROVE \E m \in Walled(shed, c) : l = Load(Wall(m))
  <3>1. l \in surface /\ l.case = c.id /\ l.id[3] # "roof"
    OBVIOUS
  <3>2. PICK r \in all : l = Load(r)
    BY <1>1, <3>1
  <3>3. r.case = c.id /\ r.id[3] # "roof"
    BY <1>2, <3>1, <3>2
  <3>4. OwnOf(shed, site, shape, c, r)
    BY <1>3, <3>2, <3>3
  <3> QED BY <1>4, <1>5, <3>2, <3>3, <3>4
 <2>2. ASSUME NEW m \in Walled(shed, c) PROVE Load(Wall(m)) \in Walls
  <3>1. OwnOf(shed, site, shape, c, Wall(m))
    BY <1>4
  <3>2. Wall(m) \in all /\ Wall(m).case = c.id
    BY <1>3, <3>1
  <3>3. Load(Wall(m)) \in surface
    BY <1>1, <3>2
  <3>4. Load(Wall(m)).id = Wall(m).id /\ Load(Wall(m)).case = c.id
    BY <1>2, <3>2
  <3> QED BY <1>5, <3>3, <3>4
 <2> HIDE DEF Walls
 <2> QED BY <2>1, <2>2
<1>9. \A m \in With(shed, "rafter") : Load(Roof(m)).member = m.id /\ Load(Roof(m)).width = TwiceStrip(shed, m.y)
  BY <1>2, <1>3, <1>4, <1>5, <1>6
<1>10. \A m \in Walled(shed, c) : Load(Wall(m)).member = m.id
  BY <1>2, <1>3, <1>4, <1>5
<1> QED BY <1>7, <1>8, <1>9, <1>10 DEF Load, Roof, Wall

\* The width of some loads.
WidthOf(S) == MapThenSumSet(LAMBDA l : l.width, S)

\* The widths of the roof loads of a case add up to four lengths of the building.
LEMMA WidthsAddUp ==
    ASSUME NEW b \in Sheds, NEW s, Fits(b, s), NEW S, IsFiniteSet(S), NEW u, OneForEach(b, S, u),
           \A l \in S : l.width = TwiceStrip(b, u[l].y)
    PROVE  WidthOf(S) = 4 * s.length
<1> DEFINE w == [l \in S |-> l.width]
<1>1. PICK ch, it : /\ Chooses(ch, S) /\ Runs(it, SUBSET S, ch, w)
                    /\ MapThenSumSet(LAMBDA l : l.width, S) = it[S]
  BY WidthsRun, Zenon
<1>2. \A l \in S : w[l] = TwiceStrip(b, u[l].y)
  OBVIOUS
<1> HIDE DEF w
<1>3. \A l \in S : w[l] \in Nat
 <2> SUFFICES ASSUME NEW l \in S PROVE w[l] \in Nat
   OBVIOUS
 <2>1. u[l] \in With(b, "rafter")
   BY DEF OneForEach
 <2>2. u[l].y \in FramesAt(b)
   BY <2>1, RanksAre
 <2>3. PICK p \in Int, q \in Int : w[l] = p - q /\ q <= p
   BY <1>2, <2>2, EdgesAre
 <2> QED BY <2>3
<1>4. IsFiniteSet(Slots(S, w)) /\ it[S] = Cardinality(Slots(S, w))
  BY <1>1, <1>3, SumCounts
<1>5. Cardinality(Slots(S, w)) = 4 * s.length
  BY <1>2, <1>4, PlacesAre
<1> QED BY <1>1, <1>4, <1>5 DEF WidthOf

\* Every wind loads the whole envelope once.
LEMMA ShowsLoaded == ASSUME WindInv PROVE EnvelopeIsLoaded
<1> SUFFICES ASSUME phase = "combined", surface # {}
             PROVE  /\ \A c \in WindCases :
                          LET own == {l \in surface : l.case = c.id}
                              Roofs == {l \in own : l.id[3] = "roof"}
                              Walls == {l \in own : l.id[3] # "roof"}
                              ends == {m \in Framing(shed) : m.y \in {FirstFrame(shed), LastFrame(shed)}}
                          IN  /\ {l.member : l \in Roofs} = {m.id : m \in With(shed, "rafter")}
                              /\ {l.member : l \in Walls} =
                                    IF c.role[3] = "x" THEN {m.id : m \in With(shed, "column")}
                                    ELSE {m.id : m \in {n \in ends : n.role = "rafter" => Rises(n)}}
                              /\ Cardinality(own) = Cardinality(Roofs) + Cardinality(Walls)
                              /\ MapThenSumSet(LAMBDA l : l.width, Roofs) = 4 * shape.length
                    /\ \A l \in surface : Cardinality({d \in lines : d.of = l.id}) = 1
  BY Zenon DEF EnvelopeIsLoaded
<1>0. Carried /\ shed \in Sheds /\ Fits(shed, shape)
  BY DEF WindInv, SurfaceStands, Carried
<1>1. ASSUME NEW c \in WindCases
      PROVE  LET own == {l \in surface : l.case = c.id}
                 Roofs == {l \in own : l.id[3] = "roof"}
                 Walls == {l \in own : l.id[3] # "roof"}
                 ends == {m \in Framing(shed) : m.y \in {FirstFrame(shed), LastFrame(shed)}}
             IN  /\ {l.member : l \in Roofs} = {m.id : m \in With(shed, "rafter")}
                 /\ {l.member : l \in Walls} =
                       IF c.role[3] = "x" THEN {m.id : m \in With(shed, "column")}
                       ELSE {m.id : m \in {n \in ends : n.role = "rafter" => Rises(n)}}
                 /\ Cardinality(own) = Cardinality(Roofs) + Cardinality(Walls)
                 /\ MapThenSumSet(LAMBDA l : l.width, Roofs) = 4 * shape.length
 <2> DEFINE own == {l \in surface : l.case = c.id}
            Roofs == {l \in own : l.id[3] = "roof"}
            Walls == {l \in own : l.id[3] # "roof"}
            ends == {m \in Framing(shed) : m.y \in {FirstFrame(shed), LastFrame(shed)}}
            Roof(m) == Overlaid(RoofOf(shed, where[1], shape, c, m), where[1])
            Wall(m) == Overlaid(WallOf(shed, where[1], shape, c, m), where[1])
            rafters == With(shed, "rafter")
            walled == Walled(shed, c)
 <2>1. /\ \A l : l \in Roofs <=> \E m \in rafters : l = Roof(m)
       /\ \A l : l \in Walls <=> \E m \in walled : l = Wall(m)
       /\ \A m \in rafters : Roof(m).member = m.id /\ Roof(m).width = TwiceStrip(shed, m.y)
       /\ \A m \in walled : Wall(m).member = m.id
   BY <1>0, RoofsAndWalls
 <2>2. /\ rafters \subseteq shed.members /\ IsFiniteSet(rafters)
       /\ walled \subseteq shed.members /\ IsFiniteSet(walled)
  <3>1. rafters \subseteq shed.members /\ IsFiniteSet(rafters)
    BY <1>0, MembersAre
  <3>2. walled \in SUBSET shed.members
    BY <1>0, MembersAre DEF Walled
  <3>3. IsFiniteSet(walled)
    BY <1>0, <3>2, MembersAre, FS_Subset
  <3> QED BY <3>1, <3>2, <3>3
 <2>3. own = Roofs \cup Walls /\ Roofs \cap Walls = {}
   OBVIOUS
 <2>4. walled = IF c.role[3] = "x" THEN With(shed, "column") ELSE {n \in ends : n.role = "rafter" => Rises(n)}
   BY DEF Walled, EndFrames
 <2> HIDE DEF own, Roofs, Walls, Roof, Wall, rafters, walled, ends
 <2>5. {l.member : l \in Roofs} = {m.id : m \in rafters}
   BY <2>1
 <2>6. {l.member : l \in Walls} = {m.id : m \in walled}
   BY <2>1
 <2>7. IsFiniteSet(Roofs) /\ IsFiniteSet(Walls)
  <3>1. PICK f, g : f = [m \in rafters |-> Roof(m)] /\ g = [m \in walled |-> Wall(m)]
    OBVIOUS
  <3>2. Roofs \subseteq {f[m] : m \in rafters} /\ Walls \subseteq {g[m] : m \in walled}
    BY <2>1, <3>1
  <3> QED BY <2>2, <3>2, ImageIsFinite
 <2>8. Cardinality(own) = Cardinality(Roofs) + Cardinality(Walls)
  <3>1. Cardinality(Roofs \cup Walls) = Cardinality(Roofs) + Cardinality(Walls) - Cardinality(Roofs \cap Walls)
    BY <2>7, FS_Union
  <3>2. Cardinality(Roofs \cap Walls) = 0
    BY <2>3, FS_EmptySet
  <3>3. Cardinality(Roofs) \in Nat /\ Cardinality(Walls) \in Nat
    BY <2>7, FS_CardinalityType
  <3> QED BY <2>3, <3>1, <3>2, <3>3
 <2>9. MapThenSumSet(LAMBDA l : l.width, Roofs) = 4 * shape.length
  <3>1. PICK u : u = [l \in Roofs |-> CHOOSE m \in rafters : m.id = l.member]
    OBVIOUS
  <3>2. \A l \in Roofs : u[l] \in rafters /\ l = Roof(u[l])
   <4> SUFFICES ASSUME NEW l \in Roofs PROVE u[l] \in rafters /\ l = Roof(u[l])
     OBVIOUS
   <4>1. PICK m \in rafters : l = Roof(m)
     BY <2>1
   <4>2. \A n \in rafters : n.id = m.id => n = m
     BY <1>0, <2>2, MembersAre
   <4>3. l.member = m.id
     BY <2>1, <4>1
   <4>4. u[l] = CHOOSE n \in rafters : n.id = l.member
     BY <3>1
   <4>5. (CHOOSE n \in rafters : n.id = l.member) = m
     BY <4>2, <4>3
   <4> QED BY <4>1, <4>4, <4>5
  <3>3. \A m \in rafters : Roof(m) \in Roofs /\ u[Roof(m)] = m
   <4> SUFFICES ASSUME NEW m \in rafters PROVE Roof(m) \in Roofs /\ u[Roof(m)] = m
     OBVIOUS
   <4>1. Roof(m) \in Roofs
     BY <2>1
   <4>2. u[Roof(m)] \in rafters /\ Roof(m) = Roof(u[Roof(m)])
     BY <3>2, <4>1
   <4>3. u[Roof(m)].id = m.id
     BY <2>1, <4>2
   <4> QED BY <1>0, <2>2, <4>1, <4>2, <4>3, MembersAre
  <3>4. OneForEach(shed, Roofs, u)
   <4>1. u \in [Roofs -> rafters]
     BY <3>1, <3>2
   <4>2. \A k, l \in Roofs : u[k] = u[l] => k = l
     BY <3>2
   <4>3. \A m \in rafters : \E l \in Roofs : u[l] = m
     BY <3>3
   <4> QED BY <4>1, <4>2, <4>3 DEF OneForEach, rafters
  <3>5. \A l \in Roofs : l.width = TwiceStrip(shed, u[l].y)
    BY <2>1, <3>2
  <3>6. WidthOf(Roofs) = 4 * shape.length
    BY <1>0, <2>7, <3>4, <3>5, WidthsAddUp
  <3> QED BY <3>6 DEF WidthOf
 <2>10. /\ {l.member : l \in Roofs} = {m.id : m \in With(shed, "rafter")}
        /\ {l.member : l \in Walls} =
              IF c.role[3] = "x" THEN {m.id : m \in With(shed, "column")}
              ELSE {m.id : m \in {n \in ends : n.role = "rafter" => Rises(n)}}
  <3>1. CASE c.role[3] = "x"
    BY <2>4, <2>5, <2>6, <3>1 DEF rafters
  <3>2. CASE c.role[3] # "x"
    BY <2>4, <2>5, <2>6, <3>2 DEF rafters
  <3> QED BY <3>1, <3>2
 <2> QED BY <2>8, <2>9, <2>10, Zenon DEF own, Roofs, Walls, ends
<1>2. ASSUME NEW l \in surface PROVE Cardinality({d \in lines : d.of = l.id}) = 1
 <2> DEFINE all == AllLoads(shed, where[1], shape)
            D == {d \in lines : d.of = l.id}
 <2>1. PICK r \in all : l = Overlaid(r, where[1])
   BY <1>0 DEF Carried
 <2>2. l.id = r.id
   BY <2>1, OverlaidIs
 <2>3. \A q : LineOf(q, where[1]).of = q.id
   BY DEF LineOf
 <2>4. \A d : d \in lines <=> \E q \in all : d = LineOf(q, where[1])
   BY <1>0 DEF Carried
 <2>5. \A q \in all : q.id = r.id => q = r
   BY <1>0, NamesAreOwn
 <2> HIDE DEF all
 <2>6. D = {LineOf(r, where[1])}
   BY <2>2, <2>3, <2>4, <2>5
 <2> QED BY <2>6, FS_Singleton
<1> HIDE DEF EnvelopeIsLoaded
<1> QED BY <1>1, <1>2, Zenon

\* Loads meet their wind, the envelope is loaded, opposite winds mirror and loads are

\* combined, in every state.
THEOREM WindCorrect == WindSpec => []WindIsCarried
<1>1. WindInv => WindIsCarried
  BY ShowsMet, ShowsLoaded, ShowsMirrored, ShowsCombined DEF WindIsCarried
<1> QED BY <1>1, WindInvariant, PTL
=============================================================================
