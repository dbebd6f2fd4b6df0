------------------------------ MODULE GisCache ------------------------------
(***************************************************************************)
(* The GIS service (server/gis_cache): one process whose handlers run in    *)
(* threads and keep what they obtained on one volume.                       *)
(*                                                                          *)
(* A request looks for the file of its answer, and otherwise acquires it    *)
(* from a source, writes a temporary file and renames it.  The name of the  *)
(* temporary file is that of the entry, so requests for the same place       *)
(* share it: one may truncate what another has written, or has just renamed. *)
(* Files are therefore modelled as names that lead to file objects.  Terrain *)
(* entries name an evidence of the store (store.py), a manifest with an      *)
(* asset; the other entries hold the evidence.  Beside them, a background    *)
(* thread builds the index of addresses (gnaf.py) and swaps it in.           *)
(*                                                                          *)
(* Sources are external.  Rasters, geometry and what is computed from them    *)
(* are left out; an evidence is a value.  The process may be restarted.       *)
(***************************************************************************)
EXTENDS Integers, Sequences

CONSTANTS
    Inquiries,
    Paths,       \* names of entries: a provider and a place each
    Chain,       \* request |-> the paths it tries, in order
    Referring,   \* paths whose entries name an evidence of the store (terrain)
    Dropping,    \* paths whose unreadable entries are removed (terrain, wind)
    Sheets,      \* paths that need the map sheet (NSW terrain)
    Evidence,    \* what the sources may give
    NoFile,
    Empty, Garbled, \* contents that are no evidence
    MaxRestarts

ASSUME GisCacheAssumption ==
    /\ Chain \in [Inquiries -> Seq(Paths)]
    /\ \A r \in Inquiries : Chain[r] # <<>>
    /\ Sheets \subseteq Referring /\ Referring \subseteq Dropping /\ Dropping \subseteq Paths
    /\ NoFile \notin Inquiries
    /\ Empty # Garbled /\ {Empty, Garbled} \cap Evidence = {}
    /\ MaxRestarts \in Nat

VARIABLES
    fetch,       \* [state, step, holds, got] of every request
    named,       \* path |-> the file object under the entry's name
    temp,        \* path |-> the file object under the temporary name
    content,     \* file object |-> what is in it; named by the request that made it
    sheet,       \* the map sheet is on the volume
    sheetLock,   \* the request that holds the lock of the sheets
    assets,      \* stored assets, by evidence
    manifests,   \* stored manifests
    index,       \* the index of addresses: "none", "empty" or "whole"
    sync,        \* the state of the sync job
    builder,     \* where its thread is
    opening,     \* a status request found the index and is about to open it
    restarts

fetchVars == <<fetch, named, temp, content, sheet, sheetLock, assets, manifests>>
addressVars == <<index, sync, builder, opening>>
gisVars == <<fetchVars, addressVars, restarts>>

Replied == {"hit", "fetched"}
Closed == Replied \cup {"failed", "error", "lost", "unmade"}
RequestStates ==
    {"look", "read", "drop", "acquire", "sheet", "asset", "manifest", "open", "write", "publish"}
        \cup Closed

\* Any of the requests are made.
GisInit ==
    /\ \E made \in SUBSET Inquiries :
          fetch = [r \in Inquiries |->
                      [state |-> IF r \in made THEN "look" ELSE "unmade",
                       step |-> 1, holds |-> NoFile, got |-> Empty]]
    /\ named = [p \in Paths |-> NoFile]
    /\ temp = [p \in Paths |-> NoFile]
    /\ content = [r \in Inquiries |-> Empty]
    /\ sheet = FALSE /\ sheetLock = NoFile
    /\ assets = {} /\ manifests = {}
    /\ index = "none" /\ sync = "none" /\ builder = "idle" /\ opening = FALSE
    /\ restarts = 0

Path(r) == Chain[r][fetch[r].step]
Is(r, state) == fetch[r].state = state
Goto(r, state) == fetch' = [fetch EXCEPT ![r].state = state]

----
(***************************************************************************)
(* The cache of a request.                                                  *)
(***************************************************************************)

\* The source of this step has nothing to offer: the next one is tried.
NextSource(r) ==
    fetch' = IF fetch[r].step < Len(Chain[r])
             THEN [fetch EXCEPT ![r].step = @ + 1, ![r].state = "look"]
             ELSE [fetch EXCEPT ![r].state = "failed"]

\* The source cannot be asked where the place or the release is to be found.
Pass(r) ==
    /\ Is(r, "look")
    /\ NextSource(r)
    /\ UNCHANGED <<named, temp, content, sheet, sheetLock, assets, manifests>>

Find(r) ==
    /\ Is(r, "look")
    /\ Goto(r, IF named[Path(r)] = NoFile THEN "acquire" ELSE "read")
    /\ UNCHANGED <<named, temp, content, sheet, sheetLock, assets, manifests>>

\* The entry parses as an evidence, or as the id of one whose manifest exists.
Readable(p) ==
    /\ named[p] # NoFile
    /\ content[named[p]] \in IF p \in Referring THEN manifests ELSE Evidence

\* The entry answers the request, or counts as a miss.
Read(r) ==
    /\ Is(r, "read")
    /\ fetch' =
           IF Readable(Path(r))
           THEN [fetch EXCEPT ![r].state = "hit", ![r].got = content[named[Path(r)]]]
           ELSE [fetch EXCEPT ![r].state = IF Path(r) \in Dropping THEN "drop" ELSE "acquire"]
    /\ UNCHANGED <<named, temp, content, sheet, sheetLock, assets, manifests>>

\* An unreadable entry is removed, whatever is under its name by now.
Drop(r) ==
    /\ Is(r, "drop")
    /\ named' = [named EXCEPT ![Path(r)] = NoFile]
    /\ Goto(r, "acquire")
    /\ UNCHANGED <<temp, content, sheet, sheetLock, assets, manifests>>

----
(***************************************************************************)
(* Acquiring.                                                               *)
(***************************************************************************)

\* The sheet is looked for, and downloaded and converted, by one request at a
\* time.
TakeSheetLock(r) ==
    /\ Is(r, "acquire") /\ Path(r) \in Sheets
    /\ sheetLock = NoFile
    /\ sheetLock' = r
    /\ Goto(r, "sheet")
    /\ UNCHANGED <<named, temp, content, sheet, assets, manifests>>

Asking(r) == Is(r, "sheet") \/ (Is(r, "acquire") /\ Path(r) \notin Sheets)
LeaveSheet(r) == sheetLock' = IF sheetLock = r THEN NoFile ELSE sheetLock

\* The sheet is on the volume once a request that takes one has been given it:
\* found valid, or downloaded, converted and validated.
SheetAfter(r) == sheet \/ Path(r) \in Sheets

\* The source gives e.
Obtain(r, e) ==
    /\ Asking(r)
    /\ fetch' = [fetch EXCEPT ![r].got = e,
                              ![r].state = IF Path(r) \in Referring THEN "asset" ELSE "open"]
    /\ sheet' = SheetAfter(r)
    /\ LeaveSheet(r)
    /\ UNCHANGED <<named, temp, content, assets, manifests>>

\* The source is unavailable.
Refuse(r) ==
    /\ Asking(r)
    /\ Is(r, "sheet") => ~sheet
    /\ NextSource(r)
    /\ LeaveSheet(r)
    /\ UNCHANGED <<named, temp, content, sheet, assets, manifests>>

\* What the terrain source gives cannot be used; no other source is tried.
Invalid(r) ==
    /\ Asking(r) /\ Path(r) \in Referring
    /\ Goto(r, "failed")
    /\ LeaveSheet(r)
    /\ UNCHANGED <<named, temp, content, sheet, assets, manifests>>

\* The store takes the terrain: first the asset, under its digest.
PlaceAsset(r) ==
    /\ Is(r, "asset")
    /\ assets' = assets \cup {fetch[r].got}
    /\ Goto(r, "manifest")
    /\ UNCHANGED <<named, temp, content, sheet, sheetLock, manifests>>

\* Then the manifest, unless it exists.
PlaceManifest(r) ==
    /\ Is(r, "manifest")
    /\ manifests' = manifests \cup {fetch[r].got}
    /\ Goto(r, "open")
    /\ UNCHANGED <<named, temp, content, sheet, sheetLock, assets>>

\* Tiles and profiles of evidence e are read from its asset.
Servable(e) == e \in manifests /\ e \in assets

----
(***************************************************************************)
(* Writing the entry.                                                       *)
(***************************************************************************)

\* Opens the temporary file, which makes it or empties the one that is there.
OpenTemp(r) ==
    /\ Is(r, "open")
    /\ LET file == IF temp[Path(r)] = NoFile THEN r ELSE temp[Path(r)]
       IN /\ temp' = [temp EXCEPT ![Path(r)] = file]
          /\ content' = [content EXCEPT ![file] = Empty]
          /\ fetch' = [fetch EXCEPT ![r].holds = file, ![r].state = "write"]
    /\ UNCHANGED <<named, sheet, sheetLock, assets, manifests>>

\* Writes from the start of the file.  Another's text may have been written there
\* since: a longer one leaves its tail, but ids are of one length.
WriteTemp(r) ==
    /\ Is(r, "write")
    /\ \E text \in {fetch[r].got}
                       \cup IF content[fetch[r].holds] = Empty \/ Path(r) \in Referring
                            THEN {} ELSE {Garbled} :
          content' = [content EXCEPT ![fetch[r].holds] = text]
    /\ Goto(r, "publish")
    /\ UNCHANGED <<named, temp, sheet, sheetLock, assets, manifests>>

\* Mutant of Publish: the file is renamed before its text is written.
MutPublish(r) ==
    /\ Is(r, "write") \/ Is(r, "publish")
    /\ IF temp[Path(r)] = NoFile
       THEN Goto(r, "error") /\ UNCHANGED <<named, temp>>
       ELSE /\ named' = [named EXCEPT ![Path(r)] = temp[Path(r)]]
            /\ temp' = [temp EXCEPT ![Path(r)] = NoFile]
            /\ Goto(r, "fetched")
    /\ UNCHANGED <<content, sheet, sheetLock, assets, manifests>>
\* Renames what is under the temporary name, which may be another's; when another
\* renamed it before, the request fails with the evidence in hand.
Publish(r) ==
    /\ Is(r, "publish")
    /\ IF temp[Path(r)] = NoFile
       THEN Goto(r, "error") /\ UNCHANGED <<named, temp>>
       ELSE /\ named' = [named EXCEPT ![Path(r)] = temp[Path(r)]]
            /\ temp' = [temp EXCEPT ![Path(r)] = NoFile]
            /\ Goto(r, "fetched")
    /\ UNCHANGED <<content, sheet, sheetLock, assets, manifests>>

FetchStep(r) ==
    \/ Pass(r) \/ Find(r) \/ Read(r) \/ Drop(r)
    \/ TakeSheetLock(r) \/ (\E e \in Evidence : Obtain(r, e)) \/ Refuse(r) \/ Invalid(r)
    \/ PlaceAsset(r) \/ PlaceManifest(r)
    \/ OpenTemp(r) \/ WriteTemp(r) \/ Publish(r)

----
(***************************************************************************)
(* The index of addresses.                                                  *)
(***************************************************************************)

\* A sync is asked for: one runs at a time, and none when an index exists, unless
\* it is forced.
StartSync(force) ==
    /\ sync # "running"
    /\ IF index # "none" /\ ~force
       THEN sync' = "exists" /\ UNCHANGED builder
       ELSE sync' = "running" /\ builder' = "building"
    /\ UNCHANGED <<index, opening>>

\* The release cannot be read, or the build fails.
SyncFails ==
    /\ builder = "building"
    /\ builder' = "idle" /\ sync' = "failed"
    /\ UNCHANGED <<index, opening>>

\* The addresses are loaded into a staged index, under its own name.
StageIndex ==
    /\ builder = "building"
    /\ builder' = "staged"
    /\ UNCHANGED <<index, sync, opening>>

\* The index that is in place is removed,
RemoveIndex ==
    /\ builder = "staged"
    /\ index' = "none" /\ builder' = "swapping"
    /\ UNCHANGED <<sync, opening>>

\* and the staged one takes its name.
ReplaceIndex ==
    /\ builder = "swapping"
    /\ index' = "whole" /\ builder' = "placed"
    /\ UNCHANGED <<sync, opening>>

\* Mutant of ReportSync: the sync is reported before the index is in place.
MutReportSync ==
    /\ builder \in {"swapping", "placed"}
    /\ sync' = "built"
    /\ builder' = IF builder = "placed" THEN "idle" ELSE builder
    /\ UNCHANGED <<index, opening>>
ReportSync ==
    /\ builder = "placed"
    /\ builder' = "idle" /\ sync' = "built"
    /\ UNCHANGED <<index, opening>>

\* A status request finds the index,
StatusLooks ==
    /\ ~opening /\ index # "none"
    /\ opening' = TRUE
    /\ UNCHANGED <<index, sync, builder>>

\* and opens it, which makes an empty one when it is gone.
StatusOpens ==
    /\ opening
    /\ opening' = FALSE
    /\ index' = IF index = "none" THEN "empty" ELSE index
    /\ UNCHANGED <<sync, builder>>

AddressStep ==
    \/ \E force \in BOOLEAN : StartSync(force)
    \/ SyncFails \/ StageIndex \/ RemoveIndex \/ ReplaceIndex \/ ReportSync
    \/ StatusLooks \/ StatusOpens

\* A search answers: without an index, or with an empty one, it finds nothing or
\* fails.
Searchable == index = "whole"

----
\* The process stops: its threads and the state of the job are lost, the files stay.
Restart ==
    /\ restarts < MaxRestarts
    /\ restarts' = restarts + 1
    /\ fetch' = [r \in Inquiries |->
                    IF fetch[r].state \in Closed \/ (Is(r, "look") /\ fetch[r].step = 1) THEN fetch[r]
                    ELSE [fetch[r] EXCEPT !.state = "lost"]]
    /\ sheetLock' = NoFile
    /\ sync' = "none" /\ builder' = "idle" /\ opening' = FALSE
    /\ UNCHANGED <<named, temp, content, sheet, assets, manifests, index>>

GisNext ==
    \/ (\E r \in Inquiries : FetchStep(r)) /\ UNCHANGED <<addressVars, restarts>>
    \/ AddressStep /\ UNCHANGED <<fetchVars, restarts>>
    \/ Restart

GisSpec == GisInit /\ [][GisNext]_gisVars

----
(***************************************************************************)
(* Properties.                                                              *)
(***************************************************************************)
GisTypeOK ==
    /\ fetch \in [Inquiries -> [state : RequestStates, step : Nat \ {0},
                               holds : Inquiries \cup {NoFile}, got : Evidence \cup {Empty}]]
    /\ named \in [Paths -> Inquiries \cup {NoFile}]
    /\ temp \in [Paths -> Inquiries \cup {NoFile}]
    /\ content \in [Inquiries -> Evidence \cup {Empty, Garbled}]
    /\ sheet \in BOOLEAN /\ sheetLock \in Inquiries \cup {NoFile}
    /\ assets \subseteq Evidence /\ manifests \subseteq Evidence
    /\ index \in {"none", "empty", "whole"}
    /\ sync \in {"none", "running", "built", "exists", "failed"}
    /\ builder \in {"idle", "building", "staged", "swapping", "placed"}
    /\ opening \in BOOLEAN
    /\ restarts \in 0 .. MaxRestarts

\* What a request answers is an evidence that a source gave, and terrain can be
\* served by its id: the manifest and the asset it names are stored, whatever
\* requests shared its temporary file and wherever the process was stopped.
AnswersAreServable ==
    /\ \A r \in Inquiries :
          fetch[r].state \in Replied =>
              /\ fetch[r].got \in Evidence
              /\ Path(r) \in Referring => Servable(fetch[r].got)
    /\ \A e \in manifests : Servable(e)

\* A terrain entry that no request is writing names a stored evidence: however the
\* writers of one temporary file interleave, what the last of them leaves is
\* whole.  Only a restart can leave an entry that the next request must repair.
QuietEntriesAreWhole ==
    restarts = 0 =>
        \A p \in Referring :
            named[p] # NoFile /\ (\A r \in Inquiries : ~(Is(r, "write") /\ fetch[r].holds = named[p]))
                => content[named[p]] \in manifests

\* While the job says that a sync completed, addresses can be searched: no status
\* request that meets the swap, and no stop in it, takes the index away.
SyncedIsSearchable == sync = "built" => Searchable

\* The entries of the cache, while requests write them and after: what is answered
\* can be served, and what is left names a stored evidence.
EntriesAreServable == AnswersAreServable /\ QuietEntriesAreWhole
=============================================================================
