--------------------------- MODULE ComponentCache ---------------------------
(***************************************************************************)
(* The component cache of the compile worker.  A compile restores the      *)
(* entries its project used last from an object store into a local folder, *)
(* the sandbox builds only what is not there, and after the result is out  *)
(* the pod uploads what was built and replaces the project's manifest.     *)
(*                                                                         *)
(* An entry is two objects: a BREP and a sidecar, written in that order,   *)
(* locally and in the store, so that a sidecar says the entry is whole.    *)
(* Nothing else protects it: fetches run concurrently, one store failure   *)
(* lets the sandbox start while other fetches still write, a sandbox is    *)
(* killed while it saves, pods overlap and die between any two writes, and *)
(* the store expires objects one by one.  The bytes an entry has are those *)
(* its name stands for, so an object is absent, whole or corrupt.          *)
(***************************************************************************)
EXTENDS Naturals, FiniteSets

CONSTANTS
    Compiles,     \* requests to compile
    Pods,         \* compile job pods
    Entries,      \* cache entries of one tenant
    Projects,     \* projects of the tenant
    MaxRestored,  \* component_cache_prefetch_max_bytes, in entries
    MaxFaults,    \* bound: objects that expire or rot
    NoPod

ASSUME CacheAssumption ==
    /\ MaxRestored \in Nat /\ MaxFaults \in Nat
    /\ NoPod \notin Pods

VARIABLES
    project,   \* the project of each compile
    pod,       \* the pod that took the compile
    stage,     \* where the compile is
    entry,     \* how it stands with each entry
    restored,  \* entries its prefetch took from its budget
    folder,    \* halves in its local folder, of each entry
    object,    \* state of each half of each entry in the store
    manifest,  \* entries each project's manifest names, none while there is none
    gone,      \* pods that died or ended
    faults     \* objects that expired or rotted

cacheVars == <<project, pod, stage, entry, restored, folder, object, manifest, gone, faults>>

Halves == {"brep", "sidecar"}
Stages == {"queued", "fetching", "building", "built", "flushing", "uploading", "over"}

\* How a compile stands with an entry: its fetch, then what the report says.
FetchStates == {"unknown", "waiting", "reading", "writing"}
ReportStates == {"unused", "hit", "built", "flushed", "failed", "uploading", "uploaded"}

CacheInit ==
    /\ project \in [Compiles -> Projects]
    /\ pod = [c \in Compiles |-> NoPod]
    /\ stage = [c \in Compiles |-> "queued"]
    /\ entry = [c \in Compiles |-> [e \in Entries |-> [fetch |-> "unknown", report |-> "unused"]]]
    /\ restored = [c \in Compiles |-> 0]
    /\ folder = [c \in Compiles |-> [e \in Entries |-> {}]]
    /\ object = [e \in Entries |-> [h \in Halves |-> "absent"]]
    /\ manifest = [p \in Projects |-> {}]
    /\ gone = {}
    /\ faults = {}

Whole(c, e) == folder[c][e] = Halves

Alive(c) == pod[c] \in Pods \ gone
CompilesOf(p) == {c \in Compiles : pod[c] = p}
Saving(c) == stage[c] \in {"flushing", "uploading"}

----
(* Taking requests.                                                        *)

\* run_once takes the first request; _next_while_saving a further one while
\* an earlier compile of the pod still saves.
Take(p, c) ==
    /\ stage[c] = "queued" /\ p \notin gone
    /\ \A d \in CompilesOf(p) : stage[d] \in {"flushing", "uploading", "over"}
    /\ CompilesOf(p) = {} \/ \E d \in CompilesOf(p) : Saving(d)
    /\ pod' = [pod EXCEPT ![c] = p]
    /\ stage' = [stage EXCEPT ![c] = "fetching"]
    /\ \E wanted \in {manifest[project[c]], {}} :  \* {}: the manifest cannot be read
          entry' = [entry EXCEPT ![c] = [e \in Entries |->
              [@[e] EXCEPT !.fetch = IF e \in wanted THEN "waiting" ELSE "unknown"]]]
    /\ UNCHANGED <<project, restored, folder, object, manifest, gone, faults>>

\* gather(*saves): a pod ends when its compiles have all saved.
PodEnds(p) ==
    /\ p \notin gone /\ CompilesOf(p) # {}
    /\ \A c \in CompilesOf(p) : stage[c] = "over"
    /\ gone' = gone \cup {p}
    /\ UNCHANGED <<project, pod, stage, entry, restored, folder, object, manifest, faults>>

PodDies(p) ==
    /\ p \notin gone /\ CompilesOf(p) # {}
    /\ gone' = gone \cup {p}
    /\ UNCHANGED <<project, pod, stage, entry, restored, folder, object, manifest, faults>>

----
(* prefetch_entries.                                                       *)

FetchIs(c, e, state) == entry' = [entry EXCEPT ![c][e].fetch = state]

\* fetch, up to its first read: no budget left, or the BREP is gone or corrupt,
\* leaves the entry out.
FetchBrep(c, e) ==
    /\ Alive(c) /\ entry[c][e].fetch = "waiting"
    /\ FetchIs(c, e, IF restored[c] < MaxRestored /\ object[e]["brep"] = "whole"
                     THEN "reading" ELSE "unknown")
    /\ UNCHANGED <<project, pod, stage, restored, folder, object, manifest, gone, faults>>

\* The sidecar is read, the entry still fits the budget other fetches drew on
\* meanwhile, and its BREP is written.
FetchSidecar(c, e) ==
    /\ Alive(c) /\ entry[c][e].fetch = "reading"
    /\ IF object[e]["sidecar"] = "whole" /\ restored[c] < MaxRestored
       THEN /\ FetchIs(c, e, "writing")
            /\ restored' = [restored EXCEPT ![c] = @ + 1]
            /\ folder' = [folder EXCEPT ![c][e] = @ \cup {"brep"}]
       ELSE /\ FetchIs(c, e, "unknown")
            /\ UNCHANGED <<restored, folder>>
    /\ UNCHANGED <<project, pod, stage, object, manifest, gone, faults>>

FetchWrites(c, e) ==
    /\ Alive(c) /\ entry[c][e].fetch = "writing"
    /\ FetchIs(c, e, "unknown")
    /\ folder' = [folder EXCEPT ![c][e] = @ \cup {"sidecar"}]
    /\ UNCHANGED <<project, pod, stage, restored, object, manifest, gone, faults>>

Fetched(c) == \A e \in Entries : entry[c][e].fetch = "unknown"

\* gather: every fetch is over, or one found the store unavailable; then the
\* compile goes on and the other fetches with it.
PrefetchEnds(c) ==
    /\ Alive(c) /\ stage[c] = "fetching"
    /\ \/ Fetched(c) /\ UNCHANGED entry
       \/ \E e \in Entries :
             entry[c][e].fetch \in {"waiting", "reading"} /\ FetchIs(c, e, "unknown")
    /\ stage' = [stage EXCEPT ![c] = "building"]
    /\ UNCHANGED <<project, pod, restored, folder, object, manifest, gone, faults>>

----
(* The sandbox.                                                            *)

\* A part of the design is called: its entry is loaded, or the part is built.
CallPart(c, e) ==
    /\ Alive(c) /\ stage[c] = "building" /\ entry[c][e].report = "unused"
    /\ entry' = [entry EXCEPT ![c][e].report = IF Whole(c, e) THEN "hit" ELSE "built"]
    /\ UNCHANGED <<project, pod, stage, restored, folder, object, manifest, gone, faults>>

\* The outputs are written, the early result published and its request acked;
\* or the compile failed and its failure was published.
PublishResult(c) ==
    /\ Alive(c) /\ stage[c] = "building"
    /\ \E outcome \in {"flushing", "over"} : stage' = [stage EXCEPT ![c] = outcome]
    /\ UNCHANGED <<project, pod, entry, restored, folder, object, manifest, gone, faults>>

\* flush_component_cache writes an entry: its BREP, then its sidecar.
FlushBrep(c, e) ==
    /\ Alive(c) /\ stage[c] = "flushing"
    /\ entry[c][e].report = "built"
    /\ entry' = [entry EXCEPT ![c][e].report = "failed"]
    /\ folder' = [folder EXCEPT ![c][e] = @ \cup {"brep"}]
    /\ UNCHANGED <<project, pod, stage, restored, object, manifest, gone, faults>>

FlushSidecar(c, e) ==
    /\ Alive(c) /\ stage[c] = "flushing"
    /\ entry[c][e].report = "failed"
    /\ entry' = [entry EXCEPT ![c][e].report = "flushed"]
    /\ folder' = [folder EXCEPT ![c][e] = Halves]
    /\ UNCHANGED <<project, pod, stage, restored, object, manifest, gone, faults>>

\* _sandbox_finisher: the sandbox has ended, or is killed when its grace is
\* over, at any point of its writing.  The report it left is what counts.
FlushEnds(c) ==
    /\ Alive(c) /\ stage[c] = "flushing"
    /\ stage' = [stage EXCEPT ![c] = "uploading"]
    /\ UNCHANGED <<project, pod, entry, restored, folder, object, manifest, gone, faults>>

----
(* publish_entries.                                                        *)

\* What the run reported as built and has not been stored.
ToUpload(c) == {e \in Entries : entry[c][e].report \in {"built", "flushed", "failed"}}

\* ComponentCacheStore.write: an object that is there is left alone.
Written(state) == IF state = "absent" THEN "whole" ELSE state

\* The BREP of the next entry; an entry whose files are not there is left out.
UploadBrep(c, e) ==
    /\ Alive(c) /\ stage[c] = "uploading"
    /\ \A d \in Entries : entry[c][d].report # "uploading"
    /\ e \in ToUpload(c)
    /\ IF Whole(c, e)
       THEN /\ entry' = [entry EXCEPT ![c][e].report = "uploading"]
            /\ object' = [object EXCEPT ![e]["brep"] = Written(@)]
       ELSE /\ entry' = [entry EXCEPT ![c][e].report = "unused"]
            /\ UNCHANGED object
    /\ UNCHANGED <<project, pod, stage, restored, folder, manifest, gone, faults>>

UploadSidecar(c, e) ==
    /\ Alive(c) /\ stage[c] = "uploading" /\ entry[c][e].report = "uploading"
    /\ entry' = [entry EXCEPT ![c][e].report = "uploaded"]
    /\ object' = [object EXCEPT ![e]["sidecar"] = Written(@)]
    /\ UNCHANGED <<project, pod, stage, restored, folder, manifest, gone, faults>>

Used(c) == {e \in Entries : entry[c][e].report \in {"hit", "uploaded"}}

\* Mutant of ReplaceManifest: the entries that could not be uploaded are named too.
MutReplaceManifest(c) ==
    /\ Alive(c) /\ stage[c] = "uploading"
    /\ manifest' = [manifest EXCEPT ![project[c]] = {e \in Entries : entry[c][e].report # "unused"}]
    /\ stage' = [stage EXCEPT ![c] = "over"]
    /\ UNCHANGED <<project, pod, entry, restored, folder, object, gone, faults>>

\* Every entry is stored or left out: the manifest names what the run used.
ReplaceManifest(c) ==
    /\ Alive(c) /\ stage[c] = "uploading"
    /\ ToUpload(c) = {} /\ \A e \in Entries : entry[c][e].report # "uploading"
    /\ manifest' = [manifest EXCEPT ![project[c]] = Used(c)]
    /\ stage' = [stage EXCEPT ![c] = "over"]
    /\ UNCHANGED <<project, pod, entry, restored, folder, object, gone, faults>>

\* The store is unavailable at a write: the upload stops where it is.
UploadStops(c) ==
    /\ Alive(c) /\ stage[c] = "uploading"
    /\ stage' = [stage EXCEPT ![c] = "over"]
    /\ UNCHANGED <<project, pod, entry, restored, folder, object, manifest, gone, faults>>

\* An object's time in the bucket is over, or its bytes rot.
ObjectFails(e, h) ==
    /\ Cardinality(faults) < MaxFaults /\ object[e][h] = "whole"
    /\ \E state \in {"absent", "corrupt"} : object' = [object EXCEPT ![e][h] = state]
    /\ faults' = faults \cup {<<e, h>>}
    /\ UNCHANGED <<project, pod, stage, entry, restored, folder, manifest, gone>>

CacheNext ==
    \/ \E p \in Pods :
          \/ PodEnds(p) \/ PodDies(p)
          \/ \E c \in Compiles : Take(p, c)
    \/ \E c \in Compiles :
          \/ PrefetchEnds(c) \/ PublishResult(c) \/ FlushEnds(c)
          \/ ReplaceManifest(c) \/ UploadStops(c)
          \/ \E e \in Entries :
                \/ FetchBrep(c, e) \/ FetchSidecar(c, e) \/ FetchWrites(c, e)
                \/ CallPart(c, e) \/ FlushBrep(c, e) \/ FlushSidecar(c, e)
                \/ UploadBrep(c, e) \/ UploadSidecar(c, e)
    \/ \E e \in Entries, h \in Halves : ObjectFails(e, h)

CacheSpec == CacheInit /\ [][CacheNext]_cacheVars

----
(* Properties.                                                             *)

\* Every part of the state has its type; concurrent fetches stay within the budget
\* of the folder together.
CacheTypeOK ==
    /\ project \in [Compiles -> Projects]
    /\ pod \in [Compiles -> Pods \cup {NoPod}]
    /\ stage \in [Compiles -> Stages]
    /\ entry \in [Compiles -> [Entries -> [fetch : FetchStates, report : ReportStates]]]
    /\ restored \in [Compiles -> 0..MaxRestored]
    /\ folder \in [Compiles -> [Entries -> SUBSET Halves]]
    /\ object \in [Entries -> [Halves -> {"absent", "whole", "corrupt"}]]
    /\ manifest \in [Projects -> SUBSET Entries]
    /\ gone \subseteq Pods
    /\ faults \subseteq Entries \X Halves

\* A local entry with a sidecar has its BREP, whoever wrote them: a prefetch, a
\* fetch still running under the sandbox, or a sandbox killed while saving.
\* So whatever is loaded by its sidecar is whole.
SidecarIsLast ==
    \A c \in Compiles, e \in Entries : "sidecar" \in folder[c][e] => "brep" \in folder[c][e]

\* A manifest names only entries the store has both halves of, except what
\* expired or rotted there, also when pods overlap, die between two writes,
\* or leave some of their entries out.
ManifestNamesStored ==
    \A p \in Projects : \A e \in manifest[p], h \in Halves :
        object[e][h] = "whole" \/ <<e, h>> \in faults

\* However many entries are read together, a compile restores no more than its
\* budget, which each fetch tests before it waits and draws on after.
BudgetIsKept == \A c \in Compiles : restored[c] <= MaxRestored

\* Folders, store and manifests stay sound: the three parts above, of pods that
\* overlap and stop anywhere.
CacheIsSound == SidecarIsLast /\ ManifestNamesStored /\ BudgetIsKept
=============================================================================
