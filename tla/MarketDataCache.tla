-------------------------- MODULE MarketDataCache --------------------------
(***************************************************************************)
(* One key of the filesystem cache, loads through it, and the registration *)
(* of what was loaded (data_cache.py, cached_provider.py, ingestion.py,    *)
(* ingestion_registry.py, dataset_registry.py).                            *)
(*                                                                         *)
(* A put writes the data and the manifest to temporary names that depend   *)
(* on the key alone and renames them, so puts of one key share them.  A    *)
(* name refers to a file and a writer keeps the file it opened, whatever   *)
(* name it gets.  A file holds a frame (a manifest: its fingerprint) or is *)
(* Torn: truncated, half written or mixed from two writers.                *)
(***************************************************************************)
EXTENDS Naturals, FiniteSets

CONSTANTS
    Loader, Frame, File, None, Torn,
    Loads       \* bound of the model on the loads made

\* Files do not run out.
CacheAssumption ==
    /\ IsFiniteSet(Loader) /\ IsFiniteSet(File)
    /\ Cardinality(File) > Cardinality(Loader) + 3
    /\ {None, Torn} \intersect (File \union Frame) = {}

Kind == {"data", "manifest"}

VARIABLES
    final,      \* the file of <key>.csv and <key>.json
    temp,       \* the file of the temporary name of each kind
    content,    \* what each file holds
    load,       \* the loads in progress
    left,       \* loads that may still be made
    given,      \* ghost: the frames the provider gave
    datasets    \* DatasetRegistry: the versions, content hashes, registered

vars == <<final, temp, content, load, left, given, datasets>>

\* What a load in progress holds: a frame, the file it writes.
Loading(at, frame, file) ==
    [at |-> at, frame |-> frame, file |-> file, manifest |-> None]
Idle == Loading("idle", None, None)

Init ==
    /\ final = [k \in Kind |-> None] /\ temp = [k \in Kind |-> None]
    /\ content = [f \in File |-> Torn]
    /\ load = [p \in Loader |-> Idle]
    /\ left = Loads /\ given = {} /\ datasets = {}

At(p, at) == load[p].at = at
Move(p, state) == load' = [load EXCEPT ![p] = state]
Set(p, at) == Move(p, [load[p] EXCEPT !.at = at])

Disk == <<final, temp, content>>
Seen == <<left, given, datasets>>

\* Fewer files are in use than there are files: a name or a writer holds each.
Free == CHOOSE f \in File :
            f \notin {final[k] : k \in Kind} \union {temp[k] : k \in Kind}
                     \union {load[p].file : p \in Loader}

(***************************************************************************)
(* MarketDataCache.get: None unless both files are there, the manifest can *)
(* be read and its fingerprint is that of the frame read.                  *)
(***************************************************************************)
\* A faulty cache that does not compare the fingerprint.
HitAnyway(manifest, data) == manifest # Torn

Hit(manifest, data) == manifest # Torn /\ data = manifest

Exists(p) ==
    /\ At(p, "idle") /\ left > 0
    /\ left' = left - 1
    /\ Set(p, IF \E k \in Kind : final[k] = None THEN "provider" ELSE "manifest")
    /\ UNCHANGED <<Disk, given, datasets>>

ReadManifest(p) ==
    /\ At(p, "manifest")
    /\ Move(p, [Loading("data", None, None) EXCEPT !.manifest = content[final["manifest"]]])
    /\ UNCHANGED <<Disk, Seen>>

ReadData(p) ==
    /\ At(p, "data")
    /\ LET data == content[final["data"]]
           hit == Hit(load[p].manifest, data)
       IN  Move(p, IF hit THEN Loading("lookup", data, None) ELSE Loading("provider", None, None))
    /\ UNCHANGED <<Disk, Seen>>

\* A miss asks the provider, which may revise its data between calls or fail.
Provide(p) ==
    /\ At(p, "provider")
    /\ \/ \E frame \in Frame :
              /\ Move(p, Loading("open data", frame, None))
              /\ given' = given \union {frame}
       \/ Move(p, Idle) /\ given' = given
    /\ UNCHANGED <<Disk, left, datasets>>

(***************************************************************************)
(* MarketDataCache.put: data then manifest written, data then manifest     *)
(* renamed.  Opening truncates the file the name has, if any.              *)
(***************************************************************************)
Open(p, k, from, to) ==
    /\ At(p, from)
    /\ LET file == IF temp[k] = None THEN Free ELSE temp[k]
       IN  /\ temp' = [temp EXCEPT ![k] = file]
           /\ content' = [content EXCEPT ![file] = Torn]
           /\ Move(p, Loading(to, load[p].frame, file))
    /\ UNCHANGED <<final, Seen>>

\* What was written since by another writer of the file mixes with it.
Close(p, k, from, to) ==
    /\ At(p, from)
    /\ \E value \in {load[p].frame}
                    \union IF content[load[p].file] # Torn THEN {Torn} ELSE {} :
           content' = [content EXCEPT ![load[p].file] = value]
    /\ Move(p, Loading(to, load[p].frame, None))
    /\ UNCHANGED <<final, temp, Seen>>

\* The rename fails when another put of the key has taken the temporary file.
\* What the replaced file held is gone for every reader.
Rename(p, k, from, to) ==
    /\ At(p, from)
    /\ IF temp[k] = None
       THEN /\ Move(p, Idle)
            /\ UNCHANGED Disk
       ELSE /\ final' = [final EXCEPT ![k] = temp[k]]
            /\ temp' = [temp EXCEPT ![k] = None]
            /\ content' = IF final[k] = None THEN content ELSE [content EXCEPT ![final[k]] = Torn]
            /\ Set(p, to)
    /\ UNCHANGED Seen

Put(p) ==
    \/ Open(p, "data", "open data", "close data")
    \/ Close(p, "data", "close data", "open manifest")
    \/ Open(p, "manifest", "open manifest", "close manifest")
    \/ Close(p, "manifest", "close manifest", "rename data")
    \/ Rename(p, "data", "rename data", "rename manifest")
    \/ Rename(p, "manifest", "rename manifest", "lookup")

(***************************************************************************)
(* DatasetRegistry.register: a known version is returned, another inserted *)
(* under the primary key, which refuses a version inserted since.          *)
(***************************************************************************)
Lookup(p) ==
    /\ At(p, "lookup")
    /\ IF load[p].frame \in datasets THEN Move(p, Idle) ELSE Set(p, "insert")
    /\ UNCHANGED <<Disk, Seen>>

Insert(p) ==
    /\ At(p, "insert")
    /\ datasets' = datasets \union {load[p].frame}
    /\ Move(p, Idle)
    /\ UNCHANGED <<Disk, left, given>>

\* The process dies; the files stay as they are.
Crash(p) ==
    /\ ~At(p, "idle")
    /\ Move(p, Idle)
    /\ UNCHANGED <<Disk, Seen>>

Next ==
    \E p \in Loader :
        \/ Exists(p) \/ ReadManifest(p) \/ ReadData(p) \/ Provide(p) \/ Put(p)
        \/ Lookup(p) \/ Insert(p) \/ Crash(p)

Spec == Init /\ [][Next]_vars
-----------------------------------------------------------------------------
TypeOK ==
    /\ \A k \in Kind : {final[k], temp[k]} \subseteq File \union {None}
    /\ content \in [File -> Frame \union {Torn}]
    /\ given \subseteq Frame
    /\ \A p \in Loader : load[p].frame \in Frame \union {None, Torn}

\* Two loads of one key truncate, mix and steal each other's temporary files
\* and a crash leaves a new data file beside an old manifest: still every frame
\* a load returns, and every version registered, is one the provider gave.
LoadsAreProvided ==
    /\ datasets \subseteq given
    /\ \A p \in Loader :
          load[p].at \in {"lookup", "insert"} => load[p].frame \in given
=============================================================================
