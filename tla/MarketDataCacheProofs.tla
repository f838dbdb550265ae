------------------------- MODULE MarketDataCacheProofs -------------------------
(***************************************************************************)
(* Theorems about the market data cache, for any number of loaders, frames *)
(* and loads of one key.                                                   *)
(***************************************************************************)
EXTENDS MarketDataCache, FiniteSetTheorems, TLAPS

Fetched == {"open data", "close data", "open manifest", "close manifest",
            "rename data", "rename manifest", "lookup", "insert"}
Place == {"idle", "manifest", "data", "provider"} \union Fetched
LoadState == [at : Place, frame : Frame \union {None, Torn}, file : File \union {None},
              manifest : Frame \union {None, Torn}]

(***************************************************************************)
(* What is true of the state between any two steps.                        *)
(***************************************************************************)
DiskInv ==
    /\ final \in [Kind -> File \union {None}]
    /\ temp \in [Kind -> File \union {None}]
    /\ content \in [File -> given \union {Torn}]
    /\ given \subseteq Frame
    /\ datasets \subseteq given

\* What a load l may hold while names are the files and frames were given: it found both files before it reads them, what it
\* read of the manifest was written by a put, and what it puts, returns and
\* registers was given.  One that is writing has its file.
Sane(l, names, frames) ==
    /\ l.at \in {"manifest", "data"} => \A k \in Kind : names[k] # None
    /\ l.at = "data" => l.manifest \in frames \union {Torn}
    /\ l.at \in Fetched => l.frame \in frames
    /\ l.at \in {"close data", "close manifest"} => l.file \in File

CacheInv ==
    /\ DiskInv
    /\ load \in [Loader -> LoadState]
    /\ \A p \in Loader : Sane(load[p], final, given)

(***************************************************************************)
(* Lemmas.                                                                 *)
(***************************************************************************)
\* A writer that opens a temporary name nobody has finds a file for it.
LEMMA FileIsFree ==
    ASSUME CacheAssumption, CacheInv, NEW k \in Kind, temp[k] = None
    PROVE  Free \in File
<1> DEFINE held == {load[p].file : p \in Loader}
           file == [p \in Loader |-> load[p].file]
           other == IF k = "data" THEN "manifest" ELSE "data"
           used == ((held \union {final["data"]}) \union {final["manifest"]}) \union {temp[other]}
<1>1. IsFiniteSet(held) /\ Cardinality(held) <= Cardinality(Loader)
  <2>1. file \in Surjection(Loader, held)
    BY DEF Surjection
  <2> QED BY <2>1, FS_Surjection DEF CacheAssumption
<1> HIDE DEF held
<1>2. IsFiniteSet(used) /\ Cardinality(used) <= Cardinality(Loader) + 3
  <2>0. \A S, x : IsFiniteSet(S) => /\ IsFiniteSet(S \union {x})
                                    /\ Cardinality(S \union {x}) \in Nat
                                    /\ Cardinality(S \union {x}) <= Cardinality(S) + 1
    <3> SUFFICES ASSUME NEW S, NEW x, IsFiniteSet(S)
                 PROVE  /\ IsFiniteSet(S \union {x})
                        /\ Cardinality(S \union {x}) \in Nat
                        /\ Cardinality(S \union {x}) <= Cardinality(S) + 1
      OBVIOUS
    <3>1. Cardinality(S) \in Nat
      BY FS_CardinalityType
    <3>2. /\ IsFiniteSet(S \union {x})
          /\ Cardinality(S \union {x}) = IF x \in S THEN Cardinality(S) ELSE Cardinality(S) + 1
      BY FS_AddElement
    <3> QED BY <3>1, <3>2
  <2>1. /\ IsFiniteSet(held \union {final["data"]})
        /\ Cardinality(held \union {final["data"]}) \in Nat
        /\ Cardinality(held \union {final["data"]}) <= Cardinality(held) + 1
    BY <1>1, <2>0
  <2>2. /\ IsFiniteSet((held \union {final["data"]}) \union {final["manifest"]})
        /\ Cardinality((held \union {final["data"]}) \union {final["manifest"]}) \in Nat
        /\ Cardinality((held \union {final["data"]}) \union {final["manifest"]})
             <= Cardinality(held \union {final["data"]}) + 1
    BY <2>1, <2>0
  <2>3. /\ IsFiniteSet(used) /\ Cardinality(used) \in Nat
        /\ Cardinality(used) <= Cardinality((held \union {final["data"]}) \union {final["manifest"]}) + 1
    BY <2>2, <2>0
  <2>4. Cardinality(held) \in Nat /\ Cardinality(Loader) \in Nat
    BY <1>1, FS_CardinalityType DEF CacheAssumption
  <2> HIDE DEF used
  <2> QED BY <1>1, <2>1, <2>2, <2>3, <2>4
<1>3. ~ (File \subseteq used)
  <2> SUFFICES ASSUME File \subseteq used PROVE FALSE
    OBVIOUS
  <2> HIDE DEF used
  <2>1. Cardinality(File) <= Cardinality(used)
    BY <1>2, FS_Subset
  <2>2. Cardinality(File) \in Nat /\ Cardinality(used) \in Nat /\ Cardinality(Loader) \in Nat
    BY <1>2, FS_CardinalityType DEF CacheAssumption
  <2> QED BY <1>2, <2>1, <2>2 DEF CacheAssumption
<1>4. PICK f \in File : f \notin used
  BY <1>3
<1>5. f # None
  BY DEF CacheAssumption
<1>6. {final[i] : i \in Kind} \subseteq {final["data"], final["manifest"]}
  BY DEF Kind
<1>7. {temp[i] : i \in Kind} \subseteq {temp[other], None}
  BY DEF Kind
<1>8. f \notin {final[i] : i \in Kind} \union {temp[i] : i \in Kind} \union held
  BY <1>4, <1>5, <1>6, <1>7
<1> QED BY <1>8 DEF Free, held

\* A load that changes alone, to a sane one, keeps all loads sane when what
\* they rely on stays.
LEMMA OneMoved ==
    ASSUME CacheInv, NEW p \in Loader, NEW l \in LoadState,
           Move(p, l),
           given \subseteq given',
           \A k \in Kind : final[k] # None => final'[k] # None,
           DiskInv', Sane(l, final', given')
    PROVE  CacheInv'
<1>1. load' \in [Loader -> LoadState]
  BY DEF CacheInv, Move
<1>2. ASSUME NEW q \in Loader PROVE Sane(load'[q], final', given')
  <2>1. CASE q = p
    <3>1. load'[q] = l
      BY <2>1 DEF CacheInv, Move
    <3> QED BY <3>1 DEF Sane
  <2>2. CASE q # p
    <3>1. load'[q] = load[q] /\ Sane(load[q], final, given)
      BY <2>2 DEF CacheInv, Move
    <3> QED BY <3>1 DEF Sane
  <2> QED BY <2>1, <2>2
<1> QED BY <1>1, <1>2 DEF CacheInv

\* What a load is, as a record.
LEMMA LoadFields ==
    ASSUME CacheInv, NEW p \in Loader
    PROVE  /\ load[p] \in LoadState
           /\ load[p].frame \in Frame \union {None, Torn}
           /\ \A at \in Place : /\ [load[p] EXCEPT !.at = at] \in LoadState
                               /\ [load[p] EXCEPT !.at = at].at = at
                               /\ [load[p] EXCEPT !.at = at].frame = load[p].frame
                               /\ [load[p] EXCEPT !.at = at].file = load[p].file
                               /\ [load[p] EXCEPT !.at = at].manifest = load[p].manifest
BY DEF CacheInv, LoadState

LEMMA LoadingFields ==
    ASSUME NEW at \in Place, NEW frame \in Frame \union {None, Torn}, NEW file \in File \union {None}
    PROVE  /\ Loading(at, frame, file) \in LoadState
           /\ Loading(at, frame, file).at = at
           /\ Loading(at, frame, file).frame = frame
           /\ Loading(at, frame, file).file = file
BY DEF Loading, LoadState

(***************************************************************************)
(* The steps.                                                              *)
(***************************************************************************)
LEMMA ExistsSafe ==
    ASSUME CacheInv, NEW p \in Loader, Exists(p)
    PROVE  CacheInv'
<1> DEFINE at == IF \E k \in Kind : final[k] = None THEN "provider" ELSE "manifest"
           l == [load[p] EXCEPT !.at = at]
<1>1. at \in Place /\ Move(p, l) /\ DiskInv' /\ given' = given /\ final' = final
  BY DEF Exists, Place, Set, Disk, CacheInv, DiskInv
<1>2. l \in LoadState /\ l.at = at
  BY <1>1, LoadFields
<1>3. Sane(l, final', given')
  BY <1>1, <1>2 DEF Sane, Fetched
<1> HIDE DEF l
<1> QED BY <1>1, <1>2, <1>3, OneMoved

LEMMA ReadManifestSafe ==
    ASSUME CacheAssumption, CacheInv, NEW p \in Loader, ReadManifest(p)
    PROVE  CacheInv'
<1> DEFINE read == content[final["manifest"]]
           l == [Loading("data", None, None) EXCEPT !.manifest = read]
<1>1. Move(p, l) /\ DiskInv' /\ given' = given /\ final' = final
  BY DEF ReadManifest, Disk, Seen, CacheInv, DiskInv
<1>2. \A k \in Kind : final[k] # None /\ final[k] \in File
  BY DEF ReadManifest, At, CacheInv, DiskInv, Sane
<1>3. read \in given \union {Torn} /\ given \subseteq Frame
  BY <1>2 DEF CacheInv, DiskInv, Kind
<1>4. l \in LoadState /\ l.at = "data" /\ l.manifest = read
  BY <1>3 DEF Loading, LoadState, Place
<1>5. Sane(l, final', given')
  BY <1>1, <1>2, <1>3, <1>4 DEF Sane, Fetched
<1> HIDE DEF l
<1> QED BY <1>1, <1>4, <1>5, OneMoved

LEMMA ReadDataSafe ==
    ASSUME CacheAssumption, CacheInv, NEW p \in Loader, ReadData(p)
    PROVE  CacheInv'
<1> DEFINE data == content[final["data"]]
           hit == Hit(load[p].manifest, data)
           l == IF hit THEN Loading("lookup", data, None) ELSE Loading("provider", None, None)
<1>1. Move(p, l) /\ DiskInv' /\ given' = given /\ final' = final
  BY DEF ReadData, Disk, Seen, CacheInv, DiskInv
<1>2. hit => data \in given
  BY DEF ReadData, At, CacheInv, Sane, Hit
<1>3. given \subseteq Frame
  BY DEF CacheInv, DiskInv
<1> HIDE DEF data, hit
<1>4. l \in LoadState /\ l.at \in {"lookup", "provider"} /\ (l.at = "lookup" => l.frame \in given)
  <2>1. {"lookup", "provider"} \subseteq Place
    BY DEF Place, Fetched
  <2> QED BY <1>2, <1>3, <2>1, LoadingFields
<1>5. Sane(l, final', given')
  BY <1>1, <1>4 DEF Sane, Fetched
<1> HIDE DEF l
<1> QED BY <1>1, <1>4, <1>5, OneMoved

LEMMA ProvideSafe ==
    ASSUME CacheInv, NEW p \in Loader, Provide(p)
    PROVE  CacheInv'
<1>1. CASE \E frame \in Frame : Move(p, Loading("open data", frame, None))
                                /\ given' = given \union {frame}
  <2>1. PICK frame \in Frame : Move(p, Loading("open data", frame, None))
                                /\ given' = given \union {frame}
    BY <1>1
  <2> DEFINE l == Loading("open data", frame, None)
  <2>2. l \in LoadState /\ l.at = "open data" /\ l.frame = frame
    <3>1. "open data" \in Place
      BY DEF Place, Fetched
    <3> QED BY <3>1 DEF Loading, LoadState
  <2>3. final' = final /\ temp' = temp /\ content' = content /\ datasets' = datasets
    BY DEF Provide, Disk
  <2>4. DiskInv'
    BY <2>1, <2>3 DEF CacheInv, DiskInv
  <2>5. Sane(l, final', given')
    BY <2>1, <2>2 DEF Sane
  <2> HIDE DEF l
  <2> QED BY <2>1, <2>2, <2>3, <2>4, <2>5, OneMoved DEF l
<1>2. CASE Move(p, Idle) /\ given' = given
  <2>1. DiskInv' /\ final' = final
    BY <1>2 DEF Provide, Disk, CacheInv, DiskInv
  <2>2. Idle \in LoadState /\ Idle.at = "idle"
    BY LoadingFields DEF Idle, Place
  <2>3. Sane(Idle, final', given')
    BY <2>2 DEF Sane, Fetched
  <2> QED BY <1>2, <2>1, <2>2, <2>3, OneMoved
<1> QED BY <1>1, <1>2 DEF Provide

LEMMA OpenSafe ==
    ASSUME CacheAssumption, CacheInv, NEW p \in Loader, NEW k \in Kind,
           NEW from \in Fetched, NEW to \in Fetched, Open(p, k, from, to)
    PROVE  CacheInv'
<1> DEFINE file == IF temp[k] = None THEN Free ELSE temp[k]
           l == Loading(to, load[p].frame, file)
<1>1. file \in File
  BY FileIsFree DEF CacheInv, DiskInv
<1>2. /\ temp' = [temp EXCEPT ![k] = file] /\ content' = [content EXCEPT ![file] = Torn]
      /\ Move(p, l) /\ final' = final /\ given' = given /\ datasets' = datasets
  BY DEF Open, Seen
<1> HIDE DEF file
<1>3. DiskInv'
  BY <1>1, <1>2 DEF CacheInv, DiskInv
<1>4. load[p].frame \in given /\ load[p].frame \in Frame \union {None, Torn}
  BY LoadFields DEF Open, At, CacheInv, Sane
<1>5. to \in Place
  BY DEF Place
<1>6. l \in LoadState /\ l.at = to /\ l.frame = load[p].frame /\ l.file = file
  BY <1>1, <1>4, <1>5, LoadingFields
<1>7. Sane(l, final', given')
  BY <1>1, <1>2, <1>4, <1>6 DEF Sane, Fetched
<1> HIDE DEF l
<1> QED BY <1>2, <1>3, <1>6, <1>7, OneMoved

LEMMA CloseSafe ==
    ASSUME CacheInv, NEW p \in Loader, NEW k \in Kind,
           NEW from \in {"close data", "close manifest"}, NEW to \in {"open manifest", "rename data"},
           Close(p, k, from, to)
    PROVE  CacheInv'
<1> DEFINE l == Loading(to, load[p].frame, None)
<1>1. /\ load[p].frame \in given /\ load[p].frame \in Frame \union {None, Torn}
      /\ load[p].file \in File
  BY LoadFields DEF Close, At, CacheInv, Sane, Fetched
<1>2. PICK value \in {load[p].frame, Torn} : content' = [content EXCEPT ![load[p].file] = value]
  BY DEF Close
<1>3. Move(p, l) /\ final' = final /\ temp' = temp /\ given' = given /\ datasets' = datasets
  BY DEF Close, Seen
<1>4. DiskInv'
  BY <1>1, <1>2, <1>3 DEF CacheInv, DiskInv
<1>5. to \in Place
  BY DEF Place, Fetched
<1>6. l \in LoadState /\ l.at = to /\ l.frame = load[p].frame
  BY <1>1, <1>5 DEF Loading, LoadState
<1>7. Sane(l, final', given')
  BY <1>1, <1>3, <1>6 DEF Sane, Fetched
<1> HIDE DEF l
<1> QED BY <1>3, <1>4, <1>6, <1>7, OneMoved

LEMMA IdleSane ==
    /\ Idle \in LoadState
    /\ \A names, frames : Sane(Idle, names, frames)
<1>1. "idle" \in Place
  BY DEF Place
<1>2. Idle \in LoadState /\ Idle.at = "idle"
  BY <1>1, LoadingFields DEF Idle
<1> QED BY <1>2 DEF Sane, Fetched

LEMMA RenameSafe ==
    ASSUME CacheAssumption, CacheInv, NEW p \in Loader, NEW k \in Kind,
           NEW from \in Fetched, NEW to \in {"rename manifest", "lookup"}, Rename(p, k, from, to)
    PROVE  CacheInv'
<1>1. CASE temp[k] = None
  <2>1. Move(p, Idle) /\ DiskInv' /\ final' = final /\ given' = given
    BY <1>1 DEF Rename, Disk, Seen, CacheInv, DiskInv
  <2> QED BY <2>1, IdleSane, OneMoved
<1>2. CASE temp[k] # None
  <2> DEFINE l == [load[p] EXCEPT !.at = to]
  <2>1. /\ final' = [final EXCEPT ![k] = temp[k]] /\ temp' = [temp EXCEPT ![k] = None]
        /\ content' = IF final[k] = None THEN content ELSE [content EXCEPT ![final[k]] = Torn]
        /\ Move(p, l) /\ given' = given /\ datasets' = datasets
    BY <1>2 DEF Rename, Seen, Set
  <2>2. DiskInv' /\ \A i \in Kind : final[i] # None => final'[i] # None
    BY <1>2, <2>1 DEF CacheInv, DiskInv
  <2>3. to \in Place
    BY DEF Place, Fetched
  <2>4. l \in LoadState /\ l.at = to /\ l.frame = load[p].frame
    BY <2>3, LoadFields
  <2>5. load[p].frame \in given
    BY DEF Rename, At, CacheInv, Sane
  <2> HIDE DEF l
  <2>6. Sane(l, final', given')
    BY <2>1, <2>4, <2>5 DEF Sane
  <2> QED BY <2>1, <2>2, <2>4, <2>6, OneMoved
<1> QED BY <1>1, <1>2

LEMMA LookupSafe ==
    ASSUME CacheInv, NEW p \in Loader, Lookup(p)
    PROVE  CacheInv'
<1> DEFINE l == [load[p] EXCEPT !.at = "insert"]
<1>1. DiskInv' /\ final' = final /\ given' = given /\ (Move(p, Idle) \/ Move(p, l))
  BY DEF Lookup, Set, Disk, Seen, CacheInv, DiskInv
<1>2. "insert" \in Place
  BY DEF Place, Fetched
<1>3. l \in LoadState /\ l.at = "insert" /\ l.frame = load[p].frame
  BY <1>2, LoadFields
<1>4. load[p].frame \in given
  BY DEF Lookup, At, CacheInv, Sane, Fetched
<1>5. Sane(l, final', given')
  BY <1>1, <1>3, <1>4 DEF Sane
<1> HIDE DEF l
<1> QED BY <1>1, <1>3, <1>5, IdleSane, OneMoved

LEMMA InsertSafe ==
    ASSUME CacheInv, NEW p \in Loader, Insert(p)
    PROVE  CacheInv'
<1>1. load[p].frame \in given
  BY DEF Insert, At, CacheInv, Sane, Fetched
<1>2. /\ datasets' = datasets \union {load[p].frame} /\ Move(p, Idle)
      /\ final' = final /\ temp' = temp /\ content' = content /\ given' = given
  BY DEF Insert, Disk
<1>3. DiskInv'
  BY <1>1, <1>2 DEF CacheInv, DiskInv
<1> QED BY <1>2, <1>3, IdleSane, OneMoved

LEMMA CrashSafe ==
    ASSUME CacheInv, NEW p \in Loader, Crash(p)
    PROVE  CacheInv'
<1>1. Move(p, Idle) /\ DiskInv' /\ final' = final /\ given' = given
  BY DEF Crash, Disk, Seen, CacheInv, DiskInv
<1> QED BY <1>1, IdleSane, OneMoved

LEMMA PutSafe ==
    ASSUME CacheAssumption, CacheInv, NEW p \in Loader, Put(p)
    PROVE  CacheInv'
<1>1. {"data", "manifest"} = Kind /\ \A x \in {"open data", "close data", "open manifest",
           "close manifest", "rename data", "rename manifest", "lookup"} : x \in Fetched
  BY DEF Kind, Fetched
<1>2. CASE Open(p, "data", "open data", "close data")
  BY <1>1, <1>2, OpenSafe
<1>3. CASE Close(p, "data", "close data", "open manifest")
  BY <1>1, <1>3, CloseSafe
<1>4. CASE Open(p, "manifest", "open manifest", "close manifest")
  BY <1>1, <1>4, OpenSafe
<1>5. CASE Close(p, "manifest", "close manifest", "rename data")
  BY <1>1, <1>5, CloseSafe
<1>6. CASE Rename(p, "data", "rename data", "rename manifest")
  BY <1>1, <1>6, RenameSafe
<1>7. CASE Rename(p, "manifest", "rename manifest", "lookup")
  BY <1>1, <1>7, RenameSafe
<1> QED BY <1>2, <1>3, <1>4, <1>5, <1>6, <1>7 DEF Put

(***************************************************************************)
(* Theorems.                                                               *)
(***************************************************************************)
LEMMA CacheKept ==
    ASSUME CacheAssumption
    PROVE  Spec => []CacheInv
<1>1. Init => CacheInv
  <2> SUFFICES ASSUME Init PROVE CacheInv
    OBVIOUS
  <2>1. DiskInv /\ load \in [Loader -> LoadState] /\ \A p \in Loader : load[p] = Idle
    BY IdleSane DEF Init, DiskInv
  <2> QED BY <2>1, IdleSane DEF CacheInv
<1>2. CacheInv /\ [Next]_vars => CacheInv'
  <2> SUFFICES ASSUME CacheInv, [Next]_vars PROVE CacheInv'
    OBVIOUS
  <2>1. CASE UNCHANGED vars
    BY <2>1 DEF vars, CacheInv, DiskInv, Sane
  <2>2. ASSUME NEW p \in Loader, Exists(p) PROVE CacheInv'
    BY <2>2, ExistsSafe
  <2>3. ASSUME NEW p \in Loader, ReadManifest(p) \/ ReadData(p) PROVE CacheInv'
    BY <2>3, ReadManifestSafe, ReadDataSafe
  <2>4. ASSUME NEW p \in Loader, Provide(p) PROVE CacheInv'
    BY <2>4, ProvideSafe
  <2>5. ASSUME NEW p \in Loader, Put(p) PROVE CacheInv'
    BY <2>5, PutSafe
  <2>6. ASSUME NEW p \in Loader, Lookup(p) \/ Insert(p) \/ Crash(p) PROVE CacheInv'
    BY <2>6, LookupSafe, InsertSafe, CrashSafe
  <2> QED BY <2>1, <2>2, <2>3, <2>4, <2>5, <2>6 DEF Next
<1> QED BY <1>1, <1>2, PTL DEF Spec

\* Every frame that a load returns and every version that is registered was
\* given by the provider, for any number of processes that put and get one
\* key, tear each other's files and crash anywhere.
THEOREM LoadsAlwaysProvided ==
    ASSUME CacheAssumption
    PROVE  Spec => []LoadsAreProvided
<1>1. CacheInv => LoadsAreProvided
  BY DEF CacheInv, DiskInv, Sane, Fetched, LoadsAreProvided
<1> QED BY <1>1, CacheKept, PTL

\* The names of a key refer to files, and what a file or a load holds is a frame
\* or torn, for any number of processes that put and get it.
THEOREM CacheTypes ==
    ASSUME CacheAssumption
    PROVE  Spec => []TypeOK
<1>1. CacheInv => TypeOK
  <2>. SUFFICES ASSUME CacheInv
                PROVE  TypeOK
    OBVIOUS
  <2>1. /\ final \in [Kind -> File \union {None}] /\ temp \in [Kind -> File \union {None}]
        /\ content \in [File -> given \union {Torn}] /\ given \subseteq Frame
    BY DEF CacheInv, DiskInv
  <2>2. \A p \in Loader : load[p].frame \in Frame \union {None, Torn}
    BY DEF CacheInv, LoadState
  <2>3. content \in [File -> Frame \union {Torn}]
    BY <2>1
  <2>. QED
    BY <2>1, <2>2, <2>3 DEF TypeOK
<1> QED BY <1>1, CacheKept, PTL
=============================================================================
