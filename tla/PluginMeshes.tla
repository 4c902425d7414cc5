---------------------------- MODULE PluginMeshes ----------------------------
(***************************************************************************)
(* Meshes read through iterators, and the libraries that read them.  MDAL  *)
(* finds drivers in the libraries of a folder (Library, DriverDynamic); a  *)
(* mesh of such a driver is an id the plugin gave out, and each iterator   *)
(* keeps that id, a position and its own copy of the library, so it may    *)
(* outlive the mesh.  The iterators of a MemoryMesh point into the mesh.   *)
(* Copies of a Library count their references by hand; the library is      *)
(* closed when the count gets to 0.                                        *)
(***************************************************************************)
EXTENDS Integers, Sequences, FiniteSets, FiniteSetsExt, Functions

CONSTANTS
    Plugins,       \* the libraries in MDAL_DRIVER_PATH
    Exports,       \* [Plugins -> {"all", "no mesh functions", "no open", "no driver"}]
    Style,         \* [Plugins -> {"dfs", "example"}]: dhi_dfs or minimal_example
    DatasetCount,  \* [Plugins -> Nat]: the datasets of its file, all groups together
    Handles,       \* the mesh handles of the client
    Iterators,     \* its iterator handles
    Shape,         \* [Plugins \cup {"memory"} -> [vertices, edges, faces]]: the mesh in the file
    FaceMax,       \* faceVerticesMaximumCount of these meshes
    Blocks,        \* the pairs <<items, vertex indices>> of buffer sizes the client uses
    MaxOpened,     \* bound: meshes the plugins open, all together
    MaxRefs        \* bound: references of the libraries, all together

Kinds == {"vertices", "edges", "faces"}
Sources == Plugins \cup {"memory"}

ASSUME PluginMeshesAssumption ==
    /\ {"memory", "none"} \cap Plugins = {}
    /\ IsFiniteSet(Handles) /\ IsFiniteSet(Iterators)
    /\ Exports \in [Plugins -> {"all", "no mesh functions", "no open", "no driver"}]
    /\ Style \in [Plugins -> {"dfs", "example"}]
    /\ DatasetCount \in [Plugins -> Nat]
    /\ FaceMax \in Nat /\ MaxOpened \in Nat /\ MaxRefs \in Nat
    /\ Shape \in [Sources -> [vertices : Nat, edges : Nat, faces : Seq(1..FaceMax)]]
    /\ Blocks \subseteq (Nat \ {0}) \X {n \in Nat : n >= FaceMax /\ n > 0}

VARIABLES
    registered,   \* mDrivers, its dynamic drivers
    refs,         \* mRef of each library
    loaded,       \* the libraries that are open: mLibrary
    sMeshes,      \* [Plugins -> id -> the open mesh behind it]
    opened,       \* [Plugins -> Nat]: meshes opened so far, sIdGenerator
    meshes,       \* [Handles -> the mesh of the client]
    iterators     \* [Iterators -> the iterator of the client]

libraries == <<registered, refs, loaded>>
plugins == <<sMeshes, opened>>
vars == <<registered, refs, loaded, sMeshes, opened, meshes, iterators>>

-----------------------------------------------------------------------------
(* A mesh of a plugin keeps where the next block of faces begins in its    *)
(* connectivity (mNextFaceIndexForConnectivity, mNextConnectivityPosition);*)
(* no says which of the opened meshes it is.                               *)
OpenMesh(n) == [no |-> n, nextFace |-> 0, nextPosition |-> 0]

NoMesh == [source |-> "none", id |-> -1, no |-> -1]
Mesh(source, id, n) == [source |-> source, id |-> id, no |-> n]

(* got is what next() has written, block after block.                      *)
NoIterator ==
    [source |-> "none", id |-> -1, no |-> -1, kind |-> "none", position |-> 0,
     got |-> <<>>, ended |-> FALSE]

NewIterator(m, kind) ==
    [source |-> m.source, id |-> m.id, no |-> m.no, kind |-> kind,
     position |-> 0, got |-> <<>>, ended |-> FALSE]

(* Where face k (from 0) begins in the connectivity of the mesh.           *)
BeginsOf(sizes) ==
    LET b[k \in 0..Len(sizes)] == IF k = 0 THEN 0 ELSE b[k - 1] + sizes[k]
    IN  b

Begins == [s \in Sources |-> BeginsOf(Shape[s].faces)]

Begin(source, k) == Begins[source][k]

Count(source, kind) ==
    IF kind = "faces" THEN Len(Shape[source].faces) ELSE Shape[source][kind]

(* Item k (from 1) of a mesh: of which mesh, where it was copied from and  *)
(* how much of it.                                                         *)
Item(no, at, size) == [mesh |-> no, at |-> at, size |-> size]

ItemOf(source, no, kind, k) ==
    IF kind = "faces"
    THEN Item(no, Begin(source, k - 1), Shape[source].faces[k])
    ELSE Item(no, k - 1, 1)

ItemsOf(source, no, kind) ==
    [k \in 1..Count(source, kind) |-> ItemOf(source, no, kind, k)]

-----------------------------------------------------------------------------
(* Library: a copy adds one reference in operator= and one more in the     *)
(* copy constructor that calls it; the destructor takes one and closes the *)
(* library with the last.                                                  *)
CopyReferences == 2

References(p, copies, destroyed) == refs[p] + copies * CopyReferences - destroyed

SetReferences(p, n) ==
    /\ refs' = [refs EXCEPT ![p] = n]
    /\ loaded' = [loaded EXCEPT ![p] = @ /\ n > 0]

(* The objects that hold a copy of the library.                            *)
MeshesOf(p) == {h \in Handles : meshes[h].source = p}
IteratorsOf(p) == {i \in Iterators : iterators[i].source = p}

InUse(p) == p \in registered \/ MeshesOf(p) # {} \/ IteratorsOf(p) # {}

-----------------------------------------------------------------------------
(* DriverManager::loadDynamicDrivers.  DriverDynamic::create(libFile): a   *)
(* local Library, opened by the first getSymbol, and a copy of it in the   *)
(* driver; the local one goes at the end, and so does the driver when a    *)
(* function is missing.                                                    *)
ReferencesAfterCreate(p) ==
    CASE Exports[p] = "no driver" -> 1 - 1
      [] Exports[p] = "no open"   -> 1 + CopyReferences - 1 - 1
      [] OTHER                    -> 1 + CopyReferences - 1

LoadDynamicDrivers ==
    /\ registered = {} /\ \A p \in Plugins : refs[p] = 0
    /\ registered' = {p \in Plugins : Exports[p] \notin {"no driver", "no open"}}
    /\ refs' = [p \in Plugins |-> ReferencesAfterCreate(p)]
    /\ loaded' = [p \in Plugins |-> ReferencesAfterCreate(p) > 0]
    /\ UNCHANGED <<sMeshes, opened, meshes, iterators>>

(* MDAL_DRIVER_openMesh: sIdGenerator++.                                   *)
NewId(p) == opened[p]

PluginOpens(p) ==
    /\ sMeshes' = [sMeshes EXCEPT ![p] =
                      [id \in DOMAIN @ \cup {NewId(p)} |->
                          IF id = NewId(p) THEN OpenMesh(opened[p]) ELSE @[id]]]
    /\ opened' = [opened EXCEPT ![p] = @ + 1]

(* DriverManager::load: a fresh instance of the driver (one copy) loads    *)
(* the mesh and goes; the mesh keeps a copy, each of its datasets another. *)
LoadMesh(h, p) ==
    /\ p \in registered /\ meshes[h] = NoMesh
    /\ Exports[p] = "all" /\ SumFunction(opened) < MaxOpened
    /\ PluginOpens(p)
    /\ meshes' = [meshes EXCEPT ![h] = Mesh(p, NewId(p), opened[p])]
    /\ SetReferences(p, References(p, 2 + DatasetCount[p], 1))
    /\ SumFunction(refs') <= MaxRefs
    /\ UNCHANGED <<registered, iterators>>

(* The instance goes without a mesh: openMesh answers -1.                  *)
OpenRefused(p) ==
    /\ p \in registered
    /\ SetReferences(p, References(p, 1, 1))
    /\ SumFunction(refs') <= MaxRefs
    /\ UNCHANGED <<registered, sMeshes, opened, meshes, iterators>>

(* loadSymbol or populateDatasetGroups fails after n datasets: the mesh is *)
(* destroyed, which closes it in the plugin.                               *)
PopulateFails(p, n) ==
    /\ p \in registered /\ SumFunction(opened) < MaxOpened
    /\ Exports[p] = "no mesh functions" => n = 0
    /\ opened' = [opened EXCEPT ![p] = @ + 1]
    /\ SetReferences(p, References(p, 2 + n, 2 + n))
    /\ SumFunction(refs') <= MaxRefs
    /\ UNCHANGED <<registered, sMeshes, meshes, iterators>>

LoadMemoryMesh(h) ==
    /\ meshes[h] = NoMesh
    /\ meshes' = [meshes EXCEPT ![h] = Mesh("memory", 0, 0)]
    /\ UNCHANGED <<registered, refs, loaded, sMeshes, opened, iterators>>

(* ~MeshDynamicDriver: MDAL_DRIVER_closeMesh, then the libraries of its    *)
(* datasets and its own.                                                   *)
CloseMesh(h) ==
    LET m == meshes[h] IN
    /\ m.source \in Plugins
    /\ sMeshes' = [sMeshes EXCEPT ![m.source] = Restrict(@, DOMAIN @ \ {m.id})]
    /\ meshes' = [meshes EXCEPT ![h] = NoMesh]
    /\ SetReferences(m.source, References(m.source, 0, 1 + DatasetCount[m.source]))
    /\ UNCHANGED <<registered, opened, iterators>>

(* The iterators of a MemoryMesh hold a bare pointer to it: here, as in    *)
(* MDAL's own loops, they go before the mesh.                              *)
CloseMemoryMesh(h) ==
    /\ meshes[h].source = "memory"
    /\ \A i \in Iterators : iterators[i].source # "memory"
    /\ meshes' = [meshes EXCEPT ![h] = NoMesh]
    /\ UNCHANGED <<registered, refs, loaded, sMeshes, opened, iterators>>

-----------------------------------------------------------------------------
(* Mutant: an iterator takes the library without counting it.              *)
OpenIteratorUncounted(i, h, kind) ==
    /\ iterators[i] = NoIterator /\ meshes[h] # NoMesh
    /\ iterators' = [iterators EXCEPT ![i] = NewIterator(meshes[h], kind)]
    /\ UNCHANGED <<registered, refs, loaded, sMeshes, opened, meshes>>

(* MDAL_M_vertexIterator, MDAL_M_edgeIterator, MDAL_M_faceIterator.        *)
OpenIterator(i, h, kind) ==
    LET p == meshes[h].source IN
    /\ iterators[i] = NoIterator /\ meshes[h] # NoMesh
    /\ iterators' = [iterators EXCEPT ![i] = NewIterator(meshes[h], kind)]
    /\ \/ p = "memory" /\ UNCHANGED <<refs, loaded>>
       \/ p \in Plugins /\ SetReferences(p, References(p, 1, 0)) /\ SumFunction(refs') <= MaxRefs
    /\ UNCHANGED <<registered, sMeshes, opened, meshes>>

(* MDAL_VI_close, MDAL_EI_close, MDAL_FI_close.                            *)
CloseIterator(i) ==
    LET p == iterators[i].source IN
    /\ iterators[i] # NoIterator
    /\ iterators' = [iterators EXCEPT ![i] = NoIterator]
    /\ \/ p = "memory" /\ UNCHANGED <<refs, loaded>>
       \/ p \in Plugins /\ SetReferences(p, References(p, 0, 1))
    /\ UNCHANGED <<registered, sMeshes, opened, meshes>>

-----------------------------------------------------------------------------
(* next() writes what fits the buffers: at most n items, and of faces no   *)
(* more than len vertex indices.                                           *)
Smaller(a, b) == IF a <= b THEN a ELSE b

(* MemoryMeshFaceIterator::next: a face is taken while the largest one     *)
(* would fit.                                                              *)
FacesFromMemory(pos, rest, len) ==
    Max({e \in 0..rest :
            e > 0 => Begin("memory", pos + e - 1) - Begin("memory", pos) + FaceMax <= len})

(* Mutant: a face that fills the buffer exactly is left out.               *)
FacesThatLeaveRoom(p, pos, rest, len) ==
    Max({e \in 0..rest : e > 0 => Begin(p, pos + e) - Begin(p, pos) < len})

(* Mesh::connectivity: a face is taken when it fits.                       *)
FacesFromDfs(p, pos, rest, len) ==
    Max({e \in 0..rest : Begin(p, pos + e) - Begin(p, pos) <= len})

(* The mesh a plugin finds behind the id: sMeshes.find( meshId ).          *)
Found(it) == it.source = "memory" \/ it.id \in DOMAIN sMeshes[it.source]

ItemsRead(it, n, len) ==
    LET rest == Smaller(n, Count(it.source, it.kind) - it.position) IN
    IF ~Found(it) THEN 0
    ELSE IF it.kind # "faces" THEN rest
    ELSE IF it.source = "memory" THEN FacesFromMemory(it.position, rest, len)
    ELSE IF Style[it.source] = "dfs" THEN FacesFromDfs(it.source, it.position, rest, len)
    ELSE rest

(* connectivityPosition: the cached one when the block begins where the    *)
(* last one ended.                                                         *)
ConnectivityPosition(p, mesh, pos) ==
    IF pos = mesh.nextFace THEN mesh.nextPosition ELSE Begin(p, pos)

FaceCopied(it, k) ==
    LET p     == it.source
        start == IF p # "memory" /\ Style[p] = "dfs"
                 THEN ConnectivityPosition(p, sMeshes[p][it.id], it.position)
                 ELSE Begin(p, it.position)
    IN  start + Begin(p, k - 1) - Begin(p, it.position)

(* MDAL_DRIVER_M_vertices and M_edges of the example copy from the first   *)
(* item on, whatever startIndex is.                                        *)
CopiesFromStart(it) ==
    /\ it.source \in Plugins /\ Style[it.source] = "example"
    /\ it.kind # "faces"

ItemCopied(it, no, k) ==
    CASE it.kind = "faces"   -> Item(no, FaceCopied(it, k), Shape[it.source].faces[k])
      [] CopiesFromStart(it) -> Item(no, k - 1 - it.position, 1)
      [] OTHER               -> Item(no, k - 1, 1)

NumberRead(it) == IF it.source = "memory" THEN it.no ELSE sMeshes[it.source][it.id].no

(* Mutant: the -1 of the plugin moves the position as any count does.      *)
MovedBack(it, e) ==
    [it EXCEPT !.position = IF e = 0 /\ ~Found(it) THEN @ - 1 ELSE @ + e,
               !.got = [k \in 1..(it.position + e) |-> Item(it.no, k - 1, 1)]]

(* Mutant: the position stays when the block is not empty.                 *)
NotAdvanced(it, e) == IF e = 0 THEN [it EXCEPT !.ended = TRUE] ELSE it

Advanced(it, e) ==
    IF e = 0
    THEN [it EXCEPT !.ended = TRUE]
    ELSE [it EXCEPT
            !.got = [k \in 1..(it.position + e) |->
                        IF k <= it.position THEN it.got[k] ELSE ItemCopied(it, NumberRead(it), k)],
            !.position = @ + e]

(* The cache of the mesh, moved unless the block reaches the last face.    *)
Cached(mesh, it, e) ==
    IF it.position + e >= Count(it.source, "faces") THEN mesh
    ELSE [mesh EXCEPT
            !.nextFace = it.position + e,
            !.nextPosition = ConnectivityPosition(it.source, mesh, it.position)
                             + Begin(it.source, it.position + e) - Begin(it.source, it.position)]

UsesCache(it) ==
    it.kind = "faces" /\ it.source \in Plugins /\ Style[it.source] = "dfs" /\ Found(it)

(* The buffers of the example's caller hold its largest faces: it looks at *)
(* len only once the buffer is full.                                       *)
BuffersHold(it, n, len) ==
    it.kind = "faces" /\ it.source \in Plugins /\ Style[it.source] = "example"
        => n * FaceMax <= len

(* MDAL_VI_next, MDAL_EI_next, MDAL_FI_next; -1 of the plugin becomes 0.   *)
IteratorNext(i, n, len) ==
    LET it == iterators[i]
        e  == ItemsRead(it, n, len)
    IN  /\ it # NoIterator /\ BuffersHold(it, n, len)
        /\ iterators' = [iterators EXCEPT ![i] = Advanced(it, e)]
        /\ sMeshes' = IF UsesCache(it)
                      THEN [sMeshes EXCEPT ![it.source][it.id] = Cached(@, it, e)]
                      ELSE sMeshes
        /\ UNCHANGED <<registered, refs, loaded, opened, meshes>>

NextBlock(i) == \E b \in Blocks : IteratorNext(i, b[1], b[2])

-----------------------------------------------------------------------------
PluginInit ==
    /\ registered = {}
    /\ refs = [p \in Plugins |-> 0]
    /\ loaded = [p \in Plugins |-> FALSE]
    /\ sMeshes = [p \in Plugins |-> <<>>]
    /\ opened = [p \in Plugins |-> 0]
    /\ meshes = [h \in Handles |-> NoMesh]
    /\ iterators = [i \in Iterators |-> NoIterator]

PluginNext ==
    \/ LoadDynamicDrivers
    \/ \E p \in Plugins :
          \/ OpenRefused(p)
          \/ \E h \in Handles : LoadMesh(h, p)
          \/ \E n \in 0..DatasetCount[p] : PopulateFails(p, n)
    \/ \E h \in Handles :
          \/ LoadMemoryMesh(h)
          \/ CloseMesh(h)
          \/ CloseMemoryMesh(h)
          \/ \E i \in Iterators, kind \in Kinds : OpenIterator(i, h, kind)
    \/ \E i \in Iterators : CloseIterator(i) \/ NextBlock(i)

PluginSpec == PluginInit /\ [][PluginNext]_vars

(* A loop that reads blocks (MDAL's own over a mesh it saves, a client's)  *)
(* asks for the next block until one is empty.                             *)
FairPluginSpec == PluginSpec /\ \A i \in Iterators : WF_vars(NextBlock(i))

-----------------------------------------------------------------------------
(* Type correctness of the iterators, the plugins' meshes and the counts.  *)
PluginTypeOK ==
    /\ registered \subseteq Plugins
    /\ refs \in [Plugins -> Nat] /\ loaded \in [Plugins -> BOOLEAN]
    /\ opened \in [Plugins -> Nat]
    /\ \A p \in Plugins : \A id \in DOMAIN sMeshes[p] :
          sMeshes[p][id] \in [no : Nat, nextFace : Nat, nextPosition : Nat]
    /\ meshes \in [Handles -> [source : Sources \cup {"none"}, id : Int, no : Int]]
    /\ \A i \in Iterators : iterators[i].position = Len(iterators[i].got)

(* While a driver, a mesh or an iterator still calls into a library, it is *)
(* open: the references counted by hand (Library) never run out before the *)
(* last of them, iterators that outlive their mesh included.               *)
LibraryStays == \A p \in Plugins : InUse(p) => loaded[p]

(* A loop over an iterator ends: every block moves the position, and the   *)
(* plugin answers -1 or 0 at the end or once the mesh is closed.           *)
ReadingEnds ==
    \A i \in Iterators :
        iterators[i] # NoIterator ~> (iterators[i] = NoIterator \/ iterators[i].ended)

(* Each iterator is a reader of BlockReader: it delivers the next items of *)
(* its mesh, and answers 0 at the end, or when the mesh is gone.  Of the   *)
(* items the example copies from the start only the number counts here.    *)
ReaderOf(it) ==
    IF it = NoIterator
    THEN [items |-> <<>>, read |-> <<>>, reading |-> "no", gone |-> FALSE]
    ELSE [items |-> ItemsOf(it.source, it.no, it.kind),
          read |-> IF CopiesFromStart(it)
                   THEN [k \in DOMAIN it.got |-> ItemOf(it.source, it.no, it.kind, k)]
                   ELSE it.got,
          reading |-> IF it.ended THEN "over" ELSE "yes", gone |-> ~Found(it)]

Reader == INSTANCE BlockReader WITH
    Readers <- Iterators,
    Items <- [mesh : Int, at : Nat, size : Nat],
    readers <- [i \in Iterators |-> ReaderOf(iterators[i])]

ReaderSpec == Reader!ReaderSpec
=============================================================================
