---------------------------- MODULE MemoryMesh ----------------------------
(***************************************************************************)
(* The mesh half of the C API over MDAL::MemoryMesh: create, extend with   *)
(* vertices, faces and edges, save, close and load again.  One client, one *)
(* open mesh (the library is single-threaded and meshes share no state).   *)
(*                                                                         *)
(* A face is abstracted to its size and to the lowest and highest vertex   *)
(* index it names: the code distinguishes no more.  An edge keeps its two  *)
(* indices; a negative one stands for the huge size_t it is stored as.     *)
(***************************************************************************)
EXTENDS Drivers, Sequences, SequencesExt

CONSTANTS
    MeshFiles,      \* names of mesh files
    FaceInputs,     \* faces a client passes to MDAL_M_addFaces, bad ones too
    EdgeInputs,     \* edges a client passes to MDAL_M_addEdges, bad ones too
    VertexBatches,  \* vertex counts a client passes to MDAL_M_addVertices
    MaxVertices,    \* bound on the vertices of a mesh
    MaxElements,    \* bound on its faces and edges together
    MaxBatch        \* bound on the faces or edges of one call

ASSUME FaceInputsAssumption ==
    FaceInputs \subseteq
        {f \in [size : Nat \ {0}, low : Int, high : Int] : f.low <= f.high}
ASSUME EdgeInputsAssumption == EdgeInputs \subseteq [start : Int, end : Int]
ASSUME VertexBatchesAssumption == VertexBatches \subseteq Nat
ASSUME MeshBoundsAssumption ==
    MaxVertices \in Nat /\ MaxElements \in Nat /\ MaxBatch \in Nat

VARIABLES
    alive,      \* FALSE once an exception has left the library
    open,       \* the client holds a mesh
    driver,     \* Mesh::mDriverName
    nVertices,  \* MemoryMesh::mVertices.size()
    faces,      \* MemoryMesh::mFaces
    edges,      \* MemoryMesh::mEdges
    faceMax,    \* Mesh::mFaceVerticesMaximumCount
    meshDisk,   \* what each mesh file holds
    status      \* Log's sLastStatus

topology == <<nVertices, faces, edges, faceMax>>
meshVars == <<alive, open, driver, nVertices, faces, edges, faceMax, meshDisk, status>>

-----------------------------------------------------------------------------
Face == {f \in [size : Nat, low : Nat, high : Nat] : f.low <= f.high}
Edge == [start : Int, end : Int]

(* The mesh as a value: what SaveMesh is asked to save.                    *)
Mesh == [nVertices : Nat, faces : Seq(Face), edges : Seq(Edge), faceMax : Nat]

TheMesh == [nVertices |-> nVertices, faces |-> faces,
            edges |-> edges, faceMax |-> faceMax]

(* A mesh file: the mesh its writer was given, the face and edge records   *)
(* that reached it, and whether the writing call returned with no error.   *)
NoFile == [format |-> "none"]
MeshFile == [format : {"2DM", "PLY"}, saved : Mesh, faces : Seq(Face),
             edges : Seq(Edge), whole : BOOLEAN]

(* Stands for a second copy of the last ND line in the list of element     *)
(* lines of a .2dm file.                                                   *)
VertexLine == [size |-> 0, low |-> 0, high |-> 0]

IsMaxOf(m, S) == m \in S /\ \A s \in S : s <= m

HasRoom(batch) == Len(faces) + Len(edges) + Len(batch) <= MaxElements

Sizes(fs) == {fs[i].size : i \in DOMAIN fs}

-----------------------------------------------------------------------------
(* Mutant: an empty mesh starts from its driver's limit.                   *)
CreateMeshFromLimit(d) ==
    /\ alive /\ ~open
    /\ open' = TRUE /\ driver' = d
    /\ nVertices' = 0 /\ faces' = <<>> /\ edges' = <<>>
    /\ faceMax' = FaceVerticesMaximumCount(d)
    /\ UNCHANGED <<alive, meshDisk, status>>

(* MDAL_CreateMesh: any driver will do, whatever its capabilities.         *)
CreateMesh(d) ==
    /\ alive /\ ~open
    /\ open' = TRUE /\ driver' = d
    /\ nVertices' = 0 /\ faces' = <<>> /\ edges' = <<>> /\ faceMax' = 0
    /\ UNCHANGED <<alive, meshDisk, status>>

(* No mesh is open any more.                                               *)
MeshGone ==
    /\ open' = FALSE /\ driver' = "none"
    /\ nVertices' = 0 /\ faces' = <<>> /\ edges' = <<>> /\ faceMax' = 0

CloseMesh ==
    /\ alive /\ open
    /\ MeshGone
    /\ UNCHANGED <<alive, meshDisk, status>>

(* Any of the editing calls and MDAL_SaveMesh on a null handle.            *)
NullMesh ==
    /\ alive /\ ~open
    /\ status' = "Err_IncompatibleMesh"
    /\ UNCHANGED <<alive, open, driver, topology, meshDisk>>

AddVertices(n) ==
    /\ alive /\ open /\ nVertices + n <= MaxVertices
    /\ nVertices' = nVertices + n
    /\ status' = "None"
    /\ UNCHANGED <<alive, open, driver, faces, edges, faceMax, meshDisk>>

-----------------------------------------------------------------------------
(* MDAL_M_addFaces.  The driver's limit is an int passed as a size_t: a    *)
(* driver that declares none (-1) limits nothing.                          *)
TooLarge(f) ==
    /\ FaceVerticesMaximumCount(driver) # NoFaceLimit
    /\ f.size > FaceVerticesMaximumCount(driver)

(* Mutant: the index one past the last vertex is let through.              *)
BadIndexOffByOne(f) == f.low < 0 \/ f.high > nVertices

BadIndex(f) == f.low < 0 \/ f.high >= nVertices

Rejected(f) == TooLarge(f) \/ BadIndex(f)

(* The faces the loop looks at: it returns at the first one it rejects.    *)
Visited(batch) ==
    {i \in DOMAIN batch : \A j \in 1..(i - 1) : ~Rejected(batch[j])}

(* Mutant: the maximum is raised before the driver's limit is looked at.   *)
RaisedUnchecked(batch) == {batch[i].size : i \in Visited(batch)}

(* faceVerticesMaximumCount is raised before the indices are checked.      *)
RaisedSizes(batch) ==
    {batch[i].size : i \in {j \in Visited(batch) : ~TooLarge(batch[j])}}

(* Mutant: faces are appended one by one, as addEdges does.                *)
AddFacesOneByOne(batch) ==
    /\ alive /\ open /\ HasRoom(batch)
    /\ \E m \in {faceMax} \cup RaisedSizes(batch) :
          /\ IsMaxOf(m, {faceMax} \cup RaisedSizes(batch))
          /\ faceMax' = m
    /\ \E k \in 0..Len(batch) :
          /\ \A i \in 1..k : ~Rejected(batch[i])
          /\ k < Len(batch) => Rejected(batch[k + 1])
          /\ faces' = faces \o SubSeq(batch, 1, k)
          /\ status' = IF k < Len(batch) THEN "Err_InvalidData" ELSE "None"
    /\ UNCHANGED <<alive, open, driver, nVertices, edges, meshDisk>>

AddFaces(batch) ==
    /\ alive /\ open /\ HasRoom(batch)
    /\ \E m \in {faceMax} \cup RaisedSizes(batch) :
          /\ IsMaxOf(m, {faceMax} \cup RaisedSizes(batch))
          /\ faceMax' = m
    /\ \/ /\ \A i \in DOMAIN batch : ~Rejected(batch[i])
          /\ faces' = faces \o batch
          /\ status' = "None"
       \/ /\ \E i \in DOMAIN batch : Rejected(batch[i])
          /\ faces' = faces
          /\ status' = "Err_InvalidData"
    /\ UNCHANGED <<alive, open, driver, nVertices, edges, meshDisk>>

(* Mutant: only the start of an edge is tested.                            *)
EdgeRejectedByStart(e) == e.start >= nVertices

(* MDAL_M_addEdges stores edge by edge and only tests the upper bound.     *)
EdgeRejected(e) == e.start >= nVertices \/ e.end >= nVertices

(* Mutant: the new edges take the place of the old ones.                   *)
AddEdgesReplacing(batch) ==
    /\ alive /\ open /\ HasRoom(batch)
    /\ \E k \in 0..Len(batch) :
          /\ \A i \in 1..k : ~EdgeRejected(batch[i])
          /\ k < Len(batch) => EdgeRejected(batch[k + 1])
          /\ edges' = SubSeq(batch, 1, k)
          /\ status' = IF k < Len(batch) THEN "Err_InvalidData" ELSE "None"
    /\ UNCHANGED <<alive, open, driver, nVertices, faces, faceMax, meshDisk>>

AddEdges(batch) ==
    /\ alive /\ open /\ HasRoom(batch)
    /\ \E k \in 0..Len(batch) :
          /\ \A i \in 1..k : ~EdgeRejected(batch[i])
          /\ k < Len(batch) => EdgeRejected(batch[k + 1])
          /\ edges' = edges \o SubSeq(batch, 1, k)
          /\ status' = IF k < Len(batch) THEN "Err_InvalidData" ELSE "None"
    /\ UNCHANGED <<alive, open, driver, nVertices, faces, faceMax, meshDisk>>

-----------------------------------------------------------------------------
(* MDAL_SaveMesh: the checks before the driver is called.                  *)
SaveRefusal(d) ==
    IF d \notin Drivers THEN "Err_MissingDriver"
    ELSE IF ~HasCapability(d, "SaveMesh") THEN "Err_MissingDriverCapability"
    ELSE IF FaceVerticesMaximumCount(d) < faceMax THEN "Err_IncompatibleMesh"
    ELSE "None"

SaveRefused(d) ==
    /\ alive /\ open
    /\ SaveRefusal(d) # "None"
    /\ status' = SaveRefusal(d)
    /\ UNCHANGED <<alive, open, driver, topology, meshDisk>>

(* Mutant: the writer's buffer holds a triangle only.                      *)
TriangleBuffer == 3

(* The .2dm writer asks the face iterator for one face at a time with a    *)
(* buffer of four indices.  The iterator delivers nothing when the buffer  *)
(* is smaller than the mesh's faceVerticesMaximumCount, and the size the   *)
(* writer then looks at was never assigned.  A size that is not 3 or 4     *)
(* leaves the previous line in place, and that is what gets written.       *)
FaceBuffer == 4

FaceDelivered == faceMax <= FaceBuffer

OwnLine(i) ==
    IF FaceDelivered THEN {faces[i]} \cap [size : {3, 4}, low : Int, high : Int]
    ELSE [size : {3, 4}, low : {0}, high : {0}]

RepeatsLine(i) == FaceDelivered => faces[i].size \notin {3, 4}

ElementLines(lines) ==
    \A i \in DOMAIN faces :
        \/ lines[i] \in OwnLine(i)
        \/ /\ RepeatsLine(i)
           /\ lines[i] = IF i = 1 THEN VertexLine ELSE lines[i - 1]

LineChoices ==
    {VertexLine} \cup {faces[i] : i \in DOMAIN faces}
                 \cup [size : {3, 4}, low : {0}, high : {0}]

(* The face records the writer of driver d may leave in the file.          *)
WrittenFaces(d) ==
    IF d = "PLY" THEN {faces}
    ELSE {lines \in [DOMAIN faces -> LineChoices] : ElementLines(lines)}

(* The edge iterator throws on the first edge with a negative index.       *)
EdgeThrows(e) == e.start < 0 \/ e.end < 0
SomeEdgeThrows == \E i \in DOMAIN edges : EdgeThrows(edges[i])

SaveMesh(f, d) ==
    /\ alive /\ open
    /\ SaveRefusal(d) = "None"
    /\ ~SomeEdgeThrows
    /\ \E lines \in WrittenFaces(d) :
          meshDisk' = [meshDisk EXCEPT ![f] =
              [format |-> d, saved |-> TheMesh, faces |-> lines,
               edges |-> edges, whole |-> TRUE]]
    /\ status' = "None"
    /\ UNCHANGED <<alive, open, driver, topology>>

(* The file cannot be opened for writing: the .2dm writer logs it and goes *)
(* on writing to nowhere, libply does not even look.                       *)
SaveMeshUnopened(f, d) ==
    /\ alive /\ open
    /\ SaveRefusal(d) = "None"
    /\ ~SomeEdgeThrows
    /\ status' = IF d = "PLY" THEN "None" ELSE "Err_FailToWriteToDisk"
    /\ UNCHANGED <<alive, open, driver, topology, meshDisk>>

(* DriverPly::save returns after it opened the file when the mesh has a    *)
(* dataset group it cannot save (MeshSession says when).                   *)
EmptyMesh == [nVertices |-> 0, faces |-> <<>>, edges |-> <<>>, faceMax |-> 0]

Truncated == [format |-> "PLY", saved |-> EmptyMesh, faces |-> <<>>,
              edges |-> <<>>, whole |-> FALSE]

SaveMeshStopped(f) ==
    /\ alive /\ open
    /\ SaveRefusal("PLY") = "None"
    /\ meshDisk' \in {meshDisk, [meshDisk EXCEPT ![f] = Truncated]}
    /\ status' = "Err_IncompatibleDatasetGroup"
    /\ UNCHANGED <<alive, open, driver, topology>>

(* An exception of the edge iterator leaves MDAL_SaveMesh, and no client   *)
(* of the C API can catch it: the vertices, the faces and the edges before *)
(* the bad one are in the file.                                            *)
SaveMeshThrows(f, d) ==
    /\ alive /\ open
    /\ SaveRefusal(d) = "None"
    /\ \E lines \in WrittenFaces(d), k \in 0..(Len(edges) - 1) :
          /\ \A i \in 1..k : ~EdgeThrows(edges[i])
          /\ EdgeThrows(edges[k + 1])
          /\ meshDisk' = [meshDisk EXCEPT ![f] =
              [format |-> d, saved |-> TheMesh, faces |-> lines,
               edges |-> SubSeq(edges, 1, k), whole |-> FALSE]]
    /\ alive' = FALSE /\ MeshGone
    /\ status' = "None"

(* DriverPly::save reads the first dataset of every group of the mesh, and *)
(* a group need not have one (MeshSession says when).                      *)
SaveMeshDies(f) ==
    /\ alive /\ open
    /\ SaveRefusal("PLY") = "None"
    /\ meshDisk' \in {meshDisk, [meshDisk EXCEPT ![f] = Truncated]}
    /\ alive' = FALSE /\ MeshGone
    /\ status' = "None"

-----------------------------------------------------------------------------
(* MDAL_LoadMesh, with the driver found by the file's first line.  A .2dm  *)
(* file with a repeated ND line is refused, as is a .ply file that ends    *)
(* before its last element.                                                *)
Loadable(c) ==
    /\ c.format = "2DM" => VertexLine \notin ToSet(c.faces)
    /\ c.format = "PLY" => c.whole

LoadedFaceMax(c, m) ==
    IF c.format = "PLY" THEN IsMaxOf(m, {0} \cup Sizes(c.faces))
    ELSE IF c.faces = <<>> /\ c.edges = <<>> THEN m = 4
    ELSE IsMaxOf(m, {2} \cup Sizes(c.faces))

LoadMesh(f) ==
    /\ alive /\ ~open
    /\ meshDisk[f] # NoFile /\ Loadable(meshDisk[f])
    /\ open' = TRUE /\ driver' = meshDisk[f].format
    /\ nVertices' = meshDisk[f].saved.nVertices
    /\ faces' = meshDisk[f].faces
    /\ edges' = meshDisk[f].edges
    /\ \E m \in {0, 2, 4} \cup Sizes(meshDisk[f].faces) :
          LoadedFaceMax(meshDisk[f], m) /\ faceMax' = m
    /\ status' = "None"
    /\ UNCHANGED <<alive, meshDisk>>

LoadMeshFails(f) ==
    /\ alive /\ ~open
    /\ meshDisk[f] # NoFile => ~Loadable(meshDisk[f])
    /\ status' = IF meshDisk[f] = NoFile THEN "Err_FileNotFound"
                 ELSE "Err_UnknownFormat"
    /\ UNCHANGED <<alive, open, driver, topology, meshDisk>>

(* The process that died is started again: only the files remain.          *)
Restart ==
    /\ ~alive
    /\ alive' = TRUE
    /\ UNCHANGED <<open, driver, topology, meshDisk, status>>

-----------------------------------------------------------------------------
MeshInit ==
    /\ alive = TRUE /\ open = FALSE /\ driver = "none"
    /\ nVertices = 0 /\ faces = <<>> /\ edges = <<>> /\ faceMax = 0
    /\ meshDisk = [f \in MeshFiles |-> NoFile]
    /\ status = "None"

Batches(S) == BoundedSeq(S, MaxBatch)

MeshNext ==
    \/ \E d \in Drivers : CreateMesh(d)
    \/ CloseMesh
    \/ NullMesh
    \/ \E n \in VertexBatches : AddVertices(n)
    \/ \E batch \in Batches(FaceInputs) : AddFaces(batch)
    \/ \E batch \in Batches(EdgeInputs) : AddEdges(batch)
    \/ \E d \in DriverNames : SaveRefused(d)
    \/ \E f \in MeshFiles, d \in Drivers : SaveMesh(f, d)
    \/ \E f \in MeshFiles, d \in Drivers : SaveMeshUnopened(f, d)
    \/ \E f \in MeshFiles : SaveMeshStopped(f)
    \/ \E f \in MeshFiles, d \in Drivers : SaveMeshThrows(f, d)
    \/ \E f \in MeshFiles : SaveMeshDies(f)
    \/ \E f \in MeshFiles : LoadMesh(f)
    \/ \E f \in MeshFiles : LoadMeshFails(f)
    \/ Restart

MeshSpec == MeshInit /\ [][MeshNext]_meshVars

-----------------------------------------------------------------------------
(* Every variable holds what its C++ counterpart can hold.                 *)
MeshTypeOK ==
    /\ alive \in BOOLEAN /\ open \in BOOLEAN
    /\ driver \in Drivers \cup {"none"}
    /\ open => driver \in Drivers /\ alive
    /\ nVertices \in Nat /\ faceMax \in Nat
    /\ faces \in Seq(Face) /\ edges \in Seq(Edge)
    /\ meshDisk \in [MeshFiles -> {NoFile} \cup MeshFile]
    /\ status \in Statuses

(* Every face names existing vertices and fits in the buffer a caller of   *)
(* the face iterator sizes by MDAL_M_faceVerticesMaximumCount: what        *)
(* MemoryMeshFaceIterator::next asserts.  It must survive batches that are *)
(* rejected half way and meshes that come back from a file.                *)
FaceTableSound ==
    \A i \in DOMAIN faces :
        /\ faces[i].low >= 0 /\ faces[i].high < nVertices
        /\ faces[i].size <= faceMax

(* No edge ends beyond the last vertex, whichever prefix of a batch        *)
(* MDAL_M_addEdges kept.                                                   *)
EdgeEndsBelow ==
    \A i \in DOMAIN edges :
        edges[i].start < nVertices /\ edges[i].end < nVertices

(* The driver a mesh was created with or loaded by never refuses it as     *)
(* incompatible in MDAL_SaveMesh: faceVerticesMaximumCount stays within    *)
(* the driver's own limit, failed calls and reloads included.              *)
OwnDriverAccepts ==
    open /\ FaceVerticesMaximumCount(driver) # NoFaceLimit
        => faceMax <= FaceVerticesMaximumCount(driver)

(* A call that ends with an error while the mesh stays open has changed    *)
(* neither its vertices nor its faces, and has at most appended edges: a   *)
(* batch of faces goes in as a whole or not at all.                        *)
FailedCallKeepsMesh ==
    [][open /\ open' /\ status' # "None"
          => /\ faces' = faces /\ nVertices' = nVertices
             /\ IsPrefix(edges, edges')]_meshVars

(* As long as a mesh is open it only grows: indices and iterators a client *)
(* holds stay meaningful.                                                  *)
MeshOnlyGrows ==
    [][open /\ open'
          => /\ nVertices <= nVertices' /\ faceMax <= faceMax'
             /\ IsPrefix(faces, faces') /\ IsPrefix(edges, edges')]_meshVars

(* A file holds the mesh that was saved in it.                             *)
Reloads(c) == Loadable(c) /\ c.faces = c.saved.faces /\ c.edges = c.saved.edges

OnlyQuads(m) == m.faceMax <= 4 /\ Sizes(m.faces) \subseteq {3, 4}

(* A mesh of triangles and quads whose saving did not throw is loaded back *)
(* as it was, by either driver, whatever calls preceded the saving.        *)
SavedQuadsReload ==
    \A f \in MeshFiles :
        (/\ meshDisk[f] # NoFile /\ meshDisk[f].whole
         /\ meshDisk[f].format = "2DM" => OnlyQuads(meshDisk[f].saved))
        => Reloads(meshDisk[f])

(* mdal.h on MDAL_SaveMesh: it "Saves mesh (only mesh structure)" and      *)
(* reports errors by MDAL_LastStatus.  What was saved without one can be   *)
(* loaded back.                                                            *)
SavedMeshReloads ==
    \A f \in MeshFiles :
        meshDisk[f] # NoFile /\ meshDisk[f].whole => Reloads(meshDisk[f])
=============================================================================
