------------------------- MODULE MemoryMesh_proofs -------------------------
(***************************************************************************)
(* What MemoryMesh promises for every set of drivers, files, faces, edges  *)
(* and bounds.  A mesh is sound because every way into it is: the editing  *)
(* calls check what they store, and a file only ever holds what a sound    *)
(* mesh left there.  MeshInv says both at once and is inductive.           *)
(***************************************************************************)
EXTENDS MemoryMesh, SequenceTheorems, TLAPS

(* What SaveMesh leaves in a file is fit to be a mesh again.               *)
FileSound(c) ==
    /\ c.format \in Drivers
    /\ \A i \in DOMAIN c.faces :
          /\ c.faces[i].high < c.saved.nVertices
          /\ c.faces[i].size <= FaceVerticesMaximumCount(c.format)
    /\ \A i \in DOMAIN c.edges :
          /\ c.edges[i].start < c.saved.nVertices
          /\ c.edges[i].end < c.saved.nVertices

FilesSound == \A f \in MeshFiles : meshDisk[f] # NoFile => FileSound(meshDisk[f])

MeshInv ==
    /\ MeshTypeOK
    /\ FaceTableSound
    /\ EdgeEndsBelow
    /\ OwnDriverAccepts
    /\ FilesSound

-----------------------------------------------------------------------------
(* What the drivers that write meshes declare.                             *)
LEMMA DriverLimits ==
    /\ FaceVerticesMaximumCount("2DM") = 6
    /\ FaceVerticesMaximumCount("PLY") = 100
    /\ FaceVerticesMaximumCount("BINARY_DAT") = -1
    /\ FaceVerticesMaximumCount("ASCII_DAT") = -1
    /\ \A d \in DriverNames : HasCapability(d, "SaveMesh") => d \in {"2DM", "PLY"}
BY DEF FaceVerticesMaximumCount, HasCapability, DriverTable, DriverNames,
       TwoDm, Ply, BinaryDat, AsciiDat, Driver, NoFaceLimit

(* MDAL_SaveMesh calls a driver only to write a mesh it has room for.      *)
LEMMA SaveAccepted ==
    ASSUME NEW d, SaveRefusal(d) = "None", faceMax \in Nat
    PROVE  /\ d \in Drivers /\ d \in {"2DM", "PLY"}
           /\ faceMax <= FaceVerticesMaximumCount(d)
<1>1. /\ d \in Drivers
      /\ HasCapability(d, "SaveMesh")
      /\ ~(FaceVerticesMaximumCount(d) < faceMax)
  BY DEF SaveRefusal
<1>2. d \in {"2DM", "PLY"}
  BY <1>1, DriversAssumption, DriverLimits
<1> QED
  BY <1>1, <1>2, DriverLimits

(* Whatever the writers make of the faces of a sound mesh, they name its   *)
(* vertices and fit in the driver's own limit.                             *)
LEMMA WrittenFacesSound ==
    ASSUME MeshTypeOK, FaceTableSound,
           NEW d, SaveRefusal(d) = "None",
           NEW lines \in WrittenFaces(d)
    PROVE  /\ lines \in Seq(Face)
           /\ \A i \in DOMAIN lines :
                 /\ lines[i].high < nVertices
                 /\ lines[i].size <= FaceVerticesMaximumCount(d)
<1> DEFINE Fits(l) == /\ l \in Face
                      /\ l.high < nVertices
                      /\ l.size <= FaceVerticesMaximumCount(d)
<1>1. /\ nVertices \in Nat /\ faceMax \in Nat
      /\ faces \in Seq(Face)
      /\ faces \in [1..Len(faces) -> Face]
      /\ DOMAIN faces = 1..Len(faces) /\ Len(faces) \in Nat
  BY LenProperties DEF MeshTypeOK
<1>2. d \in {"2DM", "PLY"} /\ faceMax <= FaceVerticesMaximumCount(d)
  BY <1>1, SaveAccepted
<1>3. ASSUME NEW i \in DOMAIN faces PROVE Fits(faces[i])
  <2>1. faces[i] \in Face
    BY <1>1
  <2>2. faces[i].size \in Nat /\ faces[i].high < nVertices /\ faces[i].size <= faceMax
    BY <2>1 DEF FaceTableSound, Face
  <2>3. FaceVerticesMaximumCount(d) \in Nat
    BY <1>2, DriverLimits
  <2> QED
    BY <1>1, <1>2, <2>1, <2>2, <2>3
<1>4. CASE d = "PLY"
  BY <1>1, <1>3, <1>4 DEF WrittenFaces
<1>5. CASE d = "2DM"
  <2>1. lines \in [DOMAIN faces -> LineChoices]
    BY <1>5 DEF WrittenFaces
  <2>2. ASSUME NEW i \in DOMAIN faces PROVE Fits(lines[i])
    <3>1. nVertices > 0
      BY <1>1, <2>2 DEF FaceTableSound, Face
    <3>2. \/ lines[i] = VertexLine
          \/ \E j \in DOMAIN faces : lines[i] = faces[j]
          \/ lines[i] \in [size : {3, 4}, low : {0}, high : {0}]
      BY <2>1, <2>2 DEF LineChoices
    <3>3. FaceVerticesMaximumCount(d) = 6
      BY <1>5, DriverLimits
    <3>4. CASE lines[i] = VertexLine
      BY <1>1, <3>1, <3>3, <3>4 DEF VertexLine, Face
    <3>5. CASE \E j \in DOMAIN faces : lines[i] = faces[j]
      BY <1>3, <3>5
    <3>6. CASE lines[i] \in [size : {3, 4}, low : {0}, high : {0}]
      <4>1. /\ lines[i] \in [size : Nat, low : Nat, high : Nat]
            /\ lines[i].size <= 6 /\ lines[i].low = 0 /\ lines[i].high = 0
        BY <3>6
      <4> QED
        BY <1>1, <3>1, <3>3, <4>1 DEF Face
    <3> QED
      BY <3>2, <3>4, <3>5, <3>6
  <2>3. DOMAIN lines = 1..Len(faces)
    BY <1>1, <2>1
  <2>4. lines \in [1..Len(faces) -> Face]
    BY <1>1, <2>1, <2>2
  <2>5. lines \in Seq(Face)
    BY <1>1, <2>4
  <2> QED
    BY <1>1, <2>2, <2>3, <2>5
<1> QED
  BY <1>2, <1>4, <1>5

(* A batch of the model is a sequence of what it is a batch of.            *)
LEMMA BatchIsSequence ==
    ASSUME NEW S, NEW batch \in Batches(S)
    PROVE  /\ batch \in Seq(S)
           /\ Len(batch) \in Nat /\ DOMAIN batch = 1..Len(batch)
<1>1. PICK m \in 0..MaxBatch : batch \in [1..m -> S]
  BY DEF Batches, BoundedSeq, SeqOf
<1>2. m \in Nat
  BY <1>1, MeshBoundsAssumption
<1>3. batch \in Seq(S)
  BY <1>1, <1>2
<1> QED
  BY <1>3, LenProperties

(* The prefix of a batch that addEdges keeps before it rejects an edge.    *)
LEMMA KeptPrefix ==
    ASSUME NEW S, NEW batch \in Seq(S), NEW k \in 0..Len(batch)
    PROVE  /\ SubSeq(batch, 1, k) \in Seq(S)
           /\ Len(SubSeq(batch, 1, k)) = k
           /\ \A i \in 1..k : SubSeq(batch, 1, k)[i] = batch[i]
<1>1. k \in Int /\ Len(batch) \in Nat
  BY LenProperties
<1>2. \A i \in 1..k : batch[i] \in S
  BY <1>1, ElementOfSeq
<1>3. /\ SubSeq(batch, 1, k) \in Seq(S)
      /\ Len(SubSeq(batch, 1, k)) = IF 1 <= k THEN k - 1 + 1 ELSE 0
      /\ \A i \in 1..(k - 1 + 1) : SubSeq(batch, 1, k)[i] = batch[1 + i - 1]
  BY <1>1, <1>2, SubSeqProperties
<1> QED
  BY <1>1, <1>3

(* What holds of the elements of two sequences holds of their              *)
(* concatenation, which begins with the first of them.                     *)
LEMMA ConcatElements ==
    ASSUME NEW S, NEW s \in Seq(S), NEW t \in Seq(S)
    PROVE  /\ s \o t \in Seq(S)
           /\ \A i \in DOMAIN (s \o t) :
                 \/ i \in DOMAIN s /\ (s \o t)[i] = s[i]
                 \/ \E j \in DOMAIN t : (s \o t)[i] = t[j]
           /\ IsPrefix(s, s \o t)
<1>1. /\ Len(s) \in Nat /\ Len(t) \in Nat
      /\ DOMAIN s = 1..Len(s) /\ DOMAIN t = 1..Len(t)
  BY LenProperties
<1>2. /\ s \o t \in Seq(S)
      /\ Len(s \o t) = Len(s) + Len(t)
      /\ \A i \in 1..(Len(s) + Len(t)) :
            (s \o t)[i] = IF i <= Len(s) THEN s[i] ELSE t[i - Len(s)]
  BY ConcatProperties
<1>3. DOMAIN (s \o t) = 1..(Len(s) + Len(t))
  BY <1>2, LenProperties
<1>4. ASSUME NEW i \in DOMAIN (s \o t)
      PROVE  \/ i \in DOMAIN s /\ (s \o t)[i] = s[i]
             \/ \E j \in DOMAIN t : (s \o t)[i] = t[j]
  <2>1. CASE i <= Len(s)
    BY <1>1, <1>2, <1>3, <2>1
  <2>2. CASE ~(i <= Len(s))
    <3>1. i - Len(s) \in DOMAIN t /\ (s \o t)[i] = t[i - Len(s)]
      BY <1>1, <1>2, <1>3, <2>2
    <3> QED
      BY <3>1
  <2> QED
    BY <2>1, <2>2
<1>5. SubSeq(s, 1, Len(s)) = SubSeq(s \o t, 1, Len(s))
  <2>1. CASE Len(s) = 0
    BY <1>1, <2>1, SubSeqEmpty
  <2>2. CASE Len(s) # 0
    <3>1. 1 \in 1..Len(s) /\ Len(s) \in 1..Len(s)
      BY <1>1, <2>2
    <3> QED
      BY <3>1, SubSeqOfConcat1
  <2> QED
    BY <2>1, <2>2
<1> QED
  BY <1>1, <1>2, <1>4, <1>5 DEF IsPrefix

(* Every sequence begins with itself.                                      *)
LEMMA PrefixOfItself ==
    ASSUME NEW S, NEW s \in Seq(S)
    PROVE  IsPrefix(s, s)
BY LenProperties DEF IsPrefix

-----------------------------------------------------------------------------
(* MDAL_M_addFaces keeps a mesh sound, and only ever appends.              *)
LEMMA AddFacesSound ==
    ASSUME MeshInv, NEW batch \in Batches(FaceInputs), AddFaces(batch)
    PROVE  /\ MeshInv'
           /\ faceMax <= faceMax' /\ IsPrefix(faces, faces')
<1>1. /\ alive \in BOOLEAN /\ driver \in Drivers /\ driver \in DriverNames
      /\ nVertices \in Nat /\ faceMax \in Nat /\ faces \in Seq(Face)
  BY DriversAssumption DEF MeshInv, MeshTypeOK, AddFaces
<1>2. /\ batch \in Seq(FaceInputs)
      /\ DOMAIN batch = 1..Len(batch) /\ Len(batch) \in Nat
      /\ \A i \in DOMAIN batch :
            /\ batch[i].size \in Nat
            /\ batch[i].low \in Int /\ batch[i].high \in Int
            /\ batch[i] \in [size : Nat \ {0}, low : Int, high : Int]
            /\ batch[i].low <= batch[i].high
  BY BatchIsSequence, ElementOfSeq, FaceInputsAssumption
<1>3. /\ faceMax' \in {faceMax} \cup RaisedSizes(batch)
      /\ \A s \in {faceMax} \cup RaisedSizes(batch) : s <= faceMax'
  BY DEF AddFaces, IsMaxOf
<1>4. FaceVerticesMaximumCount(driver) \in Int
  BY <1>1, DriverLimits DEF DriverNames
<1>5. faceMax' \in Nat /\ faceMax <= faceMax' /\ OwnDriverAccepts'
  <2>1. \/ faceMax' = faceMax
        \/ \E i \in DOMAIN batch : /\ faceMax' = batch[i].size
                                   /\ ~TooLarge(batch[i])
    BY <1>3 DEF RaisedSizes, Visited
  <2>2. faceMax' \in Nat /\ faceMax <= faceMax'
    BY <1>1, <1>2, <1>3, <2>1
  <2>3. driver' = driver /\ open' = open
    BY DEF AddFaces
  <2> QED
    BY <1>1, <1>2, <1>4, <2>1, <2>2, <2>3
    DEF MeshInv, OwnDriverAccepts, TooLarge, NoFaceLimit
<1>6. /\ faces' \in Seq(Face) /\ FaceTableSound'
      /\ IsPrefix(faces, faces')
  <2>1. \A i \in DOMAIN faces :
           /\ faces[i].low >= 0 /\ faces[i].high < nVertices
           /\ faces[i].size <= faceMax'
    <3>1. \A i \in DOMAIN faces : faces[i].size \in Nat
      BY <1>1, ElementOfSeq, LenProperties DEF Face
    <3> QED
      BY <1>1, <1>5, <3>1 DEF MeshInv, FaceTableSound
  <2>2. nVertices' = nVertices
    BY DEF AddFaces
  <2>3. CASE faces' = faces
    BY <1>1, <2>1, <2>2, <2>3, PrefixOfItself DEF FaceTableSound
  <2>4. CASE /\ \A i \in DOMAIN batch : ~Rejected(batch[i])
             /\ faces' = faces \o batch
    <3>1. \A i \in DOMAIN batch : i \in Visited(batch)
      BY <1>2, <2>4 DEF Visited
    <3>2. \A i \in DOMAIN batch : batch[i].size \in RaisedSizes(batch)
      BY <2>4, <3>1 DEF RaisedSizes, Rejected
    <3>3. \A i \in DOMAIN batch :
             /\ batch[i] \in Face
             /\ batch[i].low >= 0 /\ batch[i].high < nVertices
             /\ batch[i].size <= faceMax'
      BY <1>1, <1>2, <1>3, <2>4, <3>2 DEF Rejected, BadIndex, Face
    <3>4. batch \in Seq(Face)
      BY <1>2, <3>3
    <3>5. /\ faces' \in Seq(Face)
          /\ IsPrefix(faces, faces')
          /\ \A i \in DOMAIN faces' :
                \/ i \in DOMAIN faces /\ faces'[i] = faces[i]
                \/ \E j \in DOMAIN batch : faces'[i] = batch[j]
      BY <1>1, <2>4, <3>4, ConcatElements
    <3> QED
      BY <2>1, <2>2, <3>3, <3>5 DEF FaceTableSound
  <2> QED
    BY <2>3, <2>4 DEF AddFaces
<1>7. MeshTypeOK'
  BY <1>5, <1>6 DEF MeshInv, MeshTypeOK, AddFaces, Statuses
<1>8. EdgeEndsBelow' /\ FilesSound'
  BY DEF MeshInv, EdgeEndsBelow, FilesSound, AddFaces
<1> QED
  BY <1>5, <1>6, <1>7, <1>8 DEF MeshInv

(* MDAL_M_addEdges keeps a mesh sound, whichever prefix of the batch it    *)
(* keeps, and only ever appends.                                           *)
LEMMA AddEdgesSound ==
    ASSUME MeshInv, NEW batch \in Batches(EdgeInputs), AddEdges(batch)
    PROVE  MeshInv' /\ IsPrefix(edges, edges')
<1>1. PICK k \in 0..Len(batch) :
         /\ \A i \in 1..k : ~EdgeRejected(batch[i])
         /\ edges' = edges \o SubSeq(batch, 1, k)
         /\ status' = IF k < Len(batch) THEN "Err_InvalidData" ELSE "None"
  BY DEF AddEdges
<1>2. /\ nVertices \in Nat /\ edges \in Seq(Edge)
      /\ batch \in Seq(Edge) /\ Len(batch) \in Nat
  <2>1. batch \in Seq(EdgeInputs) /\ Len(batch) \in Nat
    BY BatchIsSequence
  <2>2. batch \in Seq(Edge)
    <3>1. batch \in [1..Len(batch) -> EdgeInputs]
      BY <2>1, LenProperties
    <3>2. batch \in [1..Len(batch) -> Edge]
      BY <3>1, EdgeInputsAssumption DEF Edge
    <3> QED
      BY <2>1, <3>2
  <2> QED
    BY <2>1, <2>2 DEF MeshInv, MeshTypeOK
<1> DEFINE kept == SubSeq(batch, 1, k)
<1>3. /\ kept \in Seq(Edge) /\ Len(kept) = k
      /\ \A i \in 1..k : kept[i] = batch[i] /\ batch[i] \in Edge
      /\ DOMAIN kept = 1..k
  BY <1>2, KeptPrefix, ElementOfSeq, LenProperties
<1>4. \A i \in DOMAIN kept :
         kept[i].start < nVertices /\ kept[i].end < nVertices
  <2>1. ASSUME NEW i \in 1..k
        PROVE  batch[i].start < nVertices /\ batch[i].end < nVertices
    <3>1. batch[i].start \in Int /\ batch[i].end \in Int
      BY <1>3 DEF Edge
    <3>2. ~EdgeRejected(batch[i])
      BY <1>1
    <3> QED
      BY <1>2, <3>1, <3>2 DEF EdgeRejected
  <2> HIDE DEF kept
  <2> QED
    BY <1>3, <2>1
<1>5. /\ edges' \in Seq(Edge)
      /\ IsPrefix(edges, edges')
      /\ \A i \in DOMAIN edges' :
            \/ i \in DOMAIN edges /\ edges'[i] = edges[i]
            \/ \E j \in DOMAIN kept : edges'[i] = kept[j]
  <2> HIDE DEF kept
  <2>1. edges' = edges \o kept
    BY <1>1 DEF kept
  <2> QED
    BY <1>2, <1>3, <2>1, ConcatElements
<1>6. EdgeEndsBelow'
  <2>1. nVertices' = nVertices
    BY DEF AddEdges
  <2> QED
    BY <1>4, <1>5, <2>1 DEF MeshInv, EdgeEndsBelow
<1>7. MeshTypeOK'
  BY <1>1, <1>5 DEF MeshInv, MeshTypeOK, AddEdges, Statuses
<1>8. FaceTableSound' /\ OwnDriverAccepts' /\ FilesSound'
  BY DEF MeshInv, FaceTableSound, OwnDriverAccepts, FilesSound, AddEdges
<1> QED
  BY <1>5, <1>6, <1>7, <1>8 DEF MeshInv

-----------------------------------------------------------------------------
(* A sound file put in the place of another leaves all files sound.        *)
LEMMA FileWritten ==
    ASSUME MeshInv, NEW f \in MeshFiles, NEW c \in MeshFile, FileSound(c),
           meshDisk' = [meshDisk EXCEPT ![f] = c]
    PROVE  /\ meshDisk' \in [MeshFiles -> {NoFile} \cup MeshFile]
           /\ FilesSound'
<1>1. meshDisk \in [MeshFiles -> {NoFile} \cup MeshFile]
  BY DEF MeshInv, MeshTypeOK
<1>2. \A g \in MeshFiles : meshDisk'[g] = IF g = f THEN c ELSE meshDisk[g]
  BY <1>1
<1>3. meshDisk' \in [MeshFiles -> {NoFile} \cup MeshFile]
  BY <1>1
<1> QED
  BY <1>2, <1>3 DEF MeshInv, FilesSound

(* The file an interrupted DriverPly::save leaves behind.                  *)
LEMMA TruncatedSound ==
    ASSUME SaveRefusal("PLY") = "None", faceMax \in Nat
    PROVE  Truncated \in MeshFile /\ FileSound(Truncated)
<1>1. "PLY" \in Drivers
  BY SaveAccepted
<1>2. /\ EmptyMesh \in Mesh
      /\ <<>> \in Seq(Face) /\ <<>> \in Seq(Edge)
      /\ DOMAIN <<>> = {}
  BY EmptySeq DEF EmptyMesh, Mesh
<1> QED
  BY <1>1, <1>2 DEF Truncated, MeshFile, FileSound

(* What a writer leaves of a sound mesh is sound, whole or not.            *)
LEMMA SavedFileSound ==
    ASSUME MeshInv, NEW d, SaveRefusal(d) = "None",
           NEW lines \in WrittenFaces(d),
           NEW k \in 0..Len(edges), NEW whole \in BOOLEAN
    PROVE  LET c == [format |-> d, saved |-> TheMesh, faces |-> lines,
                     edges |-> SubSeq(edges, 1, k), whole |-> whole]
           IN  c \in MeshFile /\ FileSound(c)
<1> DEFINE kept == SubSeq(edges, 1, k)
           c == [format |-> d, saved |-> TheMesh, faces |-> lines,
                 edges |-> kept, whole |-> whole]
<1>1. /\ MeshTypeOK /\ FaceTableSound /\ EdgeEndsBelow
      /\ nVertices \in Nat /\ faceMax \in Nat
      /\ faces \in Seq(Face) /\ edges \in Seq(Edge)
      /\ DOMAIN edges = 1..Len(edges) /\ Len(edges) \in Nat
  BY LenProperties DEF MeshInv, MeshTypeOK
<1>2. d \in Drivers /\ d \in {"2DM", "PLY"}
  BY <1>1, SaveAccepted
<1>3. /\ lines \in Seq(Face)
      /\ \A i \in DOMAIN lines :
            /\ lines[i].high < nVertices
            /\ lines[i].size <= FaceVerticesMaximumCount(d)
  BY <1>1, WrittenFacesSound
<1>4. /\ kept \in Seq(Edge)
      /\ \A i \in DOMAIN kept :
            kept[i].start < nVertices /\ kept[i].end < nVertices
  <2>1. /\ kept \in Seq(Edge) /\ Len(kept) = k /\ DOMAIN kept = 1..k
        /\ \A i \in 1..k : kept[i] = edges[i]
    BY <1>1, KeptPrefix, LenProperties
  <2>2. \A i \in 1..k : i \in DOMAIN edges
    BY <1>1
  <2> HIDE DEF kept
  <2> QED
    BY <1>1, <2>1, <2>2 DEF EdgeEndsBelow
<1>5. TheMesh \in Mesh /\ TheMesh.nVertices = nVertices
  BY <1>1 DEF TheMesh, Mesh
<1> HIDE DEF kept
<1>6. c \in MeshFile
  BY <1>2, <1>3, <1>4, <1>5 DEF MeshFile
<1>7. FileSound(c)
  BY <1>2, <1>3, <1>4, <1>5 DEF FileSound
<1> QED
  BY <1>6, <1>7 DEF kept

(* An empty mesh, and no mesh, are sound.                                  *)
LEMMA EmptyMeshSound ==
    ASSUME MeshInv, alive' \in BOOLEAN, open' \in BOOLEAN,
           driver' \in Drivers \cup {"none"},
           open' => driver' \in Drivers /\ alive',
           nVertices' = 0, faces' = <<>>, edges' = <<>>, faceMax' = 0,
           meshDisk' \in [MeshFiles -> {NoFile} \cup MeshFile],
           FilesSound', status' \in Statuses
    PROVE  MeshInv'
<1>1. /\ faces' \in Seq(Face) /\ DOMAIN faces' = {}
      /\ edges' \in Seq(Edge) /\ DOMAIN edges' = {}
  BY EmptySeq
<1>2. MeshTypeOK'
  BY <1>1 DEF MeshTypeOK
<1>3. FaceTableSound' /\ EdgeEndsBelow'
  BY <1>1 DEF FaceTableSound, EdgeEndsBelow
<1>4. OwnDriverAccepts'
  <2>1. open' => driver' \in DriverNames
    BY DriversAssumption
  <2> QED
    BY <2>1, DriverLimits DEF OwnDriverAccepts, DriverNames, NoFaceLimit
<1> QED
  BY <1>2, <1>3, <1>4 DEF MeshInv

(* MDAL_LoadMesh makes a sound mesh of a sound file: the maximum it        *)
(* computes covers every face and stays within the driver's limit.         *)
LEMMA LoadMeshSound ==
    ASSUME MeshInv, NEW f \in MeshFiles, LoadMesh(f)
    PROVE  MeshInv'
<1> DEFINE c == meshDisk[f]
<1>1. /\ c \in MeshFile /\ FileSound(c)
      /\ c.format \in {"2DM", "PLY"} /\ c.format \in Drivers
  BY DEF LoadMesh, MeshInv, MeshTypeOK, FilesSound, FileSound, MeshFile
<1>2. /\ c.faces \in Seq(Face) /\ c.edges \in Seq(Edge)
      /\ c.saved.nVertices \in Nat
      /\ \A i \in DOMAIN c.faces :
            c.faces[i].size \in Nat /\ c.faces[i].low \in Nat
  <2>1. /\ c.faces \in Seq(Face) /\ c.edges \in Seq(Edge)
        /\ c.saved.nVertices \in Nat
    BY <1>1 DEF MeshFile, Mesh
  <2>2. \A i \in DOMAIN c.faces : c.faces[i] \in Face
    BY <2>1, ElementOfSeq, LenProperties
  <2> QED
    BY <2>1, <2>2 DEF Face
<1>3. /\ open' = TRUE /\ alive' = TRUE /\ driver' = c.format
      /\ nVertices' = c.saved.nVertices
      /\ faces' = c.faces /\ edges' = c.edges
      /\ faceMax' \in {0, 2, 4} \cup Sizes(c.faces)
      /\ LoadedFaceMax(c, faceMax')
      /\ status' = "None" /\ meshDisk' = meshDisk
  BY DEF LoadMesh, MeshInv, MeshTypeOK
<1> HIDE DEF c
<1>4. \A i \in DOMAIN c.faces : c.faces[i].size <= faceMax'
  <2>1. CASE c.faces = <<>>
    BY <2>1, EmptySeq
  <2>2. CASE c.faces # <<>>
    <3>1. \A s \in Sizes(c.faces) : s <= faceMax'
      BY <1>3, <2>2 DEF LoadedFaceMax, IsMaxOf
    <3> QED
      BY <3>1 DEF Sizes
  <2> QED
    BY <2>1, <2>2
<1>5. faceMax' \in Nat /\ faceMax' <= FaceVerticesMaximumCount(c.format)
  <2>1. \A s \in Sizes(c.faces) :
           s \in Nat /\ s <= FaceVerticesMaximumCount(c.format)
    BY <1>1, <1>2 DEF Sizes, FileSound
  <2> QED
    BY <1>1, <1>3, <2>1, DriverLimits
<1>6. MeshTypeOK'
  BY <1>1, <1>2, <1>3, <1>5 DEF MeshInv, MeshTypeOK, Statuses
<1>7. FaceTableSound' /\ EdgeEndsBelow'
  BY <1>1, <1>2, <1>3, <1>4 DEF FaceTableSound, EdgeEndsBelow, FileSound
<1>8. OwnDriverAccepts' /\ FilesSound'
  BY <1>3, <1>5 DEF OwnDriverAccepts, MeshInv, FilesSound
<1> QED
  BY <1>6, <1>7, <1>8 DEF MeshInv

(* A call that leaves the mesh alone.                                      *)
LEMMA MeshUntouched ==
    ASSUME MeshInv, UNCHANGED <<open, driver, topology>>,
           alive' \in BOOLEAN, open' => alive',
           meshDisk' \in [MeshFiles -> {NoFile} \cup MeshFile],
           FilesSound', status' \in Statuses
    PROVE  MeshInv'
<1>1. MeshTypeOK'
  BY DEF MeshInv, MeshTypeOK, topology
<1>2. FaceTableSound' /\ EdgeEndsBelow' /\ OwnDriverAccepts'
  BY DEF MeshInv, FaceTableSound, EdgeEndsBelow, OwnDriverAccepts, topology
<1> QED
  BY <1>1, <1>2 DEF MeshInv

-----------------------------------------------------------------------------
(* The library starts with no mesh and no file: the invariant holds.       *)
LEMMA MeshInvInit == MeshInit => MeshInv
<1> SUFFICES ASSUME MeshInit PROVE MeshInv
  OBVIOUS
<1>1. <<>> \in Seq(Face) /\ <<>> \in Seq(Edge) /\ DOMAIN <<>> = {}
  BY EmptySeq
<1>2. MeshTypeOK
  BY <1>1 DEF MeshInit, MeshTypeOK, Statuses
<1>3. FaceTableSound /\ EdgeEndsBelow /\ OwnDriverAccepts /\ FilesSound
  BY <1>1 DEF MeshInit, FaceTableSound, EdgeEndsBelow, OwnDriverAccepts, FilesSound
<1> QED
  BY <1>2, <1>3 DEF MeshInv

(* No call of the mesh half breaks the invariant, one step per call.       *)
LEMMA MeshInvNext == MeshInv /\ [MeshNext]_meshVars => MeshInv'
<1> SUFFICES ASSUME MeshInv, [MeshNext]_meshVars PROVE MeshInv'
  OBVIOUS
<1>1. /\ alive \in BOOLEAN /\ open \in BOOLEAN /\ (open => alive)
      /\ driver \in Drivers \cup {"none"}
      /\ nVertices \in Nat /\ faceMax \in Nat
      /\ faces \in Seq(Face) /\ edges \in Seq(Edge)
      /\ Len(edges) \in Nat
      /\ meshDisk \in [MeshFiles -> {NoFile} \cup MeshFile]
      /\ status \in Statuses
  BY LenProperties DEF MeshInv, MeshTypeOK
<1>2. meshDisk' = meshDisk =>
         /\ meshDisk' \in [MeshFiles -> {NoFile} \cup MeshFile]
         /\ FilesSound'
  BY <1>1 DEF MeshInv, FilesSound
<1>3. ASSUME NEW d \in Drivers, CreateMesh(d) PROVE MeshInv'
  BY <1>1, <1>2, <1>3, EmptyMeshSound DEF CreateMesh
<1>4. CASE CloseMesh
  BY <1>1, <1>2, <1>4, EmptyMeshSound DEF CloseMesh, MeshGone
<1>5. CASE NullMesh
  BY <1>1, <1>2, <1>5, MeshUntouched DEF NullMesh, Statuses
<1>6. ASSUME NEW n \in VertexBatches, AddVertices(n) PROVE MeshInv'
  <2>1. /\ nVertices' \in Nat /\ nVertices <= nVertices'
        /\ UNCHANGED <<alive, open, driver, faces, edges, faceMax, meshDisk>>
        /\ status' \in Statuses
    BY <1>1, <1>6, VertexBatchesAssumption DEF AddVertices, Statuses
  <2>2. MeshTypeOK'
    BY <2>1 DEF MeshInv, MeshTypeOK
  <2>3. FaceTableSound'
    <3>1. \A i \in DOMAIN faces : faces[i].high \in Nat
      BY <1>1, ElementOfSeq, LenProperties DEF Face
    <3> QED
      BY <1>1, <2>1, <3>1 DEF MeshInv, FaceTableSound
  <2>4. EdgeEndsBelow'
    <3>1. \A i \in DOMAIN edges : edges[i] \in Edge
      BY <1>1, ElementOfSeq, LenProperties
    <3>2. \A i \in DOMAIN edges : edges[i].start \in Int /\ edges[i].end \in Int
      BY <3>1 DEF Edge
    <3> QED
      BY <1>1, <2>1, <3>2 DEF MeshInv, EdgeEndsBelow
  <2>5. OwnDriverAccepts' /\ FilesSound'
    BY <2>1 DEF MeshInv, OwnDriverAccepts, FilesSound
  <2> QED
    BY <2>2, <2>3, <2>4, <2>5 DEF MeshInv
<1>7. ASSUME NEW batch \in Batches(FaceInputs), AddFaces(batch) PROVE MeshInv'
  BY <1>7, AddFacesSound
<1>8. ASSUME NEW batch \in Batches(EdgeInputs), AddEdges(batch) PROVE MeshInv'
  BY <1>8, AddEdgesSound
<1>9. ASSUME NEW d \in DriverNames, SaveRefused(d) PROVE MeshInv'
  <2>1. SaveRefusal(d) \in Statuses
    BY DEF SaveRefusal, Statuses
  <2> QED
    BY <1>1, <1>2, <1>9, <2>1, MeshUntouched DEF SaveRefused
<1>10. ASSUME NEW f \in MeshFiles, NEW d \in Drivers, SaveMesh(f, d) PROVE MeshInv'
  <2>1. PICK lines \in WrittenFaces(d) :
           meshDisk' = [meshDisk EXCEPT ![f] =
               [format |-> d, saved |-> TheMesh, faces |-> lines,
                edges |-> edges, whole |-> TRUE]]
    BY <1>10 DEF SaveMesh
  <2>2. SubSeq(edges, 1, Len(edges)) = edges
    BY <1>1, SubSeqFull
  <2>3. Len(edges) \in 0..Len(edges)
    BY <1>1
  <2>4. SaveRefusal(d) = "None"
    BY <1>10 DEF SaveMesh
  <2> DEFINE c == [format |-> d, saved |-> TheMesh, faces |-> lines,
                   edges |-> edges, whole |-> TRUE]
  <2>5. c \in MeshFile /\ FileSound(c)
    BY <2>2, <2>3, <2>4, SavedFileSound
  <2> HIDE DEF c
  <2>6. meshDisk' \in [MeshFiles -> {NoFile} \cup MeshFile] /\ FilesSound'
    BY <2>1, <2>5, FileWritten DEF c
  <2> QED
    BY <1>1, <1>10, <2>6, MeshUntouched DEF SaveMesh, Statuses
<1>11. ASSUME NEW f \in MeshFiles, NEW d \in Drivers, SaveMeshUnopened(f, d)
       PROVE  MeshInv'
  BY <1>1, <1>2, <1>11, MeshUntouched DEF SaveMeshUnopened, Statuses
<1>12. ASSUME NEW f \in MeshFiles, SaveMeshStopped(f) PROVE MeshInv'
  <2>1. meshDisk' \in [MeshFiles -> {NoFile} \cup MeshFile] /\ FilesSound'
    BY <1>1, <1>2, <1>12, TruncatedSound, FileWritten DEF SaveMeshStopped
  <2> QED
    BY <1>1, <1>12, <2>1, MeshUntouched DEF SaveMeshStopped, Statuses
<1>13. ASSUME NEW f \in MeshFiles, NEW d \in Drivers, SaveMeshThrows(f, d)
       PROVE  MeshInv'
  <2>1. PICK lines \in WrittenFaces(d), k \in 0..(Len(edges) - 1) :
           meshDisk' = [meshDisk EXCEPT ![f] =
               [format |-> d, saved |-> TheMesh, faces |-> lines,
                edges |-> SubSeq(edges, 1, k), whole |-> FALSE]]
    BY <1>13 DEF SaveMeshThrows
  <2>2. k \in 0..Len(edges) /\ SaveRefusal(d) = "None"
    BY <1>1, <1>13 DEF SaveMeshThrows
  <2> DEFINE c == [format |-> d, saved |-> TheMesh, faces |-> lines,
                   edges |-> SubSeq(edges, 1, k), whole |-> FALSE]
  <2>3. c \in MeshFile /\ FileSound(c)
    BY <2>2, SavedFileSound
  <2> HIDE DEF c
  <2>4. meshDisk' \in [MeshFiles -> {NoFile} \cup MeshFile] /\ FilesSound'
    BY <2>1, <2>3, FileWritten DEF c
  <2> QED
    BY <1>13, <2>4, EmptyMeshSound DEF SaveMeshThrows, MeshGone, Statuses
<1>14. ASSUME NEW f \in MeshFiles, SaveMeshDies(f) PROVE MeshInv'
  <2>1. meshDisk' \in [MeshFiles -> {NoFile} \cup MeshFile] /\ FilesSound'
    BY <1>1, <1>2, <1>14, TruncatedSound, FileWritten DEF SaveMeshDies
  <2> QED
    BY <1>14, <2>1, EmptyMeshSound DEF SaveMeshDies, MeshGone, Statuses
<1>15. ASSUME NEW f \in MeshFiles, LoadMesh(f) PROVE MeshInv'
  BY <1>15, LoadMeshSound
<1>16. ASSUME NEW f \in MeshFiles, LoadMeshFails(f) PROVE MeshInv'
  BY <1>1, <1>2, <1>16, MeshUntouched DEF LoadMeshFails, Statuses
<1>17. CASE Restart
  BY <1>1, <1>2, <1>17, MeshUntouched DEF Restart
<1>18. CASE UNCHANGED meshVars
  BY <1>1, <1>2, <1>18, MeshUntouched DEF meshVars, topology
<1> QED
  BY <1>3, <1>4, <1>5, <1>6, <1>7, <1>8, <1>9, <1>10, <1>11, <1>12, <1>13,
     <1>14, <1>15, <1>16, <1>17, <1>18 DEF MeshNext

(* In every state any sequence of calls reaches, the mesh and the files    *)
(* are sound.                                                              *)
THEOREM MeshInvHolds == MeshSpec => []MeshInv
BY MeshInvInit, MeshInvNext, PTL DEF MeshSpec

(* Every variable keeps its type.                                          *)
THEOREM MeshTypeCorrect == MeshSpec => []MeshTypeOK
<1>1. MeshInv => MeshTypeOK
  BY DEF MeshInv
<1> QED
  BY <1>1, MeshInvHolds, PTL

(* Every face of the mesh names existing vertices and fits in the buffer a *)
(* client sizes by MDAL_M_faceVerticesMaximumCount.                        *)
THEOREM FacesStaySound == MeshSpec => []FaceTableSound
<1>1. MeshInv => FaceTableSound
  BY DEF MeshInv
<1> QED
  BY <1>1, MeshInvHolds, PTL

(* No edge ends beyond the last vertex.                                    *)
THEOREM EdgesStayBelow == MeshSpec => []EdgeEndsBelow
<1>1. MeshInv => EdgeEndsBelow
  BY DEF MeshInv
<1> QED
  BY <1>1, MeshInvHolds, PTL

(* A mesh never outgrows its own driver's limit on faces.                  *)
THEOREM OwnDriverKeepsAccepting == MeshSpec => []OwnDriverAccepts
<1>1. MeshInv => OwnDriverAccepts
  BY DEF MeshInv
<1> QED
  BY <1>1, MeshInvHolds, PTL

-----------------------------------------------------------------------------
(* The writers copy a mesh of triangles and quads face by face.            *)
LEMMA QuadsWrittenAsTheyAre ==
    ASSUME MeshTypeOK, NEW d, SaveRefusal(d) = "None",
           d = "2DM" => OnlyQuads(TheMesh),
           NEW lines \in WrittenFaces(d)
    PROVE  /\ lines = faces
           /\ d = "2DM" => VertexLine \notin ToSet(lines)
<1>1. /\ faces \in Seq(Face) /\ faceMax \in Nat
      /\ DOMAIN faces = 1..Len(faces)
      /\ faces \in [1..Len(faces) -> Face]
  BY LenProperties DEF MeshTypeOK
<1>2. CASE d = "PLY"
  BY <1>2 DEF WrittenFaces
<1>3. CASE d = "2DM"
  <2>1. /\ lines \in [DOMAIN faces -> LineChoices]
        /\ ElementLines(lines)
    BY <1>3 DEF WrittenFaces
  <2>2. /\ FaceDelivered
        /\ \A i \in DOMAIN faces : faces[i].size \in {3, 4}
    BY <1>3 DEF OnlyQuads, TheMesh, FaceDelivered, FaceBuffer, Sizes
  <2>3. \A i \in DOMAIN faces : lines[i] = faces[i]
    BY <2>1, <2>2 DEF ElementLines, OwnLine, RepeatsLine
  <2>4. lines = faces
    BY <1>1, <2>1, <2>3
  <2>5. VertexLine.size = 0
    BY DEF VertexLine
  <2> QED
    BY <2>2, <2>4, <2>5 DEF ToSet
<1> QED
  BY <1>1, <1>2, <1>3, SaveAccepted

(* A saving that does not throw keeps SavedQuadsReload.                    *)
LEMMA SavedQuadsReloadNext ==
    MeshInv /\ SavedQuadsReload /\ [MeshNext]_meshVars => SavedQuadsReload'
<1> SUFFICES ASSUME MeshInv, SavedQuadsReload, [MeshNext]_meshVars
             PROVE  SavedQuadsReload'
  OBVIOUS
<1>1. MeshTypeOK /\ meshDisk \in [MeshFiles -> {NoFile} \cup MeshFile]
  BY DEF MeshInv, MeshTypeOK
<1>2. CASE meshDisk' = meshDisk
  BY <1>2 DEF SavedQuadsReload
<1>3. ASSUME NEW f \in MeshFiles, NEW c, ~c.whole,
             meshDisk' = [meshDisk EXCEPT ![f] = c]
      PROVE  SavedQuadsReload'
  <2>1. \A g \in MeshFiles : meshDisk'[g] = IF g = f THEN c ELSE meshDisk[g]
    BY <1>1, <1>3
  <2> QED
    BY <1>3, <2>1 DEF SavedQuadsReload
<1>4. ASSUME NEW f \in MeshFiles, NEW d \in Drivers, SaveMesh(f, d)
      PROVE  SavedQuadsReload'
  <2>1. PICK lines \in WrittenFaces(d) :
           meshDisk' = [meshDisk EXCEPT ![f] =
               [format |-> d, saved |-> TheMesh, faces |-> lines,
                edges |-> edges, whole |-> TRUE]]
    BY <1>4 DEF SaveMesh
  <2> DEFINE c == [format |-> d, saved |-> TheMesh, faces |-> lines,
                   edges |-> edges, whole |-> TRUE]
  <2>2. (d = "2DM" => OnlyQuads(TheMesh)) => Reloads(c)
    BY <1>1, <1>4, QuadsWrittenAsTheyAre DEF SaveMesh, Reloads, Loadable, TheMesh
  <2>3. /\ c.whole /\ c.format = d /\ c.saved = TheMesh
    OBVIOUS
  <2> HIDE DEF c
  <2>4. \A g \in MeshFiles : meshDisk'[g] = IF g = f THEN c ELSE meshDisk[g]
    BY <1>1, <2>1 DEF c
  <2> QED
    BY <2>2, <2>3, <2>4 DEF SavedQuadsReload
<1>5. ASSUME NEW f \in MeshFiles, NEW d \in Drivers, SaveMeshThrows(f, d)
      PROVE  SavedQuadsReload'
  <2>1. PICK lines \in WrittenFaces(d), k \in 0..(Len(edges) - 1) :
           meshDisk' = [meshDisk EXCEPT ![f] =
               [format |-> d, saved |-> TheMesh, faces |-> lines,
                edges |-> SubSeq(edges, 1, k), whole |-> FALSE]]
    BY <1>5 DEF SaveMeshThrows
  <2> DEFINE c == [format |-> d, saved |-> TheMesh, faces |-> lines,
                   edges |-> SubSeq(edges, 1, k), whole |-> FALSE]
  <2>2. ~c.whole
    OBVIOUS
  <2> HIDE DEF c
  <2> QED
    BY <1>3, <2>1, <2>2 DEF c
<1>6. ASSUME NEW f \in MeshFiles,
             meshDisk' \in {meshDisk, [meshDisk EXCEPT ![f] = Truncated]}
      PROVE  SavedQuadsReload'
  <2>1. ~Truncated.whole
    BY DEF Truncated
  <2> QED
    BY <1>2, <1>3, <1>6, <2>1
<1>7. CASE UNCHANGED meshVars
  BY <1>2, <1>7 DEF meshVars
<1> QED
  BY <1>2, <1>4, <1>5, <1>6, <1>7
  DEF MeshNext, CreateMesh, CloseMesh, NullMesh, AddVertices, AddFaces,
      AddEdges, SaveRefused, SaveMeshUnopened, SaveMeshStopped,
      SaveMeshDies, LoadMesh, LoadMeshFails, Restart

(* What MDAL_SaveMesh wrote of a mesh of triangles and quads without       *)
(* throwing, a file gives back: through failed batches, unopened files,    *)
(* interrupted savings and restarts, with either driver.                   *)
THEOREM QuadsReload == MeshSpec => []SavedQuadsReload
<1>1. MeshInit => SavedQuadsReload
  BY DEF MeshInit, SavedQuadsReload
<1>2. MeshInv /\ SavedQuadsReload /\ [MeshNext]_meshVars => SavedQuadsReload'
  BY SavedQuadsReloadNext
<1> QED
  BY <1>1, <1>2, MeshInvHolds, PTL DEF MeshSpec

-----------------------------------------------------------------------------
(* The calls that change an open mesh and leave it open.                   *)
LEMMA OpenMeshSteps ==
    ASSUME MeshInv, [MeshNext]_meshVars, open, open'
    PROVE  \/ \E n \in VertexBatches : AddVertices(n)
           \/ \E batch \in Batches(FaceInputs) : AddFaces(batch)
           \/ \E batch \in Batches(EdgeInputs) : AddEdges(batch)
           \/ UNCHANGED topology
BY DEF MeshInv, MeshTypeOK, MeshNext, meshVars, topology, CreateMesh, CloseMesh,
       NullMesh, SaveRefused, SaveMesh, SaveMeshUnopened, SaveMeshStopped,
       SaveMeshThrows, SaveMeshDies, MeshGone, LoadMesh, LoadMeshFails, Restart

LEMMA OpenMeshGrows ==
    ASSUME MeshInv, [MeshNext]_meshVars, open, open'
    PROVE  /\ nVertices <= nVertices' /\ faceMax <= faceMax'
           /\ IsPrefix(faces, faces') /\ IsPrefix(edges, edges')
<1> DEFINE Grows == /\ nVertices <= nVertices' /\ faceMax <= faceMax'
                    /\ IsPrefix(faces, faces') /\ IsPrefix(edges, edges')
<1> SUFFICES Grows
  OBVIOUS
<1>1. /\ nVertices \in Nat /\ faceMax \in Nat
      /\ IsPrefix(faces, faces) /\ IsPrefix(edges, edges)
  BY PrefixOfItself DEF MeshInv, MeshTypeOK
<1>2. ASSUME NEW n \in VertexBatches, AddVertices(n) PROVE Grows
  BY <1>1, <1>2, VertexBatchesAssumption DEF AddVertices
<1>3. ASSUME NEW batch \in Batches(FaceInputs), AddFaces(batch) PROVE Grows
  <2>1. nVertices' = nVertices /\ edges' = edges
    BY <1>3 DEF AddFaces
  <2> QED
    BY <1>1, <1>3, <2>1, AddFacesSound
<1>4. ASSUME NEW batch \in Batches(EdgeInputs), AddEdges(batch) PROVE Grows
  <2>1. nVertices' = nVertices /\ faces' = faces /\ faceMax' = faceMax
    BY <1>4 DEF AddEdges
  <2> QED
    BY <1>1, <1>4, <2>1, AddEdgesSound
<1>5. CASE UNCHANGED topology
  BY <1>1, <1>5 DEF topology
<1> QED
  BY <1>2, <1>3, <1>4, <1>5, OpenMeshSteps

(* As long as a mesh is open it only grows.                                *)
THEOREM MeshGrows == MeshSpec => MeshOnlyGrows
<1>1. MeshInv /\ [MeshNext]_meshVars
         => [open /\ open' => /\ nVertices <= nVertices' /\ faceMax <= faceMax'
                             /\ IsPrefix(faces, faces') /\ IsPrefix(edges, edges')]_meshVars
  BY OpenMeshGrows
<1> QED
  BY <1>1, MeshInvHolds, PTL DEF MeshSpec, MeshOnlyGrows

(* A call that fails on an open mesh keeps its vertices and faces and at   *)
(* most appends edges.                                                     *)
THEOREM FailedCallsKeep == MeshSpec => FailedCallKeepsMesh
<1> DEFINE Kept == /\ faces' = faces /\ nVertices' = nVertices
                   /\ IsPrefix(edges, edges')
<1>1. MeshInv /\ [MeshNext]_meshVars
         => [open /\ open' /\ status' # "None" => Kept]_meshVars
  <2> SUFFICES ASSUME MeshInv, [MeshNext]_meshVars,
                      open, open', status' # "None"
               PROVE  Kept
    OBVIOUS
  <2>1. IsPrefix(edges, edges)
    BY PrefixOfItself DEF MeshInv, MeshTypeOK
  <2>2. ASSUME NEW n \in VertexBatches, AddVertices(n) PROVE Kept
    BY <2>2 DEF AddVertices
  <2>3. ASSUME NEW batch \in Batches(FaceInputs), AddFaces(batch) PROVE Kept
    BY <2>1, <2>3 DEF AddFaces
  <2>4. ASSUME NEW batch \in Batches(EdgeInputs), AddEdges(batch) PROVE Kept
    <3>1. nVertices' = nVertices /\ faces' = faces
      BY <2>4 DEF AddEdges
    <3> QED
      BY <2>4, <3>1, AddEdgesSound
  <2>5. CASE UNCHANGED topology
    BY <2>1, <2>5 DEF topology
  <2> QED
    BY <2>2, <2>3, <2>4, <2>5, OpenMeshSteps
<1> QED
  BY <1>1, MeshInvHolds, PTL DEF MeshSpec, FailedCallKeepsMesh
=============================================================================
