------------------------- MODULE MeshSession_proofs -------------------------
(***************************************************************************)
(* What holds of a mesh and its dataset groups together, for every set of  *)
(* drivers, files, inputs, values and faults.  Each half keeps its own     *)
(* invariant (MemoryMesh_proofs, DatasetGroups_proofs); SessionInv adds    *)
(* what one relies on of the other: groups only stay as long as the mesh   *)
(* does, and a .ply file holds groups of the mesh it holds.                *)
(***************************************************************************)
EXTENDS MeshSession, MemoryMesh_proofs, FiniteSetTheorems, WellFoundedInduction

(* The dataset half with its lemmas, on the mesh of MemoryMesh.            *)
P == INSTANCE DatasetGroups_proofs WITH
        running <- alive, lastStatus <- status,
        CountChoices <- [vertices : Nat, faces : Nat, edges : Nat]

(* A group in a mesh file, for a mesh with the counts c.                   *)
SavedGroup == [loc : Locations, scalar : BOOLEAN, sets : Seq(P!Dataset)]

SavedSound(g, c) ==
    \A j \in DOMAIN g.sets : P!DatasetSound(g.loc, g.scalar, g.sets[j], c)

SavedCounts(file) == MeshCounts(file.saved.nVertices, file.saved.faces, file.saved.edges)

(* What mesh file "file" with the groups gs must hold to be loaded.        *)
SavedWithMesh(file, gs) ==
    /\ gs \in Seq(SavedGroup)
    /\ \A i \in DOMAIN gs : SavedSound(gs[i], SavedCounts(file))
    /\ file.format = "PLY" /\ file.whole =>
          file.faces = file.saved.faces /\ file.edges = file.saved.edges

MeshGroupsSound ==
    /\ meshGroups \in [MeshFiles -> Seq(SavedGroup)]
    /\ \A f \in MeshFiles : meshDisk[f] # NoFile => SavedWithMesh(meshDisk[f], meshGroups[f])

SessionInv ==
    /\ MeshInv
    /\ P!GroupsInv
    /\ ~open => counts = P!NoMesh /\ groups = <<>>
    /\ MeshGroupsSound

-----------------------------------------------------------------------------
(* A set of natural numbers has a least; what passes from each number to   *)
(* the next holds of all of them.                                          *)
LEMMA LeastOf ==
    ASSUME NEW T \in SUBSET Nat, T # {}
    PROVE  \E n \in T : \A m \in T : n <= m
<1> DEFINE R == OpToRel(<, Nat)
<1>1. IsWellFoundedOn(R, Nat)
  BY NatLessThanWellFounded
<1> HIDE DEF R
<1>2. \E x \in T : \A y \in T : <<y, x>> \notin R
  BY <1>1, WFMin
<1>3. \A x, y \in Nat : <<y, x>> \notin R => x <= y
  BY DEF R, OpToRel
<1> QED
  BY <1>2, <1>3

LEMMA UpTo ==
    ASSUME NEW n \in Nat, NEW S, 0 \in S,
           \A k \in 1..n : k - 1 \in S => k \in S
    PROVE  0..n \subseteq S
<1> DEFINE T == {k \in 0..n : k \notin S}
<1> SUFFICES ASSUME T # {} PROVE FALSE
  OBVIOUS
<1>1. T \in SUBSET Nat
  OBVIOUS
<1>2. PICK k \in T : \A m \in T : k <= m
  <2> HIDE DEF T
  <2> QED
    BY <1>1, LeastOf
<1>3. k \in 1..n /\ k - 1 \in 0..n
  BY <1>2
<1>4. k - 1 \notin T
  BY <1>2, <1>3
<1> QED
  BY <1>2, <1>3, <1>4

(* Positions can be listed in their order.                                 *)
Listings(k, J) ==
    {at \in [1..k -> J] : \A i, j \in 1..k : i < j => at[i] < at[j]}

LEMMA PositionsListed ==
    ASSUME NEW n \in Nat, NEW I \in SUBSET (1..n)
    PROVE  Cardinality(I) \in Nat /\ Listings(Cardinality(I), I) # {}
<1> DEFINE T == {k \in 0..n : \A J \in SUBSET (1..n) :
                                 Cardinality(J) = k => Listings(k, J) # {}}
<1>1. \A J \in SUBSET (1..n) : /\ IsFiniteSet(J)
                               /\ Cardinality(J) \in 0..n
  <2>1. IsFiniteSet(1..n) /\ Cardinality(1..n) = n
    BY FS_Interval
  <2>2. ASSUME NEW J \in SUBSET (1..n) PROVE IsFiniteSet(J) /\ Cardinality(J) \in 0..n
    <3>1. IsFiniteSet(J) /\ Cardinality(J) <= n
      BY <2>1, FS_Subset
    <3>2. Cardinality(J) \in Nat
      BY <3>1, FS_CardinalityType
    <3> QED
      BY <3>1, <3>2
  <2> QED
    BY <2>2
<1>2. 0 \in T
  <2>1. ASSUME NEW J PROVE [i \in 1..0 |-> i] \in Listings(0, J)
    BY DEF Listings
  <2> QED
    BY <2>1
<1>3. ASSUME NEW k \in 1..n, k - 1 \in T PROVE k \in T
  <2> SUFFICES ASSUME NEW J \in SUBSET (1..n), Cardinality(J) = k
               PROVE  Listings(k, J) # {}
    BY <1>3
  <2>1. J \in SUBSET Nat /\ J # {}
    BY FS_EmptySet
  <2>2. PICK m \in J : \A i \in J : m <= i
    BY <2>1, LeastOf
  <2>3. Cardinality(J \ {m}) = k - 1
    BY <1>1, FS_RemoveElement
  <2>4. Listings(k - 1, J \ {m}) # {}
    BY <1>3, <2>3
  <2>5. PICK g \in [1..(k - 1) -> J \ {m}] :
           \A i, j \in 1..(k - 1) : i < j => g[i] < g[j]
    BY <2>4 DEF Listings
  <2> DEFINE at == [i \in 1..k |-> IF i = 1 THEN m ELSE g[i - 1]]
  <2>6. \A i \in 1..k : i # 1 => i - 1 \in 1..(k - 1)
    OBVIOUS
  <2>7. at \in [1..k -> J]
    BY <2>5, <2>6
  <2>8. ASSUME NEW i \in 1..k, NEW j \in 1..k, i < j PROVE at[i] < at[j]
    <3>1. j # 1 /\ j - 1 \in 1..(k - 1) /\ at[j] = g[j - 1] /\ g[j - 1] \in J \ {m}
      BY <2>5, <2>6, <2>8
    <3>2. CASE i = 1
      <4>1. at[i] = m /\ m \in Nat /\ g[j - 1] \in Nat /\ m <= g[j - 1] /\ m # g[j - 1]
        BY <2>1, <2>2, <3>1, <3>2
      <4> HIDE DEF at
      <4> QED
        BY <3>1, <4>1
    <3>3. CASE i # 1
      <4>1. i - 1 \in 1..(k - 1) /\ i - 1 < j - 1 /\ at[i] = g[i - 1]
        BY <2>6, <2>8, <3>3
      <4> HIDE DEF at
      <4> QED
        BY <2>5, <3>1, <4>1
    <3> QED
      BY <3>2, <3>3
  <2> HIDE DEF at
  <2>9. at \in Listings(k, J)
    BY <2>7, <2>8 DEF Listings
  <2> QED
    BY <2>9
<1>4. 0..n \subseteq T
  <2> HIDE DEF T
  <2> QED
    BY <1>2, <1>3, UpTo
<1> QED
  BY <1>1, <1>4

(* What is picked of a sequence is a sequence of its elements there.       *)
LEMMA PickedElements ==
    ASSUME NEW S, NEW s, NEW n \in Nat, NEW I \in SUBSET (1..n), \A i \in I : s[i] \in S
    PROVE  /\ Picked(s, I) \in Seq(S)
           /\ \A k \in DOMAIN Picked(s, I) : \E i \in I : Picked(s, I)[k] = s[i]
<1> DEFINE places == 1..Cardinality(I)
           at == CHOOSE at \in [places -> I] : \A j, k \in places : j < k => at[j] < at[k]
<1>1. Cardinality(I) \in Nat /\ at \in [places -> I]
  <2>1. Cardinality(I) \in Nat
    BY PositionsListed
  <2>2. \E a \in [places -> I] : \A j, k \in places : j < k => a[j] < a[k]
    BY PositionsListed DEF Listings
  <2> QED
    BY <2>1, <2>2
<1>2. Picked(s, I) = [k \in places |-> s[at[k]]]
  BY DEF Picked
<1> HIDE DEF at
<1>3. Picked(s, I) \in [1..Cardinality(I) -> S]
  BY <1>1, <1>2
<1>4. Picked(s, I) \in Seq(S)
  BY <1>1, <1>3 DEF Seq
<1>5. \A k \in DOMAIN Picked(s, I) : \E i \in I : Picked(s, I)[k] = s[i]
  BY <1>1, <1>2
<1> QED
  BY <1>4, <1>5

-----------------------------------------------------------------------------
(* The steps of the dataset half are those DatasetGroups_proofs is about.  *)
LEMMA GroupsAssumed == P!GroupsAssumption /\ P!FilesAssumption /\ P!DriversAssumption
BY SessionFilesAssumption, SessionGroupsAssumption, DriversAssumption
   DEF P!GroupsAssumption, P!FilesAssumption, P!DriversAssumption, P!Counts, P!HasExtremes,
       G!HasExtremes, P!Locations, Locations, P!DriverNames, DriverNames

LEMMA SameEdits ==
    ASSUME G!GroupEdits
    PROVE  P!GroupEdits
BY DEF G!GroupEdits, G!AddDatasetGroup, G!AddDatasetGroupRefused, G!AddDataset,
       G!AddDatasetRefused, G!AddDataset3D, G!AddDataset3DRefused, G!RemoveDatasetGroup,
       G!RemoveDatasetGroupRefused, G!ResetStatus, G!AppendsNothing, G!AddDatasetRefusal,
       G!AddDataset3DRefusal, G!NewDataset, G!NewDataset3D, G!HasWriteDatasetCapability,
       G!DriverTable, G!DriverNames, G!TwoDm, G!Ply, G!BinaryDat, G!AsciiDat, G!Driver,
       G!Locations, G!NoFaceLimit, G!Slots, G!ValuesCount, G!NoFlags, G!RemoveAt, G!NoData, G!Cardinality,
       P!GroupEdits, P!AddDatasetGroup, P!AddDatasetGroupRefused, P!AddDataset,
       P!AddDatasetRefused, P!AddDataset3D, P!AddDataset3DRefused, P!RemoveDatasetGroup,
       P!RemoveDatasetGroupRefused, P!ResetStatus, P!AppendsNothing, P!AddDatasetRefusal,
       P!AddDataset3DRefusal, P!NewDataset, P!NewDataset3D, P!HasWriteDatasetCapability,
       P!DriverTable, P!DriverNames, P!TwoDm, P!Ply, P!BinaryDat, P!AsciiDat, P!Driver,
       P!Locations, P!NoFaceLimit, P!Slots, P!ValuesCount, P!NoFlags, P!RemoveAt, P!NoData, P!Cardinality

LEMMA SameCloses ==
    ASSUME G!Closes
    PROVE  P!Closes
BY DEF G!Closes, G!CloseBinaryDat, G!CloseAsciiDat, G!ClosePly, G!KilledInPersist, G!CloseAgain,
       G!CloseInEditMode, G!CloseEnds, G!Closed, G!CloseDies, G!CutBefore, G!Persisted,
       G!Written, G!CutShort, G!CutAt, G!BinaryReadsTooFar, G!AsciiReadsTooFar, G!MixedMesh,
       G!AsciiFile, G!PlyCount, G!PlySkips, G!PlyLeavesOut, G!PlyReadsTooFar, G!PlySets,
       G!GroupStatistics, G!Extremes, G!NoMesh, G!Elements, G!Slots, G!ValuesCount,
       P!Closes, P!CloseBinaryDat, P!CloseAsciiDat, P!ClosePly, P!KilledInPersist, P!CloseAgain,
       P!CloseInEditMode, P!CloseEnds, P!Closed, P!CloseDies, P!CutBefore, P!Persisted,
       P!Written, P!CutShort, P!CutAt, P!BinaryReadsTooFar, P!AsciiReadsTooFar, P!MixedMesh,
       P!AsciiFile, P!PlyCount, P!PlySkips, P!PlyLeavesOut, P!PlyReadsTooFar, P!PlySets,
       P!GroupStatistics, P!Extremes, P!NoMesh, P!Elements, P!Slots, P!ValuesCount

LEMMA SameFit ==
    ASSUME NEW loc, NEW scalar, NEW d, NEW c
    PROVE  P!FitsMesh(loc, scalar, d, c) <=> G!FitsMesh(loc, scalar, d, c)
BY DEF P!FitsMesh, P!Slots, P!ValuesCount, P!NoFlags,
       G!FitsMesh, G!Slots, G!ValuesCount, G!NoFlags

LEMMA SameReads ==
    ASSUME NEW f, NEW c
    PROVE  /\ G!AsciiLoads(f, c) <=> P!AsciiLoads(f, c)
           /\ G!AsciiMisread(f, c) <=> P!AsciiMisread(f, c)
           /\ G!MisreadDatasets(f, c) = P!MisreadDatasets(f, c)
           /\ G!Swallows(f, c) <=> P!Swallows(f, c)
           /\ G!AsciiErrors(f, c) = P!AsciiErrors(f, c)
           /\ G!AsciiLocation(f) = P!AsciiLocation(f)
           /\ G!BinaryUsable(c) <=> P!BinaryUsable(c)
           /\ G!BinaryMismatch(c) <=> P!BinaryMismatch(c)
           /\ G!BinaryDatasets(c) = P!BinaryDatasets(c)
BY DEF G!AsciiLoads, G!AsciiRefused, G!AsciiMisread, G!AsciiErrors, G!AsciiLocation,
       G!AsciiDataset, G!MisreadDatasets, G!Swallows, G!FlagsRead, G!StepsRead,
       G!ValueLines, G!MixedElements,
       G!MixedMesh, G!NoData, G!Elements,
       G!Slots, G!ValuesCount, G!NoFlags, G!BinaryUsable, G!BinaryMismatch, G!BinaryDatasets,
       P!AsciiLoads, P!AsciiRefused, P!AsciiMisread, P!AsciiErrors, P!AsciiLocation,
       P!AsciiDataset, P!MisreadDatasets, P!Swallows, P!FlagsRead, P!StepsRead,
       P!ValueLines, P!MixedElements,
       P!MixedMesh, P!NoData, P!Elements,
       P!Slots, P!ValuesCount, P!NoFlags, P!BinaryUsable, P!BinaryMismatch, P!BinaryDatasets

LEMMA SameLoads ==
    ASSUME G!Loads
    PROVE  P!Loads
<1>1. \A g : G!Appends(g) <=> P!Appends(g)
  BY DEF G!Appends, P!Appends
<1>2. \A r : G!AppendsNothing(r) <=> P!AppendsNothing(r)
  BY DEF G!AppendsNothing, P!AppendsNothing
<1>3. \A d, loc, c, f, sets : G!Loaded(d, loc, c, f, sets) = P!Loaded(d, loc, c, f, sets)
  BY DEF G!Loaded, P!Loaded, G!GroupStatistics, P!GroupStatistics, G!Extremes, P!Extremes
<1>4. G!NoData = P!NoData /\ G!NoMesh = P!NoMesh
  BY DEF G!NoData, P!NoData, G!NoMesh, P!NoMesh
<1>5. ASSUME NEW f, G!LoadUnknown(f) PROVE P!LoadUnknown(f)
  BY <1>2, <1>4, <1>5 DEF G!LoadUnknown, P!LoadUnknown
<1>6. ASSUME NEW f, G!LoadBinaryDat(f) PROVE P!LoadBinaryDat(f)
  BY <1>1, <1>2, <1>3, <1>4, <1>6, SameReads DEF G!LoadBinaryDat, P!LoadBinaryDat
<1>7. ASSUME NEW f, G!LoadAsciiDat(f) PROVE P!LoadAsciiDat(f)
  BY <1>1, <1>3, <1>7, SameReads DEF G!LoadAsciiDat, P!LoadAsciiDat
<1>8. ASSUME NEW f, G!LoadAsciiDatMisread(f) PROVE P!LoadAsciiDatMisread(f)
  BY <1>1, <1>2, <1>3, <1>8, SameReads DEF G!LoadAsciiDatMisread, P!LoadAsciiDatMisread
<1>9. ASSUME NEW f, G!LoadAsciiDatFails(f) PROVE P!LoadAsciiDatFails(f)
  BY <1>2, <1>4, <1>9, SameReads DEF G!LoadAsciiDatFails, P!LoadAsciiDatFails
<1>10. ASSUME NEW f, G!LoadAsciiDatDies(f) PROVE P!LoadAsciiDatDies(f)
  BY <1>4, <1>10 DEF G!LoadAsciiDatDies, P!LoadAsciiDatDies, G!MixedElements, P!MixedElements,
                     G!MixedMesh, P!MixedMesh
<1> QED
  BY <1>5, <1>6, <1>7, <1>8, <1>9, <1>10 DEF G!Loads, P!Loads

-----------------------------------------------------------------------------
(* The counts of a sound mesh, and what the dataset half needs of a step   *)
(* of the mesh half.                                                       *)
LEMMA CountsMade ==
    /\ MeshInv => counts \in [vertices : Nat, faces : Nat, edges : Nat]
    /\ nVertices = 0 /\ faces = <<>> /\ edges = <<>> => counts = P!NoMesh
<1>1. MeshInv => counts \in [vertices : Nat, faces : Nat, edges : Nat]
  BY LenProperties DEF MeshInv, MeshTypeOK, counts, MeshCounts
<1>2. Len(<<>>) = 0
  OBVIOUS
<1>3. nVertices = 0 /\ faces = <<>> /\ edges = <<>> => counts = P!NoMesh
  BY <1>2 DEF counts, MeshCounts, P!NoMesh
<1> QED
  BY <1>1, <1>3

LEMMA CountsMadeNext ==
    /\ MeshInv' => counts' \in [vertices : Nat, faces : Nat, edges : Nat]
    /\ nVertices' = 0 /\ faces' = <<>> /\ edges' = <<>> => counts' = P!NoMesh
<1>1. MeshInv' => counts' \in [vertices : Nat, faces : Nat, edges : Nat]
  BY LenProperties DEF MeshInv, MeshTypeOK, counts, MeshCounts
<1>2. Len(<<>>) = 0
  OBVIOUS
<1>3. nVertices' = 0 /\ faces' = <<>> /\ edges' = <<>> => counts' = P!NoMesh
  BY <1>2 DEF counts, MeshCounts, P!NoMesh
<1> QED
  BY <1>1, <1>3

LEMMA SameStatuses == P!Statuses = Statuses /\ P!Locations = Locations
BY DEF P!Statuses, Statuses, P!Locations, Locations

LEMMA GroupsOfStep ==
    ASSUME SessionInv, MeshInv', dataDisk' = dataDisk, P!GroupsSound(groups', counts'),
           ~alive' => counts' = P!NoMesh /\ groups' = <<>>
    PROVE  P!GroupsInv'
<1>1. /\ alive' \in BOOLEAN /\ status' \in P!Statuses
  BY SameStatuses DEF MeshInv, MeshTypeOK
<1>2. counts' \in [vertices : Nat, faces : Nat, edges : Nat]
  BY CountsMadeNext
<1>3. P!DiskSound(dataDisk')
  BY DEF SessionInv, P!GroupsInv
<1> QED
  BY <1>1, <1>2, <1>3 DEF P!GroupsInv

LEMMA MeshFilesKept ==
    ASSUME MeshGroupsSound, UNCHANGED <<meshDisk, meshGroups>>
    PROVE  MeshGroupsSound'
BY DEF MeshGroupsSound

-----------------------------------------------------------------------------
(* Calls of the dataset half leave the mesh and its files alone.           *)
LEMMA GroupCallKeeps ==
    ASSUME SessionInv, GroupCall
    PROVE  SessionInv'
<1>1. P!GroupEdits \/ P!Closes \/ P!Loads
  BY SameEdits, SameCloses, SameLoads DEF GroupCall
<1>2. P!GroupsInv'
  BY <1>1, GroupsAssumed, P!GroupEditsKeep, P!ClosesKeep, P!LoadsKeep DEF SessionInv
<1>3. /\ UNCHANGED <<open, driver, topology, meshDisk, meshGroups, alive>> /\ open
  BY DEF GroupCall
<1>4. status' \in Statuses
  BY <1>2, SameStatuses DEF P!GroupsInv
<1>5. MeshInv'
  <2>1. /\ meshDisk' \in [MeshFiles -> {NoFile} \cup MeshFile] /\ FilesSound'
        /\ alive' \in BOOLEAN /\ (open' => alive')
    BY <1>3 DEF SessionInv, MeshInv, MeshTypeOK, FilesSound
  <2> QED
    BY <1>3, <1>4, <2>1, MeshUntouched DEF SessionInv
<1>6. MeshGroupsSound'
  BY <1>3, MeshFilesKept DEF SessionInv
<1> QED
  BY <1>2, <1>3, <1>5, <1>6 DEF SessionInv

LEMMA GroupCallDiesKeeps ==
    ASSUME SessionInv, GroupCallDies
    PROVE  SessionInv'
<1>1. P!Closes \/ P!Loads
  BY SameCloses, SameLoads DEF GroupCallDies
<1>2. P!GroupsInv'
  BY <1>1, GroupsAssumed, P!ClosesKeep, P!LoadsKeep DEF SessionInv
<1>3. /\ MeshGone /\ UNCHANGED <<meshDisk, meshGroups>> /\ alive' = FALSE
  BY DEF GroupCallDies
<1>4. status' \in Statuses
  BY <1>2, SameStatuses DEF P!GroupsInv
<1>5. MeshInv'
  <2>1. meshDisk' \in [MeshFiles -> {NoFile} \cup MeshFile] /\ FilesSound'
    BY <1>3 DEF SessionInv, MeshInv, MeshTypeOK, FilesSound
  <2> QED
    BY <1>3, <1>4, <2>1, EmptyMeshSound DEF SessionInv, MeshGone
<1>6. MeshGroupsSound'
  BY <1>3, MeshFilesKept DEF SessionInv
<1>7. counts' = P!NoMesh /\ groups' = <<>>
  BY <1>2, <1>3 DEF P!GroupsInv
<1> QED
  BY <1>2, <1>5, <1>6, <1>7 DEF SessionInv

(* Calls of the mesh half are steps of MemoryMesh.                         *)
LEMMA MeshCalls ==
    ASSUME EditMesh \/ QuietMeshCall \/ Save \/ SaveStops \/ SaveEndsProcess \/ Load
               \/ SessionRestart
    PROVE  MeshNext
BY DEF EditMesh, QuietMeshCall, Save, SaveStops, SaveEndsProcess, Load, SessionRestart, MeshNext

LEMMA EditMeshKeeps ==
    ASSUME SessionInv, EditMesh
    PROVE  SessionInv'
<1>1. MeshInv'
  BY MeshCalls, MeshInvNext DEF SessionInv
<1>2. groups' = <<>> /\ UNCHANGED <<alive, meshDisk, dataDisk, meshGroups>> /\ alive
  BY DEF EditMesh, CreateMesh, CloseMesh, AddVertices, AddFaces, AddEdges
<1>3. ~open' => counts' = P!NoMesh
  <2>1. \A d : CreateMesh(d) => open'
    BY DEF CreateMesh
  <2>2. CloseMesh => MeshGone
    BY DEF CloseMesh
  <2>3. \A n : AddVertices(n) => open'
    BY DEF AddVertices
  <2>4. \A batch : AddFaces(batch) => open'
    BY DEF AddFaces
  <2>5. \A batch : AddEdges(batch) => open'
    BY DEF AddEdges
  <2> QED
    BY <2>1, <2>2, <2>3, <2>4, <2>5, CountsMadeNext DEF EditMesh, MeshGone
<1>4. P!GroupsInv'
  <2>1. P!GroupsSound(groups', counts')
    BY <1>2, GroupsAssumed, P!NoGroups
  <2> QED
    BY <1>1, <1>2, <2>1, GroupsOfStep
<1>5. MeshGroupsSound'
  BY <1>2, MeshFilesKept DEF SessionInv
<1> QED
  BY <1>1, <1>2, <1>3, <1>4, <1>5 DEF SessionInv

(* A call that leaves the mesh and its groups as they are.                 *)
LEMMA MeshStays ==
    ASSUME SessionInv, MeshInv', UNCHANGED <<open, topology, groups, dataDisk>>,
           alive \/ (alive' /\ ~open), MeshGroupsSound', alive' = alive \/ alive'
    PROVE  SessionInv'
<1>1. counts' = counts
  BY DEF counts, topology
<1>2. P!GroupsSound(groups', counts')
  BY <1>1 DEF SessionInv, P!GroupsInv
<1>3. P!GroupsInv'
  BY <1>1, <1>2, GroupsOfStep
<1> QED
  BY <1>1, <1>3 DEF SessionInv

LEMMA QuietKeeps ==
    ASSUME SessionInv, QuietMeshCall
    PROVE  SessionInv'
<1>1. MeshInv'
  BY MeshCalls, MeshInvNext DEF SessionInv
<1>2. UNCHANGED <<alive, open, topology, groups, dataDisk, meshDisk, meshGroups>> /\ alive
  BY DEF QuietMeshCall, NullMesh, SaveRefused, LoadMeshFails
<1>3. MeshGroupsSound'
  BY <1>2, MeshFilesKept DEF SessionInv
<1> QED
  BY <1>1, <1>2, <1>3, MeshStays

LEMMA RestartKeeps ==
    ASSUME SessionInv, SessionRestart
    PROVE  SessionInv'
<1>1. MeshInv'
  BY MeshCalls, MeshInvNext DEF SessionInv
<1>2. /\ UNCHANGED <<open, topology, groups, dataDisk, meshDisk, meshGroups>>
      /\ ~alive /\ alive'
  BY DEF SessionRestart, Restart
<1>3. ~open
  BY <1>2 DEF SessionInv, MeshInv, MeshTypeOK
<1>4. MeshGroupsSound'
  BY <1>2, MeshFilesKept DEF SessionInv
<1> QED
  BY <1>1, <1>2, <1>3, <1>4, MeshStays

-----------------------------------------------------------------------------
(* A mesh file is written, with groups that fit what it holds.             *)
LEMMA MeshFileWritten ==
    ASSUME SessionInv, NEW f \in MeshFiles, NEW c, NEW gs, SavedWithMesh(c, gs),
           meshDisk' = [meshDisk EXCEPT ![f] = c],
           meshGroups' = [meshGroups EXCEPT ![f] = gs]
    PROVE  MeshGroupsSound'
<1>1. /\ DOMAIN meshDisk = MeshFiles
      /\ meshGroups \in [MeshFiles -> Seq(SavedGroup)]
      /\ gs \in Seq(SavedGroup)
  BY DEF SessionInv, MeshGroupsSound, MeshInv, MeshTypeOK, SavedWithMesh
<1>2. \A g \in MeshFiles : /\ meshDisk'[g] = IF g = f THEN c ELSE meshDisk[g]
                           /\ meshGroups'[g] = IF g = f THEN gs ELSE meshGroups[g]
  BY <1>1
<1>3. meshGroups' \in [MeshFiles -> Seq(SavedGroup)]
  BY <1>1
<1>4. \A g \in MeshFiles : meshDisk'[g] # NoFile => SavedWithMesh(meshDisk'[g], meshGroups'[g])
  BY <1>2 DEF SessionInv, MeshGroupsSound
<1> QED
  BY <1>3, <1>4 DEF MeshGroupsSound

LEMMA WithoutGroups ==
    ASSUME NEW c, c.format = "PLY" /\ c.whole =>
                     c.faces = c.saved.faces /\ c.edges = c.saved.edges
    PROVE  SavedWithMesh(c, <<>>)
BY EmptySeq DEF SavedWithMesh

(* The groups DriverPly::save writes are the first datasets of groups of   *)
(* the mesh, so they fit it.                                               *)
Fitting == {g \in P!Group : P!GroupSound(g, counts)}

LEMMA PlyAtFits ==
    ASSUME SessionInv, NEW loc
    PROVE  PlyAt(loc) \in Seq(Fitting)
<1> DEFINE I == {i \in DOMAIN groups : InPly(groups[i]) /\ groups[i].loc = loc}
<1>1. groups \in Seq(P!Group) /\ \A i \in DOMAIN groups : P!GroupSound(groups[i], counts)
  BY DEF SessionInv, P!GroupsInv, P!GroupsSound
<1>2. Len(groups) \in Nat /\ DOMAIN groups = 1..Len(groups)
  BY <1>1, LenProperties
<1>3. I \in SUBSET (1..Len(groups))
  BY <1>2
<1>4. \A i \in I : groups[i] \in Fitting
  BY <1>1, <1>2, ElementOfSeq DEF Fitting
<1> HIDE DEF I
<1>5. Picked(groups, I) \in Seq(Fitting)
  BY <1>2, <1>3, <1>4, PickedElements
<1> QED
  BY <1>5 DEF PlyAt, I

LEMMA FirstDatasetFits ==
    ASSUME NEW g \in Fitting
    PROVE  /\ g.loc \in Locations /\ g.scalar \in BOOLEAN
           /\ G!PlySets(g, counts) \in Seq(P!Dataset)
           /\ \A j \in DOMAIN G!PlySets(g, counts) :
                 P!DatasetSound(g.loc, g.scalar, G!PlySets(g, counts)[j], counts)
<1>1. /\ g.loc \in Locations /\ g.scalar \in BOOLEAN /\ g.datasets \in Seq(P!Dataset)
      /\ \A j \in DOMAIN g.datasets : P!DatasetSound(g.loc, g.scalar, g.datasets[j], counts)
  BY SameStatuses DEF Fitting, P!Group, P!GroupSound
<1>2. CASE G!PlySets(g, counts) = <<>>
  BY <1>1, <1>2
<1>3. CASE G!PlySets(g, counts) # <<>>
  <2>1. G!PlySets(g, counts) = <<g.datasets[1]>> /\ g.datasets # <<>>
    BY <1>3 DEF G!PlySets
  <2>2. 1 \in DOMAIN g.datasets /\ g.datasets[1] \in P!Dataset
    BY <1>1, <2>1, EmptySeq, LenProperties, ElementOfSeq
  <2> DEFINE d == g.datasets[1]
  <2>3. d \in P!Dataset /\ P!DatasetSound(g.loc, g.scalar, d, counts)
    BY <1>1, <2>2
  <2> HIDE DEF d
  <2>4. <<d>> \in Seq(P!Dataset) /\ \A j \in DOMAIN <<d>> : <<d>>[j] = d
    BY <2>3
  <2> QED
    BY <1>1, <2>1, <2>3, <2>4 DEF d
<1> QED
  BY <1>2, <1>3

LEMMA PlyGroupsSound ==
    ASSUME SessionInv
    PROVE  /\ PlyGroups \in Seq(SavedGroup)
           /\ \A i \in DOMAIN PlyGroups : SavedSound(PlyGroups[i], counts)
<1> DEFINE ordered == PlyAt(PlyOrder[1]) \o PlyAt(PlyOrder[2])
                         \o PlyAt(PlyOrder[3]) \o PlyAt(PlyOrder[4])
           Saved(g) == [loc |-> g.loc, scalar |-> g.scalar, sets |-> G!PlySets(g, counts)]
<1>1. ordered \in Seq(Fitting)
  BY PlyAtFits, ConcatProperties
<1>2. PlyGroups = [i \in DOMAIN ordered |-> Saved(ordered[i])]
  BY DEF PlyGroups
<1> HIDE DEF ordered
<1>3. Len(ordered) \in Nat /\ DOMAIN ordered = 1..Len(ordered)
  BY <1>1, LenProperties
<1>4. ASSUME NEW i \in DOMAIN ordered
      PROVE  Saved(ordered[i]) \in SavedGroup /\ SavedSound(Saved(ordered[i]), counts)
  <2>1. ordered[i] \in Fitting
    BY <1>1, <1>3, <1>4, ElementOfSeq
  <2> QED
    BY <2>1, FirstDatasetFits DEF SavedGroup, SavedSound
<1> HIDE DEF Saved
<1>5. PlyGroups \in [1..Len(ordered) -> SavedGroup]
  BY <1>2, <1>3, <1>4
<1>6. PlyGroups \in Seq(SavedGroup)
  BY <1>3, <1>5 DEF Seq
<1>7. \A i \in DOMAIN PlyGroups : SavedSound(PlyGroups[i], counts)
  BY <1>2, <1>4
<1> QED
  BY <1>6, <1>7

LEMMA SaveKeeps ==
    ASSUME SessionInv, Save
    PROVE  SessionInv'
<1>1. MeshInv'
  BY MeshCalls, MeshInvNext DEF SessionInv
<1>2. PICK f \in MeshFiles, d \in Drivers :
         /\ \/ SaveMesh(f, d) /\ SaveGroups(f, d)
            \/ SaveMeshUnopened(f, d) /\ UNCHANGED meshGroups
         /\ UNCHANGED <<groups, dataDisk>>
  BY DEF Save
<1>3. UNCHANGED <<alive, open, topology, groups, dataDisk>> /\ alive
  BY <1>2 DEF SaveMesh, SaveMeshUnopened
<1>4. CASE SaveMesh(f, d) /\ SaveGroups(f, d)
  <2>1. PICK lines \in WrittenFaces(d) :
           meshDisk' = [meshDisk EXCEPT ![f] =
               [format |-> d, saved |-> TheMesh, faces |-> lines,
                edges |-> edges, whole |-> TRUE]]
    BY <1>4 DEF SaveMesh
  <2> DEFINE c == [format |-> d, saved |-> TheMesh, faces |-> lines,
                   edges |-> edges, whole |-> TRUE]
             gs == IF d = "PLY" THEN PlyGroups ELSE <<>>
  <2>2. c.format = "PLY" => c.faces = c.saved.faces /\ c.edges = c.saved.edges
    BY <2>1 DEF WrittenFaces, TheMesh
  <2>3. SavedCounts(c) = counts
    BY DEF SavedCounts, TheMesh, counts
  <2>4. SavedWithMesh(c, gs)
    <3> HIDE DEF c
    <3>1. CASE d = "PLY"
      BY <2>2, <2>3, <3>1, PlyGroupsSound DEF SavedWithMesh
    <3>2. CASE d # "PLY"
      BY <2>2, <3>2, WithoutGroups
    <3> QED
      BY <3>1, <3>2
  <2>5. meshGroups' = [meshGroups EXCEPT ![f] = gs]
    BY <1>4 DEF SaveGroups
  <2>6. meshDisk' = [meshDisk EXCEPT ![f] = c]
    BY <2>1
  <2> HIDE DEF c, gs
  <2>7. MeshGroupsSound'
    BY <2>4, <2>5, <2>6, MeshFileWritten
  <2> QED
    BY <1>1, <1>3, <2>7, MeshStays
<1>5. CASE SaveMeshUnopened(f, d) /\ UNCHANGED meshGroups
  <2>1. MeshGroupsSound'
    BY <1>5, MeshFilesKept DEF SessionInv, SaveMeshUnopened
  <2> QED
    BY <1>1, <1>3, <2>1, MeshStays
<1> QED
  BY <1>2, <1>4, <1>5

(* DriverPly::save, or the iterator, stopped: what it left has no groups.  *)
LEMMA PartWritten ==
    ASSUME SessionInv, NEW f \in MeshFiles, NEW c, ~c.whole,
           meshDisk' \in {meshDisk, [meshDisk EXCEPT ![f] = c]},
           meshGroups' = IF meshDisk' = meshDisk THEN meshGroups
                         ELSE [meshGroups EXCEPT ![f] = <<>>]
    PROVE  MeshGroupsSound'
<1>1. CASE meshDisk' = meshDisk
  BY <1>1, MeshFilesKept DEF SessionInv
<1>2. CASE meshDisk' # meshDisk
  BY <1>2, WithoutGroups, MeshFileWritten
<1> QED
  BY <1>1, <1>2

LEMMA SaveStopsKeeps ==
    ASSUME SessionInv, SaveStops
    PROVE  SessionInv'
<1>1. MeshInv'
  BY MeshCalls, MeshInvNext DEF SessionInv
<1>2. PICK f \in MeshFiles :
         /\ SaveMeshStopped(f)
         /\ meshGroups' = IF meshDisk' = meshDisk THEN meshGroups
                          ELSE [meshGroups EXCEPT ![f] = <<>>]
         /\ UNCHANGED <<groups, dataDisk>>
  BY DEF SaveStops
<1>3. /\ UNCHANGED <<alive, open, topology, groups, dataDisk>> /\ alive
      /\ meshDisk' \in {meshDisk, [meshDisk EXCEPT ![f] = Truncated]}
  BY <1>2 DEF SaveMeshStopped
<1>4. MeshGroupsSound'
  <2>1. ~Truncated.whole
    BY DEF Truncated
  <2> QED
    BY <1>2, <1>3, <2>1, PartWritten
<1> QED
  BY <1>1, <1>3, <1>4, MeshStays

LEMMA SaveEndsProcessKeeps ==
    ASSUME SessionInv, SaveEndsProcess
    PROVE  SessionInv'
<1>1. MeshInv'
  BY MeshCalls, MeshInvNext DEF SessionInv
<1>2. PICK f \in MeshFiles :
         /\ SaveMeshDies(f) \/ \E d \in Drivers : SaveMeshThrows(f, d)
         /\ meshGroups' = IF meshDisk' = meshDisk THEN meshGroups
                          ELSE [meshGroups EXCEPT ![f] = <<>>]
         /\ groups' = <<>> /\ dataDisk' = dataDisk
  BY DEF SaveEndsProcess
<1>3. alive' = FALSE /\ MeshGone
  BY <1>2 DEF SaveMeshDies, SaveMeshThrows
<1>4. MeshGroupsSound'
  <2>1. ASSUME SaveMeshDies(f) PROVE MeshGroupsSound'
    <3>1. ~Truncated.whole
      BY DEF Truncated
    <3> QED
      BY <1>2, <2>1, <3>1, PartWritten DEF SaveMeshDies
  <2>2. ASSUME NEW d \in Drivers, SaveMeshThrows(f, d) PROVE MeshGroupsSound'
    <3>1. PICK lines \in WrittenFaces(d), k \in 0..(Len(edges) - 1) :
             meshDisk' = [meshDisk EXCEPT ![f] =
                 [format |-> d, saved |-> TheMesh, faces |-> lines,
                  edges |-> SubSeq(edges, 1, k), whole |-> FALSE]]
      BY <2>2 DEF SaveMeshThrows
    <3> DEFINE c == [format |-> d, saved |-> TheMesh, faces |-> lines,
                     edges |-> SubSeq(edges, 1, k), whole |-> FALSE]
    <3>2. ~c.whole /\ meshDisk' = [meshDisk EXCEPT ![f] = c]
      BY <3>1
    <3> HIDE DEF c
    <3> QED
      BY <1>2, <3>2, PartWritten
  <2> QED
    BY <1>2, <2>1, <2>2
<1>5. counts' = P!NoMesh
  BY <1>3, CountsMadeNext DEF MeshGone
<1>6. P!GroupsInv'
  <2>1. P!GroupsSound(groups', counts')
    BY <1>2, GroupsAssumed, P!NoGroups
  <2> QED
    BY <1>1, <1>2, <1>5, <2>1, GroupsOfStep
<1> QED
  BY <1>1, <1>2, <1>4, <1>5, <1>6 DEF SessionInv

-----------------------------------------------------------------------------
(* MDAL_LoadMesh: each group it makes fits the mesh that is loaded with it.*)
ClosedFor(m) == {g \in P!Group : P!GroupSound(g, m) /\ ~g.edit}

LEMMA CompanionFits ==
    ASSUME NEW m, NEW d \in {"2DM", "PLY"}, NEW loc \in Locations, NEW scalar \in BOOLEAN,
           NEW sets \in Seq(P!Dataset),
           \A j \in DOMAIN sets : P!DatasetSound(loc, scalar, sets[j], m)
    PROVE  G!Companion(d, loc, scalar, FALSE, sets) \in ClosedFor(m)
<1> DEFINE g == P!Companion(d, loc, scalar, FALSE, sets)
<1>1. g = G!Companion(d, loc, scalar, FALSE, sets)
  BY DEF P!Companion, G!Companion, P!GroupStatistics, G!GroupStatistics, P!Extremes, G!Extremes
<1>2. d \in P!DriverNames /\ d \notin P!Dats /\ loc \in P!Locations /\ FALSE \in BOOLEAN
  BY SameStatuses DEF P!DriverNames, P!Dats
<1>3. P!GroupSound(g, m) /\ ~g.edit
  BY <1>2, GroupsAssumed, P!CompanionSound
<1> HIDE DEF g
<1> QED
  BY <1>1, <1>3 DEF ClosedFor, P!GroupSound

LEMMA BedElevationFits ==
    ASSUME NEW m \in [vertices : Nat, faces : Nat, edges : Nat], NEW d \in {"2DM", "PLY"},
           NEW vals \in ValueSets
    PROVE  G!BedElevation(d, m, vals) \in Seq(ClosedFor(m))
<1> DEFINE gs == P!BedElevation(d, m, vals)
<1>1. gs = G!BedElevation(d, m, vals)
  BY DEF P!BedElevation, G!BedElevation, P!Companion, G!Companion, P!GroupStatistics,
         G!GroupStatistics, P!Extremes, G!Extremes, P!NoFlags, G!NoFlags
<1>2. m \in P!Counts /\ d \in P!DriverNames \ P!Dats
  BY DEF P!Counts, P!DriverNames, P!Dats
<1>3. P!GroupsSound(gs, m) /\ \A i \in DOMAIN gs : ~gs[i].edit
  BY <1>2, GroupsAssumed, P!BedElevationSound
<1> HIDE DEF gs
<1>4. gs \in Seq(P!Group) /\ \A i \in DOMAIN gs : P!GroupSound(gs[i], m) /\ ~gs[i].edit
  BY <1>3 DEF P!GroupsSound
<1>5. Len(gs) \in Nat /\ gs \in [1..Len(gs) -> ClosedFor(m)]
  BY <1>4, LenProperties, ElementOfSeq DEF ClosedFor
<1>6. gs \in Seq(ClosedFor(m))
  BY <1>5 DEF Seq
<1> QED
  BY <1>1, <1>6

LEMMA NativeIdsFit ==
    ASSUME NEW m \in [vertices : Nat, faces : Nat, edges : Nat], NEW loc \in {"Faces", "Edges"},
           NEW vals \in ValueSets
    PROVE  NativeIds(loc, IF loc = "Faces" THEN m.faces ELSE m.edges, vals)
              \in Seq(ClosedFor(m))
<1> DEFINE n == IF loc = "Faces" THEN m.faces ELSE m.edges
           d == [size |-> n, flags |-> G!NoFlags, vals |-> vals]
           g == G!Companion("2DM", loc, TRUE, FALSE, <<d>>)
<1>1. vals \in SUBSET Int /\ P!HasExtremes(vals)
  BY GroupsAssumed, P!ValuesGiven
<1>2. d \in P!Dataset /\ n \in Nat
  BY <1>1 DEF P!Dataset, G!NoFlags
<1>3. P!DatasetSound(loc, TRUE, d, m)
  BY <1>1 DEF P!DatasetSound, P!FitsMesh, P!Slots, P!ValuesCount, P!NoFlags, G!NoFlags
<1> HIDE DEF d
<1>4. <<d>> \in Seq(P!Dataset) /\ \A j \in DOMAIN <<d>> : <<d>>[j] = d
  BY <1>2
<1>5. g \in ClosedFor(m)
  <2>1. loc \in Locations /\ TRUE \in BOOLEAN /\ "2DM" \in {"2DM", "PLY"}
    BY DEF Locations
  <2> HIDE DEF n
  <2>2. \A j \in DOMAIN <<d>> : P!DatasetSound(loc, TRUE, <<d>>[j], m)
    BY <1>3, <1>4
  <2> QED
    BY <1>4, <2>1, <2>2, CompanionFits
<1> HIDE DEF g
<1>6. <<g>> \in Seq(ClosedFor(m))
  BY <1>5
<1> QED
  BY <1>6 DEF NativeIds, g, d

LEMMA From2dmFits ==
    ASSUME NEW c, NEW vals \in ValueSets, NEW m \in [vertices : Nat, faces : Nat, edges : Nat],
           m.faces = Len(c.faces), m.edges = Len(c.edges)
    PROVE  From2dm(c, vals) \subseteq Seq(ClosedFor(m))
<1> DEFINE ofFaces == NativeIds("Faces", Len(c.faces), vals)
           ofEdges == NativeIds("Edges", Len(c.edges), vals)
<1>1. ofFaces \in Seq(ClosedFor(m)) /\ ofEdges \in Seq(ClosedFor(m))
  BY NativeIdsFit
<1>2. <<>> \in Seq(ClosedFor(m))
  BY EmptySeq
<1> HIDE DEF ofFaces, ofEdges
<1> DEFINE A == {<<>>} \cup (IF RepeatedLines(c.faces) THEN {ofFaces} ELSE {})
           edgeIds == IF c.faces # <<>> /\ c.edges # <<>> THEN ofEdges ELSE <<>>
<1>3. A \subseteq Seq(ClosedFor(m)) /\ edgeIds \in Seq(ClosedFor(m))
  BY <1>1, <1>2
<1>4. From2dm(c, vals) = {faceIds \o edgeIds : faceIds \in A}
  BY DEF From2dm, ofFaces, ofEdges
<1> HIDE DEF A, edgeIds
<1>5. \A faceIds \in A : faceIds \o edgeIds \in Seq(ClosedFor(m))
  BY <1>3, ConcatProperties
<1> QED
  BY <1>4, <1>5

(* A group that was saved for this mesh comes back for it, without flags.  *)
LEMMA PlyDatasetFits ==
    ASSUME NEW g \in SavedGroup, NEW m, SavedSound(g, m)
    PROVE  /\ PlyDatasets(g) \in Seq(P!Dataset)
           /\ \A j \in DOMAIN PlyDatasets(g) :
                 P!DatasetSound(g.loc, g.scalar, PlyDatasets(g)[j], m)
<1> DEFINE d == PlyDataset(g)
<1>1. g.sets \in Seq(P!Dataset)
  BY DEF SavedGroup
<1>2. CASE PlyDatasets(g) = <<>>
  BY <1>2
<1>3. CASE PlyDatasets(g) # <<>>
  <2>1. PlyDatasets(g) = <<d>> /\ g.sets # <<>>
    BY <1>3 DEF PlyDatasets
  <2>2. 1 \in DOMAIN g.sets /\ g.sets[1] \in P!Dataset
    BY <1>1, <2>1, EmptySeq, LenProperties, ElementOfSeq
  <2>3. P!DatasetSound(g.loc, g.scalar, g.sets[1], m)
    BY <2>2 DEF SavedSound
  <2>4. /\ d \in P!Dataset /\ d.size = g.sets[1].size /\ d.vals = g.sets[1].vals
        /\ d.flags = IF g.loc = "Volumes" THEN g.sets[1].flags ELSE P!NoFlags
    BY <2>2 DEF PlyDataset, P!Dataset, G!NoFlags, P!NoFlags
  <2> HIDE DEF d
  <2>5. P!DatasetSound(g.loc, g.scalar, d, m)
    BY <2>3, <2>4 DEF P!DatasetSound, P!FitsMesh
  <2>6. <<d>> \in Seq(P!Dataset) /\ \A j \in DOMAIN <<d>> : <<d>>[j] = d
    BY <2>4
  <2> QED
    BY <2>1, <2>5, <2>6
<1> QED
  BY <1>2, <1>3

LEMMA FromPlyFits ==
    ASSUME NEW saved \in Seq(SavedGroup), NEW m,
           \A i \in DOMAIN saved : SavedSound(saved[i], m)
    PROVE  FromPly(saved) \in Seq(ClosedFor(m))
<1> DEFINE S == {g \in SavedGroup : SavedSound(g, m)}
           I == {i \in DOMAIN saved : ComesBack(saved, i)}
           kept == Picked(saved, I)
           Back(g) == G!Companion("PLY", g.loc, g.scalar, FALSE, PlyDatasets(g))
<1>1. Len(saved) \in Nat /\ DOMAIN saved = 1..Len(saved)
  BY LenProperties
<1>2. I \in SUBSET (1..Len(saved)) /\ \A i \in I : saved[i] \in S
  BY <1>1, ElementOfSeq
<1>3. FromPly(saved) = [k \in DOMAIN kept |-> Back(kept[k])]
  BY DEF FromPly
<1>4. ASSUME NEW g \in S PROVE Back(g) \in ClosedFor(m)
  <2>1. g.loc \in Locations /\ g.scalar \in BOOLEAN
    BY DEF SavedGroup
  <2> QED
    BY <2>1, PlyDatasetFits, CompanionFits
<1> HIDE DEF I, S, Back
<1>5. kept \in Seq(S)
  BY <1>1, <1>2, PickedElements
<1> HIDE DEF kept
<1>6. Len(kept) \in Nat /\ DOMAIN kept = 1..Len(kept)
  BY <1>5, LenProperties
<1>7. FromPly(saved) \in [1..Len(kept) -> ClosedFor(m)]
  BY <1>3, <1>4, <1>5, <1>6, ElementOfSeq
<1> QED
  BY <1>6, <1>7 DEF Seq

LEMMA LoadedGroups ==
    ASSUME SessionInv, Load
    PROVE  groups' \in Seq(ClosedFor(counts'))
<1>1. PICK f \in MeshFiles, vals \in ValueSets :
         LET c == meshDisk[f]
         IN  /\ LoadMesh(f)
             /\ \E others \in IF c.format = "PLY" THEN {FromPly(meshGroups[f])}
                              ELSE From2dm(c, vals) :
                   groups' = G!BedElevation(driver', MeshCounts(nVertices', faces', edges'), vals)
                                 \o others
  BY DEF Load
<1> DEFINE c == meshDisk[f]
           m == MeshCounts(nVertices', faces', edges')
<1>2. MeshInv' /\ counts' = m
  BY MeshCalls, MeshInvNext DEF SessionInv, counts
<1>3. m \in [vertices : Nat, faces : Nat, edges : Nat]
  BY <1>2, CountsMadeNext
<1>4. /\ c # NoFile /\ c \in MeshFile /\ c.format \in {"2DM", "PLY"} /\ Loadable(c)
      /\ driver' = c.format /\ nVertices' = c.saved.nVertices
      /\ faces' = c.faces /\ edges' = c.edges
  BY <1>1 DEF LoadMesh, SessionInv, MeshInv, MeshTypeOK, MeshFile
<1>5. SavedWithMesh(c, meshGroups[f])
  BY <1>4 DEF SessionInv, MeshGroupsSound
<1>6. PICK others \in IF c.format = "PLY" THEN {FromPly(meshGroups[f])} ELSE From2dm(c, vals) :
         groups' = G!BedElevation(driver', m, vals) \o others
  BY <1>1
<1>7. others \in Seq(ClosedFor(m))
  <2>1. CASE c.format = "PLY"
    <3>1. c.faces = c.saved.faces /\ c.edges = c.saved.edges
      BY <1>4, <1>5, <2>1 DEF SavedWithMesh, Loadable
    <3>2. SavedCounts(c) = m
      BY <1>4, <3>1 DEF SavedCounts
    <3> HIDE DEF m, c
    <3> QED
      BY <1>5, <1>6, <2>1, <3>2, FromPlyFits DEF SavedWithMesh
  <2>2. CASE c.format # "PLY"
    <3>1. m.faces = Len(c.faces) /\ m.edges = Len(c.edges)
      BY <1>4 DEF MeshCounts
    <3> HIDE DEF m, c
    <3> QED
      BY <1>3, <1>6, <2>2, <3>1, From2dmFits
  <2> QED
    BY <2>1, <2>2
<1>8. G!BedElevation(driver', m, vals) \in Seq(ClosedFor(m))
  <2> HIDE DEF m
  <2> QED
    BY <1>3, <1>4, BedElevationFits
<1> HIDE DEF m
<1> QED
  BY <1>2, <1>6, <1>7, <1>8, ConcatProperties

LEMMA LoadKeeps ==
    ASSUME SessionInv, Load
    PROVE  SessionInv'
<1>1. MeshInv'
  BY MeshCalls, MeshInvNext DEF SessionInv
<1>2. open' /\ alive /\ alive' = alive /\ UNCHANGED <<meshDisk, dataDisk, meshGroups>>
  BY DEF Load, LoadMesh
<1>3. P!GroupsSound(groups', counts')
  <2>1. groups' \in Seq(ClosedFor(counts'))
    BY LoadedGroups
  <2>2. \A i \in DOMAIN groups' : groups'[i] \in ClosedFor(counts')
    BY <2>1, LenProperties, ElementOfSeq
  <2>3. groups' \in Seq(P!Group)
    BY <2>1, <2>2 DEF ClosedFor
  <2> QED
    BY <2>2, <2>3 DEF ClosedFor, P!GroupsSound
<1>4. P!GroupsInv'
  BY <1>1, <1>2, <1>3, GroupsOfStep
<1>5. MeshGroupsSound'
  BY <1>2, MeshFilesKept DEF SessionInv
<1> QED
  BY <1>1, <1>2, <1>4, <1>5 DEF SessionInv

-----------------------------------------------------------------------------
LEMMA SessionInvInit == SessionInit => SessionInv
<1> SUFFICES ASSUME SessionInit PROVE SessionInv
  OBVIOUS
<1>1. MeshInv
  BY MeshInvInit DEF SessionInit
<1>2. /\ alive = TRUE /\ status = "None" /\ nVertices = 0 /\ faces = <<>> /\ edges = <<>>
      /\ meshDisk = [f \in MeshFiles |-> NoFile]
  BY DEF SessionInit, MeshInit
<1>3. counts = P!NoMesh /\ groups = <<>>
  BY <1>2, CountsMade DEF SessionInit
<1>4. P!GroupsInv
  <2>1. P!DiskSound(dataDisk)
    BY DEF SessionInit, P!DiskSound, G!NoData, P!NoData
  <2>2. P!GroupsSound(groups, counts)
    BY <1>3, GroupsAssumed, P!NoGroups
  <2> QED
    BY <1>1, <1>2, <1>3, <2>1, <2>2, CountsMade DEF P!GroupsInv, P!Statuses
<1>5. MeshGroupsSound
  <2>1. <<>> \in Seq(SavedGroup)
    BY EmptySeq
  <2> QED
    BY <1>2, <2>1 DEF MeshGroupsSound, SessionInit
<1> QED
  BY <1>1, <1>3, <1>4, <1>5 DEF SessionInv

LEMMA SessionInvNext == SessionInv /\ [SessionNext]_sessionVars => SessionInv'
<1> SUFFICES ASSUME SessionInv, [SessionNext]_sessionVars PROVE SessionInv'
  OBVIOUS
<1>1. ASSUME UNCHANGED sessionVars PROVE SessionInv'
  <2>1. /\ UNCHANGED meshVars /\ groups' = groups /\ dataDisk' = dataDisk
        /\ meshGroups' = meshGroups
    BY <1>1 DEF sessionVars
  <2>2. MeshInv'
    BY <2>1, MeshInvNext DEF SessionInv
  <2>3. /\ alive' = alive /\ open' = open /\ nVertices' = nVertices /\ faces' = faces
        /\ edges' = edges /\ meshDisk' = meshDisk
    BY <2>1 DEF meshVars, topology
  <2>4. counts' = counts
    BY <2>3 DEF counts
  <2>5. P!GroupsInv'
    BY <2>1, <2>2, <2>3, <2>4, GroupsOfStep DEF SessionInv, P!GroupsInv
  <2>6. MeshGroupsSound'
    BY <2>1, <2>3, MeshFilesKept DEF SessionInv
  <2> QED
    BY <2>1, <2>2, <2>3, <2>4, <2>5, <2>6 DEF SessionInv
<1> QED
  BY <1>1, GroupCallKeeps, GroupCallDiesKeeps, EditMeshKeeps, QuietKeeps, SaveKeeps,
     SaveStopsKeeps, SaveEndsProcessKeeps, LoadKeeps, RestartKeeps DEF SessionNext

-----------------------------------------------------------------------------
(* Mesh, groups, dataset files and mesh files fit one another, always.     *)
THEOREM SessionInvHolds == SessionSpec => []SessionInv
BY SessionInvInit, SessionInvNext, PTL DEF SessionSpec

(* Every dataset of every group holds what the mesh, as it is now, needs,  *)
(* whatever edits, saves, loads and persists came before.                  *)
THEOREM GroupsStayFit == SessionSpec => []GroupsFitMesh
<1>1. SessionInv => GroupsFitMesh
  <2> SUFFICES ASSUME SessionInv, NEW i \in DOMAIN groups, NEW j \in DOMAIN groups[i].datasets
               PROVE  G!FitsMesh(groups[i].loc, groups[i].scalar, groups[i].datasets[j], counts)
    BY DEF GroupsFitMesh, G!DatasetsFitMesh
  <2>1. P!FitsMesh(groups[i].loc, groups[i].scalar, groups[i].datasets[j], counts)
    BY DEF SessionInv, P!GroupsInv, P!GroupsSound, P!GroupSound, P!DatasetSound
  <2> QED
    BY <2>1, SameFit
<1> QED
  BY <1>1, SessionInvHolds, PTL

(* Whatever a .ply mesh file holds of groups fits the mesh it holds.       *)
THEOREM SavedGroupsStayFit == SessionSpec => []SavedGroupsFit
<1>1. SessionInv => SavedGroupsFit
  <2> SUFFICES ASSUME SessionInv, NEW f \in MeshFiles, meshDisk[f] # NoFile,
                      NEW i \in DOMAIN meshGroups[f],
                      NEW j \in DOMAIN meshGroups[f][i].sets
               PROVE  G!FitsMesh(meshGroups[f][i].loc, meshGroups[f][i].scalar,
                         meshGroups[f][i].sets[j], SavedCounts(meshDisk[f]))
    BY DEF SavedGroupsFit, SavedCounts
  <2>1. SavedSound(meshGroups[f][i], SavedCounts(meshDisk[f]))
    BY DEF SessionInv, MeshGroupsSound, SavedWithMesh
  <2>2. P!FitsMesh(meshGroups[f][i].loc, meshGroups[f][i].scalar,
           meshGroups[f][i].sets[j], SavedCounts(meshDisk[f]))
    BY <2>1 DEF SavedSound, P!DatasetSound
  <2> QED
    BY <2>2, SameFit
<1> QED
  BY <1>1, SessionInvHolds, PTL

-----------------------------------------------------------------------------
(* A step of the session is, for the groups, one of the steps the dataset  *)
(* half could take.                                                        *)
LEMMA SessionSteps ==
    ASSUME SessionInv, SessionInv', [SessionNext]_sessionVars
    PROVE  P!GroupStep
<1>1. ASSUME GroupCall \/ GroupCallDies PROVE P!GroupStep
  <2>1. P!GroupEdits \/ P!Closes \/ P!Loads
    BY <1>1, SameEdits, SameCloses, SameLoads DEF GroupCall, GroupCallDies
  <2>2. P!GroupsNext
    BY <2>1 DEF P!GroupsNext
  <2>3. P!GroupsInv
    BY DEF SessionInv
  <2> QED
    BY <2>2, <2>3, GroupsAssumed, P!StepsOfGroups
<1>2. ASSUME groups' = <<>> \/ groups' = groups PROVE P!GroupStep
  BY <1>2 DEF P!GroupStep
<1>3. EditMesh => groups' = <<>>
  BY DEF EditMesh
<1>4. QuietMeshCall \/ Save \/ SaveStops \/ SessionRestart => groups' = groups
  BY DEF QuietMeshCall, Save, SaveStops, SessionRestart
<1>5. SaveEndsProcess => groups' = <<>>
  BY DEF SaveEndsProcess
<1>6. ASSUME Load PROVE P!GroupStep
  <2>1. ~open
    BY <1>6 DEF Load, LoadMesh
  <2>2. groups' \in Seq(ClosedFor(counts'))
    BY <1>6, LoadedGroups
  <2>3. \A i \in DOMAIN groups' : ~groups'[i].edit
    BY <2>2, LenProperties, ElementOfSeq DEF ClosedFor
  <2> QED
    BY <2>1, <2>3 DEF SessionInv, P!GroupStep
<1>7. UNCHANGED sessionVars => groups' = groups
  BY DEF sessionVars
<1> QED
  BY <1>1, <1>2, <1>3, <1>4, <1>5, <1>6, <1>7 DEF SessionNext

LEMMA SameLives ==
    /\ P!Lives!LifeNext => G!Lives!LifeNext
    /\ P!LivesOf(groups) = [i \in DOMAIN groups |->
            [kind   |-> <<groups[i].driver, groups[i].loc, groups[i].scalar>>,
             sealed |-> ~groups[i].edit,
             data   |-> groups[i].datasets,
             stats  |-> groups[i].stats]]
BY DEF P!LivesOf, P!LifeOf, P!Lives!LifeNext, G!Lives!LifeNext,
       P!Lives!OpenOrImport, P!Lives!Extend, P!Lives!Seal, P!Lives!Drop, P!Lives!Clear,
       P!Lives!Companions, P!Lives!Changes, P!Lives!Opened, P!Lives!Sealed, P!Lives!Summary,
       P!Lives!AllValues, P!Lives!IsPrefix, P!Lives!RemoveAt,
       G!Lives!OpenOrImport, G!Lives!Extend, G!Lives!Seal, G!Lives!Drop, G!Lives!Clear,
       G!Lives!Companions, G!Lives!Changes, G!Lives!Opened, G!Lives!Sealed, G!Lives!Summary,
       G!Lives!AllValues, G!Lives!IsPrefix, G!Lives!RemoveAt

(* Groups that live with a mesh keep what GroupLifecycle promises.         *)
THEOREM SessionRefinesLifecycle == SessionSpec => GroupsLive
<1>1. SessionInit => G!Lives!LifeInit
  BY DEF SessionInit, G!Lives!LifeInit
<1>2. SessionInv /\ SessionInv' /\ [SessionNext]_sessionVars =>
         [G!Lives!LifeNext]_[i \in DOMAIN groups |->
            [kind   |-> <<groups[i].driver, groups[i].loc, groups[i].scalar>>,
             sealed |-> ~groups[i].edit,
             data   |-> groups[i].datasets,
             stats  |-> groups[i].stats]]
  <2> SUFFICES ASSUME SessionInv, SessionInv', [SessionNext]_sessionVars
               PROVE  G!Lives!LifeNext \/ P!LivesOf(groups)' = P!LivesOf(groups)
    BY DEF P!LivesOf, P!LifeOf
  <2>1. P!GroupsInv /\ P!GroupsInv' /\ P!GroupStep
    BY SessionSteps DEF SessionInv
  <2>2. P!Lives!LifeNext \/ P!LivesOf(groups)' = P!LivesOf(groups)
    BY <2>1, GroupsAssumed, P!LifeSteps
  <2> QED
    BY <2>2, SameLives
<1> QED
  BY <1>1, <1>2, SessionInvHolds, PTL
     DEF SessionSpec, GroupsLive, G!ImplementsLifecycle, G!Lives!LifeSpec

-----------------------------------------------------------------------------
(* Each half keeps its own promises when both work on one mesh.  Faces and *)
(* edges stay within the mesh, and within the limits of its driver.        *)
THEOREM SessionMeshSound == SessionSpec => [](FaceTableSound /\ EdgeEndsBelow /\ OwnDriverAccepts)
<1>1. SessionInv => FaceTableSound /\ EdgeEndsBelow /\ OwnDriverAccepts
  BY DEF SessionInv, MeshInv
<1> QED
  BY <1>1, SessionInvHolds, PTL

LEMMA SessionReloads ==
    ASSUME SessionInv
    PROVE  G!PersistedReloads
<1>1. P!PersistedReloads
  BY GroupsAssumed, P!InvariantReloads DEF SessionInv
<1>2. \A d : G!Values(d) = P!Values(d)
  BY DEF G!Values, P!Values
<1>3. /\ \A c, g : G!Holds(c, g) <=> P!Holds(c, g)
      /\ G!Dats = P!Dats
      /\ \A loc, c : G!ValuesCount(loc, c) = P!ValuesCount(loc, c)
  BY DEF G!Holds, P!Holds, G!Dats, P!Dats, G!NoData, P!NoData, G!ValuesCount, P!ValuesCount
<1>4. \A c, g : G!BinaryReloads(c, g) <=> P!BinaryReloads(c, g)
  BY <1>2, SameReads DEF G!BinaryReloads, P!BinaryReloads
<1>5. \A f, c, g : G!AsciiReloads(f, c, g) <=> P!AsciiReloads(f, c, g)
  BY SameReads DEF G!AsciiReloads, P!AsciiReloads
<1>6. \A g : G!NamedForLocation(g) <=> P!NamedForLocation(g)
  BY DEF G!NamedForLocation, P!NamedForLocation
<1> QED
  BY <1>1, <1>3, <1>4, <1>5, <1>6 DEF G!PersistedReloads, P!PersistedReloads

(* Statistics cover all datasets, no dataset file mixes meshes, and what   *)
(* was persisted for the mesh as it is comes back, although the mesh may   *)
(* be edited, saved and loaded between any two calls of the dataset half.  *)
THEOREM SessionGroupsSound ==
    SessionSpec => [](G!StatisticsCoverDatasets /\ G!WrittenForItsMesh /\ G!PersistedReloads)
<1>1. SessionInv => G!StatisticsCoverDatasets
  BY DEF SessionInv, P!GroupsInv, P!GroupsSound, P!GroupSound, P!Extremes, P!AllValuesOf,
         G!StatisticsCoverDatasets, G!Extremes
<1>2. SessionInv => G!WrittenForItsMesh
  <2> SUFFICES ASSUME SessionInv, NEW f \in DataFiles, dataDisk[f] # G!NoData,
                      NEW j \in DOMAIN dataDisk[f].sets
               PROVE  G!FitsMesh(dataDisk[f].loc, dataDisk[f].scalar, dataDisk[f].sets[j],
                          dataDisk[f].counts)
    BY DEF G!WrittenForItsMesh
  <2>1. P!FitsMesh(dataDisk[f].loc, dataDisk[f].scalar, dataDisk[f].sets[j],
            dataDisk[f].counts)
    BY DEF SessionInv, P!GroupsInv, P!DiskSound, P!FileSound, P!PartSound, P!DatasetSound,
           G!NoData, P!NoData
  <2> QED
    BY <2>1, SameFit
<1> QED
  BY <1>1, <1>2, SessionReloads, SessionInvHolds, PTL

(* An open mesh only grows, and a close that reported nothing left the     *)
(* group in its file: calls of one half never undo what the other did.     *)
THEOREM SessionKeeps == SessionSpec => MeshOnlyGrows /\ G!CloseReported
<1>1. ASSUME SessionInv, [SessionNext]_sessionVars, open, open'
      PROVE  /\ nVertices <= nVertices' /\ faceMax <= faceMax'
             /\ IsPrefix(faces, faces') /\ IsPrefix(edges, edges')
  <2>1. CASE GroupCall \/ UNCHANGED sessionVars
    <3>1. UNCHANGED topology
      BY <2>1 DEF GroupCall, sessionVars, meshVars, topology
    <3>2. /\ nVertices \in Nat /\ faceMax \in Nat
          /\ IsPrefix(faces, faces) /\ IsPrefix(edges, edges)
      BY <1>1, PrefixOfItself DEF SessionInv, MeshInv, MeshTypeOK
    <3> QED
      BY <3>1, <3>2 DEF topology
  <2>2. CASE GroupCallDies
    BY <1>1, <2>2 DEF GroupCallDies, MeshGone
  <2>3. CASE MeshNext
    BY <1>1, <2>3, OpenMeshGrows DEF SessionInv
  <2> QED
    BY <1>1, <2>1, <2>2, <2>3, MeshCalls DEF SessionNext
<1>2. SessionInv /\ [SessionNext]_sessionVars
         => [open /\ open' => /\ nVertices <= nVertices' /\ faceMax <= faceMax'
                             /\ IsPrefix(faces, faces') /\ IsPrefix(edges, edges')]_meshVars
  BY <1>1
<1>3. SessionInv /\ SessionInv' /\ [SessionNext]_sessionVars =>
         [\A i \in DOMAIN groups :
             (/\ DOMAIN groups' = DOMAIN groups
              /\ groups[i].edit /\ ~groups'[i].edit
              /\ groups[i].driver \in G!Dats /\ groups'[i].closed = "None")
             => LET c == dataDisk'[groups'[i].file]
                IN  c # G!NoData /\ (c.lost \/ G!Holds(c, groups'[i]))]_(G!groupVars)
  <2> SUFFICES ASSUME SessionInv, SessionInv', [SessionNext]_sessionVars,
                      NEW i \in DOMAIN groups, DOMAIN groups' = DOMAIN groups,
                      groups[i].edit, ~groups'[i].edit,
                      groups[i].driver \in G!Dats, groups'[i].closed = "None"
               PROVE  LET c == dataDisk'[groups'[i].file]
                      IN  c # G!NoData /\ (c.lost \/ G!Holds(c, groups'[i]))
    OBVIOUS
  <2>1. P!GroupStep /\ P!GroupsInv
    BY SessionSteps DEF SessionInv
  <2>2. groups[i].driver \in P!Dats
    BY DEF G!Dats, P!Dats
  <2>3. P!KeptInFile(dataDisk'[groups'[i].file], groups'[i])
    BY <2>1, <2>2, GroupsAssumed, P!SealedInFile
  <2> QED
    BY <2>3 DEF P!KeptInFile, P!Holds, G!Holds, P!NoData, G!NoData
<1>4. SessionSpec => MeshOnlyGrows
  BY <1>2, SessionInvHolds, PTL DEF SessionSpec, MeshOnlyGrows
<1>5. SessionSpec => G!CloseReported
  BY <1>3, SessionInvHolds, PTL DEF SessionSpec, G!CloseReported
<1> QED
  BY <1>4, <1>5
=============================================================================
