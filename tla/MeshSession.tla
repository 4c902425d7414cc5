---------------------------- MODULE MeshSession ----------------------------
(***************************************************************************)
(* Both halves of the C API on one mesh.  Editing a mesh drops its dataset *)
(* groups, open or closed; loading one brings groups of its own; saving it *)
(* as .ply takes the groups along.  MemoryMesh and DatasetGroups supply    *)
(* the steps of each half; here is what one does to the other.  Mesh files *)
(* and dataset files have different names.                                 *)
(***************************************************************************)
EXTENDS MemoryMesh

CONSTANTS
    DataFiles, ElsUris, ElsNames, ElsName,    \* see DatasetFiles
    ClientFiles, ClientLocations, ScalarChoices, ValueSets,
    VolumeChoices, Faults, MaxGroups, MaxDatasets, MaxFiles   \* see DatasetGroups

VARIABLES
    groups,     \* Mesh::datasetGroups
    dataDisk,   \* what each dataset file holds
    meshGroups  \* the groups a mesh file (.ply) holds besides the mesh

sessionVars == <<meshVars, groups, dataDisk, meshGroups>>

MeshCounts(n, fs, es) == [vertices |-> n, faces |-> Len(fs), edges |-> Len(es)]

counts == MeshCounts(nVertices, faces, edges)

(* The mesh half decides what elements the mesh has.                       *)
G == INSTANCE DatasetGroups WITH running <- alive, lastStatus <- status,
                                 CountChoices <- [vertices : Nat, faces : Nat, edges : Nat]

ASSUME SessionFilesAssumption ==
    /\ ElsNames \subseteq ElsUris /\ ElsUris \subseteq DataFiles
    /\ ElsName \in [DataFiles -> ElsUris]
    /\ ClientFiles \subseteq DataFiles
ASSUME SessionGroupsAssumption ==
    /\ ClientLocations \subseteq Locations
    /\ ScalarChoices \subseteq BOOLEAN
    /\ ValueSets \subseteq SUBSET Int /\ \A S \in ValueSets : G!HasExtremes(S)
    /\ VolumeChoices \subseteq Nat
    /\ Faults \subseteq {"killed", "disk full"}
    /\ MaxGroups \in Nat /\ MaxDatasets \in Nat /\ MaxFiles \in Nat

-----------------------------------------------------------------------------
(* A call of the dataset half; or one in which the process dies.           *)
GroupCall ==
    /\ open
    /\ UNCHANGED <<open, driver, topology, meshDisk, meshGroups>>
    /\ G!GroupEdits \/ G!Closes \/ G!Loads
    /\ alive' = alive

GroupCallDies ==
    /\ open
    /\ MeshGone
    /\ UNCHANGED <<meshDisk, meshGroups>>
    /\ G!Closes \/ G!Loads
    /\ alive' = FALSE

(* Mutant: closing a mesh, or creating one, is all that drops its groups.  *)
EditMeshKeepingGroups ==
    /\ \/ \E d \in Drivers : CreateMesh(d) /\ groups' = <<>>
       \/ CloseMesh /\ groups' = <<>>
       \/ \E n \in VertexBatches : AddVertices(n) /\ groups' = groups
       \/ \E batch \in Batches(FaceInputs) : AddFaces(batch) /\ groups' = groups
       \/ \E batch \in Batches(EdgeInputs) : AddEdges(batch) /\ groups' = groups
    /\ UNCHANGED <<dataDisk, meshGroups>>

(* Editing, closing and creating a mesh: no group is left, whether it was  *)
(* persisted or not and whether the edit was refused or not.               *)
EditMesh ==
    /\ \/ \E d \in Drivers : CreateMesh(d)
       \/ CloseMesh
       \/ \E n \in VertexBatches : AddVertices(n)
       \/ \E batch \in Batches(FaceInputs) : AddFaces(batch)
       \/ \E batch \in Batches(EdgeInputs) : AddEdges(batch)
    /\ groups' = <<>>
    /\ UNCHANGED <<dataDisk, meshGroups>>

QuietMeshCall ==
    /\ \/ NullMesh
       \/ \E d \in DriverNames : SaveRefused(d)
       \/ \E f \in MeshFiles : LoadMeshFails(f)
    /\ UNCHANGED <<groups, dataDisk, meshGroups>>

-----------------------------------------------------------------------------
(* DriverPly::save looks at the groups first: one it cannot save makes it  *)
(* return, one without a dataset makes it read past the end.               *)
PlyStops == \E i \in DOMAIN groups : G!PlySkips(groups[i])

PlyDies == ~PlyStops /\ G!PlyReadsTooFar(groups, counts)

SavesGroups(d) == d = "PLY" => ~PlyStops /\ ~PlyDies

(* The groups that get into the file, in its order of properties.          *)
PlyOrder == <<"Vertices", "Faces", "Volumes", "Edges">>

InPly(g) ==
    /\ ~G!PlyLeavesOut(g)
    /\ g.loc = "Vertices" \/ G!PlyCount(g.loc, counts) > 0

(* The elements of a sequence at the positions I, in their order.          *)
Picked(s, I) ==
    LET places == 1..Cardinality(I)
        at == CHOOSE at \in [places -> I] : \A j, k \in places : j < k => at[j] < at[k]
    IN  [k \in places |-> s[at[k]]]

PlyAt(loc) ==
    Picked(groups, {i \in DOMAIN groups : InPly(groups[i]) /\ groups[i].loc = loc})

PlyGroups ==
    LET ordered == PlyAt(PlyOrder[1]) \o PlyAt(PlyOrder[2])
                       \o PlyAt(PlyOrder[3]) \o PlyAt(PlyOrder[4])
    IN  [i \in DOMAIN ordered |->
            [loc |-> ordered[i].loc, scalar |-> ordered[i].scalar,
             sets |-> G!PlySets(ordered[i], counts)]]

SaveGroups(f, d) ==
    meshGroups' = [meshGroups EXCEPT ![f] = IF d = "PLY" THEN PlyGroups ELSE <<>>]

Save ==
    \E f \in MeshFiles, d \in Drivers :
        /\ SavesGroups(d)
        /\ \/ SaveMesh(f, d) /\ SaveGroups(f, d)
           \/ SaveMeshUnopened(f, d) /\ UNCHANGED meshGroups
        /\ UNCHANGED <<groups, dataDisk>>

SaveStops ==
    \E f \in MeshFiles :
        /\ PlyStops
        /\ SaveMeshStopped(f)
        /\ meshGroups' = IF meshDisk' = meshDisk THEN meshGroups
                         ELSE [meshGroups EXCEPT ![f] = <<>>]
        /\ UNCHANGED <<groups, dataDisk>>

SaveEndsProcess ==
    \E f \in MeshFiles :
        /\ \/ PlyDies /\ SaveMeshDies(f)
           \/ \E d \in Drivers : (d = "PLY" => ~PlyStops) /\ SaveMeshThrows(f, d)
        /\ meshGroups' = IF meshDisk' = meshDisk THEN meshGroups
                         ELSE [meshGroups EXCEPT ![f] = <<>>]
        /\ groups' = <<>>
        /\ UNCHANGED dataDisk

-----------------------------------------------------------------------------
(* The groups DriverPly::load makes of those in the file: it stops at the  *)
(* second property of the first group on volumes, so what follows on faces *)
(* and volumes is left out.  A group comes without its dataset when that   *)
(* has no values.  Flags are not saved.                                    *)
ComesBack(saved, i) ==
    saved[i].loc \in {"Faces", "Volumes"} =>
        \A j \in 1..(i - 1) : saved[j].loc # "Volumes"

PlyDataset(g) ==
    [g.sets[1] EXCEPT !.flags = IF g.loc = "Volumes" THEN @ ELSE G!NoFlags]

PlyDatasets(g) ==
    IF g.sets = <<>> \/ g.sets[1].size = 0 THEN <<>> ELSE <<PlyDataset(g)>>

FromPly(saved) ==
    LET kept == Picked(saved, {i \in DOMAIN saved : ComesBack(saved, i)})
    IN  [k \in DOMAIN kept |->
            G!Companion("PLY", kept[k].loc, kept[k].scalar, FALSE, PlyDatasets(kept[k]))]

(* Driver2dm::load adds the numbers of the elements in the file as groups  *)
(* when they are not 1, 2, ...: edges are counted on from the faces, and a *)
(* line that was written twice has the same number twice.                  *)
NativeIds(loc, n, vals) ==
    <<G!Companion("2DM", loc, TRUE, FALSE,
          <<[size |-> n, flags |-> G!NoFlags, vals |-> vals]>>)>>

RepeatedLines(fs) == \E i \in 2..Len(fs) : fs[i] = fs[i - 1]

(* Mutant: the numbers of the edges are counted with those of the faces.   *)
From2dmAllElements(c, vals) ==
    {IF c.faces # <<>> /\ c.edges # <<>>
     THEN NativeIds("Edges", Len(c.faces) + Len(c.edges), vals) ELSE <<>>}

From2dm(c, vals) ==
    LET edgeIds == IF c.faces # <<>> /\ c.edges # <<>>
                   THEN NativeIds("Edges", Len(c.edges), vals) ELSE <<>>
    IN  {faceIds \o edgeIds :
            faceIds \in {<<>>} \cup
                (IF RepeatedLines(c.faces)
                 THEN {NativeIds("Faces", Len(c.faces), vals)} ELSE {})}

Load ==
    \E f \in MeshFiles, vals \in ValueSets :
        LET c == meshDisk[f]
            loadedCounts == MeshCounts(nVertices', faces', edges')
        IN  /\ LoadMesh(f)
            /\ \E others \in IF c.format = "PLY" THEN {FromPly(meshGroups[f])}
                             ELSE From2dm(c, vals) :
                  groups' = G!BedElevation(driver', loadedCounts, vals) \o others
            /\ UNCHANGED <<dataDisk, meshGroups>>

SessionRestart == Restart /\ UNCHANGED <<groups, dataDisk, meshGroups>>

-----------------------------------------------------------------------------
SessionInit ==
    /\ MeshInit
    /\ groups = <<>>
    /\ dataDisk = [f \in DataFiles |-> G!NoData]
    /\ meshGroups = [f \in MeshFiles |-> <<>>]

SessionNext ==
    \/ GroupCall
    \/ GroupCallDies
    \/ EditMesh
    \/ QuietMeshCall
    \/ Save
    \/ SaveStops
    \/ SaveEndsProcess
    \/ Load
    \/ SessionRestart

SessionSpec == SessionInit /\ [][SessionNext]_sessionVars

-----------------------------------------------------------------------------
(* Every dataset of every group fits the mesh as it is: what a client that *)
(* sizes its buffers by the mesh relies on, across edits of the mesh,      *)
(* persisting, saving and loading with either driver.                      *)
GroupsFitMesh == G!DatasetsFitMesh

(* The groups live as GroupLifecycle says although the mesh lives, too.    *)
GroupsLive == G!ImplementsLifecycle

(* A .ply mesh file never holds a group whose data do not fit the mesh it  *)
(* holds.                                                                  *)
SavedGroupsFit ==
    \A f \in MeshFiles :
        meshDisk[f] # NoFile =>
            LET m == meshDisk[f].saved
            IN  \A i \in DOMAIN meshGroups[f] : \A j \in DOMAIN meshGroups[f][i].sets :
                    G!FitsMesh(meshGroups[f][i].loc, meshGroups[f][i].scalar,
                        meshGroups[f][i].sets[j], MeshCounts(m.nVertices, m.faces, m.edges))
=============================================================================
