--------------------------- MODULE DatasetGroups ---------------------------
(***************************************************************************)
(* The dataset half of the C API: groups are added in edit mode, filled    *)
(* with datasets, closed (which calculates their statistics and persists   *)
(* them through their driver), removed, and loaded again from files.       *)
(*                                                                         *)
(* The mesh is seen through its element counts.  MeshChanged and           *)
(* MeshLoaded are the steps of the mesh half; MeshSession composes both.   *)
(* Opening a file may fail, the disk may fill up while a file is written,  *)
(* and the process may die in the middle of persist.                       *)
(***************************************************************************)
EXTENDS DatasetFiles

CONSTANTS
    CountChoices,     \* element counts the mesh may take
    ClientFiles,      \* files a client adds groups for
    ClientLocations,  \* locations, kinds and value sets a client asks for
    ScalarChoices,
    ValueSets,
    VolumeChoices,    \* volume counts of 3D datasets
    Faults,           \* of the environment: "killed", "disk full"
    MaxGroups, MaxDatasets,  \* bounds
    MaxFiles                 \* bound: files on disk when a client adds a group

(* The values of a dataset are finitely many, so there is a least and a    *)
(* greatest if there is any.                                               *)
HasExtremes(S) ==
    S # {} => \E least, greatest \in S : \A x \in S : least <= x /\ x <= greatest

ASSUME GroupsAssumption ==
    /\ CountChoices \subseteq Counts
    /\ \A S \in ValueSets : HasExtremes(S)
    /\ ClientFiles \subseteq DataFiles
    /\ ClientLocations \subseteq Locations
    /\ ScalarChoices \subseteq BOOLEAN
    /\ ValueSets \subseteq SUBSET Int
    /\ VolumeChoices \subseteq Nat
    /\ Faults \subseteq {"killed", "disk full"}
    /\ MaxGroups \in Nat /\ MaxDatasets \in Nat /\ MaxFiles \in Nat

VARIABLES
    running,   \* FALSE once an assertion failed or the process was killed
    counts,    \* verticesCount, facesCount, edgesCount of the mesh
    groups,    \* Mesh::datasetGroups
    dataDisk,  \* what each dataset file holds
    lastStatus \* Log's sLastStatus

groupVars == <<running, counts, groups, dataDisk, lastStatus>>

NoMesh == [vertices |-> 0, faces |-> 0, edges |-> 0]

-----------------------------------------------------------------------------
(* MDAL_M_addDatasetGroup and Driver::createDatasetGroup.                  *)
AddDatasetGroup(d, loc, scalar, f) ==
    /\ running /\ Len(groups) < MaxGroups
    /\ Cardinality({h \in DataFiles : dataDisk[h] # NoData} \cup {f}) <= MaxFiles
    /\ HasWriteDatasetCapability(d, loc)
    /\ groups' = Append(groups,
          [driver |-> d, loc |-> loc, scalar |-> scalar, bed |-> FALSE, file |-> f,
           edit |-> TRUE, datasets |-> <<>>, stats |-> {}, closed |-> "never"])
    /\ UNCHANGED <<running, counts, dataDisk, lastStatus>>

AddDatasetGroupRefused(d, loc) ==
    /\ running
    /\ ~HasWriteDatasetCapability(d, loc)
    /\ lastStatus' = "Err_MissingDriverCapability"
    /\ UNCHANGED <<running, counts, groups, dataDisk>>

-----------------------------------------------------------------------------
(* Mutant: a group takes datasets after it was closed, too.                *)
AddDatasetRefusalAlways(g, flagged) ==
    IF g.loc = "Volumes" THEN "Err_MissingDriverCapability"
    ELSE IF flagged /\ g.loc # "Vertices" THEN "Err_IncompatibleDataset"
    ELSE "None"

(* MDAL_G_addDataset: its checks, in their order.                          *)
AddDatasetRefusal(g, flagged) ==
    IF ~g.edit THEN "Err_IncompatibleDataset"
    ELSE IF g.driver \notin Drivers THEN "Err_MissingDriver"
    ELSE IF ~HasWriteDatasetCapability(g.driver, g.loc)
    THEN "Err_MissingDriverCapability"
    ELSE IF g.loc = "Volumes" THEN "Err_MissingDriverCapability"
    ELSE IF flagged /\ g.loc # "Vertices" THEN "Err_IncompatibleDataset"
    ELSE "None"

NewDataset(g, flagged, vals) ==
    [size |-> Slots(g.scalar, ValuesCount(g.loc, counts)),
     flags |-> IF flagged THEN counts.faces ELSE NoFlags,
     vals |-> vals]

AddDataset(i, flagged, vals) ==
    /\ running /\ Len(groups[i].datasets) < MaxDatasets
    /\ AddDatasetRefusal(groups[i], flagged) = "None"
    /\ groups' = [groups EXCEPT ![i].datasets =
                     Append(@, NewDataset(groups[i], flagged, vals))]
    /\ UNCHANGED <<running, counts, dataDisk, lastStatus>>

AddDatasetRefused(i, flagged) ==
    /\ running
    /\ AddDatasetRefusal(groups[i], flagged) # "None"
    /\ lastStatus' = AddDatasetRefusal(groups[i], flagged)
    /\ UNCHANGED <<running, counts, groups, dataDisk>>

(* MDAL_G_addDataset3D: a count of vertical levels per face, and as many   *)
(* values as these levels have volumes.                                    *)
AddDataset3DRefusal(g) ==
    IF ~g.edit THEN "Err_IncompatibleDataset"
    ELSE IF g.driver \notin Drivers THEN "Err_MissingDriver"
    ELSE IF g.loc # "Volumes" THEN "Err_MissingDriverCapability"
    ELSE "None"

NewDataset3D(g, volumes, vals) ==
    [size |-> Slots(g.scalar, volumes), flags |-> counts.faces, vals |-> vals]

AddDataset3D(i, volumes, vals) ==
    /\ running /\ Len(groups[i].datasets) < MaxDatasets
    /\ AddDataset3DRefusal(groups[i]) = "None"
    /\ counts.faces = 0 => volumes = 0
    /\ groups' = [groups EXCEPT ![i].datasets =
                     Append(@, NewDataset3D(groups[i], volumes, vals))]
    /\ UNCHANGED <<running, counts, dataDisk, lastStatus>>

AddDataset3DRefused(i) ==
    /\ running
    /\ AddDataset3DRefusal(groups[i]) # "None"
    /\ lastStatus' = AddDataset3DRefusal(groups[i])
    /\ UNCHANGED <<running, counts, groups, dataDisk>>

-----------------------------------------------------------------------------
(* Mutant: a group whose persist failed stays in edit mode.                *)
ClosedWhenPersisted(g, f, reported) ==
    [g EXCEPT !.edit = (reported # "None"), !.stats = GroupStatistics(g.datasets),
              !.file = f, !.closed = reported]

(* MDAL_G_closeEditMode.  Statistics and the end of edit mode come first,  *)
(* whatever becomes of persist.                                            *)
Closed(g, f, reported) ==
    [g EXCEPT !.edit = FALSE, !.stats = GroupStatistics(g.datasets),
              !.file = f, !.closed = reported]

CloseInEditMode(i, d) == running /\ groups[i].edit /\ groups[i].driver = d

(* The call ends: group i is closed, its file is now f, the disk is disk.  *)
CloseEnds(i, f, reported, disk) ==
    /\ groups' = [groups EXCEPT ![i] = Closed(@, f, reported)]
    /\ lastStatus' = reported
    /\ dataDisk' = disk
    /\ UNCHANGED <<running, counts>>

(* The process dies in persist, on an assertion of its own or killed: the  *)
(* mesh and its groups are gone, the file is one of cuts.                  *)
CloseDies(f, cuts) ==
    /\ running' = FALSE /\ groups' = <<>> /\ counts' = NoMesh
    /\ \E cut \in cuts : dataDisk' = [dataDisk EXCEPT ![f] = cut]
    /\ lastStatus' = "None"

(* Dying at the first time step that is read too far.                      *)
CutBefore(w, tooFar) ==
    {cut \in CutShort(w, FALSE) : \A j \in tooFar : Len(cut.sets) < j}

(* Mutant: the last time step is not written.                              *)
PersistedButLast(w) == {CutAt(w, "whole", Len(w.sets) - 1, FALSE, FALSE)}

(* What a persist that opened its file may leave there, disk full or not.  *)
Persisted(w) ==
    {w} \cup IF "disk full" \in Faults THEN CutShort(w, TRUE) ELSE {}

(* DriverBinaryDat::persist.  A failed write is only noticed when it is    *)
(* the last one: what is still buffered then is lost without a word.       *)
CloseBinaryDat(i) ==
    LET g == groups[i]
        w == Written("BINARY_DAT", g, counts, g.datasets)
        tooFar == {j \in DOMAIN g.datasets : BinaryReadsTooFar(g.datasets[j], counts)}
    IN  /\ CloseInEditMode(i, "BINARY_DAT")
        /\ \/ CloseEnds(i, g.file, "Err_InvalidData", dataDisk)
           \/ /\ tooFar # {}
              /\ CloseDies(g.file, CutBefore(w, tooFar))
           \/ /\ tooFar = {}
              /\ \E p \in Persisted(w) :
                    \E r \in IF p.lost THEN {"None", "Err_InvalidData"} ELSE {"None"} :
                        CloseEnds(i, g.file, r, [dataDisk EXCEPT ![g.file] = p])

(* DriverAsciiDat::persist.  The group's file is renamed before anything   *)
(* can fail; after the file was opened nothing is reported any more.       *)
CloseAsciiDat(i) ==
    LET g == groups[i]
        f == AsciiFile(g)
        w == Written("ASCII_DAT", g, counts, g.datasets)
        tooFar == {j \in DOMAIN g.datasets : AsciiReadsTooFar(g, g.datasets[j], counts)}
    IN  /\ CloseInEditMode(i, "ASCII_DAT")
        /\ \/ CloseEnds(i, f, "Err_InvalidData", dataDisk)
           \/ /\ ~MixedMesh(counts) /\ tooFar # {}
              /\ CloseDies(f, CutBefore(w, tooFar))
           \/ /\ ~MixedMesh(counts) /\ tooFar = {}
              /\ \E p \in Persisted(w) : CloseEnds(i, f, "None", [dataDisk EXCEPT ![f] = p])

(* DriverPly::persist saves the whole mesh.  A vector group on volumes,    *)
(* whichever it is, makes it return after the file was truncated; a file   *)
(* that cannot be opened goes unnoticed.                                   *)
ClosePly(i) ==
    LET g == groups[i]
        w == Written("PLY", g, counts, PlySets(g, counts))
        skipped == \E j \in DOMAIN groups : PlySkips(groups[j])
        r == IF skipped THEN "Err_IncompatibleDatasetGroup" ELSE "None"
    IN  /\ CloseInEditMode(i, "PLY")
        /\ \/ (skipped \/ ~PlyReadsTooFar(groups, counts))
              /\ CloseEnds(i, g.file, r, dataDisk)
           \/ /\ skipped
              /\ CloseEnds(i, g.file, r, [dataDisk EXCEPT ![g.file] =
                    CutAt(w, "empty", 0, FALSE, FALSE)])
           \/ /\ ~skipped /\ PlyReadsTooFar(groups, counts)
              /\ CloseDies(g.file, CutShort(w, FALSE))
           \/ /\ ~skipped /\ ~PlyReadsTooFar(groups, counts)
              /\ \E p \in Persisted(w) :
                    CloseEnds(i, g.file, "None", [dataDisk EXCEPT ![g.file] = p])

(* Killed from outside while any of them writes.                           *)
KilledInPersist(i) ==
    LET g == groups[i]
        f == IF g.driver = "ASCII_DAT" THEN AsciiFile(g) ELSE g.file
        sets == IF g.driver = "PLY" THEN PlySets(g, counts) ELSE g.datasets
    IN  /\ running /\ "killed" \in Faults /\ g.edit
        /\ ~(g.driver = "ASCII_DAT" /\ MixedMesh(counts))
        /\ CloseDies(f, CutShort(Written(g.driver, g, counts, sets), FALSE))

(* On a group that is not in edit mode the call resets the status and      *)
(* returns.                                                                *)
CloseAgain(i) ==
    /\ running /\ ~groups[i].edit
    /\ groups' = [groups EXCEPT ![i].closed = "None"]
    /\ lastStatus' = "None"
    /\ UNCHANGED <<running, counts, dataDisk>>

-----------------------------------------------------------------------------
(* Mutant: the loader does not calculate the group's statistics.           *)
LoadedUncalculated(d, loc, c, f, datasets) ==
    [driver |-> d, loc |-> loc, scalar |-> c.scalar, bed |-> FALSE, file |-> f,
     edit |-> FALSE, datasets |-> datasets, stats |-> {}, closed |-> "never"]

(* MDAL_M_LoadDatasets: the group a loader appends.                        *)
Loaded(d, loc, c, f, datasets) ==
    [driver |-> d, loc |-> loc, scalar |-> c.scalar, bed |-> FALSE, file |-> f,
     edit |-> FALSE, datasets |-> datasets,
     stats |-> GroupStatistics(datasets), closed |-> "never"]

Appends(g) ==
    /\ running /\ Len(groups) < MaxGroups
    /\ groups' = Append(groups, g)
    /\ lastStatus' = "None"
    /\ UNCHANGED <<running, counts, dataDisk>>

AppendsNothing(r) ==
    /\ running
    /\ lastStatus' = r
    /\ UNCHANGED <<running, counts, groups, dataDisk>>

(* No file, or none a driver with ReadDatasets recognises.                 *)
LoadUnknown(f) ==
    \/ dataDisk[f] = NoData /\ AppendsNothing("Err_FileNotFound")
    \/ /\ dataDisk[f] # NoData
       /\ dataDisk[f].by = "PLY" \/ dataDisk[f].stage = "empty"
       /\ AppendsNothing("Err_UnknownFormat")

(* DriverBinaryDat::load.  It accepts a file without its last card; every  *)
(* time step it reads carries flags.                                       *)
BinaryMismatch(c) ==
    c.counts.vertices # counts.vertices \/ c.counts.faces # counts.faces

BinaryUsable(c) ==
    /\ c.stage \in {"steps", "whole"} /\ ~c.torn /\ c.sets # <<>>
    /\ ~BinaryMismatch(c)

(* Mutant: the step before the last card is taken for a broken one.        *)
BinaryDatasetsButLast(c) ==
    [i \in 1..(Len(c.sets) - 1) |-> [c.sets[i] EXCEPT !.flags = counts.faces]]

BinaryDatasets(c) ==
    [i \in DOMAIN c.sets |-> [c.sets[i] EXCEPT !.flags = counts.faces]]

LoadBinaryDat(f) ==
    LET c == dataDisk[f]
    IN  /\ c # NoData /\ c.by = "BINARY_DAT" /\ c.stage # "empty"
        /\ \/ /\ BinaryUsable(c)
              /\ Appends(Loaded("BINARY_DAT", "Vertices", c, f, BinaryDatasets(c)))
           \/ /\ BinaryMismatch(c)
              /\ AppendsNothing("Err_IncompatibleMesh")
           \/ /\ ~BinaryUsable(c)
              /\ BinaryMismatch(c) => c.stage = "header"
              /\ AppendsNothing("Err_UnknownFormat")

(* Mutant: faces are preferred as soon as there are no edges.              *)
AsciiLocationByEdges(f) ==
    IF f \notin ElsNames THEN "Vertices"
    ELSE IF counts.faces = 0 THEN "Faces" ELSE "Edges"

(* DriverAsciiDat::loadNewFormat.  The file name decides between vertices  *)
(* and elements, the mesh between faces and edges; the group is appended   *)
(* at ENDDS, so a file without it is read to no effect and no error.       *)
AsciiLocation(f) ==
    IF f \notin ElsNames THEN "Vertices"
    ELSE IF counts.faces > 0 THEN "Faces" ELSE "Edges"

MixedElements(f) == f \in ElsNames /\ MixedMesh(counts)

(* Mutant: the ND card is not compared.                                    *)
AsciiRefusedByElements(f, c) ==
    \/ counts.vertices = 0
    \/ MixedElements(f)
    \/ Elements(c.counts) # Elements(counts)

AsciiRefused(f, c) ==
    \/ counts.vertices = 0
    \/ MixedElements(f)
    \/ c.counts.vertices # counts.vertices
    \/ Elements(c.counts) # Elements(counts)

(* Only a differing number of elements, the last of these, is reported as  *)
(* an unknown format; a header cut inside a card may report anything.      *)
AsciiErrors(f, c) ==
    IF counts.vertices = 0 \/ MixedElements(f)
    THEN {"Err_IncompatibleMesh"}
    ELSE IF c.stage = "header"
    THEN {"None", "Err_IncompatibleMesh", "Err_UnknownFormat"}
    ELSE IF c.counts.vertices # counts.vertices THEN {"Err_IncompatibleMesh"}
    ELSE IF Elements(c.counts) # Elements(counts) THEN {"Err_UnknownFormat"}
    ELSE {"None"}

(* The lines of a time step are not counted when they are read: values of  *)
(* elements in a file that is read as one of vertices or the other way     *)
(* round, or more flags than the mesh has faces, shift what is read.       *)
AsciiMisread(f, c) ==
    \/ f \in ElsNames <=> c.loc = "Vertices"
    \/ /\ f \notin ElsNames
       /\ \E j \in DOMAIN c.sets : c.sets[j].flags \notin {NoFlags, counts.faces}

AsciiDataset(f, scalar, flags, vals) ==
    [size  |-> Slots(scalar, ValuesCount(AsciiLocation(f), counts)),
     flags |-> flags, vals |-> vals]

(* A step that takes more lines than were written for it swallows the cards*)
(* that follow, the last one included.                                     *)
ValueLines(vertexValues, c) == IF vertexValues THEN c.vertices ELSE Elements(c)

Swallows(f, c) ==
    \E j \in DOMAIN c.sets :
        ValueLines(f \notin ElsNames, counts) >
            ValueLines(c.loc = "Vertices", c.counts)
                + (IF c.sets[j].flags = NoFlags THEN 0 ELSE Elements(c.counts))

FlagsRead(f, c) ==
    [j \in DOMAIN c.sets |->
        IF f \in ElsNames \/ c.sets[j].flags = NoFlags THEN NoFlags ELSE counts.faces]

StepsRead(f, c) == IF Swallows(f, c) THEN 0..Len(c.sets) ELSE {Len(c.sets)}

(* What a misread file yields.                                             *)
MisreadDatasets(f, c) ==
    {[j \in 1..n |-> AsciiDataset(f, c.scalar, FlagsRead(f, c)[j], vals[j])] :
        n \in StepsRead(f, c), vals \in [DOMAIN c.sets -> ValueSets]}

AsciiLoads(f, c) ==
    /\ c # NoData /\ c.by = "ASCII_DAT" /\ c.stage = "whole"
    /\ ~AsciiRefused(f, c)

LoadAsciiDat(f) ==
    LET c == dataDisk[f]
    IN  /\ AsciiLoads(f, c) /\ ~AsciiMisread(f, c)
        /\ Appends(Loaded("ASCII_DAT", AsciiLocation(f), c, f, c.sets))

LoadAsciiDatMisread(f) ==
    LET c == dataDisk[f]
    IN  /\ AsciiLoads(f, c) /\ AsciiMisread(f, c)
        /\ \/ \E read \in MisreadDatasets(f, c) :
                 Appends(Loaded("ASCII_DAT", AsciiLocation(f), c, f, read))
           \/ Swallows(f, c) /\ AppendsNothing("None")

LoadAsciiDatFails(f) ==
    LET c == dataDisk[f]
    IN  /\ c # NoData /\ c.by = "ASCII_DAT" /\ c.stage # "empty"
        /\ ~AsciiLoads(f, c)
        /\ \E r \in AsciiErrors(f, c) : AppendsNothing(r)

(* A header that was cut right after the word OBJTYPE is read past the end *)
(* of the line, which may as well end the process.                         *)
LoadAsciiDatDies(f) ==
    LET c == dataDisk[f]
    IN  /\ running
        /\ c # NoData /\ c.by = "ASCII_DAT" /\ c.stage = "header"
        /\ counts.vertices # 0 /\ ~MixedElements(f)
        /\ running' = FALSE /\ groups' = <<>> /\ counts' = NoMesh
        /\ lastStatus' = "None"
        /\ UNCHANGED dataDisk

-----------------------------------------------------------------------------
(* MDAL_M_RemoveDatasetGroup, in edit mode or not.                         *)
RemoveDatasetGroup(i) ==
    /\ running
    /\ groups' = RemoveAt(groups, i)
    /\ lastStatus' = "None"
    /\ UNCHANGED <<running, counts, dataDisk>>

RemoveDatasetGroupRefused == AppendsNothing("Err_IncompatibleMesh")

(* MDAL_ResetStatus.                                                       *)
ResetStatus == AppendsNothing("None")

-----------------------------------------------------------------------------
(* Mutant: an edit of the mesh keeps its groups.                           *)
MeshChangedUnderGroups(c) ==
    /\ running
    /\ counts' = c
    /\ lastStatus' \in {lastStatus, "None", "Err_InvalidData"}
    /\ UNCHANGED <<running, dataDisk, groups>>

(* The mesh half.  Creating, closing and editing a mesh, refused batches   *)
(* included, leave it without groups.                                      *)
MeshChanged(c) ==
    /\ running
    /\ counts' = c /\ groups' = <<>>
    /\ lastStatus' \in {lastStatus, "None", "Err_InvalidData"}
    /\ UNCHANGED <<running, dataDisk>>

(* Mutant: the loader of a mesh leaves its groups without statistics.      *)
CompanionUncalculated(d, loc, scalar, bed, datasets) ==
    [driver |-> d, loc |-> loc, scalar |-> scalar, bed |-> bed, file |-> "mesh",
     edit |-> FALSE, datasets |-> datasets, stats |-> {}, closed |-> "never"]

(* MDAL_LoadMesh: the mesh comes with groups of its own, closed, loaded    *)
(* from its file gs.  Alone, this module only has addBedElevationDataset-  *)
(* Group: one group of vertex values, if there are vertices.               *)
Companion(d, loc, scalar, bed, datasets) ==
    [driver |-> d, loc |-> loc, scalar |-> scalar, bed |-> bed, file |-> "mesh",
     edit |-> FALSE, datasets |-> datasets,
     stats |-> GroupStatistics(datasets), closed |-> "never"]

BedElevation(d, c, vals) ==
    IF c.vertices = 0 THEN <<>>
    ELSE <<Companion(d, "Vertices", TRUE, TRUE,
             <<[size |-> c.vertices, flags |-> NoFlags, vals |-> vals]>>)>>

MeshLoaded(c, gs) ==
    /\ running /\ counts = NoMesh /\ groups = <<>>
    /\ counts' = c /\ groups' = gs
    /\ lastStatus' = "None"
    /\ UNCHANGED <<running, dataDisk>>

(* The process ends in another call.                                       *)
Died ==
    /\ running /\ "killed" \in Faults
    /\ running' = FALSE /\ groups' = <<>> /\ counts' = NoMesh
    /\ lastStatus' = "None"
    /\ UNCHANGED dataDisk

GroupsRestart ==
    /\ ~running
    /\ running' = TRUE
    /\ UNCHANGED <<counts, groups, dataDisk, lastStatus>>

-----------------------------------------------------------------------------
GroupsInit ==
    /\ running = TRUE /\ counts = NoMesh /\ groups = <<>>
    /\ dataDisk = [f \in DataFiles |-> NoData]
    /\ lastStatus = "None"

GroupEdits ==
    \/ \E d \in Drivers, loc \in ClientLocations, scalar \in ScalarChoices, f \in ClientFiles :
          AddDatasetGroup(d, loc, scalar, f)
    \/ \E d \in Drivers, loc \in ClientLocations : AddDatasetGroupRefused(d, loc)
    \/ \E i \in DOMAIN groups, flagged \in BOOLEAN, vals \in ValueSets :
          AddDataset(i, flagged, vals)
    \/ \E i \in DOMAIN groups, flagged \in BOOLEAN : AddDatasetRefused(i, flagged)
    \/ \E i \in DOMAIN groups, v \in VolumeChoices, vals \in ValueSets :
          AddDataset3D(i, v, vals)
    \/ \E i \in DOMAIN groups : AddDataset3DRefused(i)
    \/ \E i \in DOMAIN groups : RemoveDatasetGroup(i)
    \/ RemoveDatasetGroupRefused
    \/ ResetStatus

Closes ==
    \/ \E i \in DOMAIN groups : CloseBinaryDat(i)
    \/ \E i \in DOMAIN groups : CloseAsciiDat(i)
    \/ \E i \in DOMAIN groups : ClosePly(i)
    \/ \E i \in DOMAIN groups : KilledInPersist(i)
    \/ \E i \in DOMAIN groups : CloseAgain(i)

Loads ==
    \/ \E f \in DataFiles : LoadUnknown(f)
    \/ \E f \in DataFiles : LoadBinaryDat(f)
    \/ \E f \in DataFiles : LoadAsciiDat(f)
    \/ \E f \in DataFiles : LoadAsciiDatMisread(f)
    \/ \E f \in DataFiles : LoadAsciiDatFails(f)
    \/ \E f \in DataFiles : LoadAsciiDatDies(f)

GroupsNext ==
    \/ GroupEdits
    \/ Closes
    \/ Loads
    \/ \E c \in CountChoices : MeshChanged(c)
    \/ \E c \in CountChoices, vals \in ValueSets :
          MeshLoaded(c, BedElevation("2DM", c, vals))
    \/ Died
    \/ GroupsRestart

GroupsSpec == GroupsInit /\ [][GroupsNext]_groupVars

-----------------------------------------------------------------------------
(* Every variable holds what its C++ counterpart can hold; a process that  *)
(* died left neither a mesh nor groups; and a group that was closed is out *)
(* of edit mode, however its close ended.                                  *)
GroupTypeOK ==
    /\ running \in BOOLEAN
    /\ counts \in CountChoices \cup {NoMesh}
    /\ groups \in Seq(Group)
    /\ dataDisk \in [DataFiles -> {NoData} \cup DataFile]
    /\ lastStatus \in Statuses
    /\ ~running => counts = NoMesh /\ groups = <<>>
    /\ \A i \in DOMAIN groups : groups[i].edit => groups[i].closed = "never"

(* Every dataset of every group holds what the mesh, as it is now, needs:  *)
(* a client that sizes its buffer by the mesh never reads past the end of  *)
(* one, whatever edits and loads came before (mesh edits drop the groups). *)
DatasetsFitMesh ==
    \A i \in DOMAIN groups : \A j \in DOMAIN groups[i].datasets :
        FitsMesh(groups[i].loc, groups[i].scalar, groups[i].datasets[j], counts)

(* The time steps in a file have the sizes its own header announces: the   *)
(* file was written from one mesh, not from groups of an older one.        *)
WrittenForItsMesh ==
    \A f \in DataFiles :
        dataDisk[f] # NoData =>
            LET c == dataDisk[f]
            IN  \A j \in DOMAIN c.sets : FitsMesh(c.loc, c.scalar, c.sets[j], c.counts)

(* Outside edit mode the statistics of a group are those of the values of  *)
(* all its datasets, however it came to be there.                          *)
StatisticsCoverDatasets ==
    \A i \in DOMAIN groups :
        ~groups[i].edit =>
            groups[i].stats =
                Extremes(UNION {groups[i].datasets[j].vals : j \in DOMAIN groups[i].datasets})

(* File f holds all of group g.                                            *)
Holds(c, g) ==
    /\ c # NoData /\ c.by = g.driver /\ c.stage = "whole"
    /\ c.loc = g.loc /\ c.scalar = g.scalar /\ c.sets = g.datasets

Dats == {"BINARY_DAT", "ASCII_DAT"}

(* The close that takes a group of the .dat drivers out of edit mode and   *)
(* reports nothing leaves all its datasets in the file the group names     *)
(* from then on, unless the disk was full.                                 *)
CloseReported ==
    [][\A i \in DOMAIN groups :
          (/\ DOMAIN groups' = DOMAIN groups
           /\ groups[i].edit /\ ~groups'[i].edit
           /\ groups[i].driver \in Dats /\ groups'[i].closed = "None")
          => LET c == dataDisk'[groups'[i].file]
             IN  c # NoData /\ (c.lost \/ Holds(c, groups'[i]))]_groupVars

Values(datasets) == [j \in DOMAIN datasets |-> datasets[j].vals]

(* The group of file f, if the drivers load it on the mesh as it is.       *)
BinaryReloads(c, g) == BinaryUsable(c) /\ Values(BinaryDatasets(c)) = Values(g.datasets)

AsciiReloads(f, c, g) ==
    /\ AsciiLoads(f, c) /\ ~AsciiMisread(f, c)
    /\ AsciiLocation(f) = g.loc

(* A closed group that its file still holds, written for the mesh as it is,*)
(* is loaded back from there with the same location and values by the same *)
(* driver.  Needs a dataset and a mesh with vertices, and with elements    *)
(* where the group has its data; and of an ASCII file that "_els" is in its*)
(* base name just when the group is not on vertices, which persist does not*)
(* see to for every name.                                                  *)
NamedForLocation(g) == g.loc = "Vertices" <=> g.file \notin ElsNames

PersistedReloads ==
    \A i \in DOMAIN groups :
        LET g == groups[i]
            c == dataDisk[g.file]
        IN  (/\ ~g.edit /\ g.driver \in Dats /\ Holds(c, g) /\ c.counts = counts
             /\ counts.vertices > 0
             /\ g.datasets # <<>> /\ ValuesCount(g.loc, counts) > 0)
            => /\ g.driver = "BINARY_DAT" => BinaryReloads(c, g)
               /\ g.driver = "ASCII_DAT" /\ NamedForLocation(g) => AsciiReloads(g.file, c, g)

(* The groups of the mesh live as GroupLifecycle says: datasets are only   *)
(* appended and only in edit mode, a closed group is frozen, and its       *)
(* statistics are complete.                                                *)
Lives ==
    INSTANCE GroupLifecycle WITH lives <-
        [i \in DOMAIN groups |->
            [kind   |-> <<groups[i].driver, groups[i].loc, groups[i].scalar>>,
             sealed |-> ~groups[i].edit,
             data   |-> groups[i].datasets,
             stats  |-> groups[i].stats]]

ImplementsLifecycle == Lives!LifeSpec
=============================================================================
