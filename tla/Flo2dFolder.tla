---------------------------- MODULE Flo2dFolder ----------------------------
(***************************************************************************)
(* The FLO2D driver on a folder: meshes are loaded from it, with the groups*)
(* of its TIMDEP.HDF5 or else those of its OUT files; groups on faces are  *)
(* added to TIMDEP.HDF5, under a name that is sought first.                *)
(***************************************************************************)
EXTENDS Flo2dMesh

CONSTANTS
    Folders,        \* the contents of folders
    Names,          \* names of groups, given by a client or made by the driver
    Numbered,       \* the name with "_0" after it
    Above,          \* of a name, which is a path: the group it lies in, "/" if at the top
    NamesInOrder,   \* the names at the top in the order in which HDF5 lists them
    Groups,         \* groups a client closes
    OtherFaces,     \* sizes of meshes that other drivers made
    Faults,         \* what may go wrong, of AllFaults
    MaxStored,      \* bound: groups in the file
    MaxGroups       \* bound: groups loaded for the mesh

Values == {"0", "1", "nan"}
ValuesStored == {"0", "1"}
AllFaults == {"killed", "no write"}
MeshKinds == {"mesh1d", "mesh2d"}

(* A group: the value it has on all faces, per dataset.                    *)
Group == [name : Names, vector : BOOLEAN, holds : Seq(Values)]

(* A group in the file: of how many faces; "broken" has no Values, those   *)
(* of "unfilled" were not written.                                         *)
Entry == [vector : BOOLEAN, faces : Nat, holds : Seq(ValuesStored),
          stage : {"whole", "broken", "unfilled"}]

(* There is what a name lies in: a group of its own, or the root.          *)
Reached(n, groups) == Above[n] = "/" \/ Above[n] \in DOMAIN groups

(* TIMDEP.HDF5.  rooted: it has the group that all the others are in.      *)
IsFile(c) ==
    /\ DOMAIN c = {"there", "rooted", "groups"}
    /\ c.rooted => c.there
    /\ DOMAIN c.groups # {} => c.rooted
    /\ \A n \in DOMAIN c.groups :
          n \in Names /\ c.groups[n] \in Entry /\ Reached(n, c.groups)

NoFile == [there |-> FALSE, rooted |-> FALSE, groups |-> <<>>]
Headless == [NoFile EXCEPT !.there = TRUE]

ASSUME Flo2dAssumption ==
    /\ \A f \in Folders : IsFolder(f) /\ IsFile(f.hdf5)
    /\ Numbered \in [Names -> Names]
    /\ Above \in [Names -> Names \cup {"/"}]
    /\ \A n \in Names : Above[Numbered[n]] = Above[n]
    /\ NamesInOrder \in Seq(Names) /\ ToSet(NamesInOrder) = {n \in Names : Above[n] = "/"}
    /\ Groups \subseteq Group
    /\ OtherFaces \subseteq Nat
    /\ Faults \subseteq AllFaults
    /\ MaxStored \in Nat /\ MaxGroups \in Nat

VARIABLES
    folder,    \* the text files, which nobody changes
    hdf,       \* TIMDEP.HDF5
    mesh,      \* the open mesh, with the groups that were loaded for it
    closing,   \* the group that persist is at, if there is one, the name it
               \* tries, and whether it has found that taken
    status,    \* MDAL_LastStatus()
    promised   \* history: the groups that a close reported as written

vars == <<folder, hdf, mesh, closing, status, promised>>

-----------------------------------------------------------------------------
(* parseHDF5Datasets: the groups in the order of the file, as far as the   *)
(* first that is not as it should be.  Nothing is 0 in the file.           *)
ValueRead(v) == IF v = "0" THEN "nan" ELSE v

(* Mutant: NaN is written as it is.                                       *)
ValueWrittenAsIs(v) == v

ValueWritten(v) == IF v = "nan" THEN "0" ELSE v

PerFace(vector) == IF vector THEN 2 ELSE 1

Elements(e) == e.faces * Len(e.holds) * PerFace(e.vector)

(* Mutant: as if all groups were scalar.                                   *)
FitsAsScalar(e, faces) == Elements(e) = faces * Len(e.holds)

Fits(e, faces) == Elements(e) = faces * Len(e.holds) * PerFace(e.vector)

Readable(e, faces) == e.stage # "broken" /\ Fits(e, faces)

EntryRead(n, e, faces) ==
    [name |-> n, vector |-> e.vector,
     holds |-> IF faces = 0 THEN <<>>
               ELSE [i \in DOMAIN e.holds |->
                        IF e.stage = "unfilled" THEN "nan" ELSE ValueRead(e.holds[i])]]

(* The names of the groups in the file, as far as each of NamesInOrder:    *)
(* a group that lies in another one is not listed.                         *)
NamesUpTo(file) ==
    LET names[k \in 0..Len(NamesInOrder)] ==
            IF k = 0 THEN <<>>
            ELSE IF NamesInOrder[k] \in DOMAIN file.groups
                 THEN Append(names[k - 1], NamesInOrder[k]) ELSE names[k - 1]
    IN  names

HdfRead(file, faces) ==
    LET names == NamesUpTo(file)[Len(NamesInOrder)]
        bad == {i \in DOMAIN names : ~Readable(file.groups[names[i]], faces)}
        last == IF bad = {} THEN Len(names) ELSE Least(bad) - 1
    IN  [groups |-> [i \in 1..last |-> EntryRead(names[i], file.groups[names[i]], faces)],
         failed |-> ~file.rooted \/ bad # {}]

-----------------------------------------------------------------------------
NoMesh == [kind |-> "none", vertices |-> <<>>, faces |-> <<>>, edges |-> <<>>,
           hydrographs |-> <<>>, groups |-> <<>>]

(* Groups of the OUT files and Bed Elevation, by name.                     *)
TextGroups(names) ==
    [i \in DOMAIN names |-> [name |-> names[i], vector |-> names[i] = "Velocity", holds |-> <<>>]]

(* loadMesh2d: what went wrong with the results is reported of a mesh that *)
(* is there; the OUT files are read when the HDF5 file could not be read to*)
(* its end.                                                                *)
Load2d(f, file) ==
    IF "FPLAIN.DAT" \notin f.files THEN [mesh |-> NoMesh, status |-> "Err_FileNotFound"]
    ELSE IF Isolated(f) THEN [mesh |-> NoMesh, status |-> "Err_IncompatibleMesh"]
    ELSE LET read == HdfRead(file, Len(f.cells))
             out == IF read.failed THEN OutRead(f) ELSE [groups |-> <<>>, failed |-> FALSE]
         IN  [mesh |-> [NoMesh EXCEPT
                  !.kind = "mesh2d", !.vertices = Vertices2d(f), !.faces = Faces2d(f),
                  !.groups = TextGroups(<<"Bed Elevation">>) \o read.groups
                             \o TextGroups(out.groups)],
              status |-> IF out.failed THEN "Err_UnknownFormat" ELSE "None"]

(* loadMesh1d.                                                             *)
Load1d(f) ==
    IF "CHANBANK.DAT" \notin f.files THEN [mesh |-> NoMesh, status |-> "Err_FileNotFound"]
    ELSE IF BanksRefused(f) THEN [mesh |-> NoMesh, status |-> "Err_UnknownFormat"]
    ELSE IF "CHAN.DAT" \notin f.files THEN [mesh |-> NoMesh, status |-> "Err_FileNotFound"]
    ELSE IF ChanRefused(f) THEN [mesh |-> NoMesh, status |-> "Err_UnknownFormat"]
    ELSE LET laid == [NoMesh EXCEPT !.kind = "mesh1d", !.vertices = Vertices1d(f),
                                    !.edges = Edges1d(f)]
         IN  IF "HYCHAN.OUT" \notin f.files THEN [mesh |-> laid, status |-> "None"]
             ELSE IF HychanRefused(f) THEN [mesh |-> laid, status |-> "Err_UnknownFormat"]
             ELSE [mesh |-> [laid EXCEPT !.hydrographs = Hydrographs(f)], status |-> "None"]

CanReadMesh(f) ==
    "FPLAIN.DAT" \in f.files \/ {"CHAN.DAT", "CHANBANK.DAT"} \subseteq f.files

(* load: without a name, the 2D mesh when it may be there.                 *)
Loaded(f, file, name) ==
    IF name = "mesh2d" \/ (name = "" /\ "FPLAIN.DAT" \in f.files) THEN Load2d(f, file)
    ELSE Load1d(f)

NoClosing == [open |-> FALSE]
Idle == ~closing.open

-----------------------------------------------------------------------------
(* MDAL_LoadMesh of CADPTS.DAT, with the name of a mesh or without.        *)
LoadMesh(name) ==
    /\ Idle /\ mesh.kind = "none"
    /\ IF CanReadMesh(folder)
       THEN LET loaded == Loaded(folder, hdf, name)
            IN  mesh' = loaded.mesh /\ status' = loaded.status
       ELSE status' = "Err_UnknownFormat" /\ UNCHANGED mesh
    /\ UNCHANGED <<folder, hdf, closing, promised>>

(* A mesh that another driver made, with faces.                            *)
OtherMesh(n) ==
    /\ Idle /\ mesh.kind = "none"
    /\ mesh' = [NoMesh EXCEPT !.kind = "other", !.faces = [i \in 1..n |-> <<>>]]
    /\ status' = "None"
    /\ UNCHANGED <<folder, hdf, closing, promised>>

CloseMesh ==
    /\ Idle /\ mesh.kind # "none"
    /\ mesh' = NoMesh
    /\ UNCHANGED <<folder, hdf, closing, status, promised>>

(* MDAL_M_LoadDatasets of TIMDEP.HDF5 for the open mesh: canReadDatasets,  *)
(* then the groups there are as far as they can be read.                   *)
LoadDatasets ==
    /\ Idle /\ mesh.kind # "none"
    /\ LET read == HdfRead(hdf, Len(mesh.faces))
       IN  /\ Len(mesh.groups) + Len(read.groups) <= MaxGroups
           /\ mesh' = [mesh EXCEPT !.groups = @ \o read.groups]
           /\ status' = IF ~hdf.there THEN "Err_FileNotFound"
                        ELSE IF ~hdf.rooted THEN "Err_UnknownFormat"
                        ELSE IF read.failed THEN "Err_InvalidData" ELSE "None"
    /\ UNCHANGED <<folder, hdf, closing, promised>>

-----------------------------------------------------------------------------
(* MDAL_G_closeEditMode of a group on faces that was put together for this *)
(* driver and TIMDEP.HDF5, as far as the search for its name: persist with *)
(* addToHDF5File, or with saveNewHDF5File, which makes the file first.     *)
CloseEditMode(g) ==
    /\ Idle /\ mesh.kind # "none"
    /\ folder.writable /\ (hdf.there => hdf.rooted)
    /\ Cardinality(DOMAIN hdf.groups) < MaxStored
    /\ hdf' = [hdf EXCEPT !.there = TRUE, !.rooted = TRUE]
    /\ closing' = [open |-> TRUE, group |-> g, name |-> g.name, taken |-> FALSE]
    /\ status' = "None"
    /\ UNCHANGED <<folder, mesh, promised>>

(* The file cannot be made or opened for writing, is one that no group can *)
(* be added to, or is made as far as its first part only.                  *)
CloseEditModeRefused ==
    /\ Idle /\ mesh.kind # "none"
    /\ \/ ~folder.writable /\ UNCHANGED hdf
       \/ hdf.there /\ ~hdf.rooted /\ UNCHANGED hdf
       \/ folder.writable /\ ~hdf.there /\ "no write" \in Faults /\ hdf' = Headless
    /\ status' = "Err_InvalidData"
    /\ UNCHANGED <<folder, mesh, closing, promised>>

(* appendGroup: another name while there is a group of this one.           *)
(* Mutant: whether there is one is not asked.                              *)
NeverTaken(n) == FALSE

NameTaken(n) == n \in DOMAIN hdf.groups

FindTaken ==
    /\ closing.open /\ ~closing.taken /\ NameTaken(closing.name)
    /\ closing' = [closing EXCEPT !.taken = TRUE]
    /\ UNCHANGED <<folder, hdf, mesh, status, promised>>

NextName ==
    /\ closing.open /\ closing.taken
    /\ closing' = [closing EXCEPT !.name = Numbered[closing.group.name], !.taken = FALSE]
    /\ UNCHANGED <<folder, hdf, mesh, status, promised>>

EntryOf(g, stage) ==
    [vector |-> g.vector, faces |-> Len(mesh.faces),
     holds |-> [i \in DOMAIN g.holds |-> ValueWritten(g.holds[i])], stage |-> stage]

(* The file with one group more.                                           *)
Added(file, n, e) ==
    [file EXCEPT !.groups = [m \in DOMAIN file.groups \cup {n} |->
                                IF m = n THEN e ELSE file.groups[m]]]

WriteGroup ==
    /\ closing.open /\ ~closing.taken /\ ~NameTaken(closing.name)
    /\ Reached(closing.name, hdf.groups)
    /\ LET g == closing.group
       IN  /\ hdf' = Added(hdf, closing.name, EntryOf(g, "whole"))
           /\ promised' = promised \cup {[group |-> g, faces |-> Len(mesh.faces)]}
    /\ closing' = NoClosing
    /\ status' = "None"
    /\ UNCHANGED <<folder, mesh>>

(* Writing throws: the group that the name lies in is not there; or before *)
(* the group is there, before its Values are, or at them.                  *)
WriteGroupFails ==
    /\ closing.open /\ ~closing.taken /\ ~NameTaken(closing.name)
    /\ \/ ~Reached(closing.name, hdf.groups) /\ UNCHANGED hdf
       \/ "no write" \in Faults /\ UNCHANGED hdf
       \/ /\ "no write" \in Faults /\ Reached(closing.name, hdf.groups)
          /\ \E stage \in {"broken", "unfilled"} :
                hdf' = Added(hdf, closing.name, EntryOf(closing.group, stage))
    /\ closing' = NoClosing
    /\ status' = "Err_InvalidData"
    /\ UNCHANGED <<folder, mesh, promised>>

-----------------------------------------------------------------------------
(* The process is killed, and started again.  While a group is written the *)
(* file may be left such that nothing can be read from it.                 *)
Killed ==
    /\ "killed" \in Faults
    /\ hdf' \in {hdf} \cup (IF Idle THEN {} ELSE {Headless})
    /\ closing' = NoClosing
    /\ mesh' = NoMesh
    /\ status' = "None"
    /\ UNCHANGED <<folder, promised>>

Flo2dInit ==
    /\ folder \in Folders
    /\ hdf = folder.hdf5
    /\ mesh = NoMesh
    /\ closing = NoClosing
    /\ status = "None"
    /\ promised = {}

Flo2dNext ==
    \/ \E name \in MeshKinds \cup {""} : LoadMesh(name)
    \/ \E n \in OtherFaces : OtherMesh(n)
    \/ CloseMesh \/ LoadDatasets
    \/ \E g \in Groups : CloseEditMode(g)
    \/ CloseEditModeRefused
    \/ FindTaken \/ NextName \/ WriteGroup \/ WriteGroupFails
    \/ Killed

Flo2dSpec == Flo2dInit /\ [][Flo2dNext]_vars

(* A call that has begun goes on: nothing else runs in it.                 *)
FairFlo2dSpec == Flo2dSpec /\ WF_vars(FindTaken) /\ WF_vars(NextName)
                           /\ WF_vars(WriteGroup \/ WriteGroupFails)

-----------------------------------------------------------------------------
Flo2dStatuses == {"None", "Err_UnknownFormat", "Err_FileNotFound", "Err_IncompatibleMesh",
                  "Err_InvalidData"}

(* The types, that the file holds 0 for what is nothing and groups only    *)
(* below its root or in groups it has, and that a group is closed for the  *)
(* open mesh.                                                              *)
Flo2dTypeOK ==
    /\ folder \in Folders
    /\ IsFile(hdf)
    /\ mesh.kind \in MeshKinds \cup {"none", "other"}
    /\ mesh.kind = "none" => mesh = NoMesh
    /\ closing.open => /\ mesh.kind # "none" /\ hdf.rooted
                       /\ closing.name \in {closing.group.name, Numbered[closing.group.name]}
    /\ status \in Flo2dStatuses
    /\ \A p \in promised : p.group \in Groups /\ p.faces \in Nat

(* The cells lie in rows and columns.                                      *)
OnGrid(f) ==
    /\ CellSize(f) > 0
    /\ \A c, d \in Cells(f), axis \in 1..2 : (f.cells[c][axis] - f.cells[d][axis]) % CellSize(f) = 0

CornersAround(centre, half) == {<<centre[1] + i, centre[2] + j>> : i, j \in {half, -half}}

(* Each cell of a 2D mesh is the square around its centre, its corners one *)
(* after the other, and cells that touch share the vertices where they do. *)
CellsTiled ==
    mesh.kind = "mesh2d" /\ OnGrid(folder) =>
        /\ \A v, w \in DOMAIN mesh.vertices : v # w => mesh.vertices[v] # mesh.vertices[w]
        /\ \A c \in Cells(folder) :
              LET at(p) == mesh.vertices[mesh.faces[c][p]]
              IN  /\ {at(p) : p \in 1..4} =
                        CornersAround(folder.cells[c], CellSize(folder) \div 2)
                  /\ \A p \in 1..3 : at(p)[1] = at(p + 1)[1] \/ at(p)[2] = at(p + 1)[2]

(* As the documents describe the banks: a cell is the left bank of one node*)
(* - and was the right bank of none before.                                *)
Left(i) == folder.banks[i][1]
Right(i) == folder.banks[i][2]

BanksAsDescribed ==
    /\ \A i \in DOMAIN folder.banks : Left(i) \in Cells(folder) /\ Right(i) \in Cells(folder) \cup {0}
    /\ \A i, j \in DOMAIN folder.banks : Left(i) = Left(j) => i = j

LeftBeforeRight ==
    \A i, j \in DOMAIN folder.banks : i < j => Left(j) # Right(i)

Middle(c, d) == [axis \in 1..2 |-> (folder.cells[c][axis] + folder.cells[d][axis]) \div 2]

NodeWithLeft(c) == CHOOSE i \in DOMAIN folder.banks : Left(i) = c
IsNode(i) == folder.chan[i].kind = "node" /\ \E j \in DOMAIN folder.banks : Left(j) = folder.chan[i].a

(* A node of a 1D mesh lies in the middle between its banks, whatever other*)
(* nodes share the right one; edges join the nodes that follow each other  *)
(* in a reach, named by their left banks; and what HYCHAN.OUT says of a    *)
(* left bank is found at its node, and nowhere else.                       *)
ChannelsLaid ==
    mesh.kind = "mesh1d" /\ BanksAsDescribed /\ LeftBeforeRight =>
        /\ \A i \in DOMAIN folder.banks : mesh.vertices[i] = Middle(Left(i), Right(i))
        /\ \A k \in DOMAIN folder.chan :
              k > 1 /\ IsNode(k - 1) /\ IsNode(k) =>
                  <<NodeWithLeft(folder.chan[k - 1].a), NodeWithLeft(folder.chan[k].a)>>
                      \in ToSet(mesh.edges)
        /\ LET blocks == folder.blocks
           IN  (/\ mesh.hydrographs # <<>> /\ Len(blocks) > 1
                /\ \A k \in DOMAIN blocks : Len(blocks[k].rows) = Len(blocks[1].rows)
                /\ \A k, l \in DOMAIN blocks : blocks[k].cell = blocks[l].cell => k = l)
               => \A i \in DOMAIN folder.banks :
                    (\A k \in DOMAIN blocks : blocks[k].cell # Right(i)) =>
                      mesh.hydrographs[i] =
                        (IF \E k \in DOMAIN blocks : blocks[k].cell = Left(i)
                         THEN blocks[CHOOSE k \in DOMAIN blocks : blocks[k].cell = Left(i)].rows
                         ELSE <<>>)

(* The groups that are listed.                                             *)
AtTop(file) == {n \in DOMAIN file.groups : Above[n] = "/"}

(* No group in the file ends its reading: none was left without values, and*)
(* all are of meshes of one size.                                          *)
Sound(file) ==
    /\ file.rooted
    /\ \A n, m \in AtTop(file) : /\ file.groups[n].stage # "broken"
                                 /\ file.groups[n].faces = file.groups[m].faces

(* A group that a close reported as written is read from the file again, 0 *)
(* as nothing and all else as it was, under its name or that name numbered,*)
(* whatever closes of other groups or of its namesakes followed - unless it*)
(* was written into another group.                                         *)
IsRead(p, groups) ==
    \E i \in DOMAIN groups :
        /\ groups[i].name \in {p.group.name, Numbered[p.group.name]}
        /\ groups[i].vector = p.group.vector
        /\ groups[i].holds = [k \in DOMAIN p.group.holds |-> ValueRead(p.group.holds[k])]

Flo2dGroupsReload ==
    Sound(hdf) => \A p \in promised :
        p.faces > 0 /\ Above[p.group.name] = "/" => IsRead(p, HdfRead(hdf, p.faces).groups)

(* Whatever a close does, also when it fails: as long as the file can be   *)
(* read, what was read from it before, for a mesh of the size its groups   *)
(* are of, is read from it after.                                          *)
OfSize(file, n) == \A m \in AtTop(file) : file.groups[m].faces = n

StoredStay ==
    [][\A n \in OtherFaces :
        Sound(hdf) /\ Sound(hdf') /\ OfSize(hdf', n) =>
            ToSet(HdfRead(hdf, n).groups) \subseteq ToSet(HdfRead(hdf', n).groups)]_vars

(* mdal_flo2d.cpp:1282: "make sure we have unique group name".  A close    *)
(* that looks for a name finds one.                                        *)
EveryCloseEnds == closing.open ~> ~closing.open
=============================================================================
