----------------------------- MODULE UgridFile -----------------------------
(***************************************************************************)
(* The UGRID driver on the CF reader: a netCDF file holds meshes, one time *)
(* dimension for all, and variables that are put together to groups by     *)
(* their names.  Dataset groups are added to a file by the one instance of *)
(* the driver that DriverManager keeps, which leaves the file open and     *)
(* remembers which mesh it was asked for; meshes are loaded and saved by   *)
(* instances of their own.                                                 *)
(***************************************************************************)
EXTENDS Integers, Sequences, FiniteSets, SequencesExt

CONSTANTS
    Files,          \* names of netCDF files
    MeshNames,      \* names of meshes
    Networks,       \* those with "network" in them
    Unspaced,       \* the name with its spaces replaced
    Names,          \* names of groups, given by a client or read
    ReadAs,         \* the name and the part a variable is read as
    VarNames,       \* netCDF names of variables
    VarName,        \* the one a group's values get, by mesh, name and part
    OwnVars,        \* those of the variables that the driver makes for a mesh
    Groups,         \* groups a client closes
    Asked,          \* names of meshes a client gives, or none
    MeshChoices,    \* the meshes a client makes
    Foreign,        \* files of other programs
    Faults,         \* what may go wrong, of AllFaults
    MaxVariables    \* bound: variables in a file

Parts == {"s", "x", "y"}          \* a scalar, the components of a vector
Places == {"node", "face", "edge"}
AllFaults == {"killed", "no create", "no open"}
Unnamed == ""                     \* no mesh is asked for
DefaultName == "mesh2d"

(* A mesh in a file: the sizes of its dimensions; elements are its faces,  *)
(* or the edges of a 1D mesh.  ...Fill: all that is in them is the fill    *)
(* value, which stands for nothing when the size is 1.  coordinates: its   *)
(* attribute names the variables of the nodes in a way that is understood. *)
(* own: the names of the variables that make it up.                        *)
Topology == [name : MeshNames, dim : {1, 2}, nodes : Nat, elements : Nat,
             nodesFill : BOOLEAN, elementsFill : BOOLEAN,
             coordinates : BOOLEAN, own : SUBSET VarNames]

(* A variable lies on a mesh and a place of it.  id: its netCDF name; name *)
(* and part: what its attributes say, or id where they say nothing.        *)
(* order: without the time dimension, or with it first or last.  written:  *)
(* how many time steps have values, those after them are fill values.      *)
Variable == [id : VarNames, name : Names, part : Parts, mesh : MeshNames, place : Places,
             order : {"static", "first", "last"}, written : Nat]

(* timed: the file has a time dimension.                                   *)
Content == [meshes : Seq(Topology), timed : BOOLEAN, times : Seq(Nat),
            variables : Seq(Variable)]

MeshNamesOf(c) == [i \in DOMAIN c.meshes |-> c.meshes[i].name]

(* A variable lies on a mesh of its file, and has values at no more time   *)
(* steps than the file has.                                                *)
ContentSound(c) ==
    \A i \in DOMAIN c.variables :
        LET v == c.variables[i]
        IN  /\ v.mesh \in ToSet(MeshNamesOf(c))
            /\ v.order # "static" => c.timed /\ v.written <= Len(c.times)

NoFile == [meshes |-> <<>>, timed |-> FALSE, times |-> <<>>, variables |-> <<>>]

(* A file that is there and that nothing can be read from.                 *)
Damaged == [NoFile EXCEPT !.timed = TRUE]

(* A group a client closes: times are the time stamps of its datasets.     *)
Group == [name : Names, vector : BOOLEAN, place : {"node", "face"}, times : Seq(Nat)]

MeshChoice == [vertices : Nat, faces : Nat, atFill : BOOLEAN]

ASSUME UgridAssumption ==
    /\ Files # {}
    /\ DefaultName \in MeshNames /\ Unnamed \notin MeshNames
    /\ Networks \subseteq MeshNames
    /\ Unspaced \in [MeshNames -> MeshNames]
    /\ ReadAs \in [Names \X Parts -> Names \X Parts]
    /\ VarName \in [MeshNames \X Names \X Parts -> VarNames]
    /\ OwnVars \in [MeshNames -> SUBSET VarNames]
    /\ MeshChoices \subseteq MeshChoice
    /\ Faults \subseteq AllFaults
    /\ Groups \subseteq Group
    /\ Asked \subseteq MeshNames \cup {Unnamed}
    /\ MaxVariables \in Nat
    /\ \A c \in Foreign : c \in Content /\ c.meshes # <<>> /\ ContentSound(c)

VARIABLES
    disk,      \* what each file holds once nobody has it open for writing
    driver,    \* the instance of DriverManager: mNcFile's file, what others
               \* may see of that file meanwhile, whether the file was made
               \* anew beneath it, the group written; mRequestedMeshName
    mesh,      \* the open mesh
    status,    \* MDAL_LastStatus()
    saved,     \* history: the mesh that was saved last as each file
    promised   \* history: the groups that a close reported as written and
               \* whose file was closed since, per file

vars == <<disk, driver, mesh, status, saved, promised>>

-----------------------------------------------------------------------------
(* DriverUgrid::writeVariables: dimensions have one item at least, filled  *)
(* with the value that stands for nothing.  Edges are not written.  The    *)
(* names of the variables of the nodes are put into one attribute, with a  *)
(* space between them: a name of a mesh with a space spoils it.            *)
Spaced(name) == Unspaced[name] # name

AtLeastOne(n) == IF n = 0 THEN 1 ELSE n

SavedMesh(m, name) ==
    [NoFile EXCEPT !.meshes =
        <<[name |-> name, dim |-> 2,
           nodes |-> AtLeastOne(m.vertices), elements |-> AtLeastOne(m.faces),
           nodesFill |-> m.vertices = 0 \/ m.atFill,
           elementsFill |-> m.faces = 0,
           coordinates |-> ~Spaced(name), own |-> OwnVars[name]]>>]

-----------------------------------------------------------------------------
(* DriverUgrid::populateDimensions: the mesh that is asked for; otherwise  *)
(* the first, or the second when the first is a network.  It throws when   *)
(* the variables of its nodes cannot be told.                              *)
MeshFound(c, requested) ==
    /\ c.meshes # <<>>
    /\ requested # Unnamed => requested \in ToSet(MeshNamesOf(c))

Selected(c, requested) ==
    LET names == MeshNamesOf(c)
        i == IF requested # Unnamed THEN CHOOSE j \in DOMAIN names : names[j] = requested
             ELSE IF Len(names) > 1 /\ names[1] \in Networks THEN 2 ELSE 1
    IN  c.meshes[i]

Selectable(c, requested) == MeshFound(c, requested) /\ Selected(c, requested).coordinates

(* CFDimensions::size.                                                     *)
SizeOf(t, place) ==
    CASE place = "node"                -> t.nodes
      [] place = "face" /\ t.dim = 2   -> t.elements
      [] place = "edge" /\ t.dim = 1   -> t.elements
      [] OTHER                         -> 0

(* CFDimensions::type and isDatasetType: the variables that belong to the  *)
(* mesh.  Edges of a 2D mesh have a type too, but no group is made there.  *)
OnMesh(c, t, i) ==
    /\ c.variables[i].mesh = t.name
    /\ c.variables[i].place = "face" => t.dim = 2
    /\ c.variables[i].order # "static" => c.timed

(* DriverUgrid::populateVertices and populateFaces.                        *)
VerticesRead(t) == IF t.nodes = 1 /\ t.nodesFill THEN 0 ELSE t.nodes

(* Mutant: a face of fill values is a face.                                *)
AllElementsRead(t) == t.elements

ElementsRead(t) ==
    IF t.dim = 2 /\ t.elements = 1 /\ t.elementsFill THEN 0 ELSE t.elements

ValuesRead(t, place) == IF place = "node" THEN VerticesRead(t) ELSE ElementsRead(t)

-----------------------------------------------------------------------------
(* DriverCF::parseDatasetGroupInfo: the first variable of a name decides   *)
(* where the group is, how many time steps it has and whether it is a      *)
(* vector; later ones that are components take the place of what is there, *)
(* later scalars are not looked at.  0: no variable (ncid -1).             *)
Value(v) == <<v.name, v.part>>

NameRead(v) == ReadAs[Value(v)][1]
PartRead(v) == ReadAs[Value(v)][2]

LastOr0(is) == IF is = {} THEN 0 ELSE CHOOSE i \in is : \A j \in is : j <= i

Named(c, t, n) ==
    {i \in DOMAIN c.variables : OnMesh(c, t, i) /\ NameRead(c.variables[i]) = n}

First(is) == CHOOSE i \in is : \A j \in is : i <= j

Taking(c, is, part) ==
    {i \in is : \/ PartRead(c.variables[i]) = part
                \/ i = First(is) /\ PartRead(c.variables[i]) = "s" /\ part = "x"}

Components(c, t, n) ==
    LET is == Named(c, t, n)
        first == c.variables[First(is)]
        y == LastOr0(Taking(c, is, "y"))
    IN  [first |-> first, vector |-> PartRead(first) # "s" /\ y # 0,
         x |-> LastOr0(Taking(c, is, "x")), y |-> y]

StepsOf(c, v) == IF v.order = "static" THEN 1 ELSE Len(c.times)

(* DriverCF::addDatasetGroups: a group without datasets is not added.      *)
GroupNames(c, t) ==
    {n \in {NameRead(c.variables[i]) : i \in {j \in DOMAIN c.variables : OnMesh(c, t, j)}} :
        LET v == Components(c, t, n).first
        IN  StepsOf(c, v) > 0 /\ (v.place = "edge" => t.dim = 1)}

(* CFDataset2D: the components it reads, as the variables they come from.  *)
(* Without the time dimension, both are read from the variable of x, and   *)
(* the time is the file's first, if it has one.                            *)
Reading(c, i) == IF i = 0 THEN <<>> ELSE Value(c.variables[i])

ReadGroup(c, t, n) ==
    LET g == Components(c, t, n)
        x == Reading(c, g.x)
    IN  [place |-> g.first.place, vector |-> g.vector,
         times |-> IF ~c.timed \/ c.times = <<>> THEN <<>>
                   ELSE IF g.first.order = "static" THEN <<c.times[1]>> ELSE c.times,
         steps |-> StepsOf(c, g.first),
         holds |-> IF ~g.vector THEN <<x>>
                   ELSE IF g.first.order = "static" THEN <<x, x>>
                   ELSE <<x, Reading(c, g.y)>>,
         written |-> IF g.x = 0 THEN 0 ELSE c.variables[g.x].written]

(* The statistics read all values: a component that is missing, or one     *)
(* with less values than the group, throws.                                *)
Complete(c, t, n) ==
    LET g == Components(c, t, n)
        there(i) == i # 0 /\ SizeOf(t, c.variables[i].place) >= SizeOf(t, g.first.place)
    IN  /\ there(g.x)
        /\ g.vector /\ g.first.order # "static" => there(g.y)

ReadThrows(c, t, n) ==
    ValuesRead(t, Components(c, t, n).first.place) > 0 /\ ~Complete(c, t, n)

(* The groups of a file have their components, on all of its meshes.       *)
GroupsComplete(c) ==
    \A i \in DOMAIN c.meshes : \A n \in Names :
        Named(c, c.meshes[i], n) # {} => Complete(c, c.meshes[i], n)

MeshesDiffer(c) ==
    \A i, j \in DOMAIN c.meshes : c.meshes[i].name = c.meshes[j].name => i = j

ASSUME ForeignAssumption ==
    \A c \in Foreign : GroupsComplete(c) /\ MeshesDiffer(c)

Loads(c, requested) ==
    /\ Selectable(c, requested)
    /\ LET t == Selected(c, requested) IN \A n \in GroupNames(c, t) : ~ReadThrows(c, t, n)

LoadedGroups(c, requested) ==
    LET t == Selected(c, requested) IN [n \in GroupNames(c, t) |-> ReadGroup(c, t, n)]

-----------------------------------------------------------------------------
NoMesh == [open |-> FALSE, vertices |-> 0, faces |-> 0, atFill |-> FALSE]

MemoryMesh(m) == [NoMesh EXCEPT !.open = TRUE, !.vertices = m.vertices,
                                !.faces = m.faces, !.atFill = m.atFill]

LoadedMesh(t) == [NoMesh EXCEPT !.open = TRUE, !.vertices = VerticesRead(t),
                                !.faces = IF t.dim = 2 THEN ElementsRead(t) ELSE 0,
                                !.atFill = t.nodesFill /\ VerticesRead(t) > 0]

(* The values of a group, by the variables that are to hold them.          *)
PartsOf(g) == IF g.vector THEN <<"x", "y">> ELSE <<"s">>

Promise(g, t) == [name |-> g.name, vector |-> g.vector, place |-> g.place,
                  mesh |-> t.name, times |-> g.times]

Closed(requested) ==
    [open |-> FALSE, file |-> CHOOSE f \in Files : TRUE, others |-> NoFile, beneath |-> FALSE,
     wrote |-> {}, requested |-> requested]

(* mNcFile.reset(): the file gets what was not yet written to it.  Where   *)
(* the file was made anew meanwhile that goes wherever it belonged before. *)
DriverCloses(files) ==
    LET f == driver.file
    IN  IF driver.open /\ driver.beneath
        THEN {files, [files EXCEPT ![f] = Damaged]}
        ELSE {files}

Meshes(history) ==
    IF driver.open /\ driver.beneath THEN [history EXCEPT ![driver.file] = NoMesh] ELSE history

Kept == IF driver.open /\ ~driver.beneath
        THEN [promised EXCEPT ![driver.file] = @ \cup driver.wrote]
        ELSE promised

-----------------------------------------------------------------------------
(* MDAL_CreateMesh and the calls that fill the mesh.                       *)
CreateMesh(m) ==
    /\ ~mesh.open
    /\ mesh' = MemoryMesh(m)
    /\ status' = "None"
    /\ UNCHANGED <<disk, driver, saved, promised>>

CloseMesh ==
    /\ mesh.open
    /\ mesh' = NoMesh
    /\ UNCHANGED <<disk, driver, status, saved, promised>>

(* DriverCF::load by an instance of its own.                               *)
LoadOf(c, requested) ==
    IF Loads(c, requested)
    THEN /\ mesh' = LoadedMesh(Selected(c, requested))
         /\ status' = IF requested = Unnamed /\ Len(c.meshes) > 1
                      THEN "Warn_MultipleMeshesInFile" ELSE "None"
    ELSE /\ status' = IF c.meshes # <<>> /\ ~MeshFound(c, requested)
                      THEN "Err_InvalidData" ELSE "Err_UnknownFormat"
         /\ UNCHANGED mesh

(* MDAL_LoadMesh with the driver's name: DriverManager::load goes straight *)
(* to an instance of its own, which opens what is in the file by now.      *)
LoadMeshByDriver(f, requested) ==
    /\ ~mesh.open /\ disk[f] # NoFile
    /\ \E c \in {disk[f]} \cup (IF driver.open /\ driver.file = f THEN {driver.others} ELSE {}) :
           LoadOf(c, requested)
    /\ UNCHANGED <<disk, driver, saved, promised>>

(* Without it: the instance that is kept is asked first whether it can     *)
(* read the file, and closes what it has open.                             *)
CanReadMesh(c) == Selectable(c, driver.requested)

LoadMesh(f, requested) ==
    /\ ~mesh.open /\ disk[f] # NoFile
    /\ \E files \in DriverCloses(disk) :
        /\ disk' = files
        /\ IF CanReadMesh(files[f])
           THEN LoadOf(files[f], requested)
           ELSE status' = "Err_UnknownFormat" /\ UNCHANGED mesh
    /\ driver' = Closed(driver.requested)
    /\ promised' = Kept
    /\ saved' = Meshes(saved)

LoadMeshMissing(f) ==
    /\ ~mesh.open /\ disk[f] = NoFile
    /\ status' = "Err_FileNotFound"
    /\ UNCHANGED <<disk, driver, mesh, saved, promised>>

(* MDAL_SaveMeshWithUri, by an instance of its own: nc_create truncates.   *)
SavedName(name) == IF name = Unnamed THEN DefaultName ELSE name

SaveMesh(f, name) ==
    /\ mesh.open
    /\ disk' = [disk EXCEPT ![f] = SavedMesh(mesh, SavedName(name))]
    /\ driver' = IF driver.open /\ driver.file = f THEN [driver EXCEPT !.beneath = TRUE] ELSE driver
    /\ saved' = [saved EXCEPT ![f] = mesh]
    /\ promised' = [promised EXCEPT ![f] = {}]
    /\ status' = "None"
    /\ UNCHANGED mesh

SaveMeshNotCreated ==
    /\ "no create" \in Faults
    /\ mesh.open
    /\ status' = "Err_FailToWriteToDisk"
    /\ UNCHANGED <<disk, driver, mesh, saved, promised>>

-----------------------------------------------------------------------------
(* DriverUgrid::writeDatasetGroup.                                         *)
NeedsTime(c) == c.times = <<>>

(* Mutant: the time steps are only counted.                                *)
TimesCounted(c, g) == ~NeedsTime(c) /\ Len(g.times) # 1 => Len(g.times) = Len(c.times)

TimesFit(c, g) == ~NeedsTime(c) /\ Len(g.times) # 1 => g.times = c.times

(* A dimension of this name must not be there, even when it is empty.      *)
TimeDefined(c) == ~NeedsTime(c) \/ ~c.timed

WithTime(c) == [c EXCEPT !.timed = TRUE]

NewVariable(g, t, part, n) ==
    [id |-> VarName[<<t.name, g.name, part>>], name |-> g.name, part |-> part,
     mesh |-> t.name, place |-> g.place, order |-> "first", written |-> n]

(* No two variables of a file have the same netCDF name, which is made of  *)
(* those of the mesh and the group, with a suffix for a component - and    *)
(* says nothing of what the variables of other programs are read as.       *)
NameTaken(c, t, g, part) ==
    LET id == VarName[<<t.name, g.name, part>>]
    IN  \/ \E i \in DOMAIN c.meshes : id \in c.meshes[i].own
        \/ \E i \in DOMAIN c.variables : c.variables[i].id = id

(* Mutants: the time of a dataset is not written with it, or is written    *)
(* whether the file has times or not.                                      *)
WrittenUntimed(c, t, g, n) ==
    [WithTime(c) EXCEPT
        !.variables = @ \o [i \in DOMAIN PartsOf(g) |-> NewVariable(g, t, PartsOf(g)[i], n)]]

WrittenAnew(c, t, g, n) ==
    [WrittenUntimed(c, t, g, n) EXCEPT !.times = IF n > 0 THEN g.times ELSE @]

Written(c, t, g, n) ==
    [WithTime(c) EXCEPT
        !.variables = @ \o [i \in DOMAIN PartsOf(g) |-> NewVariable(g, t, PartsOf(g)[i], n)],
        !.times = IF NeedsTime(c) /\ n > 0 THEN g.times ELSE @]

(* Less values than the file has places for; more are cut off.             *)
TooShort(t, g) ==
    LET mine == IF g.place = "node" THEN mesh.vertices ELSE mesh.faces
    IN  g.times # <<>> /\ mine < SizeOf(t, g.place)

(* What an error leaves in the file: nothing new; the time dimension, and  *)
(* the variable of x when the name of y is taken; all definitions without  *)
(* values.                                                                 *)
FailedWrite(c, name, g) ==
    LET t == Selected(c, name)
    IN  IF ~Selectable(c, name) \/ ~TimesFit(c, g) \/ ~TimeDefined(c) THEN c
        ELSE IF SizeOf(t, g.place) = 0 \/ NameTaken(c, t, g, PartsOf(g)[1]) THEN WithTime(c)
        ELSE IF NameTaken(c, t, g, Last(PartsOf(g)))
             THEN [WithTime(c) EXCEPT !.variables = Append(@, NewVariable(g, t, "x", 0))]
        ELSE Written(c, t, g, 0)

Writes(c, name, g) ==
    /\ Selectable(c, name) /\ TimesFit(c, g) /\ TimeDefined(c)
    /\ LET t == Selected(c, name)
       IN  /\ SizeOf(t, g.place) > 0
           /\ \A part \in ToSet(PartsOf(g)) : ~NameTaken(c, t, g, part)
           /\ ~TooShort(t, g)

(* The kept instance opens the file, and leaves it open and the name of    *)
(* the mesh remembered, however it ends.                                   *)
Opened(f, name, others, wrote) ==
    [open |-> TRUE, file |-> f, others |-> others, beneath |-> FALSE,
     wrote |-> wrote, requested |-> name]

WriteGroup(files, f, c, name, g) ==
    IF Writes(c, name, g)
    THEN LET t == Selected(c, name)
         IN  /\ disk' = [files EXCEPT ![f] = Written(c, t, g, Len(g.times))]
             /\ driver' = Opened(f, name, Written(c, t, g, 0), {Promise(g, t)})
             /\ status' = "None"
    ELSE /\ disk' = [files EXCEPT ![f] = FailedWrite(c, name, g)]
         /\ driver' = Opened(f, name, c, {})
         /\ status' = "Err_InvalidData"

(* MDAL_G_closeEditMode of a group that was put together in edit mode for  *)
(* this driver, on the vertices or the faces, and DriverUgrid::persist:    *)
(* into the file there is, or into one that is made with the group's mesh  *)
(* first, whose name has no spaces then.                                   *)
MayClose(f, g) ==
    /\ mesh.open
    /\ Len(disk[f].variables) + Len(PartsOf(g)) <= MaxVariables

CloseEditMode(f, name, g) ==
    /\ MayClose(f, g)
    /\ disk[f] # NoFile
    /\ \E files \in DriverCloses(disk) : WriteGroup(files, f, files[f], name, g)
    /\ promised' = Kept
    /\ saved' = Meshes(saved)
    /\ UNCHANGED mesh

CloseEditModeAsNew(f, meshName, g) ==
    /\ MayClose(f, g)
    /\ disk[f] = NoFile
    /\ LET name == IF meshName = Unnamed THEN DefaultName ELSE Unspaced[meshName]
       IN  \E files \in DriverCloses(disk) : WriteGroup(files, f, SavedMesh(mesh, name), name, g)
    /\ promised' = Kept
    /\ saved' = [Meshes(saved) EXCEPT ![f] = mesh]
    /\ UNCHANGED mesh

(* The file cannot be opened for writing, or is not made.                  *)
CloseEditModeFails(f) ==
    /\ mesh.open
    /\ IF disk[f] = NoFile THEN "no create" \in Faults ELSE "no open" \in Faults
    /\ disk' \in DriverCloses(disk)
    /\ driver' = Closed(driver.requested)
    /\ status' = "Err_InvalidData"
    /\ promised' = Kept
    /\ saved' = Meshes(saved)
    /\ UNCHANGED mesh

-----------------------------------------------------------------------------
(* The process is killed, and started again: what was not written to the   *)
(* file yet may be lost.                                                   *)
Killed ==
    /\ "killed" \in Faults
    /\ disk' \in {disk} \cup (IF driver.open /\ ~driver.beneath
                               THEN {[disk EXCEPT ![driver.file] = driver.others]} ELSE {})
    /\ driver' = Closed(Unnamed)
    /\ mesh' = NoMesh
    /\ status' = "None"
    /\ UNCHANGED <<saved, promised>>

UgridInit ==
    /\ disk \in [Files -> {NoFile} \cup Foreign]
    /\ driver = Closed(Unnamed)
    /\ mesh = NoMesh
    /\ status = "None"
    /\ saved = [f \in Files |-> NoMesh]
    /\ promised = [f \in Files |-> {}]

UgridNext ==
    \/ \E m \in MeshChoices : CreateMesh(m)
    \/ CloseMesh
    \/ \E f \in Files, name \in Asked :
          LoadMesh(f, name) \/ LoadMeshByDriver(f, name) \/ SaveMesh(f, name)
    \/ \E f \in Files : LoadMeshMissing(f)
    \/ SaveMeshNotCreated
    \/ \E f \in Files, name \in Asked, g \in Groups :
          CloseEditMode(f, name, g) \/ CloseEditModeAsNew(f, name, g)
    \/ \E f \in Files : CloseEditModeFails(f)
    \/ Killed

UgridSpec == UgridInit /\ [][UgridNext]_vars

-----------------------------------------------------------------------------
UgridStatuses == {"None", "Warn_MultipleMeshesInFile", "Err_UnknownFormat",
                  "Err_FileNotFound", "Err_FailToWriteToDisk", "Err_InvalidData"}

MeshRecord == [open : BOOLEAN, vertices : Nat, faces : Nat,
               atFill : BOOLEAN]

PromiseRecord == [name : Names, vector : BOOLEAN, place : {"node", "face"},
                  mesh : MeshNames, times : Seq(Nat)]

(* The types, that files are sound, and that the driver has written nothing*)
(* but to a file that it has open.                                         *)
UgridTypeOK ==
    /\ \A f \in Files : /\ disk[f] \in Content /\ ContentSound(disk[f])
                        /\ saved[f] \in MeshRecord
                        /\ promised[f] \subseteq PromiseRecord
    /\ driver.open \in BOOLEAN /\ driver.file \in Files /\ driver.others \in Content
    /\ driver.beneath => driver.open
    /\ driver.wrote # {} => driver.open
    /\ driver.requested \in MeshNames \cup {Unnamed}
    /\ mesh \in MeshRecord
    /\ status \in UgridStatuses

(* A mesh that was saved comes back with its vertices and faces, also when *)
(* it has none of them - unless its only vertex lies where the file says   *)
(* there is none, or the name it was saved with has a space.               *)
UgridMeshReloads ==
    \A f \in Files :
        saved[f].open /\ ~saved[f].atFill /\ ~Spaced(MeshNamesOf(disk[f])[1]) =>
            LET t == Selected(disk[f], Unnamed)
            IN  /\ Selectable(disk[f], Unnamed)
                /\ LoadedMesh(t).vertices = saved[f].vertices
                /\ LoadedMesh(t).faces = saved[f].faces

(* The names of a file mean to the reader what they meant to the client:   *)
(* none is taken for a component, no name is that of a scalar and of a     *)
(* vector, and a variable with another netCDF name than this driver gives  *)
(* is not read as what a second variable is read as.                       *)
PlainNames(c) ==
    \A i, j \in DOMAIN c.variables :
        LET v == c.variables[i]
            w == c.variables[j]
        IN  /\ ReadAs[Value(v)] = Value(v)
            /\ v.name = w.name /\ v.mesh = w.mesh =>
                  /\ v.part = "s" <=> w.part = "s"
                  /\ v.part = w.part /\ v.id # VarName[<<v.mesh, v.name, v.part>>] => i = j

IsIn(p, c) ==
    /\ Loads(c, p.mesh)
    /\ p.name \in DOMAIN LoadedGroups(c, p.mesh)
    /\ LET g == LoadedGroups(c, p.mesh)[p.name]
       IN  /\ g.vector = p.vector /\ g.place = p.place
           /\ g.holds = [i \in DOMAIN PartsOf(p) |-> <<p.name, PartsOf(p)[i]>>]
           /\ g.written = Len(p.times) /\ Len(p.times) <= g.steps
           /\ Len(p.times) > 1 => g.times = p.times

(* A group that a close reported as written, with a dataset and to a file  *)
(* of plain names, is found in the file: with its components, its time     *)
(* steps and its values, whatever was written or failed to be written to   *)
(* the file later, and also after the process was killed.                  *)
Reported(f) ==
    promised[f] \cup (IF driver.open /\ driver.file = f /\ ~driver.beneath
                      THEN driver.wrote ELSE {})

GroupsReload ==
    \A f \in Files : PlainNames(disk[f]) =>
        \A p \in Reported(f) : p.times # <<>> => IsIn(p, disk[f])

(* A group without time takes the file's first time as soon as it has one. *)
StaysAs(new, old) ==
    /\ [new EXCEPT !.times = old.times] = old
    /\ old.times # <<>> => new.times = old.times

(* Whatever is done with a file of plain names but saving a mesh to it or  *)
(* being killed, and whether or not it succeeds: what loaded from the file *)
(* before loads from it after, with the same values, and at the same times *)
(* if it had any.                                                          *)
GroupsStay ==
    [][\A f \in Files :
        LET old == disk[f]
            new == disk'[f]
        IN  /\ old # new /\ new # Damaged /\ PlainNames(new)
            /\ ~\E name \in Asked : SaveMesh(f, name)
            /\ ~Killed
            => \A name \in ToSet(MeshNamesOf(old)) : Loads(old, name) =>
                  /\ Loads(new, name)
                  /\ \A n \in DOMAIN LoadedGroups(old, name) :
                        /\ n \in DOMAIN LoadedGroups(new, name)
                        /\ StaysAs(LoadedGroups(new, name)[n], LoadedGroups(old, name)[n])]_vars
=============================================================================
