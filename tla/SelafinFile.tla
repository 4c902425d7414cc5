---------------------------- MODULE SelafinFile ----------------------------
(***************************************************************************)
(* The SELAFIN driver: one file holds the mesh and all its dataset groups. *)
(* A loaded mesh keeps a reader on its file and reads from it when asked;  *)
(* adding a group writes the whole file again, as file.tmp, and puts that  *)
(* in the place of the file.  Between two such steps the process may die,  *)
(* and a step may fail.                                                    *)
(***************************************************************************)
EXTENDS Integers, Sequences, SequencesExt

CONSTANTS
    Files,          \* names of SELAFIN files
    Names,          \* names of groups, given by a client or read
    ClientNames,    \* those a client gives
    ReadAs,         \* the name and the part a variable is read as
    VertexChoices,  \* numbers of vertices of the client's meshes
    Faults,         \* what may go wrong, of AllFaults
    MaxGroups,      \* bound: groups of the mesh
    MaxVariables,   \* bound: variables in a file
    MaxSteps        \* bound: datasets of a group

Parts == {"s", "x", "y"}   \* a scalar, the two components of a vector

AllFaults == {"killed", "no open", "no delete", "no rename", "disk full"}

ASSUME SelafinAssumption ==
    /\ Files # {} /\ Names # {} /\ ClientNames \subseteq Names
    /\ ReadAs \in [Names \X Parts -> Names \X Parts]
    /\ VertexChoices \subseteq Nat
    /\ Faults \subseteq AllFaults
    /\ MaxGroups \in Nat /\ MaxVariables \in Nat /\ MaxSteps \in Nat

VARIABLES
    alive,     \* the process runs
    mesh,      \* the open mesh: its kind, and its vertices or its file
    source,    \* MeshSelafin::mReader: mParsed and what it read
    groups,    \* Mesh::datasetGroups, but for the groups of a client that
               \* are closed: those keep to the values they have in memory
    disk,      \* what is in each file
    temp,      \* what is in file.tmp; one that was left behind is nothing
               \* while the file is there: the next one overwrites it
    job,       \* the call in progress: its last step that is done, its group
    status,    \* MDAL_LastStatus()
    promised   \* history: the groups a close reported as persisted, per file

vars == <<alive, mesh, source, groups, disk, temp, job, status, promised>>

-----------------------------------------------------------------------------
(* A file: the mesh, the variables and how many time steps of all of them. *)
(* frame: whether the part that describes the mesh is "whole"; "short" of  *)
(* its last bytes, inside the y coordinates; or "cut" before them.         *)
(* lost is history: bytes were lost with the disk full.                    *)
Variable == [name : Names, part : Parts, size : Nat]

Content == [vertices : Nat, variables : Seq(Variable), steps : Nat,
            frame : {"none", "cut", "short", "whole"}, lost : BOOLEAN]

NoFile == [vertices |-> 0, variables |-> <<>>, steps |-> 0,
           frame |-> "none", lost |-> FALSE]

Stub(frame, v, lost) ==
    [NoFile EXCEPT !.vertices = v, !.frame = frame, !.lost = lost]

(* DriverSelafin::save: a mesh and no variable.                            *)
MeshOnly(v) == Stub("whole", v, FALSE)

(* SelafinFile::parseFile takes the number of time steps from the bytes    *)
(* that are left, counted here in doubles: two for the time, one more than *)
(* its values for a variable.  What a short frame lacks is taken from the  *)
(* first time step.                                                        *)
LengthsUpTo(sizes) ==
    LET length[k \in 0..Len(sizes)] ==
            IF k = 0 THEN 2 ELSE length[k - 1] + sizes[k] + 1
    IN  length

StepLength(sizes) == LengthsUpTo(sizes)[Len(sizes)]

SizesOf(c) == [i \in DOMAIN c.variables |-> c.variables[i].size]

StepsFound(c) ==
    LET written == c.steps * StepLength(SizesOf(c))
        missing == IF c.frame = "short" /\ c.steps > 0 THEN 1 ELSE 0
    IN  (written - missing) \div (2 + Len(c.variables) * (c.vertices + 1))

SizesAgree(c) ==
    \A i \in DOMAIN c.variables : c.variables[i].size = c.vertices

Readable(c) ==
    /\ c.frame \in {"short", "whole"}
    /\ StepsFound(c) > 0 => SizesAgree(c) /\ c.frame = "whole"

(* parseMeshFrame divides the length of the x coordinates by the number of *)
(* vertices.                                                               *)
DividesByZero(c) == c.frame \in {"short", "whole"} /\ c.vertices = 0

Parsed(c) == [c EXCEPT !.steps = StepsFound(c)]

-----------------------------------------------------------------------------
(* SelafinFile::populateDataset: variables that are read under one name    *)
(* make one group, a scalar when the first of them is; the last of them    *)
(* that is a component gives that component.  Without one, the file's      *)
(* first variable does.                                                    *)
NameRead(v) == ReadAs[v.name, v.part][1]
PartRead(v) == ReadAs[v.name, v.part][2]

LastComponent(variables, n, parts) ==
    LET these == {i \in DOMAIN variables :
                     NameRead(variables[i]) = n /\ PartRead(variables[i]) \in parts}
    IN  IF these = {} THEN 1 ELSE CHOOSE i \in these : \A j \in these : j <= i

Value(v) == <<v.name, v.part>>

(* What a group reads at every time step: the values of its variables.     *)
ValuesAt(variables, scalar, x, y) ==
    IF scalar THEN <<Value(variables[x])>>
    ELSE <<Value(variables[x]), Value(variables[y])>>

(* lazy groups read variables x and y through the mesh's reader; holds is  *)
(* what a group of a client was given, or a lazy one read when loaded.     *)
Group == [name : Names, scalar : BOOLEAN, file : Files, edit : BOOLEAN,
          steps : Nat, lazy : BOOLEAN, x : Nat, y : Nat,
          holds : Seq(Names \X Parts)]

ClientGroup(n, scalar, f) ==
    [name |-> n, scalar |-> scalar, file |-> f, edit |-> TRUE, steps |-> 0,
     lazy |-> FALSE, x |-> 0, y |-> 0,
     holds |-> IF scalar THEN <<<<n, "s">>>> ELSE <<<<n, "x">>, <<n, "y">>>>]

LoadedGroup(view, f, n, scalar) ==
    LET x == LastComponent(view.variables, n, {"s", "x"})
        y == LastComponent(view.variables, n, {"y"})
    IN  [name |-> n, scalar |-> scalar, file |-> f, edit |-> FALSE,
         steps |-> view.steps, lazy |-> TRUE, x |-> x, y |-> y,
         holds |-> ValuesAt(view.variables, scalar, x, y)]

IsFirst(variables, i) ==
    \A j \in 1..(i - 1) : NameRead(variables[j]) # NameRead(variables[i])

(* The places of the first variables of their names, in order.             *)
FirstsUpTo(variables) ==
    LET firsts[k \in 0..Len(variables)] ==
            IF k = 0 THEN <<>>
            ELSE IF IsFirst(variables, k) THEN Append(firsts[k - 1], k) ELSE firsts[k - 1]
    IN  firsts

LoadedGroups(view, f) ==
    LET firsts == FirstsUpTo(view.variables)[Len(view.variables)]
    IN  [k \in DOMAIN firsts |->
            LoadedGroup(view, f, NameRead(view.variables[firsts[k]]),
                        PartRead(view.variables[firsts[k]]) = "s")]

-----------------------------------------------------------------------------
(* SelafinFile::addDatasetGroup: the variables of the group come last in   *)
(* the header and in every time step; the first group brings the steps.    *)
NewVariables(g, v) ==
    [i \in DOMAIN g.holds |-> [name |-> g.holds[i][1], part |-> g.holds[i][2], size |-> v]]

(* Mutant: the time steps of the group are taken whatever the file has.    *)
StepsNotCompared(c, g) == TRUE

StepsFit(c, g) == c.variables # <<>> => g.steps = StepsFound(c)

(* Mutants: the new variables are written before those there are; the last *)
(* of those there are is left out.                                         *)
ExtendedInFront(c, g, v) ==
    [c EXCEPT !.variables = NewVariables(g, v) \o @, !.steps = g.steps]

ExtendedLessLast(c, g, v) ==
    [c EXCEPT !.variables = (IF @ = <<>> THEN @ ELSE Front(@)) \o NewVariables(g, v),
              !.steps = g.steps]

(* v: the vertices of the mesh of the group, which nothing compares with   *)
(* those of the file.                                                      *)
Extended(c, g, v) ==
    [c EXCEPT !.variables = @ \o NewVariables(g, IF g.steps = 0 THEN c.vertices ELSE v),
              !.steps = g.steps]

(* What a full disk leaves of it.  The streams are not looked at.          *)
DiskFull(c) ==
    {[c EXCEPT !.steps = n, !.lost = TRUE] : n \in 0..(c.steps - 1)}
    \cup {[c EXCEPT !.steps = 0, !.lost = TRUE, !.frame = frame] : frame \in {"cut", "short"}}

WrittenOf(c) == {c} \cup (IF "disk full" \in Faults THEN DiskFull(c) ELSE {})

-----------------------------------------------------------------------------
NoMesh == [kind |-> "none", vertices |-> 0, file |-> CHOOSE f \in Files : TRUE]
MemoryMesh(v) == [NoMesh EXCEPT !.kind = "memory", !.vertices = v]
LazyMesh(f) == [NoMesh EXCEPT !.kind = "lazy", !.file = f]

NoSource == [parsed |-> FALSE, view |-> NoFile]
Reading(view) == [parsed |-> TRUE, view |-> view]

NoGroup == [ClientGroup(CHOOSE n \in Names : TRUE, TRUE, NoMesh.file) EXCEPT !.edit = FALSE]

Job(stage, f, g) == [stage |-> stage, file |-> f, group |-> g]
Idle == Job("idle", NoMesh.file, NoGroup)

Ready == alive /\ job.stage = "idle"

(* Every access to a lazy mesh goes through its reader, which parses the   *)
(* file first when closeSource told it to.                                 *)
SourceOK == mesh.kind = "lazy" /\ ~source.parsed => Readable(disk[mesh.file])

View == IF source.parsed \/ mesh.kind # "lazy" THEN source.view
        ELSE Parsed(disk[mesh.file])

Access == /\ SourceOK
          /\ source' = IF mesh.kind = "lazy" THEN Reading(View) ELSE source

MeshVertices == IF mesh.kind = "lazy" THEN View.vertices ELSE mesh.vertices

(* SelafinFile::vertices finds all the coordinates.                        *)
CoordinatesThere == mesh.kind = "lazy" => View.frame = "whole"

(* An exception nobody catches, a division by zero, a signal.              *)
ProcessEnds ==
    /\ alive' = FALSE
    /\ mesh' = NoMesh
    /\ source' = NoSource
    /\ groups' = <<>>
    /\ job' = Idle
    /\ status' = "None"
    /\ UNCHANGED promised

Put(files, f, c) == [files EXCEPT ![f] = c]

-----------------------------------------------------------------------------
(* MDAL_CreateMesh and the calls that fill the mesh.                       *)
CreateMesh(v) ==
    /\ Ready /\ mesh.kind = "none"
    /\ mesh' = MemoryMesh(v)
    /\ status' = "None"
    /\ UNCHANGED <<alive, source, groups, disk, temp, job, promised>>

(* Mutant: the reader is not closed with the mesh.                         *)
CloseMeshKeepingReader ==
    /\ Ready /\ mesh.kind # "none"
    /\ mesh' = NoMesh /\ groups' = <<>>
    /\ UNCHANGED <<alive, source, disk, temp, job, status, promised>>

CloseMesh ==
    /\ Ready /\ mesh.kind # "none"
    /\ mesh' = NoMesh /\ source' = NoSource /\ groups' = <<>>
    /\ UNCHANGED <<alive, disk, temp, job, status, promised>>

(* MDAL_LoadMesh: DriverSelafin::load of a file that canReadMesh accepts.  *)
LoadMesh(f) ==
    /\ Ready /\ mesh.kind = "none"
    /\ Readable(disk[f]) /\ ~DividesByZero(disk[f])
    /\ mesh' = LazyMesh(f)
    /\ source' = Reading(Parsed(disk[f]))
    /\ groups' = LoadedGroups(Parsed(disk[f]), f)
    /\ status' = "None"
    /\ UNCHANGED <<alive, disk, temp, job, promised>>

LoadMeshFails(f) ==
    /\ Ready /\ mesh.kind = "none"
    /\ ~Readable(disk[f]) /\ ~DividesByZero(disk[f])
    /\ status' = IF disk[f] = NoFile THEN "Err_FileNotFound" ELSE "Err_UnknownFormat"
    /\ UNCHANGED <<alive, mesh, source, groups, disk, temp, job, promised>>

LoadMeshDies(f) ==
    /\ Ready /\ mesh.kind = "none"
    /\ DividesByZero(disk[f])
    /\ ProcessEnds
    /\ UNCHANGED <<disk, temp>>

-----------------------------------------------------------------------------
(* MDAL_M_addDatasetGroup with this driver: groups on vertices.            *)
AddDatasetGroup(n, scalar, f) ==
    /\ Ready /\ mesh.kind # "none" /\ Len(groups) < MaxGroups
    /\ groups' = Append(groups, ClientGroup(n, scalar, f))
    /\ UNCHANGED <<alive, mesh, source, disk, temp, job, status, promised>>

AddDataset(i) ==
    /\ Ready /\ groups[i].edit /\ groups[i].steps < MaxSteps
    /\ Access
    /\ groups' = [groups EXCEPT ![i].steps = @ + 1]
    /\ UNCHANGED <<alive, mesh, disk, temp, job, status, promised>>

(* DatasetSelafin::scalarData and vectorData: MDAL_D_data on a lazy group. *)
ValuesThere(i) == View.steps >= groups[i].steps

ReadDataset(i) ==
    /\ Ready /\ groups[i].lazy /\ groups[i].steps > 0
    /\ Access /\ ValuesThere(i)
    /\ UNCHANGED <<alive, mesh, groups, disk, temp, job, status, promised>>

(* What is read throws, and no function of the C API catches it: the file  *)
(* cannot be parsed again, or has lost time steps.  (A position of before  *)
(* that is still inside the file yields some value instead: no change.)    *)
AccessDies ==
    /\ Ready
    /\ \/ ~SourceOK
       \/ \E i \in DOMAIN groups : groups[i].lazy /\ ~ValuesThere(i)
    /\ ProcessEnds
    /\ UNCHANGED <<disk, temp>>

-----------------------------------------------------------------------------
(* MDAL_SaveMesh.  Nothing looks at the stream: a file that cannot be      *)
(* opened is reported as saved.                                            *)
SaveMesh(f) ==
    /\ Ready /\ mesh.kind # "none" /\ CoordinatesThere
    /\ mesh.kind = "lazy" => mesh.file # f
    /\ Access
    /\ disk' = Put(disk, f, Stub("cut", 0, FALSE))
    /\ promised' = [promised EXCEPT ![f] = {}]
    /\ temp' = Put(temp, f, NoFile)
    /\ job' = Job("saving", f, NoGroup)
    /\ status' = "None"
    /\ UNCHANGED <<alive, mesh, groups>>

SaveMeshUnopened ==
    /\ "no open" \in Faults
    /\ Ready /\ mesh.kind # "none" /\ CoordinatesThere
    /\ Access
    /\ status' = "None"
    /\ UNCHANGED <<alive, mesh, groups, disk, temp, job, promised>>

MeshSaved ==
    /\ alive /\ job.stage = "saving"
    /\ \E c \in WrittenOf(MeshOnly(MeshVertices)) : disk' = Put(disk, job.file, c)
    /\ job' = Idle
    /\ UNCHANGED <<alive, mesh, source, groups, temp, status, promised>>

(* The file it is read from is truncated before it is read; or there are   *)
(* no coordinates to read.                                                 *)
SaveMeshDies(f) ==
    /\ Ready /\ mesh.kind = "lazy"
    /\ mesh.file = f \/ ~SourceOK \/ ~CoordinatesThere
    /\ disk' = Put(disk, f, Stub("cut", 0, FALSE))
    /\ alive' = FALSE
    /\ mesh' = NoMesh /\ source' = NoSource /\ groups' = <<>> /\ job' = Idle
    /\ status' = "None"
    /\ promised' = [promised EXCEPT ![f] = {}]
    /\ temp' = Put(temp, f, NoFile)

-----------------------------------------------------------------------------
(* MDAL_G_closeEditMode, then DriverSelafin::persist.                      *)
CloseEditMode(i) ==
    /\ Ready /\ groups[i].edit
    /\ Len(disk[groups[i].file].variables) + Len(groups[i].holds) <= MaxVariables
    /\ groups' = RemoveAt(groups, i)
    /\ UNCHANGED <<alive, mesh, source>>

PersistStarts(i) ==
    /\ CloseEditMode(i)
    /\ status' = "None"
    /\ LET f == groups[i].file
       IN  IF disk[f] = NoFile
           THEN /\ disk' = Put(disk, f, Stub("cut", 0, FALSE))
                /\ promised' = [promised EXCEPT ![f] = {}]
                /\ temp' = Put(temp, f, NoFile)
                /\ job' = Job("creating", f, groups[i])
           ELSE /\ UNCHANGED <<disk, temp, promised>>
                /\ job' = Job("adding", f, groups[i])

(* DriverSelafin::save did not leave a file.                               *)
PersistUnopened(i) ==
    /\ "no open" \in Faults
    /\ disk[groups[i].file] = NoFile
    /\ CloseEditMode(i)
    /\ status' = "Err_InvalidData"
    /\ UNCHANGED <<disk, temp, job, promised>>

PersistFails ==
    /\ job' = Idle
    /\ status' = "Err_InvalidData"
    /\ UNCHANGED <<alive, mesh, groups>>

(* saveDatasetGroupOnFile makes a file with the group's mesh first; the    *)
(* mesh may be one it cannot read any more.                                *)
MeshFileCreated ==
    /\ alive /\ job.stage = "creating"
    /\ Access /\ CoordinatesThere
    /\ \E c \in WrittenOf(MeshOnly(MeshVertices)) : disk' = Put(disk, job.file, c)
    /\ job' = [job EXCEPT !.stage = "adding"]
    /\ UNCHANGED <<alive, mesh, groups, temp, status, promised>>

MeshFileNotCreated ==
    /\ alive /\ job.stage = "creating"
    /\ ~SourceOK \/ ~CoordinatesThere
    /\ PersistFails
    /\ UNCHANGED <<source, disk, temp, promised>>

(* The file is parsed and the temporary one written, for which each        *)
(* dataset asks its mesh how many values it has; then the reader of the    *)
(* mesh is closed.                                                         *)
SizesKnown(g) == g.steps > 0 => SourceOK

GroupAdded ==
    LET c == disk[job.file]
        g == job.group
    IN  /\ alive /\ job.stage = "adding"
        /\ Readable(c) /\ ~DividesByZero(c) /\ StepsFit(c, g) /\ SizesKnown(g)
        /\ \E w \in WrittenOf(Extended(Parsed(c), g, MeshVertices)) :
               temp' = Put(temp, job.file, w)
        /\ source' = NoSource
        /\ job' = [job EXCEPT !.stage = "written"]
        /\ UNCHANGED <<alive, mesh, groups, disk, status, promised>>

(* A file that cannot be parsed, or a temporary one that cannot be opened  *)
(* or finished.                                                            *)
GroupRefused ==
    LET c == disk[job.file]
    IN  /\ alive /\ job.stage = "adding"
        /\ ~DividesByZero(c)
        /\ ~Readable(c) \/ "no open" \in Faults \/ ~SizesKnown(job.group)
        /\ PersistFails
        /\ UNCHANGED <<source, disk, temp, promised>>

(* Other time steps than the file's: noticed with the temporary file open. *)
StepsRefused ==
    LET c == disk[job.file]
    IN  /\ alive /\ job.stage = "adding"
        /\ Readable(c) /\ ~DividesByZero(c) /\ ~StepsFit(c, job.group)
        /\ PersistFails
        /\ UNCHANGED <<source, disk, temp, promised>>

AddDies ==
    /\ alive /\ job.stage = "adding"
    /\ DividesByZero(disk[job.file])
    /\ ProcessEnds
    /\ UNCHANGED <<disk, temp>>

-----------------------------------------------------------------------------
(* The temporary file takes the place of the file.                         *)
FileDeleted ==
    /\ alive /\ job.stage = "written"
    /\ disk' = Put(disk, job.file, NoFile)
    /\ job' = [job EXCEPT !.stage = "deleted"]
    /\ UNCHANGED <<alive, mesh, source, groups, temp, status, promised>>

DeleteFails ==
    /\ "no delete" \in Faults
    /\ alive /\ job.stage = "written"
    /\ temp' = Put(temp, job.file, NoFile)
    /\ PersistFails
    /\ UNCHANGED <<source, disk, promised>>

(* renameFile, and the last parseFile, which has the last word: persist    *)
(* reports what it throws.                                                 *)
Promise(g) == [name |-> g.name, scalar |-> g.scalar, steps |-> g.steps, holds |-> g.holds]

TempRenamed ==
    LET f == job.file
    IN  /\ alive /\ job.stage = "deleted"
        /\ disk' = Put(disk, f, temp[f])
        /\ temp' = Put(temp, f, NoFile)
        /\ \/ /\ Readable(temp[f])
              /\ promised' = [promised EXCEPT ![f] = @ \cup {Promise(job.group)}]
              /\ job' = Idle /\ status' = "None"
              /\ UNCHANGED <<alive, mesh, groups>>
           \/ ~Readable(temp[f]) /\ PersistFails /\ UNCHANGED promised
        /\ UNCHANGED source

(* The temporary file is removed as well: nothing is left.                 *)
RenameFails ==
    /\ "no rename" \in Faults
    /\ alive /\ job.stage = "deleted"
    /\ temp' = Put(temp, job.file, NoFile)
    /\ promised' = [promised EXCEPT ![job.file] = {}]
    /\ PersistFails
    /\ UNCHANGED <<source, disk>>

-----------------------------------------------------------------------------
(* The process is killed.  What it was writing is left as the streams have *)
(* written it out by then.                                                 *)
LeftOf(c) == IF c.frame = "cut" THEN {c, [c EXCEPT !.frame = "short",
                                                   !.vertices = MeshVertices]}
             ELSE {c}

Killed ==
    /\ "killed" \in Faults
    /\ alive
    /\ IF job.stage \in {"saving", "creating"}
       THEN \E c \in LeftOf(disk[job.file]) : disk' = Put(disk, job.file, c)
       ELSE UNCHANGED disk
    /\ temp' = IF job.stage = "written" THEN Put(temp, job.file, NoFile) ELSE temp
    /\ ProcessEnds

Restart ==
    /\ ~alive
    /\ alive' = TRUE
    /\ UNCHANGED <<mesh, source, groups, disk, temp, job, status, promised>>

-----------------------------------------------------------------------------
SelafinInit ==
    /\ alive = TRUE
    /\ mesh = NoMesh /\ source = NoSource /\ groups = <<>>
    /\ disk = [f \in Files |-> NoFile]
    /\ temp = [f \in Files |-> NoFile]
    /\ job = Idle
    /\ status = "None"
    /\ promised = [f \in Files |-> {}]

MeshCalls ==
    \/ \E v \in VertexChoices : CreateMesh(v)
    \/ CloseMesh
    \/ \E f \in Files : LoadMesh(f) \/ LoadMeshFails(f) \/ LoadMeshDies(f)
    \/ \E f \in Files : SaveMesh(f) \/ SaveMeshDies(f)
    \/ SaveMeshUnopened \/ MeshSaved

GroupCalls ==
    \/ \E n \in ClientNames, scalar \in BOOLEAN, f \in Files : AddDatasetGroup(n, scalar, f)
    \/ \E i \in DOMAIN groups :
          \/ AddDataset(i) \/ ReadDataset(i)
          \/ PersistStarts(i) \/ PersistUnopened(i)
    \/ AccessDies

PersistSteps ==
    \/ MeshFileCreated \/ MeshFileNotCreated
    \/ GroupAdded \/ GroupRefused \/ StepsRefused \/ AddDies
    \/ FileDeleted \/ DeleteFails
    \/ TempRenamed \/ RenameFails

SelafinNext == MeshCalls \/ GroupCalls \/ PersistSteps \/ Killed \/ Restart

SelafinSpec == SelafinInit /\ [][SelafinNext]_vars

-----------------------------------------------------------------------------
Stages == {"idle", "saving", "creating", "adding", "written", "deleted"}

(* Every variable has its type, and a process that ended left nothing in   *)
(* memory.                                                                 *)
SelafinTypeOK ==
    /\ alive \in BOOLEAN
    /\ mesh \in [kind : {"none", "memory", "lazy"}, vertices : Nat, file : Files]
    /\ source \in [parsed : BOOLEAN, view : Content]
    /\ groups \in Seq(Group)
    /\ disk \in [Files -> Content] /\ temp \in [Files -> Content]
    /\ job \in [stage : Stages, file : Files, group : Group]
    /\ job.stage = "idle" => job = Idle
    /\ status \in {"None", "Err_FileNotFound", "Err_UnknownFormat", "Err_InvalidData"}
    /\ promised \in [Files -> SUBSET [name : Names, scalar : BOOLEAN, steps : Nat,
                                      holds : Seq(Names \X Parts)]]
    /\ ~alive \/ mesh.kind = "none" =>
          groups = <<>> /\ source = NoSource /\ job = Idle

(* The groups of a loaded mesh go on reading the values they had when the  *)
(* mesh was loaded, through all that is added to the file meanwhile: the   *)
(* indices DatasetSelafin keeps stay right when the reader parses the new  *)
(* file (mdal_selafin.cpp:389-398, 1254-1290).  A full disk or a failed    *)
(* rename loses the file itself; after the latter nothing makes it whole   *)
(* again while the mesh is open.                                           *)
ReadsTheSame(g) ==
    /\ SourceOK
    /\ View.steps >= g.steps
    /\ ValuesAt(View.variables, g.scalar, g.x, g.y) = g.holds

LazyReadsItsData ==
    /\ Ready /\ mesh.kind = "lazy"
    /\ disk[mesh.file].frame = "whole" /\ ~disk[mesh.file].lost
    => \A i \in DOMAIN groups :
            groups[i].lazy /\ groups[i].steps > 0 => ReadsTheSame(groups[i])

-----------------------------------------------------------------------------
(* A file gives back a group p: a load of it finds the group, of its kind, *)
(* with its time steps and its values.                                     *)
NameOf(p) == ReadAs[p.holds[1]][1]

GivesBack(c, f, p) ==
    /\ Readable(c)
    /\ LET loaded == LoadedGroups(Parsed(c), f)
       IN  \E i \in DOMAIN loaded :
              /\ loaded[i].name = NameOf(p)
              /\ loaded[i].scalar = p.scalar
              /\ loaded[i].steps = p.steps
              /\ loaded[i].holds = p.holds

(* The driver reads the variables of p as what they are, and no more       *)
(* variables of the file under the same name.                              *)
ReadUnder(c, n) == {i \in DOMAIN c.variables : NameRead(c.variables[i]) = n}

NamedApart(c, p) ==
    /\ \A k \in DOMAIN p.holds : ReadAs[p.holds[k]] = <<NameOf(p), p.holds[k][2]>>
    /\ Cardinality(ReadUnder(c, NameOf(p))) <= Cardinality(Range(p.holds))

(* A file on an undisturbed medium, made by a call that was not killed,    *)
(* with values for as many vertices as it has.                             *)
Undisturbed(c) == ~c.lost /\ c.frame # "short" /\ SizesAgree(c)

(* Where the data of a file are, between the delete and the rename as well *)
(* as before and after.                                                    *)
Kept(f) == IF disk[f] = NoFile THEN temp[f] ELSE disk[f]

(* A group that a close reported as persisted can be loaded from then on,  *)
(* from the file or, when the process was killed before the rename, from   *)
(* file.tmp (mdal_selafin.cpp:1286-1297), until something else is written  *)
(* under the name of the file.                                             *)
PersistedStays ==
    \A f \in Files : \A p \in promised[f] :
        Undisturbed(Kept(f)) /\ NamedApart(Kept(f), p) => GivesBack(Kept(f), f, p)

(* Every group a load of file f gives can be loaded from file.tmp.         *)
TempGivesBack(f) ==
    LET loaded == LoadedGroups(Parsed(disk[f]), f)
    IN  \A i \in DOMAIN loaded :
            NamedApart(temp[f], loaded[i]) => GivesBack(temp[f], f, loaded[i])

(* When the file is about to be replaced, file.tmp gives back every group  *)
(* the file does (mdal_selafin.cpp:1135-1284).                             *)
TempSupersedes ==
    alive /\ job.stage = "written" /\ Undisturbed(temp[job.file]) =>
        TempGivesBack(job.file)
=============================================================================
