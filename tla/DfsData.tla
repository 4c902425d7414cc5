------------------------------ MODULE DfsData ------------------------------
(***************************************************************************)
(* The values of a mesh of the DHI dfsu plugin as MDAL hands them out.     *)
(* The plugin reads the values of a dataset from the file when they are    *)
(* asked for, and the levels of a time step once for all the datasets of   *)
(* that step (LevelValuesGenerator).  MDAL asks for everything once, for   *)
(* the statistics, and unloads each dataset, which unloads the levels of   *)
(* its step too; later calls read again.  Any read of the file may fail.   *)
(***************************************************************************)
EXTENDS Integers, Sequences, FiniteSets

CONSTANTS
    Files,      \* the files: see FileOK
    Prebuilt,   \* the steps whose levels the plugin reads when it opens (9 in the code)
    Requests,   \* the pairs <<indexStart, count>> the client asks for
    Faults      \* the reads that may fail: a subset of {"values", "levels"}

(* A file on volumes has layers[f] elements over face f, from the bottom   *)
(* up, and at step t the lowest levels[t][f] of its layers[f] + 1 levels   *)
(* have a height: one at least, the code counts -1 volumes over a face     *)
(* with none.  A file on faces has one element on each, dry[t] of them     *)
(* without a value.  groups says of each group whether it is a vector.     *)
FileOK(f) ==
    /\ f.volumes \in BOOLEAN
    /\ f.layers \in Seq(Nat \ {0})
    /\ f.groups \in Seq(BOOLEAN)
    /\ DOMAIN f.levels = DOMAIN f.dry
    /\ \A t \in DOMAIN f.levels :
          /\ DOMAIN f.levels[t] = DOMAIN f.layers /\ f.dry[t] \subseteq DOMAIN f.layers
          /\ \A c \in DOMAIN f.layers : f.levels[t][c] \in 1..(f.layers[c] + 1)

ASSUME DfsDataAssumption ==
    /\ \A f \in Files : FileOK(f)
    /\ Prebuilt \in Nat /\ Requests \subseteq Nat \X Nat
    /\ Faults \subseteq {"values", "levels"}

VARIABLES
    file,      \* the file behind the mesh
    status,    \* "closed", "populating" or "open"
    built,     \* the steps whose level arrays are in memory
    counted,   \* [step -> mVolumeCountPerTimeStep]
    topLevel,  \* [step -> mMaximumeLevelCountPerTimeStep]
    data,      \* [dataset -> what the plugin holds of it]
    infos,     \* [dataset -> what MDAL noted of it], for those populated
    answer     \* the last answer to the client

levelData == <<built, counted, topLevel>>
vars == <<file, status, built, counted, topLevel, data, infos, answer>>

Steps == DOMAIN file.levels
Columns == DOMAIN file.layers
Datasets == (DOMAIN file.groups) \X Steps
StepOf(d) == d[2]
IsVector(d) == file.groups[d[1]]

(* The sums of the first 0, 1, ... of the sizes.                           *)
Sums(sizes) ==
    LET s[k \in 0..Len(sizes)] == IF k = 0 THEN 0 ELSE s[k - 1] + sizes[k]
    IN  s

(* mTotalElementCount, for a file on faces facesCount().                   *)
Elements == IF file.volumes THEN Sums(file.layers)[Len(file.layers)] ELSE Len(file.layers)

-----------------------------------------------------------------------------
(* LevelValuesGenerator::buildVolumeForTimeStep.                           *)
LevelCount(t, c) == file.levels[t][c] - 1

LevelCounts(t) == [c \in Columns |-> LevelCount(t, c)]

VolumesBefore(t, c) == Sums(LevelCounts(t))[c - 1]

Volumes(t) == VolumesBefore(t, Len(file.layers) + 1)

MaxLevels(t) ==
    CHOOSE n \in {0} \cup {file.levels[t][c] : c \in Columns} :
        \A c \in Columns : n >= file.levels[t][c]

(* What the three arrays hold, in the order of the faces.                  *)
LevelKinds == {"level counts", "face to volume", "levels"}

LevelArray(t, kind) ==
    CASE kind = "level counts"   -> LevelCounts(t)
      [] kind = "face to volume" -> [c \in Columns |-> VolumesBefore(t, c)]
      [] kind = "levels"         -> [k \in 1..(Volumes(t) + Len(file.layers)) |-> k]

(* Mutant of BuildLevels: volumeCount is not reset before it is counted.   *)
BuildLevelsOnTop(t, ok) ==
    IF t \in built \/ ok
    THEN /\ built' = built \cup {t}
         /\ counted' = [counted EXCEPT ![t] = @ + Volumes(t)]
         /\ topLevel' = [topLevel EXCEPT ![t] = MaxLevels(t)]
    ELSE UNCHANGED levelData

(* The level arrays of step t once a call that needs them has been made.   *)
(* All its reads of the levels fail, or none.                              *)
BuildLevels(t, ok) ==
    IF t \in built \/ ok
    THEN /\ built' = built \cup {t}
         /\ counted' = [counted EXCEPT ![t] = Volumes(t)]
         /\ topLevel' = [topLevel EXCEPT ![t] = MaxLevels(t)]
    ELSE UNCHANGED levelData

(* Mutant of LevelsKnown: unloaded levels are not read again for values.   *)
LevelsInMemory(t, ok) == t \in built

LevelsKnown(t, ok) == t \in built \/ ok

-----------------------------------------------------------------------------
(* The values of element 0, 1, ... are its number, -1 is NaN.              *)
NothingLoaded == [loaded |-> FALSE, values |-> <<>>, active |-> <<>>]

(* reverseAndActiveData, in the order of the volumes: without levels the   *)
(* loop over the faces is empty.                                           *)
ColumnOf(t, k) ==
    CHOOSE c \in Columns : VolumesBefore(t, c) <= k /\ k < VolumesBefore(t, c) + LevelCount(t, c)

Reversed(t, k) ==
    LET c == ColumnOf(t, k)
    IN  VolumesBefore(t, c) + LevelCount(t, c) - 1 - (k - VolumesBefore(t, c))

(* ScalarDatasetOnVolumes cuts its values to the volumes there are,        *)
(* VectorDatasetOnVolumes keeps all that the file has.                     *)
ValueCount(d) == IF IsVector(d) THEN Elements ELSE counted[StepOf(d)]

OnVolumes(d, known) ==
    [k \in 1..ValueCount(d) |->
        IF known /\ k <= Volumes(StepOf(d)) THEN Reversed(StepOf(d), k - 1) ELSE k - 1]

OnFaces(d) ==
    [k \in 1..Elements |-> IF k \in file.dry[StepOf(d)] THEN -1 ELSE k - 1]

(* Mutant of DataAfterRead: the file is read whether or not mLoaded.       *)
DataReadAgain(d, known, ok) ==
    IF ~ok THEN [NothingLoaded EXCEPT !.active = [k \in Columns |-> 0]]
    ELSE IF file.volumes
    THEN [loaded |-> TRUE, values |-> OnVolumes(d, known), active |-> <<>>]
    ELSE [loaded |-> TRUE, values |-> OnFaces(d),
          active |-> [k \in Columns |-> IF k \in file.dry[StepOf(d)] THEN 0 ELSE 1]]

(* getData while mLoaded is false: when a read fails nothing is loaded,    *)
(* but the flags have been made, all 0.                                    *)
DataAfterRead(d, known, ok) ==
    IF data[d].loaded THEN data[d]
    ELSE IF ~ok THEN [NothingLoaded EXCEPT !.active = [k \in Columns |-> 0]]
    ELSE IF file.volumes
    THEN [loaded |-> TRUE, values |-> OnVolumes(d, known), active |-> <<>>]
    ELSE [loaded |-> TRUE, values |-> OnFaces(d),
          active |-> [k \in Columns |-> IF k \in file.dry[StepOf(d)] THEN 0 ELSE 1]]

(* Whether the reads of a call succeed.                                    *)
Outcomes(fault) == IF fault \in Faults THEN BOOLEAN ELSE {TRUE}

-----------------------------------------------------------------------------
NoAnswer == [kind |-> "none", dataset |-> <<1, 1>>, start |-> 0, count |-> 0, values |-> <<>>]

(* effectiveCount: what there is of what was asked for.                    *)
Effective(r, size) ==
    Cardinality({k \in 1..r[2] : r[1] + k <= size})

Answer(kind, d, r, s) ==
    [kind |-> kind, dataset |-> d, start |-> r[1], count |-> r[2],
     values |-> [k \in 1..Effective(r, Len(s)) |-> s[r[1] + k]]]

Noted(volumes, topLevels, statistics) ==
    [volumes |-> volumes, maxLevels |-> topLevels, statistics |-> statistics]

(* MDAL_DRIVER_openMesh: MeshDfsu::loadMesh reads the frame, then          *)
(* Mesh::populateDatasetGroups lists the groups and counts the volumes of  *)
(* the first steps; the reads of the steps in failed fail.                 *)
OpenMesh(failed) ==
    LET read == {t \in Steps : file.volumes /\ t <= Prebuilt} \ failed IN
    /\ status = "closed"
    /\ status' = "populating"
    /\ built' = read
    /\ counted' = [t \in Steps |-> IF t \in read THEN Volumes(t) ELSE 0]
    /\ topLevel' = [t \in Steps |-> IF t \in read THEN MaxLevels(t) ELSE -1]
    /\ data' = [d \in Datasets |-> NothingLoaded]
    /\ UNCHANGED <<file, infos, answer>>

(* The dataset MeshDynamicDriver::populateDatasetGroups comes to next.     *)
NextDataset(d) ==
    /\ d \in Datasets \ DOMAIN infos
    /\ \A e \in Datasets \ DOMAIN infos :
          d[1] < e[1] \/ (d[1] = e[1] /\ d[2] <= e[2])

Note(d, info) == [e \in DOMAIN infos \cup {d} |-> IF e = d THEN info ELSE infos[e]]

(* On volumes: D_maximumVerticalLevelCount, D_volumeCount, the statistics, *)
(* which read the values there are, and D_unload, which drops the levels   *)
(* of the step with them.                                                  *)
PopulateOnVolumes(d, levelsOk, valuesOk) ==
    LET t == StepOf(d)
        known == topLevel[t] # -1 \/ LevelsKnown(t, levelsOk)
        volumes == IF known THEN Volumes(t) ELSE 0
    IN
    /\ file.volumes
    /\ infos' = Note(d, Noted(volumes, IF known THEN MaxLevels(t) ELSE -1,
                              volumes > 0 /\ valuesOk))
    /\ counted' = [counted EXCEPT ![t] = volumes]
    /\ topLevel' = [topLevel EXCEPT ![t] = IF known THEN MaxLevels(t) ELSE -1]
    /\ built' = built \ {t}
    /\ data' = [data EXCEPT ![d] = NothingLoaded]

PopulateOnFaces(d, valuesOk) ==
    /\ ~file.volumes
    /\ infos' = Note(d, Noted(0, 0, valuesOk))
    /\ data' = [data EXCEPT ![d] = NothingLoaded]
    /\ UNCHANGED levelData

PopulateDataset(d) ==
    /\ status = "populating" /\ NextDataset(d)
    /\ \E levelsOk \in Outcomes("levels"), valuesOk \in Outcomes("values") :
          \/ PopulateOnVolumes(d, levelsOk, valuesOk)
          \/ PopulateOnFaces(d, valuesOk)
    /\ UNCHANGED <<file, status, answer>>

Populated ==
    /\ status = "populating" /\ DOMAIN infos = Datasets
    /\ status' = "open"
    /\ UNCHANGED <<file, built, counted, topLevel, data, infos, answer>>

-----------------------------------------------------------------------------
(* Mutant of Limit: scalars too are accepted up to twice their number.     *)
LimitOfComponents(d, kind) ==
    CASE kind = "values" /\ file.volumes -> 2 * infos[d].volumes
      [] kind = "levels" -> Len(file.layers) + infos[d].volumes
      [] OTHER -> Len(file.layers)

(* MDAL_D_data accepts what lies within the values it knows of.            *)
Limit(d, kind) ==
    CASE kind = "values" /\ file.volumes ->
            IF IsVector(d) THEN 2 * infos[d].volumes ELSE infos[d].volumes
      [] kind = "levels" -> Len(file.layers) + infos[d].volumes
      [] OTHER -> Len(file.layers)

Accepted(d, kind, r) == r[1] < Limit(d, kind) /\ r[1] + r[2] <= Limit(d, kind)

(* SCALAR_DOUBLE, VECTOR_2D_DOUBLE and the same on volumes: D_data.        *)
ReadValues(d, r, levelsOk, valuesOk) ==
    /\ status = "open" /\ Accepted(d, "values", r)
    /\ IF file.volumes /\ ~data[d].loaded THEN BuildLevels(StepOf(d), levelsOk)
       ELSE UNCHANGED levelData
    /\ data' = [data EXCEPT ![d] =
                  DataAfterRead(d, LevelsKnown(StepOf(d), levelsOk), valuesOk)]
    /\ answer' = Answer("values", d, r, data'[d].values)
    /\ UNCHANGED <<file, status, infos>>

(* ACTIVE_INTEGER: D_activeFlags loads the values first.                   *)
ReadFlags(d, r, valuesOk) ==
    /\ status = "open" /\ ~file.volumes /\ Accepted(d, "flags", r)
    /\ data' = [data EXCEPT ![d] = DataAfterRead(d, FALSE, valuesOk)]
    /\ answer' = Answer("flags", d, r, data'[d].active)
    /\ UNCHANGED <<file, status, built, counted, topLevel, infos>>

(* VERTICAL_LEVEL_COUNT_INTEGER, VERTICAL_LEVEL_DOUBLE and                 *)
(* FACE_INDEX_TO_VOLUME_INDEX_INTEGER.                                     *)
ReadLevels(d, kind, r, levelsOk) ==
    LET t == StepOf(d) IN
    /\ status = "open" /\ file.volumes /\ Accepted(d, kind, r)
    /\ BuildLevels(t, levelsOk)
    /\ answer' = Answer(kind, d, r, IF t \in built' THEN LevelArray(t, kind) ELSE <<>>)
    /\ UNCHANGED <<file, status, data, infos>>

-----------------------------------------------------------------------------
DfsInit ==
    /\ file \in Files
    /\ status = "closed"
    /\ built = {} /\ counted = <<>> /\ topLevel = <<>>
    /\ data = <<>> /\ infos = <<>> /\ answer = NoAnswer

DfsNext ==
    \/ \E failed \in SUBSET (IF "levels" \in Faults THEN Steps ELSE {}) : OpenMesh(failed)
    \/ \E d \in Datasets : PopulateDataset(d)
    \/ Populated
    \/ \E d \in Datasets, r \in Requests, levelsOk \in Outcomes("levels") :
          \/ \E valuesOk \in Outcomes("values") :
                ReadValues(d, r, levelsOk, valuesOk) \/ ReadFlags(d, r, valuesOk)
          \/ \E kind \in LevelKinds :
                ReadLevels(d, kind, r, levelsOk)

DfsSpec == DfsInit /\ [][DfsNext]_vars

-----------------------------------------------------------------------------
(* Type correctness; the level arrays in memory come with their counts.    *)
DfsTypeOK ==
    /\ file \in Files /\ status \in {"closed", "populating", "open"}
    /\ status # "closed" =>
          /\ built \subseteq Steps
          /\ counted \in [Steps -> Int] /\ topLevel \in [Steps -> Int]
          /\ \A t \in built : counted[t] = Volumes(t) /\ topLevel[t] = MaxLevels(t)
          /\ DOMAIN data = Datasets /\ DOMAIN infos \subseteq Datasets
          /\ \A d \in Datasets : ~data[d].loaded => data[d].values = <<>>

(* The element over face c that is the j-th from the top (from 0) at t.    *)
FromTop(t, c, j) == Sums(file.layers)[c - 1] + LevelCount(t, c) - 1 - j

(* The file has a value for every element, also for those without height:  *)
(* only where none of them comes before does the code find the next ones.  *)
FullBefore(t, c) == \A b \in 1..(c - 1) : LevelCount(t, b) = file.layers[b]

(* mdal_dhi_dfs.hpp: "MDAL need to have level data from top to bottom".    *)
(* The values on volumes a client gets are those of the elements over each *)
(* face, from the top down, whenever they were read and whichever dataset  *)
(* of the step took the levels with it, up to the first face that lacks a  *)
(* level.  (The values over the faces after it are not those of their      *)
(* elements: reverseAndActiveData looks for them among the volumes.)       *)
DataTopDown ==
    answer.kind = "values" /\ file.volumes =>
        LET t == StepOf(answer.dataset) IN
        \A k \in DOMAIN answer.values :
            LET v == answer.start + k - 1 IN
            v < Volumes(t) =>
                LET c == ColumnOf(t, v)
                IN  FullBefore(t, c) =>
                        answer.values[k] = FromTop(t, c, v - VolumesBefore(t, c))

(* What MDAL_D_data accepts, by the counts noted when the mesh was loaded, *)
(* the plugin fills from arrays it made later, or answers nothing when a   *)
(* read fails: never a part.  (The vectors on volumes are accepted up to   *)
(* twice their number; of those this is said of the first half.)           *)
AcceptedIsFilled ==
    /\ answer.values # <<>>
    /\ answer.kind = "values" /\ file.volumes /\ IsVector(answer.dataset) =>
          answer.start + answer.count <= infos[answer.dataset].volumes
    => Len(answer.values) = answer.count

(* Values in memory stay what they are while the mesh is open: a later     *)
(* read that fails, or one for another dataset of the step, loses nothing. *)
ValuesStay ==
    [][status = "open" => \A d \in Datasets : data[d].loaded => data'[d] = data[d]]_vars
=============================================================================
