---------------------------- MODULE DatasetFiles ----------------------------
(***************************************************************************)
(* Dataset groups as values, and what the writers of BINARY_DAT, ASCII_DAT *)
(* and PLY make of them on disk.  Constant operators only; DatasetGroups   *)
(* turns them into actions.                                                *)
(*                                                                         *)
(* A dataset keeps the number of doubles it stores, the number of integers *)
(* it stores per face (active flags, or the level counts of a 3D dataset;  *)
(* NoFlags when it has none) and the set of its values that are not NaN.   *)
(***************************************************************************)
EXTENDS Drivers, Sequences, SequencesExt

CONSTANTS
    DataFiles,  \* names of dataset files
    ElsUris,    \* those with "_els" in them, in a directory's name, too
    ElsNames,   \* those with "_els" in the base name without the extension
    ElsName     \* the name DriverAsciiDat::persist makes of one without "_els"

ASSUME FilesAssumption ==
    /\ ElsNames \subseteq ElsUris /\ ElsUris \subseteq DataFiles
    /\ ElsName \in [DataFiles -> ElsUris]

-----------------------------------------------------------------------------
Counts == [vertices : Nat, faces : Nat, edges : Nat]

Elements(c) == c.faces + c.edges

NoFlags == -1

Dataset == [size : Nat, flags : Int, vals : SUBSET Int]

(* MDAL::Dataset::valuesCount for the data of one dataset, 2D locations.   *)
ValuesCount(loc, c) ==
    CASE loc = "Vertices" -> c.vertices
      [] loc = "Faces"    -> c.faces
      [] loc = "Edges"    -> c.edges
      [] loc = "Volumes"  -> 0

(* Vector datasets store two doubles per value.                            *)
Slots(scalar, n) == IF scalar THEN n ELSE 2 * n

(* Statistics: the least and the greatest value, nothing when all is NaN.  *)
Extremes(S) ==
    {x \in S : \A y \in S : x <= y} \cup {x \in S : \A y \in S : y <= x}

(* MDAL::calculateStatistics of a group combines those of its datasets.    *)
GroupStatistics(datasets) ==
    Extremes(UNION {Extremes(datasets[i].vals) : i \in DOMAIN datasets})

(* bed: the group is named "Bed Elevation".  file "mesh": the mesh's own.  *)
(* closed: what the last MDAL_G_closeEditMode on the group reported        *)
(* (history, not a variable of the program).                               *)
Group == [driver : DriverNames, loc : Locations, scalar : BOOLEAN,
          bed : BOOLEAN, file : DataFiles \cup {"mesh"}, edit : BOOLEAN,
          datasets : Seq(Dataset), stats : SUBSET Int, closed : Statuses \cup {"never"}]

(* The mesh a dataset group's data must fit: as many doubles as the mesh   *)
(* has elements at the group's location, as many flags as it has faces.    *)
FitsMesh(loc, scalar, d, c) ==
    /\ loc # "Volumes" => d.size = Slots(scalar, ValuesCount(loc, c))
    /\ d.flags \in {NoFlags, c.faces}
    /\ loc # "Vertices" /\ loc # "Volumes" => d.flags = NoFlags

-----------------------------------------------------------------------------
(* A dataset file: who wrote it, the mesh and the group it was written     *)
(* for, and the time steps that are there.  stage "empty": nothing a       *)
(* driver recognises; "header": some header cards; "steps": the header and *)
(* the whole time steps sets, cut inside the next one when torn; "whole":  *)
(* all of it.  lost is history: bytes were lost with the disk full.        *)
NoData == [by |-> "nobody"]

DataFile == [by : {"BINARY_DAT", "ASCII_DAT", "PLY"}, counts : Counts,
             loc : Locations, scalar : BOOLEAN, sets : Seq(Dataset),
             stage : {"empty", "header", "steps", "whole"},
             torn : BOOLEAN, lost : BOOLEAN]

Written(by, g, c, sets) ==
    [by |-> by, counts |-> c, loc |-> g.loc, scalar |-> g.scalar,
     sets |-> sets, stage |-> "whole", torn |-> FALSE, lost |-> FALSE]

(* What may be left of a file whose writing stopped anywhere before its    *)
(* end: the stream was opened, so nothing of an older file remains.        *)
CutAt(w, stage, n, torn, lost) ==
    [w EXCEPT !.stage = stage, !.sets = SubSeq(@, 1, n), !.torn = torn, !.lost = lost]

CutShort(w, lost) ==
    {CutAt(w, stage, 0, FALSE, lost) : stage \in {"empty", "header"}}
    \cup {CutAt(w, "steps", n, FALSE, lost) : n \in 0..Len(w.sets)}
    \cup {CutAt(w, "steps", n, TRUE, lost) : n \in 0..(Len(w.sets) - 1)}

-----------------------------------------------------------------------------
(* DriverBinaryDat::persist always writes status flags and reads them from *)
(* the dataset, whether it has any or not (MemoryDataset2D::active asserts *)
(* that it does).                                                          *)
BinaryReadsTooFar(d, c) == c.faces > 0 /\ d.flags < c.faces

(* DriverAsciiDat::persist reads one flag or one value per face and edge.  *)
AsciiReadsTooFar(g, d, c) ==
    IF g.loc = "Vertices" THEN d.flags \in 0..(Elements(c) - 1)
    ELSE d.size < Slots(g.scalar, Elements(c))

MixedMesh(c) == c.faces > 0 /\ c.edges > 0

(* It looks for "_els" in the whole uri, and inserts it four characters    *)
(* before the end, which may be in the extension: the new name has it, but *)
(* not always where the loader looks.                                      *)
AsciiFile(g) ==
    IF g.loc # "Vertices" /\ g.file \notin ElsUris THEN ElsName[g.file] ELSE g.file

(* DriverPly::save writes the first dataset of every group of the mesh; a  *)
(* group without one is read past its end as soon as the mesh has an       *)
(* element at its location.                                                *)
PlyCount(loc, c) == IF loc = "Volumes" THEN c.faces ELSE ValuesCount(loc, c)

PlySkips(g) == g.loc = "Volumes" /\ ~g.scalar

PlyLeavesOut(g) == g.bed /\ g.loc = "Vertices"

PlyReadsTooFar(gs, c) ==
    \E i \in DOMAIN gs :
        /\ ~PlySkips(gs[i]) /\ ~PlyLeavesOut(gs[i])
        /\ PlyCount(gs[i].loc, c) > 0
        /\ gs[i].datasets = <<>>

PlySets(g, c) ==
    IF PlyCount(g.loc, c) = 0 \/ g.datasets = <<>> THEN <<>> ELSE <<g.datasets[1]>>
=============================================================================
