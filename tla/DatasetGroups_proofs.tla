------------------------ MODULE DatasetGroups_proofs ------------------------
(***************************************************************************)
(* What DatasetGroups promises for every set of drivers, files, meshes,    *)
(* values and faults.  A group in memory fits the mesh because it was made *)
(* for it, or because its file was compared with it; a file is what was    *)
(* left of a group that fitted the mesh of then.  GroupsInv says both.     *)
(***************************************************************************)
EXTENDS DatasetGroups, SequenceTheorems, TLAPS

AllValuesOf(datasets) == UNION {datasets[j].vals : j \in DOMAIN datasets}

(* A group g of a mesh with the counts c.                                  *)
DatasetSound(loc, scalar, d, c) == FitsMesh(loc, scalar, d, c) /\ HasExtremes(d.vals)

GroupSound(g, c) ==
    /\ g \in Group
    /\ \A j \in DOMAIN g.datasets : DatasetSound(g.loc, g.scalar, g.datasets[j], c)
    /\ g.edit => g.file \in DataFiles /\ HasWriteDatasetCapability(g.driver, g.loc)
    /\ g.edit => g.closed = "never"
    /\ g.driver \in Dats => g.file \in DataFiles
    /\ ~g.edit => g.stats = Extremes(AllValuesOf(g.datasets))

GroupsSound(gs, c) == gs \in Seq(Group) /\ \A i \in DOMAIN gs : GroupSound(gs[i], c)

(* A file named f: where the drivers write what, and that an ASCII file of *)
(* elements that was written to its end has a value for each.              *)
PartSound(f, c) ==
    /\ c \in DataFile
    /\ \A j \in DOMAIN c.sets : DatasetSound(c.loc, c.scalar, c.sets[j], c.counts)
    /\ c.by = "BINARY_DAT" => c.loc = "Vertices"
    /\ c.by = "ASCII_DAT" => c.loc # "Volumes" /\ (f \notin ElsUris => c.loc = "Vertices")

FileSound(f, c) ==
    /\ PartSound(f, c)
    /\ c.stage = "whole" =>
          /\ ~c.torn
          /\ c.by = "ASCII_DAT" /\ c.loc # "Vertices" =>
                \A j \in DOMAIN c.sets : ~(c.sets[j].size < Slots(c.scalar, Elements(c.counts)))

DiskSound(disk) ==
    /\ disk \in [DataFiles -> {NoData} \cup DataFile]
    /\ \A f \in DataFiles : disk[f] # NoData => FileSound(f, disk[f])

GroupsInv ==
    /\ running \in BOOLEAN
    /\ counts \in CountChoices \cup {NoMesh}
    /\ GroupsSound(groups, counts)
    /\ DiskSound(dataDisk)
    /\ lastStatus \in Statuses
    /\ ~running => counts = NoMesh /\ groups = <<>>

-----------------------------------------------------------------------------
LEMMA CountsTyped ==
    ASSUME NEW c \in CountChoices \cup {NoMesh}
    PROVE  c \in Counts /\ c.vertices \in Nat /\ c.faces \in Nat /\ c.edges \in Nat
<1>1. c \in Counts
  <2>1. CountChoices \subseteq Counts
    BY GroupsAssumption
  <2>2. NoMesh \in Counts
    BY DEF NoMesh, Counts
  <2> QED
    BY <2>1, <2>2
<1> QED
  BY <1>1 DEF Counts

(* What the drivers of this build declare to write.                        *)
LEMMA DriversWrite ==
    /\ \A loc : ~HasWriteDatasetCapability("2DM", loc)
    /\ \A loc : HasWriteDatasetCapability("BINARY_DAT", loc) => loc = "Vertices"
    /\ \A loc : HasWriteDatasetCapability("ASCII_DAT", loc) => loc # "Volumes"
BY DEF HasWriteDatasetCapability, DriverTable, DriverNames, TwoDm, Ply, BinaryDat, AsciiDat,
       Driver, Locations, NoFaceLimit

(* The statistics of a group, combined from those of its datasets, are the *)
(* extremes of all of its values: each dataset's own extremes bound them.  *)
LEMMA StatisticsOfAll ==
    ASSUME NEW datasets \in Seq(Dataset),
           \A j \in DOMAIN datasets : HasExtremes(datasets[j].vals)
    PROVE  /\ GroupStatistics(datasets) = Extremes(AllValuesOf(datasets))
           /\ GroupStatistics(datasets) \in SUBSET Int
<1> DEFINE own == UNION {Extremes(datasets[j].vals) : j \in DOMAIN datasets}
           all == AllValuesOf(datasets)
<1>1. \A j \in DOMAIN datasets : datasets[j].vals \in SUBSET Int
  <2>1. \A j \in DOMAIN datasets : datasets[j] \in Dataset
    BY ElementOfSeq, LenProperties
  <2> QED
    BY <2>1 DEF Dataset
<1>2. own \subseteq all /\ all \subseteq Int
  BY <1>1 DEF Extremes, AllValuesOf
<1>3. ASSUME NEW y \in all
      PROVE  \E least, greatest \in own : least <= y /\ y <= greatest
  <2>1. PICK j \in DOMAIN datasets : y \in datasets[j].vals
    BY <1>3 DEF AllValuesOf
  <2>2. PICK least \in datasets[j].vals, greatest \in datasets[j].vals :
           \A x \in datasets[j].vals : least <= x /\ x <= greatest
    BY <2>1 DEF HasExtremes
  <2>3. least \in own /\ greatest \in own
    BY <2>2 DEF Extremes
  <2> QED
    BY <2>1, <2>2, <2>3
<1>4. ASSUME NEW x \in own, NEW z \in all
      PROVE  /\ (\A y \in own : x <= y) => x <= z
             /\ (\A y \in own : y <= x) => z <= x
  <2>1. PICK least \in own, greatest \in own : least <= z /\ z <= greatest
    BY <1>3
  <2>2. x \in Int /\ z \in Int /\ least \in Int /\ greatest \in Int
    BY <1>2
  <2> HIDE DEF own, all
  <2> QED
    BY <2>1, <2>2
<1>5. ASSUME NEW x \in all, (\A y \in all : x <= y) \/ (\A y \in all : y <= x)
      PROVE  x \in own
  <2>1. PICK j \in DOMAIN datasets : x \in datasets[j].vals
    BY <1>5 DEF AllValuesOf
  <2>2. datasets[j].vals \subseteq all
    BY DEF AllValuesOf
  <2>3. x \in Extremes(datasets[j].vals)
    BY <1>5, <2>1, <2>2 DEF Extremes
  <2> QED
    BY <2>3
<1>6. Extremes(own) = Extremes(all)
  BY <1>2, <1>4, <1>5 DEF Extremes
<1>7. GroupStatistics(datasets) = Extremes(own)
  BY DEF GroupStatistics
<1> QED
  BY <1>2, <1>6, <1>7 DEF Extremes

LEMMA StatisticsMade ==
    ASSUME NEW g \in Group, \A j \in DOMAIN g.datasets : HasExtremes(g.datasets[j].vals)
    PROVE  /\ GroupStatistics(g.datasets) = Extremes(AllValuesOf(g.datasets))
           /\ GroupStatistics(g.datasets) \in SUBSET Int
BY StatisticsOfAll DEF Group

-----------------------------------------------------------------------------
(* Groups that are appended, changed and removed.                          *)
LEMMA LastAppended ==
    ASSUME NEW S, NEW s \in Seq(S), NEW x, Append(s, x) \in Seq(S)
    PROVE  x \in S
<1>1. Len(s) \in Nat /\ Len(Append(s, x)) = Len(s) + 1 /\ Append(s, x)[Len(s) + 1] = x
  BY LenProperties
<1> QED
  BY <1>1, ElementOfSeq

LEMMA AppendSound ==
    ASSUME NEW c, NEW gs, GroupsSound(gs, c), NEW g, GroupSound(g, c)
    PROVE  GroupsSound(Append(gs, g), c)
<1>1. gs \in Seq(Group) /\ g \in Group
  BY DEF GroupsSound, GroupSound
<1>2. Append(gs, g) \in Seq(Group) /\ Len(Append(gs, g)) = Len(gs) + 1
  BY <1>1, AppendProperties
<1>3. ASSUME NEW i \in DOMAIN Append(gs, g) PROVE GroupSound(Append(gs, g)[i], c)
  <2>1. i \in 1..(Len(gs) + 1) /\ Len(gs) \in Nat
    BY <1>1, <1>2, LenProperties
  <2>2. CASE i = Len(gs) + 1
    BY <1>1, <2>2, AppendProperties
  <2>3. CASE i \in DOMAIN gs
    BY <1>1, <2>3, AppendProperties, LenProperties DEF GroupsSound
  <2> QED
    BY <1>1, <2>1, <2>2, <2>3, LenProperties
<1> QED
  BY <1>2, <1>3 DEF GroupsSound

LEMMA ChangeSound ==
    ASSUME NEW c, NEW gs, GroupsSound(gs, c), NEW i \in DOMAIN gs, NEW g, GroupSound(g, c)
    PROVE  GroupsSound([gs EXCEPT ![i] = g], c)
<1>1. gs \in Seq(Group) /\ g \in Group /\ i \in 1..Len(gs)
  BY LenProperties DEF GroupsSound, GroupSound
<1>2. [gs EXCEPT ![i] = g] \in Seq(Group)
  BY <1>1, ExceptSeq
<1> QED
  BY <1>2 DEF GroupsSound

LEMMA RemovedElements ==
    ASSUME NEW S, NEW s \in Seq(S), NEW i \in 1..Len(s)
    PROVE  /\ RemoveAt(s, i) \in Seq(S) /\ Len(RemoveAt(s, i)) = Len(s) - 1
           /\ \A j \in 1..(Len(s) - 1) :
                 RemoveAt(s, i)[j] = IF j < i THEN s[j] ELSE s[j + 1]
<1> DEFINE before == SubSeq(s, 1, i - 1)
           after  == SubSeq(s, i + 1, Len(s))
<1>1. Len(s) \in Nat /\ \A j \in 1..Len(s) : s[j] \in S
  BY LenProperties, ElementOfSeq
<1>2. /\ before \in Seq(S) /\ Len(before) = i - 1
      /\ \A j \in 1..(i - 1) : before[j] = s[j]
  <2>1. 1 \in Int /\ i - 1 \in Int /\ \A j \in 1..(i - 1) : s[j] \in S
    BY <1>1
  <2>2. \A j \in 1..(i - 1 - 1 + 1) : before[j] = s[1 + j - 1]
    BY <2>1, SubSeqProperties
  <2>3. before \in Seq(S) /\ Len(before) = IF 1 <= i - 1 THEN i - 1 - 1 + 1 ELSE 0
    BY <2>1, SubSeqProperties
  <2>4. i - 1 - 1 + 1 = i - 1 /\ \A j \in 1..(i - 1) : 1 + j - 1 = j
    BY <1>1
  <2> HIDE DEF before
  <2>5. \A j \in 1..(i - 1) : before[j] = s[j]
    BY <2>2, <2>4
  <2>6. 1 <= i - 1 \/ i - 1 = 0
    BY <1>1
  <2>7. Len(before) = i - 1
    <3>1. CASE 1 <= i - 1
      BY <2>3, <2>4, <3>1
    <3>2. CASE ~(1 <= i - 1)
      BY <2>3, <2>6, <3>2
    <3> QED
      BY <3>1, <3>2
  <2> QED
    BY <2>3, <2>5, <2>7
<1>3. /\ after \in Seq(S) /\ Len(after) = Len(s) - i
      /\ \A j \in 1..(Len(s) - i) : after[j] = s[i + j]
  <2>1. i + 1 \in Int /\ Len(s) \in Int /\ \A j \in (i + 1)..Len(s) : s[j] \in S
    BY <1>1
  <2>2. \A j \in 1..(Len(s) - (i + 1) + 1) : after[j] = s[i + 1 + j - 1]
    BY <2>1, SubSeqProperties
  <2>3. /\ after \in Seq(S)
        /\ Len(after) = IF i + 1 <= Len(s) THEN Len(s) - (i + 1) + 1 ELSE 0
    BY <2>1, SubSeqProperties
  <2>4. /\ Len(s) - (i + 1) + 1 = Len(s) - i
        /\ \A j \in 1..(Len(s) - i) : i + 1 + j - 1 = i + j
    BY <1>1
  <2> HIDE DEF after
  <2>5. \A j \in 1..(Len(s) - i) : after[j] = s[i + j]
    BY <2>2, <2>4
  <2>6. i + 1 <= Len(s) \/ Len(s) - i = 0
    BY <1>1
  <2>7. Len(after) = Len(s) - i
    <3>1. CASE i + 1 <= Len(s)
      BY <2>3, <2>4, <3>1
    <3>2. CASE ~(i + 1 <= Len(s))
      BY <2>3, <2>6, <3>2
    <3> QED
      BY <3>1, <3>2
  <2> QED
    BY <2>3, <2>5, <2>7
<1> HIDE DEF before, after
<1>4. RemoveAt(s, i) = before \o after
  BY DEF RemoveAt, before, after
<1>5. Len(before) + Len(after) = Len(s) - 1
  BY <1>1, <1>2, <1>3
<1>6. /\ before \o after \in Seq(S) /\ Len(before \o after) = Len(before) + Len(after)
      /\ \A j \in 1..(Len(before) + Len(after)) : (before \o after)[j] =
            IF j <= Len(before) THEN before[j] ELSE after[j - Len(before)]
  BY <1>2, <1>3, ConcatProperties
<1>7. ASSUME NEW j \in 1..(Len(s) - 1)
      PROVE  (before \o after)[j] = IF j < i THEN s[j] ELSE s[j + 1]
  <2>1. (before \o after)[j] = IF j <= i - 1 THEN before[j] ELSE after[j - (i - 1)]
    BY <1>2, <1>5, <1>6
  <2>2. CASE j < i
    BY <1>1, <1>2, <2>1, <2>2
  <2>3. CASE ~(j < i)
    <3>1. j - (i - 1) \in 1..(Len(s) - i) /\ i + (j - (i - 1)) = j + 1 /\ ~(j <= i - 1)
      BY <1>1, <2>3
    <3> QED
      BY <1>3, <2>1, <2>3, <3>1
  <2> QED
    BY <2>2, <2>3
<1> QED
  BY <1>4, <1>5, <1>6, <1>7

LEMMA RemoveSound ==
    ASSUME NEW c, NEW gs, GroupsSound(gs, c), NEW i \in DOMAIN gs
    PROVE  /\ GroupsSound(RemoveAt(gs, i), c)
           /\ DOMAIN RemoveAt(gs, i) # DOMAIN gs
<1>1. gs \in Seq(Group) /\ Len(gs) \in Nat /\ DOMAIN gs = 1..Len(gs) /\ i \in 1..Len(gs)
  BY LenProperties DEF GroupsSound
<1>2. /\ RemoveAt(gs, i) \in Seq(Group) /\ Len(RemoveAt(gs, i)) = Len(gs) - 1
      /\ \A j \in 1..(Len(gs) - 1) :
            RemoveAt(gs, i)[j] = IF j < i THEN gs[j] ELSE gs[j + 1]
  BY <1>1, RemovedElements
<1>3. DOMAIN RemoveAt(gs, i) = 1..(Len(gs) - 1)
  BY <1>2, LenProperties
<1>4. \A j \in 1..(Len(gs) - 1) : j \in 1..Len(gs) /\ j + 1 \in 1..Len(gs)
  BY <1>1
<1>5. \A j \in 1..(Len(gs) - 1) : GroupSound(RemoveAt(gs, i)[j], c)
  BY <1>1, <1>2, <1>4 DEF GroupsSound
<1>6. Len(gs) \in 1..Len(gs) /\ Len(gs) \notin 1..(Len(gs) - 1)
  BY <1>1
<1> QED
  BY <1>1, <1>2, <1>3, <1>5, <1>6 DEF GroupsSound

-----------------------------------------------------------------------------
(* Files: what is cut off a sound file is sound, and never whole.          *)
LEMMA CutAtSound ==
    ASSUME NEW f, NEW w, PartSound(f, w), NEW n \in 0..Len(w.sets), NEW lost \in BOOLEAN,
           NEW stage \in {"empty", "header", "steps"}, NEW torn \in BOOLEAN
    PROVE  /\ FileSound(f, CutAt(w, stage, n, torn, lost))
           /\ CutAt(w, stage, n, torn, lost).lost = lost
           /\ CutAt(w, stage, n, torn, lost).stage # "whole"
           /\ CutAt(w, stage, n, torn, lost) # NoData
<1> DEFINE cut == CutAt(w, stage, n, torn, lost)
           sets == SubSeq(w.sets, 1, n)
<1>1. w \in DataFile /\ w.sets \in Seq(Dataset)
  BY DEF PartSound, DataFile
<1>2. cut = [w EXCEPT !.stage = stage, !.sets = sets, !.torn = torn, !.lost = lost]
  BY DEF CutAt
<1>3. /\ sets \in Seq(Dataset) /\ DOMAIN sets = 1..n /\ 1..n \subseteq DOMAIN w.sets
      /\ \A j \in 1..n : sets[j] = w.sets[j]
  <2>1. n \in Nat /\ n <= Len(w.sets) /\ DOMAIN w.sets = 1..Len(w.sets) /\ Len(w.sets) \in Nat
    BY <1>1, LenProperties
  <2>2. \A j \in 1..n : w.sets[j] \in Dataset
    BY <1>1, <2>1, ElementOfSeq
  <2>3. /\ sets \in Seq(Dataset) /\ Len(sets) = IF 1 <= n THEN n - 1 + 1 ELSE 0
        /\ \A j \in 1..(n - 1 + 1) : sets[j] = w.sets[1 + j - 1]
    BY <2>1, <2>2, SubSeqProperties
  <2> HIDE DEF sets
  <2>4. n - 1 + 1 = n /\ \A j \in 1..n : 1 + j - 1 = j
    BY <2>1
  <2>5. Len(sets) = n /\ \A j \in 1..n : sets[j] = w.sets[j]
    BY <2>1, <2>3, <2>4
  <2> QED
    BY <2>1, <2>3, <2>5, LenProperties
<1> HIDE DEF cut, sets
<1>4. /\ cut \in DataFile /\ cut.sets = sets /\ cut.loc = w.loc /\ cut.scalar = w.scalar
      /\ cut.counts = w.counts /\ cut.by = w.by /\ cut.stage = stage /\ cut.lost = lost
  BY <1>1, <1>2, <1>3 DEF DataFile
<1>5. \A j \in DOMAIN cut.sets : DatasetSound(cut.loc, cut.scalar, cut.sets[j], cut.counts)
  BY <1>3, <1>4 DEF PartSound
<1>6. cut # NoData
  BY <1>4 DEF NoData, DataFile
<1>7. FileSound(f, cut)
  BY <1>4, <1>5 DEF PartSound, FileSound
<1> QED
  BY <1>4, <1>6, <1>7 DEF cut

LEMMA CutShortSound ==
    ASSUME NEW f, NEW w, PartSound(f, w), NEW lost \in BOOLEAN, NEW cut \in CutShort(w, lost)
    PROVE  FileSound(f, cut) /\ cut.lost = lost /\ cut # NoData
<1>1. w.sets \in Seq(Dataset)
  BY DEF PartSound, DataFile
<1>2. Len(w.sets) \in Nat
  BY <1>1, LenProperties
<1>3. PICK stage \in {"empty", "header", "steps"}, n \in 0..Len(w.sets), torn \in BOOLEAN :
         cut = CutAt(w, stage, n, torn, lost)
  <2>1. 0 \in 0..Len(w.sets) /\ 0..(Len(w.sets) - 1) \subseteq 0..Len(w.sets)
    BY <1>2
  <2> QED
    BY <2>1 DEF CutShort
<1> QED
  BY <1>3, CutAtSound

(* A file that persist opened, whether the disk was full or not.           *)
LEMMA PersistedSound ==
    ASSUME NEW f, NEW w, FileSound(f, w), ~w.lost, NEW p \in Persisted(w)
    PROVE  FileSound(f, p) /\ p # NoData /\ (p.lost \/ p = w)
<1>1. CASE p = w
  BY <1>1 DEF FileSound, PartSound, DataFile, NoData
<1>2. CASE p \in CutShort(w, TRUE)
  BY <1>2, CutShortSound DEF FileSound
<1> QED
  BY <1>1, <1>2 DEF Persisted

LEMMA DiskWritten ==
    ASSUME NEW disk, DiskSound(disk), NEW f \in DataFiles, NEW p, FileSound(f, p)
    PROVE  DiskSound([disk EXCEPT ![f] = p])
BY DEF DiskSound, FileSound, PartSound

(* The file a driver writes whole.                                         *)
LEMMA WrittenSound ==
    ASSUME NEW by \in {"BINARY_DAT", "ASCII_DAT", "PLY"}, NEW g, NEW c \in Counts, NEW f,
           GroupSound(g, c), NEW sets \in Seq(Dataset),
           \A j \in DOMAIN sets : \E k \in DOMAIN g.datasets : sets[j] = g.datasets[k],
           by # "PLY" => HasWriteDatasetCapability(by, g.loc),
           by = "ASCII_DAT" /\ f \notin ElsUris => g.loc = "Vertices"
    PROVE  /\ PartSound(f, Written(by, g, c, sets)) /\ ~Written(by, g, c, sets).lost
           /\ (by = "ASCII_DAT" => \A j \in DOMAIN sets : ~AsciiReadsTooFar(g, sets[j], c))
                 => FileSound(f, Written(by, g, c, sets))
<1> DEFINE w == Written(by, g, c, sets)
<1>1. g \in Group /\ g.loc \in Locations /\ g.scalar \in BOOLEAN
  BY DEF GroupSound, Group
<1>2. /\ w.by = by /\ w.counts = c /\ w.loc = g.loc /\ w.scalar = g.scalar /\ w.sets = sets
      /\ w.stage = "whole" /\ w.torn = FALSE /\ w.lost = FALSE
  BY DEF Written
<1>3. w \in DataFile
  BY <1>1 DEF Written, DataFile
<1>4. \A j \in DOMAIN sets : DatasetSound(g.loc, g.scalar, sets[j], c)
  BY DEF GroupSound
<1>5. /\ by = "BINARY_DAT" => g.loc = "Vertices"
      /\ by = "ASCII_DAT" => g.loc # "Volumes"
  BY DriversWrite
<1>6. ASSUME by = "ASCII_DAT" => \A j \in DOMAIN sets : ~AsciiReadsTooFar(g, sets[j], c)
      PROVE  by = "ASCII_DAT" /\ g.loc # "Vertices" =>
                \A j \in DOMAIN sets : ~(sets[j].size < Slots(g.scalar, Elements(c)))
  BY <1>6 DEF AsciiReadsTooFar
<1> HIDE DEF w
<1>7. PartSound(f, w)
  BY <1>2, <1>3, <1>4, <1>5 DEF PartSound
<1>8. (by = "ASCII_DAT" => \A j \in DOMAIN sets : ~AsciiReadsTooFar(g, sets[j], c))
         => FileSound(f, w)
  BY <1>2, <1>6, <1>7 DEF FileSound
<1> QED
  BY <1>2, <1>7, <1>8 DEF w

-----------------------------------------------------------------------------
(* What a step does to the invariant, by what it does to the groups.       *)
LEMMA NothingKeeps ==
    ASSUME GroupsInv, NEW r \in Statuses, AppendsNothing(r)
    PROVE  GroupsInv'
BY DEF GroupsInv, AppendsNothing

LEMMA AppendsKeeps ==
    ASSUME GroupsInv, NEW g, GroupSound(g, counts), Appends(g)
    PROVE  GroupsInv'
<1>1. GroupsSound(groups', counts)
  BY AppendSound DEF GroupsInv, Appends
<1>2. "None" \in Statuses
  BY DEF Statuses
<1> QED
  BY <1>1, <1>2 DEF GroupsInv, Appends

LEMMA NoGroups == \A c : GroupsSound(<<>>, c)
BY EmptySeq DEF GroupsSound

LEMMA EndKeeps ==
    ASSUME running' = FALSE, groups' = <<>>, counts' = NoMesh, lastStatus' = "None",
           DiskSound(dataDisk')
    PROVE  GroupsInv'
<1>1. "None" \in Statuses
  BY DEF Statuses
<1> QED
  BY <1>1, NoGroups DEF GroupsInv

LEMMA GroupOfMesh ==
    ASSUME GroupsInv, NEW i \in DOMAIN groups
    PROVE  /\ groups[i] \in Group /\ GroupSound(groups[i], counts)
           /\ groups[i].loc \in Locations /\ groups[i].scalar \in BOOLEAN
           /\ groups[i].driver \in DriverNames
           /\ groups[i].datasets \in Seq(Dataset)
           /\ counts \in Counts
           /\ counts.vertices \in Nat /\ counts.faces \in Nat /\ counts.edges \in Nat
<1>1. GroupSound(groups[i], counts)
  BY DEF GroupsInv, GroupsSound
<1>2. groups[i] \in Group
  BY <1>1 DEF GroupSound
<1>3. counts \in CountChoices \cup {NoMesh}
  BY DEF GroupsInv
<1> QED
  BY <1>1, <1>2, <1>3, CountsTyped DEF Group

LEMMA ChangeKeeps ==
    ASSUME GroupsInv, running, NEW i \in DOMAIN groups, NEW g, GroupSound(g, counts),
           groups' = [groups EXCEPT ![i] = g],
           UNCHANGED <<running, counts>>, DiskSound(dataDisk'), lastStatus' \in Statuses
    PROVE  GroupsInv'
<1>1. GroupsSound(groups', counts)
  BY ChangeSound DEF GroupsInv
<1> QED
  BY <1>1 DEF GroupsInv

-----------------------------------------------------------------------------
(* Edit mode.                                                              *)
LEMMA AddDatasetGroupKeeps ==
    ASSUME GroupsInv, NEW d \in Drivers, NEW loc \in ClientLocations,
           NEW scalar \in ScalarChoices, NEW f \in ClientFiles,
           AddDatasetGroup(d, loc, scalar, f)
    PROVE  GroupsInv'
<1> DEFINE g == [driver |-> d, loc |-> loc, scalar |-> scalar, bed |-> FALSE, file |-> f,
                 edit |-> TRUE, datasets |-> <<>>, stats |-> {}, closed |-> "never"]
<1>1. d \in DriverNames
  BY DriversAssumption
<1>2. loc \in Locations /\ scalar \in BOOLEAN /\ f \in DataFiles
  <2>1. ClientFiles \subseteq DataFiles
    BY GroupsAssumption
  <2>2. ClientLocations \subseteq Locations
    BY GroupsAssumption
  <2>3. ScalarChoices \subseteq BOOLEAN
    BY GroupsAssumption
  <2> QED
    BY <2>1, <2>2, <2>3
<1>3. <<>> \in Seq(Dataset) /\ DOMAIN <<>> = {}
  BY EmptySeq, LenProperties
<1>4. g \in Group
  BY <1>1, <1>2, <1>3 DEF Group
<1>5. GroupSound(g, counts)
  BY <1>2, <1>3, <1>4 DEF GroupSound, AddDatasetGroup
<1> HIDE DEF g
<1>6. GroupsSound(groups', counts)
  BY <1>5, AppendSound DEF GroupsInv, AddDatasetGroup, g
<1> QED
  BY <1>6 DEF GroupsInv, AddDatasetGroup

LEMMA WithDatasetKeeps ==
    ASSUME GroupsInv, running, NEW i \in DOMAIN groups, groups[i].edit,
           NEW d \in Dataset, DatasetSound(groups[i].loc, groups[i].scalar, d, counts),
           groups' = [groups EXCEPT ![i].datasets = Append(@, d)],
           UNCHANGED <<running, counts, dataDisk, lastStatus>>
    PROVE  GroupsInv'
<1> DEFINE g == groups[i]
           sets == Append(g.datasets, d)
           more == [g EXCEPT !.datasets = sets]
<1>1. g \in Group /\ GroupSound(g, counts) /\ g.datasets \in Seq(Dataset)
  BY GroupOfMesh
<1>2. /\ sets \in Seq(Dataset)
      /\ \A j \in DOMAIN sets : sets[j] = d \/ (j \in DOMAIN g.datasets /\ sets[j] = g.datasets[j])
  <2>1. sets \in Seq(Dataset) /\ Len(sets) = Len(g.datasets) + 1 /\ Len(g.datasets) \in Nat
    BY <1>1, AppendProperties, LenProperties
  <2>2. DOMAIN sets = 1..(Len(g.datasets) + 1) /\ DOMAIN g.datasets = 1..Len(g.datasets)
    BY <1>1, <2>1, LenProperties
  <2>3. /\ sets[Len(g.datasets) + 1] = d
        /\ \A j \in 1..Len(g.datasets) : sets[j] = g.datasets[j]
    BY <1>1, AppendProperties
  <2>4. \A j \in 1..(Len(g.datasets) + 1) : j = Len(g.datasets) + 1 \/ j \in 1..Len(g.datasets)
    BY <2>1
  <2>5. ASSUME NEW j \in DOMAIN sets
        PROVE  sets[j] = d \/ (j \in DOMAIN g.datasets /\ sets[j] = g.datasets[j])
    <3>1. j = Len(g.datasets) + 1 \/ j \in 1..Len(g.datasets)
      BY <2>2, <2>4
    <3> QED
      BY <2>2, <2>3, <3>1
  <2> QED
    BY <2>1, <2>5
<1> HIDE DEF sets
<1>3. /\ more \in Group /\ more.datasets = sets /\ more.loc = g.loc /\ more.scalar = g.scalar
      /\ more.edit = g.edit /\ more.file = g.file /\ more.driver = g.driver
  BY <1>1, <1>2 DEF Group
<1>4. GroupSound(more, counts)
  BY <1>1, <1>2, <1>3 DEF GroupSound
<1>5. groups' = [groups EXCEPT ![i] = more]
  BY DEF sets
<1>6. DiskSound(dataDisk') /\ lastStatus' \in Statuses
  BY DEF GroupsInv
<1> HIDE DEF more
<1> QED
  BY <1>4, <1>5, <1>6, ChangeKeeps

LEMMA SizesTyped ==
    ASSUME NEW c \in Counts, NEW loc \in Locations, NEW scalar \in BOOLEAN, NEW n \in Nat
    PROVE  ValuesCount(loc, c) \in Nat /\ Slots(scalar, n) \in Nat
<1>1. ValuesCount(loc, c) \in Nat
  <2>1. CASE loc = "Vertices"
    BY <2>1 DEF ValuesCount, Counts
  <2>2. CASE loc = "Faces"
    BY <2>2 DEF ValuesCount, Counts
  <2>3. CASE loc = "Edges"
    BY <2>3 DEF ValuesCount, Counts
  <2>4. CASE loc = "Volumes"
    BY <2>4 DEF ValuesCount
  <2> QED
    BY <2>1, <2>2, <2>3, <2>4 DEF Locations
<1> QED
  BY <1>1 DEF Slots

LEMMA ValuesGiven == ASSUME NEW S \in ValueSets PROVE S \in SUBSET Int /\ HasExtremes(S)
<1>1. ValueSets \subseteq SUBSET Int
  BY GroupsAssumption
<1>2. \A V \in ValueSets : HasExtremes(V)
  BY GroupsAssumption
<1> QED
  BY <1>1, <1>2

LEMMA AddDatasetKeeps ==
    ASSUME GroupsInv, NEW i \in DOMAIN groups, NEW flagged \in BOOLEAN, NEW vals \in ValueSets,
           AddDataset(i, flagged, vals)
    PROVE  GroupsInv'
<1> DEFINE d == NewDataset(groups[i], flagged, vals)
<1>1. /\ groups[i].edit /\ groups[i].loc # "Volumes"
      /\ flagged => groups[i].loc = "Vertices"
  BY DEF AddDataset, AddDatasetRefusal
<1>2. d \in Dataset
  BY GroupOfMesh, SizesTyped, ValuesGiven DEF NewDataset, Dataset, NoFlags
<1>3. DatasetSound(groups[i].loc, groups[i].scalar, d, counts)
  BY <1>1, ValuesGiven DEF DatasetSound, FitsMesh, NewDataset
<1> HIDE DEF d
<1> QED
  BY <1>1, <1>2, <1>3, WithDatasetKeeps DEF AddDataset, d

LEMMA AddDataset3DKeeps ==
    ASSUME GroupsInv, NEW i \in DOMAIN groups, NEW volumes \in VolumeChoices,
           NEW vals \in ValueSets, AddDataset3D(i, volumes, vals)
    PROVE  GroupsInv'
<1> DEFINE d == NewDataset3D(groups[i], volumes, vals)
<1>1. groups[i].edit /\ groups[i].loc = "Volumes"
  BY DEF AddDataset3D, AddDataset3DRefusal
<1>2. volumes \in Nat
  <2>1. VolumeChoices \subseteq Nat
    BY GroupsAssumption
  <2> QED
    BY <2>1
<1>3. d \in Dataset
  BY <1>2, GroupOfMesh, SizesTyped, ValuesGiven DEF NewDataset3D, Dataset
<1>4. DatasetSound(groups[i].loc, groups[i].scalar, d, counts)
  BY <1>1, ValuesGiven DEF DatasetSound, FitsMesh, NewDataset3D
<1> HIDE DEF d
<1> QED
  BY <1>1, <1>3, <1>4, WithDatasetKeeps DEF AddDataset3D, d

LEMMA GroupEditsKeep ==
    ASSUME GroupsInv, GroupEdits
    PROVE  GroupsInv'
<1>1. ASSUME NEW d \in Drivers, NEW loc \in ClientLocations, AddDatasetGroupRefused(d, loc)
      PROVE  GroupsInv'
  BY <1>1 DEF AddDatasetGroupRefused, GroupsInv, Statuses
<1>2. ASSUME NEW i \in DOMAIN groups, NEW flagged \in BOOLEAN, AddDatasetRefused(i, flagged)
      PROVE  GroupsInv'
  BY <1>2 DEF AddDatasetRefused, AddDatasetRefusal, GroupsInv, Statuses
<1>3. ASSUME NEW i \in DOMAIN groups, AddDataset3DRefused(i)
      PROVE  GroupsInv'
  BY <1>3 DEF AddDataset3DRefused, AddDataset3DRefusal, GroupsInv, Statuses
<1>4. ASSUME NEW i \in DOMAIN groups, RemoveDatasetGroup(i)
      PROVE  GroupsInv'
  <2>1. GroupsSound(groups', counts)
    BY <1>4, RemoveSound DEF GroupsInv, RemoveDatasetGroup
  <2> QED
    BY <1>4, <2>1 DEF GroupsInv, RemoveDatasetGroup, Statuses
<1>5. ASSUME RemoveDatasetGroupRefused \/ ResetStatus PROVE GroupsInv'
  BY <1>5, NothingKeeps DEF RemoveDatasetGroupRefused, ResetStatus, Statuses
<1> QED
  BY <1>1, <1>2, <1>3, <1>4, <1>5, AddDatasetGroupKeeps, AddDatasetKeeps, AddDataset3DKeeps
     DEF GroupEdits

-----------------------------------------------------------------------------
(* Closing.  A group in edit mode is its driver's to write.                *)
LEMMA EditGroupsWritten ==
    ASSUME GroupsInv, NEW i \in DOMAIN groups, groups[i].edit
    PROVE  /\ groups[i].file \in DataFiles /\ AsciiFile(groups[i]) \in DataFiles
           /\ AsciiFile(groups[i]) \notin ElsUris => groups[i].loc = "Vertices"
           /\ HasWriteDatasetCapability(groups[i].driver, groups[i].loc)
<1>1. /\ groups[i].file \in DataFiles
      /\ HasWriteDatasetCapability(groups[i].driver, groups[i].loc)
  BY GroupOfMesh DEF GroupSound
<1>2. ElsUris \subseteq DataFiles /\ ElsName[groups[i].file] \in ElsUris
  BY <1>1, FilesAssumption
<1> QED
  BY <1>1, <1>2 DEF AsciiFile

LEMMA CloseEndsKeeps ==
    ASSUME GroupsInv, running, NEW i \in DOMAIN groups,
           NEW f \in DataFiles, NEW reported \in Statuses, NEW disk, DiskSound(disk),
           CloseEnds(i, f, reported, disk)
    PROVE  GroupsInv'
<1> DEFINE g == groups[i]
           closed == Closed(g, f, reported)
<1>1. g \in Group /\ GroupSound(g, counts)
  BY GroupOfMesh
<1>2. \A j \in DOMAIN g.datasets : HasExtremes(g.datasets[j].vals)
  BY <1>1 DEF GroupSound, DatasetSound
<1>3. /\ GroupStatistics(g.datasets) = Extremes(AllValuesOf(g.datasets))
      /\ GroupStatistics(g.datasets) \in SUBSET Int
  BY <1>1, <1>2, StatisticsMade
<1>4. /\ closed \in Group /\ closed.datasets = g.datasets /\ closed.loc = g.loc
      /\ closed.scalar = g.scalar /\ closed.edit = FALSE /\ closed.file = f
      /\ closed.stats = GroupStatistics(g.datasets)
  BY <1>1, <1>3 DEF Closed, Group
<1>5. GroupSound(closed, counts)
  BY <1>1, <1>3, <1>4 DEF GroupSound
<1>6. groups' = [groups EXCEPT ![i] = closed]
  BY DEF CloseEnds
<1> HIDE DEF closed
<1> QED
  BY <1>5, <1>6, ChangeKeeps DEF CloseEnds

LEMMA CloseDiesKeeps ==
    ASSUME GroupsInv, NEW f \in DataFiles, NEW w, PartSound(f, w),
           NEW cuts \in SUBSET CutShort(w, FALSE), CloseDies(f, cuts)
    PROVE  GroupsInv'
<1>1. PICK cut \in cuts : dataDisk' = [dataDisk EXCEPT ![f] = cut]
  BY DEF CloseDies
<1>2. FileSound(f, cut)
  BY <1>1, CutShortSound
<1>3. DiskSound(dataDisk')
  BY <1>1, <1>2, DiskWritten DEF GroupsInv
<1> QED
  BY <1>3, EndKeeps DEF CloseDies

LEMMA PersistKeeps ==
    ASSUME GroupsInv, NEW f \in DataFiles, NEW w, FileSound(f, w), ~w.lost,
           NEW p \in Persisted(w)
    PROVE  DiskSound([dataDisk EXCEPT ![f] = p])
BY PersistedSound, DiskWritten DEF GroupsInv

(* What the drivers write of group i, and that it may be cut anywhere.     *)
LEMMA GroupWritten ==
    ASSUME GroupsInv, NEW i \in DOMAIN groups, groups[i].edit,
           NEW by \in {"BINARY_DAT", "ASCII_DAT"}, groups[i].driver = by,
           NEW f, f = IF by = "ASCII_DAT" THEN AsciiFile(groups[i]) ELSE groups[i].file
    PROVE  LET w == Written(by, groups[i], counts, groups[i].datasets)
           IN  /\ f \in DataFiles /\ PartSound(f, w) /\ ~w.lost
               /\ (by = "ASCII_DAT" =>
                     ~\E j \in DOMAIN groups[i].datasets :
                         AsciiReadsTooFar(groups[i], groups[i].datasets[j], counts))
                  => FileSound(f, w)
<1>1. f \in DataFiles /\ (by = "ASCII_DAT" /\ f \notin ElsUris => groups[i].loc = "Vertices")
  BY EditGroupsWritten
<1>2. /\ GroupSound(groups[i], counts) /\ counts \in Counts
      /\ groups[i].datasets \in Seq(Dataset)
  BY GroupOfMesh
<1>3. HasWriteDatasetCapability(by, groups[i].loc)
  BY EditGroupsWritten
<1> QED
  BY <1>1, <1>2, <1>3, WrittenSound

LEMMA PlyWritten ==
    ASSUME GroupsInv, NEW i \in DOMAIN groups, NEW f
    PROVE  LET w == Written("PLY", groups[i], counts, PlySets(groups[i], counts))
           IN  FileSound(f, w) /\ PartSound(f, w) /\ ~w.lost
<1> DEFINE g == groups[i]
           sets == PlySets(g, counts)
<1>1. GroupSound(g, counts) /\ counts \in Counts /\ g.datasets \in Seq(Dataset)
  BY GroupOfMesh
<1>2. sets \in Seq(Dataset) /\ \A j \in DOMAIN sets : \E k \in DOMAIN g.datasets : sets[j] = g.datasets[k]
  <2>1. CASE sets = <<>>
    BY <2>1, EmptySeq
  <2>2. CASE sets = <<g.datasets[1]>> /\ g.datasets # <<>>
    <3>1. 1 \in DOMAIN g.datasets /\ g.datasets[1] \in Dataset
      BY <1>1, <2>2, EmptySeq, LenProperties, ElementOfSeq
    <3> QED
      BY <2>2, <3>1
  <2> QED
    BY <2>1, <2>2 DEF PlySets
<1> HIDE DEF sets
<1>3. "PLY" \in {"BINARY_DAT", "ASCII_DAT", "PLY"} /\ "PLY" # "ASCII_DAT"
  OBVIOUS
<1> QED
  BY <1>1, <1>2, <1>3, WrittenSound DEF sets

LEMMA CloseBinaryDatKeeps ==
    ASSUME GroupsInv, NEW i \in DOMAIN groups, CloseBinaryDat(i)
    PROVE  GroupsInv'
<1> DEFINE g == groups[i]
           w == Written("BINARY_DAT", g, counts, g.datasets)
           tooFar == {j \in DOMAIN g.datasets : BinaryReadsTooFar(g.datasets[j], counts)}
<1>1. running /\ g.edit /\ g.driver = "BINARY_DAT"
  BY DEF CloseBinaryDat, CloseInEditMode
<1>2. g.file \in DataFiles /\ PartSound(g.file, w) /\ FileSound(g.file, w) /\ ~w.lost
  BY <1>1, GroupWritten
<1>3. CutBefore(w, tooFar) \in SUBSET CutShort(w, FALSE)
  BY DEF CutBefore
<1>4. "None" \in Statuses /\ "Err_InvalidData" \in Statuses
  BY DEF Statuses
<1>5. \/ CloseEnds(i, g.file, "Err_InvalidData", dataDisk)
      \/ CloseDies(g.file, CutBefore(w, tooFar))
      \/ \E p \in Persisted(w) : \E r \in {"None", "Err_InvalidData"} :
            CloseEnds(i, g.file, r, [dataDisk EXCEPT ![g.file] = p])
  BY DEF CloseBinaryDat
<1> HIDE DEF w, tooFar
<1>6. ASSUME CloseEnds(i, g.file, "Err_InvalidData", dataDisk) PROVE GroupsInv'
  BY <1>1, <1>2, <1>4, <1>6, CloseEndsKeeps DEF GroupsInv
<1>7. ASSUME CloseDies(g.file, CutBefore(w, tooFar)) PROVE GroupsInv'
  BY <1>2, <1>3, <1>7, CloseDiesKeeps
<1>8. ASSUME NEW p \in Persisted(w), NEW r \in {"None", "Err_InvalidData"},
             CloseEnds(i, g.file, r, [dataDisk EXCEPT ![g.file] = p])
      PROVE  GroupsInv'
  <2>1. DiskSound([dataDisk EXCEPT ![g.file] = p])
    BY <1>2, PersistKeeps
  <2> QED
    BY <1>1, <1>2, <1>4, <1>8, <2>1, CloseEndsKeeps
<1> QED
  BY <1>5, <1>6, <1>7, <1>8

LEMMA CloseAsciiDatKeeps ==
    ASSUME GroupsInv, NEW i \in DOMAIN groups, CloseAsciiDat(i)
    PROVE  GroupsInv'
<1> DEFINE g == groups[i]
           f == AsciiFile(g)
           w == Written("ASCII_DAT", g, counts, g.datasets)
           tooFar == {j \in DOMAIN g.datasets : AsciiReadsTooFar(g, g.datasets[j], counts)}
<1>1. running /\ g.edit /\ g.driver = "ASCII_DAT"
  BY DEF CloseAsciiDat, CloseInEditMode
<1>2. f \in DataFiles /\ PartSound(f, w) /\ ~w.lost /\ (tooFar = {} => FileSound(f, w))
  BY <1>1, GroupWritten
<1>3. CutBefore(w, tooFar) \in SUBSET CutShort(w, FALSE)
  BY DEF CutBefore
<1>4. "None" \in Statuses /\ "Err_InvalidData" \in Statuses
  BY DEF Statuses
<1>5. \/ CloseEnds(i, f, "Err_InvalidData", dataDisk)
      \/ CloseDies(f, CutBefore(w, tooFar))
      \/ /\ tooFar = {}
         /\ \E p \in Persisted(w) : CloseEnds(i, f, "None", [dataDisk EXCEPT ![f] = p])
  BY DEF CloseAsciiDat
<1> HIDE DEF f, w, tooFar
<1>6. ASSUME CloseEnds(i, f, "Err_InvalidData", dataDisk) PROVE GroupsInv'
  BY <1>1, <1>2, <1>4, <1>6, CloseEndsKeeps DEF GroupsInv
<1>7. ASSUME CloseDies(f, CutBefore(w, tooFar)) PROVE GroupsInv'
  BY <1>2, <1>3, <1>7, CloseDiesKeeps
<1>8. ASSUME tooFar = {}, NEW p \in Persisted(w),
             CloseEnds(i, f, "None", [dataDisk EXCEPT ![f] = p])
      PROVE  GroupsInv'
  <2>1. DiskSound([dataDisk EXCEPT ![f] = p])
    BY <1>2, <1>8, PersistKeeps
  <2> QED
    BY <1>1, <1>2, <1>4, <1>8, <2>1, CloseEndsKeeps
<1> QED
  BY <1>5, <1>6, <1>7, <1>8

LEMMA ClosePlyKeeps ==
    ASSUME GroupsInv, NEW i \in DOMAIN groups, ClosePly(i)
    PROVE  GroupsInv'
<1> DEFINE g == groups[i]
           w == Written("PLY", g, counts, PlySets(g, counts))
           empty == CutAt(w, "empty", 0, FALSE, FALSE)
<1>1. running /\ g.edit /\ g.driver = "PLY"
  BY DEF ClosePly, CloseInEditMode
<1>2. g.file \in DataFiles /\ FileSound(g.file, w) /\ PartSound(g.file, w) /\ ~w.lost
  BY <1>1, EditGroupsWritten, PlyWritten
<1>3. empty \in CutShort(w, FALSE)
  BY DEF CutShort
<1>4. "None" \in Statuses /\ "Err_IncompatibleDatasetGroup" \in Statuses
  BY DEF Statuses
<1>5. \/ \E r \in {"None", "Err_IncompatibleDatasetGroup"} :
            \/ CloseEnds(i, g.file, r, dataDisk)
            \/ CloseEnds(i, g.file, r, [dataDisk EXCEPT ![g.file] = empty])
      \/ CloseDies(g.file, CutShort(w, FALSE))
      \/ \E p \in Persisted(w) : CloseEnds(i, g.file, "None", [dataDisk EXCEPT ![g.file] = p])
  BY DEF ClosePly
<1> HIDE DEF w, empty
<1>6. ASSUME NEW r \in {"None", "Err_IncompatibleDatasetGroup"},
             \/ CloseEnds(i, g.file, r, dataDisk)
             \/ CloseEnds(i, g.file, r, [dataDisk EXCEPT ![g.file] = empty])
      PROVE  GroupsInv'
  <2>1. DiskSound(dataDisk) /\ DiskSound([dataDisk EXCEPT ![g.file] = empty])
    BY <1>2, <1>3, CutShortSound, DiskWritten DEF GroupsInv
  <2> QED
    BY <1>1, <1>2, <1>4, <1>6, <2>1, CloseEndsKeeps
<1>7. ASSUME CloseDies(g.file, CutShort(w, FALSE)) PROVE GroupsInv'
  BY <1>2, <1>7, CloseDiesKeeps
<1>8. ASSUME NEW p \in Persisted(w),
             CloseEnds(i, g.file, "None", [dataDisk EXCEPT ![g.file] = p])
      PROVE  GroupsInv'
  <2>1. DiskSound([dataDisk EXCEPT ![g.file] = p])
    BY <1>2, PersistKeeps
  <2> QED
    BY <1>1, <1>2, <1>4, <1>8, <2>1, CloseEndsKeeps
<1> QED
  BY <1>5, <1>6, <1>7, <1>8

LEMMA KilledInPersistKeeps ==
    ASSUME GroupsInv, NEW i \in DOMAIN groups, KilledInPersist(i)
    PROVE  GroupsInv'
<1> DEFINE g == groups[i]
           f == IF g.driver = "ASCII_DAT" THEN AsciiFile(g) ELSE g.file
           sets == IF g.driver = "PLY" THEN PlySets(g, counts) ELSE g.datasets
           w == Written(g.driver, g, counts, sets)
<1>1. g.edit /\ CloseDies(f, CutShort(w, FALSE))
  BY DEF KilledInPersist
<1>2. g.driver \in {"BINARY_DAT", "ASCII_DAT", "PLY"}
  BY <1>1, GroupOfMesh, EditGroupsWritten, DriversWrite DEF DriverNames
<1>3. f \in DataFiles /\ PartSound(f, w)
  <2>1. CASE g.driver = "PLY"
    BY <1>1, <2>1, EditGroupsWritten, PlyWritten
  <2>2. CASE g.driver \in {"BINARY_DAT", "ASCII_DAT"}
    BY <1>1, <2>2, GroupWritten
  <2> QED
    BY <1>2, <2>1, <2>2
<1> HIDE DEF f, w
<1> QED
  BY <1>1, <1>3, CloseDiesKeeps

LEMMA ClosesKeep ==
    ASSUME GroupsInv, Closes
    PROVE  GroupsInv'
<1>1. ASSUME NEW i \in DOMAIN groups, CloseAgain(i) PROVE GroupsInv'
  <2> DEFINE g == [groups[i] EXCEPT !.closed = "None"]
  <2>1. "None" \in Statuses
    BY DEF Statuses
  <2>2. /\ g \in Group /\ g.datasets = groups[i].datasets /\ g.loc = groups[i].loc
        /\ g.scalar = groups[i].scalar /\ g.edit = groups[i].edit
        /\ g.stats = groups[i].stats /\ g.file = groups[i].file
        /\ g.driver = groups[i].driver
    BY <2>1, GroupOfMesh DEF Group
  <2>3. ~groups[i].edit
    BY <1>1 DEF CloseAgain
  <2>4. GroupSound(g, counts)
    BY <2>2, <2>3, GroupOfMesh DEF GroupSound
  <2>5. groups' = [groups EXCEPT ![i] = g]
    BY <1>1 DEF CloseAgain
  <2> HIDE DEF g
  <2> QED
    BY <1>1, <2>1, <2>4, <2>5, ChangeKeeps DEF CloseAgain, GroupsInv
<1> QED
  BY <1>1, CloseBinaryDatKeeps, CloseAsciiDatKeeps, ClosePlyKeeps, KilledInPersistKeeps
     DEF Closes

-----------------------------------------------------------------------------
(* Loading.  The file is compared with the mesh as it is.                  *)
LEMMA SequenceMade ==
    ASSUME NEW S, NEW n \in Nat, NEW s, s \in [1..n -> S]
    PROVE  s \in Seq(S) /\ DOMAIN s = 1..n
OBVIOUS

LEMMA FileOfDisk ==
    ASSUME GroupsInv, NEW f \in DataFiles, dataDisk[f] # NoData
    PROVE  LET c == dataDisk[f]
           IN  /\ FileSound(f, c) /\ PartSound(f, c)
               /\ c.counts \in Counts /\ c.loc \in Locations /\ c.scalar \in BOOLEAN
               /\ c.sets \in Seq(Dataset) /\ Len(c.sets) \in Nat
               /\ DOMAIN c.sets = 1..Len(c.sets)
               /\ \A j \in DOMAIN c.sets :
                     /\ c.sets[j] \in Dataset
                     /\ DatasetSound(c.loc, c.scalar, c.sets[j], c.counts)
<1> DEFINE c == dataDisk[f]
<1>1. FileSound(f, c)
  BY DEF GroupsInv, DiskSound
<1>2. PartSound(f, c) /\ c \in DataFile
  BY <1>1 DEF FileSound, PartSound
<1>3. c.counts \in Counts /\ c.loc \in Locations /\ c.scalar \in BOOLEAN /\ c.sets \in Seq(Dataset)
  BY <1>2 DEF DataFile
<1>4. Len(c.sets) \in Nat /\ DOMAIN c.sets = 1..Len(c.sets)
  BY <1>3, LenProperties
<1>5. \A j \in DOMAIN c.sets : c.sets[j] \in Dataset
  BY <1>3, <1>4, ElementOfSeq
<1> QED
  BY <1>1, <1>2, <1>3, <1>4, <1>5 DEF PartSound

LEMMA LoadedSound ==
    ASSUME NEW m, NEW d \in DriverNames, NEW loc \in Locations, NEW f \in DataFiles,
           NEW c, c.scalar \in BOOLEAN, NEW sets \in Seq(Dataset),
           \A j \in DOMAIN sets : DatasetSound(loc, c.scalar, sets[j], m)
    PROVE  GroupSound(Loaded(d, loc, c, f, sets), m)
<1> DEFINE g == Loaded(d, loc, c, f, sets)
<1>1. \A j \in DOMAIN sets : HasExtremes(sets[j].vals)
  BY DEF DatasetSound
<1>2. GroupStatistics(sets) = Extremes(AllValuesOf(sets)) /\ GroupStatistics(sets) \in SUBSET Int
  BY <1>1, StatisticsOfAll
<1>3. /\ g \in Group /\ g.datasets = sets /\ g.loc = loc /\ g.scalar = c.scalar
      /\ g.edit = FALSE /\ g.stats = GroupStatistics(sets) /\ g.file = f
  BY <1>2 DEF Loaded, Group
<1> HIDE DEF g
<1>4. GroupSound(g, m)
  BY <1>2, <1>3 DEF GroupSound
<1> QED
  BY <1>4 DEF g

LEMMA LoadBinaryDatKeeps ==
    ASSUME GroupsInv, NEW f \in DataFiles, LoadBinaryDat(f)
    PROVE  GroupsInv'
<1> DEFINE c == dataDisk[f]
           sets == BinaryDatasets(c)
<1>1. c # NoData /\ c.by = "BINARY_DAT"
  BY DEF LoadBinaryDat
<1>2. \/ BinaryUsable(c) /\ Appends(Loaded("BINARY_DAT", "Vertices", c, f, sets))
      \/ AppendsNothing("Err_IncompatibleMesh")
      \/ AppendsNothing("Err_UnknownFormat")
  BY DEF LoadBinaryDat
<1>3. ASSUME BinaryUsable(c) PROVE GroupSound(Loaded("BINARY_DAT", "Vertices", c, f, sets), counts)
  <2>1. c.counts.vertices = counts.vertices
    BY <1>3 DEF BinaryUsable, BinaryMismatch
  <2>2. c.loc = "Vertices" /\ c.scalar \in BOOLEAN
    BY <1>1, FileOfDisk DEF PartSound
  <2>3. counts.faces \in Nat
    BY CountsTyped DEF GroupsInv
  <2>4. sets \in [1..Len(c.sets) -> Dataset]
    <3>1. \A j \in 1..Len(c.sets) : c.sets[j] \in Dataset
      BY <1>1, FileOfDisk
    <3>2. \A d \in Dataset : [d EXCEPT !.flags = counts.faces] \in Dataset
      BY <2>3 DEF Dataset
    <3>3. sets = [j \in 1..Len(c.sets) |-> [c.sets[j] EXCEPT !.flags = counts.faces]]
      BY <1>1, FileOfDisk DEF BinaryDatasets
    <3> HIDE DEF sets
    <3> QED
      BY <3>1, <3>2, <3>3
  <2>5. sets \in Seq(Dataset) /\ DOMAIN sets = 1..Len(c.sets)
    BY <1>1, <2>4, FileOfDisk, SequenceMade
  <2>6. ASSUME NEW j \in DOMAIN sets PROVE DatasetSound("Vertices", c.scalar, sets[j], counts)
    <3>1. /\ j \in DOMAIN c.sets /\ c.sets[j] \in Dataset
          /\ DatasetSound("Vertices", c.scalar, c.sets[j], c.counts)
      BY <1>1, <2>2, <2>5, <2>6, FileOfDisk
    <3>2. /\ sets[j].size = c.sets[j].size /\ sets[j].vals = c.sets[j].vals
          /\ sets[j].flags = counts.faces
      BY <3>1 DEF BinaryDatasets, Dataset
    <3>3. ValuesCount("Vertices", c.counts) = ValuesCount("Vertices", counts)
      BY <2>1 DEF ValuesCount
    <3> QED
      BY <3>1, <3>2, <3>3 DEF DatasetSound, FitsMesh
  <2>7. "BINARY_DAT" \in DriverNames /\ "Vertices" \in Locations
    BY DEF DriverNames, Locations
  <2> HIDE DEF sets, c
  <2> QED
    BY <2>2, <2>5, <2>6, <2>7, LoadedSound
<1>4. "Err_IncompatibleMesh" \in Statuses /\ "Err_UnknownFormat" \in Statuses
  BY DEF Statuses
<1> HIDE DEF sets, c
<1> QED
  BY <1>2, <1>3, <1>4, AppendsKeeps, NothingKeeps

(* What an ASCII file of elements, whole, tells of the mesh it is for.     *)
LEMMA ElementsOfOneKind ==
    ASSUME NEW n \in Nat, NEW m \in Nat, NEW scalar \in BOOLEAN,
           ~(Slots(scalar, n) < Slots(scalar, n + m))
    PROVE  m = 0
BY DEF Slots

LEMMA ElementFile ==
    ASSUME GroupsInv, NEW f \in DataFiles, dataDisk[f] # NoData,
           dataDisk[f].by = "ASCII_DAT", dataDisk[f].stage = "whole",
           dataDisk[f].loc # "Vertices"
    PROVE  LET c == dataDisk[f]
           IN  /\ c.loc \in {"Faces", "Edges"}
               /\ c.counts.faces \in Nat /\ c.counts.edges \in Nat
               /\ c.sets # <<>> => /\ c.loc = "Faces" => c.counts.edges = 0
                                   /\ c.loc = "Edges" => c.counts.faces = 0
<1> DEFINE c == dataDisk[f]
<1>1. /\ FileSound(f, c) /\ PartSound(f, c) /\ c.counts \in Counts /\ c.loc \in Locations
      /\ c.scalar \in BOOLEAN
  BY FileOfDisk
<1>2. c.loc \in {"Faces", "Edges"}
  BY <1>1 DEF PartSound, Locations
<1>3. c.counts.faces \in Nat /\ c.counts.edges \in Nat
  BY <1>1 DEF Counts
<1>4. ASSUME c.sets # <<>>
      PROVE  (c.loc = "Faces" => c.counts.edges = 0) /\ (c.loc = "Edges" => c.counts.faces = 0)
  <2>1. 1 \in DOMAIN c.sets
    <3>1. c.sets \in Seq(Dataset)
      BY FileOfDisk
    <3> QED
      BY <1>4, <3>1, EmptySeq, LenProperties
  <2>2. /\ c.sets[1].size = Slots(c.scalar, ValuesCount(c.loc, c.counts))
        /\ ~(c.sets[1].size < Slots(c.scalar, Elements(c.counts)))
    BY <1>1, <1>2, <2>1 DEF FileSound, PartSound, DatasetSound, FitsMesh
  <2>3. ASSUME c.loc = "Faces" PROVE c.counts.edges = 0
    <3>1. ~(Slots(c.scalar, c.counts.faces) < Slots(c.scalar, c.counts.faces + c.counts.edges))
      BY <2>2, <2>3 DEF ValuesCount, Elements
    <3> HIDE DEF c
    <3> QED
      BY <1>1, <1>3, <3>1, ElementsOfOneKind
  <2>4. ASSUME c.loc = "Edges" PROVE c.counts.faces = 0
    <3>1. c.counts.faces + c.counts.edges = c.counts.edges + c.counts.faces
      BY <1>3
    <3>2. ~(Slots(c.scalar, c.counts.edges) < Slots(c.scalar, c.counts.edges + c.counts.faces))
      BY <2>2, <2>4, <3>1 DEF ValuesCount, Elements
    <3> HIDE DEF c
    <3> QED
      BY <1>1, <1>3, <3>2, ElementsOfOneKind
  <2> QED
    BY <2>3, <2>4
<1> QED
  BY <1>2, <1>3, <1>4

LEMMA AsciiPlace ==
    ASSUME GroupsInv, NEW f \in DataFiles
    PROVE  /\ AsciiLocation(f) \in Locations /\ AsciiLocation(f) # "Volumes"
           /\ AsciiLocation(f) = "Vertices" <=> f \notin ElsNames
           /\ ValuesCount(AsciiLocation(f), counts) \in Nat
<1>1. /\ AsciiLocation(f) \in Locations /\ AsciiLocation(f) # "Volumes"
      /\ AsciiLocation(f) = "Vertices" <=> f \notin ElsNames
  BY DEF AsciiLocation, Locations
<1>2. counts \in Counts
  BY CountsTyped DEF GroupsInv
<1> QED
  BY <1>1, <1>2, SizesTyped

LEMMA LoadAsciiDatKeeps ==
    ASSUME GroupsInv, NEW f \in DataFiles, LoadAsciiDat(f)
    PROVE  GroupsInv'
<1> DEFINE c == dataDisk[f]
           loc == AsciiLocation(f)
<1>1. /\ c # NoData /\ c.by = "ASCII_DAT" /\ c.stage = "whole" /\ ~MixedElements(f)
      /\ c.counts.vertices = counts.vertices /\ Elements(c.counts) = Elements(counts)
      /\ ~AsciiMisread(f, c)
      /\ Appends(Loaded("ASCII_DAT", loc, c, f, c.sets))
  BY DEF LoadAsciiDat, AsciiLoads, AsciiRefused
<1>2. /\ c.scalar \in BOOLEAN /\ c.sets \in Seq(Dataset) /\ PartSound(f, c)
      /\ \A j \in DOMAIN c.sets : DatasetSound(c.loc, c.scalar, c.sets[j], c.counts)
  BY <1>1, FileOfDisk
<1>3. counts.faces \in Nat /\ counts.edges \in Nat
  BY CountsTyped DEF GroupsInv
<1>4. ASSUME NEW j \in DOMAIN c.sets PROVE DatasetSound(loc, c.scalar, c.sets[j], counts)
  <2>1. DatasetSound(c.loc, c.scalar, c.sets[j], c.counts)
    BY <1>2, <1>4
  <2>2. CASE f \notin ElsNames
    <3>1. loc = "Vertices" /\ c.loc = "Vertices" /\ c.sets[j].flags \in {NoFlags, counts.faces}
      BY <1>1, <1>2, <1>4, <2>2 DEF AsciiLocation, AsciiMisread, PartSound
    <3>2. ValuesCount(loc, counts) = ValuesCount(c.loc, c.counts)
      BY <1>1, <3>1 DEF ValuesCount
    <3> HIDE DEF c, loc
    <3> QED
      BY <2>1, <3>1, <3>2 DEF DatasetSound, FitsMesh
  <2>3. CASE f \in ElsNames
    <3>1. c.loc # "Vertices"
      BY <1>1, <2>3 DEF AsciiMisread
    <3>2. c.sets # <<>>
      BY <1>4
    <3>3. /\ c.loc \in {"Faces", "Edges"}
          /\ c.counts.faces \in Nat /\ c.counts.edges \in Nat
          /\ c.loc = "Faces" => c.counts.edges = 0
          /\ c.loc = "Edges" => c.counts.faces = 0
      BY <1>1, <3>1, <3>2, ElementFile
    <3>4. counts.faces = 0 \/ counts.edges = 0
      BY <1>1, <1>3, <2>3 DEF MixedElements, MixedMesh
    <3>5. c.counts.faces + c.counts.edges = counts.faces + counts.edges
      BY <1>1 DEF Elements
    <3>6. ValuesCount(c.loc, c.counts) = c.counts.faces + c.counts.edges
      <4>1. CASE c.loc = "Faces"
        BY <3>3, <4>1 DEF ValuesCount
      <4>2. CASE c.loc = "Edges"
        BY <3>3, <4>2 DEF ValuesCount
      <4> QED
        BY <3>3, <4>1, <4>2
    <3>7. loc \in {"Faces", "Edges"} /\ ValuesCount(loc, counts) = counts.faces + counts.edges
      <4>1. CASE counts.faces > 0
        BY <1>3, <2>3, <3>4, <4>1 DEF AsciiLocation, ValuesCount
      <4>2. CASE counts.faces = 0
        BY <1>3, <2>3, <4>2 DEF AsciiLocation, ValuesCount
      <4> QED
        BY <1>3, <4>1, <4>2
    <3> HIDE DEF c, loc
    <3> QED
      BY <2>1, <3>3, <3>5, <3>6, <3>7 DEF DatasetSound, FitsMesh
  <2> QED
    BY <2>2, <2>3
<1>5. "ASCII_DAT" \in DriverNames /\ loc \in Locations
  BY AsciiPlace DEF DriverNames
<1> HIDE DEF c, loc
<1>6. GroupSound(Loaded("ASCII_DAT", loc, c, f, c.sets), counts)
  BY <1>2, <1>4, <1>5, LoadedSound
<1> QED
  BY <1>1, <1>6, AppendsKeeps

LEMMA MisreadKeeps ==
    ASSUME GroupsInv, NEW f \in DataFiles, LoadAsciiDatMisread(f)
    PROVE  GroupsInv'
<1> DEFINE c == dataDisk[f]
           loc == AsciiLocation(f)
<1>1. c # NoData /\ c.by = "ASCII_DAT"
  BY DEF LoadAsciiDatMisread, AsciiLoads
<1>2. \/ \E read \in MisreadDatasets(f, c) : Appends(Loaded("ASCII_DAT", loc, c, f, read))
      \/ AppendsNothing("None")
  BY DEF LoadAsciiDatMisread
<1>3. /\ c.scalar \in BOOLEAN /\ c.sets \in Seq(Dataset) /\ Len(c.sets) \in Nat
      /\ DOMAIN c.sets = 1..Len(c.sets)
  BY <1>1, FileOfDisk
<1>4. counts.faces \in Nat
  BY CountsTyped DEF GroupsInv
<1>5. ASSUME NEW read \in MisreadDatasets(f, c)
      PROVE  GroupSound(Loaded("ASCII_DAT", loc, c, f, read), counts)
  <2> DEFINE flags == FlagsRead(f, c)
  <2>f. flags = [j \in DOMAIN c.sets |->
                   IF f \in ElsNames \/ c.sets[j].flags = NoFlags
                   THEN NoFlags ELSE counts.faces]
    BY DEF FlagsRead
  <2>1. PICK n \in 0..Len(c.sets), vals \in [DOMAIN c.sets -> ValueSets] :
           read = [j \in 1..n |-> AsciiDataset(f, c.scalar, flags[j], vals[j])]
    <3> HIDE DEF c
    <3>1. \E n \in StepsRead(f, c), vals \in [DOMAIN c.sets -> ValueSets] :
             read = [j \in 1..n |-> AsciiDataset(f, c.scalar, flags[j], vals[j])]
      BY <1>5 DEF MisreadDatasets
    <3>2. StepsRead(f, c) \subseteq 0..Len(c.sets)
      BY <1>3 DEF StepsRead
    <3> HIDE DEF flags
    <3> QED
      BY <3>1, <3>2, Zenon
  <2>2. n \in Nat /\ 1..n \subseteq DOMAIN c.sets
    BY <1>3, <2>1
  <2>3. ASSUME NEW j \in 1..n
        PROVE  /\ AsciiDataset(f, c.scalar, flags[j], vals[j]) \in Dataset
               /\ DatasetSound(loc, c.scalar, AsciiDataset(f, c.scalar, flags[j], vals[j]), counts)
    <3>1. j \in DOMAIN c.sets
      BY <2>2
    <3>2. /\ flags[j] \in {NoFlags, counts.faces}
          /\ f \in ElsNames => flags[j] = NoFlags
      <4> HIDE DEF flags
      <4> QED
        BY <3>1, <2>f
    <3>3. vals[j] \in SUBSET Int /\ HasExtremes(vals[j])
      BY <3>1, <2>1, ValuesGiven
    <3>4. flags[j] \in Int
      BY <1>4, <3>2 DEF NoFlags
    <3>5. Slots(c.scalar, ValuesCount(loc, counts)) \in Nat
      BY <1>3, AsciiPlace DEF Slots
    <3>6. loc # "Vertices" => f \in ElsNames
      BY AsciiPlace
    <3> HIDE DEF flags
    <3> QED
      BY <3>2, <3>3, <3>4, <3>5, <3>6 DEF AsciiDataset, Dataset, DatasetSound, FitsMesh
  <2> HIDE DEF flags, c, loc
  <2>4. read \in [1..n -> Dataset]
    BY <2>1, <2>3
  <2>5. read \in Seq(Dataset) /\ DOMAIN read = 1..n
    BY <2>2, <2>4, SequenceMade
  <2>6. \A j \in DOMAIN read : DatasetSound(loc, c.scalar, read[j], counts)
    BY <2>1, <2>3, <2>5
  <2>7. "ASCII_DAT" \in DriverNames /\ loc \in Locations
    BY AsciiPlace DEF DriverNames, loc
  <2> QED
    BY <1>3, <2>5, <2>6, <2>7, LoadedSound
<1>6. "None" \in Statuses
  BY DEF Statuses
<1> HIDE DEF c, loc
<1> QED
  BY <1>2, <1>5, <1>6, AppendsKeeps, NothingKeeps

LEMMA LoadsKeep ==
    ASSUME GroupsInv, Loads
    PROVE  GroupsInv'
<1>1. ASSUME NEW f \in DataFiles, LoadUnknown(f) PROVE GroupsInv'
  BY <1>1, NothingKeeps DEF LoadUnknown, Statuses
<1>2. ASSUME NEW f \in DataFiles, LoadAsciiDatFails(f) PROVE GroupsInv'
  <2>1. PICK r \in AsciiErrors(f, dataDisk[f]) : AppendsNothing(r)
    BY <1>2 DEF LoadAsciiDatFails
  <2>2. r \in Statuses
    BY <2>1 DEF AsciiErrors, Statuses
  <2> QED
    BY <2>1, <2>2, NothingKeeps
<1>3. ASSUME NEW f \in DataFiles, LoadAsciiDatDies(f) PROVE GroupsInv'
  BY <1>3, EndKeeps DEF LoadAsciiDatDies, GroupsInv
<1> QED
  BY <1>1, <1>2, <1>3, LoadBinaryDatKeeps, LoadAsciiDatKeeps, MisreadKeeps DEF Loads

-----------------------------------------------------------------------------
(* The mesh half, and the bed elevations of a loaded mesh.                 *)
LEMMA CompanionSound ==
    ASSUME NEW m, NEW d \in DriverNames, NEW loc \in Locations, NEW scalar \in BOOLEAN,
           NEW bed \in BOOLEAN, NEW sets \in Seq(Dataset), d \notin Dats,
           \A j \in DOMAIN sets : DatasetSound(loc, scalar, sets[j], m)
    PROVE  /\ GroupSound(Companion(d, loc, scalar, bed, sets), m)
           /\ ~Companion(d, loc, scalar, bed, sets).edit
<1> DEFINE g == Companion(d, loc, scalar, bed, sets)
<1>1. \A j \in DOMAIN sets : HasExtremes(sets[j].vals)
  BY DEF DatasetSound
<1>2. GroupStatistics(sets) = Extremes(AllValuesOf(sets)) /\ GroupStatistics(sets) \in SUBSET Int
  BY <1>1, StatisticsOfAll
<1>3. /\ g \in Group /\ g.datasets = sets /\ g.loc = loc /\ (g.scalar <=> scalar)
      /\ g.edit = FALSE /\ g.stats = GroupStatistics(sets) /\ g.driver = d
  BY <1>2 DEF Companion, Group
<1>4. g.scalar = scalar
  BY DEF Companion
<1> HIDE DEF g
<1>5. GroupSound(g, m) /\ ~g.edit
  BY <1>2, <1>3, <1>4 DEF GroupSound
<1> QED
  BY <1>5 DEF g

LEMMA BedElevationSound ==
    ASSUME NEW c \in Counts, NEW d \in DriverNames \ Dats, NEW vals \in ValueSets
    PROVE  /\ GroupsSound(BedElevation(d, c, vals), c)
           /\ \A i \in DOMAIN BedElevation(d, c, vals) : ~BedElevation(d, c, vals)[i].edit
<1> DEFINE set == [size |-> c.vertices, flags |-> NoFlags, vals |-> vals]
           sets == <<set>>
           g == Companion(d, "Vertices", TRUE, TRUE, sets)
<1>1. c.vertices \in Nat
  BY DEF Counts
<1>2. set \in Dataset
  BY <1>1, ValuesGiven DEF Dataset, NoFlags
<1>3. DatasetSound("Vertices", TRUE, set, c)
  BY ValuesGiven DEF DatasetSound, FitsMesh, Slots, ValuesCount
<1>4. BedElevation(d, c, vals) = <<>> \/ BedElevation(d, c, vals) = <<g>>
  BY DEF BedElevation
<1> HIDE DEF set
<1>5. sets \in Seq(Dataset) /\ \A j \in DOMAIN sets : sets[j] = set
  BY <1>2
<1>6. "Vertices" \in Locations /\ d \in DriverNames /\ d \notin Dats
  BY DEF Locations
<1> HIDE DEF sets
<1>7. GroupSound(g, c) /\ ~g.edit
  BY <1>3, <1>5, <1>6, CompanionSound
<1> HIDE DEF g
<1>8. GroupsSound(<<g>>, c) /\ \A i \in DOMAIN <<g>> : <<g>>[i] = g
  <2>1. g \in Group
    BY <1>7 DEF GroupSound
  <2> QED
    BY <1>7, <2>1 DEF GroupsSound
<1>9. GroupsSound(<<>>, c) /\ DOMAIN <<>> = {}
  BY NoGroups, EmptySeq
<1> QED
  BY <1>4, <1>7, <1>8, <1>9

LEMMA MeshLoadedKeeps ==
    ASSUME GroupsInv, NEW c \in CountChoices, NEW vals \in ValueSets,
           MeshLoaded(c, BedElevation("2DM", c, vals))
    PROVE  GroupsInv'
<1>1. c \in Counts /\ "2DM" \in DriverNames \ Dats
  BY CountsTyped DEF DriverNames, Dats
<1>2. GroupsSound(BedElevation("2DM", c, vals), c)
  BY <1>1, BedElevationSound
<1> QED
  BY <1>2 DEF GroupsInv, MeshLoaded, Statuses

LEMMA GroupsInvInit == GroupsInit => GroupsInv
<1> SUFFICES ASSUME GroupsInit PROVE GroupsInv
  OBVIOUS
<1>1. DiskSound(dataDisk)
  BY DEF GroupsInit, DiskSound
<1> QED
  BY <1>1, NoGroups DEF GroupsInit, GroupsInv, Statuses

LEMMA GroupsInvNext == GroupsInv /\ [GroupsNext]_groupVars => GroupsInv'
<1> SUFFICES ASSUME GroupsInv, [GroupsNext]_groupVars PROVE GroupsInv'
  OBVIOUS
<1>1. ASSUME NEW c \in CountChoices, MeshChanged(c) PROVE GroupsInv'
  BY <1>1, NoGroups DEF GroupsInv, MeshChanged, Statuses
<1>2. ASSUME Died PROVE GroupsInv'
  BY <1>2, EndKeeps DEF Died, GroupsInv
<1>3. ASSUME GroupsRestart PROVE GroupsInv'
  BY <1>3 DEF GroupsRestart, GroupsInv
<1>4. ASSUME UNCHANGED groupVars PROVE GroupsInv'
  BY <1>4 DEF groupVars, GroupsInv
<1> QED
  BY <1>1, <1>2, <1>3, <1>4, GroupEditsKeep, ClosesKeep, LoadsKeep, MeshLoadedKeeps
     DEF GroupsNext

-----------------------------------------------------------------------------
(* Every group of the mesh fits it, and every file is sound, always.       *)
THEOREM GroupsInvHolds == GroupsSpec => []GroupsInv
BY GroupsInvInit, GroupsInvNext, PTL DEF GroupsSpec

(* Every variable holds what its C++ counterpart can hold, and a process   *)
(* that died left neither a mesh nor groups.                               *)
THEOREM GroupTypesCorrect == GroupsSpec => []GroupTypeOK
<1>1. GroupsInv => GroupTypeOK
  BY DEF GroupsInv, GroupsSound, GroupSound, DiskSound, GroupTypeOK
<1> QED
  BY <1>1, GroupsInvHolds, PTL

(* Every dataset of every group holds what the mesh, as it is now, needs.  *)
THEOREM DatasetsStayFit == GroupsSpec => []DatasetsFitMesh
<1>1. GroupsInv => DatasetsFitMesh
  BY DEF GroupsInv, GroupsSound, GroupSound, DatasetSound, DatasetsFitMesh
<1> QED
  BY <1>1, GroupsInvHolds, PTL

(* A dataset file was written from one mesh: persist never writes a header *)
(* and time steps of different meshes.                                     *)
THEOREM FilesOfOneMesh == GroupsSpec => []WrittenForItsMesh
<1>1. GroupsInv => WrittenForItsMesh
  BY DEF GroupsInv, DiskSound, FileSound, PartSound, DatasetSound, WrittenForItsMesh
<1> QED
  BY <1>1, GroupsInvHolds, PTL

(* Outside edit mode the statistics of a group, which closing and loading  *)
(* combine from those of its datasets, are the extremes of all its values. *)
THEOREM StatisticsStayComplete == GroupsSpec => []StatisticsCoverDatasets
<1>1. GroupsInv => StatisticsCoverDatasets
  BY DEF GroupsInv, GroupsSound, GroupSound, AllValuesOf, StatisticsCoverDatasets
<1> QED
  BY <1>1, GroupsInvHolds, PTL

(* What its file holds whole and was written for the mesh as it is comes   *)
(* back: the loader's comparisons let it pass, and what it takes for the   *)
(* location of the values is what it was.                                  *)
LEMMA ReloadsFromFile ==
    ASSUME GroupsInv, NEW i \in DOMAIN groups, groups[i].file \in DataFiles,
           Holds(dataDisk[groups[i].file], groups[i]),
           dataDisk[groups[i].file].counts = counts,
           counts.vertices > 0,
           groups[i].datasets # <<>>, ValuesCount(groups[i].loc, counts) > 0
    PROVE  /\ groups[i].driver = "BINARY_DAT" => BinaryReloads(dataDisk[groups[i].file], groups[i])
           /\ groups[i].driver = "ASCII_DAT" /\ NamedForLocation(groups[i]) =>
                 AsciiReloads(groups[i].file, dataDisk[groups[i].file], groups[i])
<1> DEFINE g == groups[i]
           f == g.file
           c == dataDisk[f]
<1>1. /\ c # NoData /\ c.by = g.driver /\ c.stage = "whole"
      /\ c.loc = g.loc /\ c.scalar = g.scalar /\ c.sets = g.datasets
  BY DEF Holds
<1>2. FileSound(f, c) /\ PartSound(f, c)
  BY <1>1, FileOfDisk
<1>3. GroupSound(g, counts)
  BY GroupOfMesh
<1>4. counts.vertices \in Nat /\ counts.faces \in Nat /\ counts.edges \in Nat
  BY CountsTyped DEF GroupsInv
<1>5. ASSUME g.driver = "BINARY_DAT" PROVE BinaryReloads(c, g)
  <2>1. BinaryUsable(c)
    BY <1>1, <1>2 DEF BinaryUsable, BinaryMismatch, FileSound
  <2>2. \A j \in DOMAIN c.sets : c.sets[j] \in Dataset
    BY <1>1, FileOfDisk
  <2>3. \A j \in DOMAIN c.sets : BinaryDatasets(c)[j].vals = c.sets[j].vals
    BY <2>2 DEF BinaryDatasets, Dataset
  <2>4. DOMAIN BinaryDatasets(c) = DOMAIN c.sets
    BY DEF BinaryDatasets
  <2> QED
    BY <1>1, <2>1, <2>3, <2>4 DEF BinaryReloads, Values
<1>6. ASSUME g.driver = "ASCII_DAT", NamedForLocation(g) PROVE AsciiReloads(f, c, g)
  <2>1. /\ c.loc \in Locations /\ c.loc # "Volumes"
        /\ c.loc = "Vertices" <=> f \notin ElsNames
    BY <1>1, <1>2, <1>6, FileOfDisk DEF PartSound, NamedForLocation
  <2>3. CASE f \notin ElsNames
    <3>1. c.loc = "Vertices" /\ AsciiLocation(f) = g.loc /\ ~MixedElements(f)
      BY <1>1, <2>1, <2>3 DEF AsciiLocation, MixedElements
    <3>2. \A j \in DOMAIN c.sets : c.sets[j].flags \in {NoFlags, counts.faces}
      BY <1>1, <1>3 DEF GroupSound, DatasetSound, FitsMesh
    <3>3. ~AsciiMisread(f, c)
      BY <2>1, <2>3, <3>2 DEF AsciiMisread
    <3>4. ~AsciiRefused(f, c)
      BY <3>1 DEF AsciiRefused
    <3> QED
      BY <1>1, <1>6, <3>1, <3>3, <3>4 DEF AsciiReloads, AsciiLoads
  <2>4. CASE f \in ElsNames
    <3>1. c.loc # "Vertices"
      BY <2>1, <2>4
    <3>2. /\ c.loc \in {"Faces", "Edges"}
          /\ c.loc = "Faces" => counts.edges = 0
          /\ c.loc = "Edges" => counts.faces = 0
      BY <1>1, <1>6, <3>1, ElementFile
    <3>3. ~MixedElements(f)
      BY <1>4, <3>2 DEF MixedElements, MixedMesh
    <3>4. AsciiLocation(f) = g.loc
      <4>1. CASE g.loc = "Faces"
        BY <1>4, <2>4, <4>1 DEF AsciiLocation, ValuesCount
      <4>2. CASE g.loc = "Edges"
        BY <1>1, <1>4, <2>4, <3>2, <4>2 DEF AsciiLocation
      <4> QED
        BY <1>1, <3>2, <4>1, <4>2
    <3>5. ~AsciiMisread(f, c)
      BY <2>4, <3>1 DEF AsciiMisread
    <3> QED
      BY <1>1, <1>4, <1>6, <3>3, <3>4, <3>5 DEF AsciiReloads, AsciiLoads, AsciiRefused
  <2> QED
    BY <2>3, <2>4
<1> QED
  BY <1>5, <1>6

LEMMA InvariantReloads ==
    ASSUME GroupsInv
    PROVE  PersistedReloads
<1> SUFFICES ASSUME NEW i \in DOMAIN groups,
                    ~groups[i].edit, groups[i].driver \in Dats,
                    Holds(dataDisk[groups[i].file], groups[i]),
                    dataDisk[groups[i].file].counts = counts,
                    counts.vertices > 0,
                    groups[i].datasets # <<>>, ValuesCount(groups[i].loc, counts) > 0
             PROVE  /\ groups[i].driver = "BINARY_DAT" =>
                          BinaryReloads(dataDisk[groups[i].file], groups[i])
                    /\ groups[i].driver = "ASCII_DAT" /\ NamedForLocation(groups[i]) =>
                          AsciiReloads(groups[i].file, dataDisk[groups[i].file], groups[i])
  BY DEF PersistedReloads
<1>1. groups[i].file \in DataFiles
  BY GroupOfMesh DEF GroupSound
<1> QED
  BY <1>1, ReloadsFromFile

(* A closed group that its file still holds, written for the mesh as it    *)
(* is, is loaded back from there by its driver with its location and       *)
(* values.                                                                 *)
THEOREM PersistedGroupsReload == GroupsSpec => []PersistedReloads
BY InvariantReloads, GroupsInvHolds, PTL

-----------------------------------------------------------------------------
(* What a step can do to the groups; a close of a .dat group that reports  *)
(* nothing left the group in its file.                                     *)
Born(g) == ~g.edit \/ (g.datasets = <<>> /\ g.stats = {})

Filled(i) ==
    \E d \in Dataset :
        groups[i].edit /\ groups' = [groups EXCEPT ![i].datasets = Append(@, d)]

KeptInFile(c, g) == c # NoData /\ (c.lost \/ Holds(c, g))

SealedAs(i, f, r) ==
    /\ groups[i].edit
    /\ groups' = [groups EXCEPT ![i] = Closed(@, f, r)]
    /\ groups[i].driver \in Dats /\ r = "None" =>
          KeptInFile(dataDisk'[f], Closed(groups[i], f, r))

GroupStep ==
    \/ \E g \in Group : groups' = Append(groups, g) /\ Born(g)
    \/ \E i \in DOMAIN groups : Filled(i)
    \/ \E i \in DOMAIN groups, f \in DataFiles, r \in Statuses : SealedAs(i, f, r)
    \/ \E i \in DOMAIN groups :
          ~groups[i].edit /\ groups' = [groups EXCEPT ![i].closed = "None"]
    \/ \E i \in DOMAIN groups : groups' = RemoveAt(groups, i)
    \/ groups' = <<>>
    \/ groups = <<>> /\ \A i \in DOMAIN groups' : ~groups'[i].edit
    \/ groups' = groups

LEMMA PersistedKept ==
    ASSUME GroupsInv, NEW i \in DOMAIN groups, groups[i].edit,
           NEW f \in DataFiles, NEW w, FileSound(f, w), ~w.lost,
           w = Written(groups[i].driver, groups[i], counts, groups[i].datasets),
           NEW p \in Persisted(w), NEW r \in Statuses,
           CloseEnds(i, f, r, [dataDisk EXCEPT ![f] = p])
    PROVE  SealedAs(i, f, r)
<1>1. f \in DOMAIN dataDisk
  BY DEF GroupsInv, DiskSound
<1>2. dataDisk'[f] = p
  BY <1>1 DEF CloseEnds
<1>3. p # NoData /\ (p.lost \/ p = w)
  BY PersistedSound
<1>4. /\ Closed(groups[i], f, r).loc = groups[i].loc
      /\ Closed(groups[i], f, r).scalar = groups[i].scalar
      /\ Closed(groups[i], f, r).driver = groups[i].driver
      /\ Closed(groups[i], f, r).datasets = groups[i].datasets
  BY GroupOfMesh DEF Closed, Group
<1>5. /\ w.by = groups[i].driver /\ w.stage = "whole" /\ w.loc = groups[i].loc
      /\ w.scalar = groups[i].scalar /\ w.sets = groups[i].datasets
  BY DEF Written
<1>6. KeptInFile(p, Closed(groups[i], f, r))
  BY <1>3, <1>4, <1>5 DEF KeptInFile, Holds
<1> QED
  BY <1>2, <1>6 DEF SealedAs, CloseEnds

LEMMA CloseBinaryDatSteps ==
    ASSUME GroupsInv, NEW i \in DOMAIN groups, CloseBinaryDat(i)
    PROVE  GroupStep
<1> DEFINE g == groups[i]
           w == Written("BINARY_DAT", g, counts, g.datasets)
<1>1. g.edit /\ g.driver = "BINARY_DAT"
  BY DEF CloseBinaryDat, CloseInEditMode
<1>2. g.file \in DataFiles /\ FileSound(g.file, w) /\ ~w.lost
  BY <1>1, GroupWritten
<1>3. "None" \in Statuses /\ "Err_InvalidData" \in Statuses
  BY DEF Statuses
<1>4. \/ CloseEnds(i, g.file, "Err_InvalidData", dataDisk)
      \/ groups' = <<>>
      \/ \E p \in Persisted(w) : \E r \in {"None", "Err_InvalidData"} :
            CloseEnds(i, g.file, r, [dataDisk EXCEPT ![g.file] = p])
  BY DEF CloseBinaryDat, CloseDies
<1>5. ASSUME CloseEnds(i, g.file, "Err_InvalidData", dataDisk)
      PROVE  SealedAs(i, g.file, "Err_InvalidData")
  BY <1>1, <1>5 DEF SealedAs, CloseEnds
<1>6. ASSUME NEW p \in Persisted(w), NEW r \in {"None", "Err_InvalidData"},
             CloseEnds(i, g.file, r, [dataDisk EXCEPT ![g.file] = p])
      PROVE  SealedAs(i, g.file, r)
  <2> HIDE DEF w
  <2>1. w = Written(g.driver, g, counts, g.datasets)
    BY <1>1 DEF w
  <2> QED
    BY <1>1, <1>2, <1>3, <1>6, <2>1, PersistedKept
<1> HIDE DEF w
<1> QED
  BY <1>2, <1>3, <1>4, <1>5, <1>6 DEF GroupStep

LEMMA CloseAsciiDatSteps ==
    ASSUME GroupsInv, NEW i \in DOMAIN groups, CloseAsciiDat(i)
    PROVE  GroupStep
<1> DEFINE g == groups[i]
           f == AsciiFile(g)
           w == Written("ASCII_DAT", g, counts, g.datasets)
           tooFar == {j \in DOMAIN g.datasets : AsciiReadsTooFar(g, g.datasets[j], counts)}
<1>1. g.edit /\ g.driver = "ASCII_DAT"
  BY DEF CloseAsciiDat, CloseInEditMode
<1>2. f \in DataFiles /\ ~w.lost /\ (tooFar = {} => FileSound(f, w))
  BY <1>1, GroupWritten
<1>3. "None" \in Statuses /\ "Err_InvalidData" \in Statuses
  BY DEF Statuses
<1>4. \/ CloseEnds(i, f, "Err_InvalidData", dataDisk)
      \/ groups' = <<>>
      \/ tooFar = {} /\ \E p \in Persisted(w) : CloseEnds(i, f, "None", [dataDisk EXCEPT ![f] = p])
  BY DEF CloseAsciiDat, CloseDies
<1>5. ASSUME CloseEnds(i, f, "Err_InvalidData", dataDisk)
      PROVE  SealedAs(i, f, "Err_InvalidData")
  BY <1>1, <1>5 DEF SealedAs, CloseEnds
<1>6. ASSUME tooFar = {}, NEW p \in Persisted(w),
             CloseEnds(i, f, "None", [dataDisk EXCEPT ![f] = p])
      PROVE  SealedAs(i, f, "None")
  <2> HIDE DEF w, f
  <2>1. w = Written(g.driver, g, counts, g.datasets)
    BY <1>1 DEF w
  <2> QED
    BY <1>1, <1>2, <1>3, <1>6, <2>1, PersistedKept
<1> HIDE DEF w, f
<1> QED
  BY <1>2, <1>3, <1>4, <1>5, <1>6 DEF GroupStep

LEMMA ClosePlySteps ==
    ASSUME GroupsInv, NEW i \in DOMAIN groups, ClosePly(i)
    PROVE  GroupStep
<1>1. /\ groups[i].edit /\ groups[i].driver \notin Dats
  BY DEF ClosePly, CloseInEditMode, Dats
<1>2. \/ \E r \in {"None", "Err_IncompatibleDatasetGroup"} :
            groups' = [groups EXCEPT ![i] = Closed(@, groups[i].file, r)]
      \/ groups' = <<>>
  BY DEF ClosePly, CloseDies, CloseEnds
<1>3. groups[i].file \in DataFiles
  BY <1>1, EditGroupsWritten
<1>4. "None" \in Statuses /\ "Err_IncompatibleDatasetGroup" \in Statuses
  BY DEF Statuses
<1> QED
  BY <1>1, <1>2, <1>3, <1>4 DEF GroupStep, SealedAs

LEMMA StepsOfGroups ==
    ASSUME GroupsInv, [GroupsNext]_groupVars
    PROVE  GroupStep
<1>1. ASSUME GroupEdits PROVE GroupStep
  <2>1. ASSUME NEW d \in Drivers, NEW loc \in ClientLocations, NEW scalar \in ScalarChoices,
               NEW f \in ClientFiles, AddDatasetGroup(d, loc, scalar, f)
        PROVE  GroupStep
    <3>1. GroupsInv'
      BY <2>1, AddDatasetGroupKeeps
    <3> DEFINE g == [driver |-> d, loc |-> loc, scalar |-> scalar, bed |-> FALSE, file |-> f,
                     edit |-> TRUE, datasets |-> <<>>, stats |-> {}, closed |-> "never"]
    <3>2. groups' = Append(groups, g) /\ Born(g)
      BY <2>1 DEF AddDatasetGroup, Born
    <3> HIDE DEF g
    <3>3. groups \in Seq(Group) /\ Append(groups, g) \in Seq(Group)
      BY <3>1, <3>2 DEF GroupsInv, GroupsSound
    <3>4. g \in Group
      BY <3>3, LastAppended
    <3> QED
      BY <3>2, <3>4 DEF GroupStep
  <2>2. ASSUME NEW i \in DOMAIN groups, NEW flagged \in BOOLEAN, NEW vals \in ValueSets,
               AddDataset(i, flagged, vals)
        PROVE  Filled(i)
    <3>1. NewDataset(groups[i], flagged, vals) \in Dataset
      BY GroupOfMesh, SizesTyped, ValuesGiven DEF NewDataset, Dataset, NoFlags
    <3>2. groups[i].edit
      BY <2>2 DEF AddDataset, AddDatasetRefusal
    <3> QED
      BY <2>2, <3>1, <3>2 DEF AddDataset, Filled
  <2>3. ASSUME NEW i \in DOMAIN groups, NEW volumes \in VolumeChoices, NEW vals \in ValueSets,
               AddDataset3D(i, volumes, vals)
        PROVE  Filled(i)
    <3>1. VolumeChoices \subseteq Nat
      BY GroupsAssumption
    <3>2. NewDataset3D(groups[i], volumes, vals) \in Dataset
      BY <3>1, GroupOfMesh, SizesTyped, ValuesGiven DEF NewDataset3D, Dataset
    <3>3. groups[i].edit
      BY <2>3 DEF AddDataset3D, AddDataset3DRefusal
    <3> QED
      BY <2>3, <3>2, <3>3 DEF AddDataset3D, Filled
  <2>4. ASSUME \/ \E d \in Drivers, loc \in ClientLocations : AddDatasetGroupRefused(d, loc)
               \/ \E i \in DOMAIN groups, flagged \in BOOLEAN : AddDatasetRefused(i, flagged)
               \/ \E i \in DOMAIN groups : AddDataset3DRefused(i)
               \/ RemoveDatasetGroupRefused \/ ResetStatus
        PROVE  groups' = groups
    BY <2>4 DEF AddDatasetGroupRefused, AddDatasetRefused, AddDataset3DRefused,
                RemoveDatasetGroupRefused, ResetStatus, AppendsNothing
  <2>5. ASSUME NEW i \in DOMAIN groups, RemoveDatasetGroup(i)
        PROVE  groups' = RemoveAt(groups, i)
    BY <2>5 DEF RemoveDatasetGroup
  <2> QED
    BY <1>1, <2>1, <2>2, <2>3, <2>4, <2>5 DEF GroupEdits, GroupStep
<1>2. ASSUME Closes PROVE GroupStep
  <2>1. ASSUME NEW i \in DOMAIN groups, KilledInPersist(i) PROVE groups' = <<>>
    BY <2>1 DEF KilledInPersist, CloseDies
  <2>2. ASSUME NEW i \in DOMAIN groups, CloseAgain(i)
        PROVE  ~groups[i].edit /\ groups' = [groups EXCEPT ![i].closed = "None"]
    BY <2>2 DEF CloseAgain
  <2> QED
    BY <1>2, <2>1, <2>2, CloseBinaryDatSteps, CloseAsciiDatSteps, ClosePlySteps
       DEF Closes, GroupStep
<1>3. ASSUME Loads PROVE GroupStep
  <2>1. GroupsInv'
    BY <1>3, LoadsKeep
  <2>2. \/ groups' = groups \/ groups' = <<>>
        \/ \E d, loc, c, f, sets : groups' = Append(groups, Loaded(d, loc, c, f, sets))
    BY <1>3 DEF Loads, LoadUnknown, LoadBinaryDat, LoadAsciiDat, LoadAsciiDatMisread,
                LoadAsciiDatFails, LoadAsciiDatDies, Appends, AppendsNothing
  <2>3. ASSUME NEW d, NEW loc, NEW c, NEW f, NEW sets,
               groups' = Append(groups, Loaded(d, loc, c, f, sets))
        PROVE  GroupStep
    <3> DEFINE g == Loaded(d, loc, c, f, sets)
    <3>1. Born(g)
      BY DEF Born, Loaded
    <3> HIDE DEF g
    <3>2. groups \in Seq(Group) /\ Append(groups, g) \in Seq(Group)
      BY <2>1, <2>3 DEF GroupsInv, GroupsSound, g
    <3>3. g \in Group
      BY <3>2, LastAppended
    <3> QED
      BY <2>3, <3>1, <3>3 DEF GroupStep, g
  <2> QED
    BY <2>2, <2>3 DEF GroupStep
<1>4. ASSUME NEW c \in CountChoices, MeshChanged(c) PROVE groups' = <<>>
  BY <1>4 DEF MeshChanged
<1>5. ASSUME NEW c \in CountChoices, NEW vals \in ValueSets,
             MeshLoaded(c, BedElevation("2DM", c, vals))
      PROVE  groups = <<>> /\ \A i \in DOMAIN groups' : ~groups'[i].edit
  BY <1>5 DEF MeshLoaded, BedElevation, Companion
<1>6. ASSUME Died \/ GroupsRestart \/ UNCHANGED groupVars
      PROVE  groups' = <<>> \/ groups' = groups
  BY <1>6 DEF Died, GroupsRestart, groupVars
<1> QED
  BY <1>1, <1>2, <1>3, <1>4, <1>5, <1>6 DEF GroupsNext, GroupStep

LEMMA AppendedDomain ==
    ASSUME NEW S, NEW s \in Seq(S), NEW x \in S
    PROVE  DOMAIN Append(s, x) # DOMAIN s
<1>1. /\ Len(s) \in Nat /\ DOMAIN s = 1..Len(s)
      /\ DOMAIN Append(s, x) = 1..(Len(s) + 1)
  BY LenProperties, AppendProperties
<1>2. Len(s) + 1 \in 1..(Len(s) + 1) /\ Len(s) + 1 \notin 1..Len(s)
  BY <1>1
<1> QED
  BY <1>1, <1>2

LEMMA SealedInFile ==
    ASSUME GroupsInv, GroupStep, NEW i \in DOMAIN groups,
           DOMAIN groups' = DOMAIN groups,
           groups[i].edit, ~groups'[i].edit,
           groups[i].driver \in Dats, groups'[i].closed = "None"
    PROVE  KeptInFile(dataDisk'[groups'[i].file], groups'[i])
<1>1. groups \in Seq(Group)
  BY DEF GroupsInv, GroupsSound
<1>2. ~\E g \in Group : groups' = Append(groups, g)
  BY <1>1, AppendedDomain
<1>3. ASSUME NEW k \in DOMAIN groups, Filled(k) PROVE FALSE
  <2>1. groups[i] \in Group /\ groups[k] \in Group
    BY GroupOfMesh
  <2>2. groups'[i].edit = groups[i].edit
    BY <1>3, <2>1 DEF Filled, Group
  <2> QED
    BY <2>2
<1>4. ASSUME NEW k \in DOMAIN groups, NEW f \in DataFiles, NEW r \in Statuses,
             SealedAs(k, f, r)
      PROVE  KeptInFile(dataDisk'[groups'[i].file], groups'[i])
  <2>1. k = i
    BY <1>4 DEF SealedAs
  <2>2. groups'[i] = Closed(groups[i], f, r)
    BY <1>4, <2>1 DEF SealedAs
  <2>3. Closed(groups[i], f, r).file = f /\ Closed(groups[i], f, r).closed = r
    BY GroupOfMesh DEF Closed, Group
  <2> QED
    BY <1>4, <2>1, <2>2, <2>3 DEF SealedAs
<1>5. ASSUME NEW k \in DOMAIN groups, ~groups[k].edit,
             groups' = [groups EXCEPT ![k].closed = "None"]
      PROVE  FALSE
  BY <1>5
<1>6. ~\E k \in DOMAIN groups : groups' = RemoveAt(groups, k)
  BY RemoveSound DEF GroupsInv
<1>7. groups' # <<>> /\ groups # <<>> /\ groups' # groups
  OBVIOUS
<1> QED
  BY <1>2, <1>3, <1>4, <1>5, <1>6, <1>7 DEF GroupStep

(* The close that takes a group of the .dat drivers out of edit mode and   *)
(* reports nothing leaves it whole in the file it names from then on,      *)
(* unless the disk was full.                                               *)
THEOREM ReportedClosesKeep == GroupsSpec => CloseReported
<1>1. GroupsInv /\ [GroupsNext]_groupVars =>
         [\A i \in DOMAIN groups :
             (/\ DOMAIN groups' = DOMAIN groups
              /\ groups[i].edit /\ ~groups'[i].edit
              /\ groups[i].driver \in Dats /\ groups'[i].closed = "None")
             => LET c == dataDisk'[groups'[i].file]
                IN  c # NoData /\ (c.lost \/ Holds(c, groups'[i]))]_groupVars
  BY StepsOfGroups, SealedInFile DEF KeptInFile
<1> QED
  BY <1>1, GroupsInvHolds, PTL DEF GroupsSpec, CloseReported

-----------------------------------------------------------------------------
(* The refinement: the groups as GroupLifecycle sees them.                 *)
LifeOf(g) == [kind |-> <<g.driver, g.loc, g.scalar>>, sealed |-> ~g.edit,
              data |-> g.datasets, stats |-> g.stats]

LivesOf(gs) == [i \in DOMAIN gs |-> LifeOf(gs[i])]

LEMMA LivesTyped ==
    ASSUME NEW gs \in Seq(Group)
    PROVE  /\ Len(LivesOf(gs)) = Len(gs) /\ Len(gs) \in Nat
           /\ DOMAIN LivesOf(gs) = DOMAIN gs /\ DOMAIN gs = 1..Len(gs)
           /\ LivesOf(gs) \in Seq({LifeOf(g) : g \in Group})
           /\ \A i \in DOMAIN gs : LivesOf(gs)[i] = LifeOf(gs[i])
<1>1. Len(gs) \in Nat /\ DOMAIN gs = 1..Len(gs) /\ \A i \in DOMAIN gs : gs[i] \in Group
  BY LenProperties, ElementOfSeq
<1>2. LivesOf(gs) \in [1..Len(gs) -> {LifeOf(g) : g \in Group}]
  BY <1>1 DEF LivesOf
<1>3. LivesOf(gs) \in Seq({LifeOf(g) : g \in Group})
  BY <1>1, <1>2, SequenceMade
<1>4. Len(LivesOf(gs)) = Len(gs)
  BY <1>1, <1>2, <1>3, LenProperties
<1> QED
  BY <1>1, <1>3, <1>4 DEF LivesOf

LEMMA PrefixOf ==
    ASSUME NEW S, NEW s \in Seq(S), NEW t \in Seq(S), Len(s) <= Len(t),
           \A i \in 1..Len(s) : s[i] = t[i]
    PROVE  IsPrefix(s, t)
<1>1. Len(s) \in Nat /\ Len(t) \in Nat
  BY LenProperties
<1>2. (\A i \in 1..Len(s) : s[i] \in S) /\ (\A i \in 1..Len(s) : t[i] \in S)
  BY <1>1, ElementOfSeq
<1>3. /\ SubSeq(s, 1, Len(s)) \in Seq(S) /\ SubSeq(t, 1, Len(s)) \in Seq(S)
      /\ Len(SubSeq(s, 1, Len(s))) = Len(SubSeq(t, 1, Len(s)))
      /\ Len(SubSeq(s, 1, Len(s))) = IF 1 <= Len(s) THEN Len(s) - 1 + 1 ELSE 0
      /\ \A i \in 1..(Len(s) - 1 + 1) : SubSeq(s, 1, Len(s))[i] = s[1 + i - 1]
      /\ \A i \in 1..(Len(s) - 1 + 1) : SubSeq(t, 1, Len(s))[i] = t[1 + i - 1]
  BY <1>1, <1>2, SubSeqProperties
<1>4. Len(s) - 1 + 1 = Len(s) /\ \A i \in 1..Len(s) : 1 + i - 1 = i
  BY <1>1
<1>5. /\ Len(SubSeq(s, 1, Len(s))) = Len(s)
      /\ \A i \in 1..Len(s) : SubSeq(s, 1, Len(s))[i] = SubSeq(t, 1, Len(s))[i]
  BY <1>1, <1>3, <1>4
<1>6. SubSeq(s, 1, Len(s)) = SubSeq(t, 1, Len(s))
  BY <1>3, <1>5, SeqEqual
<1> QED
  BY <1>6 DEF IsPrefix

LEMMA LivesAppended ==
    ASSUME NEW gs \in Seq(Group), NEW g \in Group
    PROVE  /\ Len(LivesOf(Append(gs, g))) = Len(LivesOf(gs)) + 1
           /\ IsPrefix(LivesOf(gs), LivesOf(Append(gs, g)))
           /\ LivesOf(Append(gs, g))[Len(LivesOf(Append(gs, g)))] = LifeOf(g)
<1> DEFINE more == Append(gs, g)
<1>1. /\ more \in Seq(Group) /\ Len(more) = Len(gs) + 1 /\ more[Len(gs) + 1] = g
      /\ \A i \in 1..Len(gs) : more[i] = gs[i]
  BY AppendProperties
<1> HIDE DEF more
<1>2. /\ Len(LivesOf(gs)) = Len(gs) /\ Len(gs) \in Nat /\ DOMAIN gs = 1..Len(gs)
      /\ LivesOf(gs) \in Seq({LifeOf(x) : x \in Group})
      /\ \A i \in DOMAIN gs : LivesOf(gs)[i] = LifeOf(gs[i])
  BY LivesTyped
<1>3. /\ Len(LivesOf(more)) = Len(more) /\ DOMAIN more = 1..Len(more)
      /\ LivesOf(more) \in Seq({LifeOf(x) : x \in Group})
      /\ \A i \in DOMAIN more : LivesOf(more)[i] = LifeOf(more[i])
  BY <1>1, LivesTyped
<1>4. Len(gs) + 1 \in DOMAIN more /\ 1..Len(gs) \subseteq DOMAIN more
  BY <1>1, <1>2, <1>3
<1>5. \A i \in 1..Len(LivesOf(gs)) : LivesOf(gs)[i] = LivesOf(more)[i]
  BY <1>1, <1>2, <1>3, <1>4
<1>6. Len(LivesOf(gs)) <= Len(LivesOf(more))
  BY <1>1, <1>2, <1>3
<1>7. IsPrefix(LivesOf(gs), LivesOf(more))
  BY <1>2, <1>3, <1>5, <1>6, PrefixOf
<1>8. LivesOf(more)[Len(LivesOf(more))] = LifeOf(g)
  BY <1>1, <1>3, <1>4
<1>9. Len(LivesOf(more)) = Len(LivesOf(gs)) + 1
  BY <1>1, <1>2, <1>3
<1> QED
  BY <1>7, <1>8, <1>9 DEF more

LEMMA LivesRemoved ==
    ASSUME NEW gs \in Seq(Group), NEW i \in DOMAIN gs
    PROVE  LivesOf(RemoveAt(gs, i)) = RemoveAt(LivesOf(gs), i)
<1> DEFINE L == {LifeOf(x) : x \in Group}
           less == RemoveAt(gs, i)
<1>1. /\ Len(LivesOf(gs)) = Len(gs) /\ Len(gs) \in Nat /\ DOMAIN gs = 1..Len(gs)
      /\ LivesOf(gs) \in Seq(L) /\ \A j \in DOMAIN gs : LivesOf(gs)[j] = LifeOf(gs[j])
  BY LivesTyped
<1> HIDE DEF L
<1>2. /\ less \in Seq(Group) /\ Len(less) = Len(gs) - 1
      /\ \A j \in 1..(Len(gs) - 1) : less[j] = IF j < i THEN gs[j] ELSE gs[j + 1]
  BY <1>1, RemovedElements
<1>3. /\ RemoveAt(LivesOf(gs), i) \in Seq(L) /\ Len(RemoveAt(LivesOf(gs), i)) = Len(gs) - 1
      /\ \A j \in 1..(Len(gs) - 1) :
            RemoveAt(LivesOf(gs), i)[j] = IF j < i THEN LivesOf(gs)[j] ELSE LivesOf(gs)[j + 1]
  <2>1. i \in 1..Len(LivesOf(gs))
    BY <1>1
  <2> QED
    BY <1>1, <2>1, RemovedElements
<1> HIDE DEF less
<1>4. /\ Len(LivesOf(less)) = Len(less) /\ DOMAIN less = 1..Len(less)
      /\ LivesOf(less) \in Seq(L) /\ \A j \in DOMAIN less : LivesOf(less)[j] = LifeOf(less[j])
  BY <1>2, LivesTyped DEF L
<1>5. ASSUME NEW j \in 1..(Len(gs) - 1)
      PROVE  LivesOf(less)[j] = RemoveAt(LivesOf(gs), i)[j]
  <2>1. j \in DOMAIN gs /\ j + 1 \in DOMAIN gs
    BY <1>1
  <2>2. j \in DOMAIN less
    BY <1>2, <1>4
  <2>3. CASE j < i
    BY <1>1, <1>2, <1>3, <1>4, <2>1, <2>2, <2>3
  <2>4. CASE ~(j < i)
    BY <1>1, <1>2, <1>3, <1>4, <2>1, <2>2, <2>4
  <2> QED
    BY <2>3, <2>4
<1>6. LivesOf(less) = RemoveAt(LivesOf(gs), i)
  BY <1>2, <1>3, <1>4, <1>5, SeqEqual
<1> QED
  BY <1>6 DEF less

LEMMA LivesChanged ==
    ASSUME NEW gs \in Seq(Group), NEW hs \in Seq(Group), NEW i \in DOMAIN gs,
           DOMAIN hs = DOMAIN gs, \A j \in DOMAIN gs \ {i} : hs[j] = gs[j]
    PROVE  /\ Len(LivesOf(hs)) = Len(LivesOf(gs)) /\ DOMAIN LivesOf(hs) = DOMAIN LivesOf(gs)
           /\ LivesOf(hs)[i] = LifeOf(hs[i])
           /\ \A j \in DOMAIN LivesOf(gs) \ {i} : LivesOf(hs)[j] = LivesOf(gs)[j]
<1>1. Len(hs) = Len(gs)
  BY LenProperties
<1> QED
  BY <1>1, LivesTyped

(* What the statistics of a group are, GroupLifecycle's summary is.        *)
LEMMA SummaryIsExtremes ==
    ASSUME NEW data
    PROVE  Lives!Summary(data) = Extremes(AllValuesOf(data))
BY DEF Lives!Summary, Lives!AllValues, Extremes, AllValuesOf

LEMMA ClosedIsSealed ==
    ASSUME NEW g, NEW c, GroupSound(g, c), ~g.edit
    PROVE  Lives!Sealed(LifeOf(g))
<1>1. g.stats = Extremes(AllValuesOf(g.datasets))
  BY DEF GroupSound
<1> QED
  BY <1>1, SummaryIsExtremes DEF Lives!Sealed, LifeOf

LEMMA LifeSteps ==
    ASSUME GroupsInv, GroupsInv', GroupStep
    PROVE  Lives!LifeNext \/ LivesOf(groups)' = LivesOf(groups)
<1> DEFINE now == LivesOf(groups)
           next == LivesOf(groups')
<1>1. /\ groups \in Seq(Group) /\ groups' \in Seq(Group)
      /\ \A i \in DOMAIN groups : groups[i] \in Group /\ GroupSound(groups[i], counts)
      /\ \A i \in DOMAIN groups' : GroupSound(groups'[i], counts')
  BY GroupOfMesh DEF GroupsInv, GroupsSound
<1>2. DOMAIN now = DOMAIN groups
  BY <1>1, LivesTyped
<1>3. ASSUME NEW g \in Group, groups' = Append(groups, g), Born(g) PROVE Lives!OpenOrImport
  <2>1. /\ Len(next) = Len(now) + 1 /\ IsPrefix(now, next) /\ next[Len(next)] = LifeOf(g)
    BY <1>1, <1>3, LivesAppended
  <2>2. Lives!Opened(LifeOf(g)) \/ Lives!Sealed(LifeOf(g))
    <3>1. CASE ~g.edit
      <4>1. Len(groups) + 1 \in DOMAIN groups' /\ groups'[Len(groups) + 1] = g
        BY <1>1, <1>3, AppendProperties, LenProperties
      <4>2. GroupSound(g, counts')
        BY <1>1, <4>1
      <4> QED
        BY <3>1, <4>2, ClosedIsSealed
    <3>2. CASE g.edit
      BY <1>3, <3>2 DEF Born, Lives!Opened, LifeOf
    <3> QED
      BY <3>1, <3>2
  <2>3. /\ Len(next) = Len(now) + 1 /\ Lives!IsPrefix(now, next)
        /\ Lives!Opened(next[Len(next)]) \/ Lives!Sealed(next[Len(next)])
    BY <2>1, <2>2 DEF IsPrefix, Lives!IsPrefix
  <2> QED
    BY <2>3 DEF Lives!OpenOrImport, LivesOf, LifeOf
<1>4. ASSUME NEW i \in DOMAIN groups, Filled(i) PROVE Lives!Extend(i)
  <2>1. PICK d \in Dataset :
           groups[i].edit /\ groups' = [groups EXCEPT ![i].datasets = Append(@, d)]
    BY <1>4 DEF Filled
  <2> DEFINE g == [groups[i] EXCEPT !.datasets = Append(groups[i].datasets, d)]
  <2>2. groups[i] \in Group /\ groups[i].datasets \in Seq(Dataset)
    BY <1>4, GroupOfMesh
  <2>3. Append(groups[i].datasets, d) \in Seq(Dataset)
    BY <2>2, AppendProperties
  <2>4. /\ g \in Group /\ g.datasets = Append(groups[i].datasets, d) /\ g.edit = groups[i].edit
        /\ g.driver = groups[i].driver /\ g.loc = groups[i].loc /\ g.scalar = groups[i].scalar
    BY <2>2, <2>3 DEF Group
  <2>5. groups' = [groups EXCEPT ![i] = g]
    BY <2>1
  <2> HIDE DEF g
  <2>6. /\ Len(next) = Len(now) /\ DOMAIN next = DOMAIN now /\ next[i] = LifeOf(g)
        /\ \A j \in DOMAIN now \ {i} : next[j] = now[j]
    <3>1. /\ DOMAIN groups' = DOMAIN groups /\ groups'[i] = g
          /\ \A j \in DOMAIN groups \ {i} : groups'[j] = groups[j]
      BY <1>4, <2>5
    <3> QED
      BY <1>1, <1>4, <3>1, LivesChanged
  <2>7. now[i] = LifeOf(groups[i])
    BY <1>1, <1>4, LivesTyped
  <2>8. /\ Len(g.datasets) = Len(groups[i].datasets) + 1
        /\ IsPrefix(groups[i].datasets, g.datasets)
    <3>1. /\ Len(Append(groups[i].datasets, d)) = Len(groups[i].datasets) + 1
          /\ Len(groups[i].datasets) \in Nat
          /\ \A j \in 1..Len(groups[i].datasets) :
                groups[i].datasets[j] = Append(groups[i].datasets, d)[j]
      BY <2>2, AppendProperties, LenProperties
    <3>2. Len(groups[i].datasets) <= Len(Append(groups[i].datasets, d))
      BY <3>1
    <3>3. IsPrefix(groups[i].datasets, Append(groups[i].datasets, d))
      BY <2>2, <2>3, <3>1, <3>2, PrefixOf
    <3> QED
      BY <2>4, <3>1, <3>3
  <2>9. /\ now[i].sealed = ~groups[i].edit /\ now[i].data = groups[i].datasets
        /\ now[i].kind = <<groups[i].driver, groups[i].loc, groups[i].scalar>>
        /\ next[i].sealed = ~g.edit /\ next[i].data = g.datasets
        /\ next[i].kind = <<g.driver, g.loc, g.scalar>>
    BY <2>6, <2>7 DEF LifeOf
  <2>10. Lives!IsPrefix(now[i].data, next[i].data)
    BY <2>8, <2>9 DEF IsPrefix, Lives!IsPrefix
  <2>11. /\ ~now[i].sealed /\ ~next[i].sealed /\ next[i].kind = now[i].kind
         /\ Len(next[i].data) = Len(now[i].data) + 1
    BY <2>1, <2>4, <2>8, <2>9
  <2> QED
    BY <2>6, <2>10, <2>11 DEF Lives!Extend, Lives!Changes, LivesOf, LifeOf
<1>5. ASSUME NEW i \in DOMAIN groups, NEW f \in DataFiles, NEW r \in Statuses, SealedAs(i, f, r)
      PROVE  Lives!Seal(i)
  <2> DEFINE g == Closed(groups[i], f, r)
  <2>1. groups' = [groups EXCEPT ![i] = g] /\ groups[i].edit
    BY <1>5 DEF SealedAs
  <2>2. groups'[i] = g /\ i \in DOMAIN groups'
    BY <1>1, <1>5, <2>1
  <2>3. g \in Group /\ GroupSound(g, counts')
    BY <1>1, <2>2 DEF GroupSound
  <2>4. /\ g.edit = FALSE /\ g.datasets = groups[i].datasets /\ g.driver = groups[i].driver
        /\ g.loc = groups[i].loc /\ g.scalar = groups[i].scalar
    BY <1>5, GroupOfMesh DEF Closed, Group
  <2> HIDE DEF g
  <2>5. /\ Len(next) = Len(now) /\ DOMAIN next = DOMAIN now /\ next[i] = LifeOf(g)
        /\ \A j \in DOMAIN now \ {i} : next[j] = now[j]
    <3>1. /\ DOMAIN groups' = DOMAIN groups /\ groups'[i] = g
          /\ \A j \in DOMAIN groups \ {i} : groups'[j] = groups[j]
      BY <1>5, <2>1
    <3> QED
      BY <1>1, <1>5, <3>1, LivesChanged
  <2>6. now[i] = LifeOf(groups[i])
    BY <1>1, <1>5, LivesTyped
  <2>7. Lives!Sealed(LifeOf(g))
    BY <2>3, <2>4, ClosedIsSealed
  <2>8. /\ now[i].sealed = ~groups[i].edit /\ now[i].data = groups[i].datasets
        /\ now[i].kind = <<groups[i].driver, groups[i].loc, groups[i].scalar>>
        /\ next[i].data = g.datasets /\ next[i].kind = <<g.driver, g.loc, g.scalar>>
    BY <2>5, <2>6 DEF LifeOf
  <2>9. /\ ~now[i].sealed /\ Lives!Sealed(next[i]) /\ next[i].kind = now[i].kind
        /\ next[i].data = now[i].data
    BY <2>1, <2>4, <2>5, <2>7, <2>8
  <2> QED
    BY <2>5, <2>9 DEF Lives!Seal, Lives!Changes, LivesOf, LifeOf
<1>6. ASSUME NEW i \in DOMAIN groups, ~groups[i].edit,
             groups' = [groups EXCEPT ![i].closed = "None"]
      PROVE  next = now
  <2> DEFINE g == [groups[i] EXCEPT !.closed = "None"]
  <2>1. groups' = [groups EXCEPT ![i] = g]
    BY <1>6
  <2>2. groups'[i] = g /\ i \in DOMAIN groups'
    BY <1>1, <1>6, <2>1
  <2>3. g \in Group /\ LifeOf(g) = LifeOf(groups[i])
    BY <1>1, <2>2 DEF GroupSound, LifeOf, Group
  <2> HIDE DEF g
  <2>4. DOMAIN groups' = DOMAIN groups /\ \A j \in DOMAIN groups \ {i} : groups'[j] = groups[j]
    BY <2>1
  <2>5. \A j \in DOMAIN groups : LifeOf(groups'[j]) = LifeOf(groups[j])
    BY <2>2, <2>3, <2>4
  <2> QED
    BY <2>4, <2>5 DEF LivesOf
<1>7. ASSUME NEW i \in DOMAIN groups, groups' = RemoveAt(groups, i) PROVE Lives!Drop(i)
  <2>1. next = RemoveAt(now, i)
    BY <1>1, <1>7, LivesRemoved
  <2>2. next = Lives!RemoveAt(now, i)
    BY <2>1 DEF RemoveAt, Lives!RemoveAt
  <2> QED
    BY <2>2 DEF Lives!Drop, LivesOf, LifeOf
<1>8. ASSUME groups' = <<>> PROVE Lives!Clear
  <2>1. next = <<>>
    BY <1>8 DEF LivesOf
  <2> QED
    BY <2>1 DEF Lives!Clear, LivesOf, LifeOf
<1>9. ASSUME groups = <<>>, \A i \in DOMAIN groups' : ~groups'[i].edit PROVE Lives!Companions
  <2>1. now = <<>>
    BY <1>9 DEF LivesOf
  <2>2. \A i \in DOMAIN next : Lives!Sealed(next[i])
    <3>1. DOMAIN next = DOMAIN groups' /\ \A i \in DOMAIN groups' : next[i] = LifeOf(groups'[i])
      BY <1>1, LivesTyped
    <3> QED
      BY <1>1, <1>9, <3>1, ClosedIsSealed
  <2> QED
    BY <2>1, <2>2 DEF Lives!Companions, LivesOf, LifeOf
<1>10. ASSUME groups' = groups PROVE next = now
  BY <1>10
<1>11. ASSUME NEW i \in DOMAIN groups, Lives!Extend(i) \/ Lives!Seal(i) \/ Lives!Drop(i)
       PROVE  Lives!LifeNext
  <2>1. i \in DOMAIN now
    BY <1>2
  <2> QED
    BY <1>11, <2>1 DEF Lives!LifeNext, LivesOf, LifeOf
<1>12. Lives!OpenOrImport \/ Lives!Clear \/ Lives!Companions => Lives!LifeNext
  BY DEF Lives!LifeNext
<1> QED
  BY <1>3, <1>4, <1>5, <1>6, <1>7, <1>8, <1>9, <1>10, <1>11, <1>12 DEF GroupStep

(* The dataset groups of the C API implement GroupLifecycle: datasets are  *)
(* appended in edit mode only, a group is sealed once, with complete       *)
(* statistics, and is never changed after.                                 *)
THEOREM RefinesLifecycle == GroupsSpec => ImplementsLifecycle
<1>1. GroupsInit => Lives!LifeInit
  BY DEF GroupsInit, Lives!LifeInit
<1>2. GroupsInv /\ GroupsInv' /\ [GroupsNext]_groupVars =>
         [Lives!LifeNext]_[i \in DOMAIN groups |->
            [kind   |-> <<groups[i].driver, groups[i].loc, groups[i].scalar>>,
             sealed |-> ~groups[i].edit,
             data   |-> groups[i].datasets,
             stats  |-> groups[i].stats]]
  <2> SUFFICES ASSUME GroupsInv, GroupsInv', [GroupsNext]_groupVars
               PROVE  Lives!LifeNext \/ LivesOf(groups)' = LivesOf(groups)
    BY DEF LivesOf, LifeOf
  <2> QED
    BY StepsOfGroups, LifeSteps
<1> QED
  BY <1>1, <1>2, GroupsInvHolds, PTL DEF GroupsSpec, ImplementsLifecycle, Lives!LifeSpec
=============================================================================
