------------------------- MODULE Flo2dFolder_proofs -------------------------
(***************************************************************************)
(* What becomes of the groups in TIMDEP.HDF5, whatever folder, meshes,     *)
(* groups and faults there are: the file holds what such a file may hold,  *)
(* a group in it is never overwritten, and one that a close reported as    *)
(* written stays there, under its name or that name numbered.  And what    *)
(* the meshes are that are loaded from the text files: cells tile a grid,  *)
(* channel nodes lie between their banks and have their hydrographs.       *)
(***************************************************************************)
EXTENDS Flo2dFolder, WellFoundedInduction, TLAPS

ClosingSound ==
    closing.open =>
        /\ closing.group \in Groups
        /\ closing.name \in {closing.group.name, Numbered[closing.group.name]}
        /\ closing.taken \in BOOLEAN
        /\ closing = [open |-> TRUE, group |-> closing.group, name |-> closing.name,
                      taken |-> closing.taken]

FolderInv == Flo2dTypeOK /\ ClosingSound /\ Len(mesh.faces) \in Nat

-----------------------------------------------------------------------------
LEMMA GroupsTyped ==
    ASSUME NEW g \in Groups
    PROVE  g \in Group /\ Numbered[g.name] \in Names
BY Flo2dAssumption DEF Group

(* A name and that name numbered lie in the same group.                    *)
LEMMA NumberedAbove ==
    ASSUME NEW g \in Groups, NEW n \in {g.name, Numbered[g.name]}
    PROVE  Above[n] = Above[g.name]
BY Flo2dAssumption DEF Group

LEMMA HeadlessIsFile == IsFile(Headless) /\ IsFile(NoFile)
BY DEF IsFile, Headless, NoFile

(* What a close puts into the file is what the file may hold: nothing is 0.*)
LEMMA EntryTyped ==
    ASSUME NEW g \in Groups, NEW stage \in {"whole", "broken", "unfilled"},
           Len(mesh.faces) \in Nat
    PROVE  EntryOf(g, stage) \in Entry
<1>1. g.vector \in BOOLEAN /\ g.holds \in Seq(Values)
  BY GroupsTyped DEF Group
<1>2. [i \in DOMAIN g.holds |-> ValueWritten(g.holds[i])] \in Seq(ValuesStored)
  <2>1. \A i \in DOMAIN g.holds : ValueWritten(g.holds[i]) \in ValuesStored
    BY <1>1 DEF ValueWritten, Values, ValuesStored
  <2>2. DOMAIN g.holds = 1..Len(g.holds) /\ Len(g.holds) \in Nat
    BY <1>1
  <2> QED
    BY <2>1, <2>2
<1> QED
  BY <1>1, <1>2 DEF EntryOf, Entry

(* A group that is added changes none of the others.                       *)
LEMMA AddedEntries ==
    ASSUME NEW file, IsFile(file), NEW n, NEW e
    PROVE  /\ DOMAIN Added(file, n, e) = {"there", "rooted", "groups"}
           /\ Added(file, n, e).there = file.there
           /\ Added(file, n, e).rooted = file.rooted
           /\ DOMAIN Added(file, n, e).groups = DOMAIN file.groups \cup {n}
           /\ Added(file, n, e).groups[n] = e
           /\ \A m \in DOMAIN file.groups :
                 m # n => Added(file, n, e).groups[m] = file.groups[m]
BY DEF Added, IsFile

LEMMA AddedIsFile ==
    ASSUME NEW file, IsFile(file), file.rooted, NEW n \in Names, NEW e \in Entry,
           Reached(n, file.groups)
    PROVE  IsFile(Added(file, n, e))
BY AddedEntries DEF IsFile, Reached
-----------------------------------------------------------------------------
(* A mesh that is loaded is none, a 1D or a 2D mesh, with a number of faces.*)
LEMMA LoadedTyped ==
    ASSUME NEW f \in Folders, NEW file, NEW name
    PROVE  LET loaded == Loaded(f, file, name)
           IN  /\ loaded.mesh.kind \in MeshKinds \cup {"none"}
               /\ loaded.mesh.kind = "none" => loaded.mesh = NoMesh
               /\ Len(loaded.mesh.faces) \in Nat
               /\ loaded.status \in Flo2dStatuses
<1>1. Len(Faces2d(f)) \in Nat /\ Len(NoMesh.faces) \in Nat
  <2>1. f.cells \in Seq(Int \X Int)
    BY Flo2dAssumption DEF IsFolder
  <2>2. DOMAIN Faces2d(f) = 1..Len(f.cells) /\ Len(f.cells) \in Nat
    BY <2>1 DEF Faces2d, Cells
  <2>3. PICK n \in Nat : DOMAIN Faces2d(f) = 1..n
    BY <2>2
  <2>4. Len(Faces2d(f)) = n
    BY <2>3
  <2> QED
    BY <2>4 DEF NoMesh
<1>2. /\ Load2d(f, file).mesh.kind \in MeshKinds \cup {"none"}
      /\ Load2d(f, file).mesh.kind = "none" => Load2d(f, file).mesh = NoMesh
      /\ Len(Load2d(f, file).mesh.faces) \in Nat
      /\ Load2d(f, file).status \in Flo2dStatuses
  BY <1>1 DEF Load2d, NoMesh, MeshKinds, Flo2dStatuses
<1>3. /\ Load1d(f).mesh.kind \in MeshKinds \cup {"none"}
      /\ Load1d(f).mesh.kind = "none" => Load1d(f).mesh = NoMesh
      /\ Len(Load1d(f).mesh.faces) \in Nat
      /\ Load1d(f).status \in Flo2dStatuses
  BY <1>1 DEF Load1d, NoMesh, MeshKinds, Flo2dStatuses
<1> QED
  BY <1>2, <1>3 DEF Loaded

LEMMA FolderInvInit == Flo2dInit => FolderInv
BY Flo2dAssumption
DEF Flo2dInit, FolderInv, Flo2dTypeOK, ClosingSound, NoMesh, NoClosing, Flo2dStatuses

LEMMA FolderInvNext == FolderInv /\ [Flo2dNext]_vars => FolderInv'
<1> SUFFICES ASSUME FolderInv, [Flo2dNext]_vars PROVE FolderInv'
  OBVIOUS
<1> USE DEF FolderInv, Flo2dTypeOK, ClosingSound
<1>1. ASSUME NEW name \in MeshKinds \cup {""}, LoadMesh(name) PROVE FolderInv'
  <2>1. CASE CanReadMesh(folder)
    <3>1. mesh' = Loaded(folder, hdf, name).mesh /\ status' = Loaded(folder, hdf, name).status
      BY <1>1, <2>1 DEF LoadMesh
    <3> QED
      BY <1>1, <3>1, LoadedTyped DEF LoadMesh, Idle
  <2>2. CASE ~CanReadMesh(folder)
    BY <1>1, <2>2 DEF LoadMesh, Flo2dStatuses
  <2> QED
    BY <2>1, <2>2
<1>2. ASSUME NEW n \in OtherFaces, OtherMesh(n) PROVE FolderInv'
  <2>1. mesh'.kind = "other" /\ mesh'.faces = [i \in 1..n |-> <<>>] /\ status' = "None"
    BY <1>2 DEF OtherMesh, NoMesh
  <2>2. n \in Nat
    BY Flo2dAssumption
  <2>3. Len(mesh'.faces) = n
    BY <2>1, <2>2
  <2> QED
    BY <1>2, <2>1, <2>2, <2>3 DEF OtherMesh, Idle, Flo2dStatuses
<1>3. ASSUME CloseMesh PROVE FolderInv'
  BY <1>3 DEF CloseMesh, Idle, NoMesh
<1>4. ASSUME LoadDatasets PROVE FolderInv'
  <2>1. mesh'.kind = mesh.kind /\ mesh.kind # "none" /\ Len(mesh'.faces) \in Nat
    BY <1>4 DEF LoadDatasets
  <2>2. status' \in Flo2dStatuses
    BY <1>4 DEF LoadDatasets, Flo2dStatuses
  <2> QED
    BY <1>4, <2>1, <2>2 DEF LoadDatasets
<1>5. ASSUME NEW g \in Groups, CloseEditMode(g) PROVE FolderInv'
  <2>1. IsFile(hdf') /\ hdf'.rooted
    BY <1>5 DEF CloseEditMode, IsFile
  <2> QED
    BY <1>5, <2>1 DEF CloseEditMode, Flo2dStatuses
<1>6. ASSUME CloseEditModeRefused PROVE FolderInv'
  BY <1>6, HeadlessIsFile DEF CloseEditModeRefused, Idle, Flo2dStatuses
<1>7. ASSUME FindTaken PROVE FolderInv'
  BY <1>7 DEF FindTaken
<1>8. ASSUME NextName PROVE FolderInv'
  BY <1>8 DEF NextName
<1>9. ASSUME WriteGroup PROVE FolderInv'
  <2>1. closing.name \in Names
    BY <1>9, GroupsTyped DEF WriteGroup, Group
  <2>2. IsFile(hdf')
    BY <1>9, <2>1, EntryTyped, AddedIsFile DEF WriteGroup
  <2> QED
    BY <1>9, <2>2 DEF WriteGroup, NoClosing, Flo2dStatuses
<1>10. ASSUME WriteGroupFails PROVE FolderInv'
  <2>1. closing.name \in Names
    BY <1>10, GroupsTyped DEF WriteGroupFails, Group
  <2>2. IsFile(hdf')
    BY <1>10, <2>1, EntryTyped, AddedIsFile DEF WriteGroupFails
  <2> QED
    BY <1>10, <2>2 DEF WriteGroupFails, NoClosing, Flo2dStatuses
<1>11. ASSUME Killed PROVE FolderInv'
  BY <1>11, HeadlessIsFile DEF Killed, NoClosing, NoMesh, Flo2dStatuses
<1>12. CASE UNCHANGED vars
  BY <1>12 DEF vars
<1> QED
  BY <1>1, <1>2, <1>3, <1>4, <1>5, <1>6, <1>7, <1>8, <1>9, <1>10, <1>11, <1>12 DEF Flo2dNext

(* The inductive invariant: the types, and that a close under way is for a *)
(* group of the client and looks for one of its two names.                 *)
THEOREM FolderInvHolds == Flo2dSpec => []FolderInv
BY FolderInvInit, FolderInvNext, PTL DEF Flo2dSpec

(* Type correctness: the file never holds what stands for nothing as       *)
(* anything but 0, nor a group outside its root (toFlo2DDouble,            *)
(* addToHDF5File, saveNewHDF5File).                                        *)
THEOREM Flo2dTypeCorrect == Flo2dSpec => []Flo2dTypeOK
<1>1. FolderInv => Flo2dTypeOK
  BY DEF FolderInv
<1> QED
  BY <1>1, FolderInvHolds, PTL

-----------------------------------------------------------------------------
(* What is in the file is not written again: a close gives its group a name*)
(* that no other has (appendGroup, and persist when it fails).  Only a     *)
(* process that is killed while it writes may take all with it.            *)
EntriesStay ==
    [][\/ hdf' = Headless
       \/ \A n \in DOMAIN hdf.groups :
             n \in DOMAIN hdf'.groups /\ hdf'.groups[n] = hdf.groups[n]]_vars

(* A group that a close reported as written is in the file, under its name *)
(* or that name numbered.                                                  *)
StoredAs(p, n, file) ==
    /\ n \in DOMAIN file.groups
    /\ file.groups[n] = [vector |-> p.group.vector, faces |-> p.faces,
                         holds |-> [i \in DOMAIN p.group.holds |->
                                       ValueWritten(p.group.holds[i])],
                         stage |-> "whole"]

Stored(p, file) == \E n \in {p.group.name, Numbered[p.group.name]} : StoredAs(p, n, file)

PromisesKept == hdf.rooted => \A p \in promised : Stored(p, hdf)

(* Once there is a promise there is a file, which is never made anew.      *)
KeptInv == PromisesKept /\ (promised # {} => hdf.there)

LEMMA StepKeepsEntries ==
    ASSUME FolderInv, [Flo2dNext]_vars
    PROVE  \/ hdf' = Headless
           \/ /\ hdf.rooted => hdf'.rooted
              /\ \A n \in DOMAIN hdf.groups :
                    n \in DOMAIN hdf'.groups /\ hdf'.groups[n] = hdf.groups[n]
<1>1. IsFile(hdf)
  BY DEF FolderInv, Flo2dTypeOK
<1>2. ASSUME NEW g \in Groups, CloseEditMode(g)
      PROVE  /\ hdf.rooted => hdf'.rooted
             /\ hdf'.groups = hdf.groups
  BY <1>1, <1>2 DEF CloseEditMode, IsFile
<1>3. ASSUME WriteGroup \/ WriteGroupFails
      PROVE  /\ hdf.rooted => hdf'.rooted
             /\ \A n \in DOMAIN hdf.groups :
                   n \in DOMAIN hdf'.groups /\ hdf'.groups[n] = hdf.groups[n]
  <2>1. closing.name \notin DOMAIN hdf.groups
    BY <1>3 DEF WriteGroup, WriteGroupFails, NameTaken
  <2>2. hdf' = hdf \/ \E e : hdf' = Added(hdf, closing.name, e)
    BY <1>3 DEF WriteGroup, WriteGroupFails
  <2> QED
    BY <1>1, <2>1, <2>2, AddedEntries
<1>4. \/ hdf' \in {hdf, Headless}
      \/ \E g \in Groups : CloseEditMode(g)
      \/ WriteGroup \/ WriteGroupFails
  BY DEF Flo2dNext, LoadMesh, OtherMesh, CloseMesh, LoadDatasets, CloseEditModeRefused,
         FindTaken, NextName, Killed, vars
<1> QED
  BY <1>2, <1>3, <1>4

(* A promise is made of a group that has just been written, under a name   *)
(* that the search found.                                                  *)
LEMMA NewPromise ==
    ASSUME FolderInv, WriteGroup,
           NEW p, p = [group |-> closing.group, faces |-> Len(mesh.faces)]
    PROVE  Stored(p, hdf')
<1>1. hdf' = Added(hdf, closing.name, EntryOf(closing.group, "whole"))
  BY DEF WriteGroup
<1>2. closing.name \in {p.group.name, Numbered[p.group.name]}
  BY DEF WriteGroup, FolderInv, ClosingSound
<1>3. IsFile(hdf)
  BY DEF FolderInv, Flo2dTypeOK
<1>4. StoredAs(p, closing.name, hdf')
  BY <1>1, <1>3, AddedEntries DEF StoredAs, EntryOf
<1> QED
  BY <1>2, <1>4 DEF Stored

LEMMA KeptInvInit == Flo2dInit => KeptInv
BY DEF Flo2dInit, KeptInv, PromisesKept

LEMMA KeptInvNext == FolderInv /\ KeptInv /\ [Flo2dNext]_vars => KeptInv'
<1> SUFFICES ASSUME FolderInv, KeptInv, [Flo2dNext]_vars PROVE KeptInv'
  OBVIOUS
<1>1. IsFile(hdf)
  BY DEF FolderInv, Flo2dTypeOK
<1>2. hdf.there => hdf'.there
  <2>1. closing.open => hdf.rooted /\ hdf.there
    BY <1>1 DEF FolderInv, Flo2dTypeOK, IsFile
  <2>2. WriteGroup \/ WriteGroupFails => hdf'.there
    <3>1. CASE WriteGroup
      BY <1>1, <2>1, <3>1, AddedEntries DEF WriteGroup
    <3>2. CASE WriteGroupFails
      <4>1. hdf' = hdf \/ \E e : hdf' = Added(hdf, closing.name, e)
        BY <3>2 DEF WriteGroupFails
      <4>2. closing.open
        BY <3>2 DEF WriteGroupFails
      <4>3. CASE hdf' = hdf
        BY <2>1, <4>2, <4>3
      <4>4. ASSUME NEW e, hdf' = Added(hdf, closing.name, e)
            PROVE  hdf'.there
        <5>1. Added(hdf, closing.name, e).there = hdf.there
          BY <1>1, AddedEntries
        <5> QED
          BY <2>1, <4>2, <4>4, <5>1
      <4> QED
        BY <4>1, <4>3, <4>4
    <3> QED
      BY <3>1, <3>2
  <2>3. \A g \in Groups : CloseEditMode(g) => hdf'.there
    BY <1>1 DEF CloseEditMode, IsFile
  <2>4. CloseEditModeRefused \/ Killed => hdf' \in {hdf, Headless}
    BY DEF CloseEditModeRefused, Killed
  <2>5. Headless.there
    BY DEF Headless, NoFile
  <2>6. hdf'.there \/ hdf' = hdf
    BY <2>2, <2>3, <2>4, <2>5
    DEF Flo2dNext, LoadMesh, OtherMesh, CloseMesh, LoadDatasets, FindTaken, NextName, vars
  <2> QED
    BY <2>6
<1>3. promised' # {} => hdf'.there
  <2>1. CASE promised # {}
    BY <1>2, <2>1 DEF KeptInv
  <2>2. CASE promised = {}
    <3>1. promised' # {} => WriteGroup
      BY <2>2 DEF Flo2dNext, LoadMesh, OtherMesh, CloseMesh, LoadDatasets, CloseEditMode,
                  CloseEditModeRefused, FindTaken, NextName, WriteGroupFails, Killed, vars
    <3>2. WriteGroup => hdf'.there
      BY <1>1, AddedEntries DEF WriteGroup, FolderInv, Flo2dTypeOK, IsFile
    <3> QED
      BY <3>1, <3>2
  <2> QED
    BY <2>1, <2>2
<1>4. ASSUME hdf'.rooted, NEW p \in promised'
      PROVE  Stored(p, hdf')
  <2>1. hdf' # Headless
    BY <1>4 DEF Headless, NoFile
  <2>2. CASE p \in promised
    <3>1. hdf.rooted
      <4>1. hdf.there
        BY <2>2 DEF KeptInv
      <4> QED
        BY <1>1, <1>4, <4>1, <2>1, AddedEntries
        DEF Flo2dNext, LoadMesh, OtherMesh, CloseMesh, LoadDatasets, CloseEditMode,
            CloseEditModeRefused, FindTaken, NextName, WriteGroup, WriteGroupFails, Killed,
            vars, FolderInv, Flo2dTypeOK
    <3>2. PICK n \in {p.group.name, Numbered[p.group.name]} : StoredAs(p, n, hdf)
      BY <2>2, <3>1 DEF KeptInv, PromisesKept, Stored
    <3>3. StoredAs(p, n, hdf')
      BY <2>1, <3>2, StepKeepsEntries DEF StoredAs
    <3> QED
      BY <3>2, <3>3 DEF Stored
  <2>3. CASE p \notin promised
    <3>1. WriteGroup
      BY <1>4, <2>3
      DEF Flo2dNext, LoadMesh, OtherMesh, CloseMesh, LoadDatasets, CloseEditMode,
          CloseEditModeRefused, FindTaken, NextName, WriteGroupFails, Killed, vars
    <3>2. p = [group |-> closing.group, faces |-> Len(mesh.faces)]
      BY <1>4, <2>3, <3>1 DEF WriteGroup
    <3> QED
      BY <3>1, <3>2, NewPromise
  <2> QED
    BY <2>2, <2>3
<1> QED
  BY <1>3, <1>4 DEF KeptInv, PromisesKept

(* A group in TIMDEP.HDF5 is never overwritten, by a close of a namesake,  *)
(* one that fails or anything else (appendGroup: "make sure we have unique *)
(* group name").                                                           *)
THEOREM EntriesAreKept == Flo2dSpec => EntriesStay
<1>1. FolderInv /\ [Flo2dNext]_vars =>
        [\/ hdf' = Headless
         \/ \A n \in DOMAIN hdf.groups :
               n \in DOMAIN hdf'.groups /\ hdf'.groups[n] = hdf.groups[n]]_vars
  BY StepKeepsEntries
<1> QED
  BY <1>1, FolderInvHolds, PTL DEF Flo2dSpec, EntriesStay

(* What a close reported as written is in the file as long as the file can *)
(* be read at all, whatever was closed, failed or loaded since.            *)
THEOREM PromisesAreKept == Flo2dSpec => []PromisesKept
<1>1. KeptInv => PromisesKept
  BY DEF KeptInv
<1> QED
  BY <1>1, KeptInvInit, KeptInvNext, FolderInvHolds, PTL DEF Flo2dSpec

-----------------------------------------------------------------------------
(* Induction over the natural numbers, on sets of them.                    *)
LEMMA LeastOf ==
    ASSUME NEW T \in SUBSET Nat, T # {}
    PROVE  \E n \in T : \A m \in T : n <= m
<1> DEFINE R == OpToRel(<, Nat)
<1>1. IsWellFoundedOn(R, Nat)
  BY NatLessThanWellFounded
<1> HIDE DEF R
<1>2. \E x \in T : \A y \in T : <<y, x>> \notin R
  BY <1>1, WFMin
<1>3. \A x, y \in Nat : <<y, x>> \notin R => x <= y
  BY DEF R, OpToRel
<1> QED
  BY <1>2, <1>3

LEMMA UpTo ==
    ASSUME NEW n \in Nat, NEW S, 0 \in S,
           \A k \in 1..n : k - 1 \in S => k \in S
    PROVE  0..n \subseteq S
<1> DEFINE T == {k \in 0..n : k \notin S}
<1> SUFFICES ASSUME T # {} PROVE FALSE
  OBVIOUS
<1>1. T \in SUBSET Nat
  OBVIOUS
<1>2. PICK k \in T : \A m \in T : k <= m
  <2> HIDE DEF T
  <2> QED
    BY <1>1, LeastOf
<1>3. k \in 1..n /\ k - 1 \in 0..n
  BY <1>2
<1>4. k - 1 \notin T
  BY <1>2, <1>3
<1> QED
  BY <1>2, <1>3, <1>4

(* The functions that a definition by recursion over 0..n stands for.      *)
Runs(n, S, x, step) ==
    {g \in [0..n -> S] : g[0] = x /\ \A k \in 1..n : g[k] = step[<<g[k - 1], k>>]}

LEMMA StepsFrom ==
    ASSUME NEW n \in Nat, NEW S, NEW x \in S, NEW step \in [S \X (1..n) -> S]
    PROVE  Runs(n, S, x, step) # {}
<1> DEFINE G(m) == {g \in [0..m -> S] :
                       g[0] = x /\ \A k \in 1..m : g[k] = step[<<g[k - 1], k>>]}
           T == {m \in 0..n : G(m) # {}}
<1>1. 0 \in T
  <2>1. [k \in 0..0 |-> x] \in G(0)
    OBVIOUS
  <2> QED
    BY <2>1
<1>2. ASSUME NEW m \in 1..n, m - 1 \in T PROVE m \in T
  <2>1. PICK g \in G(m - 1) : TRUE
    BY <1>2
  <2>2. /\ g \in [0..(m - 1) -> S] /\ g[0] = x
        /\ \A k \in 1..(m - 1) : g[k] = step[<<g[k - 1], k>>]
    BY <2>1
  <2> DEFINE h == [k \in 0..m |-> IF k = m THEN step[<<g[m - 1], m>>] ELSE g[k]]
  <2>3. g[m - 1] \in S /\ step[<<g[m - 1], m>>] \in S
    <3>1. m - 1 \in 0..(m - 1)
      OBVIOUS
    <3> QED
      BY <2>2, <3>1
  <2>4. h \in [0..m -> S]
    <3>1. ASSUME NEW k \in 0..m, k # m PROVE g[k] \in S
      <4>1. k \in 0..(m - 1)
        BY <3>1
      <4> QED
        BY <2>2, <4>1
    <3> QED
      BY <2>3, <3>1
  <2>5. h[0] = x
    BY <2>2
  <2>6. ASSUME NEW k \in 1..m PROVE h[k] = step[<<h[k - 1], k>>]
    <3>1. k - 1 \in 0..m /\ k - 1 # m /\ k \in 0..m
      OBVIOUS
    <3>2. h[k - 1] = g[k - 1]
      BY <3>1
    <3>3. CASE k = m
      <4>1. h[k] = step[<<g[m - 1], m>>]
        BY <3>1, <3>3
      <4> QED
        BY <3>2, <3>3, <4>1
    <3>4. CASE k # m
      <4>1. k \in 1..(m - 1)
        BY <3>4
      <4> QED
        BY <2>2, <3>2, <3>4, <4>1
    <3> QED
      BY <3>3, <3>4
  <2>7. h \in G(m)
    <3> HIDE DEF h
    <3> QED
      BY <2>4, <2>5, <2>6
  <2>8. m \in 0..n
    OBVIOUS
  <2> HIDE DEF G, h
  <2> QED
    BY <2>7, <2>8
<1>3. n \in T
  <2> HIDE DEF T
  <2>1. 0..n \subseteq T
    BY <1>1, <1>2, UpTo
  <2> QED
    BY <2>1
<1> QED
  BY <1>3 DEF Runs

(* The names in the file are read one after the other.                     *)
LEMMA NamesStep ==
    ASSUME NEW file
    PROVE  /\ Len(NamesInOrder) \in Nat
           /\ NamesUpTo(file) \in [0..Len(NamesInOrder) -> Seq(Names)]
           /\ NamesUpTo(file)[0] = <<>>
           /\ \A k \in 1..Len(NamesInOrder) :
                 NamesUpTo(file)[k] = IF NamesInOrder[k] \in DOMAIN file.groups
                                      THEN Append(NamesUpTo(file)[k - 1], NamesInOrder[k])
                                      ELSE NamesUpTo(file)[k - 1]
<1> DEFINE F == NamesUpTo(file)
           N == Len(NamesInOrder)
           S == Seq(Names)
           step == [y \in S \X (1..N) |->
                       IF NamesInOrder[y[2]] \in DOMAIN file.groups
                       THEN Append(y[1], NamesInOrder[y[2]]) ELSE y[1]]
<1>0. N \in Nat /\ \A k \in 1..N : NamesInOrder[k] \in Names
  BY Flo2dAssumption
<1> HIDE DEF N
<1>1. \A s \in S, k \in 1..N : Append(s, NamesInOrder[k]) \in S
  BY <1>0
<1>2. step \in [S \X (1..N) -> S]
  <2> HIDE DEF S
  <2> QED
    BY <1>1
<1>3. \A s \in S, k \in 1..N :
         step[<<s, k>>] = IF NamesInOrder[k] \in DOMAIN file.groups
                          THEN Append(s, NamesInOrder[k]) ELSE s
  <2> HIDE DEF S
  <2> QED
    OBVIOUS
<1>4. PICK g \in [0..N -> S] :
         g[0] = <<>> /\ \A k \in 1..N : g[k] = step[<<g[k - 1], k>>]
  <2>1. <<>> \in S
    OBVIOUS
  <2> HIDE DEF step, S
  <2>2. Runs(N, S, <<>>, step) # {}
    BY <1>0, <1>2, <2>1, StepsFrom
  <2> QED
    BY <2>2 DEF Runs
<1> HIDE DEF S, step
<1>5. \A k \in 1..N :
         g[k] = IF NamesInOrder[k] \in DOMAIN file.groups
                THEN Append(g[k - 1], NamesInOrder[k]) ELSE g[k - 1]
  <2>1. ASSUME NEW k \in 1..N PROVE g[k - 1] \in S
    <3>1. k - 1 \in 0..N
      BY <1>0
    <3> QED
      BY <3>1
  <2> QED
    BY <1>3, <1>4, <2>1
<1>6. g = [k \in 0..N |-> IF k = 0 THEN <<>>
                          ELSE IF NamesInOrder[k] \in DOMAIN file.groups
                          THEN Append(g[k - 1], NamesInOrder[k]) ELSE g[k - 1]]
  <2>1. ASSUME NEW k \in 0..N, k # 0
        PROVE  g[k] = IF NamesInOrder[k] \in DOMAIN file.groups
                      THEN Append(g[k - 1], NamesInOrder[k]) ELSE g[k - 1]
    <3>1. k \in 1..N
      BY <1>0, <2>1
    <3> QED
      BY <1>5, <3>1
  <2> QED
    BY <1>4, <2>1
<1>7. F = [k \in 0..N |-> IF k = 0 THEN <<>>
                          ELSE IF NamesInOrder[k] \in DOMAIN file.groups
                          THEN Append(F[k - 1], NamesInOrder[k]) ELSE F[k - 1]]
  BY <1>6 DEF NamesUpTo, N
<1> HIDE DEF F
<1>8. F[0] = <<>>
  BY <1>0, <1>7
<1>9. \A k \in 1..N : F[k] = IF NamesInOrder[k] \in DOMAIN file.groups
                             THEN Append(F[k - 1], NamesInOrder[k]) ELSE F[k - 1]
  <2>1. \A k \in 0..N :
           F[k] = IF k = 0 THEN <<>>
                  ELSE IF NamesInOrder[k] \in DOMAIN file.groups
                  THEN Append(F[k - 1], NamesInOrder[k]) ELSE F[k - 1]
    BY <1>7
  <2> QED
    BY <1>0, <2>1
<1> DEFINE T == {k \in 0..N : F[k] \in S}
<1>10. 0..N \subseteq T
  <2>1. 0 \in T
    <3>1. <<>> \in S
      BY DEF S
    <3> QED
      BY <1>0, <1>8, <3>1
  <2>2. ASSUME NEW k \in 1..N, k - 1 \in T PROVE k \in T
    <3>1. F[k - 1] \in S /\ k \in 0..N
      BY <1>0, <2>2
    <3> QED
      BY <1>1, <1>9, <3>1
  <2> HIDE DEF T
  <2> QED
    BY <1>0, <2>1, <2>2, UpTo
<1>11. F \in [0..N -> Seq(Names)]
  BY <1>7, <1>10 DEF S
<1> QED
  BY <1>0, <1>8, <1>9, <1>11 DEF F, N

NamesOf(file) == NamesUpTo(file)[Len(NamesInOrder)]

(* They are the names of the groups in the file that lie in no other.      *)
LEMMA NamesFound ==
    ASSUME NEW file, IsFile(file)
    PROVE  /\ NamesOf(file) \in Seq(Names)
           /\ \A i \in DOMAIN NamesOf(file) : NamesOf(file)[i] \in AtTop(file)
           /\ \A n \in AtTop(file) : \E i \in DOMAIN NamesOf(file) : NamesOf(file)[i] = n
<1> DEFINE F == NamesUpTo(file)
           N == Len(NamesInOrder)
           Lists(s, k) ==
               /\ s \in Seq(Names)
               /\ \A i \in DOMAIN s : s[i] \in AtTop(file)
               /\ \A m \in 1..k : NamesInOrder[m] \in DOMAIN file.groups =>
                     \E i \in DOMAIN s : s[i] = NamesInOrder[m]
           T == {k \in 0..N : Lists(F[k], k)}
<1>1. /\ N \in Nat /\ F[0] = <<>>
      /\ \A k \in 1..N : F[k] = IF NamesInOrder[k] \in DOMAIN file.groups
                                THEN Append(F[k - 1], NamesInOrder[k]) ELSE F[k - 1]
  BY NamesStep
<1>2. \A k \in 1..N : NamesInOrder[k] \in Names /\ Above[NamesInOrder[k]] = "/"
  <2>1. \A k \in 1..N : NamesInOrder[k] \in ToSet(NamesInOrder)
    BY Flo2dAssumption DEF ToSet
  <2> QED
    BY <2>1, Flo2dAssumption
<1> HIDE DEF F, N
<1>3. Lists(<<>>, 0)
  OBVIOUS
<1>4. ASSUME NEW s, NEW k \in 1..N, Lists(s, k - 1)
      PROVE  Lists(IF NamesInOrder[k] \in DOMAIN file.groups
                   THEN Append(s, NamesInOrder[k]) ELSE s, k)
  <2>1. \A m : m \in 1..k <=> m \in 1..(k - 1) \/ m = k
    BY <1>1
  <2>2. CASE NamesInOrder[k] \notin DOMAIN file.groups
    BY <1>4, <2>1, <2>2
  <2>3. CASE NamesInOrder[k] \in DOMAIN file.groups
    <3> DEFINE t == Append(s, NamesInOrder[k])
    <3>1. /\ t \in Seq(Names)
          /\ Len(s) \in Nat /\ DOMAIN s = 1..Len(s)
          /\ DOMAIN t = 1..(Len(s) + 1) /\ t[Len(s) + 1] = NamesInOrder[k]
          /\ \A i \in DOMAIN s : t[i] = s[i]
      BY <1>2, <1>4
    <3> HIDE DEF t
    <3>2. \A i \in DOMAIN t : i \in DOMAIN s \/ i = Len(s) + 1
      BY <3>1
    <3>3. \A i \in DOMAIN t : t[i] \in AtTop(file)
      <4>1. NamesInOrder[k] \in AtTop(file)
        BY <1>2, <2>3 DEF AtTop
      <4> QED
        BY <1>4, <3>1, <3>2, <4>1
    <3>4. DOMAIN s \subseteq DOMAIN t /\ Len(s) + 1 \in DOMAIN t
      BY <3>1
    <3>5. ASSUME NEW m \in 1..k, NamesInOrder[m] \in DOMAIN file.groups
          PROVE  \E i \in DOMAIN t : t[i] = NamesInOrder[m]
      <4>1. CASE m = k
        BY <3>1, <3>4, <4>1
      <4>2. CASE m \in 1..(k - 1)
        <5>1. PICK i \in DOMAIN s : s[i] = NamesInOrder[m]
          BY <1>4, <3>5, <4>2
        <5> QED
          BY <3>1, <3>4, <5>1
      <4> QED
        BY <2>1, <4>1, <4>2
    <3> QED
      BY <2>3, <3>1, <3>3, <3>5 DEF t
  <2> QED
    BY <2>2, <2>3
<1> HIDE DEF Lists
<1>5. 0..N \subseteq T
  <2>1. 0 \in T
    BY <1>1, <1>3
  <2>2. ASSUME NEW k \in 1..N, k - 1 \in T PROVE k \in T
    <3>1. Lists(F[k - 1], k - 1) /\ k \in 0..N
      BY <1>1, <2>2
    <3> QED
      BY <1>1, <1>4, <3>1
  <2> HIDE DEF T
  <2> QED
    BY <1>1, <2>1, <2>2, UpTo
<1>6. Lists(NamesOf(file), N)
  BY <1>1, <1>5 DEF NamesOf, F, N
<1>7. \A n \in AtTop(file) : n \in DOMAIN file.groups /\ \E m \in 1..N : NamesInOrder[m] = n
  <2>1. \A n \in AtTop(file) : n \in DOMAIN file.groups /\ n \in ToSet(NamesInOrder)
    BY Flo2dAssumption DEF IsFile, AtTop
  <2> QED
    BY <2>1, Flo2dAssumption DEF ToSet, N
<1> QED
  BY <1>6, <1>7 DEF Lists

-----------------------------------------------------------------------------
(* Of a file whose groups all have values, for a mesh of their size, every *)
(* group is read - but those that lie in other ones.                       *)
AllWhole(file, faces) ==
    \A n \in AtTop(file) : /\ file.groups[n].stage # "broken"
                          /\ file.groups[n].faces = faces

LEMMA ReadWhole ==
    ASSUME NEW file, IsFile(file), NEW faces, AllWhole(file, faces)
    PROVE  HdfRead(file, faces).groups =
              [i \in DOMAIN NamesOf(file) |->
                  EntryRead(NamesOf(file)[i], file.groups[NamesOf(file)[i]], faces)]
<1> DEFINE names == NamesOf(file)
           bad == {i \in DOMAIN names : ~Readable(file.groups[names[i]], faces)}
           last == IF bad = {} THEN Len(names) ELSE Least(bad) - 1
<1>1. HdfRead(file, faces).groups =
         [i \in 1..last |-> EntryRead(names[i], file.groups[names[i]], faces)]
  BY DEF HdfRead, NamesOf
<1>2. bad = {}
  BY NamesFound DEF AllWhole, Readable, Fits, Elements
<1>3. DOMAIN names = 1..Len(names)
  BY NamesFound
<1>4. 1..last = DOMAIN names
  BY <1>2, <1>3
<1> QED
  BY <1>1, <1>4

LEMMA ReadAll ==
    ASSUME NEW file, IsFile(file), NEW faces, AllWhole(file, faces)
    PROVE  /\ \A i \in DOMAIN HdfRead(file, faces).groups :
                 \E n \in AtTop(file) :
                    HdfRead(file, faces).groups[i] = EntryRead(n, file.groups[n], faces)
           /\ \A n \in AtTop(file) : \E i \in DOMAIN HdfRead(file, faces).groups :
                 HdfRead(file, faces).groups[i] = EntryRead(n, file.groups[n], faces)
<1> DEFINE read == HdfRead(file, faces).groups
<1>1. /\ DOMAIN read = DOMAIN NamesOf(file)
      /\ \A i \in DOMAIN read :
            read[i] = EntryRead(NamesOf(file)[i], file.groups[NamesOf(file)[i]], faces)
  <2>1. read = [i \in DOMAIN NamesOf(file) |->
                   EntryRead(NamesOf(file)[i], file.groups[NamesOf(file)[i]], faces)]
    BY ReadWhole, Zenon
  <2> HIDE DEF read
  <2> QED
    BY <2>1, Zenon
<1> HIDE DEF read
<1>2. \A i \in DOMAIN read : NamesOf(file)[i] \in AtTop(file)
  BY <1>1, NamesFound
<1>3. \A n \in AtTop(file) : \E i \in DOMAIN read : NamesOf(file)[i] = n
  BY <1>1, NamesFound
<1> QED
  BY <1>1, <1>2, <1>3 DEF read

(* What a close writes reads as what was closed.                           *)
LEMMA WrittenReads ==
    ASSUME NEW p, p.group \in Groups, p.faces \in Nat, p.faces > 0,
           NEW n, NEW file, StoredAs(p, n, file)
    PROVE  EntryRead(n, file.groups[n], p.faces) =
              [name |-> n, vector |-> p.group.vector,
               holds |-> [k \in DOMAIN p.group.holds |-> ValueRead(p.group.holds[k])]]
<1> DEFINE holds == p.group.holds
           written == [i \in DOMAIN holds |-> ValueWritten(holds[i])]
<1>1. file.groups[n] = [vector |-> p.group.vector, faces |-> p.faces, holds |-> written,
                        stage |-> "whole"]
  BY DEF StoredAs
<1>2. EntryRead(n, file.groups[n], p.faces) =
        [name |-> n, vector |-> p.group.vector,
         holds |-> [i \in DOMAIN written |-> ValueRead(written[i])]]
  <2> DEFINE e == file.groups[n]
  <2>1. e.vector = p.group.vector /\ e.holds = written /\ e.stage = "whole"
    BY <1>1
  <2>2. p.faces # 0
    OBVIOUS
  <2> HIDE DEF written, e
  <2>3. EntryRead(n, e, p.faces) =
          [name |-> n, vector |-> e.vector,
           holds |-> [i \in DOMAIN e.holds |->
                        IF e.stage = "unfilled" THEN "nan" ELSE ValueRead(e.holds[i])]]
    BY <2>2, Zenon DEF EntryRead
  <2> QED
    BY <2>1, <2>3 DEF e
<1>3. \A v : ValueRead(ValueWritten(v)) = ValueRead(v)
  BY DEF ValueRead, ValueWritten
<1>4. [i \in DOMAIN written |-> ValueRead(written[i])] =
      [k \in DOMAIN holds |-> ValueRead(holds[k])]
  BY <1>3
<1> QED
  BY <1>2, <1>4

LEMMA ReloadStep == FolderInv /\ KeptInv => Flo2dGroupsReload
<1> SUFFICES ASSUME FolderInv, KeptInv, Sound(hdf), NEW p \in promised, p.faces > 0,
                    Above[p.group.name] = "/"
             PROVE  IsRead(p, HdfRead(hdf, p.faces).groups)
  BY DEF Flo2dGroupsReload
<1>1. IsFile(hdf) /\ p.group \in Groups /\ p.faces \in Nat
  BY DEF FolderInv, Flo2dTypeOK
<1>2. PICK n \in {p.group.name, Numbered[p.group.name]} : StoredAs(p, n, hdf)
  BY DEF KeptInv, PromisesKept, Stored, Sound
<1>3. n \in AtTop(hdf) /\ hdf.groups[n].faces = p.faces
  <2>1. Above[n] = "/"
    BY <1>1, <1>2, NumberedAbove
  <2> QED
    BY <1>2, <2>1 DEF StoredAs, AtTop
<1>4. AllWhole(hdf, p.faces)
  BY <1>3 DEF Sound, AllWhole
<1>5. PICK i \in DOMAIN HdfRead(hdf, p.faces).groups :
         HdfRead(hdf, p.faces).groups[i] = EntryRead(n, hdf.groups[n], p.faces)
  BY <1>1, <1>3, <1>4, ReadAll
<1>6. HdfRead(hdf, p.faces).groups[i] =
         [name |-> n, vector |-> p.group.vector,
          holds |-> [k \in DOMAIN p.group.holds |-> ValueRead(p.group.holds[k])]]
  BY <1>1, <1>2, <1>5, WrittenReads
<1> QED
  BY <1>2, <1>6 DEF IsRead

(* A group whose close was reported as written is read from the file again,*)
(* 0 as nothing and all else as it was, as long as nothing that failed or  *)
(* is of another size is in the file, unless its name, as a path, put it   *)
(* into another group (persist, appendGroup, parseHDF5Datasets).           *)
THEOREM Flo2dGroupsReloadHolds == Flo2dSpec => []Flo2dGroupsReload
BY ReloadStep, KeptInvInit, KeptInvNext, FolderInvHolds, PTL DEF Flo2dSpec

LEMMA StepKeepsRead ==
    ASSUME FolderInv, FolderInv', [Flo2dNext]_vars, NEW n \in OtherFaces,
           Sound(hdf), Sound(hdf'), OfSize(hdf', n)
    PROVE  ToSet(HdfRead(hdf, n).groups) \subseteq ToSet(HdfRead(hdf', n).groups)
<1>1. IsFile(hdf) /\ IsFile(hdf')
  BY DEF FolderInv, Flo2dTypeOK
<1>2. \A m \in DOMAIN hdf.groups :
         m \in DOMAIN hdf'.groups /\ hdf'.groups[m] = hdf.groups[m]
  <2>1. hdf' # Headless
    BY DEF Sound, Headless, NoFile
  <2> QED
    BY <2>1, StepKeepsEntries
<1>3. AllWhole(hdf', n)
  BY DEF Sound, OfSize, AllWhole
<1>4. AllWhole(hdf, n) /\ AtTop(hdf) \subseteq AtTop(hdf')
  BY <1>2, <1>3 DEF AllWhole, AtTop
<1>5. ASSUME NEW i \in DOMAIN HdfRead(hdf, n).groups
      PROVE  \E j \in DOMAIN HdfRead(hdf', n).groups :
                HdfRead(hdf', n).groups[j] = HdfRead(hdf, n).groups[i]
  <2>1. PICK m \in AtTop(hdf) :
           HdfRead(hdf, n).groups[i] = EntryRead(m, hdf.groups[m], n)
    BY <1>1, <1>4, ReadAll
  <2>2. PICK j \in DOMAIN HdfRead(hdf', n).groups :
           HdfRead(hdf', n).groups[j] = EntryRead(m, hdf'.groups[m], n)
    BY <1>1, <1>3, <1>4, ReadAll
  <2>3. hdf'.groups[m] = hdf.groups[m]
    BY <1>2 DEF AtTop
  <2> QED
    BY <2>1, <2>2, <2>3
<1> QED
  BY <1>5 DEF ToSet

(* What is read from a file that can be read, for a mesh of the size its   *)
(* groups are of, is read from it after every step: a close of a namesake, *)
(* one that failed, a restart (appendGroup, persist).                      *)
THEOREM StoredGroupsStay == Flo2dSpec => StoredStay
<1>1. FolderInv /\ FolderInv' /\ [Flo2dNext]_vars =>
        [\A n \in OtherFaces :
           Sound(hdf) /\ Sound(hdf') /\ OfSize(hdf', n) =>
             ToSet(HdfRead(hdf, n).groups) \subseteq ToSet(HdfRead(hdf', n).groups)]_vars
  BY StepKeepsRead
<1> QED
  BY <1>1, FolderInvHolds, PTL DEF Flo2dSpec, StoredStay

-----------------------------------------------------------------------------
(* What a definition by recursion over 0..n gives is of one kind if each   *)
(* step keeps to it.                                                       *)
LEMMA TypedSteps ==
    ASSUME NEW n \in Nat, NEW S, NEW F, F = [k \in 0..n |-> F[k]], F[0] \in S,
           \A k \in 1..n : F[k - 1] \in S => F[k] \in S
    PROVE  F \in [0..n -> S]
<1> DEFINE T == {k \in 0..n : F[k] \in S}
<1>1. 0 \in T /\ \A k \in 1..n : k - 1 \in T => k \in T
  OBVIOUS
<1>2. 0..n \subseteq T
  <2> HIDE DEF T
  <2> QED
    BY <1>1, UpTo
<1> QED
  BY <1>2

(* What is linked to a cell: its vertex, and those it has besides.         *)
LinkTypes == [to : UNION {[D -> Nat] : D \in SUBSET Nat}, also : SUBSET (Nat \X Nat)]

LEMMA LinkedTo ==
    ASSUME NEW links \in LinkTypes, NEW i \in Nat, NEW left \in Nat, NEW right \in Nat
    PROVE  LET new == Linked(links, i, left, right)
           IN  /\ new \in LinkTypes
               /\ DOMAIN new.to = DOMAIN links.to \cup {left, right}
               /\ new.to[left] = i
               /\ right \notin DOMAIN links.to => new.to[right] = i
               /\ \A c \in DOMAIN links.to : c # left => new.to[c] = links.to[c]
               /\ links.also \subseteq new.also
               /\ new.also \subseteq links.also \cup {<<right, i>>}
               /\ right \in DOMAIN links.to => <<right, i>> \in new.also
<1> DEFINE new == Linked(links, i, left, right)
<1>1. PICK D \in SUBSET Nat : links.to \in [D -> Nat]
  BY DEF LinkTypes
<1>2. links.also \in SUBSET (Nat \X Nat) /\ DOMAIN links.to = D
  BY <1>1 DEF LinkTypes
<1>3. new.to = [c \in D \cup {left, right} |->
                   IF c = left \/ c \notin D THEN i ELSE links.to[c]]
  BY <1>2 DEF Linked, OwnersAfter
<1>4. new.to \in [D \cup {left, right} -> Nat]
  <2>1. \A c \in D : links.to[c] \in Nat
    BY <1>1
  <2> QED
    BY <1>3, <2>1
<1>5. /\ new = [to |-> new.to, also |-> new.also]
      /\ new.also = links.also \cup (IF right \in D THEN {<<right, i>>} ELSE {})
  BY <1>2 DEF Linked
<1>6. D \cup {left, right} \in SUBSET Nat /\ new.also \in SUBSET (Nat \X Nat)
  BY <1>2, <1>5
<1>7. new \in LinkTypes
  <2> HIDE DEF new
  <2>1. new.to \in UNION {[E -> Nat] : E \in SUBSET Nat}
    BY <1>4, <1>6
  <2> QED
    BY <1>5, <1>6, <2>1 DEF LinkTypes
<1> HIDE DEF new
<1>8. /\ DOMAIN new.to = D \cup {left, right} /\ new.to[left] = i
      /\ right \notin D => new.to[right] = i
      /\ \A c \in D : c # left => new.to[c] = links.to[c]
  BY <1>3
<1> QED
  BY <1>2, <1>5, <1>7, <1>8 DEF new

LEMMA NoLinks == [to |-> <<>>, also |-> {}] \in LinkTypes
<1>1. <<>> \in [{} -> Nat] /\ {} \in SUBSET Nat /\ {} \in SUBSET (Nat \X Nat)
  OBVIOUS
<1>2. <<>> \in UNION {[D -> Nat] : D \in SUBSET Nat}
  BY <1>1
<1> QED
  BY <1>1, <1>2 DEF LinkTypes

LEMMA BanksTyped ==
    ASSUME NEW f \in Folders
    PROVE  /\ Len(f.banks) \in Nat /\ DOMAIN f.banks = 1..Len(f.banks)
           /\ \A i \in DOMAIN f.banks : f.banks[i][1] \in Nat /\ f.banks[i][2] \in Nat
<1>1. f.banks \in Seq(Nat \X Nat)
  BY Flo2dAssumption DEF IsFolder
<1>2. \A i \in DOMAIN f.banks : f.banks[i] \in Nat \X Nat
  BY <1>1
<1> QED
  BY <1>1, <1>2

(* The banks are linked to their nodes one node after the other.           *)
LEMMA LinksStep ==
    ASSUME NEW f \in Folders
    PROVE  /\ LinksUpTo(f) \in [0..Len(f.banks) -> LinkTypes]
           /\ LinksUpTo(f)[0] = [to |-> <<>>, also |-> {}]
           /\ \A k \in 1..Len(f.banks) :
                 LinksUpTo(f)[k] = Linked(LinksUpTo(f)[k - 1], k, f.banks[k][1], f.banks[k][2])
<1> DEFINE F == LinksUpTo(f)
           N == Len(f.banks)
           S == LinkTypes
           step == [y \in S \X (1..N) |-> Linked(y[1], y[2], f.banks[y[2]][1], f.banks[y[2]][2])]
<1>0. N \in Nat /\ [to |-> <<>>, also |-> {}] \in S
  BY BanksTyped, NoLinks
<1>1. \A s \in S, k \in 1..N : Linked(s, k, f.banks[k][1], f.banks[k][2]) \in S
  <2>1. ASSUME NEW s \in S, NEW k \in 1..N
        PROVE  Linked(s, k, f.banks[k][1], f.banks[k][2]) \in S
    <3>1. k \in Nat /\ f.banks[k][1] \in Nat /\ f.banks[k][2] \in Nat
      BY BanksTyped
    <3> QED
      BY <3>1, LinkedTo
  <2> QED
    BY <2>1
<1> HIDE DEF N, S
<1>2. step \in [S \X (1..N) -> S]
  BY <1>1
<1>3. \A s \in S, k \in 1..N : step[<<s, k>>] = Linked(s, k, f.banks[k][1], f.banks[k][2])
  OBVIOUS
<1> HIDE DEF step
<1>4. PICK g \in [0..N -> S] :
         g[0] = [to |-> <<>>, also |-> {}] /\ \A k \in 1..N : g[k] = step[<<g[k - 1], k>>]
  <2>1. Runs(N, S, [to |-> <<>>, also |-> {}], step) # {}
    BY <1>0, <1>2, StepsFrom
  <2> QED
    BY <2>1 DEF Runs
<1>5. \A k \in 1..N : g[k] = Linked(g[k - 1], k, f.banks[k][1], f.banks[k][2])
  <2>1. \A k \in 1..N : k - 1 \in 0..N
    BY <1>0
  <2> QED
    BY <1>3, <1>4, <2>1
<1>6. g = [k \in 0..N |-> IF k = 0 THEN [to |-> <<>>, also |-> {}]
                          ELSE Linked(g[k - 1], k, f.banks[k][1], f.banks[k][2])]
  <2>1. \A k \in 0..N : k # 0 => k \in 1..N
    BY <1>0
  <2> QED
    BY <1>4, <1>5, <2>1
<1>7. F = [k \in 0..N |-> IF k = 0 THEN [to |-> <<>>, also |-> {}]
                          ELSE Linked(F[k - 1], k, f.banks[k][1], f.banks[k][2])]
  BY <1>6 DEF LinksUpTo, N
<1> HIDE DEF F
<1>8. /\ F[0] = [to |-> <<>>, also |-> {}]
      /\ \A k \in 1..N : F[k] = Linked(F[k - 1], k, f.banks[k][1], f.banks[k][2])
  <2>1. 0 \in 0..N /\ \A k \in 1..N : k \in 0..N /\ k # 0
    BY <1>0
  <2> QED
    BY <1>7, <2>1
<1>9. F \in [0..N -> S]
  <2>1. F = [k \in 0..N |-> F[k]]
    BY <1>7
  <2>2. \A k \in 1..N : F[k - 1] \in S => F[k] \in S
    BY <1>1, <1>8
  <2> QED
    BY <1>0, <1>8, <2>1, <2>2, TypedSteps
<1> QED
  BY <1>8, <1>9 DEF F, N, S

(* Whose cells the first k nodes have: to their left banks belongs no other *)
(* node, and to their right banks they do, too.                            *)
LinkedSoFar(links, k) ==
    /\ links \in LinkTypes
    /\ \A c \in DOMAIN links.to :
          links.to[c] \in 1..k /\ c \in {Left(links.to[c]), Right(links.to[c])}
    /\ \A i \in 1..k : Left(i) \in DOMAIN links.to /\ links.to[Left(i)] = i
    /\ \A i \in 1..k : IsAt(links, i, Right(i))
    /\ \A p \in links.also : p[2] \in 1..k /\ p[1] = Right(p[2])

LEMMA LinkedNext ==
    ASSUME folder \in Folders, BanksAsDescribed, LeftBeforeRight,
           NEW k \in 1..Len(folder.banks), NEW links, LinkedSoFar(links, k - 1)
    PROVE  LinkedSoFar(Linked(links, k, Left(k), Right(k)), k)
<1> DEFINE new == Linked(links, k, Left(k), Right(k))
<1>0. /\ DOMAIN folder.banks = 1..Len(folder.banks) /\ Len(folder.banks) \in Nat
      /\ k \in Nat /\ k - 1 \in Nat /\ Left(k) \in Nat /\ Right(k) \in Nat
      /\ links \in LinkTypes
  BY BanksTyped DEF Left, Right, LinkedSoFar
<1>1. /\ new \in LinkTypes
      /\ DOMAIN new.to = DOMAIN links.to \cup {Left(k), Right(k)}
      /\ new.to[Left(k)] = k
      /\ Right(k) \notin DOMAIN links.to => new.to[Right(k)] = k
      /\ \A c \in DOMAIN links.to : c # Left(k) => new.to[c] = links.to[c]
      /\ links.also \subseteq new.also /\ new.also \subseteq links.also \cup {<<Right(k), k>>}
      /\ Right(k) \in DOMAIN links.to => <<Right(k), k>> \in new.also
  <2>1. \A left, right \in Nat :
           LET after == Linked(links, k, left, right)
           IN  /\ after \in LinkTypes
               /\ DOMAIN after.to = DOMAIN links.to \cup {left, right}
               /\ after.to[left] = k
               /\ right \notin DOMAIN links.to => after.to[right] = k
               /\ \A c \in DOMAIN links.to : c # left => after.to[c] = links.to[c]
               /\ links.also \subseteq after.also
               /\ after.also \subseteq links.also \cup {<<right, k>>}
               /\ right \in DOMAIN links.to => <<right, k>> \in after.also
    BY <1>0, LinkedTo
  <2> QED
    BY <1>0, <2>1
<1> HIDE DEF new
<1>2. ASSUME NEW c \in DOMAIN new.to
      PROVE  new.to[c] \in 1..k /\ c \in {Left(new.to[c]), Right(new.to[c])}
  <2>1. CASE c = Left(k)
    BY <1>1, <2>1
  <2>2. CASE c # Left(k) /\ c \in DOMAIN links.to
    <3>1. new.to[c] = links.to[c] /\ links.to[c] \in 1..(k - 1)
      BY <1>1, <2>2 DEF LinkedSoFar
    <3>2. c \in {Left(links.to[c]), Right(links.to[c])}
      BY <2>2 DEF LinkedSoFar
    <3>3. new.to[c] \in 1..k
      BY <3>1
    <3> QED
      BY <3>1, <3>2, <3>3
  <2>3. CASE c # Left(k) /\ c \notin DOMAIN links.to
    BY <1>1, <2>3
  <2> QED
    BY <2>1, <2>2, <2>3
<1>3. ASSUME NEW i \in 1..k PROVE Left(i) \in DOMAIN new.to /\ new.to[Left(i)] = i
  <2>1. CASE i = k
    BY <1>1, <2>1
  <2>2. CASE i # k
    <3>1. i \in 1..(k - 1) /\ i \in DOMAIN folder.banks /\ k \in DOMAIN folder.banks
      BY <1>0, <2>2
    <3>2. Left(i) # Left(k)
      BY <2>2, <3>1 DEF BanksAsDescribed
    <3>3. Left(i) \in DOMAIN links.to /\ links.to[Left(i)] = i
      BY <3>1 DEF LinkedSoFar
    <3> QED
      BY <1>1, <3>2, <3>3
  <2> QED
    BY <2>1, <2>2
<1>4. ASSUME NEW i \in 1..k PROVE IsAt(new, i, Right(i))
  <2>1. CASE i = k
    BY <1>1, <2>1 DEF IsAt
  <2>2. CASE i # k
    <3>1. i \in 1..(k - 1) /\ i \in DOMAIN folder.banks /\ k \in DOMAIN folder.banks /\ i < k
      BY <1>0, <2>2
    <3>2. Left(k) # Right(i)
      BY <3>1 DEF LeftBeforeRight
    <3>3. IsAt(links, i, Right(i))
      BY <3>1 DEF LinkedSoFar
    <3> QED
      BY <1>1, <3>2, <3>3 DEF IsAt
  <2> QED
    BY <2>1, <2>2
<1>5. ASSUME NEW p \in new.also PROVE p[2] \in 1..k /\ p[1] = Right(p[2])
  <2>1. CASE p \in links.also
    <3>1. p[2] \in 1..(k - 1) /\ p[1] = Right(p[2])
      BY <2>1 DEF LinkedSoFar
    <3> QED
      BY <1>0, <3>1
  <2>2. CASE p = <<Right(k), k>>
    BY <1>0, <2>2
  <2> QED
    BY <1>1, <2>1, <2>2
<1> QED
  BY <1>1, <1>2, <1>3, <1>4, <1>5 DEF LinkedSoFar, new

(* In the end a node is at its banks and at no other cell, and owns its    *)
(* left bank.                                                              *)
LEMMA LinksSound ==
    ASSUME folder \in Folders, BanksAsDescribed, LeftBeforeRight
    PROVE  LET links == Links(folder)
           IN  \A i \in DOMAIN folder.banks :
                  /\ Left(i) \in DOMAIN links.to /\ links.to[Left(i)] = i
                  /\ \A c : IsAt(links, i, c) <=> c \in {Left(i), Right(i)}
<1> DEFINE F == LinksUpTo(folder)
           N == Len(folder.banks)
           T == {k \in 0..N : LinkedSoFar(F[k], k)}
<1>0. N \in Nat /\ DOMAIN folder.banks = 1..N
  BY BanksTyped
<1>1. /\ F[0] = [to |-> <<>>, also |-> {}]
      /\ \A k \in 1..N : F[k] = Linked(F[k - 1], k, Left(k), Right(k))
  BY LinksStep DEF Left, Right
<1>2. 0 \in T
  BY <1>0, <1>1, NoLinks DEF LinkedSoFar
<1>3. \A k \in 1..N : k - 1 \in T => k \in T
  <2> SUFFICES ASSUME NEW k \in 1..N, k - 1 \in T PROVE k \in T
    OBVIOUS
  <2>1. LinkedSoFar(F[k - 1], k - 1)
    OBVIOUS
  <2>2. LinkedSoFar(F[k], k)
    BY <1>1, <2>1, LinkedNext
  <2> QED
    BY <1>0, <2>2
<1>4. LinkedSoFar(Links(folder), N)
  <2> HIDE DEF T
  <2>1. 0..N \subseteq T
    BY <1>0, <1>2, <1>3, UpTo
  <2>2. N \in T
    BY <1>0, <2>1
  <2> QED
    BY <2>2 DEF T, Links
<1> DEFINE links == Links(folder)
<1> HIDE DEF links
<1> SUFFICES ASSUME NEW i \in 1..N
             PROVE  /\ Left(i) \in DOMAIN links.to /\ links.to[Left(i)] = i
                    /\ \A c : IsAt(links, i, c) <=> c \in {Left(i), Right(i)}
  BY <1>0 DEF links
<1>5. Left(i) \in DOMAIN links.to /\ links.to[Left(i)] = i /\ IsAt(links, i, Right(i))
  BY <1>4 DEF LinkedSoFar, links
<1>6. IsAt(links, i, Left(i))
  BY <1>5 DEF IsAt
<1>7. ASSUME NEW c, IsAt(links, i, c) PROVE c \in {Left(i), Right(i)}
  <2>1. CASE c \in DOMAIN links.to /\ links.to[c] = i
    BY <1>4, <2>1 DEF LinkedSoFar, links
  <2>2. CASE <<c, i>> \in links.also
    BY <1>4, <2>2 DEF LinkedSoFar, links
  <2> QED
    BY <1>7, <2>1, <2>2 DEF IsAt
<1> QED
  BY <1>5, <1>6, <1>7

-----------------------------------------------------------------------------
LEMMA CellsTyped ==
    ASSUME NEW f \in Folders
    PROVE  /\ Len(f.cells) \in Nat /\ Cells(f) = 1..Len(f.cells)
           /\ \A c \in Cells(f) : f.cells[c] \in [1..2 -> Int]
           /\ \A c \in Cells(f), axis \in 1..2 :
                 f.cells[c][axis] \in Int /\ f.cells[c][axis] % 2 = 0
<1>1. f.cells \in Seq(Int \X Int)
  BY Flo2dAssumption DEF IsFolder
<1>2. \A c \in DOMAIN f.cells : f.cells[c] \in Int \X Int
  BY <1>1
<1>3. \A x \in Int \X Int : x \in [1..2 -> Int]
  OBVIOUS
<1>4. \A c \in DOMAIN f.cells, axis \in 1..2 : f.cells[c][axis] % 2 = 0
  BY Flo2dAssumption DEF IsFolder
<1>5. \A c \in DOMAIN f.cells, axis \in 1..2 : f.cells[c][axis] \in Int
  BY <1>2
<1>6. Len(f.cells) \in Nat /\ DOMAIN f.cells = 1..Len(f.cells)
  BY <1>1
<1> QED
  BY <1>2, <1>3, <1>4, <1>5, <1>6 DEF Cells

Spots == {<<>>} \cup [1..2 -> Int]

LEMMA TowardTyped ==
    ASSUME NEW at \in Spots, NEW centre \in [1..2 -> Int]
    PROVE  Toward(at, centre) \in Spots
<1>1. CASE at = <<>>
  BY <1>1 DEF Toward, Spots
<1>2. CASE at # <<>>
  <2>1. at \in [1..2 -> Int]
    BY <1>2 DEF Spots
  <2>2. \A axis \in 1..2 : (at[axis] + centre[axis]) \div 2 \in Int
    BY <2>1
  <2> QED
    BY <1>2, <2>2 DEF Toward, Spots
<1> QED
  BY <1>1, <1>2

(* A node of a channel is moved by the cells it is at, one after the other.*)
LEMMA PlacedStep ==
    ASSUME NEW f \in Folders, NEW links, NEW v
    PROVE  /\ Placed(f, links, v) \in [0..Len(f.cells) -> Spots]
           /\ Placed(f, links, v)[0] = <<>>
           /\ \A k \in 1..Len(f.cells) :
                 Placed(f, links, v)[k] = Moved(f, links, v, Placed(f, links, v)[k - 1], k)
<1> DEFINE F == Placed(f, links, v)
           N == Len(f.cells)
           S == Spots
           step == [y \in S \X (1..N) |-> Moved(f, links, v, y[1], y[2])]
<1>0. N \in Nat /\ <<>> \in S
  BY CellsTyped DEF Spots
<1>1. \A s \in S, k \in 1..N : Moved(f, links, v, s, k) \in S
  <2>1. \A k \in 1..N : f.cells[k] \in [1..2 -> Int]
    BY CellsTyped
  <2> QED
    BY <2>1, TowardTyped DEF Moved
<1> HIDE DEF N, S
<1>2. step \in [S \X (1..N) -> S]
  BY <1>1
<1>3. \A s \in S, k \in 1..N : step[<<s, k>>] = Moved(f, links, v, s, k)
  OBVIOUS
<1> HIDE DEF step
<1>4. PICK g \in [0..N -> S] :
         g[0] = <<>> /\ \A k \in 1..N : g[k] = step[<<g[k - 1], k>>]
  <2>1. Runs(N, S, <<>>, step) # {}
    BY <1>0, <1>2, StepsFrom
  <2> QED
    BY <2>1 DEF Runs
<1>5. \A k \in 1..N : g[k] = Moved(f, links, v, g[k - 1], k)
  <2>1. \A k \in 1..N : k - 1 \in 0..N
    BY <1>0
  <2> QED
    BY <1>3, <1>4, <2>1
<1>6. g = [k \in 0..N |-> IF k = 0 THEN <<>>
                          ELSE Moved(f, links, v, g[k - 1], k)]
  <2>1. \A k \in 0..N : k # 0 => k \in 1..N
    BY <1>0
  <2> QED
    BY <1>4, <1>5, <2>1
<1>7. F = [k \in 0..N |-> IF k = 0 THEN <<>>
                          ELSE Moved(f, links, v, F[k - 1], k)]
  BY <1>6 DEF Placed, N
<1> HIDE DEF F
<1>8. /\ F[0] = <<>>
      /\ \A k \in 1..N : F[k] = Moved(f, links, v, F[k - 1], k)
  <2>1. 0 \in 0..N /\ \A k \in 1..N : k \in 0..N /\ k # 0
    BY <1>0
  <2> QED
    BY <1>7, <2>1
<1>9. F \in [0..N -> S]
  <2>1. F = [k \in 0..N |-> F[k]]
    BY <1>7
  <2>2. \A k \in 1..N : F[k - 1] \in S => F[k] \in S
    BY <1>1, <1>8
  <2> QED
    BY <1>0, <1>8, <2>1, <2>2, TypedSteps
<1> QED
  BY <1>8, <1>9 DEF F, N, S

LEMMA PlacedMiddle ==
    ASSUME NEW f \in Folders, NEW links, NEW v, NEW a \in Cells(f), NEW b \in Cells(f), a <= b,
           \A c : IsAt(links, v, c) <=> c \in {a, b}
    PROVE  Placed(f, links, v)[Len(f.cells)] =
              [axis \in 1..2 |-> (f.cells[a][axis] + f.cells[b][axis]) \div 2]
<1> DEFINE F == Placed(f, links, v)
           N == Len(f.cells)
           middle == [axis \in 1..2 |-> (f.cells[a][axis] + f.cells[b][axis]) \div 2]
           spot(k) == IF k < a THEN <<>> ELSE IF k < b THEN f.cells[a] ELSE middle
           T == {k \in 0..N : F[k] = spot(k)}
<1>0. /\ N \in Nat /\ a \in 1..N /\ b \in 1..N
      /\ f.cells[a] \in [1..2 -> Int] /\ f.cells[b] \in [1..2 -> Int]
  BY CellsTyped
<1>1. /\ F[0] = <<>>
      /\ \A k \in 1..N : F[k] = IF IsAt(links, v, k) THEN Toward(F[k - 1], f.cells[k]) ELSE F[k - 1]
  BY PlacedStep DEF Moved
<1> HIDE DEF F, N
<1>2. f.cells[a] # <<>>
  <2>1. DOMAIN f.cells[a] = 1..2 /\ 1 \in 1..2 /\ DOMAIN <<>> = {}
    BY <1>0
  <2> QED
    BY <2>1
<1>3. a = b => middle = f.cells[a]
  <2> SUFFICES ASSUME a = b PROVE middle = f.cells[a]
    OBVIOUS
  <2>1. \A axis \in 1..2 : f.cells[a][axis] \in Int
    BY <1>0
  <2>2. \A axis \in 1..2 : (f.cells[a][axis] + f.cells[a][axis]) \div 2 = f.cells[a][axis]
    BY <2>1
  <2>3. f.cells[a] = [axis \in 1..2 |-> f.cells[a][axis]]
    BY <1>0
  <2> QED
    BY <2>2, <2>3
<1>4. 0 \in T
  BY <1>0, <1>1
<1>5. \A k \in 1..N : k - 1 \in T => k \in T
  <2> SUFFICES ASSUME NEW k \in 1..N, F[k - 1] = spot(k - 1) PROVE F[k] = spot(k)
    BY <1>0
  <2>0. k \in Int /\ a \in Int /\ b \in Int
    BY <1>0
  <2>1. CASE k < a \/ (a < k /\ k # b)
    <3>1. F[k] = F[k - 1]
      BY <1>0, <1>1, <2>1
    <3>2. spot(k) = spot(k - 1)
      <4> HIDE DEF middle
      <4> QED
        BY <2>0, <2>1
    <3> QED
      BY <3>1, <3>2
  <2>2. CASE k = a
    <3>1. F[k - 1] = <<>> /\ F[k] = Toward(<<>>, f.cells[a])
      BY <1>0, <1>1, <2>0, <2>2
    <3>2. F[k] = f.cells[a]
      BY <3>1 DEF Toward
    <3>3. spot(k) = f.cells[a]
      <4> HIDE DEF middle
      <4> QED
        BY <1>3, <2>0, <2>2
    <3> QED
      BY <3>2, <3>3
  <2>3. CASE a < k /\ k = b
    <3>1. F[k - 1] = f.cells[a] /\ F[k] = Toward(f.cells[a], f.cells[b])
      BY <1>0, <1>1, <2>0, <2>3
    <3>2. F[k] = middle
      BY <1>2, <3>1 DEF Toward
    <3> QED
      BY <2>0, <2>3, <3>2
  <2> QED
    BY <2>0, <2>1, <2>2, <2>3
<1>6. F[N] = spot(N)
  <2> HIDE DEF T, spot
  <2>1. 0..N \subseteq T
    BY <1>0, <1>4, <1>5, UpTo
  <2> QED
    BY <1>0, <2>1 DEF T
<1> QED
  <2> HIDE DEF middle
  <2>1. spot(N) = middle
    BY <1>0
  <2> QED
    BY <1>6, <2>1 DEF F, N, middle

-----------------------------------------------------------------------------
(* A line of CHAN.DAT gives one edge at most.                              *)
LEMMA OneEdge ==
    ASSUME NEW f, NEW to, NEW k, NEW e \in EdgeAt(f, to, k)
    PROVE  EdgeAt(f, to, k) = {e}
<1>1. PICK p : Ends(f, k) \in {{p}, {}}
  BY DEF Ends
<1>2. Ends(f, k) = {p} /\ e = <<to[p[1]], to[p[2]]>>
  BY <1>1 DEF EdgeAt
<1> QED
  BY <1>2 DEF EdgeAt

EdgesThere(f, to) == UNION {EdgeAt(f, to, k) : k \in 1..Len(f.chan)}

LEMMA ChanTyped ==
    ASSUME NEW f \in Folders
    PROVE  Len(f.chan) \in Nat /\ DOMAIN f.chan = 1..Len(f.chan)
BY Flo2dAssumption DEF IsFolder

(* The edges come in the order of the lines of CHAN.DAT.                   *)
LEMMA EdgesStep ==
    ASSUME NEW f \in Folders, NEW to
    PROVE  /\ EdgesUpTo(f, to) \in [0..Len(f.chan) -> Seq(EdgesThere(f, to))]
           /\ EdgesUpTo(f, to)[0] = <<>>
           /\ \A k \in 1..Len(f.chan) :
                 EdgesUpTo(f, to)[k] = WithEdge(f, to, EdgesUpTo(f, to)[k - 1], k)
<1> DEFINE F == EdgesUpTo(f, to)
           N == Len(f.chan)
           S == Seq(EdgesThere(f, to))
           step == [y \in S \X (1..N) |-> WithEdge(f, to, y[1], y[2])]
<1>0. N \in Nat /\ <<>> \in S
  BY ChanTyped
<1>1. \A s \in S, k \in 1..N : WithEdge(f, to, s, k) \in S
  <2>1. ASSUME NEW k \in 1..N, EdgeAt(f, to, k) # {}
        PROVE  (CHOOSE e \in EdgeAt(f, to, k) : TRUE) \in EdgesThere(f, to)
    BY <2>1 DEF EdgesThere
  <2> QED
    BY <2>1 DEF WithEdge
<1> HIDE DEF N, S
<1>2. step \in [S \X (1..N) -> S]
  BY <1>1
<1>3. \A s \in S, k \in 1..N : step[<<s, k>>] = WithEdge(f, to, s, k)
  OBVIOUS
<1> HIDE DEF step
<1>4. PICK g \in [0..N -> S] :
         g[0] = <<>> /\ \A k \in 1..N : g[k] = step[<<g[k - 1], k>>]
  <2>1. Runs(N, S, <<>>, step) # {}
    BY <1>0, <1>2, StepsFrom
  <2> QED
    BY <2>1 DEF Runs
<1>5. \A k \in 1..N : g[k] = WithEdge(f, to, g[k - 1], k)
  <2>1. \A k \in 1..N : k - 1 \in 0..N
    BY <1>0
  <2> QED
    BY <1>3, <1>4, <2>1
<1>6. g = [k \in 0..N |-> IF k = 0 THEN <<>>
                          ELSE WithEdge(f, to, g[k - 1], k)]
  <2>1. \A k \in 0..N : k # 0 => k \in 1..N
    BY <1>0
  <2> QED
    BY <1>4, <1>5, <2>1
<1>7. F = [k \in 0..N |-> IF k = 0 THEN <<>>
                          ELSE WithEdge(f, to, F[k - 1], k)]
  BY <1>6 DEF EdgesUpTo, N
<1> HIDE DEF F
<1>8. /\ F[0] = <<>>
      /\ \A k \in 1..N : F[k] = WithEdge(f, to, F[k - 1], k)
  <2>1. 0 \in 0..N /\ \A k \in 1..N : k \in 0..N /\ k # 0
    BY <1>0
  <2> QED
    BY <1>7, <2>1
<1>9. F \in [0..N -> S]
  <2>1. F = [k \in 0..N |-> F[k]]
    BY <1>7
  <2>2. \A k \in 1..N : F[k - 1] \in S => F[k] \in S
    BY <1>1, <1>8
  <2> QED
    BY <1>0, <1>8, <2>1, <2>2, TypedSteps
<1> QED
  BY <1>8, <1>9 DEF F, N, S

LEMMA EdgesHold ==
    ASSUME NEW f \in Folders, NEW to, NEW k \in DOMAIN f.chan, NEW e \in EdgeAt(f, to, k)
    PROVE  e \in ToSet(EdgesUpTo(f, to)[Len(f.chan)])
<1> DEFINE F == EdgesUpTo(f, to)
           N == Len(f.chan)
           Has(s) == \E i \in DOMAIN s : s[i] = e
           T == {m \in 0..N : m >= k => Has(F[m])}
<1>0. N \in Nat /\ k \in 1..N
  BY ChanTyped
<1>1. /\ F \in [0..N -> Seq(EdgesThere(f, to))]
      /\ \A m \in 1..N : F[m] = IF EdgeAt(f, to, m) = {} THEN F[m - 1]
                                ELSE Append(F[m - 1], CHOOSE d \in EdgeAt(f, to, m) : TRUE)
  BY EdgesStep DEF WithEdge
<1> HIDE DEF F, N
<1>2. \A s \in Seq(EdgesThere(f, to)) : Has(Append(s, e))
  <2> SUFFICES ASSUME NEW s \in Seq(EdgesThere(f, to)) PROVE Has(Append(s, e))
    OBVIOUS
  <2>1. Len(s) + 1 \in DOMAIN Append(s, e) /\ Append(s, e)[Len(s) + 1] = e
    OBVIOUS
  <2> QED
    BY <2>1
<1>3. \A s \in Seq(EdgesThere(f, to)) : \A d : Has(s) => Has(Append(s, d))
  <2> SUFFICES ASSUME NEW s \in Seq(EdgesThere(f, to)), NEW d, NEW i \in DOMAIN s, s[i] = e
               PROVE  Has(Append(s, d))
    OBVIOUS
  <2>1. i \in DOMAIN Append(s, d) /\ Append(s, d)[i] = e
    OBVIOUS
  <2> QED
    BY <2>1
<1> HIDE DEF Has
<1>4. 0 \in T
  BY <1>0
<1>5. \A m \in 1..N : m - 1 \in T => m \in T
  <2> SUFFICES ASSUME NEW m \in 1..N, m - 1 >= k => Has(F[m - 1]), m >= k PROVE Has(F[m])
    BY <1>0
  <2>0. m - 1 \in 0..N /\ F[m - 1] \in Seq(EdgesThere(f, to))
    BY <1>0, <1>1
  <2>1. CASE m = k
    <3>1. EdgeAt(f, to, m) = {e}
      BY <2>1, OneEdge
    <3>2. F[m] = Append(F[m - 1], e)
      BY <1>1, <3>1
    <3> QED
      BY <1>2, <2>0, <3>2
  <2>2. CASE m # k
    <3>1. Has(F[m - 1])
      BY <1>0, <2>2
    <3> QED
      BY <1>1, <1>3, <2>0, <3>1
  <2> QED
    BY <2>1, <2>2
<1>6. Has(F[N])
  <2> HIDE DEF T
  <2>1. 0..N \subseteq T
    BY <1>0, <1>4, <1>5, UpTo
  <2> QED
    BY <1>0, <2>1 DEF T
<1> QED
  BY <1>6 DEF Has, ToSet, F, N

-----------------------------------------------------------------------------
LEMMA HighestIs ==
    ASSUME NEW S \in SUBSET Nat, NEW k \in S, \A l \in S : l <= k
    PROVE  Max(S) = k
<1>1. \E x \in S : \A y \in S : x >= y
  OBVIOUS
<1>2. Max(S) \in S /\ \A y \in S : Max(S) >= y
  BY <1>1 DEF Max
<1>3. \A m \in S : m \in Nat /\ m <= k /\ (m >= k => m = k)
  OBVIOUS
<1> QED
  BY <1>2, <1>3

LEMMA BlocksTyped ==
    ASSUME NEW f \in Folders
    PROVE  /\ Len(f.blocks) \in Nat /\ DOMAIN f.blocks = 1..Len(f.blocks)
           /\ \A k \in DOMAIN f.blocks : f.blocks[k].rows \in Seq(Nat)
<1>1. f.blocks \in Seq(Block)
  BY Flo2dAssumption DEF IsFolder
<1>2. \A k \in DOMAIN f.blocks : f.blocks[k] \in Block
  BY <1>1
<1> QED
  BY <1>1, <1>2 DEF Block

(* A block as long as the first leaves nothing of those before it.         *)
LEMMA WholeBlock ==
    ASSUME NEW f \in Folders, NEW k \in DOMAIN f.blocks,
           Len(f.blocks[k].rows) = Len(f.blocks[1].rows)
    PROVE  DataAfter(f, k) = f.blocks[k].rows
<1> DEFINE rows == f.blocks[k].rows
           having(i) == {l \in 1..k : i \in DOMAIN f.blocks[l].rows}
<1>1. k \in Nat /\ k \in 1..k /\ rows \in Seq(Nat) /\ DOMAIN rows = 1..Rows(f)
  BY BlocksTyped DEF Rows
<1>2. ASSUME NEW i \in 1..Rows(f) PROVE having(i) # {} /\ Max(having(i)) = k
  <2>1. k \in having(i)
    BY <1>1
  <2>2. having(i) \in SUBSET Nat /\ \A l \in having(i) : l <= k
    BY <1>1
  <2> HIDE DEF having
  <2> QED
    BY <2>1, <2>2, HighestIs
<1>3. DataAfter(f, k) = [i \in 1..Rows(f) |-> IF having(i) = {} THEN 0
                                              ELSE f.blocks[Max(having(i))].rows[i]]
  BY DEF DataAfter
<1> HIDE DEF having
<1>4. DataAfter(f, k) = [i \in 1..Rows(f) |-> rows[i]]
  BY <1>2, <1>3
<1>5. rows = [i \in 1..Rows(f) |-> rows[i]]
  <2> HIDE DEF rows
  <2> QED
    BY <1>1
<1> QED
  BY <1>4, <1>5

(* The blocks for a vertex are those of its left bank, unless there is one *)
(* for its right bank.                                                     *)
LEMMA HydrographsFound ==
    ASSUME folder \in Folders, BanksAsDescribed, LeftBeforeRight, Len(folder.blocks) > 1,
           \A k \in DOMAIN folder.blocks :
              Len(folder.blocks[k].rows) = Len(folder.blocks[1].rows),
           \A k, l \in DOMAIN folder.blocks :
              folder.blocks[k].cell = folder.blocks[l].cell => k = l,
           NEW i \in DOMAIN folder.banks,
           \A k \in DOMAIN folder.blocks : folder.blocks[k].cell # Right(i)
    PROVE  Hydrographs(folder)[i] =
              IF \E k \in DOMAIN folder.blocks : folder.blocks[k].cell = Left(i)
              THEN folder.blocks[CHOOSE k \in DOMAIN folder.blocks :
                                    folder.blocks[k].cell = Left(i)].rows
              ELSE <<>>
<1> DEFINE to == Links(folder).to
           blocks == folder.blocks
           mine == {k \in DOMAIN blocks : blocks[k].cell \in DOMAIN to /\ to[blocks[k].cell] = i}
<1>1. Hydrographs(folder)[i] = IF mine # {} THEN DataAfter(folder, Max(mine)) ELSE <<>>
  BY DEF Hydrographs, HychanSeen
<1>2. ASSUME NEW k \in DOMAIN blocks PROVE k \in mine <=> blocks[k].cell = Left(i)
  <2>1. Left(i) \in DOMAIN to /\ to[Left(i)] = i
    BY LinksSound
  <2>2. k \in mine => blocks[k].cell \in {Left(i), Right(i)}
    <3>1. k \in mine => IsAt(Links(folder), i, blocks[k].cell)
      BY DEF IsAt
    <3>2. IsAt(Links(folder), i, blocks[k].cell) => blocks[k].cell \in {Left(i), Right(i)}
      BY LinksSound
    <3> QED
      BY <3>1, <3>2
  <2> QED
    BY <2>1, <2>2
<1>3. CASE \E k \in DOMAIN blocks : blocks[k].cell = Left(i)
  <2> DEFINE k == CHOOSE k \in DOMAIN blocks : blocks[k].cell = Left(i)
  <2>1. k \in DOMAIN blocks /\ blocks[k].cell = Left(i)
    BY <1>3
  <2>2. mine = {k}
    <3> HIDE DEF k
    <3>1. \A l \in DOMAIN blocks : l \in mine <=> l = k
      BY <1>2, <2>1
    <3> QED
      BY <2>1, <3>1
  <2> HIDE DEF k, mine
  <2>3. k \in Nat
    BY <2>1, BlocksTyped
  <2>4. Max(mine) = k
    <3>1. k \in mine /\ mine \in SUBSET Nat /\ \A l \in mine : l <= k
      BY <2>2, <2>3
    <3> QED
      BY <3>1, HighestIs
  <2>5. DataAfter(folder, k) = blocks[k].rows
    BY <2>1, WholeBlock
  <2>6. Hydrographs(folder)[i] = blocks[k].rows
    BY <1>1, <2>2, <2>4, <2>5
  <2> QED
    BY <1>3, <2>6 DEF k
<1>4. CASE ~ \E k \in DOMAIN blocks : blocks[k].cell = Left(i)
  <2>1. mine = {}
    BY <1>2, <1>4
  <2> QED
    BY <1>1, <1>4, <2>1
<1> QED
  BY <1>3, <1>4

-----------------------------------------------------------------------------
(* The open mesh is the one the text files of the folder describe.         *)
Laid2d(f, m) == ~Isolated(f) /\ m.vertices = Vertices2d(f) /\ m.faces = Faces2d(f)

Laid1d(f, m) ==
    /\ ~BanksRefused(f)
    /\ m.vertices = Vertices1d(f) /\ m.edges = Edges1d(f)
    /\ m.hydrographs \in {<<>>, Hydrographs(f)}

MeshLaid ==
    /\ mesh.kind = "mesh2d" => Laid2d(folder, mesh)
    /\ mesh.kind = "mesh1d" => Laid1d(folder, mesh)

LEMMA LoadedLaid ==
    ASSUME NEW f, NEW file, NEW name
    PROVE  LET m == Loaded(f, file, name).mesh
           IN  /\ m.kind = "mesh2d" => Laid2d(f, m)
               /\ m.kind = "mesh1d" => Laid1d(f, m)
<1> DEFINE m2 == Load2d(f, file).mesh
           m1 == Load1d(f).mesh
<1>1. /\ m2.kind \in {"none", "mesh2d"}
      /\ m2.kind = "mesh2d" => Laid2d(f, m2)
  BY DEF Load2d, NoMesh, Laid2d
<1>2. /\ m1.kind \in {"none", "mesh1d"}
      /\ m1.kind = "mesh1d" => Laid1d(f, m1)
  BY DEF Load1d, NoMesh, Laid1d
<1>3. Loaded(f, file, name).mesh \in {m1, m2}
  BY DEF Loaded
<1> HIDE DEF m1, m2
<1> QED
  BY <1>1, <1>2, <1>3

LEMMA MeshLaidInit == Flo2dInit => MeshLaid
BY DEF Flo2dInit, MeshLaid, NoMesh

LEMMA MeshLaidNext == MeshLaid /\ [Flo2dNext]_vars => MeshLaid'
<1> SUFFICES ASSUME MeshLaid, [Flo2dNext]_vars PROVE MeshLaid'
  OBVIOUS
<1>1. ASSUME NEW name, LoadMesh(name) PROVE MeshLaid'
  <2>1. CASE CanReadMesh(folder)
    <3>1. mesh' = Loaded(folder, hdf, name).mesh /\ folder' = folder
      BY <1>1, <2>1 DEF LoadMesh
    <3> QED
      BY <3>1, LoadedLaid DEF MeshLaid
  <2>2. CASE ~CanReadMesh(folder)
    BY <1>1, <2>2 DEF LoadMesh, MeshLaid
  <2> QED
    BY <2>1, <2>2
<1>2. ASSUME NEW n, OtherMesh(n) PROVE MeshLaid'
  BY <1>2 DEF OtherMesh, MeshLaid, NoMesh
<1>3. ASSUME CloseMesh \/ Killed PROVE MeshLaid'
  BY <1>3 DEF CloseMesh, Killed, MeshLaid, NoMesh
<1>4. ASSUME LoadDatasets PROVE MeshLaid'
  <2>1. /\ folder' = folder
        /\ mesh' = [mesh EXCEPT !.groups = mesh.groups \o HdfRead(hdf, Len(mesh.faces)).groups]
    BY <1>4 DEF LoadDatasets
  <2>2. /\ mesh'.kind = mesh.kind /\ mesh'.vertices = mesh.vertices /\ mesh'.faces = mesh.faces
        /\ mesh'.edges = mesh.edges /\ mesh'.hydrographs = mesh.hydrographs
    BY <2>1
  <2> QED
    BY <2>1, <2>2 DEF MeshLaid, Laid1d, Laid2d
<1>5. \/ UNCHANGED <<folder, mesh>> \/ LoadDatasets \/ CloseMesh \/ Killed
      \/ \E name : LoadMesh(name)
      \/ \E n : OtherMesh(n)
  BY DEF Flo2dNext, vars, CloseEditMode, CloseEditModeRefused, FindTaken, NextName, WriteGroup,
         WriteGroupFails
<1>6. CASE UNCHANGED <<folder, mesh>>
  BY <1>6 DEF MeshLaid
<1> QED
  BY <1>1, <1>2, <1>3, <1>4, <1>5, <1>6

LEMMA MeshLaidHolds == Flo2dSpec => []MeshLaid
BY MeshLaidInit, MeshLaidNext, PTL DEF Flo2dSpec

-----------------------------------------------------------------------------
LEMMA BanksInCells ==
    ASSUME folder \in Folders, BanksAsDescribed, ~BanksRefused(folder),
           NEW i \in DOMAIN folder.banks
    PROVE  Left(i) \in Cells(folder) /\ Right(i) \in Cells(folder)
BY DEF BanksAsDescribed, BanksRefused, Left, Right

LEMMA NodesInTheMiddle ==
    ASSUME folder \in Folders, BanksAsDescribed, LeftBeforeRight, ~BanksRefused(folder),
           NEW i \in DOMAIN folder.banks
    PROVE  Vertices1d(folder)[i] = Middle(Left(i), Right(i))
<1>1. Left(i) \in Cells(folder) /\ Right(i) \in Cells(folder)
  BY BanksInCells
<1>2. Left(i) \in Nat /\ Right(i) \in Nat
  BY <1>1, CellsTyped
<1>3. \A c : IsAt(Links(folder), i, c) <=> c \in {Left(i), Right(i)}
  BY LinksSound
<1>4. Vertices1d(folder)[i] = Placed(folder, Links(folder), i)[Len(folder.cells)]
  BY DEF Vertices1d
<1>5. CASE Left(i) <= Right(i)
  BY <1>1, <1>3, <1>4, <1>5, PlacedMiddle DEF Middle
<1>6. CASE Right(i) <= Left(i)
  <2>1. Placed(folder, Links(folder), i)[Len(folder.cells)] = Middle(Right(i), Left(i))
    <3>1. \A c : IsAt(Links(folder), i, c) <=> c \in {Right(i), Left(i)}
      BY <1>3
    <3> QED
      BY <1>1, <1>6, <3>1, PlacedMiddle DEF Middle
  <2>2. Middle(Right(i), Left(i)) = Middle(Left(i), Right(i))
    <3>1. \A axis \in 1..2 : /\ folder.cells[Left(i)][axis] \in Int
                             /\ folder.cells[Right(i)][axis] \in Int
      BY <1>1, CellsTyped
    <3>2. \A axis \in 1..2 : folder.cells[Right(i)][axis] + folder.cells[Left(i)][axis]
                              = folder.cells[Left(i)][axis] + folder.cells[Right(i)][axis]
      BY <3>1
    <3> QED
      BY <3>2 DEF Middle
  <2> QED
    BY <1>4, <2>1, <2>2
<1> QED
  BY <1>2, <1>5, <1>6

LEMMA ReachesJoined ==
    ASSUME folder \in Folders, BanksAsDescribed, LeftBeforeRight,
           NEW k \in DOMAIN folder.chan, k > 1, IsNode(k - 1), IsNode(k)
    PROVE  <<NodeWithLeft(folder.chan[k - 1].a), NodeWithLeft(folder.chan[k].a)>>
              \in ToSet(Edges1d(folder))
<1> DEFINE to == Links(folder).to
           a == folder.chan[k - 1].a
           b == folder.chan[k].a
<1>1. \A j \in DOMAIN folder.banks :
         /\ Left(j) \in DOMAIN to /\ to[Left(j)] = j
         /\ NodeWithLeft(Left(j)) = j
  <2>1. \A j \in DOMAIN folder.banks : Left(j) \in DOMAIN to /\ to[Left(j)] = j
    BY LinksSound
  <2>2. ASSUME NEW j \in DOMAIN folder.banks PROVE NodeWithLeft(Left(j)) = j
    BY DEF NodeWithLeft, BanksAsDescribed
  <2> QED
    BY <2>1, <2>2
<1>2. /\ a \in DOMAIN to /\ to[a] = NodeWithLeft(a)
      /\ b \in DOMAIN to /\ to[b] = NodeWithLeft(b)
  <2>1. PICK i \in DOMAIN folder.banks : Left(i) = a
    BY DEF IsNode
  <2>2. PICK j \in DOMAIN folder.banks : Left(j) = b
    BY DEF IsNode
  <2> HIDE DEF to, a, b
  <2> QED
    BY <1>1, <2>1, <2>2
<1>3. Ends(folder, k) = {<<a, b>>}
  BY DEF Ends, IsNode
<1>4. <<to[a], to[b]>> \in EdgeAt(folder, to, k)
  <2> HIDE DEF to, a, b
  <2>1. <<a, b>> \in {e \in Ends(folder, k) : e[1] \in DOMAIN to /\ e[2] \in DOMAIN to}
    BY <1>2, <1>3
  <2> QED
    BY <2>1 DEF EdgeAt
<1>5. <<to[a], to[b]>> \in ToSet(Edges1d(folder))
  <2> HIDE DEF a, b
  <2> QED
    BY <1>4, EdgesHold DEF Edges1d
<1> QED
  BY <1>2, <1>5

(* A node of a channel lies between its banks, edges join the nodes that   *)
(* follow each other, and a hydrograph is at the node of its left bank:    *)
(* for every folder whose banks are as the documents describe them.        *)
THEOREM ChannelsAreLaid == Flo2dSpec => []ChannelsLaid
<1>1. FolderInv /\ MeshLaid => ChannelsLaid
  <2> SUFFICES ASSUME FolderInv, MeshLaid, mesh.kind = "mesh1d", BanksAsDescribed, LeftBeforeRight
               PROVE  ChannelsLaid
    BY DEF ChannelsLaid
  <2>0. folder \in Folders
    BY DEF FolderInv, Flo2dTypeOK
  <2>1. /\ ~BanksRefused(folder)
        /\ mesh.vertices = Vertices1d(folder) /\ mesh.edges = Edges1d(folder)
        /\ mesh.hydrographs \in {<<>>, Hydrographs(folder)}
    BY DEF MeshLaid, Laid1d
  <2>2. \A i \in DOMAIN folder.banks : mesh.vertices[i] = Middle(Left(i), Right(i))
    BY <2>0, <2>1, NodesInTheMiddle
  <2>3. ASSUME NEW k \in DOMAIN folder.chan, k > 1, IsNode(k - 1), IsNode(k)
        PROVE  <<NodeWithLeft(folder.chan[k - 1].a), NodeWithLeft(folder.chan[k].a)>>
                  \in ToSet(mesh.edges)
    BY <2>0, <2>1, <2>3, ReachesJoined
  <2> DEFINE blocks == folder.blocks
  <2>4. ASSUME mesh.hydrographs # <<>>, Len(blocks) > 1,
               \A k \in DOMAIN blocks : Len(blocks[k].rows) = Len(blocks[1].rows),
               \A k, l \in DOMAIN blocks : blocks[k].cell = blocks[l].cell => k = l,
               NEW i \in DOMAIN folder.banks,
               \A k \in DOMAIN blocks : blocks[k].cell # Right(i)
        PROVE  mesh.hydrographs[i] =
                  IF \E k \in DOMAIN blocks : blocks[k].cell = Left(i)
                  THEN blocks[CHOOSE k \in DOMAIN blocks : blocks[k].cell = Left(i)].rows
                  ELSE <<>>
    <3>1. mesh.hydrographs = Hydrographs(folder)
      BY <2>1, <2>4
    <3> QED
      BY <2>0, <2>4, <3>1, HydrographsFound
  <2> QED
    BY <2>2, <2>3, <2>4 DEF ChannelsLaid
<1> QED
  BY <1>1, FolderInvHolds, MeshLaidHolds, PTL

-----------------------------------------------------------------------------
(* The corners of the cells, of which those that find their place in the   *)
(* grid empty become vertices.                                             *)
CellCorners(f) == Cells(f) \X (1..4)

LEMMA CornersTyped ==
    ASSUME NEW f \in Folders
    PROVE  /\ 4 * Len(f.cells) \in Nat
           /\ \A n \in 1..4 * Len(f.cells) : Corners(f)[n] \in CellCorners(f)
           /\ \A c \in Cells(f), p \in 1..4 :
                 \E n \in 1..4 * Len(f.cells) : Corners(f)[n] = <<c, p>>
<1> DEFINE N == Len(f.cells)
<1>1. N \in Nat /\ Cells(f) = 1..N
  BY CellsTyped
<1> HIDE DEF N
<1>2. ASSUME NEW n \in 1..4 * N
      PROVE  ((n - 1) \div 4) + 1 \in 1..N /\ ((n - 1) % 4) + 1 \in 1..4
  BY <1>1
<1>3. ASSUME NEW c \in 1..N, NEW p \in 1..4
      PROVE  LET n == 4 * (c - 1) + p
             IN  /\ n \in 1..4 * N
                 /\ ((n - 1) \div 4) + 1 = c /\ ((n - 1) % 4) + 1 = p
  BY <1>1
<1>4. \A n \in 1..4 * N : Corners(f)[n] = <<((n - 1) \div 4) + 1, ((n - 1) % 4) + 1>>
  BY DEF Corners, N
<1>5. ASSUME NEW n \in 1..4 * N PROVE Corners(f)[n] \in CellCorners(f)
  <2> DEFINE c == ((n - 1) \div 4) + 1
             p == ((n - 1) % 4) + 1
  <2>1. c \in Cells(f) /\ p \in 1..4 /\ Corners(f)[n] = <<c, p>>
    BY <1>1, <1>2, <1>4
  <2> HIDE DEF c, p
  <2> QED
    BY <2>1 DEF CellCorners
<1>6. ASSUME NEW c \in Cells(f), NEW p \in 1..4
      PROVE  \E n \in 1..4 * N : Corners(f)[n] = <<c, p>>
  <2> DEFINE n == 4 * (c - 1) + p
  <2>1. n \in 1..4 * N /\ ((n - 1) \div 4) + 1 = c /\ ((n - 1) % 4) + 1 = p
    BY <1>1, <1>3
  <2> HIDE DEF n
  <2> QED
    BY <1>4, <2>1
<1>7. 4 * N \in Nat
  BY <1>1
<1> QED
  BY <1>5, <1>6, <1>7 DEF N

(* The corners are visited one after the other.                            *)
LEMMA NewCornersStep ==
    ASSUME NEW f \in Folders
    PROVE  /\ NewCorners(f) \in [0..4 * Len(f.cells) -> Seq(CellCorners(f))]
           /\ NewCorners(f)[0] = <<>>
           /\ \A k \in 1..4 * Len(f.cells) :
                 NewCorners(f)[k] = Visited(f, NewCorners(f)[k - 1], Corners(f)[k])
<1> DEFINE F == NewCorners(f)
           N == 4 * Len(f.cells)
           S == Seq(CellCorners(f))
           step == [y \in S \X (1..N) |-> Visited(f, y[1], Corners(f)[y[2]])]
<1>0. N \in Nat /\ <<>> \in S
  BY CornersTyped
<1>1. \A s \in S, k \in 1..N : Visited(f, s, Corners(f)[k]) \in S
  <2>1. \A k \in 1..N : Corners(f)[k] \in CellCorners(f)
    BY CornersTyped
  <2> QED
    BY <2>1 DEF Visited
<1> HIDE DEF N, S
<1>2. step \in [S \X (1..N) -> S]
  BY <1>1
<1>3. \A s \in S, k \in 1..N : step[<<s, k>>] = Visited(f, s, Corners(f)[k])
  OBVIOUS
<1> HIDE DEF step
<1>4. PICK g \in [0..N -> S] :
         g[0] = <<>> /\ \A k \in 1..N : g[k] = step[<<g[k - 1], k>>]
  <2>1. Runs(N, S, <<>>, step) # {}
    BY <1>0, <1>2, StepsFrom
  <2> QED
    BY <2>1 DEF Runs
<1>5. \A k \in 1..N : g[k] = Visited(f, g[k - 1], Corners(f)[k])
  <2>1. \A k \in 1..N : k - 1 \in 0..N
    BY <1>0
  <2> QED
    BY <1>3, <1>4, <2>1
<1>6. g = [k \in 0..N |-> IF k = 0 THEN <<>>
                          ELSE Visited(f, g[k - 1], Corners(f)[k])]
  <2>1. \A k \in 0..N : k # 0 => k \in 1..N
    BY <1>0
  <2> QED
    BY <1>4, <1>5, <2>1
<1>7. F = [k \in 0..N |-> IF k = 0 THEN <<>>
                          ELSE Visited(f, F[k - 1], Corners(f)[k])]
  BY <1>6 DEF NewCorners, N
<1> HIDE DEF F
<1>8. /\ F[0] = <<>>
      /\ \A k \in 1..N : F[k] = Visited(f, F[k - 1], Corners(f)[k])
  <2>1. 0 \in 0..N /\ \A k \in 1..N : k \in 0..N /\ k # 0
    BY <1>0
  <2> QED
    BY <1>7, <2>1
<1>9. F \in [0..N -> S]
  <2>1. F = [k \in 0..N |-> F[k]]
    BY <1>7
  <2>2. \A k \in 1..N : F[k - 1] \in S => F[k] \in S
    BY <1>1, <1>8
  <2> QED
    BY <1>0, <1>8, <2>1, <2>2, TypedSteps
<1> QED
  BY <1>8, <1>9 DEF F, N, S

OnePlaceEach(f, new, n) ==
    /\ \A i, j \in DOMAIN new : SamePlace(f, new[i], new[j]) => i = j
    /\ \A m \in 1..n : \E i \in DOMAIN new : SamePlace(f, new[i], Corners(f)[m])

LEMMA VisitedNext ==
    ASSUME NEW f, NEW S, NEW new \in Seq(S), NEW n \in Nat \ {0},
           Corners(f)[n] \in S, OnePlaceEach(f, new, n - 1)
    PROVE  OnePlaceEach(f, Visited(f, new, Corners(f)[n]), n)
<1> DEFINE corner == Corners(f)[n]
<1>1. CASE \E i \in DOMAIN new : SamePlace(f, new[i], corner)
  <2>1. Visited(f, new, corner) = new
    BY <1>1 DEF Visited
  <2>2. ASSUME NEW m \in 1..n
        PROVE  \E i \in DOMAIN new : SamePlace(f, new[i], Corners(f)[m])
    BY <1>1 DEF OnePlaceEach
  <2> QED
    BY <2>1, <2>2 DEF OnePlaceEach
<1>2. CASE ~ \E i \in DOMAIN new : SamePlace(f, new[i], corner)
  <2> DEFINE after == Append(new, corner)
  <2>1. Visited(f, new, corner) = after
    BY <1>2 DEF Visited
  <2>2. /\ DOMAIN new = 1..Len(new) /\ Len(new) \in Nat
        /\ DOMAIN after = 1..(Len(new) + 1)
        /\ \A i \in DOMAIN new : after[i] = new[i]
        /\ after[Len(new) + 1] = corner
    OBVIOUS
  <2> HIDE DEF after, corner
  <2>3. ASSUME NEW i \in DOMAIN after, NEW j \in DOMAIN after, SamePlace(f, after[i], after[j])
        PROVE  i = j
    <3>1. CASE i \in DOMAIN new /\ j \in DOMAIN new
      BY <2>2, <2>3, <3>1 DEF OnePlaceEach
    <3>2. CASE i \in DOMAIN new /\ j = Len(new) + 1
      BY <1>2, <2>2, <2>3, <3>2
    <3>3. CASE i = Len(new) + 1 /\ j \in DOMAIN new
      <4>1. SamePlace(f, after[j], after[i])
        BY <2>3 DEF SamePlace
      <4> QED
        BY <1>2, <2>2, <3>3, <4>1
    <3> QED
      BY <2>2, <3>1, <3>2, <3>3
  <2>4. ASSUME NEW m \in 1..n
        PROVE  \E i \in DOMAIN after : SamePlace(f, after[i], Corners(f)[m])
    <3>1. CASE m = n
      <4>1. Len(new) + 1 \in DOMAIN after /\ after[Len(new) + 1] = Corners(f)[m]
        BY <2>2, <3>1 DEF corner
      <4> QED
        BY <4>1 DEF SamePlace
    <3>2. CASE m # n
      <4>1. m \in 1..(n - 1)
        BY <3>2
      <4>2. PICK i \in DOMAIN new : SamePlace(f, new[i], Corners(f)[m])
        BY <4>1 DEF OnePlaceEach
      <4>3. i \in DOMAIN after /\ after[i] = new[i]
        BY <2>2
      <4> QED
        BY <4>2, <4>3
    <3> QED
      BY <3>1, <3>2
  <2>5. OnePlaceEach(f, after, n)
    BY <2>3, <2>4 DEF OnePlaceEach
  <2> QED
    BY <2>1, <2>5 DEF corner
<1> QED
  BY <1>1, <1>2

(* Each place in the grid that a corner has becomes one vertex.            *)
LEMMA CornersFound ==
    ASSUME NEW f \in Folders
    PROVE  LET new == NewCorners(f)[4 * Len(f.cells)]
           IN  /\ new \in Seq(CellCorners(f))
               /\ \A i, j \in DOMAIN new : SamePlace(f, new[i], new[j]) => i = j
               /\ \A c \in Cells(f), p \in 1..4 :
                     \E i \in DOMAIN new : SamePlace(f, new[i], <<c, p>>)
<1> DEFINE F == NewCorners(f)
           N == 4 * Len(f.cells)
           T == {n \in 0..N : OnePlaceEach(f, F[n], n)}
<1>0. /\ N \in Nat /\ \A n \in 1..N : Corners(f)[n] \in CellCorners(f)
      /\ \A c \in Cells(f), p \in 1..4 : \E n \in 1..N : Corners(f)[n] = <<c, p>>
  BY CornersTyped
<1>1. /\ F \in [0..N -> Seq(CellCorners(f))] /\ F[0] = <<>>
      /\ \A n \in 1..N : F[n] = Visited(f, F[n - 1], Corners(f)[n])
  BY NewCornersStep
<1> HIDE DEF F, N
<1>2. 0 \in T
  BY <1>0, <1>1 DEF OnePlaceEach
<1>3. \A n \in 1..N : n - 1 \in T => n \in T
  <2> SUFFICES ASSUME NEW n \in 1..N, OnePlaceEach(f, F[n - 1], n - 1)
               PROVE  OnePlaceEach(f, F[n], n)
    BY <1>0
  <2>1. n \in Nat \ {0} /\ n - 1 \in 0..N
    BY <1>0
  <2>2. F[n - 1] \in Seq(CellCorners(f))
    BY <1>1, <2>1
  <2> QED
    BY <1>0, <1>1, <2>1, <2>2, VisitedNext
<1>4. OnePlaceEach(f, F[N], N) /\ F[N] \in Seq(CellCorners(f))
  <2> HIDE DEF T
  <2>1. 0..N \subseteq T
    BY <1>0, <1>2, <1>3, UpTo
  <2> QED
    BY <1>0, <1>1, <2>1 DEF T
<1>5. ASSUME NEW c \in Cells(f), NEW p \in 1..4
      PROVE  \E i \in DOMAIN F[N] : SamePlace(f, F[N][i], <<c, p>>)
  BY <1>0, <1>4 DEF OnePlaceEach
<1> QED
  BY <1>4, <1>5 DEF OnePlaceEach, F, N

-----------------------------------------------------------------------------
(* Where the sides of a cell are in a grid with a place every s.           *)
LEMMA Divided ==
    ASSUME NEW a \in Int, NEW s \in Nat, s > 0
    PROVE  a = (s * (a \div s)) + (a % s) /\ a \div s \in Int /\ a % s \in 0..(s - 1)
OBVIOUS

LEMMA SameMultiple ==
    ASSUME NEW k \in Int, NEW q \in Int, NEW s \in Nat, NEW d \in Int,
           d < s, -s < d, s * k = (s * q) + d
    PROVE  k = q
OBVIOUS

(* A cell with its centre at x has its sides at the place that is found for*)
(* it, q, and the next, if the least centre is at e and s divides x - e.   *)
LEMMA SidesOnGrid ==
    ASSUME NEW x \in Int, NEW e \in Int, NEW h \in Nat, NEW s \in Nat, h > 0, s = 2 * h,
           NEW k \in Int, x - e = s * k,
           NEW q \in Int, NEW r \in 0..(s - 1), x - (e - h) = (s * q) + r
    PROVE  x - h = (e - h) + (s * q) /\ x + h = (e - h) + (s * (q + 1))
<1>1. s * k = (s * q) + (r - h)
  OBVIOUS
<1>2. k = q
  BY <1>1, SameMultiple
<1>3. s * (q + 1) = (s * q) + s
  OBVIOUS
<1> QED
  BY <1>2, <1>3

(* A cell has a least coordinate, and the first neighbour gives a size.    *)
LEMMA LeastCoordinate ==
    ASSUME NEW f \in Folders, NEW axis \in 1..2, Cells(f) # {}
    PROVE  \E d \in Cells(f) : Least({f.cells[c][axis] : c \in Cells(f)}) = f.cells[d][axis]
<1> DEFINE N == Len(f.cells)
           x(c) == f.cells[c][axis]
           Has(n) == \E d \in 1..n : \A c \in 1..n : x(d) <= x(c)
           T == {n \in 0..N : n = 0 \/ Has(n)}
<1>1. N \in Nat /\ N > 0 /\ Cells(f) = 1..N /\ \A c \in 1..N : x(c) \in Int
  BY CellsTyped
<1> HIDE DEF N, x
<1>2. 0 \in T
  BY <1>1
<1>3. ASSUME NEW n \in 1..N, n - 1 \in T PROVE Has(n)
  <2>0. n \in Nat /\ \A c \in 1..n : x(c) \in Int /\ (c = n \/ c \in 1..(n - 1))
    BY <1>1
  <2>1. CASE n = 1
    BY <2>0, <2>1
  <2>2. CASE n # 1
    <3>0. Has(n - 1)
      <4> HIDE DEF Has
      <4> QED
        BY <1>3, <2>0, <2>2
    <3>1. PICK d \in 1..(n - 1) : \A c \in 1..(n - 1) : x(d) <= x(c)
      BY <3>0
    <3>2. d \in 1..n /\ n \in 1..n
      BY <2>0
    <3>3. CASE x(d) <= x(n)
      BY <2>0, <3>1, <3>2, <3>3
    <3>4. CASE ~(x(d) <= x(n))
      <4>1. \A c \in 1..n : x(n) <= x(c)
        BY <2>0, <3>1, <3>2, <3>4
      <4> QED
        BY <3>2, <4>1
    <3> QED
      BY <3>3, <3>4
  <2> QED
    BY <2>1, <2>2
<1>4. \A n \in 1..N : n - 1 \in T => n \in T
  <2> HIDE DEF Has
  <2> QED
    BY <1>1, <1>3
<1>5. N \in T
  <2> HIDE DEF T
  <2>1. 0..N \subseteq T
    BY <1>1, <1>2, <1>4, UpTo
  <2> QED
    BY <1>1, <2>1
<1>6. PICK d \in 1..N : \A c \in 1..N : x(d) <= x(c)
  BY <1>1, <1>5
<1> DEFINE S == {x(c) : c \in 1..N}
<1>7. \E m \in S : \A n \in S : m <= n
  BY <1>6
<1>8. Least(S) \in S
  <2> HIDE DEF S
  <2> QED
    BY <1>7 DEF Least
<1>9. PICK c \in 1..N : Least(S) = x(c)
  BY <1>8
<1> QED
  BY <1>1, <1>9 DEF x

LEMMA SizeIsEven ==
    ASSUME NEW f \in Folders, ~Isolated(f)
    PROVE  CellSize(f) \in Nat /\ CellSize(f) % 2 = 0
<1> DEFINE K == DOMAIN f.fplain
           C == {d \in K : HasNeighbour(f, d)}
           c == Least(C)
           J == {j \in 1..4 : f.fplain[c][j] # 0}
           k == Least(J)
           axis == IF k % 2 = 1 THEN 2 ELSE 1
<1>1. /\ K \subseteq Cells(f) /\ K \in SUBSET Nat
      /\ \A d \in K, j \in 1..4 : f.fplain[d][j] \in Cells(f) \cup {0}
  <2>1. /\ f.fplain \in Seq([1..4 -> DOMAIN f.cells \cup {0}])
        /\ K \subseteq Cells(f)
    BY Flo2dAssumption DEF IsFolder, Cells
  <2>2. \A d \in K : f.fplain[d] \in [1..4 -> DOMAIN f.cells \cup {0}]
    BY <2>1
  <2>3. \A d \in K, j \in 1..4 : f.fplain[d][j] \in Cells(f) \cup {0}
    BY <2>2 DEF Cells
  <2>4. K \in SUBSET Nat
    BY <2>1, CellsTyped
  <2> QED
    BY <2>1, <2>3, <2>4
<1> HIDE DEF K
<1>2. c \in C
  <2>1. C \in SUBSET Nat /\ C # {}
    BY <1>1 DEF Isolated, K
  <2> HIDE DEF C
  <2> QED
    BY <2>1, LeastOf DEF Least
<1> HIDE DEF c
<1>3. k \in J
  <2>1. J \in SUBSET Nat /\ J # {}
    BY <1>2 DEF HasNeighbour
  <2> HIDE DEF J
  <2> QED
    BY <2>1, LeastOf DEF Least
<1> HIDE DEF k
<1>4. axis \in 1..2 /\ c \in Cells(f) /\ f.fplain[c][k] \in Cells(f)
  BY <1>1, <1>2, <1>3
<1>5. CellSize(f) = Distance(f.cells[f.fplain[c][k]][axis], f.cells[c][axis])
  BY DEF CellSize, c, k, K
<1> HIDE DEF axis
<1>6. ASSUME NEW a \in Int, NEW b \in Int, a % 2 = 0, b % 2 = 0
      PROVE  Distance(a, b) \in Nat /\ Distance(a, b) % 2 = 0
  BY <1>6 DEF Distance
<1> DEFINE a == f.cells[f.fplain[c][k]][axis]
           b == f.cells[c][axis]
<1>7. a \in Int /\ a % 2 = 0 /\ b \in Int /\ b % 2 = 0
  BY <1>4, CellsTyped
<1> HIDE DEF a, b
<1>8. Distance(a, b) \in Nat /\ Distance(a, b) % 2 = 0
  BY <1>6, <1>7
<1> QED
  BY <1>5, <1>8 DEF a, b

(* The half of a cell, and the least coordinate of a corner.               *)
Half(f) == CellSize(f) \div 2
Lowest(f, axis) == Least({f.cells[d][axis] : d \in Cells(f)}) - CellSize(f) \div 2

LEMMA HalfOfSize ==
    ASSUME NEW f \in Folders, ~Isolated(f), OnGrid(f)
    PROVE  Half(f) \in Nat /\ Half(f) > 0 /\ CellSize(f) \in Nat /\ CellSize(f) = 2 * Half(f)
<1> DEFINE s == CellSize(f)
<1>1. s \in Nat /\ s % 2 = 0 /\ s > 0
  BY SizeIsEven DEF OnGrid
<1> HIDE DEF s
<1>2. s \div 2 \in Nat /\ s \div 2 > 0 /\ s = 2 * (s \div 2)
  BY <1>1
<1> QED
  BY <1>1, <1>2 DEF Half, s

LEMMA SideOfCorner ==
    ASSUME NEW p \in 1..4, NEW axis \in 1..2
    PROVE  \/ CornerSide[p][axis] = 1 /\ CornerInGrid[p][axis] = 1
           \/ CornerSide[p][axis] = -1 /\ CornerInGrid[p][axis] = 0
<1>1. p = 1 \/ p = 2 \/ p = 3 \/ p = 4
  OBVIOUS
<1>2. axis = 1 \/ axis = 2
  OBVIOUS
<1> QED
  BY <1>1, <1>2 DEF CornerSide, CornerInGrid

(* A corner lies where its place in the grid says.                         *)
LEMMA CornerAtPlace ==
    ASSUME NEW f \in Folders, ~Isolated(f), OnGrid(f),
           NEW c \in Cells(f), NEW p \in 1..4, NEW axis \in 1..2
    PROVE  /\ Lowest(f, axis) \in Int /\ GridPlace(f, c, p)[axis] \in Int
           /\ Corner(f, c, p)[axis] = Lowest(f, axis) + (CellSize(f) * GridPlace(f, c, p)[axis])
<1> DEFINE x == f.cells[c][axis]
           e == Least({f.cells[d][axis] : d \in Cells(f)})
           h == Half(f)
           s == CellSize(f)
           q == (x - (e - h)) \div s
           g == CornerInGrid[p][axis]
           t == CornerSide[p][axis]
<1>1. h \in Nat /\ h > 0 /\ s \in Nat /\ s = 2 * h
  BY HalfOfSize
<1>2. PICK d \in Cells(f) : e = f.cells[d][axis]
  BY LeastCoordinate
<1>3. x \in Int /\ e \in Int /\ (x - e) % s = 0
  BY <1>2, CellsTyped DEF OnGrid
<1>4. (t = 1 /\ g = 1) \/ (t = -1 /\ g = 0)
  BY SideOfCorner
<1> DEFINE l == Lowest(f, axis)
           G == GridPlace(f, c, p)[axis]
           C == Corner(f, c, p)[axis]
<1>5. l = e - h /\ G = g + q /\ C = x + t * h
  BY DEF Lowest, GridPlace, Corner, Half
<1> HIDE DEF x, e, h, s, g, t, l, G, C
<1> DEFINE k == (x - e) \div s
           r == (x - (e - h)) % s
<1>6. k \in Int /\ x - e = s * k
  BY <1>1, <1>3, Divided
<1>7. q \in Int /\ r \in 0..(s - 1) /\ x - (e - h) = (s * q) + r
  BY <1>1, <1>3, Divided
<1> HIDE DEF q, k, r
<1>8. q \in Int /\ x - h = (e - h) + (s * q) /\ x + h = (e - h) + (s * (q + 1))
  BY <1>1, <1>3, <1>6, <1>7, SidesOnGrid
<1>9. CASE t = 1 /\ g = 1
  <2>1. C = x + h /\ G = q + 1
    BY <1>1, <1>3, <1>5, <1>8, <1>9
  <2>2. l \in Int /\ G \in Int
    BY <1>1, <1>3, <1>5, <1>8, <2>1
  <2>3. C = l + (s * G)
    BY <1>5, <1>8, <2>1
  <2> QED
    BY <2>2, <2>3 DEF s, l, G, C
<1>10. CASE t = -1 /\ g = 0
  <2>1. C = x - h /\ G = q
    BY <1>1, <1>3, <1>5, <1>8, <1>10
  <2>2. l \in Int /\ G \in Int
    BY <1>1, <1>3, <1>5, <1>8, <2>1
  <2>3. C = l + (s * G)
    BY <1>5, <1>8, <2>1
  <2> QED
    BY <2>2, <2>3 DEF s, l, G, C
<1> QED
  BY <1>4, <1>9, <1>10

LEMMA SamePlaceSameCorner ==
    ASSUME NEW f \in Folders, ~Isolated(f), OnGrid(f),
           NEW a \in CellCorners(f), NEW b \in CellCorners(f)
    PROVE  SamePlace(f, a, b) <=> Corner(f, a[1], a[2]) = Corner(f, b[1], b[2])
<1> DEFINE A == Corner(f, a[1], a[2])
           B == Corner(f, b[1], b[2])
           G == GridPlace(f, a[1], a[2])
           H == GridPlace(f, b[1], b[2])
           s == CellSize(f)
<1>1. /\ A = [axis \in 1..2 |-> A[axis]] /\ B = [axis \in 1..2 |-> B[axis]]
      /\ G = [axis \in 1..2 |-> G[axis]] /\ H = [axis \in 1..2 |-> H[axis]]
  BY DEF Corner, GridPlace
<1>2. s \in Nat /\ s > 0
  BY HalfOfSize
<1>3. a[1] \in Cells(f) /\ a[2] \in 1..4 /\ b[1] \in Cells(f) /\ b[2] \in 1..4
  BY DEF CellCorners
<1>4. \A axis \in 1..2 :
          /\ Lowest(f, axis) \in Int /\ G[axis] \in Int /\ H[axis] \in Int
          /\ A[axis] = Lowest(f, axis) + (s * G[axis])
          /\ B[axis] = Lowest(f, axis) + (s * H[axis])
  BY <1>3, CornerAtPlace
<1>5. SamePlace(f, a, b) <=> G = H
  BY DEF SamePlace
<1> HIDE DEF A, B, G, H, s
<1>6. \A axis \in 1..2 : A[axis] = B[axis] <=> G[axis] = H[axis]
  <2> TAKE axis \in 1..2
  <2> DEFINE l == Lowest(f, axis)
             g == G[axis]
             h == H[axis]
  <2>1. l \in Int /\ g \in Int /\ h \in Int /\ A[axis] = l + (s * g) /\ B[axis] = l + (s * h)
    BY <1>4
  <2> HIDE DEF l, g, h
  <2>2. ASSUME A[axis] = B[axis] PROVE g = h
    <3>1. s * g = (s * h) + 0
      BY <1>2, <2>1, <2>2
    <3> QED
      BY <1>2, <2>1, <3>1, SameMultiple
  <2> QED
    BY <2>1, <2>2 DEF g, h
<1>7. (A = B) <=> \A axis \in 1..2 : A[axis] = B[axis]
  BY <1>1, Zenon
<1>8. (G = H) <=> \A axis \in 1..2 : G[axis] = H[axis]
  BY <1>1, Zenon
<1> QED
  BY <1>5, <1>6, <1>7, <1>8 DEF A, B

(* The corners of a cell are those of the square around its centre.        *)
LEMMA SquareAround ==
    ASSUME NEW f \in Folders, ~Isolated(f), OnGrid(f), NEW c \in Cells(f)
    PROVE  /\ {Corner(f, c, p) : p \in 1..4} = CornersAround(f.cells[c], Half(f))
           /\ \A p \in 1..3 : \/ Corner(f, c, p)[1] = Corner(f, c, p + 1)[1]
                              \/ Corner(f, c, p)[2] = Corner(f, c, p + 1)[2]
<1> DEFINE x == f.cells[c][1]
           y == f.cells[c][2]
           h == Half(f)
<1>1. h \in Nat /\ x \in Int /\ y \in Int
  BY HalfOfSize, CellsTyped
<1>2. \A p \in 1..4 :
         Corner(f, c, p) = [axis \in 1..2 |-> f.cells[c][axis] + CornerSide[p][axis] * h]
  BY DEF Corner, Half
<1>3. \A p \in 1..4 : Corner(f, c, p) = <<x + CornerSide[p][1] * h, y + CornerSide[p][2] * h>>
  BY <1>2
<1> HIDE DEF x, y, h
<1>4. /\ Corner(f, c, 1) = <<x + h, y + (-h)>> /\ Corner(f, c, 2) = <<x + h, y + h>>
      /\ Corner(f, c, 3) = <<x + (-h), y + h>> /\ Corner(f, c, 4) = <<x + (-h), y + (-h)>>
  <2>1. 1 * h = h /\ (-1) * h = -h
    BY <1>1
  <2> QED
    BY <1>3, <2>1 DEF CornerSide
<1>5. {Corner(f, c, p) : p \in 1..4} =
         {Corner(f, c, 1), Corner(f, c, 2), Corner(f, c, 3), Corner(f, c, 4)}
  <2>1. \A p \in 1..4 : p = 1 \/ p = 2 \/ p = 3 \/ p = 4
    OBVIOUS
  <2> QED
    BY <2>1
<1>6. CornersAround(f.cells[c], h) =
         {<<x + h, y + (-h)>>, <<x + h, y + h>>, <<x + (-h), y + h>>, <<x + (-h), y + (-h)>>}
  BY DEF CornersAround, x, y
<1>7. \A p \in 1..3 : \/ Corner(f, c, p)[1] = Corner(f, c, p + 1)[1]
                      \/ Corner(f, c, p)[2] = Corner(f, c, p + 1)[2]
  <2>1. \A p \in 1..3 : (p = 1 /\ p + 1 = 2) \/ (p = 2 /\ p + 1 = 3) \/ (p = 3 /\ p + 1 = 4)
    OBVIOUS
  <2> QED
    BY <1>4, <2>1
<1> QED
  BY <1>4, <1>5, <1>6, <1>7 DEF h

(* What loadMesh2d makes of a folder on a grid: distinct vertices, and for *)
(* each cell its corners.                                                  *)
LEMMA VerticesAreCorners ==
    ASSUME NEW f \in Folders, ~Isolated(f), OnGrid(f)
    PROVE  LET V == Vertices2d(f)
           IN  /\ \A v, w \in DOMAIN V : v # w => V[v] # V[w]
               /\ \A c \in Cells(f), p \in 1..4 : V[Faces2d(f)[c][p]] = Corner(f, c, p)
<1> DEFINE new == NewCorners(f)[4 * Len(f.cells)]
           V == Vertices2d(f)
<1>1. /\ new \in Seq(CellCorners(f))
      /\ \A i, j \in DOMAIN new : SamePlace(f, new[i], new[j]) => i = j
      /\ \A c \in Cells(f), p \in 1..4 : \E i \in DOMAIN new : SamePlace(f, new[i], <<c, p>>)
  BY CornersFound
<1>2. V = [i \in DOMAIN new |-> Corner(f, new[i][1], new[i][2])]
  BY DEF Vertices2d
<1>3. Faces2d(f) = [c \in Cells(f) |->
                       [p \in 1..4 |-> CHOOSE i \in DOMAIN new : SamePlace(f, new[i], <<c, p>>)]]
  BY DEF Faces2d
<1> HIDE DEF new, V
<1>4. \A i \in DOMAIN new : new[i] \in CellCorners(f)
  BY <1>1
<1>5. DOMAIN V = DOMAIN new /\ \A i \in DOMAIN new : V[i] = Corner(f, new[i][1], new[i][2])
  BY <1>2
<1>6. ASSUME NEW v \in DOMAIN V, NEW w \in DOMAIN V, V[v] = V[w] PROVE v = w
  <2>1. v \in DOMAIN new /\ w \in DOMAIN new
    BY <1>5
  <2>2. SamePlace(f, new[v], new[w])
    BY <1>4, <1>5, <1>6, <2>1, SamePlaceSameCorner
  <2> QED
    BY <1>1, <2>1, <2>2
<1>7. ASSUME NEW c \in Cells(f), NEW p \in 1..4
      PROVE  V[Faces2d(f)[c][p]] = Corner(f, c, p)
  <2> DEFINE i == Faces2d(f)[c][p]
  <2>1. i = CHOOSE n \in DOMAIN new : SamePlace(f, new[n], <<c, p>>)
    BY <1>3
  <2> HIDE DEF i
  <2>2. i \in DOMAIN new /\ SamePlace(f, new[i], <<c, p>>)
    BY <1>1, <2>1
  <2>3. <<c, p>> \in CellCorners(f) /\ <<c, p>>[1] = c /\ <<c, p>>[2] = p
    BY DEF CellCorners
  <2>4. Corner(f, new[i][1], new[i][2]) = Corner(f, c, p)
    BY <1>4, <2>2, <2>3, SamePlaceSameCorner
  <2> QED
    BY <1>5, <2>2, <2>4 DEF i
<1> QED
  BY <1>6, <1>7 DEF V

(* Each cell of a 2D mesh that loadMesh2d makes of a folder on a grid is   *)
(* the square around its centre, and cells that touch share the vertices   *)
(* where they do: no two vertices lie at one place.                        *)
THEOREM CellsAreTiled == Flo2dSpec => []CellsTiled
<1>1. FolderInv /\ MeshLaid => CellsTiled
  <2> SUFFICES ASSUME FolderInv, MeshLaid, mesh.kind = "mesh2d", OnGrid(folder)
               PROVE  CellsTiled
    BY DEF CellsTiled
  <2>0. folder \in Folders
    BY DEF FolderInv, Flo2dTypeOK
  <2>1. ~Isolated(folder) /\ mesh.vertices = Vertices2d(folder) /\ mesh.faces = Faces2d(folder)
    BY DEF MeshLaid, Laid2d
  <2>2. /\ \A v, w \in DOMAIN mesh.vertices : v # w => mesh.vertices[v] # mesh.vertices[w]
        /\ \A c \in Cells(folder), p \in 1..4 :
              mesh.vertices[mesh.faces[c][p]] = Corner(folder, c, p)
    BY <2>0, <2>1, VerticesAreCorners
  <2>3. ASSUME NEW c \in Cells(folder)
        PROVE  LET at(p) == mesh.vertices[mesh.faces[c][p]]
               IN  /\ {at(p) : p \in 1..4} =
                         CornersAround(folder.cells[c], CellSize(folder) \div 2)
                   /\ \A p \in 1..3 : at(p)[1] = at(p + 1)[1] \/ at(p)[2] = at(p + 1)[2]
    <3>1. /\ {Corner(folder, c, p) : p \in 1..4} =
                CornersAround(folder.cells[c], CellSize(folder) \div 2)
          /\ \A p \in 1..3 : \/ Corner(folder, c, p)[1] = Corner(folder, c, p + 1)[1]
                             \/ Corner(folder, c, p)[2] = Corner(folder, c, p + 1)[2]
      BY <2>0, <2>1, SquareAround DEF Half
    <3> DEFINE at(p) == mesh.vertices[mesh.faces[c][p]]
    <3>2. \A p \in 1..4 : at(p) = Corner(folder, c, p)
      BY <2>2
    <3>3. \A p \in 1..3 : p \in 1..4 /\ p + 1 \in 1..4
      OBVIOUS
    <3> HIDE DEF at
    <3>4. {at(p) : p \in 1..4} = {Corner(folder, c, p) : p \in 1..4}
      BY <3>2
    <3>5. \A p \in 1..3 : at(p)[1] = at(p + 1)[1] \/ at(p)[2] = at(p + 1)[2]
      BY <3>1, <3>2, <3>3
    <3> QED
      BY <3>1, <3>4, <3>5 DEF at
  <2> QED
    BY <2>2, <2>3 DEF CellsTiled
<1> QED
  BY <1>1, FolderInvHolds, MeshLaidHolds, PTL
=============================================================================
