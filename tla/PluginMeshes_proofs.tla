------------------------ MODULE PluginMeshes_proofs ------------------------
(***************************************************************************)
(* Why no library is unloaded in use, however many meshes and iterators    *)
(* there are and in whatever order they go: what holds a library and what  *)
(* it has taken is counted; the references by hand are never less.  And    *)
(* why every iterator is a reader of BlockReader, step by step.            *)
(***************************************************************************)
EXTENDS PluginMeshes, FiniteSetTheorems, SequenceTheorems, WellFoundedInduction, TLAPS

(* The least that those who hold library p gave back if they went now: the *)
(* driver one, a mesh one and one for each of its datasets, an iterator    *)
(* one.                                                                    *)
DriverHolds(p) == IF p \in registered THEN 1 ELSE 0
MeshHolds(p) == 1 + DatasetCount[p]
Held(p) ==
    DriverHolds(p) + Cardinality(MeshesOf(p)) * MeshHolds(p) + Cardinality(IteratorsOf(p))

ReferencesCover(p) == /\ Held(p) <= refs[p]
                      /\ refs[p] > 0 => loaded[p]

HandlesTyped ==
    /\ refs \in [Plugins -> Int] /\ loaded \in [Plugins -> BOOLEAN]
    /\ DOMAIN meshes = Handles /\ DOMAIN iterators = Iterators
    /\ \A i \in Iterators : "source" \in DOMAIN iterators[i]

LibraryInv == HandlesTyped /\ \A p \in Plugins : ReferencesCover(p)

-----------------------------------------------------------------------------
LEMMA PluginNames == "memory" \notin Plugins /\ "none" \notin Plugins
<1>1. {"memory", "none"} \cap Plugins = {}
  BY PluginMeshesAssumption
<1> QED
  BY <1>1

LEMMA OneMore ==
    ASSUME NEW S, IsFiniteSet(S), NEW A \in SUBSET S, NEW x \in S, x \notin A
    PROVE  /\ Cardinality(A) \in Nat
           /\ Cardinality(A \cup {x}) = Cardinality(A) + 1
<1>1. IsFiniteSet(A)
  BY FS_Subset
<1> QED
  BY <1>1, FS_AddElement, FS_CardinalityType

LEMMA CountsTyped ==
    ASSUME NEW p \in Plugins, NEW M \in SUBSET Handles, NEW I \in SUBSET Iterators
    PROVE  /\ Cardinality(M) \in Nat /\ Cardinality(I) \in Nat
           /\ MeshHolds(p) \in Nat /\ MeshHolds(p) >= 1
           /\ Cardinality(M) * MeshHolds(p) \in Nat
<1>1. IsFiniteSet(M) /\ IsFiniteSet(I)
  BY FS_Subset, PluginMeshesAssumption
<1>2. Cardinality(M) \in Nat /\ Cardinality(I) \in Nat
  BY <1>1, FS_CardinalityType
<1>3. MeshHolds(p) \in Nat /\ MeshHolds(p) >= 1
  <2>1. DatasetCount \in [Plugins -> Nat]
    BY PluginMeshesAssumption
  <2>2. DatasetCount[p] \in Nat
    BY <2>1
  <2> QED
    BY <2>2 DEF MeshHolds
<1>4. \A m, n \in Nat : m * n \in Nat
  OBVIOUS
<1> QED
  BY <1>2, <1>3, <1>4

LEMMA HoldersCounted ==
    ASSUME NEW p \in Plugins
    PROVE  /\ Cardinality(MeshesOf(p)) \in Nat /\ Cardinality(IteratorsOf(p)) \in Nat
           /\ MeshHolds(p) \in Nat /\ MeshHolds(p) >= 1
           /\ Cardinality(MeshesOf(p)) * MeshHolds(p) \in Nat
           /\ Held(p) \in Nat
<1>1. MeshesOf(p) \in SUBSET Handles /\ IteratorsOf(p) \in SUBSET Iterators
  BY DEF MeshesOf, IteratorsOf
<1> QED
  BY <1>1, CountsTyped DEF Held, DriverHolds

(* Whoever uses a library is counted, and so it is open.                   *)
LEMMA CountedIsLoaded ==
    ASSUME LibraryInv, NEW p \in Plugins, InUse(p)
    PROVE  refs[p] > 0 /\ loaded[p]
<1> DEFINE m == Cardinality(MeshesOf(p))
           n == Cardinality(IteratorsOf(p))
<1>1. /\ m \in Nat /\ n \in Nat /\ MeshHolds(p) \in Nat /\ MeshHolds(p) >= 1
      /\ m * MeshHolds(p) \in Nat
  BY HoldersCounted
<1>2. m > 0 => m * MeshHolds(p) > 0
  <2>1. \A a, b \in Nat : a > 0 /\ b >= 1 => a * b > 0
    OBVIOUS
  <2> QED
    BY <1>1, <2>1
<1>3. p \in registered \/ m > 0 \/ n > 0
  <2>1. IsFiniteSet(MeshesOf(p)) /\ IsFiniteSet(IteratorsOf(p))
    BY FS_Subset, PluginMeshesAssumption DEF MeshesOf, IteratorsOf
  <2> QED
    BY <1>1, <2>1, FS_EmptySet DEF InUse
<1>4. Held(p) > 0
  BY <1>1, <1>2, <1>3 DEF Held, DriverHolds
<1> QED
  BY <1>1, <1>4, HoldersCounted DEF LibraryInv, ReferencesCover, HandlesTyped

-----------------------------------------------------------------------------
(* The ways in which a call changes who holds a library, and how its       *)
(* references keep up with it.                                             *)
LEMMA ReferencesSet ==
    ASSUME HandlesTyped, NEW p \in Plugins, NEW n \in Int, SetReferences(p, n)
    PROVE  /\ refs' \in [Plugins -> Int] /\ loaded' \in [Plugins -> BOOLEAN]
           /\ refs'[p] = n /\ loaded'[p] = (loaded[p] /\ n > 0)
           /\ \A q \in Plugins \ {p} : refs'[q] = refs[q] /\ loaded'[q] = loaded[q]
<1>1. refs' \in [Plugins -> Int] /\ refs'[p] = n
  BY DEF SetReferences, HandlesTyped
<1>2. loaded' \in [Plugins -> BOOLEAN]
  <2>1. (loaded[p] /\ n > 0) \in BOOLEAN
    OBVIOUS
  <2> QED
    BY <2>1 DEF SetReferences, HandlesTyped
<1>3. loaded'[p] = (loaded[p] /\ n > 0)
  BY DEF SetReferences, HandlesTyped
<1>4. \A q \in Plugins \ {p} : refs'[q] = refs[q] /\ loaded'[q] = loaded[q]
  BY DEF SetReferences, HandlesTyped
<1> QED
  BY <1>1, <1>2, <1>3, <1>4

LEMMA SameHolders ==
    ASSUME NEW p \in Plugins, ReferencesCover(p),
           refs'[p] = refs[p], loaded'[p] = loaded[p],
           MeshesOf(p)' = MeshesOf(p), IteratorsOf(p)' = IteratorsOf(p),
           (p \in registered)' = (p \in registered)
    PROVE  ReferencesCover(p)'
BY DEF ReferencesCover, Held, DriverHolds, MeshHolds

(* A call that changes the references of p by as much as its holders gain  *)
(* or more, or takes as much as they lose or less, keeps them covered.     *)
LEMMA HoldersStep ==
    ASSUME LibraryInv, HandlesTyped',
           NEW p \in Plugins, NEW n \in Int, SetReferences(p, n), InUse(p),
           registered' = registered,
           n - refs[p] >= Held(p)' - Held(p),
           \A q \in Plugins \ {p} :
               MeshesOf(q)' = MeshesOf(q) /\ IteratorsOf(q)' = IteratorsOf(q)
    PROVE  LibraryInv'
<1>1. /\ refs'[p] = n /\ loaded'[p] = (loaded[p] /\ n > 0)
      /\ \A q \in Plugins \ {p} : refs'[q] = refs[q] /\ loaded'[q] = loaded[q]
  BY ReferencesSet DEF LibraryInv
<1>2. ReferencesCover(p)'
  <2>1. refs[p] \in Int /\ Held(p) \in Nat /\ Held(p) <= refs[p]
    BY HoldersCounted DEF LibraryInv, HandlesTyped, ReferencesCover
  <2>2. loaded[p]
    BY CountedIsLoaded
  <2>3. Held(p)' \in Nat
    <3>1. MeshesOf(p)' \in SUBSET Handles /\ IteratorsOf(p)' \in SUBSET Iterators
      BY DEF MeshesOf, IteratorsOf
    <3> QED
      BY <3>1, CountsTyped DEF Held, DriverHolds, MeshHolds
  <2>4. Held(p)' <= n
    BY <2>1, <2>3
  <2> QED
    BY <1>1, <2>2, <2>4 DEF ReferencesCover
<1>3. ASSUME NEW q \in Plugins \ {p} PROVE ReferencesCover(q)'
  BY <1>1, SameHolders DEF LibraryInv
<1> QED
  BY <1>2, <1>3 DEF LibraryInv

(* One more mesh, or one less, of library p.                               *)
LEMMA MeshGained ==
    ASSUME HandlesTyped, NEW p \in Plugins, NEW h \in Handles, NEW m,
           meshes[h].source # p, m.source = p, meshes' = [meshes EXCEPT ![h] = m]
    PROVE  Cardinality(MeshesOf(p)') = Cardinality(MeshesOf(p)) + 1
<1>1. MeshesOf(p)' = MeshesOf(p) \cup {h} /\ h \notin MeshesOf(p)
  BY DEF HandlesTyped, MeshesOf
<1>2. IsFiniteSet(Handles) /\ MeshesOf(p) \in SUBSET Handles
  BY PluginMeshesAssumption DEF MeshesOf
<1> QED
  BY <1>1, <1>2, OneMore

LEMMA MeshLost ==
    ASSUME HandlesTyped, NEW p \in Plugins, NEW h \in Handles, NEW m,
           meshes[h].source = p, m.source # p, meshes' = [meshes EXCEPT ![h] = m]
    PROVE  Cardinality(MeshesOf(p)) = Cardinality(MeshesOf(p)') + 1
<1>1. MeshesOf(p) = MeshesOf(p)' \cup {h} /\ h \notin MeshesOf(p)'
  BY DEF HandlesTyped, MeshesOf
<1>2. IsFiniteSet(Handles) /\ MeshesOf(p)' \in SUBSET Handles
  BY PluginMeshesAssumption DEF MeshesOf
<1> QED
  BY <1>1, <1>2, OneMore

(* Nothing changes for a library that is neither the old nor the new one.  *)
LEMMA MeshOfAnother ==
    ASSUME HandlesTyped, NEW p \in Plugins, NEW h \in Handles, NEW m,
           meshes[h].source # p, m.source # p, meshes' = [meshes EXCEPT ![h] = m]
    PROVE  MeshesOf(p)' = MeshesOf(p)
BY DEF HandlesTyped, MeshesOf

LEMMA IteratorGained ==
    ASSUME HandlesTyped, NEW p \in Plugins, NEW i \in Iterators, NEW it,
           iterators[i].source # p, it.source = p, iterators' = [iterators EXCEPT ![i] = it]
    PROVE  Cardinality(IteratorsOf(p)') = Cardinality(IteratorsOf(p)) + 1
<1>1. IteratorsOf(p)' = IteratorsOf(p) \cup {i} /\ i \notin IteratorsOf(p)
  BY DEF HandlesTyped, IteratorsOf
<1>2. IsFiniteSet(Iterators) /\ IteratorsOf(p) \in SUBSET Iterators
  BY PluginMeshesAssumption DEF IteratorsOf
<1> QED
  BY <1>1, <1>2, OneMore

LEMMA IteratorLost ==
    ASSUME HandlesTyped, NEW p \in Plugins, NEW i \in Iterators, NEW it,
           iterators[i].source = p, it.source # p, iterators' = [iterators EXCEPT ![i] = it]
    PROVE  Cardinality(IteratorsOf(p)) = Cardinality(IteratorsOf(p)') + 1
<1>1. IteratorsOf(p) = IteratorsOf(p)' \cup {i} /\ i \notin IteratorsOf(p)'
  BY DEF HandlesTyped, IteratorsOf
<1>2. IsFiniteSet(Iterators) /\ IteratorsOf(p)' \in SUBSET Iterators
  BY PluginMeshesAssumption DEF IteratorsOf
<1> QED
  BY <1>1, <1>2, OneMore

LEMMA IteratorOfAnother ==
    ASSUME HandlesTyped, NEW p \in Plugins, NEW i \in Iterators, NEW it,
           iterators[i].source # p, it.source # p, iterators' = [iterators EXCEPT ![i] = it]
    PROVE  IteratorsOf(p)' = IteratorsOf(p)
BY DEF HandlesTyped, IteratorsOf

-----------------------------------------------------------------------------
(* The calls that change what holds a library.                             *)
LEMMA LoadDynamicDriversCovers ==
    ASSUME LibraryInv, LoadDynamicDrivers
    PROVE  LibraryInv'
<1>1. /\ registered = {} /\ meshes' = meshes /\ iterators' = iterators
      /\ \A p \in Plugins : refs[p] = 0
      /\ registered' = {p \in Plugins : Exports[p] \notin {"no driver", "no open"}}
      /\ refs' = [p \in Plugins |-> ReferencesAfterCreate(p)]
      /\ loaded' = [p \in Plugins |-> ReferencesAfterCreate(p) > 0]
  BY DEF LoadDynamicDrivers
<1>2. \A p \in Plugins :
        /\ ReferencesAfterCreate(p) \in Int
        /\ ReferencesAfterCreate(p) >= 0
        /\ p \in registered' => ReferencesAfterCreate(p) >= 1
  <2> SUFFICES ASSUME NEW p \in Plugins
               PROVE  /\ ReferencesAfterCreate(p) \in Int
                      /\ ReferencesAfterCreate(p) >= 0
                      /\ p \in registered' => ReferencesAfterCreate(p) >= 1
    OBVIOUS
  <2>1. p \in registered' => Exports[p] # "no driver" /\ Exports[p] # "no open"
    BY <1>1
  <2>2. CASE Exports[p] = "no driver"
    <3>1. ReferencesAfterCreate(p) = 1 - 1
      BY <2>2 DEF ReferencesAfterCreate
    <3>2. p \notin registered'
      BY <2>1, <2>2
    <3> QED
      BY <3>1, <3>2
  <2>3. CASE Exports[p] = "no open"
    <3>1. ReferencesAfterCreate(p) = 1 + CopyReferences - 1 - 1
      BY <2>3 DEF ReferencesAfterCreate
    <3>2. p \notin registered'
      BY <2>1, <2>3
    <3> QED
      BY <3>1, <3>2 DEF CopyReferences
  <2>4. CASE Exports[p] # "no driver" /\ Exports[p] # "no open"
    <3>1. ReferencesAfterCreate(p) = 1 + CopyReferences - 1
      BY <2>4 DEF ReferencesAfterCreate
    <3> QED
      BY <3>1 DEF CopyReferences
  <2> QED
    BY <2>2, <2>3, <2>4
<1>3. HandlesTyped'
  <2>1. \A p \in Plugins : (ReferencesAfterCreate(p) > 0) \in BOOLEAN
    OBVIOUS
  <2> QED
    BY <1>1, <1>2, <2>1 DEF LibraryInv, HandlesTyped
<1>4. ASSUME NEW p \in Plugins PROVE ReferencesCover(p)'
  <2>1. Held(p) = 0
    <3>1. Held(p) \in Nat
      BY HoldersCounted
    <3>2. Held(p) <= refs[p]
      BY DEF LibraryInv, ReferencesCover
    <3>3. refs[p] = 0
      BY <1>1
    <3> QED
      BY <3>1, <3>2, <3>3
  <2>2. /\ Held(p)' = Held(p) + DriverHolds(p)' - DriverHolds(p)
        /\ DriverHolds(p) = 0
    <3>1. MeshesOf(p)' = MeshesOf(p) /\ IteratorsOf(p)' = IteratorsOf(p)
      BY <1>1 DEF MeshesOf, IteratorsOf
    <3>2. DriverHolds(p) = 0 /\ DriverHolds(p)' \in {0, 1}
      BY <1>1 DEF DriverHolds
    <3>3. MeshHolds(p)' = MeshHolds(p)
      BY DEF MeshHolds
    <3>4. /\ Cardinality(MeshesOf(p)) * MeshHolds(p) \in Nat
          /\ Cardinality(IteratorsOf(p)) \in Nat
      BY HoldersCounted
    <3> QED
      BY <3>1, <3>2, <3>3, <3>4 DEF Held
  <2>3. Held(p)' <= ReferencesAfterCreate(p)
    BY <1>2, <2>1, <2>2 DEF DriverHolds
  <2> QED
    BY <1>1, <2>3 DEF ReferencesCover
<1> QED
  BY <1>3, <1>4 DEF LibraryInv

LEMMA LoadMeshCovers ==
    ASSUME LibraryInv, NEW h \in Handles, NEW p \in Plugins, LoadMesh(h, p)
    PROVE  LibraryInv'
<1> DEFINE n == References(p, 2 + DatasetCount[p], 1)
           m == Mesh(p, NewId(p), opened[p])
<1>1. /\ p \in registered /\ meshes[h] = NoMesh /\ registered' = registered
      /\ meshes' = [meshes EXCEPT ![h] = m] /\ iterators' = iterators
      /\ SetReferences(p, n)
  BY DEF LoadMesh
<1>2. refs[p] \in Int /\ DatasetCount[p] \in Nat
  BY PluginMeshesAssumption DEF LibraryInv, HandlesTyped
<1>3. n \in Int /\ n - refs[p] = 3 + 2 * DatasetCount[p]
  BY <1>2 DEF References, CopyReferences
<1>4. HandlesTyped'
  BY <1>1, <1>3, ReferencesSet DEF LibraryInv, HandlesTyped
<1>5. m.source = p /\ \A q \in Plugins : meshes[h].source # q
  <2>1. m.source = p
    BY DEF Mesh
  <2>2. meshes[h].source = "none"
    BY <1>1 DEF NoMesh
  <2> QED
    BY <2>1, <2>2, PluginNames
<1>6. \A q \in Plugins : IteratorsOf(q)' = IteratorsOf(q)
  BY <1>1 DEF IteratorsOf
<1>7. \A q \in Plugins \ {p} : MeshesOf(q)' = MeshesOf(q)
  BY <1>1, <1>5, MeshOfAnother DEF LibraryInv
<1>8. Held(p)' - Held(p) = 1 + DatasetCount[p]
  <2>1. Cardinality(MeshesOf(p)') = Cardinality(MeshesOf(p)) + 1
    BY <1>1, <1>5, MeshGained DEF LibraryInv
  <2>2. (Cardinality(MeshesOf(p)) + 1) * MeshHolds(p)
            = Cardinality(MeshesOf(p)) * MeshHolds(p) + MeshHolds(p)
    BY HoldersCounted
  <2>3. /\ DriverHolds(p)' = DriverHolds(p) /\ DriverHolds(p) \in Nat
        /\ MeshHolds(p)' = MeshHolds(p) /\ MeshHolds(p) = 1 + DatasetCount[p]
    BY <1>1 DEF DriverHolds, MeshHolds
  <2> QED
    BY <1>6, <2>1, <2>2, <2>3, HoldersCounted DEF Held
<1>9. InUse(p)
  BY <1>1 DEF InUse
<1> QED
  BY <1>1, <1>2, <1>3, <1>4, <1>6, <1>7, <1>8, <1>9, HoldersStep

(* A driver instance or a mesh that comes and goes within the call.        *)
LEMMA OpenRefusedCovers ==
    ASSUME LibraryInv, NEW p \in Plugins, NEW n \in Nat,
           p \in registered, registered' = registered,
           meshes' = meshes, iterators' = iterators,
           SetReferences(p, References(p, n, n))
    PROVE  LibraryInv'
<1>1. refs[p] \in Int
  BY DEF LibraryInv, HandlesTyped
<1>2. References(p, n, n) \in Int /\ References(p, n, n) - refs[p] = n
  BY <1>1 DEF References, CopyReferences
<1>3. HandlesTyped'
  BY <1>2, ReferencesSet DEF LibraryInv, HandlesTyped
<1>4. \A q \in Plugins : MeshesOf(q)' = MeshesOf(q) /\ IteratorsOf(q)' = IteratorsOf(q)
  BY DEF MeshesOf, IteratorsOf
<1>5. Held(p)' = Held(p) /\ Held(p) \in Nat
  BY <1>4, HoldersCounted DEF Held, DriverHolds, MeshHolds
<1> QED
  BY <1>2, <1>3, <1>4, <1>5, HoldersStep DEF InUse

LEMMA CloseMeshCovers ==
    ASSUME LibraryInv, NEW h \in Handles, CloseMesh(h),
           NEW p \in Plugins, p = meshes[h].source
    PROVE  LibraryInv'
<1> DEFINE n == References(p, 0, 1 + DatasetCount[p])
<1>1. /\ registered' = registered
      /\ meshes' = [meshes EXCEPT ![h] = NoMesh] /\ iterators' = iterators
      /\ SetReferences(p, n)
  BY DEF CloseMesh
<1>2. refs[p] \in Int /\ DatasetCount[p] \in Nat
  BY <1>1, PluginMeshesAssumption DEF LibraryInv, HandlesTyped
<1>3. n \in Int /\ n - refs[p] = -(1 + DatasetCount[p])
  BY <1>2 DEF References, CopyReferences
<1>4. HandlesTyped'
  BY <1>1, <1>3, ReferencesSet DEF LibraryInv, HandlesTyped
<1>5. \A q \in Plugins : NoMesh.source # q
  BY PluginNames DEF NoMesh
<1>6. \A q \in Plugins : IteratorsOf(q)' = IteratorsOf(q)
  BY <1>1 DEF IteratorsOf
<1>7. \A q \in Plugins \ {p} : MeshesOf(q)' = MeshesOf(q)
  BY <1>1, <1>5, MeshOfAnother DEF LibraryInv
<1>8. Held(p)' - Held(p) = -(1 + DatasetCount[p])
  <2>1. Cardinality(MeshesOf(p)) = Cardinality(MeshesOf(p)') + 1
    BY <1>1, <1>5, MeshLost DEF LibraryInv
  <2>2. Cardinality(MeshesOf(p)') \in Nat
    <3>1. MeshesOf(p)' \in SUBSET Handles /\ {} \in SUBSET Iterators
      BY DEF MeshesOf
    <3> QED
      BY <1>1, <3>1, CountsTyped
  <2>3. (Cardinality(MeshesOf(p)') + 1) * MeshHolds(p)
            = Cardinality(MeshesOf(p)') * MeshHolds(p) + MeshHolds(p)
    BY <1>1, <2>2, HoldersCounted
  <2>4. /\ DriverHolds(p)' = DriverHolds(p) /\ DriverHolds(p) \in Nat
        /\ MeshHolds(p)' = MeshHolds(p) /\ MeshHolds(p) = 1 + DatasetCount[p]
    BY <1>1 DEF DriverHolds, MeshHolds
  <2> QED
    BY <1>1, <1>6, <2>1, <2>2, <2>3, <2>4, HoldersCounted DEF Held
<1>9. InUse(p)
  <2>1. h \in MeshesOf(p)
    BY DEF MeshesOf
  <2> QED
    BY <2>1 DEF InUse
<1> QED
  BY <1>1, <1>2, <1>3, <1>4, <1>6, <1>7, <1>8, <1>9, HoldersStep

LEMMA SourcesOfIterators ==
    /\ NoIterator.source = "none" /\ "source" \in DOMAIN NoIterator
    /\ \A m, kind : /\ NewIterator(m, kind).source = m.source
                    /\ "source" \in DOMAIN NewIterator(m, kind)
BY DEF NoIterator, NewIterator

(* What is left of a call that changes no references.                      *)
LEMMA NothingHeld ==
    ASSUME LibraryInv, HandlesTyped',
           registered' = registered, refs' = refs, loaded' = loaded,
           \A q \in Plugins :
               MeshesOf(q)' = MeshesOf(q) /\ IteratorsOf(q)' = IteratorsOf(q)
    PROVE  LibraryInv'
BY SameHolders DEF LibraryInv

LEMMA OpenIteratorCovers ==
    ASSUME LibraryInv, NEW i \in Iterators, NEW h \in Handles, NEW kind,
           OpenIterator(i, h, kind),
           NEW p, p = meshes[h].source
    PROVE  LibraryInv'
<1> DEFINE it == NewIterator(meshes[h], kind)
           n == References(p, 1, 0)
<1>1. /\ registered' = registered /\ meshes' = meshes
      /\ iterators' = [iterators EXCEPT ![i] = it] /\ iterators[i] = NoIterator
      /\ \/ p = "memory" /\ refs' = refs /\ loaded' = loaded
         \/ p \in Plugins /\ SetReferences(p, n)
  BY DEF OpenIterator
<1>2. /\ it.source = p /\ "source" \in DOMAIN it
      /\ \A q \in Plugins : iterators[i].source # q
  BY <1>1, SourcesOfIterators, PluginNames
<1>3. \A q \in Plugins : MeshesOf(q)' = MeshesOf(q)
  BY <1>1 DEF MeshesOf
<1>4. \A q \in Plugins \ {p} : IteratorsOf(q)' = IteratorsOf(q)
  BY <1>1, <1>2, IteratorOfAnother DEF LibraryInv
<1>5. DOMAIN iterators' = Iterators /\ \A j \in Iterators : "source" \in DOMAIN iterators'[j]
  BY <1>1, <1>2 DEF LibraryInv, HandlesTyped
<1>6. CASE p = "memory" /\ refs' = refs /\ loaded' = loaded
  <2>1. HandlesTyped'
    BY <1>1, <1>5, <1>6 DEF LibraryInv, HandlesTyped
  <2> QED
    BY <1>1, <1>3, <1>4, <1>6, <2>1, PluginNames, NothingHeld
<1>7. CASE p \in Plugins /\ SetReferences(p, n)
  <2>1. refs[p] \in Int
    BY <1>7 DEF LibraryInv, HandlesTyped
  <2>2. n \in Int /\ n - refs[p] = 2
    BY <2>1 DEF References, CopyReferences
  <2>3. HandlesTyped'
    BY <1>1, <1>5, <1>7, <2>2, ReferencesSet DEF LibraryInv, HandlesTyped
  <2>4. Held(p)' - Held(p) = 1
    <3>1. Cardinality(IteratorsOf(p)') = Cardinality(IteratorsOf(p)) + 1
      BY <1>1, <1>2, <1>7, IteratorGained DEF LibraryInv
    <3>2. /\ DriverHolds(p)' = DriverHolds(p) /\ DriverHolds(p) \in Nat
          /\ MeshHolds(p)' = MeshHolds(p)
      BY <1>1 DEF DriverHolds, MeshHolds
    <3> QED
      BY <1>3, <1>7, <3>1, <3>2, HoldersCounted DEF Held
  <2>5. InUse(p)
    <3>1. h \in MeshesOf(p)
      BY DEF MeshesOf
    <3> QED
      BY <3>1 DEF InUse
  <2> QED
    BY <1>1, <1>3, <1>4, <1>7, <2>1, <2>2, <2>3, <2>4, <2>5, HoldersStep
<1> QED
  BY <1>1, <1>6, <1>7

LEMMA CloseIteratorCovers ==
    ASSUME LibraryInv, NEW i \in Iterators, CloseIterator(i),
           NEW p, p = iterators[i].source
    PROVE  LibraryInv'
<1> DEFINE n == References(p, 0, 1)
<1>1. /\ registered' = registered /\ meshes' = meshes
      /\ iterators' = [iterators EXCEPT ![i] = NoIterator]
      /\ \/ p = "memory" /\ refs' = refs /\ loaded' = loaded
         \/ p \in Plugins /\ SetReferences(p, n)
  BY DEF CloseIterator
<1>2. "source" \in DOMAIN NoIterator /\ \A q \in Plugins : NoIterator.source # q
  BY SourcesOfIterators, PluginNames
<1>3. \A q \in Plugins : MeshesOf(q)' = MeshesOf(q)
  BY <1>1 DEF MeshesOf
<1>4. \A q \in Plugins \ {p} : IteratorsOf(q)' = IteratorsOf(q)
  BY <1>1, <1>2, IteratorOfAnother DEF LibraryInv
<1>5. DOMAIN iterators' = Iterators /\ \A j \in Iterators : "source" \in DOMAIN iterators'[j]
  BY <1>1, <1>2 DEF LibraryInv, HandlesTyped
<1>6. CASE p = "memory" /\ refs' = refs /\ loaded' = loaded
  <2>1. HandlesTyped'
    BY <1>1, <1>5, <1>6 DEF LibraryInv, HandlesTyped
  <2> QED
    BY <1>1, <1>3, <1>4, <1>6, <2>1, PluginNames, NothingHeld
<1>7. CASE p \in Plugins /\ SetReferences(p, n)
  <2>1. refs[p] \in Int
    BY <1>7 DEF LibraryInv, HandlesTyped
  <2>2. n \in Int /\ n - refs[p] = -1
    BY <2>1 DEF References, CopyReferences
  <2>3. HandlesTyped'
    BY <1>1, <1>5, <1>7, <2>2, ReferencesSet DEF LibraryInv, HandlesTyped
  <2>4. Held(p)' - Held(p) = -1
    <3>1. Cardinality(IteratorsOf(p)) = Cardinality(IteratorsOf(p)') + 1
      BY <1>1, <1>2, <1>7, IteratorLost DEF LibraryInv
    <3>2. Cardinality(IteratorsOf(p)') \in Nat
      <4>1. IteratorsOf(p)' \in SUBSET Iterators /\ {} \in SUBSET Handles
        BY DEF IteratorsOf
      <4> QED
        BY <1>7, <4>1, CountsTyped
    <3>3. /\ DriverHolds(p)' = DriverHolds(p) /\ DriverHolds(p) \in Nat
          /\ MeshHolds(p)' = MeshHolds(p)
      BY <1>1 DEF DriverHolds, MeshHolds
    <3> QED
      BY <1>3, <1>7, <3>1, <3>2, <3>3, HoldersCounted DEF Held
  <2>5. InUse(p)
    <3>1. i \in IteratorsOf(p)
      BY DEF IteratorsOf
    <3> QED
      BY <3>1 DEF InUse
  <2> QED
    BY <1>1, <1>3, <1>4, <1>7, <2>1, <2>2, <2>3, <2>4, <2>5, HoldersStep
<1> QED
  BY <1>1, <1>6, <1>7

(* Reading moves an iterator and leaves it with its library.               *)
LEMMA IteratorNextCovers ==
    ASSUME LibraryInv, NEW i \in Iterators, NEW k, NEW len, IteratorNext(i, k, len)
    PROVE  LibraryInv'
<1>1. PICK e : iterators' = [iterators EXCEPT ![i] = Advanced(iterators[i], e)]
  BY DEF IteratorNext
<1>2. UNCHANGED <<registered, refs, loaded, meshes>>
  BY DEF IteratorNext
<1>3. /\ Advanced(iterators[i], e).source = iterators[i].source
      /\ "source" \in DOMAIN Advanced(iterators[i], e)
  BY DEF Advanced, LibraryInv, HandlesTyped
<1>4. HandlesTyped'
  BY <1>1, <1>2, <1>3 DEF LibraryInv, HandlesTyped
<1>5. \A q \in Plugins : MeshesOf(q)' = MeshesOf(q) /\ IteratorsOf(q)' = IteratorsOf(q)
  BY <1>1, <1>2, <1>3 DEF MeshesOf, IteratorsOf, LibraryInv, HandlesTyped
<1> QED
  BY <1>2, <1>4, <1>5, NothingHeld

-----------------------------------------------------------------------------
LEMMA LibraryInvInit == PluginInit => LibraryInv
<1> SUFFICES ASSUME PluginInit PROVE LibraryInv
  OBVIOUS
<1>1. HandlesTyped
  BY SourcesOfIterators DEF PluginInit, HandlesTyped
<1>2. ASSUME NEW p \in Plugins PROVE ReferencesCover(p)
  <2>1. MeshesOf(p) = {} /\ IteratorsOf(p) = {} /\ p \notin registered /\ refs[p] = 0
    BY PluginNames DEF PluginInit, MeshesOf, IteratorsOf, NoMesh, NoIterator
  <2>2. Cardinality({}) = 0 /\ 0 * MeshHolds(p) = 0
    BY FS_EmptySet, HoldersCounted
  <2> QED
    BY <2>1, <2>2 DEF ReferencesCover, Held, DriverHolds
<1> QED
  BY <1>1, <1>2 DEF LibraryInv

LEMMA LibraryInvNext == LibraryInv /\ [PluginNext]_vars => LibraryInv'
<1> SUFFICES ASSUME LibraryInv, [PluginNext]_vars PROVE LibraryInv'
  OBVIOUS
<1>1. CASE LoadDynamicDrivers
  BY <1>1, LoadDynamicDriversCovers
<1>2. ASSUME NEW p \in Plugins, OpenRefused(p) PROVE LibraryInv'
  BY <1>2, OpenRefusedCovers DEF OpenRefused
<1>3. ASSUME NEW p \in Plugins, NEW h \in Handles, LoadMesh(h, p) PROVE LibraryInv'
  BY <1>3, LoadMeshCovers
<1>4. ASSUME NEW p \in Plugins, NEW n \in 0..DatasetCount[p], PopulateFails(p, n)
      PROVE  LibraryInv'
  <2>1. 2 + n \in Nat
    OBVIOUS
  <2> QED
    BY <1>4, <2>1, OpenRefusedCovers DEF PopulateFails
<1>5. ASSUME NEW h \in Handles, LoadMemoryMesh(h) \/ CloseMemoryMesh(h) PROVE LibraryInv'
  <2>1. PICK m : /\ m.source \in {"none", "memory"} /\ meshes[h].source \in {"none", "memory"}
                 /\ meshes' = [meshes EXCEPT ![h] = m]
    BY <1>5 DEF LoadMemoryMesh, CloseMemoryMesh, Mesh, NoMesh
  <2>2. UNCHANGED <<registered, refs, loaded, iterators>>
    BY <1>5 DEF LoadMemoryMesh, CloseMemoryMesh
  <2>3. HandlesTyped'
    BY <2>1, <2>2 DEF LibraryInv, HandlesTyped
  <2>4. \A q \in Plugins : MeshesOf(q)' = MeshesOf(q)
    BY <2>1, PluginNames, MeshOfAnother DEF LibraryInv
  <2>5. \A q \in Plugins : IteratorsOf(q)' = IteratorsOf(q)
    BY <2>2 DEF IteratorsOf
  <2> QED
    BY <2>2, <2>3, <2>4, <2>5, NothingHeld
<1>6. ASSUME NEW h \in Handles, CloseMesh(h) PROVE LibraryInv'
  <2>1. meshes[h].source \in Plugins
    BY <1>6 DEF CloseMesh
  <2> QED
    BY <1>6, <2>1, CloseMeshCovers
<1>7. ASSUME NEW h \in Handles, NEW i \in Iterators, NEW kind \in Kinds,
             OpenIterator(i, h, kind)
      PROVE  LibraryInv'
  BY <1>7, OpenIteratorCovers
<1>8. ASSUME NEW i \in Iterators, CloseIterator(i) PROVE LibraryInv'
  BY <1>8, CloseIteratorCovers
<1>9. ASSUME NEW i \in Iterators, NextBlock(i) PROVE LibraryInv'
  BY <1>9, IteratorNextCovers DEF NextBlock
<1>10. CASE UNCHANGED vars
  <2>1. HandlesTyped' /\ UNCHANGED <<registered, refs, loaded>>
    BY <1>10 DEF vars, LibraryInv, HandlesTyped
  <2>2. \A q \in Plugins : MeshesOf(q)' = MeshesOf(q) /\ IteratorsOf(q)' = IteratorsOf(q)
    BY <1>10 DEF vars, MeshesOf, IteratorsOf
  <2> QED
    BY <2>1, <2>2, NothingHeld
<1> QED
  BY <1>1, <1>2, <1>3, <1>4, <1>5, <1>6, <1>7, <1>8, <1>9, <1>10 DEF PluginNext

(* The inductive invariant: the references counted by hand (Library in     *)
(* mdal_utils.cpp) cover all that the holders of a library will give back. *)
THEOREM LibraryInvHolds == PluginSpec => []LibraryInv
BY LibraryInvInit, LibraryInvNext, PTL DEF PluginSpec

(* A library that a driver, a mesh or an iterator still calls into is open,*)
(* for any number of libraries, meshes and iterators in any order of       *)
(* loading, failing and closing.                                           *)
THEOREM LibrariesStay == PluginSpec => []LibraryStays
<1>1. LibraryInv => LibraryStays
  BY CountedIsLoaded DEF LibraryStays
<1> QED
  BY <1>1, LibraryInvHolds, PTL
-----------------------------------------------------------------------------
(* Induction over the natural numbers, on sets of them.                    *)
LEMMA Least ==
    ASSUME NEW T \in SUBSET Nat, T # {}
    PROVE  \E n \in T : \A m \in T : n <= m
<1> DEFINE R == OpToRel(<, Nat)
<1>1. IsWellFoundedOn(R, Nat)
  BY NatLessThanWellFounded
<1> HIDE DEF R
<1>2. \E x \in T : \A y \in T : <<y, x>> \notin R
  BY <1>1, WFMin
<1>3. \A x, y \in Nat : <<y, x>> \notin R => x <= y
  BY DEF R, OpToRel
<1> QED
  BY <1>2, <1>3

LEMMA UpTo ==
    ASSUME NEW n \in Nat, NEW S, 0 \in S,
           \A k \in 1..n : k - 1 \in S => k \in S
    PROVE  0..n \subseteq S
<1> DEFINE T == {k \in 0..n : k \notin S}
<1> SUFFICES ASSUME T # {} PROVE FALSE
  OBVIOUS
<1>1. T \in SUBSET Nat
  OBVIOUS
<1>2. PICK k \in T : \A m \in T : k <= m
  <2> HIDE DEF T
  <2> QED
    BY <1>1, Least
<1>3. k \in 1..n /\ k - 1 \in 0..n
  BY <1>2
<1>4. k - 1 \notin T
  BY <1>2, <1>3
<1> QED
  BY <1>2, <1>3, <1>4

(* The functions that a definition by recursion over 0..n stands for.      *)
Runs(n, S, x, step) ==
    {g \in [0..n -> S] : g[0] = x /\ \A k \in 1..n : g[k] = step[<<g[k - 1], k>>]}

LEMMA StepsFrom ==
    ASSUME NEW n \in Nat, NEW S, NEW x \in S, NEW step \in [S \X (1..n) -> S]
    PROVE  Runs(n, S, x, step) # {}
<1> DEFINE G(m) == {g \in [0..m -> S] :
                       g[0] = x /\ \A k \in 1..m : g[k] = step[<<g[k - 1], k>>]}
           T == {m \in 0..n : G(m) # {}}
<1>1. 0 \in T
  <2>1. [k \in 0..0 |-> x] \in G(0)
    OBVIOUS
  <2> QED
    BY <2>1
<1>2. ASSUME NEW m \in 1..n, m - 1 \in T PROVE m \in T
  <2>1. PICK g \in G(m - 1) : TRUE
    BY <1>2
  <2>2. /\ g \in [0..(m - 1) -> S] /\ g[0] = x
        /\ \A k \in 1..(m - 1) : g[k] = step[<<g[k - 1], k>>]
    BY <2>1
  <2> DEFINE h == [k \in 0..m |-> IF k = m THEN step[<<g[m - 1], m>>] ELSE g[k]]
  <2>3. g[m - 1] \in S /\ step[<<g[m - 1], m>>] \in S
    <3>1. m - 1 \in 0..(m - 1)
      OBVIOUS
    <3> QED
      BY <2>2, <3>1
  <2>4. h \in [0..m -> S]
    <3>1. ASSUME NEW k \in 0..m, k # m PROVE g[k] \in S
      <4>1. k \in 0..(m - 1)
        BY <3>1
      <4> QED
        BY <2>2, <4>1
    <3> QED
      BY <2>3, <3>1
  <2>5. h[0] = x
    BY <2>2
  <2>6. ASSUME NEW k \in 1..m PROVE h[k] = step[<<h[k - 1], k>>]
    <3>1. k - 1 \in 0..m /\ k - 1 # m /\ k \in 0..m
      OBVIOUS
    <3>2. h[k - 1] = g[k - 1]
      BY <3>1
    <3>3. CASE k = m
      <4>1. h[k] = step[<<g[m - 1], m>>]
        BY <3>1, <3>3
      <4> QED
        BY <3>2, <3>3, <4>1
    <3>4. CASE k # m
      <4>1. k \in 1..(m - 1)
        BY <3>4
      <4> QED
        BY <2>2, <3>2, <3>4, <4>1
    <3> QED
      BY <3>3, <3>4
  <2>7. h \in G(m)
    <3> HIDE DEF h
    <3> QED
      BY <2>4, <2>5, <2>6
  <2>8. m \in 0..n
    OBVIOUS
  <2> HIDE DEF G, h
  <2> QED
    BY <2>7, <2>8
<1>3. n \in T
  <2> HIDE DEF T
  <2>1. 0..n \subseteq T
    BY <1>1, <1>2, UpTo
  <2> QED
    BY <2>1
<1> QED
  BY <1>3 DEF Runs

LEMMA LargestUpTo ==
    ASSUME NEW n \in Nat, NEW T \in SUBSET (0..n), T # {}
    PROVE  \E e \in T : \A m \in T : m <= e
<1> DEFINE U == {u \in Nat : n - u \in T}
<1>1. U \in SUBSET Nat /\ U # {}
  <2>1. PICK e \in T : TRUE
    OBVIOUS
  <2>2. n - e \in Nat /\ n - (n - e) = e
    OBVIOUS
  <2> QED
    BY <2>1, <2>2
<1>2. PICK u \in U : \A v \in U : u <= v
  <2> HIDE DEF U
  <2> QED
    BY <1>1, Least
<1> DEFINE e == n - u
<1>3. e \in T
  BY <1>2
<1>4. ASSUME NEW m \in T PROVE m <= e
  <2>1. n - m \in Nat /\ n - (n - m) = m
    OBVIOUS
  <2>2. u <= n - m
    BY <1>2, <2>1
  <2> QED
    BY <1>2, <2>2
<1> QED
  BY <1>3, <1>4

(* The recursion of BeginsOf adds up the sizes.                            *)
LEMMA BeginsOfStep ==
   ASSUME NEW a \in Seq(Nat)
   PROVE  /\ BeginsOf(a) \in [0..Len(a) -> Nat]
          /\ BeginsOf(a)[0] = 0
          /\ \A k \in 1..Len(a) : BeginsOf(a)[k] = BeginsOf(a)[k - 1] + a[k]
<1> DEFINE F == BeginsOf(a)
           step == [y \in Nat \X (1..Len(a)) |-> y[1] + a[y[2]]]
<1>1. Len(a) \in Nat /\ \A k \in 1..Len(a) : a[k] \in Nat
  OBVIOUS
<1>2. step \in [Nat \X (1..Len(a)) -> Nat]
  BY <1>1
<1>3. \A m \in Nat, k \in 1..Len(a) : step[<<m, k>>] = m + a[k]
  OBVIOUS
<1>4. PICK g \in [0..Len(a) -> Nat] :
         g[0] = 0 /\ \A k \in 1..Len(a) : g[k] = step[<<g[k - 1], k>>]
  <2> HIDE DEF step
  <2>1. Runs(Len(a), Nat, 0, step) # {}
    BY <1>1, <1>2, StepsFrom
  <2> QED
    BY <2>1 DEF Runs
<1>5. \A k \in 1..Len(a) : k - 1 \in 0..Len(a) /\ g[k] = g[k - 1] + a[k]
  <2> HIDE DEF step
  <2>1. ASSUME NEW k \in 1..Len(a) PROVE k - 1 \in 0..Len(a) /\ g[k - 1] \in Nat
    <3>1. k - 1 \in 0..Len(a)
      BY <1>1
    <3> QED
      BY <3>1
  <2> QED
    BY <1>3, <1>4, <2>1
<1>6. g = [k \in 0..Len(a) |-> IF k = 0 THEN 0 ELSE g[k - 1] + a[k]]
  <2>1. ASSUME NEW k \in 0..Len(a), k # 0 PROVE g[k] = g[k - 1] + a[k]
    <3>1. k \in 1..Len(a)
      BY <1>1, <2>1
    <3> QED
      BY <1>5, <3>1
  <2> QED
    BY <1>4, <2>1
<1>7. F = [k \in 0..Len(a) |-> IF k = 0 THEN 0 ELSE F[k - 1] + a[k]]
  BY <1>6 DEF BeginsOf
<1> HIDE DEF F
<1>8. F[0] = 0 /\ \A k \in 1..Len(a) : F[k] = F[k - 1] + a[k]
  <2>1. \A k \in 0..Len(a) : F[k] = IF k = 0 THEN 0 ELSE F[k - 1] + a[k]
    BY <1>7
  <2> QED
    BY <1>1, <2>1
<1> DEFINE S == {k \in 0..Len(a) : F[k] \in Nat}
<1>9. 0..Len(a) \subseteq S
  <2>1. 0 \in S
    BY <1>1, <1>8
  <2>2. ASSUME NEW k \in 1..Len(a), k - 1 \in S PROVE k \in S
    <3>1. F[k - 1] \in Nat /\ a[k] \in Nat /\ k \in 0..Len(a)
      BY <1>1, <2>2
    <3>2. F[k] = F[k - 1] + a[k]
      BY <1>8
    <3> QED
      BY <3>1, <3>2
  <2> HIDE DEF S
  <2> QED
    BY <1>1, <2>1, <2>2, UpTo
<1>10. F \in [0..Len(a) -> Nat]
  BY <1>7, <1>9
<1> QED
  BY <1>8, <1>10 DEF F

-----------------------------------------------------------------------------
(* What next() delivers, for the refinement of BlockReader.                *)
Copied == [mesh : Int, at : Nat, size : Nat]

(* The first n items of a mesh, as an iterator should have copied them.    *)
FirstItems(source, no, kind, n) == [k \in 1..n |-> ItemOf(source, no, kind, k)]

LEMMA ShapesTyped ==
    ASSUME NEW s \in Sources
    PROVE  /\ Shape[s].faces \in Seq(Nat) /\ Len(Shape[s].faces) \in Nat
           /\ \A k \in 1..Len(Shape[s].faces) : Shape[s].faces[k] \in 1..FaceMax
           /\ FaceMax \in Nat
           /\ \A kind \in Kinds : Count(s, kind) \in Nat
<1>1. Shape[s] \in [vertices : Nat, edges : Nat, faces : Seq(1..FaceMax)]
  BY PluginMeshesAssumption
<1>2. FaceMax \in Nat
  BY PluginMeshesAssumption
<1>3. Shape[s].faces \in Seq(1..FaceMax)
  BY <1>1
<1>4. Shape[s].faces \in Seq(Nat)
  <2>1. 1..FaceMax \subseteq Nat
    BY <1>2
  <2> QED
    BY <1>3, <2>1, SeqMonotonic
<1>5. Len(Shape[s].faces) \in Nat
  BY <1>4
<1>6. \A kind \in Kinds : Count(s, kind) \in Nat
  BY <1>1, <1>5 DEF Count, Kinds
<1>7. ASSUME NEW k \in 1..Len(Shape[s].faces) PROVE Shape[s].faces[k] \in 1..FaceMax
  BY <1>3, ElementOfSeq
<1> QED
  BY <1>2, <1>4, <1>5, <1>6, <1>7

(* Where the faces of a mesh begin in its connectivity.                    *)
LEMMA BeginsTyped ==
    ASSUME NEW s \in Sources
    PROVE  /\ Begin(s, 0) = 0
           /\ \A k \in 0..Count(s, "faces") : Begin(s, k) \in Nat
           /\ \A k \in 0..(Count(s, "faces") - 1) :
                 Begin(s, k + 1) - Begin(s, k) \in 1..FaceMax
<1> DEFINE a == Shape[s].faces
<1>1. /\ a \in Seq(Nat) /\ Count(s, "faces") = Len(a) /\ Len(a) \in Nat
      /\ \A k \in 1..Len(a) : a[k] \in 1..FaceMax
  BY ShapesTyped DEF Count
<1>2. \A k : Begin(s, k) = BeginsOf(a)[k]
  BY DEF Begin, Begins
<1> HIDE DEF a
<1>3. /\ BeginsOf(a) \in [0..Len(a) -> Nat] /\ BeginsOf(a)[0] = 0
      /\ \A k \in 1..Len(a) : BeginsOf(a)[k] = BeginsOf(a)[k - 1] + a[k]
  BY <1>1, BeginsOfStep
<1>4. ASSUME NEW k \in 0..Count(s, "faces") PROVE Begin(s, k) \in Nat
  BY <1>1, <1>2, <1>3
<1>5. ASSUME NEW k \in 0..(Count(s, "faces") - 1)
      PROVE  Begin(s, k + 1) - Begin(s, k) \in 1..FaceMax
  <2>1. k + 1 \in 1..Len(a) /\ k \in 0..Len(a) /\ k + 1 - 1 = k /\ FaceMax \in Nat
    BY <1>1, ShapesTyped
  <2>2. BeginsOf(a)[k + 1] = BeginsOf(a)[k] + a[k + 1] /\ BeginsOf(a)[k] \in Nat
    BY <1>3, <2>1
  <2>3. a[k + 1] \in 1..FaceMax
    BY <1>1, <2>1
  <2> QED
    BY <1>2, <2>1, <2>2, <2>3
<1> QED
  BY <1>2, <1>3, <1>4, <1>5

LEMMA ItemsTyped ==
    ASSUME NEW source \in Sources, NEW no \in Int, NEW kind \in Kinds,
           NEW k \in 1..Count(source, kind)
    PROVE  ItemOf(source, no, kind, k) \in Copied
<1>1. Count(source, kind) \in Nat
  BY ShapesTyped
<1>2. CASE kind = "faces"
  <2>1. k - 1 \in 0..Count(source, "faces") /\ k \in 1..Len(Shape[source].faces)
    BY <1>1, <1>2 DEF Count
  <2>2. Begin(source, k - 1) \in Nat
    BY <2>1, BeginsTyped
  <2>3. Shape[source].faces[k] \in Nat
    <3>1. Shape[source].faces[k] \in 1..FaceMax /\ FaceMax \in Nat
      BY <2>1, ShapesTyped
    <3> QED
      BY <3>1
  <2> QED
    BY <1>2, <2>2, <2>3 DEF ItemOf, Item, Copied
<1>3. CASE kind # "faces"
  BY <1>1, <1>3 DEF ItemOf, Item, Copied
<1> QED
  BY <1>2, <1>3

LEMMA FirstItemsTyped ==
    ASSUME NEW source \in Sources, NEW no \in Int, NEW kind \in Kinds,
           NEW n \in 0..Count(source, kind)
    PROVE  LET s == FirstItems(source, no, kind, n)
           IN  /\ s \in Seq(Copied) /\ Len(s) = n
               /\ \A k \in 1..n : s[k] = ItemOf(source, no, kind, k)
<1> DEFINE s == FirstItems(source, no, kind, n)
<1>1. n \in Nat /\ Count(source, kind) \in Nat
  BY ShapesTyped
<1>2. \A k \in 1..n : ItemOf(source, no, kind, k) \in Copied
  BY <1>1, ItemsTyped
<1>3. s \in [1..n -> Copied]
  BY <1>2 DEF FirstItems
<1>4. s \in Seq(Copied)
  BY <1>1, <1>3, SeqDef
<1>5. DOMAIN s = 1..n /\ DOMAIN s = 1..Len(s) /\ Len(s) \in Nat
  BY <1>3, <1>4, LenProperties
<1>6. Len(s) = n
  BY <1>1, <1>5
<1>7. \A k \in 1..n : s[k] = ItemOf(source, no, kind, k)
  BY DEF FirstItems
<1> QED
  BY <1>4, <1>6, <1>7

LEMMA AllItems ==
    ASSUME NEW source, NEW no, NEW kind
    PROVE  ItemsOf(source, no, kind) = FirstItems(source, no, kind, Count(source, kind))
BY DEF ItemsOf, FirstItems

(* Fewer first items are a prefix of more.                                 *)
LEMMA FirstItemsPrefix ==
    ASSUME NEW source \in Sources, NEW no \in Int, NEW kind \in Kinds,
           NEW n \in 0..Count(source, kind), NEW m \in 0..n
    PROVE  Reader!IsPrefix(FirstItems(source, no, kind, m), FirstItems(source, no, kind, n))
<1> DEFINE s == FirstItems(source, no, kind, m)
           t == FirstItems(source, no, kind, n)
<1>1. Count(source, kind) \in Nat /\ m \in 0..Count(source, kind) /\ m \in Int /\ n \in Int
  BY ShapesTyped
<1>2. /\ s \in Seq(Copied) /\ Len(s) = m /\ t \in Seq(Copied) /\ Len(t) = n
      /\ \A k \in 1..m : s[k] = ItemOf(source, no, kind, k)
      /\ \A k \in 1..n : t[k] = ItemOf(source, no, kind, k)
  BY <1>1, FirstItemsTyped
<1> HIDE DEF s, t
<1>3. \A k \in 1..m : s[k] = t[k] /\ s[k] \in Copied /\ t[k] \in Copied
  <2> TAKE k \in 1..m
  <2>1. k \in 1..n
    BY <1>1
  <2> QED
    BY <1>2, <2>1, ElementOfSeq
<1>4. SubSeq(s, 1, m) = SubSeq(t, 1, m)
  <2>1. SubSeq(s, 1, m) = s
    BY <1>2, SubSeqFull
  <2>2. /\ SubSeq(t, 1, m) \in Seq(Copied)
        /\ Len(SubSeq(t, 1, m)) = IF 1 <= m THEN m - 1 + 1 ELSE 0
        /\ \A k \in 1..(m - 1 + 1) : SubSeq(t, 1, m)[k] = t[1 + k - 1]
    BY <1>1, <1>3, SubSeqProperties
  <2>3. Len(SubSeq(t, 1, m)) = m /\ \A k \in 1..m : SubSeq(t, 1, m)[k] = s[k]
    BY <1>1, <1>3, <2>2
  <2> QED
    BY <1>2, <2>1, <2>2, <2>3, SeqEqual
<1>5. Len(s) <= Len(t) /\ SubSeq(s, 1, Len(s)) = SubSeq(t, 1, Len(s))
  BY <1>1, <1>2, <1>4
<1>6. Reader!IsPrefix(s, t)
  BY <1>5 DEF Reader!IsPrefix
<1> QED
  BY <1>6 DEF s, t

-----------------------------------------------------------------------------
(* The inductive invariant: an iterator that does not copy from the start  *)
(* got the first items of its mesh; an open mesh knows where the faces     *)
(* after the last block begin, and ids are not given out again.            *)
IteratorRecord ==
    [source : Sources, id : Int, no : Int, kind : Kinds, position : Nat,
     got : Seq(Copied), ended : BOOLEAN]

NumberGiven(given, source, id, no) ==
    id = no /\ (source \in Plugins => id \in 0..(given[source] - 1))

MeshNumbered(given, m) ==
    m # NoMesh => NumberGiven(given, m.source, m.id, m.no)

OpenMeshSound(given, p, id, m) ==
    /\ m \in [no : Nat, nextFace : Nat, nextPosition : Nat]
    /\ id \in 0..(given[p] - 1) /\ m.no = id
    /\ m.nextFace <= Count(p, "faces") /\ m.nextPosition = Begin(p, m.nextFace)

FirstItemsGot(it) ==
    /\ it.position <= Count(it.source, it.kind) /\ Len(it.got) = it.position
    /\ ~CopiesFromStart(it) => it.got = FirstItems(it.source, it.no, it.kind, it.position)

IteratorSound(given, it) ==
    it # NoIterator => NumberGiven(given, it.source, it.id, it.no) /\ FirstItemsGot(it)

Meshes == {NoMesh} \cup [source : Sources, id : Int, no : Int]

ReadersInv ==
    /\ registered \subseteq Plugins /\ opened \in [Plugins -> Nat]
    /\ DOMAIN sMeshes = Plugins
    /\ \A p \in Plugins : \A id \in DOMAIN sMeshes[p] :
          OpenMeshSound(opened, p, id, sMeshes[p][id])
    /\ meshes \in [Handles -> Meshes]
    /\ \A h \in Handles : MeshNumbered(opened, meshes[h])
    /\ iterators \in [Iterators -> {NoIterator} \cup IteratorRecord]
    /\ \A i \in Iterators : IteratorSound(opened, iterators[i])

(* The largest of a set of counts is in it.                                *)
LEMMA MaxTaken ==
    ASSUME NEW n \in Nat, NEW T \in SUBSET (0..n), T # {}
    PROVE  Max(T) \in T /\ \A m \in T : Max(T) >= m
<1>1. PICK e \in T : \A m \in T : m <= e
  BY LargestUpTo
<1>2. \A m \in T : e >= m
  BY <1>1
<1> QED
  BY <1>2 DEF Max

LEMMA BlocksTyped ==
    ASSUME NEW b \in Blocks
    PROVE  b[1] \in Nat /\ b[1] > 0 /\ b[2] \in Nat /\ b[2] >= FaceMax /\ FaceMax \in Nat
<1>1. b \in (Nat \ {0}) \X {n \in Nat : n >= FaceMax /\ n > 0} /\ FaceMax \in Nat
  BY PluginMeshesAssumption
<1> QED
  BY <1>1

(* A block is never more than what is left, and it is empty only at the    *)
(* end or when the mesh is gone: the buffer holds the largest face.        *)
LEMMA BlockRead ==
    ASSUME NEW b \in Blocks, NEW it \in IteratorRecord,
           it.position <= Count(it.source, it.kind)
    PROVE  LET e == ItemsRead(it, b[1], b[2])
           IN  /\ e \in 0..(Count(it.source, it.kind) - it.position)
               /\ e > 0 => Found(it)
               /\ e = 0 => ~Found(it) \/ it.position = Count(it.source, it.kind)
<1> DEFINE n == b[1]
           len == b[2]
           left == Count(it.source, it.kind) - it.position
           rest == Smaller(n, left)
           e == ItemsRead(it, n, len)
           p == it.source
           pos == it.position
<1>1. n \in Nat /\ n > 0 /\ len \in Nat /\ len >= FaceMax /\ FaceMax \in Nat
  BY BlocksTyped
<1>2. /\ p \in Sources /\ it.kind \in Kinds /\ pos \in Nat
      /\ Count(p, it.kind) \in Nat /\ left \in Nat
  BY ShapesTyped DEF IteratorRecord
<1>3. rest \in 0..left /\ (rest = 0 <=> left = 0)
  BY <1>1, <1>2 DEF Smaller
<1>4. ASSUME e \in 0..rest, e = 0 => rest = 0, Found(it)
      PROVE  e \in 0..left /\ (e > 0 => Found(it)) /\ (e = 0 => pos = Count(p, it.kind))
  BY <1>2, <1>3, <1>4
<1>5. CASE ~Found(it)
  <2>1. e = 0
    BY <1>5 DEF ItemsRead
  <2> HIDE DEF e
  <2>2. e \in 0..left /\ ~(e > 0)
    BY <1>2, <2>1
  <2> QED
    BY <1>5, <2>2 DEF e
<1>6. CASE Found(it) /\ it.kind = "faces" /\ p = "memory"
  <2> DEFINE T == {x \in 0..rest :
                     x > 0 => Begin("memory", pos + x - 1) - Begin("memory", pos) + FaceMax <= len}
  <2>1. e = Max(T)
    BY <1>6 DEF ItemsRead, FacesFromMemory
  <2>2. 0 \in T /\ T \in SUBSET (0..rest) /\ rest \in Nat
    BY <1>2, <1>3
  <2>3. rest > 0 => 1 \in T
    <3>1. Begin("memory", pos) \in Nat
      BY <1>2, <1>6, BeginsTyped
    <3>2. pos + 1 - 1 = pos
      BY <1>2
    <3>3. Begin("memory", pos + 1 - 1) - Begin("memory", pos) + FaceMax = FaceMax
      BY <1>1, <3>1, <3>2
    <3> QED
      BY <1>1, <1>2, <1>3, <3>3
  <2> HIDE DEF T, e
  <2>4. e \in T /\ \A m \in T : e >= m
    BY <2>1, <2>2, MaxTaken
  <2>5. e \in 0..rest /\ (e = 0 => rest = 0)
    BY <2>2, <2>3, <2>4
  <2> QED
    BY <1>4, <1>6, <2>5 DEF e
<1>7. CASE Found(it) /\ it.kind = "faces" /\ p # "memory" /\ Style[p] = "dfs"
  <2> DEFINE T == {x \in 0..rest : Begin(p, pos + x) - Begin(p, pos) <= len}
  <2>1. e = Max(T)
    BY <1>7 DEF ItemsRead, FacesFromDfs
  <2>2. 0 \in T /\ T \in SUBSET (0..rest) /\ rest \in Nat
    <3>1. Begin(p, pos) \in Nat /\ pos + 0 = pos
      BY <1>2, <1>7, BeginsTyped
    <3>2. Begin(p, pos + 0) - Begin(p, pos) = 0
      BY <3>1
    <3> QED
      BY <1>1, <1>2, <1>3, <3>2
  <2>3. rest > 0 => 1 \in T
    <3>1. SUFFICES ASSUME rest > 0 PROVE 1 \in T
      OBVIOUS
    <3>2. pos \in 0..(Count(p, "faces") - 1)
      BY <1>2, <1>3, <1>7, <3>1
    <3>3. Begin(p, pos + 1) - Begin(p, pos) \in 1..FaceMax
      BY <1>2, <3>2, BeginsTyped
    <3> QED
      BY <1>1, <1>2, <1>3, <3>1, <3>3
  <2> HIDE DEF T, e
  <2>4. e \in T /\ \A m \in T : e >= m
    BY <2>1, <2>2, MaxTaken
  <2>5. e \in 0..rest /\ (e = 0 => rest = 0)
    BY <2>2, <2>3, <2>4
  <2> QED
    BY <1>4, <1>7, <2>5 DEF e
<1>8. CASE /\ Found(it)
           /\ ~(it.kind = "faces" /\ p = "memory")
           /\ ~(it.kind = "faces" /\ p # "memory" /\ Style[p] = "dfs")
  <2>1. e = rest
    BY <1>8 DEF ItemsRead
  <2> QED
    BY <1>3, <1>4, <1>8, <2>1
<1> QED
  BY <1>4, <1>5, <1>6, <1>7, <1>8

-----------------------------------------------------------------------------
(* A block continues where the last one ended, from the cached position or *)
(* from the first face on.                                                 *)
LEMMA ItemRead ==
    ASSUME ReadersInv, NEW i \in Iterators, iterators[i] # NoIterator, Found(iterators[i]),
           NEW k \in (iterators[i].position + 1)..Count(iterators[i].source, iterators[i].kind)
    PROVE  LET it == iterators[i]
               x  == ItemCopied(it, NumberRead(it), k)
           IN  /\ x \in Copied
               /\ ~CopiesFromStart(it) => x = ItemOf(it.source, it.no, it.kind, k)
<1> DEFINE it == iterators[i]
           p == it.source
           pos == it.position
           x == ItemCopied(it, NumberRead(it), k)
<1>1. it \in IteratorRecord /\ NumberGiven(opened, p, it.id, it.no) /\ FirstItemsGot(it)
  BY DEF ReadersInv, IteratorSound
<1>2. /\ p \in Sources /\ it.kind \in Kinds /\ pos \in Nat /\ it.no \in Int
      /\ Count(p, it.kind) \in Nat /\ k \in 1..Count(p, it.kind) /\ k - 1 - pos \in Nat
  BY <1>1, ShapesTyped DEF IteratorRecord
<1>3. NumberRead(it) = it.no
  <2>1. CASE p = "memory"
    BY <2>1 DEF NumberRead
  <2>2. CASE p # "memory"
    <3>1. p \in Plugins /\ it.id \in DOMAIN sMeshes[p]
      BY <1>2, <2>2 DEF Sources, Found
    <3>2. sMeshes[p][it.id].no = it.id
      BY <3>1 DEF ReadersInv, OpenMeshSound
    <3> QED
      BY <1>1, <2>2, <3>2 DEF NumberRead, NumberGiven
  <2> QED
    BY <2>1, <2>2
<1>4. ItemOf(p, it.no, it.kind, k) \in Copied
  BY <1>2, ItemsTyped
<1>5. CASE it.kind = "faces"
  <2>1. pos \in 0..Count(p, "faces") /\ k - 1 \in 0..Count(p, "faces")
    BY <1>2, <1>5
  <2>2. Begin(p, pos) \in Nat /\ Begin(p, k - 1) \in Nat
    BY <1>2, <2>1, BeginsTyped
  <2>3. ASSUME p # "memory"
        PROVE  ConnectivityPosition(p, sMeshes[p][it.id], pos) = Begin(p, pos)
    <3>1. p \in Plugins /\ it.id \in DOMAIN sMeshes[p]
      BY <1>2, <2>3 DEF Sources, Found
    <3>2. OpenMeshSound(opened, p, it.id, sMeshes[p][it.id])
      BY <3>1 DEF ReadersInv
    <3> QED
      BY <3>2 DEF OpenMeshSound, ConnectivityPosition
  <2>4. FaceCopied(it, k) = Begin(p, pos) + Begin(p, k - 1) - Begin(p, pos)
    BY <2>3 DEF FaceCopied
  <2>5. FaceCopied(it, k) = Begin(p, k - 1)
    BY <2>2, <2>4
  <2>6. x = Item(NumberRead(it), FaceCopied(it, k), Shape[p].faces[k])
    BY <1>5 DEF ItemCopied, CopiesFromStart
  <2>7. ItemOf(p, it.no, it.kind, k) = Item(it.no, Begin(p, k - 1), Shape[p].faces[k])
    BY <1>5 DEF ItemOf
  <2>8. x = ItemOf(p, it.no, it.kind, k)
    BY <1>3, <2>5, <2>6, <2>7
  <2> QED
    BY <1>4, <2>8
<1>6. CASE it.kind # "faces" /\ ~CopiesFromStart(it)
  <2>1. x = ItemOf(p, it.no, it.kind, k)
    BY <1>3, <1>6 DEF ItemCopied, ItemOf
  <2> QED
    BY <1>4, <2>1
<1>7. CASE it.kind # "faces" /\ CopiesFromStart(it)
  <2>1. x = Item(it.no, k - 1 - pos, 1)
    BY <1>3, <1>7 DEF ItemCopied
  <2> QED
    BY <1>2, <1>7, <2>1 DEF Item, Copied
<1> QED
  BY <1>5, <1>6, <1>7

(* What an iterator is after a block of e items.                           *)
LEMMA IteratorAdvances ==
    ASSUME ReadersInv, NEW i \in Iterators, iterators[i] # NoIterator, Found(iterators[i]),
           NEW e \in 1..(Count(iterators[i].source, iterators[i].kind) - iterators[i].position)
    PROVE  LET it   == iterators[i]
               next == Advanced(it, e)
           IN  /\ next \in IteratorRecord /\ FirstItemsGot(next) /\ next # NoIterator
               /\ next.source = it.source /\ next.id = it.id /\ next.no = it.no
               /\ next.kind = it.kind /\ next.ended = it.ended
               /\ next.position = it.position + e
<1> DEFINE it == iterators[i]
           p == it.source
           pos == it.position
           next == Advanced(it, e)
           got == [k \in 1..(pos + e) |->
                      IF k <= pos THEN it.got[k] ELSE ItemCopied(it, NumberRead(it), k)]
<1>1. it \in IteratorRecord /\ FirstItemsGot(it)
  BY DEF ReadersInv, IteratorSound
<1>2. /\ p \in Sources /\ it.kind \in Kinds /\ pos \in Nat /\ it.no \in Int
      /\ it.got \in Seq(Copied) /\ Len(it.got) = pos
      /\ Count(p, it.kind) \in Nat /\ e > 0 /\ e \in Nat
      /\ pos + e \in 0..Count(p, it.kind) /\ pos \in 0..Count(p, it.kind)
  BY <1>1, ShapesTyped DEF IteratorRecord, FirstItemsGot
<1>3. next = [it EXCEPT !.got = got, !.position = pos + e]
  BY <1>2 DEF Advanced
<1>4. \A k \in (pos + 1)..(pos + e) :
         LET x == ItemCopied(it, NumberRead(it), k)
         IN  /\ x \in Copied
             /\ ~CopiesFromStart(it) => x = ItemOf(p, it.no, it.kind, k)
  <2> TAKE k \in (pos + 1)..(pos + e)
  <2>1. k \in (pos + 1)..Count(p, it.kind)
    BY <1>2
  <2> QED
    BY <2>1, ItemRead
<1>5. \A k \in 1..pos : it.got[k] \in Copied
  BY <1>2, ElementOfSeq
<1>6. got \in [1..(pos + e) -> Copied]
  <2>1. ASSUME NEW k \in 1..(pos + e), ~(k <= pos) PROVE k \in (pos + 1)..(pos + e)
    BY <1>2, <2>1
  <2>2. ASSUME NEW k \in 1..(pos + e), k <= pos PROVE k \in 1..pos
    BY <1>2, <2>2
  <2> QED
    BY <1>4, <1>5, <2>1, <2>2
<1>7. got \in Seq(Copied) /\ Len(got) = pos + e
  <2> DEFINE m == pos + e
  <2>3. m \in Nat /\ got \in [1..m -> Copied]
    BY <1>2, <1>6
  <2> HIDE DEF got, m
  <2>1. got \in Seq(Copied)
    BY <2>3, SeqDef
  <2>2. DOMAIN got = 1..(pos + e) /\ DOMAIN got = 1..Len(got) /\ Len(got) \in Nat
    BY <1>6, <2>1, LenProperties
  <2> QED
    BY <1>2, <2>1, <2>2
<1>8. ASSUME ~CopiesFromStart(it)
      PROVE  got = FirstItems(p, it.no, it.kind, pos + e)
  <2>1. it.got = FirstItems(p, it.no, it.kind, pos)
    BY <1>1, <1>8 DEF FirstItemsGot
  <2>2. \A k \in 1..pos : it.got[k] = ItemOf(p, it.no, it.kind, k)
    BY <2>1 DEF FirstItems
  <2>3. ASSUME NEW k \in 1..(pos + e) PROVE got[k] = ItemOf(p, it.no, it.kind, k)
    <3>1. CASE k <= pos
      <4>1. k \in 1..pos
        BY <1>2, <3>1
      <4> QED
        BY <2>2, <3>1, <4>1
    <3>2. CASE ~(k <= pos)
      <4>1. k \in (pos + 1)..(pos + e)
        BY <1>2, <3>2
      <4> QED
        BY <1>4, <1>8, <3>2, <4>1
    <3> QED
      BY <3>1, <3>2
  <2> QED
    BY <2>3 DEF FirstItems
<1> HIDE DEF got
<1>9. /\ next \in IteratorRecord
      /\ next.source = p /\ next.id = it.id /\ next.no = it.no
      /\ next.kind = it.kind /\ next.ended = it.ended
      /\ next.position = pos + e /\ next.got = got
  <2> DEFINE to == pos + e
  <2>1. to \in Nat
    BY <1>2
  <2>2. next = [it EXCEPT !.got = got, !.position = to]
    BY <1>3
  <2> HIDE DEF to, next, it
  <2>3. it \in IteratorRecord /\ got \in Seq(Copied)
    BY <1>1, <1>7
  <2>4. /\ next \in IteratorRecord
        /\ next.source = p /\ next.id = it.id /\ next.no = it.no
        /\ next.kind = it.kind /\ next.ended = it.ended
        /\ next.position = to /\ next.got = got
    BY <2>1, <2>2, <2>3 DEF IteratorRecord
  <2> QED
    BY <2>4 DEF to
<1>10. CopiesFromStart(next) = CopiesFromStart(it)
  BY <1>9 DEF CopiesFromStart
<1>11. FirstItemsGot(next)
  <2> HIDE DEF next
  <2> QED
    BY <1>2, <1>7, <1>8, <1>9, <1>10 DEF FirstItemsGot
<1>12. next # NoIterator
  <2>1. NoIterator.source = "none" /\ next.source # "none"
    BY <1>2, <1>9, PluginNames DEF NoIterator, Sources
  <2> QED
    BY <2>1
<1> QED
  BY <1>9, <1>11, <1>12

-----------------------------------------------------------------------------
(* The operations keep it.  Ids are only added, and what is known of the   *)
(* meshes that stay is not touched.                                        *)
LEMMA IdsGrow ==
    ASSUME NEW given \in [Plugins -> Nat], NEW more \in [Plugins -> Nat],
           \A p \in Plugins : given[p] <= more[p]
    PROVE  /\ \A source, id, no :
                 NumberGiven(given, source, id, no) => NumberGiven(more, source, id, no)
           /\ \A m : MeshNumbered(given, m) => MeshNumbered(more, m)
           /\ \A it : IteratorSound(given, it) => IteratorSound(more, it)
           /\ \A p \in Plugins : \A id, m :
                 OpenMeshSound(given, p, id, m) => OpenMeshSound(more, p, id, m)
<1>1. \A p \in Plugins : \A id : id \in 0..(given[p] - 1) => id \in 0..(more[p] - 1)
  <2> TAKE p \in Plugins
  <2> TAKE id
  <2>1. given[p] \in Nat /\ more[p] \in Nat /\ given[p] <= more[p]
    OBVIOUS
  <2> QED
    BY <2>1
<1>2. \A source, id, no :
         NumberGiven(given, source, id, no) => NumberGiven(more, source, id, no)
  BY <1>1 DEF NumberGiven
<1>3. \A m : MeshNumbered(given, m) => MeshNumbered(more, m)
  BY <1>2 DEF MeshNumbered
<1>4. \A it : IteratorSound(given, it) => IteratorSound(more, it)
  BY <1>2 DEF IteratorSound
<1>5. \A p \in Plugins : \A id, m :
         OpenMeshSound(given, p, id, m) => OpenMeshSound(more, p, id, m)
  BY <1>1 DEF OpenMeshSound
<1> QED
  BY <1>2, <1>3, <1>4, <1>5

LEMMA IdGiven ==
    ASSUME opened \in [Plugins -> Nat], NEW p \in Plugins,
           opened' = [opened EXCEPT ![p] = @ + 1]
    PROVE  /\ opened' \in [Plugins -> Nat] /\ opened'[p] = opened[p] + 1
           /\ \A q \in Plugins : opened[q] <= opened'[q]
<1>1. opened[p] \in Nat /\ opened[p] + 1 \in Nat
  OBVIOUS
<1>2. opened' \in [Plugins -> Nat] /\ opened'[p] = opened[p] + 1
  BY <1>1
<1>3. ASSUME NEW q \in Plugins PROVE opened[q] <= opened'[q]
  <2>1. CASE q = p
    BY <1>1, <1>2, <2>1
  <2>2. CASE q # p
    <3>1. opened'[q] = opened[q] /\ opened[q] \in Nat
      BY <2>2
    <3> QED
      BY <3>1
  <2> QED
    BY <2>1, <2>2
<1> QED
  BY <1>2, <1>3

(* An operation that leaves the iterators and the open meshes, and gives   *)
(* out ids or none.                                                        *)
LEMMA ReadersUntouched ==
    ASSUME ReadersInv, registered' \subseteq Plugins,
           opened' \in [Plugins -> Nat], \A p \in Plugins : opened[p] <= opened'[p],
           UNCHANGED <<sMeshes, meshes, iterators>>
    PROVE  ReadersInv'
<1>1. /\ \A p \in Plugins : \A id \in DOMAIN sMeshes[p] :
            OpenMeshSound(opened', p, id, sMeshes[p][id])
      /\ \A h \in Handles : MeshNumbered(opened', meshes[h])
      /\ \A i \in Iterators : IteratorSound(opened', iterators[i])
  BY IdsGrow DEF ReadersInv
<1> QED
  BY <1>1 DEF ReadersInv

LEMMA MeshIsNumbered ==
    /\ NoMesh \in Meshes
    /\ \A given : MeshNumbered(given, NoMesh)
    /\ \A source \in Sources, id \in Int : Mesh(source, id, id) \in Meshes
    /\ \A given : MeshNumbered(given, Mesh("memory", 0, 0))
    /\ \A given \in [Plugins -> Nat], p \in Plugins, id \in Nat :
          id < given[p] => MeshNumbered(given, Mesh(p, id, id))
<1>1. NoMesh \in Meshes /\ \A given : MeshNumbered(given, NoMesh)
  BY DEF Meshes, MeshNumbered
<1>2. \A source \in Sources, id \in Int : Mesh(source, id, id) \in Meshes
  BY DEF Meshes, Mesh
<1>3. \A given : MeshNumbered(given, Mesh("memory", 0, 0))
  BY PluginNames DEF MeshNumbered, NumberGiven, Mesh
<1>4. \A given \in [Plugins -> Nat], p \in Plugins, id \in Nat :
          id < given[p] => MeshNumbered(given, Mesh(p, id, id))
  <2> TAKE given \in [Plugins -> Nat], p \in Plugins, id \in Nat
  <2>1. given[p] \in Nat
    OBVIOUS
  <2> QED
    BY <2>1 DEF MeshNumbered, NumberGiven, Mesh
<1> QED
  BY <1>1, <1>2, <1>3, <1>4

LEMMA LoadMeshReaders ==
    ASSUME ReadersInv, NEW h \in Handles, NEW p \in Plugins, LoadMesh(h, p)
    PROVE  ReadersInv'
<1> DEFINE n == opened[p]
<1>1. /\ registered' = registered /\ iterators' = iterators
      /\ meshes' = [meshes EXCEPT ![h] = Mesh(p, n, n)]
      /\ sMeshes' = [sMeshes EXCEPT ![p] =
                        [id \in DOMAIN @ \cup {n} |-> IF id = n THEN OpenMesh(n) ELSE @[id]]]
      /\ opened' = [opened EXCEPT ![p] = @ + 1]
  BY DEF LoadMesh, PluginOpens, NewId
<1>2. /\ opened' \in [Plugins -> Nat] /\ opened'[p] = n + 1 /\ n \in Nat
      /\ \A q \in Plugins : opened[q] <= opened'[q]
  BY <1>1, IdGiven DEF ReadersInv
<1>3. p \in Sources
  BY DEF Sources
<1>4. /\ \A q \in Plugins : \A id \in DOMAIN sMeshes[q] :
            OpenMeshSound(opened', q, id, sMeshes[q][id])
      /\ \A g \in Handles : MeshNumbered(opened', meshes[g])
      /\ \A i \in Iterators : IteratorSound(opened', iterators[i])
  BY <1>2, IdsGrow DEF ReadersInv
<1>5. OpenMeshSound(opened', p, n, OpenMesh(n))
  <2>1. OpenMesh(n) \in [no : Nat, nextFace : Nat, nextPosition : Nat]
    BY <1>2 DEF OpenMesh
  <2>2. 0 <= Count(p, "faces") /\ Begin(p, 0) = 0
    <3>1. "faces" \in Kinds
      BY DEF Kinds
    <3>2. Count(p, "faces") \in Nat
      BY <1>3, <3>1, ShapesTyped
    <3> QED
      BY <1>3, <3>2, BeginsTyped
  <2>3. OpenMesh(n).no = n /\ OpenMesh(n).nextFace = 0 /\ OpenMesh(n).nextPosition = 0
    BY DEF OpenMesh
  <2>4. n \in 0..(opened'[p] - 1)
    BY <1>2
  <2> QED
    BY <2>1, <2>2, <2>3, <2>4 DEF OpenMeshSound
<1>6. DOMAIN sMeshes' = Plugins
  BY <1>1 DEF ReadersInv
<1>7. ASSUME NEW q \in Plugins, NEW id \in DOMAIN sMeshes'[q]
      PROVE  OpenMeshSound(opened', q, id, sMeshes'[q][id])
  <2>1. CASE q # p
    BY <1>1, <1>4, <1>7, <2>1 DEF ReadersInv
  <2>2. CASE q = p
    <3>1. sMeshes'[p] = [x \in DOMAIN sMeshes[p] \cup {n} |->
                            IF x = n THEN OpenMesh(n) ELSE sMeshes[p][x]]
      BY <1>1 DEF ReadersInv
    <3>2. CASE id = n
      BY <1>5, <1>7, <2>2, <3>1, <3>2
    <3>3. CASE id # n
      <4>1. id \in DOMAIN sMeshes[p] /\ sMeshes'[p][id] = sMeshes[p][id]
        BY <1>7, <2>2, <3>1, <3>3
      <4> QED
        BY <1>4, <2>2, <4>1
    <3> QED
      BY <3>2, <3>3
  <2> QED
    BY <2>1, <2>2
<1>8. /\ meshes' \in [Handles -> Meshes]
      /\ \A g \in Handles : MeshNumbered(opened', meshes'[g])
  <2>1. Mesh(p, n, n) \in Meshes
    BY <1>2, <1>3, MeshIsNumbered
  <2>2. MeshNumbered(opened', Mesh(p, n, n))
    BY <1>2, MeshIsNumbered
  <2> HIDE DEF n
  <2> QED
    BY <1>1, <1>4, <2>1, <2>2 DEF ReadersInv
<1> QED
  BY <1>1, <1>2, <1>4, <1>6, <1>7, <1>8 DEF ReadersInv

LEMMA CloseMeshReaders ==
    ASSUME ReadersInv, NEW h \in Handles, CloseMesh(h)
    PROVE  ReadersInv'
<1> DEFINE p == meshes[h].source
<1>1. /\ registered' = registered /\ iterators' = iterators /\ opened' = opened
      /\ meshes' = [meshes EXCEPT ![h] = NoMesh] /\ p \in Plugins
      /\ sMeshes' = [sMeshes EXCEPT ![p] = Restrict(@, DOMAIN @ \ {meshes[h].id})]
  BY DEF CloseMesh
<1>2. DOMAIN sMeshes' = Plugins
  BY <1>1 DEF ReadersInv
<1>3. ASSUME NEW q \in Plugins, NEW id \in DOMAIN sMeshes'[q]
      PROVE  OpenMeshSound(opened, q, id, sMeshes'[q][id])
  <2>1. id \in DOMAIN sMeshes[q] /\ sMeshes'[q][id] = sMeshes[q][id]
    <3>1. CASE q # p
      BY <1>1, <1>3, <3>1 DEF ReadersInv
    <3>2. CASE q = p
      <4>1. sMeshes'[p] = [x \in DOMAIN sMeshes[p] \ {meshes[h].id} |-> sMeshes[p][x]]
        BY <1>1 DEF ReadersInv, Restrict
      <4> HIDE DEF p
      <4> QED
        BY <1>3, <3>2, <4>1
    <3> QED
      BY <3>1, <3>2
  <2> QED
    BY <2>1 DEF ReadersInv
<1>4. /\ meshes' \in [Handles -> Meshes]
      /\ \A g \in Handles : MeshNumbered(opened, meshes'[g])
  BY <1>1, MeshIsNumbered DEF ReadersInv
<1> QED
  BY <1>1, <1>2, <1>3, <1>4 DEF ReadersInv

LEMMA MemoryMeshReaders ==
    ASSUME ReadersInv, NEW h \in Handles, LoadMemoryMesh(h) \/ CloseMemoryMesh(h)
    PROVE  ReadersInv'
<1>1. PICK m \in {NoMesh, Mesh("memory", 0, 0)} : meshes' = [meshes EXCEPT ![h] = m]
  BY DEF LoadMemoryMesh, CloseMemoryMesh
<1>2. UNCHANGED <<registered, sMeshes, opened, iterators>>
  BY DEF LoadMemoryMesh, CloseMemoryMesh
<1>3. m \in Meshes /\ MeshNumbered(opened, m)
  BY MeshIsNumbered DEF Sources
<1>4. /\ meshes' \in [Handles -> Meshes]
      /\ \A g \in Handles : MeshNumbered(opened, meshes'[g])
  BY <1>1, <1>3 DEF ReadersInv
<1> QED
  BY <1>2, <1>4 DEF ReadersInv

(* An operation that puts another iterator in the place of one.            *)
LEMMA IteratorReplaced ==
    ASSUME ReadersInv, NEW i \in Iterators, NEW it \in {NoIterator} \cup IteratorRecord,
           IteratorSound(opened, it), iterators' = [iterators EXCEPT ![i] = it],
           UNCHANGED <<registered, sMeshes, opened, meshes>>
    PROVE  ReadersInv'
<1>1. iterators' \in [Iterators -> {NoIterator} \cup IteratorRecord]
  BY DEF ReadersInv
<1>2. \A j \in Iterators : IteratorSound(opened, iterators'[j])
  BY DEF ReadersInv
<1> QED
  BY <1>1, <1>2 DEF ReadersInv

LEMMA NewIteratorSound ==
    ASSUME NEW given, NEW m \in Meshes, m # NoMesh, MeshNumbered(given, m), NEW kind \in Kinds
    PROVE  LET it == NewIterator(m, kind)
           IN  it \in IteratorRecord /\ IteratorSound(given, it) /\ it # NoIterator
<1> DEFINE it == NewIterator(m, kind)
<1>1. m \in [source : Sources, id : Int, no : Int]
  BY DEF Meshes
<1>2. /\ it.source = m.source /\ it.id = m.id /\ it.no = m.no /\ it.kind = kind
      /\ it.position = 0 /\ it.got = <<>>
  BY DEF NewIterator
<1>3. it \in IteratorRecord
  BY <1>1 DEF NewIterator, IteratorRecord
<1>4. FirstItemsGot(it)
  <2>1. Count(m.source, kind) \in Nat
    BY <1>1, ShapesTyped
  <2>2. FirstItems(m.source, m.no, kind, 0) = <<>>
    <3>1. 0 \in 0..Count(m.source, kind)
      BY <2>1
    <3>2. FirstItems(m.source, m.no, kind, 0) \in Seq(Copied)
      BY <1>1, <3>1, FirstItemsTyped
    <3>3. Len(FirstItems(m.source, m.no, kind, 0)) = 0
      BY <1>1, <3>1, FirstItemsTyped
    <3> QED
      BY <3>2, <3>3, EmptySeq
  <2> HIDE DEF it
  <2> QED
    BY <1>2, <2>1, <2>2 DEF FirstItemsGot
<1>5. it # NoIterator
  <2>1. NoIterator.source = "none" /\ it.source # "none"
    BY <1>1, <1>2, PluginNames DEF NoIterator, Sources
  <2> QED
    BY <2>1
<1> QED
  BY <1>2, <1>3, <1>4, <1>5 DEF IteratorSound, MeshNumbered

LEMMA OpenIteratorReaders ==
    ASSUME ReadersInv, NEW i \in Iterators, NEW h \in Handles, NEW kind \in Kinds,
           OpenIterator(i, h, kind)
    PROVE  ReadersInv'
<1> DEFINE it == NewIterator(meshes[h], kind)
<1>1. /\ meshes[h] # NoMesh /\ iterators' = [iterators EXCEPT ![i] = it]
      /\ UNCHANGED <<registered, sMeshes, opened, meshes>>
  BY DEF OpenIterator
<1>2. meshes[h] \in Meshes /\ MeshNumbered(opened, meshes[h])
  BY DEF ReadersInv
<1>3. it \in IteratorRecord /\ IteratorSound(opened, it)
  BY <1>1, <1>2, NewIteratorSound
<1> HIDE DEF it
<1> QED
  BY <1>1, <1>3, IteratorReplaced

LEMMA CloseIteratorReaders ==
    ASSUME ReadersInv, NEW i \in Iterators, CloseIterator(i)
    PROVE  ReadersInv'
<1>1. /\ iterators' = [iterators EXCEPT ![i] = NoIterator]
      /\ UNCHANGED <<registered, sMeshes, opened, meshes>>
  BY DEF CloseIterator
<1>2. IteratorSound(opened, NoIterator)
  BY DEF IteratorSound
<1> QED
  BY <1>1, <1>2, IteratorReplaced

(* A block moves one iterator, and the cache of its mesh.                  *)
LEMMA NextBlockMoves ==
    ASSUME ReadersInv, NEW i \in Iterators, NextBlock(i)
    PROVE  LET it == iterators[i]
               next == iterators'[i]
           IN  /\ it # NoIterator /\ it \in IteratorRecord
               /\ iterators' = [iterators EXCEPT ![i] = next]
               /\ next # NoIterator /\ next \in IteratorRecord /\ FirstItemsGot(next)
               /\ next.source = it.source /\ next.id = it.id /\ next.no = it.no
               /\ next.kind = it.kind
               /\ \/ /\ Found(it) /\ next.ended = it.ended
                     /\ next.position > it.position
                  \/ /\ ~Found(it) \/ it.position = Count(it.source, it.kind)
                     /\ next = [it EXCEPT !.ended = TRUE]
<1> DEFINE it == iterators[i]
<1>1. PICK b \in Blocks : IteratorNext(i, b[1], b[2])
  BY DEF NextBlock
<1> DEFINE e == ItemsRead(it, b[1], b[2])
           next == Advanced(it, e)
<1>2. it # NoIterator /\ iterators' = [iterators EXCEPT ![i] = next]
  BY <1>1 DEF IteratorNext
<1>3. it \in IteratorRecord /\ FirstItemsGot(it) /\ iterators'[i] = next
  BY <1>2 DEF ReadersInv, IteratorSound
<1>4. /\ e \in 0..(Count(it.source, it.kind) - it.position)
      /\ e > 0 => Found(it)
      /\ e = 0 => ~Found(it) \/ it.position = Count(it.source, it.kind)
  BY <1>3, BlockRead DEF FirstItemsGot
<1>5. it.position \in Nat /\ Count(it.source, it.kind) \in Nat
  BY <1>3, ShapesTyped DEF IteratorRecord
<1>6. CASE e = 0
  <2>1. next = [it EXCEPT !.ended = TRUE]
    BY <1>6 DEF Advanced
  <2> HIDE DEF next, e
  <2>2. /\ next \in IteratorRecord
        /\ next.source = it.source /\ next.id = it.id /\ next.no = it.no
        /\ next.kind = it.kind /\ next.position = it.position /\ next.got = it.got
    <3> HIDE DEF it
    <3> QED
      BY <1>3, <2>1 DEF IteratorRecord
  <2>3. CopiesFromStart(next) = CopiesFromStart(it)
    BY <2>2 DEF CopiesFromStart
  <2>4. FirstItemsGot(next)
    BY <1>3, <2>2, <2>3 DEF FirstItemsGot
  <2>5. next # NoIterator
    <3>1. next.source # "none"
      BY <1>3, <2>2, PluginNames DEF IteratorRecord, Sources
    <3> QED
      BY <3>1 DEF NoIterator
  <2> QED
    BY <1>2, <1>3, <1>4, <1>6, <2>1, <2>2, <2>4, <2>5
<1>7. CASE e # 0
  <2>1. e \in 1..(Count(it.source, it.kind) - it.position) /\ e > 0 /\ e \in Nat
    BY <1>4, <1>5, <1>7
  <2>2. Found(it)
    BY <1>4, <2>1
  <2>3. /\ next \in IteratorRecord /\ FirstItemsGot(next) /\ next # NoIterator
        /\ next.source = it.source /\ next.id = it.id /\ next.no = it.no
        /\ next.kind = it.kind /\ next.ended = it.ended
        /\ next.position = it.position + e
    <3> HIDE DEF e
    <3> QED
      BY <1>2, <2>1, <2>2, IteratorAdvances
  <2>4. next.position > it.position
    <3> HIDE DEF next, e, it
    <3> QED
      BY <1>5, <2>1, <2>3
  <2> QED
    BY <1>2, <1>3, <2>2, <2>3, <2>4
<1> QED
  BY <1>6, <1>7

LEMMA CacheMoves ==
    ASSUME ReadersInv, NEW i \in Iterators, NextBlock(i)
    PROVE  /\ UNCHANGED <<registered, opened, meshes>>
           /\ DOMAIN sMeshes' = Plugins
           /\ \A p \in Plugins : DOMAIN sMeshes'[p] = DOMAIN sMeshes[p]
           /\ \A p \in Plugins : \A id \in DOMAIN sMeshes[p] :
                 OpenMeshSound(opened, p, id, sMeshes'[p][id])
<1> DEFINE it == iterators[i]
           p == it.source
<1>1. PICK b \in Blocks : IteratorNext(i, b[1], b[2])
  BY DEF NextBlock
<1> DEFINE e == ItemsRead(it, b[1], b[2])
<1>2. /\ UNCHANGED <<registered, opened, meshes>>
      /\ it # NoIterator
      /\ sMeshes' = IF UsesCache(it)
                    THEN [sMeshes EXCEPT ![p][it.id] = Cached(@, it, e)] ELSE sMeshes
  BY <1>1 DEF IteratorNext
<1>3. CASE ~UsesCache(it)
  <2>1. sMeshes' = sMeshes
    BY <1>2, <1>3
  <2> QED
    BY <1>2, <2>1 DEF ReadersInv
<1>4. CASE UsesCache(it)
  <2>1. p \in Plugins /\ it.kind = "faces" /\ it.id \in DOMAIN sMeshes[p]
    <3>1. p \in Plugins /\ it.kind = "faces" /\ Found(it)
      BY <1>4 DEF UsesCache
    <3> QED
      BY <3>1, PluginNames DEF Found
  <2> DEFINE m == sMeshes[p][it.id]
             c == Cached(m, it, e)
  <2>2. /\ sMeshes' = [sMeshes EXCEPT ![p] = [sMeshes[p] EXCEPT ![it.id] = c]]
    BY <1>2, <1>4
  <2>3. it \in IteratorRecord /\ it.position <= Count(p, "faces")
    BY <1>2, <2>1 DEF ReadersInv, IteratorSound, FirstItemsGot
  <2>4. /\ e \in 0..(Count(p, "faces") - it.position) /\ it.position \in Nat
        /\ Count(p, "faces") \in Nat /\ p \in Sources
    <3>1. p \in Sources /\ it.kind \in Kinds /\ it.position \in Nat
      BY <2>3 DEF IteratorRecord
    <3>2. Count(p, "faces") \in Nat
      BY <2>1, <3>1, ShapesTyped
    <3> QED
      BY <2>1, <2>3, <3>1, <3>2, BlockRead
  <2>5. OpenMeshSound(opened, p, it.id, m)
    BY <2>1 DEF ReadersInv
  <2>6. OpenMeshSound(opened, p, it.id, c)
    <3> HIDE DEF e
    <3>1. CASE it.position + e >= Count(p, "faces")
      BY <2>5, <3>1 DEF Cached
    <3>2. CASE ~(it.position + e >= Count(p, "faces"))
      <4> DEFINE next == it.position + e
                 at == ConnectivityPosition(p, m, it.position) + Begin(p, next)
                       - Begin(p, it.position)
      <4>1. c = [m EXCEPT !.nextFace = next, !.nextPosition = at]
        BY <3>2 DEF Cached
      <4>2. next \in 0..Count(p, "faces") /\ it.position \in 0..Count(p, "faces")
        BY <2>4, <3>2
      <4>3. Begin(p, next) \in Nat /\ Begin(p, it.position) \in Nat
        BY <2>4, <4>2, BeginsTyped
      <4>4. ConnectivityPosition(p, m, it.position) = Begin(p, it.position)
        BY <2>5 DEF ConnectivityPosition, OpenMeshSound
      <4>5. at = Begin(p, next)
        BY <4>3, <4>4
      <4> HIDE DEF next, at, c, m
      <4>6. /\ c \in [no : Nat, nextFace : Nat, nextPosition : Nat]
            /\ c.no = m.no /\ c.nextFace = next /\ c.nextPosition = Begin(p, next)
        <5>1. m \in [no : Nat, nextFace : Nat, nextPosition : Nat]
          BY <2>5 DEF OpenMeshSound
        <5>2. next \in Nat /\ at \in Nat
          BY <4>2, <4>3, <4>5
        <5>3. /\ c \in [no : Nat, nextFace : Nat, nextPosition : Nat]
              /\ c.no = m.no /\ c.nextFace = next /\ c.nextPosition = at
          BY <4>1, <5>1, <5>2
        <5> QED
          BY <4>5, <5>3
      <4> QED
        BY <2>5, <4>2, <4>6 DEF OpenMeshSound
    <3> QED
      BY <3>1, <3>2
  <2> HIDE DEF c, m
  <2>7. /\ DOMAIN sMeshes' = Plugins
        /\ \A q \in Plugins : DOMAIN sMeshes'[q] = DOMAIN sMeshes[q]
    BY <2>2 DEF ReadersInv
  <2>8. ASSUME NEW q \in Plugins, NEW id \in DOMAIN sMeshes[q]
        PROVE  OpenMeshSound(opened, q, id, sMeshes'[q][id])
    <3>1. CASE q = p /\ id = it.id
      <4>1. sMeshes'[q][id] = c
        BY <2>1, <2>2, <3>1 DEF ReadersInv
      <4> QED
        BY <2>6, <3>1, <4>1
    <3>2. CASE ~(q = p /\ id = it.id)
      <4>1. sMeshes'[q][id] = sMeshes[q][id]
        BY <2>1, <2>2, <2>8, <3>2 DEF ReadersInv
      <4> QED
        BY <2>8, <4>1 DEF ReadersInv
    <3> QED
      BY <3>1, <3>2
  <2> QED
    BY <1>2, <2>7, <2>8
<1> QED
  BY <1>3, <1>4

LEMMA NextBlockReaders ==
    ASSUME ReadersInv, NEW i \in Iterators, NextBlock(i)
    PROVE  ReadersInv'
<1> DEFINE it == iterators[i]
           next == iterators'[i]
<1>1. /\ it # NoIterator /\ iterators' = [iterators EXCEPT ![i] = next]
      /\ next \in IteratorRecord /\ FirstItemsGot(next)
      /\ next.source = it.source /\ next.id = it.id /\ next.no = it.no
  BY NextBlockMoves
<1>2. IteratorSound(opened, next)
  <2>1. NumberGiven(opened, it.source, it.id, it.no)
    BY <1>1 DEF ReadersInv, IteratorSound
  <2> QED
    BY <1>1, <2>1 DEF IteratorSound
<1> HIDE DEF next
<1>3. /\ iterators' \in [Iterators -> {NoIterator} \cup IteratorRecord]
      /\ \A j \in Iterators : IteratorSound(opened, iterators'[j])
  BY <1>1, <1>2 DEF ReadersInv
<1> QED
  BY <1>3, CacheMoves DEF ReadersInv

LEMMA ReadersInvInit == PluginInit => ReadersInv
<1> SUFFICES ASSUME PluginInit PROVE ReadersInv
  OBVIOUS
<1>1. \A p \in Plugins : DOMAIN sMeshes[p] = {}
  BY DEF PluginInit
<1>2. NoMesh \in Meshes /\ \A given : MeshNumbered(given, NoMesh)
  BY MeshIsNumbered
<1>3. \A given : IteratorSound(given, NoIterator)
  BY DEF IteratorSound
<1> QED
  BY <1>1, <1>2, <1>3 DEF PluginInit, ReadersInv

LEMMA ReadersInvNext == ReadersInv /\ [PluginNext]_vars => ReadersInv'
<1> SUFFICES ASSUME ReadersInv, [PluginNext]_vars PROVE ReadersInv'
  OBVIOUS
<1>1. opened \in [Plugins -> Nat] /\ registered \subseteq Plugins
      /\ \A p \in Plugins : opened[p] <= opened[p]
  BY DEF ReadersInv
<1>2. CASE LoadDynamicDrivers
  <2>1. /\ registered' \subseteq Plugins /\ opened' = opened
        /\ UNCHANGED <<sMeshes, meshes, iterators>>
    BY <1>2 DEF LoadDynamicDrivers
  <2> QED
    BY <1>1, <2>1, ReadersUntouched
<1>3. ASSUME NEW p \in Plugins, OpenRefused(p) PROVE ReadersInv'
  <2>1. UNCHANGED <<registered, sMeshes, opened, meshes, iterators>>
    BY <1>3 DEF OpenRefused
  <2> QED
    BY <1>1, <2>1, ReadersUntouched
<1>4. ASSUME NEW p \in Plugins, NEW h \in Handles, LoadMesh(h, p) PROVE ReadersInv'
  BY <1>4, LoadMeshReaders
<1>5. ASSUME NEW p \in Plugins, NEW n \in 0..DatasetCount[p], PopulateFails(p, n)
      PROVE  ReadersInv'
  <2>1. /\ UNCHANGED <<registered, sMeshes, meshes, iterators>>
        /\ opened' = [opened EXCEPT ![p] = @ + 1]
    BY <1>5 DEF PopulateFails
  <2> QED
    BY <1>1, <2>1, IdGiven, ReadersUntouched
<1>6. ASSUME NEW h \in Handles, LoadMemoryMesh(h) \/ CloseMemoryMesh(h) PROVE ReadersInv'
  BY <1>6, MemoryMeshReaders
<1>7. ASSUME NEW h \in Handles, CloseMesh(h) PROVE ReadersInv'
  BY <1>7, CloseMeshReaders
<1>8. ASSUME NEW h \in Handles, NEW i \in Iterators, NEW kind \in Kinds,
             OpenIterator(i, h, kind)
      PROVE  ReadersInv'
  BY <1>8, OpenIteratorReaders
<1>9. ASSUME NEW i \in Iterators, CloseIterator(i) PROVE ReadersInv'
  BY <1>9, CloseIteratorReaders
<1>10. ASSUME NEW i \in Iterators, NextBlock(i) PROVE ReadersInv'
  BY <1>10, NextBlockReaders
<1>11. CASE UNCHANGED vars
  <2>1. UNCHANGED <<registered, sMeshes, opened, meshes, iterators>>
    BY <1>11 DEF vars
  <2> QED
    BY <1>1, <2>1, ReadersUntouched
<1> QED
  BY <1>2, <1>3, <1>4, <1>5, <1>6, <1>7, <1>8, <1>9, <1>10, <1>11 DEF PluginNext

-----------------------------------------------------------------------------
(* The refinement: what each iterator does is what a reader may do.        *)
IsFound(open, it) == it.source = "memory" \/ it.id \in DOMAIN open[it.source]

View(it, found) ==
    IF it = NoIterator
    THEN [items |-> <<>>, read |-> <<>>, reading |-> "no", gone |-> FALSE]
    ELSE [items |-> ItemsOf(it.source, it.no, it.kind),
          read |-> FirstItems(it.source, it.no, it.kind, it.position),
          reading |-> IF it.ended THEN "over" ELSE "yes", gone |-> ~found]

(* Whether or not it copies from the start, a reader has read the first    *)
(* items.                                                                  *)
LEMMA ReaderSeen ==
    ASSUME NEW open, NEW it \in {NoIterator} \cup IteratorRecord,
           it # NoIterator => FirstItemsGot(it)
    PROVE  (IF CopiesFromStart(it)
            THEN [k \in DOMAIN it.got |-> ItemOf(it.source, it.no, it.kind, k)]
            ELSE it.got)
              = IF it = NoIterator THEN <<>>
                ELSE FirstItems(it.source, it.no, it.kind, it.position)
<1>1. CASE it = NoIterator
  <2>1. it.got = <<>> /\ it.source = "none"
    BY <1>1 DEF NoIterator
  <2>2. ~CopiesFromStart(it)
    BY <2>1, PluginNames DEF CopiesFromStart
  <2> QED
    BY <1>1, <2>1, <2>2
<1>2. CASE it # NoIterator
  <2>1. it \in IteratorRecord /\ FirstItemsGot(it)
    BY <1>2
  <2>2. it.got \in Seq(Copied) /\ Len(it.got) = it.position
    BY <2>1 DEF IteratorRecord, FirstItemsGot
  <2>3. DOMAIN it.got = 1..it.position
    BY <2>2, LenProperties
  <2> QED
    BY <1>2, <2>1, <2>3 DEF FirstItemsGot, FirstItems
<1> QED
  BY <1>1, <1>2

LEMMA ReaderViewed ==
    ASSUME ReadersInv, NEW i \in Iterators
    PROVE  ReaderOf(iterators[i]) = View(iterators[i], IsFound(sMeshes, iterators[i]))
<1> DEFINE it == iterators[i]
<1>1. it \in {NoIterator} \cup IteratorRecord /\ (it # NoIterator => FirstItemsGot(it))
  BY DEF ReadersInv, IteratorSound
<1>2. Found(it) <=> IsFound(sMeshes, it)
  BY DEF Found, IsFound
<1>3. CASE it = NoIterator
  BY <1>3 DEF ReaderOf, View
<1>4. CASE it # NoIterator
  <2>1. (IF CopiesFromStart(it)
         THEN [k \in DOMAIN it.got |-> ItemOf(it.source, it.no, it.kind, k)]
         ELSE it.got) = FirstItems(it.source, it.no, it.kind, it.position)
    BY <1>1, <1>4, ReaderSeen
  <2>2. (~Found(it)) = (~IsFound(sMeshes, it))
    BY <1>2
  <2> DEFINE items == ItemsOf(it.source, it.no, it.kind)
             read  == IF CopiesFromStart(it)
                      THEN [k \in DOMAIN it.got |-> ItemOf(it.source, it.no, it.kind, k)]
                      ELSE it.got
             reading == IF it.ended THEN "over" ELSE "yes"
  <2>3. ReaderOf(it)
          = [items |-> items, read |-> read, reading |-> reading, gone |-> ~Found(it)]
    BY <1>4 DEF ReaderOf
  <2>4. View(it, IsFound(sMeshes, it))
          = [items |-> items, read |-> FirstItems(it.source, it.no, it.kind, it.position),
             reading |-> reading, gone |-> ~IsFound(sMeshes, it)]
    BY <1>4 DEF View
  <2>5. read = FirstItems(it.source, it.no, it.kind, it.position)
    BY <2>1
  <2> HIDE DEF it, read, items, reading
  <2>6. ReaderOf(it) = View(it, IsFound(sMeshes, it))
    BY <2>2, <2>3, <2>4, <2>5
  <2> QED
    BY <2>6 DEF it
<1> QED
  BY <1>3, <1>4

ReaderMoves(r, s) ==
    \/ s = r \/ Reader!Starts(r, s) \/ Reader!Delivers(r, s) \/ Reader!IsOver(r, s)
    \/ Reader!LosesMesh(r, s) \/ Reader!Stops(r, s)

(* The mesh of a reader is gone.                                           *)
LEMMA GoneSet ==
    ASSUME NEW a, NEW b, NEW c, NEW d, NEW v, NEW t,
           v = [items |-> a, read |-> b, reading |-> c, gone |-> d]
    PROVE  [v EXCEPT !.gone = t] = [items |-> a, read |-> b, reading |-> c, gone |-> t]
OBVIOUS

(* An iterator that is not touched stays, or loses its mesh.               *)
LEMMA LooksOn ==
    ASSUME NEW it, NEW found \in BOOLEAN, NEW still \in BOOLEAN, still => found
    PROVE  ReaderMoves(View(it, found), View(it, still))
<1>1. CASE it = NoIterator \/ still = found
  <2>1. View(it, still) = View(it, found)
    BY <1>1 DEF View
  <2> QED
    BY <2>1 DEF ReaderMoves
<1>2. CASE it # NoIterator /\ found /\ ~still
  <2> DEFINE items == ItemsOf(it.source, it.no, it.kind)
             read  == FirstItems(it.source, it.no, it.kind, it.position)
             reading == IF it.ended THEN "over" ELSE "yes"
  <2>1. reading # "no"
    OBVIOUS
  <2>2. /\ View(it, found)
             = [items |-> items, read |-> read, reading |-> reading, gone |-> ~found]
        /\ View(it, still)
             = [items |-> items, read |-> read, reading |-> reading, gone |-> ~still]
    BY <1>2 DEF View
  <2>3. (~still) = TRUE
    BY <1>2
  <2> HIDE DEF items, read, reading
  <2>4. View(it, still) = [View(it, found) EXCEPT !.gone = TRUE]
    <3> DEFINE v == View(it, found)
    <3> HIDE DEF v
    <3>1. View(it, still)
            = [items |-> items, read |-> read, reading |-> reading, gone |-> TRUE]
      BY <2>2, <2>3
    <3>2. v = [items |-> items, read |-> read, reading |-> reading, gone |-> ~found]
      BY <2>2 DEF v
    <3> DEFINE gone == ~found
    <3>4. v = [items |-> items, read |-> read, reading |-> reading, gone |-> gone]
      BY <3>2
    <3> HIDE DEF gone
    <3>3. [v EXCEPT !.gone = TRUE]
            = [items |-> items, read |-> read, reading |-> reading, gone |-> TRUE]
      <4> DEFINE t == TRUE
      <4> HIDE DEF t
      <4>1. [v EXCEPT !.gone = t]
              = [items |-> items, read |-> read, reading |-> reading, gone |-> t]
        BY <3>4, GoneSet
      <4> QED
        BY <4>1, Zenon DEF t
    <3> QED
      BY <3>1, <3>3 DEF v
  <2>5. View(it, found).reading # "no"
    BY <2>1, <2>2
  <2> QED
    BY <2>4, <2>5 DEF ReaderMoves, Reader!LosesMesh
<1> QED
  BY <1>1, <1>2

LEMMA OpensAReader ==
    ASSUME NEW it \in IteratorRecord, it # NoIterator, it.position = 0, it.ended = FALSE,
           NEW found \in BOOLEAN, NEW any
    PROVE  ReaderMoves(View(NoIterator, any), View(it, found))
<1> DEFINE r == View(NoIterator, any)
           s == View(it, found)
           items == ItemsOf(it.source, it.no, it.kind)
<1>1. it.source \in Sources /\ it.kind \in Kinds /\ it.no \in Int
  BY DEF IteratorRecord
<1>2. Count(it.source, it.kind) \in Nat
  BY <1>1, ShapesTyped
<1>3. items \in Seq(Copied)
  BY <1>1, <1>2, AllItems, FirstItemsTyped
<1>4. FirstItems(it.source, it.no, it.kind, 0) = <<>>
  <2>1. 0 \in 0..Count(it.source, it.kind)
    BY <1>2
  <2>2. FirstItems(it.source, it.no, it.kind, 0) \in Seq(Copied)
    BY <1>1, <2>1, FirstItemsTyped
  <2>3. Len(FirstItems(it.source, it.no, it.kind, 0)) = 0
    BY <1>1, <2>1, FirstItemsTyped
  <2> QED
    BY <2>2, <2>3, EmptySeq
<1>5. r = Reader!NoReader
  BY DEF View, Reader!NoReader
<1>6. s = [items |-> items, read |-> <<>>, reading |-> "yes", gone |-> ~found]
  BY <1>4 DEF View
<1> HIDE DEF items, r, s
<1>7. s.items = items /\ s.gone = ~found
  BY <1>6
<1>8. Reader!Starts(r, s)
  BY <1>3, <1>5, <1>6, <1>7 DEF Reader!Starts, Copied
<1> QED
  BY <1>8 DEF ReaderMoves, r, s

LEMMA ClosesAReader ==
    ASSUME NEW it, it # NoIterator, NEW found, NEW any
    PROVE  ReaderMoves(View(it, found), View(NoIterator, any))
<1>1. View(it, found).reading # "no"
  BY DEF View
<1>2. View(NoIterator, any) = Reader!NoReader
  BY DEF View, Reader!NoReader
<1> QED
  BY <1>1, <1>2 DEF ReaderMoves, Reader!Stops

(* A block: an empty one only when all are read or the mesh is gone.       *)
LEMMA ReadsABlock ==
    ASSUME NEW it \in IteratorRecord, it # NoIterator, NEW found \in BOOLEAN,
           NEW next \in IteratorRecord, next # NoIterator,
           next.position <= Count(next.source, next.kind),
           next.source = it.source, next.no = it.no, next.kind = it.kind,
           \/ found /\ next.ended = it.ended /\ next.position > it.position
           \/ /\ ~found \/ it.position = Count(it.source, it.kind)
              /\ next = [it EXCEPT !.ended = TRUE]
    PROVE  ReaderMoves(View(it, found), View(next, found))
<1> DEFINE r == View(it, found)
           s == View(next, found)
           n == Count(it.source, it.kind)
<1>1. /\ it.source \in Sources /\ it.kind \in Kinds /\ it.no \in Int
      /\ it.position \in Nat /\ next.position \in Nat /\ n \in Nat
  BY ShapesTyped DEF IteratorRecord
<1> DEFINE items == ItemsOf(it.source, it.no, it.kind)
           before == FirstItems(it.source, it.no, it.kind, it.position)
           after == FirstItems(it.source, it.no, it.kind, next.position)
           was == IF it.ended THEN "over" ELSE "yes"
           is == IF next.ended THEN "over" ELSE "yes"
           gone == ~found
<1>2. r = [items |-> items, read |-> before, reading |-> was, gone |-> gone]
  BY DEF View
<1>3. s = [items |-> items, read |-> after, reading |-> is, gone |-> gone]
  BY DEF View
<1>7. was # "no" /\ (next.ended = it.ended => is = was) /\ (next.ended = TRUE => is = "over")
  OBVIOUS
<1>8. items = FirstItems(it.source, it.no, it.kind, n) /\ gone = ~found
  BY AllItems
<1> HIDE DEF items, was, is, gone
<1>4. r.reading # "no"
  BY <1>2, <1>7
<1>5. CASE found /\ next.ended = it.ended /\ next.position > it.position
  <2>1. /\ next.position \in 0..n /\ it.position \in 0..next.position
        /\ it.position \in 0..n /\ n \in 0..n
    BY <1>1, <1>5
  <2>2. /\ s.read \in Seq(Copied) /\ Len(s.read) = next.position
        /\ Len(r.read) = it.position
    BY <1>1, <1>2, <1>3, <2>1, FirstItemsTyped
  <2>3. Reader!IsPrefix(r.read, s.read)
    BY <1>1, <1>2, <1>3, <2>1, FirstItemsPrefix
  <2>4. Reader!IsPrefix(s.read, r.items)
    BY <1>1, <1>2, <1>3, <1>8, <2>1, FirstItemsPrefix
  <2>5. s = [r EXCEPT !.read = s.read] /\ ~r.gone
    <3> HIDE DEF before, after, r, s
    <3>1. s.read = after /\ is = was
      BY <1>3, <1>5, <1>7
    <3>2. [r EXCEPT !.read = after]
            = [items |-> items, read |-> after, reading |-> was, gone |-> gone]
      BY <1>2
    <3>3. gone = FALSE
      BY <1>5, <1>8
    <3>4. r.gone = FALSE
      BY <1>2, <3>3
    <3> QED
      BY <1>3, <3>1, <3>2, <3>4
  <2>6. Len(s.read) > Len(r.read)
    BY <1>5, <2>2
  <2> HIDE DEF r, s
  <2>7. Reader!Delivers(r, s)
    BY <1>4, <2>2, <2>3, <2>4, <2>5, <2>6 DEF Reader!Delivers, Copied
  <2> QED
    BY <2>7 DEF ReaderMoves, r, s
<1>6. CASE /\ ~found \/ it.position = n
           /\ next = [it EXCEPT !.ended = TRUE]
  <2>1. next.position = it.position /\ next.ended = TRUE
    BY <1>6 DEF IteratorRecord
  <2>2. r.read = r.items \/ r.gone
    <3> HIDE DEF before, r
    <3>1. ASSUME ~found PROVE r.gone
      <4>1. gone = TRUE
        BY <1>8, <3>1
      <4>2. r.gone = TRUE
        BY <1>2, <4>1
      <4> QED
        BY <4>2
    <3>2. ASSUME it.position = n PROVE r.read = r.items
      <4>1. before = items
        BY <1>8, <3>2 DEF before
      <4> QED
        BY <1>2, <4>1
    <3> QED
      BY <1>6, <3>1, <3>2
  <2>3. s = [r EXCEPT !.reading = "over"]
    <3>1. after = before /\ is = "over"
      BY <1>7, <2>1
    <3> HIDE DEF before, after, r, s
    <3> QED
      BY <1>2, <1>3, <3>1
  <2> HIDE DEF r, s
  <2>4. Reader!IsOver(r, s)
    BY <1>4, <2>2, <2>3 DEF Reader!IsOver
  <2> QED
    BY <2>4 DEF ReaderMoves, r, s
<1> QED
  BY <1>5, <1>6

-----------------------------------------------------------------------------
(* Every step moves every reader as BlockReader allows.                    *)
ViewOf(j) == View(iterators[j], IsFound(sMeshes, iterators[j]))

LEMMA ReadersViewed == ReadersInv => \A j \in Iterators : ReaderOf(iterators[j]) = ViewOf(j)
BY ReaderViewed DEF ViewOf

(* The iterators that a step leaves alone.                                 *)
LEMMA OthersLookOn ==
    ASSUME NEW j \in Iterators, iterators'[j] = iterators[j],
           IsFound(sMeshes', iterators[j]) => IsFound(sMeshes, iterators[j])
    PROVE  ReaderMoves(ViewOf(j), ViewOf(j)')
<1>1. IsFound(sMeshes', iterators[j]) \in BOOLEAN /\ IsFound(sMeshes, iterators[j]) \in BOOLEAN
  BY DEF IsFound
<1> QED
  BY <1>1, LooksOn DEF ViewOf

(* Opening meshes with new ids and closing some brings no mesh back.       *)
LEMMA NoneComesBack ==
    ASSUME ReadersInv, NEW j \in Iterators, iterators' = iterators,
           \A p \in Plugins : DOMAIN sMeshes'[p] \subseteq DOMAIN sMeshes[p] \cup {opened[p]}
    PROVE  ReaderMoves(ViewOf(j), ViewOf(j)')
<1> DEFINE it == iterators[j]
<1>1. it # NoIterator => it \in IteratorRecord /\ NumberGiven(opened, it.source, it.id, it.no)
  BY DEF ReadersInv, IteratorSound
<1>2. CASE it = NoIterator
  <2>1. ViewOf(j)' = ViewOf(j)
    BY <1>2 DEF ViewOf, View
  <2> QED
    BY <2>1 DEF ReaderMoves
<1>3. CASE it # NoIterator
  <2>1. IsFound(sMeshes', it) => IsFound(sMeshes, it)
    <3>1. CASE it.source = "memory"
      BY <3>1 DEF IsFound
    <3>2. CASE it.source # "memory"
      <4>1. it.source \in Plugins
        BY <1>1, <1>3, <3>2 DEF IteratorRecord, Sources
      <4>2. it.id \in 0..(opened[it.source] - 1) /\ opened[it.source] \in Nat
        BY <1>1, <1>3, <4>1 DEF NumberGiven, ReadersInv
      <4>3. it.id # opened[it.source]
        BY <4>2
      <4> QED
        BY <3>2, <4>1, <4>3 DEF IsFound
    <3> QED
      BY <3>1, <3>2
  <2> QED
    BY <2>1, OthersLookOn
<1> QED
  BY <1>2, <1>3

LEMMA ViewsMove ==
    ASSUME ReadersInv, PluginNext, NEW j \in Iterators
    PROVE  ReaderMoves(ViewOf(j), ViewOf(j)')
<1>0. DOMAIN sMeshes = Plugins
  BY DEF ReadersInv
<1>1. ASSUME UNCHANGED <<sMeshes, iterators>> PROVE ReaderMoves(ViewOf(j), ViewOf(j)')
  BY <1>1, NoneComesBack
<1>2. CASE LoadDynamicDrivers
  BY <1>1, <1>2 DEF LoadDynamicDrivers
<1>3. ASSUME NEW p \in Plugins, OpenRefused(p) PROVE ReaderMoves(ViewOf(j), ViewOf(j)')
  BY <1>1, <1>3 DEF OpenRefused
<1>4. ASSUME NEW p \in Plugins, NEW h \in Handles, LoadMesh(h, p)
      PROVE  ReaderMoves(ViewOf(j), ViewOf(j)')
  <2>1. /\ iterators' = iterators
        /\ sMeshes' = [sMeshes EXCEPT ![p] =
                          [id \in DOMAIN @ \cup {opened[p]} |->
                              IF id = opened[p] THEN OpenMesh(opened[p]) ELSE @[id]]]
    BY <1>4 DEF LoadMesh, PluginOpens, NewId
  <2>2. \A q \in Plugins : DOMAIN sMeshes'[q] \subseteq DOMAIN sMeshes[q] \cup {opened[q]}
    <3> TAKE q \in Plugins
    <3>1. CASE q = p
      BY <1>0, <2>1, <3>1
    <3>2. CASE q # p
      BY <1>0, <2>1, <3>2
    <3> QED
      BY <3>1, <3>2
  <2> QED
    BY <2>1, <2>2, NoneComesBack
<1>5. ASSUME NEW p \in Plugins, NEW n \in 0..DatasetCount[p], PopulateFails(p, n)
      PROVE  ReaderMoves(ViewOf(j), ViewOf(j)')
  BY <1>1, <1>5 DEF PopulateFails
<1>6. ASSUME NEW h \in Handles, LoadMemoryMesh(h) \/ CloseMemoryMesh(h)
      PROVE  ReaderMoves(ViewOf(j), ViewOf(j)')
  BY <1>1, <1>6 DEF LoadMemoryMesh, CloseMemoryMesh
<1>7. ASSUME NEW h \in Handles, CloseMesh(h) PROVE ReaderMoves(ViewOf(j), ViewOf(j)')
  <2> DEFINE p == meshes[h].source
  <2>1. /\ iterators' = iterators /\ p \in Plugins
        /\ sMeshes' = [sMeshes EXCEPT ![p] = Restrict(@, DOMAIN @ \ {meshes[h].id})]
    BY <1>7 DEF CloseMesh
  <2>2. \A q \in Plugins : DOMAIN sMeshes'[q] \subseteq DOMAIN sMeshes[q] \cup {opened[q]}
    <3> HIDE DEF p
    <3> TAKE q \in Plugins
    <3>1. CASE q = p
      BY <1>0, <2>1, <3>1 DEF Restrict
    <3>2. CASE q # p
      BY <1>0, <2>1, <3>2
    <3> QED
      BY <3>1, <3>2
  <2> QED
    BY <2>1, <2>2, NoneComesBack
<1>8. ASSUME NEW h \in Handles, NEW i \in Iterators, NEW kind \in Kinds,
             OpenIterator(i, h, kind)
      PROVE  ReaderMoves(ViewOf(j), ViewOf(j)')
  <2> DEFINE it == NewIterator(meshes[h], kind)
  <2>1. /\ iterators[i] = NoIterator /\ meshes[h] # NoMesh
        /\ iterators' = [iterators EXCEPT ![i] = it] /\ sMeshes' = sMeshes
    BY <1>8 DEF OpenIterator
  <2>2. it \in IteratorRecord /\ it # NoIterator
    <3>1. meshes[h] \in Meshes /\ MeshNumbered(opened, meshes[h])
      BY DEF ReadersInv
    <3> QED
      BY <2>1, <3>1, NewIteratorSound
  <2>3. it.position = 0 /\ it.ended = FALSE
    BY DEF NewIterator
  <2> HIDE DEF it
  <2>4. CASE j = i
    <3>1. iterators'[j] = it
      BY <2>1, <2>4 DEF ReadersInv
    <3>2. IsFound(sMeshes', it) \in BOOLEAN
      BY DEF IsFound
    <3>3. ReaderMoves(View(NoIterator, IsFound(sMeshes, NoIterator)),
                      View(it, IsFound(sMeshes', it)))
      BY <2>2, <2>3, <3>2, OpensAReader
    <3> QED
      BY <2>1, <2>4, <3>1, <3>3 DEF ViewOf
  <2>5. CASE j # i
    <3>1. iterators'[j] = iterators[j]
      BY <2>1, <2>5 DEF ReadersInv
    <3> QED
      BY <2>1, <3>1, OthersLookOn
  <2> QED
    BY <2>4, <2>5
<1>9. ASSUME NEW i \in Iterators, CloseIterator(i) PROVE ReaderMoves(ViewOf(j), ViewOf(j)')
  <2>1. /\ iterators[i] # NoIterator
        /\ iterators' = [iterators EXCEPT ![i] = NoIterator] /\ sMeshes' = sMeshes
    BY <1>9 DEF CloseIterator
  <2>2. CASE j = i
    <3>1. iterators'[j] = NoIterator
      BY <2>1, <2>2 DEF ReadersInv
    <3> QED
      BY <2>1, <2>2, <3>1, ClosesAReader DEF ViewOf
  <2>3. CASE j # i
    <3>1. iterators'[j] = iterators[j]
      BY <2>1, <2>3 DEF ReadersInv
    <3> QED
      BY <2>1, <3>1, OthersLookOn
  <2> QED
    BY <2>2, <2>3
<1>10. ASSUME NEW i \in Iterators, NextBlock(i) PROVE ReaderMoves(ViewOf(j), ViewOf(j)')
  <2>1. \A p \in Plugins : DOMAIN sMeshes'[p] = DOMAIN sMeshes[p]
    BY <1>10, CacheMoves
  <2>2. ASSUME NEW it \in {NoIterator} \cup IteratorRecord, it # NoIterator
        PROVE  IsFound(sMeshes', it) <=> IsFound(sMeshes, it)
    <3>1. it.source \in Plugins \/ it.source = "memory"
      BY <2>2 DEF IteratorRecord, Sources
    <3> QED
      BY <2>1, <3>1 DEF IsFound
  <2> DEFINE it == iterators[i]
             next == iterators'[i]
  <2>3. /\ it # NoIterator /\ it \in IteratorRecord
        /\ iterators' = [iterators EXCEPT ![i] = next]
        /\ next # NoIterator /\ next \in IteratorRecord /\ FirstItemsGot(next)
        /\ next.source = it.source /\ next.id = it.id /\ next.no = it.no
        /\ next.kind = it.kind
        /\ \/ /\ Found(it) /\ next.ended = it.ended
              /\ next.position > it.position
           \/ /\ ~Found(it) \/ it.position = Count(it.source, it.kind)
              /\ next = [it EXCEPT !.ended = TRUE]
    BY <1>10, NextBlockMoves
  <2>4. CASE j = i
    <3>1. IsFound(sMeshes', next) = IsFound(sMeshes, it) /\ IsFound(sMeshes, it) \in BOOLEAN
      <4>1. IsFound(sMeshes', next) = IsFound(sMeshes', it)
        BY <2>3 DEF IsFound
      <4>2. IsFound(sMeshes', it) <=> IsFound(sMeshes, it)
        BY <2>2, <2>3
      <4>3. IsFound(sMeshes', it) \in BOOLEAN /\ IsFound(sMeshes, it) \in BOOLEAN
        BY DEF IsFound
      <4> QED
        BY <4>1, <4>2, <4>3
    <3>2. Found(it) <=> IsFound(sMeshes, it)
      BY DEF Found, IsFound
    <3>3. next.position <= Count(next.source, next.kind)
      BY <2>3 DEF FirstItemsGot
    <3> HIDE DEF it, next
    <3>4. ReaderMoves(View(it, IsFound(sMeshes, it)), View(next, IsFound(sMeshes, it)))
      BY <2>3, <3>1, <3>2, <3>3, ReadsABlock
    <3> QED
      BY <2>4, <3>1, <3>4 DEF ViewOf, it, next
  <2>5. CASE j # i
    <3>1. iterators'[j] = iterators[j]
      BY <2>3, <2>5 DEF ReadersInv
    <3>2. CASE iterators[j] = NoIterator
      <4>1. ViewOf(j)' = ViewOf(j)
        BY <3>1, <3>2 DEF ViewOf, View
      <4> QED
        BY <4>1 DEF ReaderMoves
    <3>3. CASE iterators[j] # NoIterator
      <4>1. iterators[j] \in {NoIterator} \cup IteratorRecord
        BY DEF ReadersInv
      <4>2. IsFound(sMeshes', iterators[j]) => IsFound(sMeshes, iterators[j])
        BY <2>2, <3>3, <4>1
      <4> QED
        BY <3>1, <4>2, OthersLookOn
    <3> QED
      BY <3>2, <3>3
  <2> QED
    BY <2>4, <2>5
<1> QED
  BY <1>2, <1>3, <1>4, <1>5, <1>6, <1>7, <1>8, <1>9, <1>10 DEF PluginNext

(* The initial states and the steps of the iterators are those of readers. *)
LEMMA ReadersRefine ==
    /\ PluginInit => Reader!ReaderInit
    /\ ReadersInv /\ ReadersInv' /\ [PluginNext]_vars
         => [Reader!ReaderNext]_([i \in Iterators |-> ReaderOf(iterators[i])])
<1>1. PluginInit => Reader!ReaderInit
  <2> SUFFICES ASSUME PluginInit PROVE Reader!ReaderInit
    OBVIOUS
  <2>1. \A i \in Iterators : ReaderOf(iterators[i]) = Reader!NoReader
    BY DEF PluginInit, ReaderOf, Reader!NoReader
  <2> QED
    BY <2>1 DEF Reader!ReaderInit
<1>2. ASSUME ReadersInv, ReadersInv', [PluginNext]_vars
      PROVE  [Reader!ReaderNext]_([i \in Iterators |-> ReaderOf(iterators[i])])
  <2>1. \A j \in Iterators : ReaderOf(iterators[j]) = ViewOf(j)
    BY <1>2, ReadersViewed
  <2>2. (ReadersInv => \A j \in Iterators : ReaderOf(iterators[j]) = ViewOf(j))'
    BY ReadersViewed, PTL
  <2>3. \A j \in Iterators : ReaderOf(iterators[j])' = ViewOf(j)'
    BY <1>2, <2>2
  <2>4. CASE PluginNext
    <3>1. \A j \in Iterators : ReaderMoves(ReaderOf(iterators[j]), ReaderOf(iterators[j])')
      BY <1>2, <2>1, <2>3, <2>4, ViewsMove
    <3>2. Reader!ReaderNext
      BY <3>1 DEF Reader!ReaderNext, ReaderMoves
    <3> QED
      BY <3>2
  <2>5. CASE UNCHANGED vars
    <3>1. \A j \in Iterators : ViewOf(j)' = ViewOf(j)
      BY <2>5 DEF vars, ViewOf
    <3> QED
      BY <2>1, <2>3, <3>1
  <2> QED
    BY <1>2, <2>4, <2>5
<1> QED
  BY <1>1, <1>2

(* The inductive invariant of the iterators: what each has got is the      *)
(* first items of its mesh, an id the plugin gave out is not given again,  *)
(* and the cached position (mNextConnectivityPosition) is where its face   *)
(* begins.                                                                 *)
THEOREM ReadersInvHolds == PluginSpec => []ReadersInv
BY ReadersInvInit, ReadersInvNext, PTL DEF PluginSpec

(* The iterators of MDAL's meshes (MeshVertexIteratorDynamicDriver and its *)
(* like, the ones of MemoryMesh) implement the promise of BlockReader, for *)
(* meshes and buffers of any size, with any other mesh of the library open *)
(* or closed meanwhile.                                                    *)
THEOREM IteratorsAreReaders == PluginSpec => ReaderSpec
<1>1. PluginInit => Reader!ReaderInit
  BY ReadersRefine
<1>2. ReadersInv /\ ReadersInv' /\ [PluginNext]_vars
         => [Reader!ReaderNext]_([i \in Iterators |-> ReaderOf(iterators[i])])
  BY ReadersRefine
<1> QED
  BY <1>1, <1>2, ReadersInvHolds, PTL DEF PluginSpec, ReaderSpec, Reader!ReaderSpec

(* Type correctness: no count of references is negative, and an iterator   *)
(* stands after what it has got.                                           *)
THEOREM PluginTypes == PluginSpec => []PluginTypeOK
<1>1. LibraryInv /\ ReadersInv => PluginTypeOK
  <2> SUFFICES ASSUME LibraryInv, ReadersInv PROVE PluginTypeOK
    OBVIOUS
  <2>1. refs \in [Plugins -> Nat]
    <3>1. ASSUME NEW p \in Plugins PROVE refs[p] \in Nat
      <4>1. Held(p) \in Nat /\ Held(p) <= refs[p] /\ refs[p] \in Int
        BY HoldersCounted DEF LibraryInv, ReferencesCover, HandlesTyped
      <4> QED
        BY <4>1
    <3> QED
      BY <3>1 DEF LibraryInv, HandlesTyped
  <2>2. meshes \in [Handles -> [source : Sources \cup {"none"}, id : Int, no : Int]]
    <3>1. Meshes \subseteq [source : Sources \cup {"none"}, id : Int, no : Int]
      BY DEF Meshes, NoMesh
    <3> QED
      BY <3>1 DEF ReadersInv
  <2>3. \A i \in Iterators : iterators[i].position = Len(iterators[i].got)
    <3> TAKE i \in Iterators
    <3>1. CASE iterators[i] = NoIterator
      BY <3>1 DEF NoIterator
    <3>2. CASE iterators[i] # NoIterator
      BY <3>2 DEF ReadersInv, IteratorSound, FirstItemsGot
    <3> QED
      BY <3>1, <3>2
  <2>4. \A p \in Plugins : \A id \in DOMAIN sMeshes[p] :
           sMeshes[p][id] \in [no : Nat, nextFace : Nat, nextPosition : Nat]
    BY DEF ReadersInv, OpenMeshSound
  <2> QED
    BY <2>1, <2>2, <2>3, <2>4 DEF PluginTypeOK, LibraryInv, HandlesTyped, ReadersInv
<1> QED
  BY <1>1, LibraryInvHolds, ReadersInvHolds, PTL
-----------------------------------------------------------------------------
(* What a reader may conclude from the promise of BlockReader: at any time *)
(* it has the first items of its mesh, in order, and once it was answered  *)
(* 0 it has them all, unless the mesh was closed under it.                 *)
ReaderStates == [items : Seq(Copied), read : Seq(Copied),
                 reading : {"no", "yes", "over"}, gone : BOOLEAN]

OverIsAll(r) == r.reading = "over" => r.read = r.items \/ r.gone

ReaderSound(r) == r \in ReaderStates /\ Reader!IsPrefix(r.read, r.items) /\ OverIsAll(r)

ReadersComplete == \A i \in Iterators : ReaderSound(ReaderOf(iterators[i]))

LEMMA NothingIsPrefix == ASSUME NEW s \in Seq(Copied) PROVE Reader!IsPrefix(<<>>, s)
BY DEF Reader!IsPrefix

LEMMA NoReaderSound == ReaderSound(Reader!NoReader)
<1>1. /\ Reader!NoReader.items = <<>> /\ Reader!NoReader.read = <<>>
      /\ Reader!NoReader.reading = "no" /\ Reader!NoReader \in ReaderStates
  BY DEF Reader!NoReader, ReaderStates
<1>2. Reader!IsPrefix(Reader!NoReader.read, Reader!NoReader.items)
  BY <1>1 DEF Reader!IsPrefix
<1> QED
  BY <1>1, <1>2 DEF ReaderSound, OverIsAll

(* A step of one reader.  After an answer of 0 nothing is delivered: what  *)
(* was read is all, or the mesh is gone.                                   *)
LEMMA ReaderStep ==
    ASSUME NEW r, NEW s, ReaderSound(r),
           s = r \/ Reader!Starts(r, s) \/ Reader!Delivers(r, s) \/ Reader!IsOver(r, s)
                 \/ Reader!LosesMesh(r, s) \/ Reader!Stops(r, s)
    PROVE  ReaderSound(s)
<1> USE DEF ReaderSound, ReaderStates, OverIsAll
<1>1. CASE s = r
  BY <1>1
<1>2. CASE Reader!Starts(r, s)
  <2>1. PICK items, gone : items = s.items /\ gone = s.gone
    OBVIOUS
  <2>2. /\ items \in Seq(Copied) /\ gone \in BOOLEAN
        /\ s = [items |-> items, read |-> <<>>, reading |-> "yes", gone |-> gone]
    BY <1>2, <2>1 DEF Reader!Starts, Copied
  <2> QED
    BY <2>2, NothingIsPrefix
<1>3. CASE Reader!Delivers(r, s)
  <2>1. PICK read : read = s.read
    OBVIOUS
  <2>2. read \in Seq(Copied) /\ s = [r EXCEPT !.read = read]
    BY <1>3, <2>1 DEF Reader!Delivers, Copied
  <2>4. s \in ReaderStates /\ s.items = r.items /\ s.reading = r.reading
    BY <2>2
  <2>5. Reader!IsPrefix(s.read, s.items)
    BY <1>3, <2>4 DEF Reader!Delivers
  <2>3. r.reading # "over"
    <3>1. Len(s.read) > Len(r.read) /\ Len(s.read) <= Len(r.items) /\ ~r.gone
      BY <1>3 DEF Reader!Delivers, Reader!IsPrefix
    <3>2. /\ Len(s.read) \in Nat /\ Len(r.read) \in Nat /\ Len(r.items) \in Nat
      BY <2>4
    <3>3. r.read # r.items
      BY <3>1, <3>2
    <3> QED
      BY <3>1, <3>3
  <2> QED
    BY <2>3, <2>4, <2>5
<1>4. CASE Reader!IsOver(r, s)
  BY <1>4 DEF Reader!IsOver
<1>5. CASE Reader!LosesMesh(r, s)
  BY <1>5 DEF Reader!LosesMesh
<1>6. CASE Reader!Stops(r, s)
  BY <1>6, NoReaderSound DEF Reader!Stops
<1> QED
  BY <1>1, <1>2, <1>3, <1>4, <1>5, <1>6

(* What BlockReader promises is enough: whoever keeps it has, at any time, *)
(* read the first items of its mesh in order, and all of them once it was  *)
(* answered 0, unless the mesh is gone.                                    *)
THEOREM OverMeansAll == ReaderSpec => []ReadersComplete
<1> DEFINE readers == [i \in Iterators |-> ReaderOf(iterators[i])]
<1>1. Reader!ReaderInit => ReadersComplete
  <2> SUFFICES ASSUME Reader!ReaderInit, NEW i \in Iterators
               PROVE  ReaderSound(ReaderOf(iterators[i]))
    BY DEF ReadersComplete
  <2>1. readers = [k \in Iterators |-> Reader!NoReader]
    BY DEF Reader!ReaderInit
  <2>2. ReaderOf(iterators[i]) = readers[i]
    OBVIOUS
  <2> HIDE DEF readers
  <2> QED
    BY <2>1, <2>2, NoReaderSound
<1>2. ReadersComplete /\ [Reader!ReaderNext]_readers => ReadersComplete'
  <2> SUFFICES ASSUME ReadersComplete, [Reader!ReaderNext]_readers, NEW i \in Iterators
               PROVE  ReaderSound(ReaderOf(iterators[i])')
    BY DEF ReadersComplete, ReaderSound, ReaderStates, OverIsAll, Reader!IsPrefix
  <2> DEFINE r == readers[i]
             s == readers'[i]
  <2>1. r = ReaderOf(iterators[i]) /\ s = ReaderOf(iterators[i])'
    OBVIOUS
  <2>2. s = r \/ Reader!Starts(r, s) \/ Reader!Delivers(r, s) \/ Reader!IsOver(r, s)
              \/ Reader!LosesMesh(r, s) \/ Reader!Stops(r, s)
    BY DEF Reader!ReaderNext
  <2>3. ReaderSound(r)
    BY <2>1 DEF ReadersComplete
  <2> HIDE DEF r, s
  <2>4. ReaderSound(s)
    BY <2>2, <2>3, ReaderStep
  <2> QED
    BY <2>1, <2>4
<1> QED
  BY <1>1, <1>2, PTL DEF ReaderSpec, Reader!ReaderSpec

(* So the loops over MDAL_VI_next, MDAL_EI_next and MDAL_FI_next may end   *)
(* at an answer of 0, however libraries, meshes and iterators come and go. *)
THEOREM LoopsReadAll == PluginSpec => []ReadersComplete
BY IteratorsAreReaders, OverMeansAll, PTL
=============================================================================
