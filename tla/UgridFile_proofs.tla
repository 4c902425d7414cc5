------------------------- MODULE UgridFile_proofs --------------------------
(***************************************************************************)
(* What holds of UGRID files whatever meshes, groups, files of other       *)
(* programs and faults there are: files stay sound, a mesh that was saved  *)
(* comes back as it was, and what is in a file is only added to.           *)
(***************************************************************************)
EXTENDS UgridFile, SequenceTheorems, WellFoundedInduction, TLAPS

Driver == [open : BOOLEAN, file : Files, others : Content, beneath : BOOLEAN,
           wrote : SUBSET PromiseRecord, requested : MeshNames \cup {Unnamed}]

(* The file holds the mesh as SavedMesh made it, under some name.          *)
SavedAs(m, c) == \E name \in MeshNames : c.meshes = SavedMesh(m, name).meshes

FilesSound ==
    /\ disk \in [Files -> Content] /\ saved \in [Files -> MeshRecord]
    /\ \A f \in Files : ContentSound(disk[f]) /\ (saved[f].open => SavedAs(saved[f], disk[f]))

(* While the driver has a file open others may see less of its groups, but *)
(* the same meshes - unless the file was made anew beneath it.             *)
DriverSound ==
    /\ driver \in Driver /\ ContentSound(driver.others)
    /\ driver.beneath => driver.open
    /\ driver.wrote # {} => driver.open
    /\ driver.open /\ ~driver.beneath => driver.others.meshes = disk[driver.file].meshes

UgridInv ==
    /\ FilesSound /\ DriverSound
    /\ promised \in [Files -> SUBSET PromiseRecord]
    /\ mesh \in MeshRecord
    /\ status \in UgridStatuses

-----------------------------------------------------------------------------
LEMMA NamesOfMeshes ==
    ASSUME NEW c \in Content
    PROVE  /\ Len(c.meshes) \in Nat /\ DOMAIN c.meshes = 1..Len(c.meshes)
           /\ DOMAIN MeshNamesOf(c) = 1..Len(c.meshes)
           /\ Len(MeshNamesOf(c)) = Len(c.meshes)
           /\ \A i \in 1..Len(c.meshes) : /\ c.meshes[i] \in Topology
                                          /\ MeshNamesOf(c)[i] = c.meshes[i].name
<1>1. c.meshes \in Seq(Topology)
  BY DEF Content
<1>2. /\ Len(c.meshes) \in Nat /\ DOMAIN c.meshes = 1..Len(c.meshes)
      /\ \A i \in 1..Len(c.meshes) : c.meshes[i] \in Topology
  BY <1>1
<1>3. MeshNamesOf(c) = [i \in 1..Len(c.meshes) |-> c.meshes[i].name]
  BY <1>2 DEF MeshNamesOf
<1> QED
  BY <1>2, <1>3

LEMMA SelectedIs ==
    ASSUME NEW c \in Content, NEW r \in MeshNames \cup {Unnamed}, MeshFound(c, r)
    PROVE  \E i \in DOMAIN c.meshes : /\ Selected(c, r) = c.meshes[i]
                                      /\ r # Unnamed => c.meshes[i].name = r
<1>1. c.meshes # <<>> /\ c.meshes \in Seq(Topology)
  BY DEF MeshFound, Content
<1>2. Len(c.meshes) >= 1
  BY <1>1
<1>3. CASE r # Unnamed
  <2>1. \E j \in DOMAIN MeshNamesOf(c) : MeshNamesOf(c)[j] = r
    BY <1>3 DEF MeshFound, ToSet
  <2> DEFINE k == CHOOSE j \in DOMAIN MeshNamesOf(c) : MeshNamesOf(c)[j] = r
  <2>2. k \in DOMAIN MeshNamesOf(c) /\ MeshNamesOf(c)[k] = r
    BY <2>1
  <2>3. Selected(c, r) = c.meshes[k]
    BY <1>3 DEF Selected
  <2> HIDE DEF k
  <2> QED
    BY <2>2, <2>3, NamesOfMeshes
<1>4. CASE r = Unnamed /\ Len(c.meshes) > 1
  <2>1. Selected(c, r) \in {c.meshes[1], c.meshes[2]}
    BY <1>4 DEF Selected
  <2>2. 1 \in DOMAIN c.meshes /\ 2 \in DOMAIN c.meshes
    BY <1>4, NamesOfMeshes
  <2> QED
    BY <1>4, <2>1, <2>2
<1>5. CASE r = Unnamed /\ ~(Len(c.meshes) > 1)
  <2>1. Len(MeshNamesOf(c)) = Len(c.meshes)
    BY NamesOfMeshes
  <2>2. Selected(c, r) = c.meshes[1]
    BY <1>5, <2>1 DEF Selected
  <2> QED
    BY <1>2, <1>5, <2>2, NamesOfMeshes
<1> QED
  BY <1>3, <1>4, <1>5

LEMMA SelectedThere ==
    ASSUME NEW c \in Content, NEW r \in MeshNames \cup {Unnamed}, Selectable(c, r)
    PROVE  /\ Selected(c, r) \in Topology
           /\ Selected(c, r).name \in ToSet(MeshNamesOf(c))
<1>1. PICK i \in DOMAIN c.meshes : Selected(c, r) = c.meshes[i]
  BY SelectedIs DEF Selectable
<1> QED
  BY <1>1, NamesOfMeshes DEF ToSet

LEMMA EmptySound ==
    /\ NoFile \in Content /\ ContentSound(NoFile)
    /\ Damaged \in Content /\ ContentSound(Damaged)
<1>1. <<>> \in Seq(Topology) /\ <<>> \in Seq(Nat) /\ <<>> \in Seq(Variable)
  OBVIOUS
<1>2. NoFile \in Content /\ Damaged \in Content
  BY <1>1 DEF NoFile, Damaged, Content
<1>3. NoFile.variables = <<>> /\ Damaged.variables = <<>>
  BY DEF NoFile, Damaged
<1>4. DOMAIN <<>> = {}
  OBVIOUS
<1> QED
  BY <1>2, <1>3, <1>4 DEF ContentSound

LEMMA SavedMeshSound ==
    ASSUME NEW m \in MeshRecord, NEW name \in MeshNames
    PROVE  /\ SavedMesh(m, name) \in Content /\ ContentSound(SavedMesh(m, name))
           /\ SavedAs(m, SavedMesh(m, name))
<1> DEFINE t == [name |-> name, dim |-> 2,
                 nodes |-> AtLeastOne(m.vertices), elements |-> AtLeastOne(m.faces),
                 nodesFill |-> m.vertices = 0 \/ m.atFill,
                 elementsFill |-> m.faces = 0,
                 coordinates |-> ~Spaced(name), own |-> OwnVars[name]]
<1>1. <<t>> \in Seq(Topology)
  <2>1. t \in Topology
    <3>1. OwnVars[name] \in SUBSET VarNames /\ Spaced(name) \in BOOLEAN
      BY UgridAssumption DEF Spaced
    <3>2. m.vertices \in Nat /\ m.faces \in Nat /\ m.atFill \in BOOLEAN
      BY DEF MeshRecord
    <3>3. AtLeastOne(m.vertices) \in Nat /\ AtLeastOne(m.faces) \in Nat
      BY <3>2 DEF AtLeastOne
    <3> QED
      BY <3>1, <3>2, <3>3 DEF Topology
  <2> HIDE DEF t
  <2> QED
    BY <2>1
<1>2. SavedMesh(m, name) \in Content
  <2>1. SavedMesh(m, name) = [NoFile EXCEPT !.meshes = <<t>>]
    BY DEF SavedMesh
  <2> HIDE DEF t
  <2> QED
    BY <1>1, <2>1, EmptySound DEF Content
<1>3. ContentSound(SavedMesh(m, name))
  BY DEF ContentSound, SavedMesh, NoFile
<1> QED
  BY <1>2, <1>3 DEF SavedAs

(* A mesh that SavedMesh wrote is read as it was.                          *)
LEMMA SavedMeshRead ==
    ASSUME NEW m \in MeshRecord, ~m.atFill, NEW c \in Content, SavedAs(m, c),
           ~Spaced(MeshNamesOf(c)[1])
    PROVE  /\ Selectable(c, Unnamed)
           /\ LoadedMesh(Selected(c, Unnamed)).vertices = m.vertices
           /\ LoadedMesh(Selected(c, Unnamed)).faces = m.faces
<1>1. PICK name \in MeshNames : c.meshes = SavedMesh(m, name).meshes
  BY DEF SavedAs
<1> DEFINE t == [name |-> name, dim |-> 2,
                 nodes |-> AtLeastOne(m.vertices), elements |-> AtLeastOne(m.faces),
                 nodesFill |-> m.vertices = 0 \/ m.atFill,
                 elementsFill |-> m.faces = 0,
                 coordinates |-> ~Spaced(name), own |-> OwnVars[name]]
<1>2. c.meshes = <<t>>
  BY <1>1 DEF SavedMesh, NoFile
<1>3. ~Spaced(name)
  <2>1. MeshNamesOf(c)[1] = name
    BY <1>2, NamesOfMeshes
  <2> QED
    BY <2>1
<1>4. Selected(c, Unnamed) = t
  <2>1. Len(MeshNamesOf(c)) = 1
    BY <1>2, NamesOfMeshes
  <2>2. Selected(c, Unnamed) = c.meshes[1]
    BY <2>1 DEF Selected
  <2> QED
    BY <1>2, <2>2
<1>5. m.vertices \in Nat /\ m.faces \in Nat
  BY DEF MeshRecord
<1>6. VerticesRead(t) = m.vertices /\ ElementsRead(t) = m.faces /\ t.dim = 2
  BY <1>5 DEF VerticesRead, ElementsRead, AtLeastOne
<1>8. Selectable(c, Unnamed)
  <2>1. t.coordinates <=> ~Spaced(name)
    BY Zenon
  <2> HIDE DEF t
  <2>2. MeshFound(c, Unnamed)
    BY <1>2 DEF MeshFound
  <2> QED
    BY <1>3, <1>4, <2>1, <2>2 DEF Selectable
<1> HIDE DEF t
<1>7. LoadedMesh(t).vertices = VerticesRead(t) /\ LoadedMesh(t).faces = ElementsRead(t)
  BY <1>6 DEF LoadedMesh, NoMesh
<1> QED
  BY <1>4, <1>6, <1>7, <1>8

LEMMA LoadedMeshTyped ==
    ASSUME NEW t \in Topology
    PROVE  LoadedMesh(t) \in MeshRecord
<1>1. VerticesRead(t) \in Nat /\ ElementsRead(t) \in Nat
  BY DEF VerticesRead, ElementsRead, Topology
<1>2. (t.nodesFill /\ VerticesRead(t) > 0) \in BOOLEAN
  OBVIOUS
<1> QED
  BY <1>1, <1>2 DEF LoadedMesh, NoMesh, MeshRecord

-----------------------------------------------------------------------------
(* d has what c has, and maybe more variables, and times if c had none.    *)
Extends(d, c) ==
    /\ d.meshes = c.meshes
    /\ Len(d.variables) >= Len(c.variables)
    /\ \A i \in DOMAIN c.variables : d.variables[i] = c.variables[i]
    /\ c.timed => d.timed
    /\ c.times # <<>> => d.times = c.times

LEMMA ExtendsItself == ASSUME NEW c \in Content PROVE Extends(c, c)
BY DEF Extends, Content

LEMMA WithTimeSound ==
    ASSUME NEW c \in Content, ContentSound(c)
    PROVE  WithTime(c) \in Content /\ ContentSound(WithTime(c)) /\ Extends(WithTime(c), c)
<1>1. /\ WithTime(c).meshes = c.meshes /\ WithTime(c).times = c.times
      /\ WithTime(c).variables = c.variables /\ WithTime(c).timed = TRUE
      /\ WithTime(c) \in Content
  BY DEF WithTime, Content
<1>2. MeshNamesOf(WithTime(c)) = MeshNamesOf(c)
  BY <1>1 DEF MeshNamesOf
<1>3. ContentSound(WithTime(c))
  BY <1>1, <1>2 DEF ContentSound
<1>4. Len(c.variables) \in Nat
  BY DEF Content
<1> QED
  BY <1>1, <1>3, <1>4 DEF Extends

(* Variables that lie on a mesh of the file and have values at no more     *)
(* time steps than the file is given may be added to it.                   *)
LEMMA AddedSound ==
    ASSUME NEW c \in Content, ContentSound(c), NEW vs \in Seq(Variable), NEW ts \in Seq(Nat),
           c.times # <<>> => ts = c.times,
           \A i \in DOMAIN vs : /\ vs[i].mesh \in ToSet(MeshNamesOf(c))
                                /\ vs[i].written <= Len(ts),
           NEW d, d = [WithTime(c) EXCEPT !.variables = @ \o vs, !.times = ts]
    PROVE  d \in Content /\ ContentSound(d) /\ Extends(d, c)
<1>1. /\ d.meshes = c.meshes /\ d.times = ts /\ d.timed = TRUE
      /\ d.variables = c.variables \o vs
  BY DEF WithTime, Content
<1>2. c.variables \in Seq(Variable) /\ c.times \in Seq(Nat)
  BY DEF Content
<1>3. c.variables \o vs \in Seq(Variable)
  BY <1>2
<1>4. d \in Content
  BY <1>3 DEF WithTime, Content
<1>5. MeshNamesOf(d) = MeshNamesOf(c)
  BY <1>1 DEF MeshNamesOf
<1>6. /\ Len(c.variables) \in Nat /\ Len(vs) \in Nat
      /\ DOMAIN c.variables = 1..Len(c.variables) /\ DOMAIN vs = 1..Len(vs)
      /\ DOMAIN d.variables = 1..(Len(c.variables) + Len(vs))
      /\ Len(d.variables) = Len(c.variables) + Len(vs)
      /\ \A i \in 1..Len(c.variables) : d.variables[i] = c.variables[i]
      /\ \A i \in DOMAIN d.variables :
            i \notin 1..Len(c.variables) =>
                /\ i - Len(c.variables) \in 1..Len(vs)
                /\ d.variables[i] = vs[i - Len(c.variables)]
  <2>1. /\ Len(c.variables) \in Nat /\ Len(vs) \in Nat
        /\ DOMAIN c.variables = 1..Len(c.variables) /\ DOMAIN vs = 1..Len(vs)
    BY <1>2, LenProperties
  <2>2. /\ Len(d.variables) = Len(c.variables) + Len(vs)
        /\ \A i \in 1..(Len(c.variables) + Len(vs)) : d.variables[i] =
              IF i <= Len(c.variables) THEN c.variables[i] ELSE vs[i - Len(c.variables)]
    <3> DEFINE old == c.variables
    <3> HIDE DEF old
    <3>1. /\ Len(old \o vs) = Len(old) + Len(vs)
          /\ \A i \in 1..(Len(old) + Len(vs)) : (old \o vs)[i] =
                IF i <= Len(old) THEN old[i] ELSE vs[i - Len(old)]
      <4>1. old \in Seq(Variable)
        BY <1>2 DEF old
      <4> QED
        BY <4>1, ConcatProperties
    <3> QED
      BY <1>1, <3>1 DEF old
  <2>3. DOMAIN d.variables = 1..(Len(c.variables) + Len(vs))
    BY <1>1, <1>3, <2>2, LenProperties
  <2>4. ASSUME NEW i \in DOMAIN d.variables, i \notin 1..Len(c.variables)
        PROVE  /\ i - Len(c.variables) \in 1..Len(vs)
               /\ d.variables[i] = vs[i - Len(c.variables)]
    <3>1. i \in 1..(Len(c.variables) + Len(vs)) /\ i \in Int
      BY <2>3, <2>4
    <3>2. Len(c.variables) < i
      BY <2>1, <2>4, <3>1
    <3>3. i - Len(c.variables) \in 1..Len(vs)
      BY <2>1, <3>1, <3>2
    <3>4. ~(i <= Len(c.variables))
      BY <2>1, <3>1, <3>2
    <3> QED
      BY <2>2, <3>1, <3>3, <3>4
  <2>5. ASSUME NEW i \in 1..Len(c.variables)
        PROVE  d.variables[i] = c.variables[i]
    BY <2>1, <2>2, <2>5
  <2> QED
    BY <2>1, <2>2, <2>3, <2>4, <2>5
<1>7. Extends(d, c)
  BY <1>1, <1>6 DEF Extends
<1>8. ContentSound(d)
  <2> SUFFICES ASSUME NEW i \in DOMAIN d.variables
               PROVE  /\ d.variables[i].mesh \in ToSet(MeshNamesOf(d))
                      /\ d.variables[i].order # "static" => d.variables[i].written <= Len(d.times)
    BY <1>1 DEF ContentSound
  <2>1. CASE i \in 1..Len(c.variables)
    <3>1. /\ c.variables[i].mesh \in ToSet(MeshNamesOf(c))
          /\ c.variables[i].order # "static" => c.variables[i].written <= Len(c.times)
      BY <1>6, <2>1 DEF ContentSound
    <3>2. Len(c.times) <= Len(ts)
      <4>1. c.times = <<>> \/ ts = c.times
        OBVIOUS
      <4>2. Len(ts) \in Nat /\ Len(<<>>) = 0
        OBVIOUS
      <4>3. CASE c.times = <<>>
        <5>1. Len(c.times) = 0
          BY <4>3
        <5> QED
          BY <4>2, <5>1
      <4>4. CASE ts = c.times
        BY <4>2, <4>4
      <4> QED
        BY <4>1, <4>3, <4>4
    <3>3. c.variables[i].written \in Nat /\ Len(c.times) \in Nat /\ Len(ts) \in Nat
      <4>1. c.variables[i] \in Variable
        BY <1>2, <2>1
      <4> QED
        BY <1>2, <4>1, LenProperties DEF Variable
    <3>4. d.variables[i] = c.variables[i]
      BY <1>6, <2>1
    <3>5. c.variables[i].order # "static" => c.variables[i].written <= Len(ts)
      BY <3>1, <3>2, <3>3
    <3> QED
      BY <1>1, <1>5, <3>1, <3>4, <3>5
  <2>2. CASE i \notin 1..Len(c.variables)
    BY <1>1, <1>5, <1>6, <2>2
  <2> QED
    BY <2>1, <2>2
<1> QED
  BY <1>4, <1>7, <1>8

(* What a close writes, whether it ends well or not.                       *)
LEMMA WrittenSound ==
    ASSUME NEW c \in Content, ContentSound(c), NEW g \in Groups,
           NEW t \in Topology, t.name \in ToSet(MeshNamesOf(c)),
           NEW n \in {0, Len(g.times)}, n = 0 \/ TimesFit(c, g)
    PROVE  /\ Written(c, t, g, n) \in Content /\ ContentSound(Written(c, t, g, n))
           /\ Extends(Written(c, t, g, n), c)
<1> DEFINE vs == [i \in DOMAIN PartsOf(g) |-> NewVariable(g, t, PartsOf(g)[i], n)]
           ts == IF NeedsTime(c) /\ n > 0 THEN g.times ELSE c.times
<1>1. /\ g.name \in Names /\ g.place \in Places /\ g.times \in Seq(Nat)
      /\ Len(g.times) \in Nat /\ t.name \in MeshNames
  <2>1. g \in Group
    BY UgridAssumption
  <2> QED
    BY <2>1, LenProperties DEF Group, Places, Topology
<1>2. c.times \in Seq(Nat) /\ Len(c.times) \in Nat
  BY LenProperties DEF Content
<1>3. vs \in Seq(Variable) /\ \A i \in DOMAIN vs : vs[i].mesh = t.name /\ vs[i].written = n
  <2>1. \A part \in Parts : /\ NewVariable(g, t, part, n) \in Variable
                            /\ NewVariable(g, t, part, n).mesh = t.name
                            /\ NewVariable(g, t, part, n).written = n
    BY <1>1, UgridAssumption DEF NewVariable, Variable
  <2>2. PartsOf(g) \in Seq(Parts)
    <3>1. "s" \in Parts /\ "x" \in Parts /\ "y" \in Parts
      BY DEF Parts
    <3>2. <<"x", "y">> \in Seq(Parts) /\ <<"s">> \in Seq(Parts)
      BY <3>1
    <3> QED
      BY <3>2 DEF PartsOf
  <2>3. \A i \in DOMAIN PartsOf(g) : PartsOf(g)[i] \in Parts
    BY <2>2, LenProperties, ElementOfSeq
  <2>4. DOMAIN PartsOf(g) = 1..Len(PartsOf(g)) /\ Len(PartsOf(g)) \in Nat
    BY <2>2, LenProperties
  <2>5. \A i \in DOMAIN vs : vs[i] = NewVariable(g, t, PartsOf(g)[i], n)
    OBVIOUS
  <2>6. \A i \in DOMAIN PartsOf(g) : NewVariable(g, t, PartsOf(g)[i], n) \in Variable
    BY <2>1, <2>3
  <2>7. vs \in Seq(Variable)
    <3>1. vs = [i \in 1..Len(PartsOf(g)) |-> NewVariable(g, t, PartsOf(g)[i], n)]
      BY <2>4
    <3> QED
      BY <2>4, <2>6, <3>1
  <2> HIDE DEF vs
  <2>8. DOMAIN vs = DOMAIN PartsOf(g)
    BY DEF vs
  <2> QED
    BY <2>1, <2>3, <2>5, <2>7, <2>8
<1>4. n <= Len(ts)
  <2>1. CASE n = 0
    BY <1>1, <1>2, <2>1, LenProperties
  <2>2. CASE n # 0 /\ NeedsTime(c)
    <3>1. ts = g.times
      BY <1>1, <2>2
    <3> QED
      BY <1>1, <2>2, <3>1
  <2>3. CASE n # 0 /\ ~NeedsTime(c)
    <3>1. ts = c.times /\ n = Len(g.times) /\ c.times # <<>>
      BY <2>3 DEF NeedsTime
    <3>2. Len(g.times) = 1 \/ g.times = c.times
      BY <2>3 DEF TimesFit
    <3>3. Len(c.times) >= 1
      BY <1>2, <3>1
    <3> QED
      BY <1>1, <1>2, <3>1, <3>2, <3>3
  <2> QED
    BY <2>1, <2>2, <2>3
<1>5. ts \in Seq(Nat) /\ (c.times # <<>> => ts = c.times)
  BY <1>1, <1>2 DEF NeedsTime
<1>6. Written(c, t, g, n) = [WithTime(c) EXCEPT !.variables = @ \o vs, !.times = ts]
  BY DEF Written, WithTime, Content
<1> HIDE DEF vs, ts
<1>7. \A i \in DOMAIN vs : vs[i].mesh \in ToSet(MeshNamesOf(c)) /\ vs[i].written <= Len(ts)
  BY <1>3, <1>4
<1> QED
  BY <1>3, <1>5, <1>6, <1>7, AddedSound

LEMMA FailedWriteSound ==
    ASSUME NEW c \in Content, ContentSound(c), NEW g \in Groups,
           NEW name \in MeshNames \cup {Unnamed}
    PROVE  /\ FailedWrite(c, name, g) \in Content /\ ContentSound(FailedWrite(c, name, g))
           /\ Extends(FailedWrite(c, name, g), c)
<1> DEFINE t == Selected(c, name)
           d == FailedWrite(c, name, g)
           x == [WithTime(c) EXCEPT !.variables = Append(@, NewVariable(g, t, "x", 0))]
<1>1. \/ d = c \/ d = WithTime(c)
      \/ Selectable(c, name) /\ d = x
      \/ Selectable(c, name) /\ d = Written(c, t, g, 0)
  BY DEF FailedWrite
<1>2. CASE d = c
  BY <1>2, ExtendsItself
<1>3. CASE d = WithTime(c)
  BY <1>3, WithTimeSound
<1>4. CASE Selectable(c, name) /\ d = x
  <2> DEFINE v == NewVariable(g, t, "x", 0)
  <2>1. t.name \in ToSet(MeshNamesOf(c)) /\ t \in Topology
    BY <1>4, SelectedThere
  <2>2. v \in Variable /\ v.mesh = t.name /\ v.written = 0
    <3>1. g \in Group
      BY UgridAssumption
    <3> QED
      BY <2>1, <3>1, UgridAssumption DEF NewVariable, Variable, Group, Places, Parts, Topology
  <2>3. c.variables \in Seq(Variable) /\ c.times \in Seq(Nat) /\ Len(c.times) \in Nat
    BY LenProperties DEF Content
  <2>4. x = [WithTime(c) EXCEPT !.variables = @ \o <<v>>, !.times = c.times]
    <3>1. Append(c.variables, v) = c.variables \o <<v>>
      BY <2>2, <2>3, AppendIsConcat
    <3>2. c.times = WithTime(c).times /\ c.variables = WithTime(c).variables
      BY DEF WithTime, Content
    <3> QED
      BY <3>1, <3>2 DEF WithTime, Content
  <2> HIDE DEF v, x
  <2>5. <<v>> \in Seq(Variable) /\ DOMAIN <<v>> = {1} /\ <<v>>[1] = v
    BY <2>2
  <2>6. \A i \in DOMAIN <<v>> : /\ <<v>>[i].mesh \in ToSet(MeshNamesOf(c))
                                /\ <<v>>[i].written <= Len(c.times)
    BY <2>1, <2>2, <2>3, <2>5
  <2>7. x \in Content /\ ContentSound(x) /\ Extends(x, c)
    BY <2>3, <2>4, <2>5, <2>6, AddedSound
  <2> QED
    BY <1>4, <2>7
<1>5. CASE Selectable(c, name) /\ d = Written(c, t, g, 0)
  <2>1. t.name \in ToSet(MeshNamesOf(c)) /\ t \in Topology
    BY <1>5, SelectedThere
  <2> QED
    BY <1>5, <2>1, WrittenSound
<1> QED
  BY <1>1, <1>2, <1>3, <1>4, <1>5

-----------------------------------------------------------------------------
LEMMA ClosedSound ==
    ASSUME NEW r \in MeshNames \cup {Unnamed}
    PROVE  /\ Closed(r) \in Driver /\ Closed(r).others = NoFile
           /\ ~Closed(r).open /\ ~Closed(r).beneath /\ Closed(r).wrote = {}
<1>1. (CHOOSE f \in Files : TRUE) \in Files
  BY UgridAssumption
<1> QED
  BY <1>1, EmptySound DEF Closed, Driver

(* When the driver closes its file, whatever is in that file is sound, and *)
(* is still the mesh that was saved unless nobody can tell.                *)
LEMMA DriverClosesSound ==
    ASSUME UgridInv, NEW files \in DriverCloses(disk)
    PROVE  /\ files \in [Files -> Content] /\ Meshes(saved) \in [Files -> MeshRecord]
           /\ \A f \in Files : /\ ContentSound(files[f])
                               /\ files[f] = disk[f] \/ files[f] = Damaged
                               /\ Meshes(saved)[f].open => SavedAs(Meshes(saved)[f], files[f])
           /\ Kept \in [Files -> SUBSET PromiseRecord]
<1>1. driver.file \in Files /\ driver.wrote \subseteq PromiseRecord
  BY DEF UgridInv, DriverSound, Driver
<1>2. NoMesh \in MeshRecord /\ ~NoMesh.open
  BY DEF NoMesh, MeshRecord
<1>3. Kept \in [Files -> SUBSET PromiseRecord]
  BY <1>1 DEF Kept, UgridInv
<1>4. CASE driver.open /\ driver.beneath
  <2>1. files = disk \/ files = [disk EXCEPT ![driver.file] = Damaged]
    BY <1>4 DEF DriverCloses
  <2>2. Meshes(saved) = [saved EXCEPT ![driver.file] = NoMesh]
    BY <1>4 DEF Meshes
  <2>3. files \in [Files -> Content] /\ Meshes(saved) \in [Files -> MeshRecord]
    BY <1>2, <2>1, <2>2, EmptySound DEF UgridInv, FilesSound
  <2>4. ASSUME NEW f \in Files
        PROVE  /\ ContentSound(files[f])
               /\ files[f] = disk[f] \/ files[f] = Damaged
               /\ Meshes(saved)[f].open => SavedAs(Meshes(saved)[f], files[f])
    <3>1. CASE f = driver.file
      BY <1>2, <2>1, <2>2, <3>1, EmptySound DEF UgridInv, FilesSound
    <3>2. CASE f # driver.file
      <4>1. files[f] = disk[f] /\ Meshes(saved)[f] = saved[f]
        BY <2>1, <2>2, <3>2 DEF UgridInv, FilesSound
      <4> QED
        BY <4>1 DEF UgridInv, FilesSound
    <3> QED
      BY <3>1, <3>2
  <2> QED
    BY <1>3, <2>3, <2>4
<1>5. CASE ~(driver.open /\ driver.beneath)
  <2>1. files = disk /\ Meshes(saved) = saved
    BY <1>5 DEF DriverCloses, Meshes
  <2> QED
    BY <1>3, <2>1 DEF UgridInv, FilesSound
<1> QED
  BY <1>4, <1>5

LEMMA LoadOfTyped ==
    ASSUME UgridInv, NEW c \in Content, NEW r \in MeshNames \cup {Unnamed}, LoadOf(c, r)
    PROVE  mesh' \in MeshRecord /\ status' \in UgridStatuses
<1>1. CASE Loads(c, r)
  <2>1. Selected(c, r) \in Topology
    BY <1>1, SelectedThere DEF Loads
  <2>2. mesh' = LoadedMesh(Selected(c, r))
    BY <1>1 DEF LoadOf
  <2>3. status' \in UgridStatuses
    BY <1>1 DEF LoadOf, UgridStatuses
  <2> QED
    BY <2>1, <2>2, <2>3, LoadedMeshTyped
<1>2. CASE ~Loads(c, r)
  BY <1>2 DEF LoadOf, UgridInv, UgridStatuses
<1> QED
  BY <1>1, <1>2

(* A close leaves one file extended, which the driver has open from then   *)
(* on; what others see of it meanwhile are the same meshes.                *)
LEMMA WriteGroupSound ==
    ASSUME NEW files, NEW f \in Files, NEW c \in Content, ContentSound(c),
           NEW name \in MeshNames \cup {Unnamed}, NEW g \in Groups,
           WriteGroup(files, f, c, name, g)
    PROVE  /\ \E d \in Content : /\ ContentSound(d) /\ Extends(d, c)
                                 /\ disk' = [files EXCEPT ![f] = d]
           /\ driver' \in Driver /\ ContentSound(driver'.others)
           /\ driver'.open /\ ~driver'.beneath /\ driver'.file = f
           /\ driver'.others.meshes = c.meshes
           /\ status' \in UgridStatuses
<1>1. \A o \in Content, w \in SUBSET PromiseRecord :
         /\ Opened(f, name, o, w) \in Driver /\ Opened(f, name, o, w).others = o
         /\ Opened(f, name, o, w).open /\ ~Opened(f, name, o, w).beneath
         /\ Opened(f, name, o, w).file = f
  BY DEF Opened, Driver
<1>2. CASE Writes(c, name, g)
  <2> DEFINE t == Selected(c, name)
  <2>1. t \in Topology /\ t.name \in ToSet(MeshNamesOf(c))
    BY <1>2, SelectedThere DEF Writes
  <2>2. TimesFit(c, g)
    BY <1>2 DEF Writes
  <2>3. /\ disk' = [files EXCEPT ![f] = Written(c, t, g, Len(g.times))]
        /\ driver' = Opened(f, name, Written(c, t, g, 0), {Promise(g, t)})
        /\ status' = "None"
    BY <1>2 DEF WriteGroup
  <2>4. Promise(g, t) \in PromiseRecord
    <3>1. g \in Group
      BY UgridAssumption
    <3> QED
      BY <2>1, <3>1 DEF Promise, PromiseRecord, Group, Topology
  <2> HIDE DEF t
  <2>5. /\ Written(c, t, g, Len(g.times)) \in Content
        /\ ContentSound(Written(c, t, g, Len(g.times)))
        /\ Extends(Written(c, t, g, Len(g.times)), c)
    BY <2>1, <2>2, WrittenSound
  <2>6. /\ Written(c, t, g, 0) \in Content /\ ContentSound(Written(c, t, g, 0))
        /\ Extends(Written(c, t, g, 0), c)
    BY <2>1, WrittenSound
  <2>7. {Promise(g, t)} \in SUBSET PromiseRecord
    BY <2>4
  <2> QED
    BY <1>1, <2>3, <2>5, <2>6, <2>7 DEF UgridStatuses, Extends
<1>3. CASE ~Writes(c, name, g)
  <2>1. /\ disk' = [files EXCEPT ![f] = FailedWrite(c, name, g)]
        /\ driver' = Opened(f, name, c, {})
        /\ status' = "Err_InvalidData"
    BY <1>3 DEF WriteGroup
  <2>2. {} \in SUBSET PromiseRecord
    OBVIOUS
  <2> QED
    BY <1>1, <2>1, <2>2, FailedWriteSound DEF UgridStatuses
<1> QED
  BY <1>2, <1>3

-----------------------------------------------------------------------------
LEMMA AskedTyped ==
    ASSUME NEW name \in Asked
    PROVE  name \in MeshNames \cup {Unnamed} /\ SavedName(name) \in MeshNames
BY UgridAssumption DEF SavedName

LEMMA UgridInvInit == UgridInit => UgridInv
<1> SUFFICES ASSUME UgridInit PROVE UgridInv
  OBVIOUS
<1>1. NoMesh \in MeshRecord /\ ~NoMesh.open
  BY DEF NoMesh, MeshRecord
<1>2. \A f \in Files : disk[f] \in Content /\ ContentSound(disk[f])
  BY UgridAssumption, EmptySound DEF UgridInit
<1>3. disk \in [Files -> Content]
  BY <1>2 DEF UgridInit
<1>4. FilesSound
  BY <1>1, <1>2, <1>3 DEF UgridInit, FilesSound
<1>5. DriverSound
  BY ClosedSound, EmptySound DEF UgridInit, DriverSound
<1> QED
  BY <1>1, <1>4, <1>5 DEF UgridInit, UgridInv, UgridStatuses

(* A call that touches neither the files nor the driver.                   *)
LEMMA StoreUntouched ==
    ASSUME UgridInv, UNCHANGED <<disk, driver, saved, promised>>,
           mesh' \in MeshRecord, status' \in UgridStatuses
    PROVE  UgridInv'
BY DEF UgridInv, FilesSound, DriverSound

(* One that makes the driver close its file and does no more.              *)
LEMMA DriverClosed ==
    ASSUME UgridInv, NEW files \in DriverCloses(disk), disk' = files,
           driver' = Closed(driver.requested), promised' = Kept, saved' = Meshes(saved),
           mesh' \in MeshRecord, status' \in UgridStatuses
    PROVE  UgridInv'
<1>1. FilesSound'
  BY DriverClosesSound DEF FilesSound
<1>2. driver.requested \in MeshNames \cup {Unnamed}
  BY DEF UgridInv, DriverSound, Driver
<1>3. DriverSound'
  BY <1>2, ClosedSound, EmptySound DEF DriverSound
<1> QED
  BY <1>1, <1>3, DriverClosesSound DEF UgridInv

(* One that writes a group: f holds c before, which is saved' or what it   *)
(* was.                                                                    *)
LEMMA GroupWritten ==
    ASSUME UgridInv, NEW files \in DriverCloses(disk), NEW f \in Files,
           NEW c \in Content, ContentSound(c),
           NEW name \in MeshNames \cup {Unnamed}, NEW g \in Groups,
           WriteGroup(files, f, c, name, g), promised' = Kept, UNCHANGED mesh,
           saved' \in [Files -> MeshRecord],
           \A e \in Files : e # f => saved'[e] = Meshes(saved)[e],
           saved'[f].open => SavedAs(saved'[f], c)
    PROVE  UgridInv'
<1>1. PICK d \in Content : ContentSound(d) /\ Extends(d, c) /\ disk' = [files EXCEPT ![f] = d]
  BY WriteGroupSound
<1>2. /\ driver' \in Driver /\ ContentSound(driver'.others)
      /\ driver'.open /\ ~driver'.beneath /\ driver'.file = f
      /\ driver'.others.meshes = c.meshes
      /\ status' \in UgridStatuses
  BY WriteGroupSound
<1>3. files \in [Files -> Content]
  BY DriverClosesSound
<1>4. disk' \in [Files -> Content] /\ disk'[f] = d
  BY <1>1, <1>3
<1>5. ASSUME NEW e \in Files
      PROVE  ContentSound(disk'[e]) /\ (saved'[e].open => SavedAs(saved'[e], disk'[e]))
  <2>1. CASE e = f
    <3>1. d.meshes = c.meshes
      BY <1>1 DEF Extends
    <3> QED
      BY <1>1, <1>4, <2>1, <3>1 DEF SavedAs
  <2>2. CASE e # f
    <3>1. disk'[e] = files[e] /\ saved'[e] = Meshes(saved)[e]
      BY <1>1, <1>3, <2>2
    <3> QED
      BY <3>1, DriverClosesSound
  <2> QED
    BY <2>1, <2>2
<1>6. FilesSound'
  BY <1>4, <1>5 DEF FilesSound
<1>7. DriverSound'
  BY <1>1, <1>2, <1>4 DEF DriverSound, Extends
<1> QED
  BY <1>2, <1>6, <1>7, DriverClosesSound DEF UgridInv

LEMMA LoadsKeep ==
    ASSUME UgridInv, NEW f \in Files, NEW name \in Asked
    PROVE  LoadMesh(f, name) \/ LoadMeshByDriver(f, name) => UgridInv'
<1>1. name \in MeshNames \cup {Unnamed}
  BY AskedTyped
<1>2. CASE LoadMesh(f, name)
  <2>1. PICK files \in DriverCloses(disk) :
            /\ disk' = files
            /\ IF CanReadMesh(files[f])
               THEN LoadOf(files[f], name)
               ELSE status' = "Err_UnknownFormat" /\ UNCHANGED mesh
    BY <1>2 DEF LoadMesh
  <2>2. files[f] \in Content
    BY DriverClosesSound
  <2>3. mesh' \in MeshRecord /\ status' \in UgridStatuses
    <3>1. CASE CanReadMesh(files[f])
      BY <1>1, <2>1, <2>2, <3>1, LoadOfTyped
    <3>2. CASE ~CanReadMesh(files[f])
      BY <2>1, <3>2 DEF UgridInv, UgridStatuses
    <3> QED
      BY <3>1, <3>2
  <2>4. driver' = Closed(driver.requested) /\ promised' = Kept /\ saved' = Meshes(saved)
    BY <1>2 DEF LoadMesh
  <2> QED
    BY <2>1, <2>3, <2>4, DriverClosed
<1>3. CASE LoadMeshByDriver(f, name)
  <2>1. PICK c \in {disk[f], driver.others} : LoadOf(c, name)
    BY <1>3 DEF LoadMeshByDriver
  <2>2. c \in Content
    BY <2>1 DEF UgridInv, FilesSound, DriverSound, Driver
  <2>3. UNCHANGED <<disk, driver, saved, promised>>
    BY <1>3 DEF LoadMeshByDriver
  <2> QED
    BY <1>1, <2>1, <2>2, <2>3, LoadOfTyped, StoreUntouched
<1> QED
  BY <1>2, <1>3

LEMMA SaveMeshKeeps ==
    ASSUME UgridInv, NEW f \in Files, NEW name \in Asked, SaveMesh(f, name)
    PROVE  UgridInv'
<1> DEFINE c == SavedMesh(mesh, SavedName(name))
<1>1. mesh \in MeshRecord
  BY DEF UgridInv
<1>2. c \in Content /\ ContentSound(c) /\ SavedAs(mesh, c)
  BY <1>1, AskedTyped, SavedMeshSound
<1>3. /\ disk' = [disk EXCEPT ![f] = c] /\ saved' = [saved EXCEPT ![f] = mesh]
      /\ promised' = [promised EXCEPT ![f] = {}]
      /\ driver' = IF driver.open /\ driver.file = f THEN [driver EXCEPT !.beneath = TRUE] ELSE driver
      /\ mesh' = mesh /\ status' = "None"
  BY DEF SaveMesh
<1> HIDE DEF c
<1>4. FilesSound'
  BY <1>1, <1>2, <1>3 DEF UgridInv, FilesSound
<1>5. DriverSound'
  <2>1. CASE driver.open /\ driver.file = f
    <3>1. driver' = [driver EXCEPT !.beneath = TRUE]
      BY <1>3, <2>1
    <3> QED
      BY <2>1, <3>1 DEF UgridInv, DriverSound, Driver
  <2>2. CASE ~(driver.open /\ driver.file = f)
    <3>1. driver' = driver /\ (driver.open => disk'[driver.file] = disk[driver.file])
      BY <1>3, <2>2 DEF UgridInv, FilesSound, DriverSound, Driver
    <3> QED
      BY <3>1 DEF UgridInv, DriverSound
  <2> QED
    BY <2>1, <2>2
<1>6. promised' \in [Files -> SUBSET PromiseRecord]
  BY <1>3 DEF UgridInv
<1> QED
  BY <1>1, <1>3, <1>4, <1>5, <1>6 DEF UgridInv, UgridStatuses

LEMMA CloseKeeps ==
    ASSUME UgridInv, NEW f \in Files, NEW name \in Asked, NEW g \in Groups
    PROVE  CloseEditMode(f, name, g) \/ CloseEditModeAsNew(f, name, g) => UgridInv'
<1>1. CASE CloseEditMode(f, name, g)
  <2>1. PICK files \in DriverCloses(disk) : WriteGroup(files, f, files[f], name, g)
    BY <1>1 DEF CloseEditMode
  <2>2. promised' = Kept /\ saved' = Meshes(saved) /\ UNCHANGED mesh
    BY <1>1 DEF CloseEditMode
  <2>3. files[f] \in Content /\ ContentSound(files[f])
    BY DriverClosesSound
  <2>4. /\ Meshes(saved) \in [Files -> MeshRecord]
        /\ Meshes(saved)[f].open => SavedAs(Meshes(saved)[f], files[f])
    BY DriverClosesSound
  <2> QED
    BY <2>1, <2>2, <2>3, <2>4, AskedTyped, GroupWritten
<1>2. CASE CloseEditModeAsNew(f, name, g)
  <2> DEFINE new == IF name = Unnamed THEN DefaultName ELSE Unspaced[name]
             c   == SavedMesh(mesh, new)
  <2>1. PICK files \in DriverCloses(disk) : WriteGroup(files, f, c, new, g)
    BY <1>2 DEF CloseEditModeAsNew
  <2>2. promised' = Kept /\ saved' = [Meshes(saved) EXCEPT ![f] = mesh] /\ UNCHANGED mesh
    BY <1>2 DEF CloseEditModeAsNew
  <2>3. new \in MeshNames
    BY UgridAssumption
  <2>4. mesh \in MeshRecord
    BY DEF UgridInv
  <2>5. c \in Content /\ ContentSound(c) /\ SavedAs(mesh, c)
    BY <2>3, <2>4, SavedMeshSound
  <2>6. Meshes(saved) \in [Files -> MeshRecord]
    BY DriverClosesSound
  <2> HIDE DEF new, c
  <2>7. /\ saved' \in [Files -> MeshRecord] /\ saved'[f] = mesh
        /\ \A e \in Files : e # f => saved'[e] = Meshes(saved)[e]
    BY <2>2, <2>4, <2>6
  <2> QED
    BY <2>1, <2>2, <2>3, <2>5, <2>7, GroupWritten
<1> QED
  BY <1>1, <1>2

LEMMA CloseFailsKeeps ==
    ASSUME UgridInv, NEW f \in Files, CloseEditModeFails(f)
    PROVE  UgridInv'
<1>1. /\ disk' \in DriverCloses(disk) /\ driver' = Closed(driver.requested)
      /\ promised' = Kept /\ saved' = Meshes(saved)
      /\ mesh' = mesh /\ status' = "Err_InvalidData"
  BY DEF CloseEditModeFails
<1>2. mesh' \in MeshRecord /\ status' \in UgridStatuses
  BY <1>1 DEF UgridInv, UgridStatuses
<1> QED
  BY <1>1, <1>2, DriverClosed

LEMMA KilledKeeps ==
    ASSUME UgridInv, Killed
    PROVE  UgridInv'
<1>1. /\ driver' = Closed(Unnamed) /\ mesh' = NoMesh /\ status' = "None"
      /\ saved' = saved /\ promised' = promised
  BY DEF Killed
<1>2. NoMesh \in MeshRecord
  BY DEF NoMesh, MeshRecord
<1>3. DriverSound'
  BY <1>1, ClosedSound, EmptySound DEF DriverSound
<1>4. ASSUME disk' = disk PROVE FilesSound'
  BY <1>1, <1>4 DEF UgridInv, FilesSound
<1>5. ASSUME disk' # disk PROVE FilesSound'
  <2>1. /\ driver.open /\ ~driver.beneath
        /\ disk' = [disk EXCEPT ![driver.file] = driver.others]
    BY <1>5 DEF Killed
  <2>2. /\ driver.file \in Files /\ driver.others \in Content /\ ContentSound(driver.others)
        /\ driver.others.meshes = disk[driver.file].meshes
    BY <2>1 DEF UgridInv, DriverSound, Driver
  <2>3. disk' \in [Files -> Content]
    BY <2>1, <2>2 DEF UgridInv, FilesSound
  <2>4. ASSUME NEW f \in Files
        PROVE  ContentSound(disk'[f]) /\ disk'[f].meshes = disk[f].meshes
    <3>1. CASE f = driver.file
      BY <2>1, <2>2, <3>1 DEF UgridInv, FilesSound
    <3>2. CASE f # driver.file
      BY <2>1, <3>2 DEF UgridInv, FilesSound
    <3> QED
      BY <3>1, <3>2
  <2> QED
    BY <1>1, <2>3, <2>4 DEF UgridInv, FilesSound, SavedAs
<1>6. FilesSound'
  BY <1>4, <1>5
<1> QED
  BY <1>1, <1>2, <1>3, <1>6 DEF UgridInv, UgridStatuses

LEMMA UgridInvNext == UgridInv /\ [UgridNext]_vars => UgridInv'
<1> SUFFICES ASSUME UgridInv, [UgridNext]_vars PROVE UgridInv'
  OBVIOUS
<1>1. ASSUME NEW m \in MeshChoices, CreateMesh(m) PROVE UgridInv'
  <2>1. MemoryMesh(m) \in MeshRecord
    <3>1. m \in MeshChoice
      BY UgridAssumption
    <3> QED
      BY <3>1 DEF MemoryMesh, NoMesh, MeshRecord, MeshChoice
  <2> QED
    BY <1>1, <2>1, StoreUntouched DEF CreateMesh, UgridStatuses
<1>2. CASE CloseMesh
  <2>1. NoMesh \in MeshRecord
    BY DEF NoMesh, MeshRecord
  <2> QED
    BY <1>2, <2>1, StoreUntouched DEF CloseMesh, UgridInv
<1>3. ASSUME NEW f \in Files, NEW name \in Asked,
             LoadMesh(f, name) \/ LoadMeshByDriver(f, name)
      PROVE  UgridInv'
  BY <1>3, LoadsKeep
<1>4. ASSUME NEW f \in Files, NEW name \in Asked, SaveMesh(f, name)
      PROVE  UgridInv'
  BY <1>4, SaveMeshKeeps
<1>5. ASSUME NEW f \in Files, LoadMeshMissing(f) PROVE UgridInv'
  BY <1>5, StoreUntouched DEF LoadMeshMissing, UgridStatuses, UgridInv
<1>6. CASE SaveMeshNotCreated
  BY <1>6, StoreUntouched DEF SaveMeshNotCreated, UgridStatuses, UgridInv
<1>7. ASSUME NEW f \in Files, NEW name \in Asked, NEW g \in Groups,
             CloseEditMode(f, name, g) \/ CloseEditModeAsNew(f, name, g)
      PROVE  UgridInv'
  BY <1>7, CloseKeeps
<1>8. ASSUME NEW f \in Files, CloseEditModeFails(f) PROVE UgridInv'
  BY <1>8, CloseFailsKeeps
<1>9. CASE Killed
  BY <1>9, KilledKeeps
<1>10. CASE UNCHANGED vars
  BY <1>10 DEF vars, UgridInv, FilesSound, DriverSound
<1> QED
  BY <1>1, <1>2, <1>3, <1>4, <1>5, <1>6, <1>7, <1>8, <1>9, <1>10 DEF UgridNext

-----------------------------------------------------------------------------
(* The inductive invariant: the types, that files are sound as the driver  *)
(* and others see them, and that a file keeps the mesh it was saved with.  *)
THEOREM UgridInvHolds == UgridSpec => []UgridInv
BY UgridInvInit, UgridInvNext, PTL DEF UgridSpec

(* Types, and soundness of files: no variable of a mesh that is not there  *)
(* and none with more time steps than the file (writeDatasetGroup, also    *)
(* where it fails halfway).                                                *)
THEOREM UgridTypeCorrect == UgridSpec => []UgridTypeOK
<1>1. UgridInv => UgridTypeOK
  BY DEF UgridInv, FilesSound, DriverSound, Driver, UgridTypeOK
<1> QED
  BY <1>1, UgridInvHolds, PTL

(* What MDAL_SaveMesh wrote is what a load finds, whatever groups were     *)
(* added since or failed to be added, and whenever the process was killed. *)
THEOREM SavedMeshesReload == UgridSpec => []UgridMeshReloads
<1>1. UgridInv => UgridMeshReloads
  <2> SUFFICES ASSUME UgridInv, NEW f \in Files, saved[f].open, ~saved[f].atFill,
                      ~Spaced(MeshNamesOf(disk[f])[1])
               PROVE  LET t == Selected(disk[f], Unnamed)
                      IN  /\ Selectable(disk[f], Unnamed)
                          /\ LoadedMesh(t).vertices = saved[f].vertices
                          /\ LoadedMesh(t).faces = saved[f].faces
    BY DEF UgridMeshReloads
  <2>1. saved[f] \in MeshRecord /\ disk[f] \in Content /\ SavedAs(saved[f], disk[f])
    BY DEF UgridInv, FilesSound
  <2> QED
    BY <2>1, SavedMeshRead
<1> QED
  BY <1>1, UgridInvHolds, PTL

(* A file is only added to: its meshes, its variables with their values    *)
(* and its times stay - unless a mesh is saved as the file, the process is *)
(* killed or the driver closes a file that was made anew beneath it.       *)
FilesOnlyGrow ==
    [][\A f \in Files :
          \/ disk[f] = NoFile \/ disk'[f] = Damaged
          \/ Extends(disk'[f], disk[f])
          \/ Killed \/ \E name \in Asked : SaveMesh(f, name)]_vars

LEMMA StepExtends ==
    ASSUME UgridInv, UgridNext, NEW f \in Files
    PROVE  \/ disk[f] = NoFile \/ disk'[f] = Damaged
           \/ Extends(disk'[f], disk[f])
           \/ Killed \/ \E name \in Asked : SaveMesh(f, name)
<1>1. disk \in [Files -> Content] /\ disk[f] \in Content
  BY DEF UgridInv, FilesSound
<1>2. Extends(disk[f], disk[f])
  BY <1>1, ExtendsItself
<1>3. CASE disk'[f] = disk[f]
  BY <1>2, <1>3
<1>4. \A files \in DriverCloses(disk) : files[f] = disk[f] \/ files[f] = Damaged
  BY DriverClosesSound
<1>5. CASE disk' \in DriverCloses(disk)
  BY <1>2, <1>4, <1>5
<1>6. ASSUME NEW e \in Files, NEW name \in Asked, SaveMesh(e, name)
      PROVE  e = f \/ disk'[f] = disk[f]
  BY <1>1, <1>6 DEF SaveMesh
<1>7. ASSUME NEW e \in Files, NEW name \in Asked, NEW g \in Groups,
             CloseEditMode(e, name, g)
      PROVE  disk'[f] = Damaged \/ Extends(disk'[f], disk[f])
  <2>1. PICK files \in DriverCloses(disk) : WriteGroup(files, e, files[e], name, g)
    BY <1>7 DEF CloseEditMode
  <2>2. files \in [Files -> Content] /\ ContentSound(files[e])
    BY DriverClosesSound
  <2>3. PICK d \in Content : Extends(d, files[e]) /\ disk' = [files EXCEPT ![e] = d]
    BY <2>1, <2>2, AskedTyped, WriteGroupSound
  <2>4. CASE e # f
    <3>1. disk'[f] = files[f]
      BY <2>2, <2>3, <2>4
    <3> QED
      BY <1>2, <1>4, <3>1
  (* Nothing can be selected in a damaged file, which is left as it is.   *)
  <2>5. CASE e = f
    <3>1. disk'[f] = d
      BY <2>2, <2>3, <2>5
    <3>2. CASE files[f] = disk[f]
      BY <2>3, <2>5, <3>1, <3>2
    <3>3. CASE files[f] = Damaged
      <4>1. ~Selectable(Damaged, name)
        BY DEF Selectable, MeshFound, Damaged, NoFile
      <4>2. FailedWrite(Damaged, name, g) = Damaged /\ ~Writes(Damaged, name, g)
        BY <4>1 DEF FailedWrite, Writes
      <4>3. disk' = [files EXCEPT ![e] = Damaged]
        BY <2>1, <2>5, <3>3, <4>2 DEF WriteGroup
      <4> QED
        BY <2>2, <2>5, <4>3
    <3> QED
      BY <1>4, <3>2, <3>3
  <2> QED
    BY <2>4, <2>5
<1>8. ASSUME NEW e \in Files, NEW name \in Asked, NEW g \in Groups,
             CloseEditModeAsNew(e, name, g)
      PROVE  disk[f] = NoFile \/ disk'[f] = disk[f] \/ disk'[f] = Damaged
  <2> DEFINE new == IF name = Unnamed THEN DefaultName ELSE Unspaced[name]
  <2>1. PICK files \in DriverCloses(disk) : WriteGroup(files, e, SavedMesh(mesh, new), new, g)
    BY <1>8 DEF CloseEditModeAsNew
  <2>2. disk[e] = NoFile
    BY <1>8 DEF CloseEditModeAsNew
  <2> HIDE DEF new
  <2>3. files \in [Files -> Content]
    BY DriverClosesSound
  <2>4. \E d : disk' = [files EXCEPT ![e] = d]
    BY <2>1 DEF WriteGroup
  <2>5. e # f => disk'[f] = files[f]
    BY <2>3, <2>4
  <2> QED
    BY <1>4, <2>2, <2>5
<1>9. \/ disk'[f] = disk[f] \/ disk' \in DriverCloses(disk)
      \/ \E e \in Files, name \in Asked : SaveMesh(e, name)
      \/ \E e \in Files, name \in Asked, g \in Groups :
            CloseEditMode(e, name, g) \/ CloseEditModeAsNew(e, name, g)
      \/ Killed
  BY DEF UgridNext, CreateMesh, CloseMesh, LoadMesh, LoadMeshByDriver, LoadMeshMissing,
         SaveMeshNotCreated, CloseEditModeFails
<1> QED
  BY <1>3, <1>5, <1>6, <1>7, <1>8, <1>9

(* A close that fails halfway, one of a group whose times do not fit, a    *)
(* load that makes the driver close its file: none takes anything from a   *)
(* file that was there (writeDatasetGroup, openNcFile).                    *)
THEOREM UgridFilesGrow == UgridSpec => FilesOnlyGrow
<1>1. UgridInv /\ [UgridNext]_vars =>
        [\A f \in Files :
            \/ disk[f] = NoFile \/ disk'[f] = Damaged
            \/ Extends(disk'[f], disk[f])
            \/ Killed \/ \E name \in Asked : SaveMesh(f, name)]_vars
  BY StepExtends
<1> QED
  BY <1>1, UgridInvHolds, PTL DEF UgridSpec, FilesOnlyGrow

-----------------------------------------------------------------------------
(* The least and the greatest of some places of a sequence.                *)
LEMMA Least ==
    ASSUME NEW T \in SUBSET Nat, T # {}
    PROVE  \E n \in T : \A m \in T : n <= m
<1> DEFINE R == OpToRel(<, Nat)
<1>1. IsWellFoundedOn(R, Nat)
  BY NatLessThanWellFounded
<1> HIDE DEF R
<1>2. \E x \in T : \A y \in T : <<y, x>> \notin R
  BY <1>1, WFMin
<1>3. \A x, y \in Nat : <<y, x>> \notin R => x <= y
  BY DEF R, OpToRel
<1> QED
  BY <1>2, <1>3

LEMMA Greatest ==
    ASSUME NEW n \in Nat, NEW T \in SUBSET (1..n), T # {}
    PROVE  \E i \in T : \A j \in T : j <= i
<1> DEFINE R == {n - i : i \in T}
<1>1. R \in SUBSET Nat /\ R # {}
  <2>1. \A i \in T : n - i \in Nat
    OBVIOUS
  <2> QED
    BY <2>1
<1>2. PICK r \in R : \A s \in R : r <= s
  <2> HIDE DEF R
  <2> QED
    BY <1>1, Least
<1>3. PICK i \in T : r = n - i
  BY <1>2
<1>4. ASSUME NEW j \in T PROVE j <= i
  <2>1. n - j \in R /\ i \in 1..n /\ j \in 1..n
    OBVIOUS
  <2>2. n - i <= n - j
    BY <1>2, <1>3, <2>1
  <2> QED
    BY <2>1, <2>2
<1> QED
  BY <1>4

LEMMA FirstIn ==
    ASSUME NEW n \in Nat, NEW T \in SUBSET (1..n), T # {}
    PROVE  First(T) \in T /\ \A j \in T : First(T) <= j
<1>1. T \in SUBSET Nat
  OBVIOUS
<1>2. \E i \in T : \A j \in T : i <= j
  BY <1>1, Least
<1> QED
  BY <1>2 DEF First

LEMMA LastIn ==
    ASSUME NEW n \in Nat, NEW T \in SUBSET (1..n)
    PROVE  /\ T # {} => LastOr0(T) \in T
           /\ LastOr0(T) # 0 => T # {}
<1>1. T # {} => \E i \in T : \A j \in T : j <= i
  BY Greatest
<1> QED
  BY <1>1 DEF LastOr0

-----------------------------------------------------------------------------
(* The variables of a file and the groups they make.                       *)
LEMMA VariablesOf ==
    ASSUME NEW c \in Content
    PROVE  /\ Len(c.variables) \in Nat /\ DOMAIN c.variables = 1..Len(c.variables)
           /\ \A i \in DOMAIN c.variables : c.variables[i] \in Variable
<1>1. c.variables \in Seq(Variable)
  BY DEF Content
<1> QED
  BY <1>1

LEMMA NamedPlaces ==
    ASSUME NEW c \in Content, NEW t, NEW n
    PROVE  /\ Named(c, t, n) \in SUBSET (1..Len(c.variables))
           /\ \A part : Taking(c, Named(c, t, n), part) \in SUBSET Named(c, t, n)
           /\ Named(c, t, n) # {} => First(Named(c, t, n)) \in Named(c, t, n)
<1>1. Named(c, t, n) \in SUBSET (1..Len(c.variables)) /\ Len(c.variables) \in Nat
  BY VariablesOf DEF Named
<1>2. \A part : Taking(c, Named(c, t, n), part) \in SUBSET Named(c, t, n)
  BY DEF Taking
<1> QED
  BY <1>1, <1>2, FirstIn

LEMMA ComponentsOf ==
    ASSUME NEW c \in Content, NEW t, NEW n, Named(c, t, n) # {}
    PROVE  LET is == Named(c, t, n)
               g == Components(c, t, n)
           IN  /\ g.first = c.variables[First(is)]
               /\ g.x = LastOr0(Taking(c, is, "x")) /\ g.y = LastOr0(Taking(c, is, "y"))
               /\ g.vector = (PartRead(g.first) # "s" /\ g.y # 0)
               /\ g.x # 0 => g.x \in Taking(c, is, "x")
               /\ g.y # 0 => g.y \in Taking(c, is, "y")
<1> DEFINE is == Named(c, t, n)
<1>1. \A part : Taking(c, is, part) \in SUBSET (1..Len(c.variables)) /\ Len(c.variables) \in Nat
  BY NamedPlaces, VariablesOf
<1>2. \A part : LastOr0(Taking(c, is, part)) # 0 =>
                   LastOr0(Taking(c, is, part)) \in Taking(c, is, part)
  BY <1>1, LastIn
<1> QED
  BY <1>2 DEF Components

(* A file that a group was added to, with all, some or none of its         *)
(* variables: they come last, and the first of them was not there before.  *)
IsAdded(v, g, t, k) ==
    /\ k \in DOMAIN PartsOf(g) /\ v.part = PartsOf(g)[k]
    /\ v.name = g.name /\ v.mesh = t.name /\ v.place = g.place /\ v.order = "first"

Grown(d, c, t, g) ==
    /\ Extends(d, c)
    /\ \A i \in DOMAIN d.variables : i \notin DOMAIN c.variables =>
          /\ IsAdded(d.variables[i], g, t, i - Len(c.variables))
          /\ d.timed /\ ~NameTaken(c, t, g, PartsOf(g)[1])

LEMMA PartsAre ==
    ASSUME NEW g
    PROVE  /\ DOMAIN PartsOf(g) = IF g.vector THEN 1..2 ELSE 1..1
           /\ PartsOf(g)[1] = IF g.vector THEN "x" ELSE "s"
           /\ g.vector => PartsOf(g)[2] = "y"
           /\ Last(PartsOf(g)) = IF g.vector THEN "y" ELSE "s"
           /\ Len(PartsOf(g)) = IF g.vector THEN 2 ELSE 1
BY DEF PartsOf, Last

LEMMA PlainRead ==
    ASSUME NEW c, PlainNames(c), NEW i \in DOMAIN c.variables
    PROVE  /\ ReadAs[Value(c.variables[i])] = Value(c.variables[i])
           /\ NameRead(c.variables[i]) = c.variables[i].name
           /\ PartRead(c.variables[i]) = c.variables[i].part
<1>1. ReadAs[Value(c.variables[i])] = Value(c.variables[i])
  BY DEF PlainNames
<1> QED
  BY <1>1 DEF NameRead, PartRead, Value

LEMMA PlainPair ==
    ASSUME NEW c, PlainNames(c), NEW i \in DOMAIN c.variables, NEW j \in DOMAIN c.variables,
           c.variables[i].name = c.variables[j].name,
           c.variables[i].mesh = c.variables[j].mesh
    PROVE  /\ c.variables[i].part = "s" <=> c.variables[j].part = "s"
           /\ LET v == c.variables[i] IN
                 v.part = c.variables[j].part /\ v.id # VarName[<<v.mesh, v.name, v.part>>]
                 => i = j
BY DEF PlainNames

LEMMA PlainBefore ==
    ASSUME NEW c \in Content, NEW d \in Content, Extends(d, c), PlainNames(d)
    PROVE  PlainNames(c)
<1>1. /\ DOMAIN c.variables \subseteq DOMAIN d.variables
      /\ \A i \in DOMAIN c.variables : d.variables[i] = c.variables[i]
  BY VariablesOf DEF Extends
<1>2. ASSUME NEW i \in DOMAIN c.variables
      PROVE  ReadAs[Value(c.variables[i])] = Value(c.variables[i])
  BY <1>1, PlainRead
<1>3. ASSUME NEW i \in DOMAIN c.variables, NEW j \in DOMAIN c.variables,
             c.variables[i].name = c.variables[j].name,
             c.variables[i].mesh = c.variables[j].mesh
      PROVE  /\ c.variables[i].part = "s" <=> c.variables[j].part = "s"
             /\ LET v == c.variables[i] IN
                   v.part = c.variables[j].part /\ v.id # VarName[<<v.mesh, v.name, v.part>>]
                   => i = j
  BY <1>1, <1>3, PlainPair
<1> QED
  BY <1>2, <1>3 DEF PlainNames

LEMMA GrownPlaces ==
    ASSUME NEW c \in Content, NEW d \in Content, Extends(d, c)
    PROVE  /\ DOMAIN c.variables \subseteq DOMAIN d.variables
           /\ \A i \in DOMAIN c.variables : d.variables[i] = c.variables[i]
           /\ \A i \in DOMAIN d.variables : i \notin DOMAIN c.variables =>
                 /\ i \in Nat /\ i >= Len(c.variables) + 1
                 /\ Len(c.variables) + 1 \in DOMAIN d.variables
                 /\ Len(c.variables) + 1 \notin DOMAIN c.variables
BY VariablesOf DEF Extends

LEMMA NamedStay ==
    ASSUME NEW c \in Content, ContentSound(c), NEW d \in Content, Extends(d, c),
           NEW t, NEW n, NEW i \in DOMAIN c.variables
    PROVE  i \in Named(c, t, n) <=> i \in Named(d, t, n)
<1>1. i \in DOMAIN d.variables /\ d.variables[i] = c.variables[i]
  BY GrownPlaces
<1>2. c.variables[i].order # "static" => c.timed /\ d.timed
  BY DEF ContentSound, Extends
<1>3. OnMesh(c, t, i) <=> OnMesh(d, t, i)
  BY <1>1, <1>2 DEF OnMesh
<1> QED
  BY <1>1, <1>3 DEF Named

(* A group that is there is not added to.                                  *)
LEMMA NamedSame ==
    ASSUME NEW c \in Content, ContentSound(c), NEW d \in Content, PlainNames(d),
           NEW g, NEW t, Grown(d, c, t, g),
           NEW u, NEW n, Named(c, u, n) # {}, Complete(c, u, n)
    PROVE  Named(d, u, n) = Named(c, u, n)
<1>1. /\ Extends(d, c) /\ PlainNames(c)
      /\ DOMAIN c.variables \subseteq DOMAIN d.variables
      /\ \A i \in DOMAIN c.variables : d.variables[i] = c.variables[i]
  BY PlainBefore, GrownPlaces DEF Grown
<1>2. Named(c, u, n) \subseteq Named(d, u, n)
  BY <1>1, NamedStay DEF Named
<1>3. ASSUME NEW i \in Named(d, u, n), i \notin DOMAIN c.variables PROVE FALSE
  <2> DEFINE v == d.variables[i]
             k == i - Len(c.variables)
  <2>1. /\ i \in DOMAIN d.variables /\ IsAdded(v, g, t, k)
        /\ ~NameTaken(c, t, g, PartsOf(g)[1])
        /\ v.mesh = u.name /\ NameRead(v) = n
    BY <1>3 DEF Grown, Named, OnMesh
  <2>2. v.name = n /\ g.name = n /\ t.name = u.name
    BY <2>1, PlainRead DEF IsAdded
  <2>3. v.part = IF g.vector THEN PartsOf(g)[k] ELSE "s"
    BY <2>1, PartsAre DEF IsAdded
  <2>4. v.part = "s" <=> ~g.vector
    <3>1. k \in DOMAIN PartsOf(g) /\ v.part = PartsOf(g)[k]
      BY <2>1 DEF IsAdded
    <3>2. CASE g.vector
      <4>1. k = 1 \/ k = 2
        BY <3>1, <3>2, PartsAre
      <4> QED
        BY <3>1, <3>2, <4>1, PartsAre
    <3> QED
      BY <2>3, <3>2
  <2> HIDE DEF k
  <2>5. ASSUME NEW j \in Named(c, u, n)
        PROVE  /\ j \in DOMAIN c.variables /\ c.variables[j].mesh = t.name
               /\ c.variables[j].name = g.name
               /\ PartRead(c.variables[j]) = c.variables[j].part
               /\ ReadAs[Value(c.variables[j])] = Value(c.variables[j])
               /\ c.variables[j].part = "s" <=> v.part = "s"
    <3>1. /\ j \in DOMAIN c.variables /\ c.variables[j].mesh = t.name
          /\ NameRead(c.variables[j]) = n
      BY <2>2 DEF Named, OnMesh
    <3>2. c.variables[j].name = g.name
      BY <1>1, <2>2, <3>1, PlainRead
    <3>3. d.variables[j] = c.variables[j] /\ j \in DOMAIN d.variables
      BY <1>1, <3>1
    <3>4. c.variables[j].part = "s" <=> v.part = "s"
      <4>1. /\ v.name = c.variables[j].name /\ v.mesh = c.variables[j].mesh
            /\ i \in DOMAIN d.variables
        BY <2>1, <2>2, <3>1, <3>2
      <4> HIDE DEF v
      <4>2. d.variables[i].part = "s" <=> d.variables[j].part = "s"
        BY <3>3, <4>1, PlainPair DEF v
      <4> QED
        BY <3>3, <4>2 DEF v
    <3> QED
      BY <1>1, <3>1, <3>2, <3>4, PlainRead
  (* The first variable of the group is another with that name and part.  *)
  <2>6. \A j \in Named(c, u, n) : c.variables[j].part # PartsOf(g)[1]
    <3> SUFFICES ASSUME NEW j \in Named(c, u, n), c.variables[j].part = PartsOf(g)[1]
                 PROVE  FALSE
      OBVIOUS
    <3> DEFINE first == Len(c.variables) + 1
    <3>1. /\ first \in DOMAIN d.variables /\ first \notin DOMAIN c.variables
          /\ Len(c.variables) \in Nat
      BY <1>1, <1>3, <2>1, GrownPlaces, VariablesOf
    <3>2. IsAdded(d.variables[first], g, t, 1)
      <4>1. IsAdded(d.variables[first], g, t, first - Len(c.variables))
        BY <3>1 DEF Grown
      <4>2. first - Len(c.variables) = 1
        BY <3>1
      <4> HIDE DEF first
      <4> QED
        BY <4>1, <4>2
    <3> HIDE DEF first
    <3>3. /\ d.variables[first].name = g.name /\ d.variables[first].mesh = t.name
          /\ d.variables[first].part = PartsOf(g)[1]
      BY <3>2 DEF IsAdded
    <3>4. j \in DOMAIN d.variables /\ d.variables[j] = c.variables[j] /\ j # first
      BY <1>1, <2>5, <3>1
    <3>5. d.variables[j].id = VarName[<<t.name, g.name, PartsOf(g)[1]>>]
      BY <2>5, <3>1, <3>3, <3>4, PlainPair
    <3> QED
      BY <2>1, <2>5, <3>4, <3>5 DEF NameTaken
  <2>7. CASE ~g.vector
    BY <2>4, <2>5, <2>6, <2>7, PartsAre
  <2>8. CASE g.vector
    <3>1. Taking(c, Named(c, u, n), "x") # {}
      <4>1. Components(c, u, n).x # 0
        BY DEF Complete
      <4> QED
        BY <4>1, ComponentsOf
    <3>2. PICK j \in Named(c, u, n) : PartRead(c.variables[j]) \in {"x", "s"}
      BY <3>1 DEF Taking
    <3>3. c.variables[j].part = "x"
      BY <2>4, <2>5, <2>8, <3>2
    <3> QED
      BY <2>6, <2>8, <3>3, PartsAre
  <2> QED
    BY <2>7, <2>8
<1>4. Named(d, u, n) \subseteq Named(c, u, n)
  BY <1>1, <1>3, NamedStay
<1> QED
  BY <1>2, <1>4

LEMMA ComponentsSame ==
    ASSUME NEW c \in Content, NEW d \in Content, Extends(d, c),
           NEW u, NEW n, Named(c, u, n) # {}, Named(d, u, n) = Named(c, u, n)
    PROVE  /\ Components(d, u, n) = Components(c, u, n)
           /\ \A i \in {Components(c, u, n).x, Components(c, u, n).y} :
                 i # 0 => i \in DOMAIN c.variables /\ d.variables[i] = c.variables[i]
<1> DEFINE is == Named(c, u, n)
<1>1. /\ is \subseteq DOMAIN c.variables /\ First(is) \in is
      /\ \A part : Taking(c, is, part) \subseteq is
  BY NamedPlaces, VariablesOf
<1>2. \A i \in is : d.variables[i] = c.variables[i]
  BY <1>1, GrownPlaces
<1>3. \A part : Taking(d, is, part) = Taking(c, is, part)
  BY <1>2 DEF Taking
<1>4. d.variables[First(is)] = c.variables[First(is)]
  BY <1>1, <1>2
<1>5. Components(d, u, n) = Components(c, u, n)
  <2>1. Named(d, u, n) = is
    OBVIOUS
  <2> HIDE DEF is
  <2>2. Components(c, u, n) =
           LET first == c.variables[First(is)]
               y == LastOr0(Taking(c, is, "y"))
           IN  [first |-> first, vector |-> PartRead(first) # "s" /\ y # 0,
                x |-> LastOr0(Taking(c, is, "x")), y |-> y]
    BY DEF Components, is
  <2>3. Components(d, u, n) =
           LET first == d.variables[First(is)]
               y == LastOr0(Taking(d, is, "y"))
           IN  [first |-> first, vector |-> PartRead(first) # "s" /\ y # 0,
                x |-> LastOr0(Taking(d, is, "x")), y |-> y]
    BY <2>1 DEF Components
  <2> QED
    BY <1>3, <1>4, <2>2, <2>3
<1>6. \A i \in {Components(c, u, n).x, Components(c, u, n).y} : i # 0 => i \in is
  BY <1>1, ComponentsOf
<1> QED
  BY <1>1, <1>2, <1>5, <1>6

LEMMA CompleteSame ==
    ASSUME NEW c \in Content, NEW d \in Content, Extends(d, c),
           NEW u, NEW n, Named(c, u, n) # {}, Named(d, u, n) = Named(c, u, n),
           Complete(c, u, n)
    PROVE  Complete(d, u, n)
<1> DEFINE g == Components(c, u, n)
<1>1. /\ Components(d, u, n) = g
      /\ \A i \in {g.x, g.y} : i # 0 => d.variables[i] = c.variables[i]
  BY ComponentsSame
<1>2. /\ g.x # 0 /\ SizeOf(u, c.variables[g.x].place) >= SizeOf(u, g.first.place)
      /\ g.vector /\ g.first.order # "static" =>
            g.y # 0 /\ SizeOf(u, c.variables[g.y].place) >= SizeOf(u, g.first.place)
  BY DEF Complete
<1> HIDE DEF g
<1> QED
  BY <1>1, <1>2 DEF Complete

LEMMA SizeNat ==
    ASSUME NEW t \in Topology, NEW place
    PROVE  SizeOf(t, place) \in Nat
BY DEF SizeOf, Topology

(* A group all of whose variables were added.                              *)
LEMMA NewPlaces ==
    ASSUME NEW c \in Content, ContentSound(c), NEW d \in Content, PlainNames(d),
           NEW g, NEW t, Grown(d, c, t, g),
           NEW u, NEW n, Named(c, u, n) = {}, Named(d, u, n) # {}
    PROVE  LET L == Len(c.variables) IN
           /\ \A i \in Named(d, u, n) :
                 /\ i \in DOMAIN d.variables /\ i \notin DOMAIN c.variables /\ i >= L + 1
                 /\ d.variables[i].place = g.place
           /\ L + 1 \in Named(d, u, n) /\ First(Named(d, u, n)) = L + 1
           /\ L + 1 \in Taking(d, Named(d, u, n), "x")
<1> DEFINE L == Len(c.variables)
           is == Named(d, u, n)
<1>1. L \in Nat /\ Extends(d, c)
  BY VariablesOf DEF Grown
<1>2. \A i \in is : i \in DOMAIN d.variables /\ i \notin DOMAIN c.variables
  <2>1. \A i \in is : i \in DOMAIN d.variables
    BY DEF Named
  <2>2. ASSUME NEW i \in is, i \in DOMAIN c.variables PROVE FALSE
    <3>1. i \in Named(c, u, n)
      BY <1>1, <2>2, NamedStay
    <3> QED
      BY <3>1
  <2> QED
    BY <2>1, <2>2
<1>3. ASSUME NEW i \in is
      PROVE  /\ IsAdded(d.variables[i], g, t, i - L) /\ i \in Nat /\ i >= L + 1
             /\ OnMesh(d, u, i) /\ NameRead(d.variables[i]) = n
             /\ L + 1 \in DOMAIN d.variables /\ L + 1 \notin DOMAIN c.variables
  BY <1>1, <1>2, GrownPlaces DEF Grown, Named
<1>4. PICK i \in is : TRUE
  OBVIOUS
<1> DEFINE v == d.variables[L + 1]
<1>5. /\ L + 1 \in DOMAIN d.variables /\ L + 1 \notin DOMAIN c.variables
      /\ IsAdded(v, g, t, 1) /\ d.timed
  <2>1. L + 1 \in DOMAIN d.variables /\ L + 1 \notin DOMAIN c.variables
    BY <1>3, <1>4
  <2>2. IsAdded(v, g, t, L + 1 - L) /\ d.timed
    BY <2>1 DEF Grown
  <2>3. L + 1 - L = 1
    BY <1>1
  <2> QED
    BY <2>1, <2>2, <2>3
<1>6. /\ v.name = g.name /\ v.mesh = t.name /\ v.place = g.place
      /\ d.variables[i].name = g.name /\ d.variables[i].mesh = t.name
      /\ d.variables[i].place = g.place
  BY <1>3, <1>4, <1>5 DEF IsAdded
<1>7. L + 1 \in is
  <2>1. OnMesh(d, u, L + 1)
    BY <1>3, <1>4, <1>5, <1>6 DEF OnMesh
  <2>2. NameRead(v) = n
    BY <1>2, <1>3, <1>4, <1>5, <1>6, PlainRead
  <2> QED
    BY <1>5, <2>1, <2>2 DEF Named
<1>8. First(is) = L + 1
  <2>1. First(is) \in is /\ First(is) <= L + 1
    <3>1. is \in SUBSET (1..Len(d.variables)) /\ Len(d.variables) \in Nat
      BY NamedPlaces, VariablesOf
    <3> QED
      BY <1>7, <3>1, FirstIn
  <2>2. First(is) >= L + 1 /\ First(is) \in Nat
    BY <1>3, <2>1
  <2> QED
    BY <1>1, <2>1, <2>2
<1>9. L + 1 \in Taking(d, is, "x")
  <2>1. PartRead(v) \in {"x", "s"}
    <3>1. v.part = PartsOf(g)[1]
      BY <1>5 DEF IsAdded
    <3> QED
      BY <1>5, <3>1, PlainRead, PartsAre
  <2> QED
    BY <1>7, <1>8, <2>1 DEF Taking
<1>10. \A j \in is : d.variables[j].place = g.place
  BY <1>3 DEF IsAdded
<1> QED
  BY <1>2, <1>3, <1>7, <1>8, <1>9, <1>10

LEMMA NewComplete ==
    ASSUME NEW c \in Content, ContentSound(c), NEW d \in Content, PlainNames(d),
           NEW g, NEW t, Grown(d, c, t, g),
           NEW u \in Topology, NEW n, Named(c, u, n) = {}, Named(d, u, n) # {}
    PROVE  Complete(d, u, n)
<1> DEFINE is == Named(d, u, n)
           k == Components(d, u, n)
<1>1. /\ \A i \in is : d.variables[i].place = g.place
      /\ Len(c.variables) + 1 \in is /\ First(is) \in is
      /\ Taking(d, is, "x") # {}
  BY NewPlaces
<1>2. /\ k.first.place = g.place
      /\ k.x # 0 => k.x \in is
      /\ k.y # 0 => k.y \in is
      /\ k.x = LastOr0(Taking(d, is, "x"))
      /\ k.vector => k.y # 0
  <2>1. \A part : Taking(d, is, part) \subseteq is
    BY NamedPlaces
  <2>2. k.first = d.variables[First(is)]
    BY ComponentsOf
  <2>3. /\ k.x = LastOr0(Taking(d, is, "x"))
        /\ k.x # 0 => k.x \in Taking(d, is, "x")
    BY ComponentsOf
  <2>4. k.y # 0 => k.y \in Taking(d, is, "y")
    BY ComponentsOf
  <2>5. k.vector => k.y # 0
    BY DEF Components
  <2> QED
    BY <1>1, <2>1, <2>2, <2>3, <2>4, <2>5
<1>3. k.x # 0
  <2>1. Taking(d, is, "x") \in SUBSET (1..Len(d.variables)) /\ Len(d.variables) \in Nat
    BY NamedPlaces, VariablesOf
  <2>2. LastOr0(Taking(d, is, "x")) \in Taking(d, is, "x")
    BY <1>1, <2>1, LastIn
  <2> QED
    BY <1>2, <2>1, <2>2
<1>4. SizeOf(u, g.place) >= SizeOf(u, g.place)
  BY SizeNat
<1> HIDE DEF k, is
<1>5. /\ k.x # 0 /\ SizeOf(u, d.variables[k.x].place) >= SizeOf(u, k.first.place)
      /\ k.vector /\ k.first.order # "static" =>
            k.y # 0 /\ SizeOf(u, d.variables[k.y].place) >= SizeOf(u, k.first.place)
  BY <1>1, <1>2, <1>3, <1>4
<1> QED
  BY <1>5 DEF Complete, k

LEMMA GrownComplete ==
    ASSUME NEW c \in Content, ContentSound(c), GroupsComplete(c),
           NEW d \in Content, PlainNames(d), NEW g, NEW t, Grown(d, c, t, g)
    PROVE  GroupsComplete(d)
<1>1. Extends(d, c) /\ d.meshes = c.meshes
  BY DEF Grown, Extends
<1> SUFFICES ASSUME NEW i \in DOMAIN c.meshes, NEW n \in Names,
                    Named(d, c.meshes[i], n) # {}
             PROVE  Complete(d, c.meshes[i], n)
  BY <1>1 DEF GroupsComplete
<1> DEFINE u == c.meshes[i]
<1>2. u \in Topology
  BY NamesOfMeshes
<1>3. CASE Named(c, u, n) # {}
  <2>1. Complete(c, u, n)
    BY <1>3 DEF GroupsComplete
  <2>2. Named(d, u, n) = Named(c, u, n)
    BY <1>3, <2>1, NamedSame
  <2> QED
    BY <1>1, <1>3, <2>1, <2>2, CompleteSame
<1>4. CASE Named(c, u, n) = {}
  BY <1>2, <1>4, NewComplete
<1> QED
  BY <1>3, <1>4

-----------------------------------------------------------------------------
(* What loads from a file still loads after a group was added to it.       *)
LEMMA NamedInNames ==
    ASSUME NEW c \in Content, NEW u, NEW n, Named(c, u, n) # {}
    PROVE  n \in Names
<1>1. PICK i \in DOMAIN c.variables : NameRead(c.variables[i]) = n
  BY DEF Named
<1>2. Value(c.variables[i]) \in Names \X Parts
  BY VariablesOf DEF Variable, Value
<1>3. ReadAs[Value(c.variables[i])] \in Names \X Parts
  BY <1>2, UgridAssumption
<1> QED
  BY <1>1, <1>3 DEF NameRead

LEMMA GroupNamesAre ==
    ASSUME NEW c, NEW u, NEW n
    PROVE  n \in GroupNames(c, u) <=>
              /\ Named(c, u, n) # {}
              /\ StepsOf(c, Components(c, u, n).first) > 0
              /\ Components(c, u, n).first.place = "edge" => u.dim = 1
<1>1. n \in {NameRead(c.variables[i]) : i \in {j \in DOMAIN c.variables : OnMesh(c, u, j)}}
        <=> Named(c, u, n) # {}
  BY DEF Named
<1> QED
  BY <1>1 DEF GroupNames

LEMMA AllLoads ==
    ASSUME NEW c \in Content, GroupsComplete(c),
           NEW r \in MeshNames \cup {Unnamed}, Selectable(c, r)
    PROVE  Loads(c, r) /\ \A n \in GroupNames(c, Selected(c, r)) : Complete(c, Selected(c, r), n)
<1>1. PICK i \in DOMAIN c.meshes : Selected(c, r) = c.meshes[i]
  BY SelectedIs DEF Selectable
<1>2. ASSUME NEW n \in GroupNames(c, Selected(c, r)) PROVE Complete(c, Selected(c, r), n)
  <2>1. Named(c, Selected(c, r), n) # {} /\ n \in Names
    BY GroupNamesAre, NamedInNames
  <2> QED
    BY <1>1, <2>1 DEF GroupsComplete
<1> QED
  BY <1>2 DEF Loads, ReadThrows

LEMMA GroupKept ==
    ASSUME NEW c \in Content, ContentSound(c), NEW d \in Content, PlainNames(d),
           NEW g, NEW t, Grown(d, c, t, g),
           NEW u, NEW n \in GroupNames(c, u), Complete(c, u, n)
    PROVE  n \in GroupNames(d, u) /\ StaysAs(ReadGroup(d, u, n), ReadGroup(c, u, n))
<1> DEFINE k == Components(c, u, n)
<1>1. /\ Named(c, u, n) # {} /\ StepsOf(c, k.first) > 0
      /\ k.first.place = "edge" => u.dim = 1
  BY GroupNamesAre
<1>2. Extends(d, c) /\ Named(d, u, n) = Named(c, u, n)
  <2>1. Named(d, u, n) = Named(c, u, n)
    BY <1>1, NamedSame
  <2> QED
    BY <2>1 DEF Grown
<1>3. /\ Components(d, u, n) = k
      /\ \A i \in {k.x, k.y} : i # 0 => i \in DOMAIN c.variables /\ d.variables[i] = c.variables[i]
  BY <1>1, <1>2, ComponentsSame
<1>4. k.x # 0
  BY DEF Complete
<1>5. k.first.order # "static" => c.timed /\ d.timed /\ c.times # <<>> /\ d.times = c.times
  <2> SUFFICES ASSUME k.first.order # "static"
               PROVE  c.timed /\ d.timed /\ c.times # <<>> /\ d.times = c.times
    OBVIOUS
  <2>1. c.times # <<>>
    <3>1. Len(c.times) > 0
      BY <1>1 DEF StepsOf
    <3>2. Len(<<>>) = 0
      OBVIOUS
    <3> QED
      BY <3>1, <3>2
  <2>2. c.timed
    <3>1. First(Named(c, u, n)) \in DOMAIN c.variables /\ k.first = c.variables[First(Named(c, u, n))]
      BY <1>1, ComponentsOf, NamedPlaces, VariablesOf
    <3> QED
      BY <3>1 DEF ContentSound
  <2> QED
    BY <1>2, <2>1, <2>2 DEF Extends
<1>6. StepsOf(d, k.first) = StepsOf(c, k.first)
  BY <1>5 DEF StepsOf
<1>7. n \in GroupNames(d, u)
  BY <1>1, <1>2, <1>3, <1>6, GroupNamesAre
<1>8. Reading(d, k.x) = Reading(c, k.x) /\ Reading(d, k.y) = Reading(c, k.y)
  BY <1>3 DEF Reading
<1>9. d.variables[k.x] = c.variables[k.x]
  BY <1>3, <1>4
<1> DEFINE old == ReadGroup(c, u, n)
           new == ReadGroup(d, u, n)
<1>10. old =
          [place |-> k.first.place, vector |-> k.vector,
           times |-> IF ~c.timed \/ c.times = <<>> THEN <<>>
                     ELSE IF k.first.order = "static" THEN <<c.times[1]>> ELSE c.times,
           steps |-> StepsOf(c, k.first),
           holds |-> IF ~k.vector THEN <<Reading(c, k.x)>>
                     ELSE IF k.first.order = "static" THEN <<Reading(c, k.x), Reading(c, k.x)>>
                     ELSE <<Reading(c, k.x), Reading(c, k.y)>>,
           written |-> IF k.x = 0 THEN 0 ELSE c.variables[k.x].written]
  BY DEF ReadGroup
<1> HIDE DEF k
<1>11. new =
          [place |-> k.first.place, vector |-> k.vector,
           times |-> IF ~d.timed \/ d.times = <<>> THEN <<>>
                     ELSE IF k.first.order = "static" THEN <<d.times[1]>> ELSE d.times,
           steps |-> StepsOf(d, k.first),
           holds |-> IF ~k.vector THEN <<Reading(d, k.x)>>
                     ELSE IF k.first.order = "static" THEN <<Reading(d, k.x), Reading(d, k.x)>>
                     ELSE <<Reading(d, k.x), Reading(d, k.y)>>,
           written |-> IF k.x = 0 THEN 0 ELSE d.variables[k.x].written]
  BY <1>3 DEF ReadGroup
<1> HIDE DEF old, new
<1>12. [new EXCEPT !.times = old.times] = old
  BY <1>6, <1>8, <1>9, <1>10, <1>11
<1>13. old.times # <<>> => new.times = old.times
  <2> SUFFICES ASSUME old.times # <<>> PROVE new.times = old.times
    OBVIOUS
  <2>1. c.timed /\ c.times # <<>>
    BY <1>10
  <2>2. d.timed /\ d.times = c.times
    BY <1>2, <2>1 DEF Extends
  <2> QED
    BY <1>10, <1>11, <2>1, <2>2
<1>14. n \in GroupNames(d, u) /\ StaysAs(new, old)
  BY <1>7, <1>12, <1>13 DEF StaysAs
<1> QED
  BY <1>14 DEF old, new

LEMMA SameMeshes ==
    ASSUME NEW c, NEW d, d.meshes = c.meshes, NEW r
    PROVE  /\ MeshNamesOf(d) = MeshNamesOf(c)
           /\ Selectable(d, r) <=> Selectable(c, r)
           /\ Selected(d, r) = Selected(c, r)
           /\ MeshesDiffer(d) <=> MeshesDiffer(c)
<1>1. MeshNamesOf(d) = MeshNamesOf(c)
  BY DEF MeshNamesOf
<1> QED
  BY <1>1 DEF Selectable, MeshFound, Selected, MeshesDiffer

LEMMA GrownLoads ==
    ASSUME NEW c \in Content, ContentSound(c), GroupsComplete(c),
           NEW d \in Content, PlainNames(d), NEW g, NEW t, Grown(d, c, t, g),
           NEW r \in MeshNames \cup {Unnamed}, Loads(c, r)
    PROVE  /\ Loads(d, r)
           /\ \A n \in DOMAIN LoadedGroups(c, r) :
                 /\ n \in DOMAIN LoadedGroups(d, r)
                 /\ StaysAs(LoadedGroups(d, r)[n], LoadedGroups(c, r)[n])
<1> DEFINE u == Selected(c, r)
<1>1. /\ Selectable(c, r) /\ Selectable(d, r) /\ Selected(d, r) = u
      /\ GroupsComplete(d)
  <2>1. d.meshes = c.meshes
    BY DEF Grown, Extends
  <2> QED
    BY <2>1, SameMeshes, GrownComplete DEF Loads
<1>2. Loads(d, r) /\ \A n \in GroupNames(c, u) : Complete(c, u, n)
  BY <1>1, AllLoads
<1>3. ASSUME NEW n \in GroupNames(c, u)
      PROVE  n \in GroupNames(d, u) /\ StaysAs(ReadGroup(d, u, n), ReadGroup(c, u, n))
  BY <1>2, GroupKept
<1>4. /\ LoadedGroups(c, r) = [n \in GroupNames(c, u) |-> ReadGroup(c, u, n)]
      /\ LoadedGroups(d, r) = [n \in GroupNames(d, u) |-> ReadGroup(d, u, n)]
  BY <1>1 DEF LoadedGroups
<1> HIDE DEF u
<1> QED
  BY <1>2, <1>3, <1>4

LEMMA InGrown ==
    ASSUME NEW c \in Content, ContentSound(c), GroupsComplete(c),
           NEW d \in Content, PlainNames(d), NEW g, NEW t, Grown(d, c, t, g),
           NEW p \in PromiseRecord, IsIn(p, c)
    PROVE  IsIn(p, d)
<1>1. p.mesh \in MeshNames \cup {Unnamed} /\ Loads(c, p.mesh)
  BY DEF PromiseRecord, IsIn
<1>2. p.name \in DOMAIN LoadedGroups(c, p.mesh)
  BY DEF IsIn
<1> DEFINE old == LoadedGroups(c, p.mesh)[p.name]
           new == LoadedGroups(d, p.mesh)[p.name]
<1>3. /\ Loads(d, p.mesh) /\ p.name \in DOMAIN LoadedGroups(d, p.mesh)
      /\ StaysAs(new, old)
  BY <1>1, <1>2, GrownLoads
<1>4. \E x, y : old = ReadGroup(c, x, y)
  BY <1>2 DEF LoadedGroups
<1>5. \E x, y : new = ReadGroup(d, x, y)
  BY <1>3 DEF LoadedGroups
<1> HIDE DEF old, new
<1>6. /\ new.vector = old.vector /\ new.place = old.place /\ new.holds = old.holds
      /\ new.written = old.written /\ new.steps = old.steps
  BY <1>3, <1>4, <1>5 DEF StaysAs, ReadGroup
<1>7. Len(p.times) > 1 => old.times = p.times
  BY DEF IsIn, old
<1>8. Len(p.times) > 1 => new.times = p.times
  <2> SUFFICES ASSUME Len(p.times) > 1 PROVE new.times = p.times
    OBVIOUS
  <2>1. old.times # <<>>
    <3>1. Len(<<>>) = 0
      OBVIOUS
    <3> QED
      BY <1>7, <3>1
  <2> QED
    BY <1>3, <1>7, <2>1 DEF StaysAs
<1>9. /\ old.vector = p.vector /\ old.place = p.place
      /\ old.holds = [i \in DOMAIN PartsOf(p) |-> <<p.name, PartsOf(p)[i]>>]
      /\ old.written = Len(p.times) /\ Len(p.times) <= old.steps
  BY DEF IsIn, old
<1> QED
  BY <1>3, <1>6, <1>8, <1>9 DEF IsIn, new

-----------------------------------------------------------------------------
(* What a close makes of a file.                                           *)
LEMMA ConcatPlaces ==
    ASSUME NEW S, NEW p \in Seq(S), NEW q \in Seq(S)
    PROVE  /\ DOMAIN (p \o q) = 1..(Len(p) + Len(q))
           /\ \A i \in DOMAIN (p \o q) : i \notin DOMAIN p =>
                 i - Len(p) \in DOMAIN q /\ (p \o q)[i] = q[i - Len(p)]
           /\ \A k \in DOMAIN q : /\ Len(p) + k \in DOMAIN (p \o q)
                                  /\ (p \o q)[Len(p) + k] = q[k]
<1>1. /\ DOMAIN p = 1..Len(p) /\ DOMAIN q = 1..Len(q)
      /\ Len(p) \in Nat /\ Len(q) \in Nat
  OBVIOUS
<1>2. /\ DOMAIN (p \o q) = 1..(Len(p) + Len(q))
      /\ \A i \in 1..(Len(p) + Len(q)) :
            (p \o q)[i] = IF i <= Len(p) THEN p[i] ELSE q[i - Len(p)]
  OBVIOUS
<1>3. ASSUME NEW i \in DOMAIN (p \o q), i \notin DOMAIN p
      PROVE  i - Len(p) \in DOMAIN q /\ (p \o q)[i] = q[i - Len(p)]
  BY <1>1, <1>2, <1>3
<1>4. ASSUME NEW k \in DOMAIN q
      PROVE  Len(p) + k \in DOMAIN (p \o q) /\ (p \o q)[Len(p) + k] = q[k]
  <2>1. Len(p) + k \in 1..(Len(p) + Len(q)) /\ ~(Len(p) + k <= Len(p)) /\ Len(p) + k - Len(p) = k
    BY <1>1
  <2> QED
    BY <1>2, <2>1
<1> QED
  BY <1>2, <1>3, <1>4

LEMMA NewVariablesAre ==
    ASSUME NEW g \in Groups, NEW t \in Topology, NEW n \in Nat
    PROVE  /\ \A part \in Parts : NewVariable(g, t, part, n) \in Variable
           /\ [i \in DOMAIN PartsOf(g) |-> NewVariable(g, t, PartsOf(g)[i], n)] \in Seq(Variable)
           /\ DOMAIN PartsOf(g) = 1..Len(PartsOf(g))
<1>1. g \in Group
  BY UgridAssumption
<1>2. \A part \in Parts : NewVariable(g, t, part, n) \in Variable
  BY <1>1, UgridAssumption DEF NewVariable, Variable, Group, Places, Parts, Topology
<1>3. /\ DOMAIN PartsOf(g) = 1..Len(PartsOf(g)) /\ Len(PartsOf(g)) \in Nat
      /\ \A i \in DOMAIN PartsOf(g) : PartsOf(g)[i] \in Parts
  <2>1. CASE g.vector
    BY <2>1, PartsAre DEF Parts
  <2>2. CASE ~g.vector
    BY <2>2, PartsAre DEF Parts
  <2> QED
    BY <2>1, <2>2
<1> QED
  BY <1>2, <1>3

LEMMA WrittenPlaces ==
    ASSUME NEW c \in Content, NEW g \in Groups, NEW t \in Topology, NEW n \in Nat
    PROVE  LET d == Written(c, t, g, n)
               L == Len(c.variables)
           IN  /\ DOMAIN d.variables = 1..(L + Len(PartsOf(g)))
               /\ d.timed /\ d.meshes = c.meshes
               /\ d.times = IF NeedsTime(c) /\ n > 0 THEN g.times ELSE c.times
               /\ \A i \in DOMAIN d.variables : i \notin DOMAIN c.variables =>
                     /\ i - L \in DOMAIN PartsOf(g)
                     /\ d.variables[i] = NewVariable(g, t, PartsOf(g)[i - L], n)
               /\ \A k \in DOMAIN PartsOf(g) :
                     /\ L + k \in DOMAIN d.variables
                     /\ d.variables[L + k] = NewVariable(g, t, PartsOf(g)[k], n)
<1> DEFINE vs == [i \in DOMAIN PartsOf(g) |-> NewVariable(g, t, PartsOf(g)[i], n)]
           d == Written(c, t, g, n)
<1>1. vs \in Seq(Variable) /\ c.variables \in Seq(Variable)
  BY NewVariablesAre DEF Content
<1>2. /\ DOMAIN vs = DOMAIN PartsOf(g)
      /\ \A k \in DOMAIN vs : vs[k] = NewVariable(g, t, PartsOf(g)[k], n)
  OBVIOUS
<1>3. Len(vs) = Len(PartsOf(g))
  BY <1>1, <1>2, PartsAre
<1>4. /\ d.timed /\ d.meshes = c.meshes /\ d.variables = c.variables \o vs
      /\ d.times = IF NeedsTime(c) /\ n > 0 THEN g.times ELSE c.times
  BY DEF Written, WithTime, Content
<1> HIDE DEF vs, d
<1>5. /\ DOMAIN d.variables = 1..(Len(c.variables) + Len(vs))
      /\ \A i \in DOMAIN d.variables : i \notin DOMAIN c.variables =>
            /\ i - Len(c.variables) \in DOMAIN vs
            /\ d.variables[i] = vs[i - Len(c.variables)]
      /\ \A k \in DOMAIN vs : /\ Len(c.variables) + k \in DOMAIN d.variables
                              /\ d.variables[Len(c.variables) + k] = vs[k]
  BY <1>1, <1>4, ConcatPlaces
<1>6. /\ DOMAIN d.variables = 1..(Len(c.variables) + Len(PartsOf(g)))
      /\ \A i \in DOMAIN d.variables : i \notin DOMAIN c.variables =>
            /\ i - Len(c.variables) \in DOMAIN PartsOf(g)
            /\ d.variables[i] = NewVariable(g, t, PartsOf(g)[i - Len(c.variables)], n)
      /\ \A k \in DOMAIN PartsOf(g) :
            /\ Len(c.variables) + k \in DOMAIN d.variables
            /\ d.variables[Len(c.variables) + k] = NewVariable(g, t, PartsOf(g)[k], n)
  BY <1>2, <1>3, <1>5
<1> QED
  BY <1>4, <1>6 DEF d

LEMMA WrittenGrown ==
    ASSUME NEW c \in Content, ContentSound(c), NEW g \in Groups,
           NEW t \in Topology, t.name \in ToSet(MeshNamesOf(c)),
           NEW n \in {0, Len(g.times)}, n = 0 \/ TimesFit(c, g),
           ~NameTaken(c, t, g, PartsOf(g)[1])
    PROVE  Grown(Written(c, t, g, n), c, t, g)
<1> DEFINE d == Written(c, t, g, n)
<1>1. Extends(d, c)
  BY WrittenSound
<1>2. n \in Nat
  <2>1. g \in Group
    BY UgridAssumption
  <2> QED
    BY <2>1, LenProperties DEF Group
<1>3. /\ d.timed
      /\ \A i \in DOMAIN d.variables : i \notin DOMAIN c.variables =>
            /\ i - Len(c.variables) \in DOMAIN PartsOf(g)
            /\ d.variables[i] = NewVariable(g, t, PartsOf(g)[i - Len(c.variables)], n)
  BY <1>2, WrittenPlaces
<1>4. \A k \in DOMAIN PartsOf(g) : IsAdded(NewVariable(g, t, PartsOf(g)[k], n), g, t, k)
  BY DEF IsAdded, NewVariable
<1> HIDE DEF d
<1>5. Grown(d, c, t, g)
  BY <1>1, <1>3, <1>4 DEF Grown
<1> QED
  BY <1>5 DEF d

LEMMA GrownItself ==
    ASSUME NEW c \in Content, NEW g, NEW t
    PROVE  Grown(c, c, t, g)
BY ExtendsItself DEF Grown

LEMMA FailedGrown ==
    ASSUME NEW c \in Content, ContentSound(c), NEW g \in Groups,
           NEW name \in MeshNames \cup {Unnamed}
    PROVE  Grown(FailedWrite(c, name, g), c, Selected(c, name), g)
<1> DEFINE t == Selected(c, name)
           d == FailedWrite(c, name, g)
           x == [WithTime(c) EXCEPT !.variables = Append(@, NewVariable(g, t, "x", 0))]
<1> SUFFICES Grown(d, c, t, g)
  OBVIOUS
<1>1. Extends(d, c)
  BY FailedWriteSound
<1>2. \/ d = c \/ d = WithTime(c)
      \/ /\ Selectable(c, name) /\ ~NameTaken(c, t, g, PartsOf(g)[1])
         /\ NameTaken(c, t, g, Last(PartsOf(g))) /\ d = x
      \/ /\ Selectable(c, name) /\ ~NameTaken(c, t, g, PartsOf(g)[1])
         /\ d = Written(c, t, g, 0)
  BY DEF FailedWrite
<1>3. CASE d.variables = c.variables
  <2> HIDE DEF d, t, x
  <2> QED
    BY <1>1, <1>3 DEF Grown
<1>4. CASE d = WithTime(c)
  <2>1. d.variables = c.variables
    BY <1>4 DEF WithTime, Content
  <2> QED
    BY <1>3, <2>1
<1>5. CASE /\ Selectable(c, name) /\ ~NameTaken(c, t, g, PartsOf(g)[1])
           /\ NameTaken(c, t, g, Last(PartsOf(g))) /\ d = x
  <2>1. g.vector /\ PartsOf(g)[1] = "x" /\ 1 \in DOMAIN PartsOf(g)
    BY <1>5, PartsAre
  <2> DEFINE v == NewVariable(g, t, "x", 0)
  <2>2. t \in Topology
    BY <1>5, SelectedThere
  <2>3. v \in Variable
    <3>1. "x" \in Parts /\ 0 \in Nat
      BY DEF Parts
    <3> QED
      BY <2>2, <3>1, NewVariablesAre
  <2>4. c.variables \in Seq(Variable) /\ d.timed /\ d.variables = Append(c.variables, v)
    BY <1>5 DEF WithTime, Content
  <2>5. IsAdded(v, g, t, 1)
    BY <2>1 DEF IsAdded, NewVariable
  <2> HIDE DEF v, d, t, x
  <2>6. \A i \in DOMAIN d.variables : i \notin DOMAIN c.variables =>
           d.variables[i] = v /\ i - Len(c.variables) = 1
    BY <2>3, <2>4
  <2> QED
    BY <1>1, <1>5, <2>4, <2>5, <2>6 DEF Grown
<1>6. CASE /\ Selectable(c, name) /\ ~NameTaken(c, t, g, PartsOf(g)[1])
           /\ d = Written(c, t, g, 0)
  <2>1. t \in Topology /\ t.name \in ToSet(MeshNamesOf(c))
    BY <1>6, SelectedThere
  <2> QED
    BY <1>6, <2>1, WrittenGrown
<1> QED
  BY <1>2, <1>3, <1>4, <1>5, <1>6

(* A group that was written, and no variable of its name was there: its    *)
(* variables make the group that was closed.                               *)
LEMMA NewGroupRead ==
    ASSUME NEW c \in Content, ContentSound(c), GroupsComplete(c), NEW g \in Groups,
           NEW i \in DOMAIN c.meshes, SizeOf(c.meshes[i], g.place) > 0,
           TimesFit(c, g), g.times # <<>>, ~NameTaken(c, c.meshes[i], g, PartsOf(g)[1]),
           NEW d, d = Written(c, c.meshes[i], g, Len(g.times)), PlainNames(d)
    PROVE  LET L == Len(c.variables)
               t == c.meshes[i]
           IN  /\ Named(d, t, g.name) = {L + k : k \in DOMAIN PartsOf(g)}
               /\ First(Named(d, t, g.name)) = L + 1
               /\ L + 1 # 0 /\ \A k \in DOMAIN PartsOf(g) :
                     /\ d.variables[L + k] = NewVariable(g, t, PartsOf(g)[k], Len(g.times))
                     /\ PartRead(d.variables[L + k]) = PartsOf(g)[k]
<1> DEFINE L == Len(c.variables)
           t == c.meshes[i]
           is == Named(d, t, g.name)
           new == {L + k : k \in DOMAIN PartsOf(g)}
<1>1. /\ t \in Topology /\ t.name \in ToSet(MeshNamesOf(c)) /\ L \in Nat
      /\ g \in Group /\ Len(g.times) \in Nat /\ g.name \in Names
  <2>1. g \in Group
    BY UgridAssumption
  <2>2. t \in Topology /\ t.name \in ToSet(MeshNamesOf(c))
    BY NamesOfMeshes DEF ToSet
  <2> QED
    BY <2>1, <2>2, VariablesOf, LenProperties DEF Group
<1>2. d \in Content /\ Extends(d, c) /\ Grown(d, c, t, g)
  BY <1>1, WrittenSound, WrittenGrown
<1>3. /\ d.timed
      /\ \A j \in DOMAIN d.variables : j \notin DOMAIN c.variables => j - L \in DOMAIN PartsOf(g)
      /\ \A k \in DOMAIN PartsOf(g) :
            /\ L + k \in DOMAIN d.variables
            /\ d.variables[L + k] = NewVariable(g, t, PartsOf(g)[k], Len(g.times))
  BY <1>1, WrittenPlaces
<1>4. DOMAIN PartsOf(g) \in SUBSET (Nat \ {0}) /\ 1 \in DOMAIN PartsOf(g)
  BY PartsAre
<1>5. ASSUME NEW k \in DOMAIN PartsOf(g)
      PROVE  L + k \in is /\ L + k \notin DOMAIN c.variables
             /\ PartRead(d.variables[L + k]) = PartsOf(g)[k]
  <2> DEFINE v == d.variables[L + k]
  <2>1. /\ L + k \in DOMAIN d.variables /\ v.name = g.name /\ v.part = PartsOf(g)[k]
        /\ v.mesh = t.name /\ v.place = g.place /\ v.order = "first"
    <3>1. L + k \in DOMAIN d.variables /\ v = NewVariable(g, t, PartsOf(g)[k], Len(g.times))
      BY <1>3
    <3> HIDE DEF v, t
    <3> QED
      BY <3>1 DEF NewVariable
  <2>2. g.place = "face" => t.dim = 2
    BY DEF SizeOf
  <2>3. OnMesh(d, t, L + k)
    BY <1>3, <2>1, <2>2 DEF OnMesh
  <2>4. L + k \notin DOMAIN c.variables
    BY <1>1, <1>4, VariablesOf
  <2> QED
    BY <2>1, <2>3, <2>4, PlainRead DEF Named
<1>6. ASSUME Named(c, t, g.name) # {} PROVE FALSE
  <2>1. Complete(c, t, g.name)
    BY <1>1, <1>6 DEF GroupsComplete
  <2>2. is = Named(c, t, g.name)
    BY <1>2, <1>6, <2>1, NamedSame
  <2>3. is \subseteq DOMAIN c.variables
    BY <2>2 DEF Named
  <2> QED
    BY <1>4, <1>5, <2>3
<1>7. is \subseteq new
  <2> SUFFICES ASSUME NEW j \in is PROVE j \in new
    OBVIOUS
  <2>1. j \in DOMAIN d.variables /\ j \notin DOMAIN c.variables
    <3>1. j \in DOMAIN d.variables
      BY DEF Named
    <3>2. j \in DOMAIN c.variables => j \in Named(c, t, g.name)
      BY <1>2, NamedStay
    <3> QED
      BY <1>6, <3>1, <3>2
  <2>2. j - L \in DOMAIN PartsOf(g) /\ j \in Int
    BY <1>2, <1>3, <2>1, VariablesOf
  <2>3. j = L + (j - L)
    BY <1>1, <2>2
  <2> QED
    BY <2>2, <2>3
<1>8. is = new
  BY <1>5, <1>7
<1>9. First(is) = L + 1
  <2>1. is \in SUBSET (1..Len(d.variables)) /\ Len(d.variables) \in Nat /\ L + 1 \in is
    BY <1>2, <1>4, <1>5, NamedPlaces, VariablesOf
  <2>2. First(is) \in is /\ First(is) <= L + 1
    BY <2>1, FirstIn
  <2>3. \A j \in is : j \in Nat /\ j >= L + 1
    BY <1>1, <1>4, <1>8
  <2> QED
    BY <1>1, <2>2, <2>3
<1> HIDE DEF is, new
<1>10. L + 1 # 0
  BY <1>1
<1> QED
  BY <1>3, <1>5, <1>8, <1>9, <1>10 DEF is, new

LEMMA LastOfOne == ASSUME NEW i \in Nat PROVE LastOr0({i}) = i
BY DEF LastOr0

LEMMA NewComponents ==
    ASSUME NEW c \in Content, ContentSound(c), GroupsComplete(c), NEW g \in Groups,
           NEW i \in DOMAIN c.meshes, SizeOf(c.meshes[i], g.place) > 0,
           TimesFit(c, g), g.times # <<>>, ~NameTaken(c, c.meshes[i], g, PartsOf(g)[1]),
           NEW d, d = Written(c, c.meshes[i], g, Len(g.times)), PlainNames(d)
    PROVE  LET L == Len(c.variables)
               t == c.meshes[i]
               k == Components(d, t, g.name)
           IN  /\ k.first = d.variables[L + 1] /\ k.vector = g.vector
               /\ k.x = L + 1 /\ Named(d, t, g.name) # {}
               /\ g.vector => k.y = L + 2
<1> DEFINE L == Len(c.variables)
           t == c.meshes[i]
           is == Named(d, t, g.name)
<1>1. /\ is = {L + k : k \in DOMAIN PartsOf(g)} /\ First(is) = L + 1
      /\ \A k \in DOMAIN PartsOf(g) : PartRead(d.variables[L + k]) = PartsOf(g)[k]
  BY NewGroupRead
<1>2. L \in Nat
  BY VariablesOf
<1>3. g.vector \in BOOLEAN
  <2>1. g \in Group
    BY UgridAssumption
  <2> QED
    BY <2>1 DEF Group
<1> HIDE DEF is, L, t
<1> DEFINE k == Components(d, t, g.name)
<1>4. /\ k.first = d.variables[First(is)]
      /\ k.vector = (PartRead(d.variables[First(is)]) # "s" /\ LastOr0(Taking(d, is, "y")) # 0)
      /\ k.x = LastOr0(Taking(d, is, "x")) /\ k.y = LastOr0(Taking(d, is, "y"))
  BY DEF Components, is
<1> SUFFICES /\ k.first = d.variables[L + 1] /\ k.vector = g.vector
             /\ k.x = L + 1 /\ is # {}
             /\ g.vector => k.y = L + 2
  BY DEF is, L, t
<1> HIDE DEF k
<1>5. CASE g.vector
  <2>1. is = {L + 1, L + 2}
    BY <1>1, <1>5, PartsAre
  <2>2. PartRead(d.variables[L + 1]) = "x" /\ PartRead(d.variables[L + 2]) = "y"
    BY <1>1, <1>5, PartsAre
  <2>3. Taking(d, is, "x") = {L + 1} /\ Taking(d, is, "y") = {L + 2}
    BY <1>1, <1>2, <2>1, <2>2 DEF Taking
  <2>4. L + 1 \in Nat /\ L + 2 \in Nat /\ L + 2 # 0
    BY <1>2
  <2>5. LastOr0(Taking(d, is, "x")) = L + 1 /\ LastOr0(Taking(d, is, "y")) = L + 2
    BY <2>3, <2>4, LastOfOne
  <2>6. is # {}
    BY <2>1
  <2> QED
    BY <1>1, <1>4, <1>5, <2>2, <2>4, <2>5, <2>6
<1>6. CASE ~g.vector
  <2>1. is = {L + 1}
    BY <1>1, <1>6, PartsAre
  <2>2. PartRead(d.variables[L + 1]) = "s"
    BY <1>1, <1>6, PartsAre
  <2>3. Taking(d, is, "x") = {L + 1}
    BY <1>1, <2>1, <2>2 DEF Taking
  <2>4. L + 1 \in Nat
    BY <1>2
  <2>5. LastOr0(Taking(d, is, "x")) = L + 1
    BY <2>3, <2>4, LastOfOne
  <2>6. is # {}
    BY <2>1
  <2> QED
    BY <1>1, <1>3, <1>4, <1>6, <2>2, <2>5, <2>6
<1> QED
  BY <1>5, <1>6

LEMMA NewIn ==
    ASSUME NEW c \in Content, ContentSound(c), GroupsComplete(c), MeshesDiffer(c),
           NEW g \in Groups, NEW name \in MeshNames \cup {Unnamed},
           Writes(c, name, g), g.times # <<>>,
           NEW d, d = Written(c, Selected(c, name), g, Len(g.times)), PlainNames(d)
    PROVE  IsIn(Promise(g, Selected(c, name)), d)
<1> DEFINE L == Len(c.variables)
           t == Selected(c, name)
           p == Promise(g, t)
           k == Components(d, t, g.name)
           v == d.variables[L + 1]
<1>1. PICK i \in DOMAIN c.meshes : t = c.meshes[i]
  BY SelectedIs DEF Writes, Selectable
<1>2. /\ t \in Topology /\ t.name \in MeshNames /\ t.name # Unnamed
      /\ t.name \in ToSet(MeshNamesOf(c)) /\ c.meshes # <<>>
  <2>1. t \in Topology /\ t.name \in ToSet(MeshNamesOf(c)) /\ c.meshes # <<>>
    BY SelectedThere DEF Writes, Selectable, MeshFound
  <2> QED
    BY <2>1, UgridAssumption DEF Topology
<1>3. /\ TimesFit(c, g) /\ SizeOf(t, g.place) > 0 /\ ~NameTaken(c, t, g, PartsOf(g)[1])
  <2>1. PartsOf(g)[1] \in ToSet(PartsOf(g))
    BY PartsAre DEF ToSet
  <2> QED
    BY <2>1 DEF Writes
<1>4. /\ g \in Group /\ g.times \in Seq(Nat) /\ Len(g.times) \in Nat /\ Len(g.times) > 0
      /\ g.place \in {"node", "face"} /\ L \in Nat
  <2>1. g \in Group
    BY UgridAssumption
  <2>2. g.times \in Seq(Nat) /\ g.place \in {"node", "face"}
    BY <2>1 DEF Group
  <2> QED
    BY <2>1, <2>2, VariablesOf
<1>5. d \in Content /\ Grown(d, c, t, g) /\ d.meshes = c.meshes
  BY <1>2, <1>3, <1>4, WrittenSound, WrittenGrown DEF Extends
<1>6. Selected(d, t.name) = t /\ Selectable(d, t.name)
  <2>1. MeshFound(c, t.name)
    BY <1>2 DEF MeshFound
  <2>2. PICK j \in DOMAIN c.meshes : Selected(c, t.name) = c.meshes[j] /\ c.meshes[j].name = t.name
    BY <1>2, <2>1, SelectedIs
  <2>3. j = i
    BY <1>1, <2>2 DEF MeshesDiffer
  <2>4. Selected(c, t.name) = t
    BY <1>1, <2>2, <2>3
  <2>5. t.coordinates
    BY DEF Writes, Selectable
  <2>6. Selectable(c, t.name)
    BY <2>1, <2>4, <2>5 DEF Selectable
  <2> HIDE DEF t
  <2> QED
    BY <1>5, <2>4, <2>6, SameMeshes
<1>7. Loads(d, t.name)
  <2>1. GroupsComplete(d)
    BY <1>5, GrownComplete
  <2> QED
    BY <1>2, <1>5, <1>6, <2>1, AllLoads
<1>8. /\ k.first = v /\ k.vector = g.vector /\ k.x = L + 1
      /\ Named(d, t, g.name) # {}
      /\ g.vector => k.y = L + 2
  BY <1>1, <1>3, NewComponents
<1>9. /\ \A q \in DOMAIN PartsOf(g) :
            d.variables[L + q] = NewVariable(g, t, PartsOf(g)[q], Len(g.times))
      /\ d.timed
      /\ d.times = IF NeedsTime(c) /\ Len(g.times) > 0 THEN g.times ELSE c.times
  BY <1>2, <1>4, WrittenPlaces
<1>10. /\ v.place = g.place /\ v.order = "first" /\ v.written = Len(g.times)
       /\ Value(v) = <<g.name, PartsOf(g)[1]>>
  <2>1. v = NewVariable(g, t, PartsOf(g)[1], Len(g.times))
    <3>1. 1 \in DOMAIN PartsOf(g)
      BY PartsAre
    <3> QED
      BY <1>9, <3>1
  <2> HIDE DEF v, t
  <2> QED
    BY <2>1 DEF NewVariable, Value
<1>11. g.vector => Value(d.variables[L + 2]) = <<g.name, PartsOf(g)[2]>>
  <2> SUFFICES ASSUME g.vector
               PROVE  Value(d.variables[L + 2]) = <<g.name, PartsOf(g)[2]>>
    OBVIOUS
  <2>1. 2 \in DOMAIN PartsOf(g)
    BY PartsAre
  <2>2. d.variables[L + 2] = NewVariable(g, t, PartsOf(g)[2], Len(g.times))
    BY <1>9, <2>1
  <2> HIDE DEF t
  <2> QED
    BY <2>2 DEF NewVariable, Value
<1>12. /\ d.times # <<>> /\ Len(g.times) <= Len(d.times) /\ Len(d.times) \in Nat
       /\ Len(g.times) > 1 => d.times = g.times
  <2>1. CASE NeedsTime(c)
    BY <1>4, <1>9, <2>1
  <2>2. CASE ~NeedsTime(c)
    <3>1. d.times = c.times /\ c.times # <<>> /\ c.times \in Seq(Nat)
      BY <1>9, <2>2 DEF NeedsTime, Content
    <3>2. Len(g.times) = 1 \/ g.times = c.times
      BY <1>3, <2>2 DEF TimesFit
    <3>3. Len(c.times) >= 1 /\ Len(c.times) \in Nat
      BY <3>1
    <3>4. CASE Len(g.times) = 1
      BY <3>1, <3>3, <3>4
    <3>5. CASE g.times = c.times
      BY <1>4, <3>1, <3>3, <3>5
    <3> QED
      BY <3>2, <3>4, <3>5
  <2> QED
    BY <2>1, <2>2
<1> HIDE DEF k, v
<1>13. StepsOf(d, k.first) = Len(d.times) /\ Len(d.times) > 0
  BY <1>4, <1>8, <1>10, <1>12 DEF StepsOf
<1>14. g.name \in GroupNames(d, t)
  BY <1>4, <1>8, <1>10, <1>13, GroupNamesAre DEF k
<1> DEFINE r == ReadGroup(d, t, g.name)
<1>15. /\ r.place = k.first.place /\ r.vector = k.vector
       /\ r.times = IF ~d.timed \/ d.times = <<>> THEN <<>>
                    ELSE IF k.first.order = "static" THEN <<d.times[1]>> ELSE d.times
       /\ r.steps = StepsOf(d, k.first)
       /\ r.holds = IF ~k.vector THEN <<Reading(d, k.x)>>
                    ELSE IF k.first.order = "static" THEN <<Reading(d, k.x), Reading(d, k.x)>>
                    ELSE <<Reading(d, k.x), Reading(d, k.y)>>
       /\ r.written = IF k.x = 0 THEN 0 ELSE d.variables[k.x].written
  BY DEF ReadGroup, k
<1>16. Reading(d, k.x) = <<g.name, PartsOf(g)[1]>> /\ k.x # 0
  BY <1>4, <1>8, <1>10 DEF Reading, v
<1>17. g.vector => Reading(d, k.y) = <<g.name, PartsOf(g)[2]>>
  BY <1>4, <1>8, <1>11 DEF Reading
<1> HIDE DEF r
<1>18. r.holds = [q \in DOMAIN PartsOf(g) |-> <<g.name, PartsOf(g)[q]>>]
  <2>1. CASE g.vector
    <3>1. r.holds = << <<g.name, "x">>, <<g.name, "y">> >>
      BY <1>8, <1>10, <1>15, <1>16, <1>17, <2>1, PartsAre
    <3>2. PartsOf(g) = <<"x", "y">>
      BY <2>1 DEF PartsOf
    <3> QED
      BY <3>1, <3>2
  <2>2. CASE ~g.vector
    <3>1. r.holds = << <<g.name, "s">> >>
      BY <1>8, <1>15, <1>16, <2>2, PartsAre
    <3>2. PartsOf(g) = <<"s">>
      BY <2>2 DEF PartsOf
    <3> QED
      BY <3>1, <3>2
  <2> QED
    BY <2>1, <2>2
<1>19. /\ r.vector = g.vector /\ r.place = g.place /\ r.written = Len(g.times)
       /\ Len(g.times) <= r.steps
       /\ Len(g.times) > 1 => r.times = g.times
  BY <1>8, <1>9, <1>10, <1>12, <1>13, <1>15, <1>16 DEF v
<1>20. /\ LoadedGroups(d, t.name) = [n \in GroupNames(d, t) |-> ReadGroup(d, t, n)]
  BY <1>6 DEF LoadedGroups
<1>21. /\ g.name \in DOMAIN LoadedGroups(d, t.name)
       /\ LoadedGroups(d, t.name)[g.name] = r
  BY <1>14, <1>20 DEF r
<1>22. /\ p.name = g.name /\ p.vector = g.vector /\ p.place = g.place /\ p.mesh = t.name
       /\ p.times = g.times /\ PartsOf(p) = PartsOf(g)
  BY DEF Promise, PartsOf
<1> HIDE DEF p, t
<1>23. IsIn(p, d)
  BY <1>7, <1>18, <1>19, <1>21, <1>22 DEF IsIn
<1> QED
  BY <1>23 DEF p, t

-----------------------------------------------------------------------------
(* What a file must be for its groups to be read: where its names are      *)
(* plain, no group of it lacks a component.                                *)
FileReads(c) == MeshesDiffer(c) /\ (PlainNames(c) => GroupsComplete(c))

HasAll(c, ps) == PlainNames(c) => \A p \in ps : p.times # <<>> => IsIn(p, c)

FilesRead == (\A f \in Files : FileReads(disk[f])) /\ FileReads(driver.others)

(* What was promised is in the files, and also in what would be left of    *)
(* the file that the driver has open if the process was killed; there is   *)
(* nothing promised of a file that was made anew beneath it.               *)
PromisesHeld ==
    /\ \A f \in Files : HasAll(disk[f], Reported(f))
    /\ driver.open /\ ~driver.beneath => HasAll(driver.others, promised[driver.file])
    /\ driver.beneath => promised[driver.file] = {}

UgridReads == FilesRead /\ PromisesHeld

LEMMA EmptyReads ==
    ASSUME NEW c, c.meshes = <<>>, c.variables = <<>>
    PROVE  /\ FileReads(c)
           /\ \A ps \in SUBSET PromiseRecord : HasAll(c, ps) => \A p \in ps : p.times = <<>>
<1>1. PlainNames(c) /\ MeshesDiffer(c) /\ GroupsComplete(c)
  BY DEF PlainNames, MeshesDiffer, GroupsComplete
<1>2. \A p : ~IsIn(p, c)
  BY DEF IsIn, Loads, Selectable, MeshFound
<1> QED
  BY <1>1, <1>2 DEF FileReads, HasAll

LEMMA NothingRead ==
    /\ FileReads(NoFile) /\ FileReads(Damaged)
    /\ NoFile.meshes = <<>> /\ NoFile.variables = <<>>
    /\ Damaged.meshes = <<>> /\ Damaged.variables = <<>>
<1>1. /\ NoFile.meshes = <<>> /\ NoFile.variables = <<>>
      /\ Damaged.meshes = <<>> /\ Damaged.variables = <<>>
  BY DEF NoFile, Damaged
<1> QED
  BY <1>1, EmptyReads

LEMMA SavedMeshReads ==
    ASSUME NEW m, NEW name
    PROVE  FileReads(SavedMesh(m, name))
<1> DEFINE c == SavedMesh(m, name)
<1>1. c.variables = <<>> /\ \E t : c.meshes = <<t>>
  BY DEF SavedMesh, NoFile
<1> HIDE DEF c
<1>2. \A u, n : Named(c, u, n) = {}
  BY <1>1 DEF Named
<1>3. FileReads(c)
  BY <1>1, <1>2 DEF FileReads, MeshesDiffer, GroupsComplete
<1> QED
  BY <1>3 DEF c

LEMMA GrownReads ==
    ASSUME NEW c \in Content, ContentSound(c), FileReads(c),
           NEW d \in Content, NEW g, NEW t, Grown(d, c, t, g)
    PROVE  /\ FileReads(d)
           /\ \A ps \in SUBSET PromiseRecord : HasAll(c, ps) => HasAll(d, ps)
<1>1. Extends(d, c) /\ MeshesDiffer(d)
  <2>1. Extends(d, c) /\ d.meshes = c.meshes
    BY DEF Grown, Extends
  <2> QED
    BY <2>1, SameMeshes DEF FileReads
<1>2. ASSUME PlainNames(d) PROVE PlainNames(c) /\ GroupsComplete(c) /\ GroupsComplete(d)
  <2>1. PlainNames(c)
    BY <1>1, <1>2, PlainBefore
  <2> QED
    BY <1>2, <2>1, GrownComplete DEF FileReads
<1>3. ASSUME NEW ps \in SUBSET PromiseRecord, HasAll(c, ps), PlainNames(d),
             NEW p \in ps, p.times # <<>>
      PROVE  IsIn(p, d)
  <2>1. IsIn(p, c)
    BY <1>2, <1>3 DEF HasAll
  <2> QED
    BY <1>2, <1>3, <2>1, InGrown
<1> QED
  BY <1>1, <1>2, <1>3 DEF FileReads, HasAll

LEMMA PromisesTyped ==
    ASSUME UgridInv
    PROVE  \A f \in Files : /\ Reported(f) \in SUBSET PromiseRecord
                            /\ Kept[f] \in SUBSET PromiseRecord
<1>1. promised \in [Files -> SUBSET PromiseRecord] /\ driver.wrote \in SUBSET PromiseRecord
  BY DEF UgridInv, DriverSound, Driver
<1> QED
  BY <1>1 DEF Reported, Kept

(* When the driver closes its file, what it wrote to it is promised.       *)
LEMMA ClosesReads ==
    ASSUME UgridInv, UgridReads, NEW files \in DriverCloses(disk), NEW f \in Files
    PROVE  FileReads(files[f]) /\ HasAll(files[f], Kept[f])
<1>1. promised \in [Files -> SUBSET PromiseRecord] /\ driver.file \in Files
  BY DEF UgridInv, DriverSound, Driver
<1>2. files[f] = disk[f] \/ files[f] = Damaged
  BY DriverClosesSound
<1>3. FileReads(files[f])
  BY <1>2, NothingRead DEF UgridReads, FilesRead
<1>4. HasAll(disk[f], Reported(f))
  BY DEF UgridReads, PromisesHeld
<1>5. CASE driver.open /\ driver.beneath
  <2>1. Kept = promised
    BY <1>5 DEF Kept
  <2>2. CASE f = driver.file
    <3>1. Kept[f] = {}
      BY <1>5, <2>1, <2>2 DEF UgridReads, PromisesHeld
    <3> QED
      BY <1>3, <3>1 DEF HasAll
  <2>3. CASE f # driver.file
    <3>1. files[f] = disk[f]
      BY <1>5, <2>3 DEF DriverCloses, UgridInv, FilesSound
    <3>2. promised[f] \subseteq Reported(f)
      BY DEF Reported
    <3>3. HasAll(disk[f], promised[f])
      BY <1>4, <3>2 DEF HasAll
    <3> QED
      BY <1>3, <2>1, <3>1, <3>3
  <2> QED
    BY <1>3, <2>2, <2>3
<1>6. CASE ~(driver.open /\ driver.beneath)
  <2>1. files[f] = disk[f]
    BY <1>6 DEF DriverCloses
  <2>2. Kept[f] = Reported(f)
    BY <1>1, <1>6 DEF Kept, Reported
  <2> QED
    BY <1>3, <1>4, <2>1, <2>2
<1> QED
  BY <1>5, <1>6

LEMMA ReportedClosed ==
    ASSUME NEW r, driver' = Closed(r), NEW f
    PROVE  Reported(f)' = promised'[f]
BY DEF Reported, Closed

(* One that makes the driver close its file and does no more.              *)
LEMMA ClosedReads ==
    ASSUME UgridInv, UgridReads, NEW files \in DriverCloses(disk), disk' = files,
           NEW r \in MeshNames \cup {Unnamed}, driver' = Closed(r), promised' = Kept
    PROVE  UgridReads'
<1>1. ~driver'.open /\ ~driver'.beneath /\ driver'.others = NoFile
  BY ClosedSound
<1>2. \A f \in Files : FileReads(disk'[f]) /\ HasAll(disk'[f], Reported(f)')
  BY ClosesReads, ReportedClosed
<1> QED
  BY <1>1, <1>2, NothingRead DEF UgridReads, FilesRead, PromisesHeld

(* Whether it is written or not, the group grows the file, and what others *)
(* see of it.                                                              *)
LEMMA WriteGroupGrows ==
    ASSUME NEW files, NEW f \in Files, NEW c \in Content, ContentSound(c),
           NEW name \in MeshNames \cup {Unnamed}, NEW g \in Groups,
           WriteGroup(files, f, c, name, g)
    PROVE  /\ \E d \in Content :
                 /\ disk' = [files EXCEPT ![f] = d]
                 /\ Grown(d, c, Selected(c, name), g)
                 /\ FileReads(c) => HasAll(d, driver'.wrote)
           /\ driver'.others \in Content
           /\ Grown(driver'.others, c, Selected(c, name), g)
           /\ driver'.open /\ ~driver'.beneath /\ driver'.file = f
<1> DEFINE t == Selected(c, name)
<1>1. driver'.others \in Content /\ driver'.open /\ ~driver'.beneath /\ driver'.file = f
  BY WriteGroupSound DEF Driver
<1>2. CASE Writes(c, name, g)
  <2> DEFINE d == Written(c, t, g, Len(g.times))
  <2>1. t \in Topology /\ t.name \in ToSet(MeshNamesOf(c))
    BY <1>2, SelectedThere DEF Writes
  <2>2. TimesFit(c, g) /\ ~NameTaken(c, t, g, PartsOf(g)[1])
    <3>1. PartsOf(g)[1] \in ToSet(PartsOf(g))
      BY PartsAre DEF ToSet
    <3> QED
      BY <1>2, <3>1 DEF Writes
  <2>3. /\ disk' = [files EXCEPT ![f] = d]
        /\ driver' = Opened(f, name, Written(c, t, g, 0), {Promise(g, t)})
    BY <1>2 DEF WriteGroup
  <2>4. driver'.others = Written(c, t, g, 0) /\ driver'.wrote = {Promise(g, t)}
    BY <2>3 DEF Opened
  <2>5. d \in Content /\ Grown(d, c, t, g) /\ Grown(Written(c, t, g, 0), c, t, g)
    BY <2>1, <2>2, WrittenSound, WrittenGrown
  <2>6. ASSUME FileReads(c), PlainNames(d), g.times # <<>>
        PROVE  IsIn(Promise(g, t), d)
    <3>1. GroupsComplete(c) /\ MeshesDiffer(c)
      <4>1. PlainNames(c)
        BY <2>5, <2>6, PlainBefore DEF Grown
      <4> QED
        BY <2>6, <4>1 DEF FileReads
    <3> HIDE DEF d
    <3> QED
      BY <1>2, <2>6, <3>1, NewIn DEF d
  <2>7. Promise(g, t).times = g.times
    BY DEF Promise
  <2>8. FileReads(c) => HasAll(d, driver'.wrote)
    BY <2>4, <2>6, <2>7 DEF HasAll
  <2> HIDE DEF d, t
  <2> QED
    BY <1>1, <2>3, <2>4, <2>5, <2>8 DEF t
<1>3. CASE ~Writes(c, name, g)
  <2>1. /\ disk' = [files EXCEPT ![f] = FailedWrite(c, name, g)]
        /\ driver' = Opened(f, name, c, {})
    BY <1>3 DEF WriteGroup
  <2>2. driver'.others = c /\ driver'.wrote = {}
    BY <2>1 DEF Opened
  <2>3. FailedWrite(c, name, g) \in Content /\ Grown(FailedWrite(c, name, g), c, t, g)
    BY FailedWriteSound, FailedGrown
  <2>4. HasAll(FailedWrite(c, name, g), driver'.wrote)
    BY <2>2 DEF HasAll
  <2>5. Grown(c, c, t, g)
    BY GrownItself
  <2> HIDE DEF t
  <2> QED
    BY <1>1, <2>1, <2>2, <2>3, <2>4, <2>5 DEF t
<1> QED
  BY <1>2, <1>3

LEMMA GroupAdded ==
    ASSUME UgridInv, UgridReads, NEW files \in DriverCloses(disk), NEW f \in Files,
           NEW c \in Content, ContentSound(c), FileReads(c), HasAll(c, Kept[f]),
           NEW name \in MeshNames \cup {Unnamed}, NEW g \in Groups,
           WriteGroup(files, f, c, name, g), promised' = Kept
    PROVE  UgridReads'
<1> DEFINE t == Selected(c, name)
<1>1. PICK d \in Content : /\ disk' = [files EXCEPT ![f] = d]
                           /\ Grown(d, c, t, g) /\ HasAll(d, driver'.wrote)
  BY WriteGroupGrows
<1>2. /\ driver'.others \in Content /\ Grown(driver'.others, c, t, g)
      /\ driver'.open /\ ~driver'.beneath /\ driver'.file = f
  BY WriteGroupGrows
<1> HIDE DEF t
<1>3. Kept[f] \in SUBSET PromiseRecord
  BY PromisesTyped
<1>4. FileReads(d) /\ HasAll(d, Kept[f])
  BY <1>1, <1>3, GrownReads
<1>5. FileReads(driver'.others) /\ HasAll(driver'.others, Kept[f])
  BY <1>2, <1>3, GrownReads
<1>6. files \in [Files -> Content]
  BY DriverClosesSound
<1>7. ASSUME NEW e \in Files PROVE FileReads(disk'[e]) /\ HasAll(disk'[e], Reported(e)')
  <2>1. CASE e = f
    <3>1. disk'[e] = d /\ Reported(e)' = Kept[f] \cup driver'.wrote
      BY <1>1, <1>2, <1>6, <2>1 DEF Reported
    <3> QED
      BY <1>1, <1>4, <3>1 DEF HasAll
  <2>2. CASE e # f
    <3>1. disk'[e] = files[e] /\ Reported(e)' = Kept[e]
      BY <1>1, <1>2, <1>6, <2>2 DEF Reported
    <3> QED
      BY <3>1, ClosesReads
  <2> QED
    BY <2>1, <2>2
<1> QED
  BY <1>2, <1>5, <1>7 DEF UgridReads, FilesRead, PromisesHeld

LEMMA UgridReadsInit == UgridInit => UgridReads
<1> SUFFICES ASSUME UgridInit PROVE UgridReads
  OBVIOUS
<1>1. \A f \in Files : FileReads(disk[f]) /\ Reported(f) = {}
  <2> SUFFICES ASSUME NEW f \in Files PROVE FileReads(disk[f]) /\ Reported(f) = {}
    OBVIOUS
  <2>1. disk[f] = NoFile \/ disk[f] \in Foreign
    BY DEF UgridInit
  <2>2. Reported(f) = {}
    BY DEF Reported, Closed, UgridInit
  <2> QED
    BY <2>1, <2>2, ForeignAssumption, NothingRead DEF FileReads
<1>2. driver.others = NoFile /\ ~driver.open /\ ~driver.beneath
  BY ClosedSound DEF UgridInit
<1> QED
  BY <1>1, <1>2, NothingRead DEF UgridReads, FilesRead, PromisesHeld, HasAll

(* A call that touches neither the files nor the driver.                   *)
LEMMA ReadsUntouched ==
    ASSUME UgridReads, UNCHANGED <<disk, driver, promised>>
    PROVE  UgridReads'
BY DEF UgridReads, FilesRead, PromisesHeld, Reported

LEMMA SaveMeshReads ==
    ASSUME UgridInv, UgridReads, NEW f \in Files, NEW name \in Asked, SaveMesh(f, name)
    PROVE  UgridReads'
<1> DEFINE c == SavedMesh(mesh, SavedName(name))
<1>1. /\ disk' = [disk EXCEPT ![f] = c] /\ promised' = [promised EXCEPT ![f] = {}]
      /\ driver' = IF driver.open /\ driver.file = f
                   THEN [driver EXCEPT !.beneath = TRUE] ELSE driver
  BY DEF SaveMesh
<1>2. FileReads(c)
  BY SavedMeshReads
<1> HIDE DEF c
<1>3. /\ driver \in Driver /\ (driver.beneath => driver.open)
      /\ disk \in [Files -> Content] /\ promised \in [Files -> SUBSET PromiseRecord]
  BY DEF UgridInv, DriverSound, FilesSound
<1>4. /\ driver'.others = driver.others /\ driver'.file = driver.file
      /\ driver'.wrote = driver.wrote /\ (driver'.open <=> driver.open)
      /\ driver'.beneath <=> (driver.beneath \/ (driver.open /\ driver.file = f))
  <2>1. CASE driver.open /\ driver.file = f
    <3>1. driver' = [driver EXCEPT !.beneath = TRUE]
      BY <1>1, <2>1
    <3>2. /\ driver'.others = driver.others /\ driver'.file = driver.file
          /\ driver'.wrote = driver.wrote
      BY <1>3, <3>1 DEF Driver
    <3>3. driver'.open <=> driver.open
      BY <1>3, <3>1 DEF Driver
    <3>4. driver'.beneath
      BY <1>3, <3>1 DEF Driver
    <3> QED
      BY <2>1, <3>2, <3>3, <3>4
  <2>2. CASE ~(driver.open /\ driver.file = f)
    <3>1. driver' = driver
      BY <1>1, <2>2
    <3> QED
      BY <2>2, <3>1
  <2> QED
    BY <2>1, <2>2
<1>5. disk'[f] = c /\ Reported(f)' = {}
  BY <1>1, <1>3, <1>4 DEF Reported
<1>6. ASSUME NEW e \in Files, e # f
      PROVE  disk'[e] = disk[e] /\ Reported(e)' = Reported(e) /\ promised'[e] = promised[e]
  <2>1. disk'[e] = disk[e] /\ promised'[e] = promised[e]
    BY <1>1, <1>3, <1>6
  <2>2. (driver'.open /\ driver'.file = e /\ ~driver'.beneath)
        <=> (driver.open /\ driver.file = e /\ ~driver.beneath)
    BY <1>4, <1>6
  <2>3. Reported(e)' = promised'[e]
                       \cup (IF driver'.open /\ driver'.file = e /\ ~driver'.beneath
                             THEN driver'.wrote ELSE {})
    BY DEF Reported
  <2>4. Reported(e) = promised[e]
                      \cup (IF driver.open /\ driver.file = e /\ ~driver.beneath
                            THEN driver.wrote ELSE {})
    BY DEF Reported
  <2> QED
    BY <1>4, <2>1, <2>2, <2>3, <2>4
<1>7. FilesRead'
  <2>1. \A e \in Files : FileReads(disk'[e])
    BY <1>2, <1>5, <1>6 DEF UgridReads, FilesRead
  <2> QED
    BY <1>4, <2>1 DEF UgridReads, FilesRead
<1>8. \A e \in Files : HasAll(disk'[e], Reported(e)')
  BY <1>5, <1>6 DEF UgridReads, PromisesHeld, HasAll
<1>9. CASE driver.open /\ driver.file = f
  <2>1. promised'[driver.file] = {} /\ driver'.beneath
    BY <1>1, <1>3, <1>4, <1>9
  <2> QED
    BY <1>4, <1>7, <1>8, <2>1 DEF UgridReads, PromisesHeld
<1>10. CASE ~(driver.open /\ driver.file = f)
  <2>1. driver' = driver
    BY <1>1, <1>10
  <2>2. driver.open => promised'[driver.file] = promised[driver.file]
    BY <1>3, <1>6, <1>10 DEF Driver
  <2> QED
    BY <1>3, <1>7, <1>8, <2>1, <2>2 DEF UgridReads, PromisesHeld
<1> QED
  BY <1>9, <1>10

LEMMA ClosesRead ==
    ASSUME UgridInv, UgridReads, NEW f \in Files, NEW name \in Asked, NEW g \in Groups
    PROVE  CloseEditMode(f, name, g) \/ CloseEditModeAsNew(f, name, g) => UgridReads'
<1>1. CASE CloseEditMode(f, name, g)
  <2>1. PICK files \in DriverCloses(disk) : WriteGroup(files, f, files[f], name, g)
    BY <1>1 DEF CloseEditMode
  <2>2. promised' = Kept
    BY <1>1 DEF CloseEditMode
  <2>3. files[f] \in Content /\ ContentSound(files[f])
    BY DriverClosesSound
  <2>4. FileReads(files[f]) /\ HasAll(files[f], Kept[f])
    BY ClosesReads
  <2> QED
    BY <2>1, <2>2, <2>3, <2>4, AskedTyped, GroupAdded
<1>2. CASE CloseEditModeAsNew(f, name, g)
  <2> DEFINE new == IF name = Unnamed THEN DefaultName ELSE Unspaced[name]
             c   == SavedMesh(mesh, new)
  <2>1. PICK files \in DriverCloses(disk) : WriteGroup(files, f, c, new, g)
    BY <1>2 DEF CloseEditModeAsNew
  <2>2. promised' = Kept /\ disk[f] = NoFile
    BY <1>2 DEF CloseEditModeAsNew
  <2>3. new \in MeshNames
    BY UgridAssumption
  <2>4. mesh \in MeshRecord
    BY DEF UgridInv
  <2>5. c \in Content /\ ContentSound(c) /\ FileReads(c)
    BY <2>3, <2>4, SavedMeshSound, SavedMeshReads
  (* No group with a dataset was promised of a file that is not there.    *)
  <2>6. HasAll(c, Kept[f])
    <3>1. files[f] = NoFile \/ files[f] = Damaged
      BY <2>2, DriverClosesSound
    <3>2. files[f].meshes = <<>> /\ files[f].variables = <<>>
      BY <3>1, NothingRead
    <3>3. HasAll(files[f], Kept[f]) /\ Kept[f] \in SUBSET PromiseRecord
      BY ClosesReads, PromisesTyped
    <3>4. \A p \in Kept[f] : p.times = <<>>
      BY <3>2, <3>3, EmptyReads
    <3> QED
      BY <3>4 DEF HasAll
  <2> HIDE DEF new, c
  <2> QED
    BY <2>1, <2>2, <2>3, <2>5, <2>6, GroupAdded
<1> QED
  BY <1>1, <1>2

LEMMA KilledReads ==
    ASSUME UgridInv, UgridReads, Killed
    PROVE  UgridReads'
<1>1. driver' = Closed(Unnamed) /\ promised' = promised
  BY DEF Killed
<1>2. ~driver'.open /\ ~driver'.beneath /\ driver'.others = NoFile
  BY <1>1, ClosedSound
<1>3. \A f \in Files : Reported(f)' = promised[f] /\ promised[f] \subseteq Reported(f)
  BY <1>1, ReportedClosed DEF Reported
<1>4. ASSUME NEW f \in Files PROVE FileReads(disk'[f]) /\ HasAll(disk'[f], promised[f])
  <2>1. CASE disk'[f] = disk[f]
    BY <1>3, <2>1 DEF UgridReads, FilesRead, PromisesHeld, HasAll
  <2>2. CASE disk'[f] # disk[f]
    <3>1. /\ driver.open /\ ~driver.beneath
          /\ disk' = [disk EXCEPT ![driver.file] = driver.others]
      BY <2>2 DEF Killed
    <3>2. f = driver.file /\ disk'[f] = driver.others
      BY <2>2, <3>1 DEF UgridInv, FilesSound
    <3> QED
      BY <3>1, <3>2 DEF UgridReads, FilesRead, PromisesHeld
  <2> QED
    BY <2>1, <2>2
<1>5. \A f \in Files : HasAll(disk'[f], Reported(f)')
  BY <1>3, <1>4
<1> QED
  BY <1>2, <1>4, <1>5, NothingRead DEF UgridReads, FilesRead, PromisesHeld

LEMMA UgridReadsNext ==
    ASSUME UgridInv, UgridReads, [UgridNext]_vars
    PROVE  UgridReads'
<1>1. CASE UNCHANGED <<disk, driver, promised>>
  BY <1>1, ReadsUntouched
<1>2. ASSUME NEW f \in Files, NEW name \in Asked, LoadMesh(f, name)
      PROVE  UgridReads'
  <2>1. /\ \E files \in DriverCloses(disk) : disk' = files
        /\ driver' = Closed(driver.requested) /\ promised' = Kept
    BY <1>2 DEF LoadMesh
  <2>2. driver.requested \in MeshNames \cup {Unnamed}
    BY DEF UgridInv, DriverSound, Driver
  <2> QED
    BY <2>1, <2>2, ClosedReads
<1>3. ASSUME NEW f \in Files, NEW name \in Asked, SaveMesh(f, name)
      PROVE  UgridReads'
  BY <1>3, SaveMeshReads
<1>4. ASSUME NEW f \in Files, NEW name \in Asked, NEW g \in Groups,
             CloseEditMode(f, name, g) \/ CloseEditModeAsNew(f, name, g)
      PROVE  UgridReads'
  BY <1>4, ClosesRead
<1>5. ASSUME NEW f \in Files, CloseEditModeFails(f) PROVE UgridReads'
  <2>1. disk' \in DriverCloses(disk) /\ driver' = Closed(driver.requested) /\ promised' = Kept
    BY <1>5 DEF CloseEditModeFails
  <2>2. driver.requested \in MeshNames \cup {Unnamed}
    BY DEF UgridInv, DriverSound, Driver
  <2> QED
    BY <2>1, <2>2, ClosedReads
<1>6. CASE Killed
  BY <1>6, KilledReads
<1>7. \/ UNCHANGED <<disk, driver, promised>>
      \/ \E f \in Files, name \in Asked : LoadMesh(f, name) \/ SaveMesh(f, name)
      \/ \E f \in Files, name \in Asked, g \in Groups :
            CloseEditMode(f, name, g) \/ CloseEditModeAsNew(f, name, g)
      \/ \E f \in Files : CloseEditModeFails(f)
      \/ Killed
  BY DEF UgridNext, vars, CreateMesh, CloseMesh, LoadMeshByDriver, LoadMeshMissing,
         SaveMeshNotCreated
<1> QED
  BY <1>1, <1>2, <1>3, <1>4, <1>5, <1>6, <1>7

(* The second half of the inductive invariant: files can be read, and what *)
(* was promised is in them, also in what a killed process would leave.     *)
THEOREM UgridReadsHolds == UgridSpec => [](UgridInv /\ UgridReads)
<1>1. UgridInit => UgridInv /\ UgridReads
  BY UgridInvInit, UgridReadsInit
<1>2. UgridInv /\ UgridReads /\ [UgridNext]_vars => (UgridInv /\ UgridReads)'
  BY UgridInvNext, UgridReadsNext
<1> QED
  BY <1>1, <1>2, PTL DEF UgridSpec

(* A group that a close reported as written is found in the file, with its *)
(* components, times and values (writeDatasetGroup and addDatasetGroups).  *)
THEOREM UgridGroupsReload == UgridSpec => []GroupsReload
<1>1. UgridReads => GroupsReload
  BY DEF UgridReads, PromisesHeld, HasAll, GroupsReload
<1> QED
  BY <1>1, UgridReadsHolds, PTL

-----------------------------------------------------------------------------
(* Whatever a step makes of a file, but saving a mesh or being killed: the *)
(* file is grown by a group.                                               *)
LEMMA StepGrows ==
    ASSUME UgridInv, [UgridNext]_vars, NEW f \in Files,
           disk'[f] # disk[f], disk'[f] # Damaged, disk[f] # NoFile, ~Killed,
           ~\E name \in Asked : SaveMesh(f, name)
    PROVE  \E g, t : Grown(disk'[f], disk[f], t, g)
<1>1. disk \in [Files -> Content]
  BY DEF UgridInv, FilesSound
<1>2. \A files \in DriverCloses(disk) :
         files \in [Files -> Content] /\ (files[f] = disk[f] \/ files[f] = Damaged)
  BY DriverClosesSound
<1>3. disk' \notin DriverCloses(disk)
  BY <1>2
<1>4. ~\E e \in Files, name \in Asked : SaveMesh(e, name)
  BY <1>1 DEF SaveMesh
<1>5. PICK e \in Files, name \in Asked, g \in Groups :
         CloseEditMode(e, name, g) \/ CloseEditModeAsNew(e, name, g)
  BY <1>3, <1>4 DEF UgridNext, vars, CreateMesh, CloseMesh, LoadMesh, LoadMeshByDriver,
     LoadMeshMissing, SaveMeshNotCreated, CloseEditModeFails
<1>6. PICK files \in DriverCloses(disk) : \E d : disk' = [files EXCEPT ![e] = d]
  BY <1>5 DEF CloseEditMode, CloseEditModeAsNew, WriteGroup
<1>7. e = f
  BY <1>2, <1>6
<1>8. CloseEditMode(f, name, g)
  BY <1>5, <1>7 DEF CloseEditModeAsNew
<1>9. PICK closed \in DriverCloses(disk) : WriteGroup(closed, f, closed[f], name, g)
  BY <1>8 DEF CloseEditMode
<1>10. closed[f] \in Content /\ ContentSound(closed[f]) /\ closed \in [Files -> Content]
  BY DriverClosesSound
<1>11. PICK d \in Content : /\ disk' = [closed EXCEPT ![f] = d]
                            /\ Grown(d, closed[f], Selected(closed[f], name), g)
  BY <1>9, <1>10, AskedTyped, WriteGroupGrows
(* A damaged file has no mesh, and is left as it is.                       *)
<1>12. closed[f] # Damaged
  <2> SUFFICES ASSUME closed[f] = Damaged PROVE FALSE
    OBVIOUS
  <2>1. ~Selectable(Damaged, name)
    BY NothingRead DEF Selectable, MeshFound
  <2>2. FailedWrite(Damaged, name, g) = Damaged /\ ~Writes(Damaged, name, g)
    BY <2>1 DEF FailedWrite, Writes
  <2>3. disk' = [closed EXCEPT ![f] = Damaged]
    BY <1>9, <2>2 DEF WriteGroup
  <2> QED
    BY <1>10, <2>3
<1>13. closed[f] = disk[f] /\ disk'[f] = d
  BY <1>2, <1>10, <1>11, <1>12
<1> QED
  BY <1>11, <1>13

LEMMA StepKeepsGroups ==
    ASSUME UgridInv, UgridReads, [UgridNext]_vars, NEW f \in Files,
           disk'[f] # disk[f], disk'[f] # Damaged, PlainNames(disk'[f]), ~Killed,
           ~\E name \in Asked : SaveMesh(f, name),
           NEW r \in ToSet(MeshNamesOf(disk[f])), Loads(disk[f], r)
    PROVE  /\ Loads(disk'[f], r)
           /\ \A n \in DOMAIN LoadedGroups(disk[f], r) :
                 /\ n \in DOMAIN LoadedGroups(disk'[f], r)
                 /\ StaysAs(LoadedGroups(disk'[f], r)[n], LoadedGroups(disk[f], r)[n])
<1> DEFINE c == disk[f]
           d == disk'[f]
<1>1. c \in Content /\ ContentSound(c) /\ FileReads(c)
  BY DEF UgridInv, FilesSound, UgridReads, FilesRead
<1>2. d \in Content
  BY UgridInvNext DEF UgridInv, FilesSound
<1>3. disk[f] # NoFile
  BY NothingRead DEF Loads, Selectable, MeshFound
<1>4. PICK g, t : Grown(d, c, t, g)
  BY <1>3, StepGrows
<1>5. r \in MeshNames
  <2>1. PICK i \in DOMAIN MeshNamesOf(c) : r = MeshNamesOf(c)[i]
    BY DEF ToSet
  <2> QED
    BY <1>1, <2>1, NamesOfMeshes DEF Topology
<1>6. PlainNames(c)
  BY <1>1, <1>2, <1>4, PlainBefore DEF Grown
<1> QED
  BY <1>1, <1>2, <1>4, <1>5, <1>6, GrownLoads DEF FileReads

(* What loads from a file loads from it after any other group was added to *)
(* it, or failed to be added, with the same values at the same times.      *)
THEOREM UgridGroupsStay == UgridSpec => GroupsStay
<1>1. UgridInv /\ UgridReads /\ [UgridNext]_vars =>
        [\A f \in Files :
            LET old == disk[f]
                new == disk'[f]
            IN  /\ old # new /\ new # Damaged /\ PlainNames(new)
                /\ ~\E name \in Asked : SaveMesh(f, name)
                /\ ~Killed
                => \A name \in ToSet(MeshNamesOf(old)) : Loads(old, name) =>
                      /\ Loads(new, name)
                      /\ \A n \in DOMAIN LoadedGroups(old, name) :
                            /\ n \in DOMAIN LoadedGroups(new, name)
                            /\ StaysAs(LoadedGroups(new, name)[n],
                                       LoadedGroups(old, name)[n])]_vars
  BY StepKeepsGroups
<1> QED
  BY <1>1, UgridReadsHolds, PTL DEF UgridSpec, GroupsStay
=============================================================================
