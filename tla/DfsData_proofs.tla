--------------------------- MODULE DfsData_proofs ---------------------------
(***************************************************************************)
(* What DfsData promises for every file, however many of its reads fail.   *)
(* The plugin rewrites one record at a time, and only one that holds       *)
(* nothing; what it notes of the levels of a step is right or missing; and *)
(* what MDAL noted of a step decides what it asks for.                     *)
(***************************************************************************)
EXTENDS DfsData, FiniteSetTheorems, SequenceTheorems, WellFoundedInduction, TLAPS

-----------------------------------------------------------------------------
(* Induction over the natural numbers, on sets of them.                    *)
LEMMA Least ==
    ASSUME NEW T \in SUBSET Nat, T # {}
    PROVE  \E n \in T : \A m \in T : n <= m
<1> DEFINE R == OpToRel(<, Nat)
<1>1. IsWellFoundedOn(R, Nat)
  BY NatLessThanWellFounded
<1> HIDE DEF R
<1>2. \E x \in T : \A y \in T : <<y, x>> \notin R
  BY <1>1, WFMin
<1>3. \A x, y \in Nat : <<y, x>> \notin R => x <= y
  BY DEF R, OpToRel
<1> QED
  BY <1>2, <1>3

LEMMA UpTo ==
    ASSUME NEW n \in Nat, NEW S, 0 \in S,
           \A k \in 1..n : k - 1 \in S => k \in S
    PROVE  0..n \subseteq S
<1> DEFINE T == {k \in 0..n : k \notin S}
<1> SUFFICES ASSUME T # {} PROVE FALSE
  OBVIOUS
<1>1. T \in SUBSET Nat
  OBVIOUS
<1>2. PICK k \in T : \A m \in T : k <= m
  <2> HIDE DEF T
  <2> QED
    BY <1>1, Least
<1>3. k \in 1..n /\ k - 1 \in 0..n
  BY <1>2
<1>4. k - 1 \notin T
  BY <1>2, <1>3
<1> QED
  BY <1>2, <1>3, <1>4

(* The functions that a definition by recursion over 0..n stands for.      *)
Runs(n, S, x, step) ==
    {g \in [0..n -> S] : g[0] = x /\ \A k \in 1..n : g[k] = step[<<g[k - 1], k>>]}

LEMMA StepsFrom ==
    ASSUME NEW n \in Nat, NEW S, NEW x \in S, NEW step \in [S \X (1..n) -> S]
    PROVE  Runs(n, S, x, step) # {}
<1> DEFINE G(m) == {g \in [0..m -> S] :
                       g[0] = x /\ \A k \in 1..m : g[k] = step[<<g[k - 1], k>>]}
           T == {m \in 0..n : G(m) # {}}
<1>1. 0 \in T
  <2>1. [k \in 0..0 |-> x] \in G(0)
    OBVIOUS
  <2> QED
    BY <2>1
<1>2. ASSUME NEW m \in 1..n, m - 1 \in T PROVE m \in T
  <2>1. PICK g \in G(m - 1) : TRUE
    BY <1>2
  <2>2. /\ g \in [0..(m - 1) -> S] /\ g[0] = x
        /\ \A k \in 1..(m - 1) : g[k] = step[<<g[k - 1], k>>]
    BY <2>1
  <2> DEFINE h == [k \in 0..m |-> IF k = m THEN step[<<g[m - 1], m>>] ELSE g[k]]
  <2>3. g[m - 1] \in S /\ step[<<g[m - 1], m>>] \in S
    <3>1. m - 1 \in 0..(m - 1)
      OBVIOUS
    <3> QED
      BY <2>2, <3>1
  <2>4. h \in [0..m -> S]
    <3>1. ASSUME NEW k \in 0..m, k # m PROVE g[k] \in S
      <4>1. k \in 0..(m - 1)
        BY <3>1
      <4> QED
        BY <2>2, <4>1
    <3> QED
      BY <2>3, <3>1
  <2>5. h[0] = x
    BY <2>2
  <2>6. ASSUME NEW k \in 1..m PROVE h[k] = step[<<h[k - 1], k>>]
    <3>1. k - 1 \in 0..m /\ k - 1 # m /\ k \in 0..m
      OBVIOUS
    <3>2. h[k - 1] = g[k - 1]
      BY <3>1
    <3>3. CASE k = m
      <4>1. h[k] = step[<<g[m - 1], m>>]
        BY <3>1, <3>3
      <4> QED
        BY <3>2, <3>3, <4>1
    <3>4. CASE k # m
      <4>1. k \in 1..(m - 1)
        BY <3>4
      <4> QED
        BY <2>2, <3>2, <3>4, <4>1
    <3> QED
      BY <3>3, <3>4
  <2>7. h \in G(m)
    <3> HIDE DEF h
    <3> QED
      BY <2>4, <2>5, <2>6
  <2>8. m \in 0..n
    OBVIOUS
  <2> HIDE DEF G, h
  <2> QED
    BY <2>7, <2>8
<1>3. n \in T
  <2> HIDE DEF T
  <2>1. 0..n \subseteq T
    BY <1>1, <1>2, UpTo
  <2> QED
    BY <2>1
<1> QED
  BY <1>3 DEF Runs

(* The recursion of Sums adds up the sizes.                            *)
LEMMA SumsStep ==
    ASSUME NEW a \in Seq(Nat)
    PROVE  /\ Sums(a) \in [0..Len(a) -> Nat]
          /\ Sums(a)[0] = 0
          /\ \A k \in 1..Len(a) : Sums(a)[k] = Sums(a)[k - 1] + a[k]
<1> DEFINE F == Sums(a)
           step == [y \in Nat \X (1..Len(a)) |-> y[1] + a[y[2]]]
<1>1. Len(a) \in Nat /\ \A k \in 1..Len(a) : a[k] \in Nat
  OBVIOUS
<1>2. step \in [Nat \X (1..Len(a)) -> Nat]
  BY <1>1
<1>3. \A m \in Nat, k \in 1..Len(a) : step[<<m, k>>] = m + a[k]
  OBVIOUS
<1>4. PICK g \in [0..Len(a) -> Nat] :
         g[0] = 0 /\ \A k \in 1..Len(a) : g[k] = step[<<g[k - 1], k>>]
  <2> HIDE DEF step
  <2>1. Runs(Len(a), Nat, 0, step) # {}
    BY <1>1, <1>2, StepsFrom
  <2> QED
    BY <2>1 DEF Runs
<1>5. \A k \in 1..Len(a) : k - 1 \in 0..Len(a) /\ g[k] = g[k - 1] + a[k]
  <2> HIDE DEF step
  <2>1. ASSUME NEW k \in 1..Len(a) PROVE k - 1 \in 0..Len(a) /\ g[k - 1] \in Nat
    <3>1. k - 1 \in 0..Len(a)
      BY <1>1
    <3> QED
      BY <3>1
  <2> QED
    BY <1>3, <1>4, <2>1
<1>6. g = [k \in 0..Len(a) |-> IF k = 0 THEN 0 ELSE g[k - 1] + a[k]]
  <2>1. ASSUME NEW k \in 0..Len(a), k # 0 PROVE g[k] = g[k - 1] + a[k]
    <3>1. k \in 1..Len(a)
      BY <1>1, <2>1
    <3> QED
      BY <1>5, <3>1
  <2> QED
    BY <1>4, <2>1
<1>7. F = [k \in 0..Len(a) |-> IF k = 0 THEN 0 ELSE F[k - 1] + a[k]]
  BY <1>6 DEF Sums
<1> HIDE DEF F
<1>8. F[0] = 0 /\ \A k \in 1..Len(a) : F[k] = F[k - 1] + a[k]
  <2>1. \A k \in 0..Len(a) : F[k] = IF k = 0 THEN 0 ELSE F[k - 1] + a[k]
    BY <1>7
  <2> QED
    BY <1>1, <2>1
<1> DEFINE S == {k \in 0..Len(a) : F[k] \in Nat}
<1>9. 0..Len(a) \subseteq S
  <2>1. 0 \in S
    BY <1>1, <1>8
  <2>2. ASSUME NEW k \in 1..Len(a), k - 1 \in S PROVE k \in S
    <3>1. F[k - 1] \in Nat /\ a[k] \in Nat /\ k \in 0..Len(a)
      BY <1>1, <2>2
    <3>2. F[k] = F[k - 1] + a[k]
      BY <1>8
    <3> QED
      BY <3>1, <3>2
  <2> HIDE DEF S
  <2> QED
    BY <1>1, <2>1, <2>2, UpTo
<1>10. F \in [0..Len(a) -> Nat]
  BY <1>7, <1>9
<1> QED
  BY <1>8, <1>10 DEF F

LEMMA SumsLess ==
    ASSUME NEW a \in Seq(Nat), NEW b \in Seq(Nat), Len(a) = Len(b),
           \A k \in 1..Len(a) : a[k] <= b[k]
    PROVE  \A k \in 0..Len(a) : Sums(a)[k] <= Sums(b)[k]
<1> DEFINE n == Len(a)
           S == {k \in 0..n : Sums(a)[k] <= Sums(b)[k]}
<1>1. n \in Nat
  OBVIOUS
<1>2. /\ Sums(a) \in [0..n -> Nat] /\ Sums(a)[0] = 0
      /\ \A k \in 1..n : Sums(a)[k] = Sums(a)[k - 1] + a[k]
  BY SumsStep
<1>3. /\ Sums(b) \in [0..n -> Nat] /\ Sums(b)[0] = 0
      /\ \A k \in 1..n : Sums(b)[k] = Sums(b)[k - 1] + b[k]
  BY SumsStep
<1>4. 0 \in S
  BY <1>1, <1>2, <1>3
<1>5. ASSUME NEW k \in 1..n, k - 1 \in S PROVE k \in S
  <2>1. a[k] \in Nat /\ b[k] \in Nat /\ a[k] <= b[k]
    OBVIOUS
  <2>2. k \in 0..n /\ k - 1 \in 0..n
    BY <1>1
  <2>3. Sums(a)[k - 1] \in Nat /\ Sums(b)[k - 1] \in Nat /\ Sums(a)[k - 1] <= Sums(b)[k - 1]
    BY <1>2, <1>3, <1>5, <2>2
  <2>4. Sums(a)[k] = Sums(a)[k - 1] + a[k] /\ Sums(b)[k] = Sums(b)[k - 1] + b[k]
    BY <1>2, <1>3
  <2>5. Sums(a)[k] <= Sums(b)[k]
    <3>1. \A x, y, u, v \in Nat : x <= y /\ u <= v => x + u <= y + v
      OBVIOUS
    <3>2. Sums(a)[k - 1] + a[k] <= Sums(b)[k - 1] + b[k]
      BY <2>1, <2>3, <3>1
    <3> QED
      BY <2>4, <3>2
  <2> QED
    BY <2>2, <2>5
<1>6. 0..n \subseteq S
  <2> HIDE DEF S, n
  <2> QED
    BY <1>1, <1>4, <1>5, UpTo
<1> QED
  BY <1>6

LEMMA SumsSame ==
    ASSUME NEW a \in Seq(Nat), NEW b \in Seq(Nat), Len(a) = Len(b),
           NEW m \in 0..Len(a), \A k \in 1..m : a[k] = b[k]
    PROVE  Sums(a)[m] = Sums(b)[m]
<1> DEFINE S == {k \in 0..m : Sums(a)[k] = Sums(b)[k]}
<1>1. m \in Nat /\ Len(a) \in Nat
  OBVIOUS
<1>2. /\ Sums(a)[0] = 0
      /\ \A k \in 1..Len(a) : Sums(a)[k] = Sums(a)[k - 1] + a[k]
  BY SumsStep
<1>3. /\ Sums(b)[0] = 0
      /\ \A k \in 1..Len(a) : Sums(b)[k] = Sums(b)[k - 1] + b[k]
  BY SumsStep
<1>4. 0 \in S
  BY <1>1, <1>2, <1>3
<1>5. ASSUME NEW k \in 1..m, k - 1 \in S PROVE k \in S
  <2>1. k \in 1..Len(a) /\ k \in 0..m
    BY <1>1
  <2>2. Sums(a)[k - 1] = Sums(b)[k - 1] /\ a[k] = b[k]
    BY <1>5
  <2> QED
    BY <1>2, <1>3, <2>1, <2>2
<1>6. 0..m \subseteq S
  <2> HIDE DEF S
  <2> QED
    BY <1>1, <1>4, <1>5, UpTo
<1> QED
  BY <1>6

-----------------------------------------------------------------------------
(* The shape of a file, and what the plugin makes of its levels.           *)
LEMMA FileTyped ==
    ASSUME file \in Files
    PROVE  /\ file.layers \in Seq(Nat) /\ Len(file.layers) \in Nat
           /\ Columns = 1..Len(file.layers)
           /\ file.volumes \in BOOLEAN
           /\ \A t \in Steps, c \in Columns :
                 /\ file.levels[t][c] \in Nat /\ file.levels[t][c] >= 1
                 /\ LevelCount(t, c) \in Nat /\ LevelCount(t, c) <= file.layers[c]
<1>1. FileOK(file)
  BY DfsDataAssumption
<1>2. file.layers \in Seq(Nat \ {0})
  BY <1>1 DEF FileOK
<1>3. file.layers \in Seq(Nat) /\ Len(file.layers) \in Nat
  BY <1>2, SeqMonotonic
<1>4. Columns = 1..Len(file.layers)
  BY <1>3 DEF Columns
<1>5. ASSUME NEW t \in Steps, NEW c \in Columns
      PROVE  /\ file.levels[t][c] \in Nat /\ file.levels[t][c] >= 1
             /\ LevelCount(t, c) \in Nat /\ LevelCount(t, c) <= file.layers[c]
  <2>1. file.layers[c] \in Nat
    BY <1>3, <1>4
  <2>2. file.levels[t][c] \in 1..(file.layers[c] + 1)
    BY <1>1 DEF FileOK, Steps, Columns
  <2> QED
    BY <2>1, <2>2 DEF LevelCount
<1>6. file.volumes \in BOOLEAN
  BY <1>1 DEF FileOK
<1> QED
  BY <1>3, <1>4, <1>5, <1>6

LEMMA VolumesTyped ==
    ASSUME file \in Files, NEW t \in Steps
    PROVE  /\ LevelCounts(t) \in Seq(Nat) /\ Len(LevelCounts(t)) = Len(file.layers)
           /\ \A c \in Columns : LevelCounts(t)[c] = LevelCount(t, c)
           /\ \A c \in Columns :
                 /\ VolumesBefore(t, c) \in Nat
                 /\ VolumesBefore(t, c + 1) = VolumesBefore(t, c) + LevelCount(t, c)
           /\ VolumesBefore(t, 1) = 0
           /\ Volumes(t) \in Nat
<1> DEFINE n == Len(file.layers)
           a == LevelCounts(t)
<1>1. n \in Nat /\ Columns = 1..n
  BY FileTyped
<1>2. \A c \in 1..n : LevelCount(t, c) \in Nat
  BY <1>1, FileTyped
<1>3. a \in [1..n -> Nat]
  BY <1>1, <1>2 DEF LevelCounts
<1>4. a \in Seq(Nat) /\ Len(a) = n
  BY <1>1, <1>3
<1>5. \A c \in Columns : a[c] = LevelCount(t, c)
  BY DEF LevelCounts
<1>6. /\ Sums(a) \in [0..n -> Nat] /\ Sums(a)[0] = 0
      /\ \A k \in 1..n : Sums(a)[k] = Sums(a)[k - 1] + a[k]
  <2> HIDE DEF a, n
  <2> QED
    BY <1>4, SumsStep
<1>7. \A c \in 1..(n + 1) : c - 1 \in 0..n /\ VolumesBefore(t, c) = Sums(a)[c - 1]
  BY <1>1 DEF VolumesBefore
<1>8. ASSUME NEW c \in Columns
      PROVE  /\ VolumesBefore(t, c) \in Nat
             /\ VolumesBefore(t, c + 1) = VolumesBefore(t, c) + LevelCount(t, c)
  <2> HIDE DEF a, n
  <2>1. c \in 1..n /\ c \in 1..(n + 1) /\ c + 1 \in 1..(n + 1) /\ (c + 1) - 1 = c
    BY <1>1
  <2> QED
    BY <1>5, <1>6, <1>7, <2>1
<1>9. VolumesBefore(t, 1) = 0
  <2>1. 1 \in 1..(n + 1)
    BY <1>1
  <2> QED
    BY <1>6, <1>7, <2>1
<1>10. Volumes(t) \in Nat
  <2>1. n + 1 \in 1..(n + 1)
    BY <1>1
  <2>2. Volumes(t) = VolumesBefore(t, n + 1)
    BY DEF Volumes
  <2> HIDE DEF a, n
  <2> QED
    BY <1>6, <1>7, <2>1, <2>2
<1> QED
  BY <1>4, <1>5, <1>8, <1>9, <1>10

(* No file has more volumes at a step than elements.                       *)
LEMMA VolumesFit ==
    ASSUME file \in Files, NEW t \in Steps, file.volumes
    PROVE  Elements \in Nat /\ Volumes(t) <= Elements
<1> DEFINE n == Len(file.layers)
           a == LevelCounts(t)
           b == file.layers
<1>1. n \in Nat /\ Columns = 1..n /\ b \in Seq(Nat)
  BY FileTyped
<1>2. a \in Seq(Nat) /\ Len(a) = n /\ \A c \in 1..n : a[c] = LevelCount(t, c)
  BY <1>1, VolumesTyped
<1>3. \A c \in 1..n : a[c] <= b[c]
  BY <1>1, <1>2, FileTyped
<1>4. Volumes(t) = Sums(a)[n] /\ Elements = Sums(b)[n] /\ n \in 0..n
  <2>1. (n + 1) - 1 = n
    BY <1>1
  <2> QED
    BY <1>1, <2>1 DEF Volumes, VolumesBefore, Elements
<1>5. Sums(b) \in [0..n -> Nat]
  <2> HIDE DEF b
  <2> QED
    BY <1>1, SumsStep DEF b
<1>6. Sums(a)[n] <= Sums(b)[n]
  <2>1. Len(b) = Len(a)
    BY <1>2
  <2> HIDE DEF a, b, n
  <2> QED
    BY <1>1, <1>2, <1>3, <1>4, <2>1, SumsLess
<1> QED
  BY <1>4, <1>5, <1>6

(* Every volume lies over one of the faces.                                *)
LEMMA ColumnFound ==
    ASSUME file \in Files, NEW t \in Steps, NEW v \in Nat, v < Volumes(t)
    PROVE  ColumnOf(t, v) \in Columns
<1> DEFINE n == Len(file.layers)
           T == {c \in 1..(n + 1) : v < VolumesBefore(t, c)}
<1>1. n \in Nat /\ Columns = 1..n
  BY FileTyped
<1>2. T \in SUBSET Nat
  OBVIOUS
<1>3. n + 1 \in T
  BY <1>1 DEF Volumes
<1>4. PICK e \in T : \A c \in T : e <= c
  <2> HIDE DEF T
  <2> QED
    BY <1>2, <1>3, Least
<1>5. e # 1
  BY <1>4, VolumesTyped
<1> DEFINE c == e - 1
<1>6. c \in 1..n /\ c \in 1..(n + 1) /\ c + 1 = e /\ ~(e <= c)
  BY <1>1, <1>4, <1>5
<1>7. c \notin T
  BY <1>4, <1>6
<1>8. VolumesBefore(t, c) \in Nat /\ LevelCount(t, c) \in Nat
  BY <1>1, <1>6, VolumesTyped, FileTyped
<1>9. VolumesBefore(t, c) <= v
  BY <1>6, <1>7, <1>8
<1>10. VolumesBefore(t, e) = VolumesBefore(t, c) + LevelCount(t, c)
  <2> HIDE DEF c
  <2> QED
    BY <1>1, <1>6, VolumesTyped
<1>11. v < VolumesBefore(t, c) + LevelCount(t, c)
  BY <1>4, <1>10
<1>12. \E x \in Columns : VolumesBefore(t, x) <= v /\ v < VolumesBefore(t, x) + LevelCount(t, x)
  <2> HIDE DEF c
  <2> QED
    BY <1>1, <1>6, <1>9, <1>11
<1> QED
  BY <1>12 DEF ColumnOf

LEMMA MaxLevelsTyped ==
    ASSUME file \in Files, NEW t \in Steps
    PROVE  MaxLevels(t) \in Nat
<1> DEFINE m == Len(file.layers)
           L(k) == {0} \cup {file.levels[t][c] : c \in 1..k}
           S == {k \in 0..m : \E n \in L(k) : \A c \in 1..k : n >= file.levels[t][c]}
<1>1. m \in Nat /\ Columns = 1..m
  BY FileTyped
<1>2. \A c \in 1..m : file.levels[t][c] \in Nat
  BY <1>1, FileTyped
<1>3. 0 \in S
  BY <1>1
<1>4. ASSUME NEW k \in 1..m, k - 1 \in S PROVE k \in S
  <2>1. k \in 0..m /\ k - 1 \in 0..m /\ 1..k = 1..(k - 1) \cup {k} /\ 1..(k - 1) \subseteq 1..m
    BY <1>1
  <2>2. PICK n \in L(k - 1) : \A c \in 1..(k - 1) : n >= file.levels[t][c]
    BY <1>4
  <2>3. n \in Nat /\ n \in L(k) /\ file.levels[t][k] \in L(k) /\ file.levels[t][k] \in Nat
    BY <1>2, <2>1, <2>2
  <2>4. CASE n >= file.levels[t][k]
    BY <2>1, <2>2, <2>3, <2>4
  <2>5. CASE ~(n >= file.levels[t][k])
    <3>1. file.levels[t][k] >= n
      BY <2>3, <2>5
    <3>2. ASSUME NEW c \in 1..(k - 1) PROVE file.levels[t][k] >= file.levels[t][c]
      <4>1. file.levels[t][c] \in Nat /\ n >= file.levels[t][c]
        BY <1>2, <2>1, <2>2
      <4> QED
        BY <2>3, <3>1, <4>1
    <3>3. \A c \in 1..k : file.levels[t][k] >= file.levels[t][c]
      BY <2>1, <2>3, <3>2
    <3> QED
      BY <2>1, <2>3, <3>3
  <2> QED
    BY <2>4, <2>5
<1>5. m \in S
  <2>1. 0..m \subseteq S
    <3> HIDE DEF S, m
    <3> QED
      BY <1>1, <1>3, <1>4, UpTo
  <2> QED
    BY <1>1, <2>1
<1>6. MaxLevels(t) \in L(m)
  BY <1>1, <1>5 DEF MaxLevels
<1> QED
  BY <1>2, <1>6

-----------------------------------------------------------------------------
(* What is handed out: the part of a sequence that lies within a request.  *)
IsSequence(s, n) == n \in Nat /\ s = [k \in 1..n |-> s[k]]

LEMMA LengthIs ==
    ASSUME NEW s, NEW n, IsSequence(s, n)
    PROVE  Len(s) = n
<1> DEFINE S == {s[k] : k \in 1..n}
<1>1. n \in Nat /\ s \in [1..n -> S]
  BY DEF IsSequence
<1> HIDE DEF S
<1>2. s \in Seq(S)
  BY <1>1, SeqDef
<1>3. Len(s) \in Nat /\ DOMAIN s = 1..Len(s) /\ DOMAIN s = 1..n
  BY <1>1, <1>2, LenProperties
<1> QED
  BY <1>1, <1>3

LEMMA EffectiveIs ==
    ASSUME NEW r \in Nat \X Nat, NEW n \in Nat
    PROVE  /\ Effective(r, n) \in Nat
           /\ \A k \in 1..Effective(r, n) : r[1] + k \in 1..n
           /\ r[1] + r[2] <= n => Effective(r, n) = r[2]
<1> DEFINE a == r[1]
           b == r[2]
           m == IF a + b <= n THEN b ELSE IF n <= a THEN 0 ELSE n - a
<1>1. a \in Nat /\ b \in Nat
  OBVIOUS
<1>2. m \in Nat /\ \A k \in Nat : k <= m <=> k <= b /\ (k = 0 \/ a + k <= n)
  BY <1>1
<1>3. {k \in 1..b : a + k <= n} = 1..m
  <2> HIDE DEF a, b, m
  <2>1. \A k \in Nat : k >= 1 => (k <= m <=> k <= b /\ a + k <= n)
    BY <1>2
  <2>2. ASSUME NEW k \in 1..b, a + k <= n PROVE k \in 1..m
    BY <1>1, <1>2, <2>1, <2>2
  <2>3. ASSUME NEW k \in 1..m PROVE k \in 1..b /\ a + k <= n
    BY <1>1, <1>2, <2>1
  <2> QED
    BY <2>2, <2>3
<1>4. Cardinality(1..m) = m
  <2> HIDE DEF m
  <2>1. 1 \in Int /\ m \in Int
    BY <1>2
  <2> QED
    BY <1>2, <2>1, FS_Interval
<1>5. Effective(r, n) = m
  BY <1>3, <1>4 DEF Effective
<1>6. \A k \in 1..m : a + k \in 1..n
  BY <1>1
<1> QED
  BY <1>1, <1>2, <1>5, <1>6

(* What is said of an answer a out of a sequence s of n values.            *)
Answered(a, kind, d, r, s, n) ==
    /\ a.kind = kind /\ a.dataset = d /\ a.start = r[1] /\ a.count = r[2]
    /\ \A k \in DOMAIN a.values :
          k \in Nat /\ r[1] + k \in 1..n /\ a.values[k] = s[r[1] + k]
    /\ n = 0 => a.values = <<>>
    /\ r[1] + r[2] <= n => Len(a.values) = r[2]

LEMMA AnswerIs ==
    ASSUME NEW kind, NEW d, NEW r \in Nat \X Nat, NEW s, NEW n, IsSequence(s, n)
    PROVE  Answered(Answer(kind, d, r, s), kind, d, r, s, n)
<1> DEFINE a == Answer(kind, d, r, s)
           m == Effective(r, n)
<1>1. Len(s) = n /\ n \in Nat
  BY LengthIs DEF IsSequence
<1>2. /\ a.kind = kind /\ a.dataset = d /\ a.start = r[1] /\ a.count = r[2]
      /\ a.values = [k \in 1..m |-> s[r[1] + k]]
  BY <1>1 DEF Answer
<1>3. /\ m \in Nat /\ \A k \in 1..m : r[1] + k \in 1..n
      /\ r[1] + r[2] <= n => m = r[2]
  BY <1>1, EffectiveIs
<1>4. IsSequence(a.values, m)
  BY <1>2, <1>3 DEF IsSequence
<1>5. Len(a.values) = m
  BY <1>4, LengthIs
<1>6. \A k \in DOMAIN a.values :
          k \in Nat /\ r[1] + k \in 1..n /\ a.values[k] = s[r[1] + k]
  BY <1>2, <1>3
<1>7. n = 0 => a.values = <<>>
  <2> SUFFICES ASSUME n = 0 PROVE a.values = <<>>
    OBVIOUS
  <2>1. m = 0
    <3>1. ~(1 \in 1..m)
      BY <1>3
    <3> QED
      BY <1>3, <3>1
  <2>2. <<>> = [k \in 1..0 |-> s[r[1] + k]]
    OBVIOUS
  <2> QED
    BY <1>2, <2>1, <2>2
<1> QED
  BY <1>2, <1>3, <1>5, <1>6, <1>7 DEF Answered

-----------------------------------------------------------------------------
(* What the plugin knows of a step: nothing, or the counts of its levels.  *)
StepSound(t) ==
    /\ t \in built => topLevel[t] # -1
    /\ topLevel[t] # -1 =>
          file.volumes /\ counted[t] = Volumes(t) /\ topLevel[t] = MaxLevels(t)

(* Over each face the values come from the top down.                       *)
Turned(t, s) == \A k \in 1..Volumes(t) : s[k] = Reversed(t, k - 1)

(* What can be in a record of the plugin.                                  *)
NothingRead(r) ==
    /\ r.values = <<>>
    /\ r.active = <<>> \/ IsSequence(r.active, Len(file.layers))

VolumesRead(d, r) ==
    /\ IsSequence(r.values, IF IsVector(d) THEN Elements ELSE Volumes(StepOf(d)))
    /\ "levels" \notin Faults => Turned(StepOf(d), r.values)

FacesRead(r) ==
    IsSequence(r.values, Len(file.layers)) /\ IsSequence(r.active, Len(file.layers))

ContentSound(d, r) ==
    /\ r.loaded \in BOOLEAN
    /\ ~r.loaded => NothingRead(r)
    /\ r.loaded /\ file.volumes => VolumesRead(d, r)
    /\ r.loaded /\ ~file.volumes => FacesRead(r)

(* MDAL noted the volumes of the step, or none; what it noted is known.    *)
InfoSound(d) ==
    /\ infos[d].volumes \in {0, Volumes(StepOf(d))}
    /\ file.volumes /\ infos[d].volumes # 0 => topLevel[StepOf(d)] # -1

LevelsInv ==
    /\ built \subseteq Steps /\ counted \in [Steps -> Int] /\ topLevel \in [Steps -> Int]
    /\ \A t \in Steps : StepSound(t)

RecordsInv ==
    /\ DOMAIN data = Datasets
    /\ \A d \in Datasets : ContentSound(d, data[d])

InfosInv ==
    /\ DOMAIN infos \subseteq Datasets
    /\ \A d \in DOMAIN infos : InfoSound(d)

StatusInv ==
    /\ file \in Files
    /\ status \in {"closed", "populating", "open"}
    /\ status = "closed" => infos = <<>>
    /\ status = "open" => DOMAIN infos = Datasets
    /\ status # "open" => answer = NoAnswer

AnswerInv ==
    /\ AcceptedIsFilled
    /\ "levels" \notin Faults => DataTopDown

DfsInv ==
    /\ StatusInv
    /\ status # "closed" => LevelsInv /\ RecordsInv /\ InfosInv
    /\ AnswerInv

-----------------------------------------------------------------------------
(* What is made of the file alone stays.                                   *)
LEMMA FileStays ==
    ASSUME file' = file
    PROVE  /\ Steps' = Steps /\ Datasets' = Datasets /\ Columns' = Columns
           /\ Elements' = Elements
           /\ \A t : Volumes(t)' = Volumes(t) /\ MaxLevels(t)' = MaxLevels(t)
           /\ \A t, c : /\ VolumesBefore(t, c)' = VolumesBefore(t, c)
                        /\ LevelCount(t, c)' = LevelCount(t, c)
                        /\ ColumnOf(t, c)' = ColumnOf(t, c)
                        /\ Reversed(t, c)' = Reversed(t, c)
                        /\ FullBefore(t, c)' = FullBefore(t, c)
           /\ \A t, c, j : FromTop(t, c, j)' = FromTop(t, c, j)
           /\ \A t, s : Turned(t, s)' = Turned(t, s)
           /\ \A d : IsVector(d)' = IsVector(d)
<1> USE DEF Steps, Datasets, Columns, Elements, LevelCount, LevelCounts, VolumesBefore,
            Volumes, MaxLevels, ColumnOf, Reversed, FromTop, FullBefore, Turned, IsVector
<1>1. /\ Steps' = Steps /\ Datasets' = Datasets /\ Columns' = Columns
      /\ Elements' = Elements
  OBVIOUS
<1>2. \A t, c : VolumesBefore(t, c)' = VolumesBefore(t, c) /\ LevelCount(t, c)' = LevelCount(t, c)
  OBVIOUS
<1>3. \A t : Volumes(t)' = Volumes(t) /\ MaxLevels(t)' = MaxLevels(t)
  OBVIOUS
<1>4. \A t, c : ColumnOf(t, c)' = ColumnOf(t, c)
  OBVIOUS
<1>5. \A t, c : Reversed(t, c)' = Reversed(t, c) /\ FullBefore(t, c)' = FullBefore(t, c)
  OBVIOUS
<1>6. \A t, c, j : FromTop(t, c, j)' = FromTop(t, c, j)
  OBVIOUS
<1>7. \A t, s : Turned(t, s)' = Turned(t, s)
  OBVIOUS
<1>8. \A d : IsVector(d)' = IsVector(d)
  OBVIOUS
<1> QED
  BY <1>1, <1>2, <1>3, <1>4, <1>5, <1>6, <1>7, <1>8

LEMMA ContentStays ==
    ASSUME file' = file, NEW d, ContentSound(d, data[d]), data'[d] = data[d]
    PROVE  ContentSound(d, data[d])'
BY FileStays DEF ContentSound, NothingRead, VolumesRead, FacesRead, IsSequence, StepOf

LEMMA InfoStays ==
    ASSUME file' = file, NEW d, InfoSound(d), infos'[d] = infos[d],
           topLevel[StepOf(d)] # -1 => topLevel'[StepOf(d)] # -1
    PROVE  InfoSound(d)'
BY FileStays DEF InfoSound, StepOf

LEMMA StepStays ==
    ASSUME file' = file, NEW t, StepSound(t), topLevel'[t] = topLevel[t],
           counted'[t] = counted[t], t \in built' => t \in built
    PROVE  StepSound(t)'
BY FileStays DEF StepSound

(* The levels of a step once they have been read.                          *)
LEMMA StepRead ==
    ASSUME file' = file, file \in Files, file.volumes, NEW t \in Steps,
           topLevel'[t] = MaxLevels(t), counted'[t] = Volumes(t)
    PROVE  StepSound(t)'
<1>1. MaxLevels(t) # -1
  BY MaxLevelsTyped
<1> QED
  BY <1>1, FileStays DEF StepSound

LEMMA BuildLevelsSound ==
    ASSUME LevelsInv, file \in Files, file' = file, file.volumes, NEW t \in Steps, NEW ok,
           BuildLevels(t, ok)
    PROVE  /\ LevelsInv'
           /\ \A u \in Steps : topLevel[u] # -1 => topLevel'[u] # -1
           /\ LevelsKnown(t, ok) => t \in built'
<1>1. Volumes(t) \in Int /\ MaxLevels(t) \in Int /\ MaxLevels(t) # -1
  <2>1. Volumes(t) \in Nat /\ MaxLevels(t) \in Nat
    BY VolumesTyped, MaxLevelsTyped
  <2> QED
    BY <2>1
<1>2. Steps' = Steps
  BY FileStays
<1>3. CASE t \in built \/ ok
  <2>1. /\ built' = built \cup {t}
        /\ counted' = [counted EXCEPT ![t] = Volumes(t)]
        /\ topLevel' = [topLevel EXCEPT ![t] = MaxLevels(t)]
    BY <1>3 DEF BuildLevels
  <2>2. built' \subseteq Steps /\ counted' \in [Steps -> Int] /\ topLevel' \in [Steps -> Int]
    BY <1>1, <2>1 DEF LevelsInv
  <2>3. ASSUME NEW u \in Steps PROVE StepSound(u)'
    <3>1. CASE u = t
      BY <2>1, <3>1, StepRead DEF LevelsInv
    <3>2. CASE u # t
      BY <2>1, <3>2, StepStays DEF LevelsInv
    <3> QED
      BY <3>1, <3>2
  <2>4. \A u \in Steps : topLevel[u] # -1 => topLevel'[u] # -1
    BY <1>1, <2>1 DEF LevelsInv
  <2> QED
    BY <1>2, <2>1, <2>2, <2>3, <2>4 DEF LevelsInv
<1>4. CASE ~(t \in built \/ ok)
  <2>1. built' = built /\ counted' = counted /\ topLevel' = topLevel
    BY <1>4 DEF BuildLevels, levelData
  <2>2. \A u \in Steps : StepSound(u)'
    BY <2>1, StepStays DEF LevelsInv
  <2> QED
    BY <1>2, <1>4, <2>1, <2>2 DEF LevelsInv, LevelsKnown
<1> QED
  BY <1>3, <1>4

-----------------------------------------------------------------------------
(* What a read leaves in the record of its dataset.                        *)
LEMMA VolumesReadSound ==
    ASSUME file \in Files, file.volumes, NEW d \in Datasets, NEW known,
           counted[StepOf(d)] = Volumes(StepOf(d)), "levels" \notin Faults => known
    PROVE  VolumesRead(d, [loaded |-> TRUE, values |-> OnVolumes(d, known), active |-> <<>>])
<1> DEFINE t == StepOf(d)
           n == IF IsVector(d) THEN Elements ELSE Volumes(t)
           s == OnVolumes(d, known)
<1>1. t \in Steps
  BY DEF Datasets, StepOf
<1>2. n \in Nat /\ Volumes(t) \in Nat /\ Volumes(t) <= n
  <2>1. Volumes(t) \in Nat /\ Elements \in Nat /\ Volumes(t) <= Elements
    BY <1>1, VolumesTyped, VolumesFit
  <2> QED
    BY <2>1
<1>3. s = [k \in 1..n |-> IF known /\ k <= Volumes(t) THEN Reversed(t, k - 1) ELSE k - 1]
  BY DEF OnVolumes, ValueCount
<1>4. IsSequence(s, n)
  BY <1>2, <1>3 DEF IsSequence
<1>5. "levels" \notin Faults => Turned(t, s)
  <2> SUFFICES ASSUME "levels" \notin Faults, NEW k \in 1..Volumes(t)
               PROVE  s[k] = Reversed(t, k - 1)
    BY DEF Turned
  <2>1. known /\ k \in 1..n /\ k <= Volumes(t)
    BY <1>2
  <2> QED
    BY <1>3, <2>1
<1> QED
  BY <1>4, <1>5 DEF VolumesRead

LEMMA FacesReadSound ==
    ASSUME file \in Files, ~file.volumes, NEW d
    PROVE  FacesRead([loaded |-> TRUE, values |-> OnFaces(d),
                      active |-> [k \in Columns |-> IF k \in file.dry[StepOf(d)] THEN 0 ELSE 1]])
<1>1. Columns = 1..Len(file.layers) /\ Len(file.layers) \in Nat
  BY FileTyped
<1>2. Elements = Len(file.layers)
  BY DEF Elements
<1>3. IsSequence(OnFaces(d), Len(file.layers))
  BY <1>1, <1>2 DEF OnFaces, IsSequence
<1>4. IsSequence([k \in Columns |-> IF k \in file.dry[StepOf(d)] THEN 0 ELSE 1], Len(file.layers))
  BY <1>1 DEF IsSequence
<1> QED
  BY <1>3, <1>4 DEF FacesRead

LEMMA FailedReadSound ==
    ASSUME file \in Files
    PROVE  /\ NothingRead(NothingLoaded)
           /\ NothingRead([NothingLoaded EXCEPT !.active = [k \in Columns |-> 0]])
<1>1. Columns = 1..Len(file.layers) /\ Len(file.layers) \in Nat
  BY FileTyped
<1>2. IsSequence([k \in Columns |-> 0], Len(file.layers))
  BY <1>1 DEF IsSequence
<1> QED
  BY <1>2 DEF NothingRead, NothingLoaded

LEMMA NothingLoadedSound ==
    ASSUME file \in Files, NEW d
    PROVE  ContentSound(d, NothingLoaded)
BY FailedReadSound DEF ContentSound, NothingLoaded

LEMMA DataAfterReadSound ==
    ASSUME file \in Files, NEW d \in Datasets, NEW known, NEW ok,
           ContentSound(d, data[d]),
           file.volumes => counted[StepOf(d)] = Volumes(StepOf(d)),
           "levels" \notin Faults /\ file.volumes => known
    PROVE  ContentSound(d, DataAfterRead(d, known, ok))
<1>1. CASE data[d].loaded
  BY <1>1 DEF DataAfterRead
<1>2. CASE ~data[d].loaded /\ ~ok
  <2> DEFINE r == [NothingLoaded EXCEPT !.active = [k \in Columns |-> 0]]
  <2>1. DataAfterRead(d, known, ok) = r
    BY <1>2 DEF DataAfterRead
  <2>2. r.loaded = FALSE
    BY DEF NothingLoaded
  <2>3. NothingRead(r)
    BY FailedReadSound
  <2> HIDE DEF r
  <2> QED
    BY <2>1, <2>2, <2>3 DEF ContentSound
<1>3. CASE ~data[d].loaded /\ ok /\ file.volumes
  <2> DEFINE r == [loaded |-> TRUE, values |-> OnVolumes(d, known), active |-> <<>>]
  <2>1. DataAfterRead(d, known, ok) = r
    BY <1>3 DEF DataAfterRead
  <2>2. r.loaded = TRUE
    OBVIOUS
  <2>3. VolumesRead(d, r)
    BY <1>3, VolumesReadSound
  <2> HIDE DEF r
  <2> QED
    BY <1>3, <2>1, <2>2, <2>3 DEF ContentSound
<1>4. CASE ~data[d].loaded /\ ok /\ ~file.volumes
  <2> DEFINE r == [loaded |-> TRUE, values |-> OnFaces(d),
                   active |-> [k \in Columns |-> IF k \in file.dry[StepOf(d)] THEN 0 ELSE 1]]
  <2>1. DataAfterRead(d, known, ok) = r
    BY <1>4 DEF DataAfterRead
  <2>2. r.loaded = TRUE
    OBVIOUS
  <2>3. FacesRead(r)
    BY <1>4, FacesReadSound
  <2> HIDE DEF r
  <2> QED
    BY <1>4, <2>1, <2>2, <2>3 DEF ContentSound
<1> QED
  BY <1>1, <1>2, <1>3, <1>4

LEMMA RecordSet ==
    ASSUME RecordsInv, file' = file, NEW d \in Datasets, NEW r, ContentSound(d, r),
           data' = [data EXCEPT ![d] = r]
    PROVE  RecordsInv'
<1>1. DOMAIN data' = Datasets'
  BY FileStays DEF RecordsInv
<1>2. ASSUME NEW e \in Datasets PROVE ContentSound(e, data[e])'
  <2>1. CASE e = d
    <3>1. data'[e] = r
      BY <2>1 DEF RecordsInv
    <3> QED
      BY <2>1, <3>1, FileStays
         DEF ContentSound, NothingRead, VolumesRead, FacesRead, IsSequence, StepOf
  <2>2. CASE e # d
    <3>1. data'[e] = data[e]
      BY <2>2 DEF RecordsInv
    <3> QED
      BY <3>1, ContentStays DEF RecordsInv
  <2> QED
    BY <2>1, <2>2
<1> QED
  BY <1>1, <1>2, FileStays DEF RecordsInv

LEMMA LevelsStay ==
    ASSUME LevelsInv, file' = file, UNCHANGED levelData
    PROVE  LevelsInv'
<1>1. \A u \in Steps : StepSound(u)'
  BY StepStays DEF LevelsInv, levelData
<1> QED
  BY <1>1, FileStays DEF LevelsInv, levelData

LEMMA InfosStay ==
    ASSUME InfosInv, file' = file, infos' = infos,
           \A u \in Steps : topLevel[u] # -1 => topLevel'[u] # -1
    PROVE  InfosInv'
<1>1. \A d \in Datasets : StepOf(d) \in Steps
  BY DEF Datasets, StepOf
<1>2. \A d \in DOMAIN infos : InfoSound(d)'
  BY <1>1, InfoStays DEF InfosInv
<1> QED
  BY <1>2, FileStays DEF InfosInv

-----------------------------------------------------------------------------
(* The answers.                                                            *)
LEMMA NoAnswerSound ==
    ASSUME answer' = NoAnswer
    PROVE  AnswerInv'
BY DEF NoAnswer, AnswerInv, AcceptedIsFilled, DataTopDown

LEMMA AnswerStays ==
    ASSUME AnswerInv, file' = file, infos' = infos, answer' = answer
    PROVE  AnswerInv'
<1>1. AcceptedIsFilled'
  BY FileStays DEF AnswerInv, AcceptedIsFilled
<1>2. "levels" \notin Faults => DataTopDown'
  BY FileStays DEF AnswerInv, DataTopDown, StepOf
<1> QED
  BY <1>1, <1>2 DEF AnswerInv

LEMMA RequestsTyped ==
    ASSUME NEW r \in Requests
    PROVE  r \in Nat \X Nat /\ r[1] \in Nat /\ r[2] \in Nat
BY DfsDataAssumption

(* A request for values on volumes is only accepted if there are some.     *)
LEMMA AcceptedIsKnown ==
    ASSUME file \in Files, file.volumes, NEW d \in Datasets, NEW r \in Requests,
           InfoSound(d), Accepted(d, "values", r)
    PROVE  /\ infos[d].volumes = Volumes(StepOf(d)) /\ topLevel[StepOf(d)] # -1
           /\ ~IsVector(d) => r[1] + r[2] <= Volumes(StepOf(d))
<1>1. StepOf(d) \in Steps
  BY DEF Datasets, StepOf
<1>2. Volumes(StepOf(d)) \in Nat /\ r[1] \in Nat /\ r[2] \in Nat
  BY <1>1, VolumesTyped, RequestsTyped
<1>3. Limit(d, "values") = IF IsVector(d) THEN 2 * infos[d].volumes ELSE infos[d].volumes
  BY DEF Limit
<1>4. infos[d].volumes \in Nat
  BY <1>2 DEF InfoSound
<1>5. infos[d].volumes # 0
  BY <1>2, <1>3, <1>4 DEF Accepted
<1> QED
  BY <1>3, <1>5 DEF InfoSound, Accepted

(* The element found is the right one if those before are all there.       *)
LEMMA ReversedIsFromTop ==
    ASSUME file \in Files, NEW t \in Steps, NEW v \in Nat, v < Volumes(t),
           FullBefore(t, ColumnOf(t, v))
    PROVE  Reversed(t, v) =
               FromTop(t, ColumnOf(t, v), v - VolumesBefore(t, ColumnOf(t, v)))
<1> DEFINE c == ColumnOf(t, v)
           n == Len(file.layers)
           m == c - 1
<1>1. n \in Nat /\ Columns = 1..n /\ file.layers \in Seq(Nat)
  BY FileTyped
<1>2. c \in 1..n
  BY <1>1, ColumnFound
<1>3. /\ LevelCounts(t) \in Seq(Nat) /\ Len(LevelCounts(t)) = n
      /\ \A x \in 1..n : LevelCounts(t)[x] = LevelCount(t, x)
  BY <1>1, VolumesTyped
<1>4. m \in 0..n /\ 1..m \subseteq 1..n
  <2> HIDE DEF c
  <2> QED
    BY <1>1, <1>2
<1>5. \A b \in 1..m : LevelCounts(t)[b] = file.layers[b]
  BY <1>3, <1>4 DEF FullBefore
<1>6. Sums(LevelCounts(t))[m] = Sums(file.layers)[m]
  <2> HIDE DEF m
  <2> QED
    BY <1>1, <1>3, <1>4, <1>5, SumsSame
<1>7. VolumesBefore(t, c) = Sums(file.layers)[c - 1]
  BY <1>6 DEF VolumesBefore
<1> QED
  BY <1>7 DEF Reversed, FromTop

LEMMA NothingIsSequence == IsSequence(<<>>, 0)
<1>1. <<>> = [k \in 1..0 |-> <<>>[k]]
  OBVIOUS
<1> QED
  BY <1>1 DEF IsSequence

LEMMA ValuesAnswered ==
    ASSUME StatusInv, file' = file, infos' = infos,
           NEW d \in Datasets, NEW r \in Requests, NEW x, ContentSound(d, x),
           InfoSound(d), Accepted(d, "values", r),
           answer' = Answer("values", d, r, x.values)
    PROVE  AnswerInv'
<1> DEFINE t == StepOf(d)
           s == x.values
<1>1. file \in Files /\ t \in Steps /\ r \in Nat \X Nat /\ r[1] \in Nat /\ r[2] \in Nat
  BY RequestsTyped DEF StatusInv, Datasets, StepOf
<1>2. CASE ~x.loaded
  <2>1. IsSequence(s, 0)
    BY <1>2, NothingIsSequence DEF ContentSound, NothingRead
  <2>2. Answered(answer', "values", d, r, s, 0)
    BY <1>1, <2>1, AnswerIs
  <2>3. answer'.values = <<>> /\ \A k \in DOMAIN answer'.values : r[1] + k \in 1..0
    BY <2>2 DEF Answered
  <2>4. \A k \in DOMAIN answer'.values : FALSE
    BY <2>3
  <2> QED
    BY <2>3, <2>4 DEF AnswerInv, AcceptedIsFilled, DataTopDown
<1>3. CASE x.loaded /\ file.volumes
  <2> DEFINE n == IF IsVector(d) THEN Elements ELSE Volumes(t)
  <2>1. IsSequence(s, n) /\ ("levels" \notin Faults => Turned(t, s))
    BY <1>3 DEF ContentSound, VolumesRead
  <2>2. Volumes(t) \in Nat /\ Volumes(t) <= n /\ n \in Nat
    <3>1. Volumes(t) \in Nat /\ Elements \in Nat /\ Volumes(t) <= Elements
      BY <1>1, <1>3, VolumesTyped, VolumesFit
    <3> QED
      BY <3>1
  <2>3. /\ infos[d].volumes = Volumes(t)
        /\ ~IsVector(d) => r[1] + r[2] <= Volumes(t)
    BY <1>1, <1>3, AcceptedIsKnown
  <2> HIDE DEF n
  <2>4. Answered(answer', "values", d, r, s, n)
    BY <1>1, <2>1, AnswerIs
  <2> HIDE DEF s
  <2>5. /\ answer'.kind = "values" /\ answer'.dataset = d
        /\ answer'.start = r[1] /\ answer'.count = r[2]
        /\ \A k \in DOMAIN answer'.values :
              k \in Nat /\ r[1] + k \in 1..n /\ answer'.values[k] = s[r[1] + k]
        /\ r[1] + r[2] <= n => Len(answer'.values) = r[2]
    BY <2>4 DEF Answered
  <2>6. AcceptedIsFilled'
    <3> SUFFICES ASSUME IsVector(d) => r[1] + r[2] <= infos[d].volumes
                 PROVE  Len(answer'.values) = r[2]
      BY <1>3, <2>5, FileStays DEF AcceptedIsFilled
    <3>1. r[1] + r[2] <= Volumes(t)
      BY <2>3
    <3>2. r[1] + r[2] <= n
      BY <1>1, <2>2, <3>1
    <3> QED
      BY <2>5, <3>2
  <2>7. ASSUME "levels" \notin Faults PROVE DataTopDown'
    <3>1. ASSUME NEW k \in DOMAIN answer'.values, NEW v, v = r[1] + k - 1, v < Volumes(t),
                 FullBefore(t, ColumnOf(t, v))
          PROVE  answer'.values[k] =
                     FromTop(t, ColumnOf(t, v), v - VolumesBefore(t, ColumnOf(t, v)))
      <4>1. k \in Nat /\ r[1] + k \in 1..n /\ answer'.values[k] = s[r[1] + k]
        BY <2>5
      <4>2. v \in Nat /\ v + 1 = r[1] + k /\ v + 1 \in 1..Volumes(t) /\ (v + 1) - 1 = v
        BY <1>1, <2>2, <3>1, <4>1
      <4>3. s[v + 1] = Reversed(t, v)
        BY <2>1, <2>7, <4>2 DEF Turned
      <4>4. Reversed(t, v) = FromTop(t, ColumnOf(t, v), v - VolumesBefore(t, ColumnOf(t, v)))
        BY <1>1, <3>1, <4>2, ReversedIsFromTop
      <4> QED
        BY <4>1, <4>2, <4>3, <4>4
    <3>2. \A k \in DOMAIN answer'.values :
             LET v == r[1] + k - 1 IN
             v < Volumes(t) =>
                 LET c == ColumnOf(t, v)
                 IN  FullBefore(t, c) =>
                         answer'.values[k] = FromTop(t, c, v - VolumesBefore(t, c))
      BY <3>1
    <3> QED
      BY <2>5, <3>2, FileStays DEF DataTopDown, StepOf
  <2> QED
    BY <2>6, <2>7 DEF AnswerInv
<1>4. CASE x.loaded /\ ~file.volumes
  <2>1. IsSequence(s, Len(file.layers))
    BY <1>4 DEF ContentSound, FacesRead
  <2>2. r[1] + r[2] <= Len(file.layers)
    BY <1>4 DEF Accepted, Limit
  <2>3. Answered(answer', "values", d, r, s, Len(file.layers))
    BY <1>1, <2>1, AnswerIs
  <2>4. answer'.count = r[2] /\ Len(answer'.values) = r[2]
    BY <2>2, <2>3 DEF Answered
  <2> QED
    BY <1>4, <2>4 DEF AnswerInv, AcceptedIsFilled, DataTopDown
<1> QED
  BY <1>2, <1>3, <1>4

(* Whatever else is asked for is answered in full or not at all.           *)
AllOrNothing(r, n) == n = 0 \/ r[1] + r[2] <= n

LEMMA OthersAnswered ==
    ASSUME NEW d, NEW r \in Requests, NEW kind, kind # "values", NEW s, NEW n,
           IsSequence(s, n), AllOrNothing(r, n),
           answer' = Answer(kind, d, r, s)
    PROVE  AnswerInv'
<1>1. r \in Nat \X Nat
  BY RequestsTyped
<1>2. Answered(answer', kind, d, r, s, n)
  BY <1>1, AnswerIs
<1>3. /\ answer'.kind # "values" /\ answer'.count = r[2]
      /\ answer'.values = <<>> \/ Len(answer'.values) = r[2]
  BY <1>2 DEF Answered, AllOrNothing
<1> QED
  BY <1>3 DEF AnswerInv, AcceptedIsFilled, DataTopDown

-----------------------------------------------------------------------------
(* The calls.                                                              *)
LEMMA DfsInvInit == DfsInit => DfsInv
BY DEF DfsInit, DfsInv, StatusInv, AnswerInv, AcceptedIsFilled, DataTopDown, NoAnswer

LEMMA OpenMeshSound ==
    ASSUME DfsInv, NEW failed, OpenMesh(failed)
    PROVE  DfsInv'
<1> DEFINE read == {t \in Steps : file.volumes /\ t <= Prebuilt} \ failed
<1>1. /\ status = "closed" /\ status' = "populating" /\ file' = file
      /\ infos' = infos /\ answer' = answer
      /\ built' = read
      /\ counted' = [t \in Steps |-> IF t \in read THEN Volumes(t) ELSE 0]
      /\ topLevel' = [t \in Steps |-> IF t \in read THEN MaxLevels(t) ELSE -1]
      /\ data' = [d \in Datasets |-> NothingLoaded]
  BY DEF OpenMesh
<1>2. file \in Files /\ infos = <<>> /\ answer = NoAnswer
  BY <1>1 DEF DfsInv, StatusInv
<1>3. StatusInv'
  BY <1>1, <1>2 DEF StatusInv
<1>4. LevelsInv'
  <2>1. \A t \in Steps : Volumes(t) \in Int /\ MaxLevels(t) \in Int
    <3>1. \A t \in Steps : Volumes(t) \in Nat /\ MaxLevels(t) \in Nat
      BY <1>2, VolumesTyped, MaxLevelsTyped
    <3> QED
      BY <3>1
  <2>2. read \subseteq Steps /\ counted' \in [Steps -> Int] /\ topLevel' \in [Steps -> Int]
    <3> HIDE DEF read
    <3> QED
      BY <1>1, <2>1 DEF read
  <2>3. ASSUME NEW t \in Steps PROVE StepSound(t)'
    <3>1. CASE t \in read
      <4>1. file.volumes /\ topLevel'[t] = MaxLevels(t) /\ counted'[t] = Volumes(t)
        BY <1>1, <3>1
      <4> QED
        BY <1>1, <1>2, <4>1, StepRead
    <3>2. CASE t \notin read
      <4>1. topLevel'[t] = -1 /\ t \notin built'
        BY <1>1, <3>2
      <4> QED
        BY <4>1 DEF StepSound
    <3> QED
      BY <3>1, <3>2
  <2> HIDE DEF read
  <2> QED
    BY <1>1, <2>2, <2>3, FileStays DEF LevelsInv
<1>5. RecordsInv'
  <2>1. ASSUME NEW d \in Datasets PROVE ContentSound(d, data[d])'
    <3>1. data'[d] = NothingLoaded
      BY <1>1
    <3>2. ContentSound(d, NothingLoaded)
      BY <1>2, NothingLoadedSound
    <3> QED
      BY <1>1, <3>1, <3>2, FileStays
         DEF ContentSound, NothingRead, VolumesRead, FacesRead, IsSequence, StepOf
  <2> QED
    BY <1>1, <2>1, FileStays DEF RecordsInv
<1>6. InfosInv'
  BY <1>1, <1>2 DEF InfosInv
<1>7. AnswerInv'
  BY <1>1, <1>2, NoAnswerSound
<1> QED
  BY <1>3, <1>4, <1>5, <1>6, <1>7 DEF DfsInv

LEMMA PopulateDatasetSound ==
    ASSUME DfsInv, NEW d \in Datasets, PopulateDataset(d)
    PROVE  DfsInv'
<1>1. /\ status = "populating" /\ status' = status /\ file' = file /\ answer' = answer
  BY DEF PopulateDataset
<1>2. file \in Files /\ answer = NoAnswer /\ LevelsInv /\ RecordsInv /\ InfosInv
  BY <1>1 DEF DfsInv, StatusInv
<1>3. PICK levelsOk, valuesOk :
          PopulateOnVolumes(d, levelsOk, valuesOk) \/ PopulateOnFaces(d, valuesOk)
  BY DEF PopulateDataset
<1> DEFINE t == StepOf(d)
           known == topLevel[t] # -1 \/ LevelsKnown(t, levelsOk)
<1>4. data' = [data EXCEPT ![d] = NothingLoaded]
  BY <1>3 DEF PopulateOnVolumes, PopulateOnFaces
<1>5. t \in Steps
  BY DEF Datasets, StepOf
<1>6. Volumes(t) \in Int /\ MaxLevels(t) \in Int /\ MaxLevels(t) # -1
  <2>1. Volumes(t) \in Nat /\ MaxLevels(t) \in Nat
    BY <1>2, <1>5, VolumesTyped, MaxLevelsTyped
  <2> QED
    BY <2>1
<1>7. StatusInv'
  BY <1>1 DEF DfsInv, StatusInv
<1>8. RecordsInv'
  BY <1>1, <1>2, <1>4, NothingLoadedSound, RecordSet
<1>9. AnswerInv'
  BY <1>1, <1>2, NoAnswerSound
<1>10. CASE PopulateOnFaces(d, valuesOk)
  <2>1. /\ ~file.volumes /\ infos' = Note(d, Noted(0, 0, valuesOk)) /\ UNCHANGED levelData
    BY <1>10 DEF PopulateOnFaces
  <2>2. LevelsInv'
    BY <1>1, <1>2, <2>1, LevelsStay
  <2>3. ASSUME NEW e \in DOMAIN infos' PROVE e \in Datasets /\ InfoSound(e)'
    <3>1. CASE e = d
      <4>1. infos'[e].volumes = 0
        BY <2>1, <2>3, <3>1 DEF Note, Noted
      <4> QED
        BY <1>1, <2>1, <3>1, <4>1 DEF InfoSound
    <3>2. CASE e # d
      <4>1. e \in DOMAIN infos /\ infos'[e] = infos[e]
        BY <2>1, <2>3, <3>2 DEF Note
      <4> QED
        BY <1>1, <1>2, <2>1, <4>1, InfoStays DEF InfosInv, levelData
    <3> QED
      BY <3>1, <3>2
  <2>4. InfosInv'
    BY <1>1, <2>3, FileStays DEF InfosInv
  <2> QED
    BY <1>7, <1>8, <1>9, <2>2, <2>4 DEF DfsInv
<1>11. CASE PopulateOnVolumes(d, levelsOk, valuesOk)
  <2> DEFINE info == Noted(IF known THEN Volumes(t) ELSE 0, IF known THEN MaxLevels(t) ELSE -1,
                           (IF known THEN Volumes(t) ELSE 0) > 0 /\ valuesOk)
  <2>1. /\ file.volumes
        /\ infos' = Note(d, info)
        /\ counted' = [counted EXCEPT ![t] = IF known THEN Volumes(t) ELSE 0]
        /\ topLevel' = [topLevel EXCEPT ![t] = IF known THEN MaxLevels(t) ELSE -1]
        /\ built' = built \ {t}
    BY <1>11 DEF PopulateOnVolumes
  <2>2. info.volumes = IF known THEN Volumes(t) ELSE 0
    BY DEF Noted
  <2>3. topLevel[t] # -1 => known
    OBVIOUS
  <2> HIDE DEF info, known
  <2>4. built' \subseteq Steps /\ counted' \in [Steps -> Int] /\ topLevel' \in [Steps -> Int]
    <3>1. (IF known THEN Volumes(t) ELSE 0) \in Int /\ (IF known THEN MaxLevels(t) ELSE -1) \in Int
      BY <1>6
    <3> QED
      BY <1>2, <2>1, <3>1 DEF LevelsInv
  <2>5. topLevel'[t] = IF known THEN MaxLevels(t) ELSE -1
    BY <1>2, <1>5, <2>1 DEF LevelsInv
  <2>6. counted'[t] = IF known THEN Volumes(t) ELSE 0
    BY <1>2, <1>5, <2>1 DEF LevelsInv
  <2>7. ASSUME NEW u \in Steps PROVE StepSound(u)'
    <3>1. CASE u = t /\ known
      BY <1>1, <1>2, <2>1, <2>5, <2>6, <3>1, StepRead
    <3>2. CASE u = t /\ ~known
      <4>1. topLevel'[u] = -1 /\ u \notin built'
        BY <2>1, <2>5, <3>2
      <4> QED
        BY <4>1 DEF StepSound
    <3>3. CASE u # t
      BY <1>1, <1>2, <2>1, <3>3, StepStays DEF LevelsInv
    <3> QED
      BY <3>1, <3>2, <3>3
  <2>8. LevelsInv'
    BY <1>1, <2>4, <2>7, FileStays DEF LevelsInv
  <2>9. \A u \in Steps : topLevel[u] # -1 => topLevel'[u] # -1
    BY <1>2, <1>6, <2>1, <2>3, <2>5 DEF LevelsInv
  <2>10. ASSUME NEW e \in DOMAIN infos' PROVE e \in Datasets /\ InfoSound(e)'
    <3>1. CASE e = d
      <4>1. infos'[e] = info
        BY <2>1, <2>10, <3>1 DEF Note
      <4>2. infos'[e].volumes \in {0, Volumes(t)}
        BY <2>2, <4>1
      <4>3. infos'[e].volumes # 0 => topLevel'[t] # -1
        BY <1>6, <2>2, <2>5, <4>1
      <4> QED
        BY <1>1, <3>1, <4>2, <4>3, FileStays DEF InfoSound, StepOf
    <3>2. CASE e # d
      <4>1. e \in DOMAIN infos /\ infos'[e] = infos[e]
        BY <2>1, <2>10, <3>2 DEF Note
      <4>2. e \in Datasets /\ InfoSound(e) /\ StepOf(e) \in Steps
        BY <1>2, <4>1 DEF InfosInv, Datasets, StepOf
      <4> QED
        BY <1>1, <2>9, <4>1, <4>2, InfoStays
    <3> QED
      BY <3>1, <3>2
  <2>11. InfosInv'
    BY <1>1, <2>10, FileStays DEF InfosInv
  <2> QED
    BY <1>7, <1>8, <1>9, <2>8, <2>11 DEF DfsInv
<1> QED
  BY <1>3, <1>10, <1>11

LEMMA PopulatedSound ==
    ASSUME DfsInv, Populated
    PROVE  DfsInv'
<1>1. /\ status = "populating" /\ status' = "open" /\ DOMAIN infos = Datasets
      /\ file' = file /\ built' = built /\ counted' = counted /\ topLevel' = topLevel
      /\ data' = data /\ infos' = infos /\ answer' = answer
  BY DEF Populated
<1>2. file \in Files /\ answer = NoAnswer /\ LevelsInv /\ RecordsInv /\ InfosInv
  BY <1>1 DEF DfsInv, StatusInv
<1>3. LevelsInv'
  BY <1>1, <1>2, LevelsStay DEF levelData
<1>4. RecordsInv'
  BY <1>1, <1>2, ContentStays, FileStays DEF RecordsInv
<1>5. InfosInv'
  BY <1>1, <1>2, InfosStay
<1>6. AnswerInv'
  BY <1>1, <1>2, NoAnswerSound
<1>7. StatusInv'
  BY <1>1, <1>2, FileStays DEF StatusInv
<1> QED
  BY <1>3, <1>4, <1>5, <1>6, <1>7 DEF DfsInv

LEMMA OpenInv ==
    ASSUME DfsInv, status = "open", NEW d \in Datasets
    PROVE  /\ StatusInv /\ file \in Files /\ LevelsInv /\ RecordsInv /\ InfosInv /\ AnswerInv
           /\ StepOf(d) \in Steps /\ ContentSound(d, data[d]) /\ InfoSound(d)
BY DEF DfsInv, StatusInv, RecordsInv, InfosInv, Datasets, StepOf

LEMMA ReadValuesSound ==
    ASSUME DfsInv, NEW d \in Datasets, NEW r \in Requests, NEW levelsOk \in Outcomes("levels"),
           NEW valuesOk, ReadValues(d, r, levelsOk, valuesOk)
    PROVE  DfsInv'
<1> DEFINE t == StepOf(d)
           known == LevelsKnown(t, levelsOk)
           x == DataAfterRead(d, known, valuesOk)
<1>1. /\ status = "open" /\ status' = "open" /\ Accepted(d, "values", r)
      /\ IF file.volumes /\ ~data[d].loaded THEN BuildLevels(t, levelsOk) ELSE UNCHANGED levelData
      /\ data' = [data EXCEPT ![d] = x]
      /\ answer' = Answer("values", d, r, data'[d].values)
      /\ file' = file /\ infos' = infos
  BY DEF ReadValues
<1>2. /\ StatusInv /\ file \in Files /\ LevelsInv /\ RecordsInv /\ InfosInv
      /\ t \in Steps /\ ContentSound(d, data[d]) /\ InfoSound(d)
  BY <1>1, OpenInv
<1>3. file.volumes => counted[t] = Volumes(t)
  BY <1>1, <1>2, AcceptedIsKnown DEF LevelsInv, StepSound
<1>4. "levels" \notin Faults => known
  BY DEF Outcomes, LevelsKnown
<1>5. ContentSound(d, x)
  <2> HIDE DEF known
  <2> QED
    BY <1>2, <1>3, <1>4, DataAfterReadSound
<1> HIDE DEF x, known
<1>6. data'[d] = x
  BY <1>1, <1>2 DEF RecordsInv
<1>7. /\ LevelsInv'
      /\ \A u \in Steps : topLevel[u] # -1 => topLevel'[u] # -1
  <2>1. CASE file.volumes /\ ~data[d].loaded
    BY <1>1, <1>2, <2>1, BuildLevelsSound
  <2>2. CASE ~(file.volumes /\ ~data[d].loaded)
    BY <1>1, <1>2, <2>2, LevelsStay DEF levelData
  <2> QED
    BY <2>1, <2>2
<1>8. RecordsInv'
  BY <1>1, <1>2, <1>5, RecordSet
<1>9. InfosInv'
  BY <1>1, <1>2, <1>7, InfosStay
<1>10. AnswerInv'
  BY <1>1, <1>2, <1>5, <1>6, ValuesAnswered
<1>11. StatusInv'
  BY <1>1, <1>2, FileStays DEF StatusInv
<1> QED
  BY <1>7, <1>8, <1>9, <1>10, <1>11 DEF DfsInv

LEMMA ReadFlagsSound ==
    ASSUME DfsInv, NEW d \in Datasets, NEW r \in Requests, NEW valuesOk,
           ReadFlags(d, r, valuesOk)
    PROVE  DfsInv'
<1> DEFINE x == DataAfterRead(d, FALSE, valuesOk)
           n == Len(file.layers)
<1>1. /\ status = "open" /\ status' = "open" /\ ~file.volumes /\ Accepted(d, "flags", r)
      /\ data' = [data EXCEPT ![d] = x]
      /\ answer' = Answer("flags", d, r, data'[d].active)
      /\ file' = file /\ infos' = infos /\ UNCHANGED levelData
  BY DEF ReadFlags, levelData
<1>2. /\ StatusInv /\ file \in Files /\ LevelsInv /\ RecordsInv /\ InfosInv
      /\ StepOf(d) \in Steps /\ ContentSound(d, data[d]) /\ InfoSound(d)
  BY <1>1, OpenInv
<1>3. ContentSound(d, x)
  BY <1>1, <1>2, DataAfterReadSound
<1> HIDE DEF x
<1>4. data'[d] = x
  BY <1>1, <1>2 DEF RecordsInv
<1>5. r[1] + r[2] <= n
  BY <1>1 DEF Accepted, Limit
<1>6. AnswerInv'
  <2>1. x.active = <<>> \/ IsSequence(x.active, n)
    BY <1>1, <1>3 DEF ContentSound, NothingRead, FacesRead
  <2>2. answer' = Answer("flags", d, r, x.active)
    BY <1>1, <1>4
  <2>3. AllOrNothing(r, 0) /\ AllOrNothing(r, n)
    BY <1>5 DEF AllOrNothing
  <2>4. CASE x.active = <<>>
    <3>1. IsSequence(x.active, 0)
      BY <2>4, NothingIsSequence
    <3> QED
      BY <2>2, <2>3, <3>1, OthersAnswered
  <2>5. CASE IsSequence(x.active, n)
    BY <2>2, <2>3, <2>5, OthersAnswered
  <2> QED
    BY <2>1, <2>4, <2>5
<1>7. LevelsInv'
  BY <1>1, <1>2, LevelsStay
<1>8. RecordsInv'
  BY <1>1, <1>2, <1>3, RecordSet
<1>9. InfosInv'
  BY <1>1, <1>2, InfosStay DEF levelData
<1>10. StatusInv'
  BY <1>1, <1>2, FileStays DEF StatusInv
<1> QED
  BY <1>6, <1>7, <1>8, <1>9, <1>10 DEF DfsInv

(* The level arrays are as long as MDAL_D_data takes them to be.           *)
LEMMA LevelArrayIs ==
    ASSUME file \in Files, file.volumes, NEW d \in Datasets, InfoSound(d), NEW r \in Requests,
           NEW kind \in LevelKinds, Accepted(d, kind, r)
    PROVE  \E n \in Nat : IsSequence(LevelArray(StepOf(d), kind), n) /\ r[1] + r[2] <= n
<1> DEFINE t == StepOf(d)
           n == Len(file.layers)
<1>1. t \in Steps /\ n \in Nat /\ Columns = 1..n
  BY FileTyped DEF Datasets, StepOf
<1>2. Volumes(t) \in Nat
  BY <1>1, VolumesTyped
<1>3. r[1] \in Nat /\ r[2] \in Nat
  BY RequestsTyped
<1>4. CASE kind = "levels"
  <2>1. LevelArray(t, kind) = [k \in 1..(Volumes(t) + n) |-> k]
    BY <1>4 DEF LevelArray
  <2>2. Volumes(t) + n \in Nat
    BY <1>1, <1>2
  <2>3. IsSequence(LevelArray(t, kind), Volumes(t) + n)
    BY <2>1, <2>2 DEF IsSequence
  <2>4. r[1] + r[2] <= Len(file.layers) + infos[d].volumes
    BY <1>4 DEF Accepted, Limit
  <2>5. infos[d].volumes \in {0, Volumes(t)}
    BY DEF InfoSound
  <2>6. r[1] + r[2] <= Volumes(t) + n
    <3> DEFINE v == infos[d].volumes
    <3>1. r[1] + r[2] <= n + v /\ v \in {0, Volumes(t)}
      BY <2>4, <2>5
    <3> HIDE DEF t, n, v
    <3> QED
      BY <1>1, <1>2, <1>3, <3>1
  <2> QED
    BY <2>2, <2>3, <2>6
<1>5. CASE kind # "levels"
  <2>1. LevelArray(t, kind) = LevelCounts(t) \/
        LevelArray(t, kind) = [c \in Columns |-> VolumesBefore(t, c)]
    BY <1>5 DEF LevelArray, LevelKinds
  <2>2. IsSequence(LevelArray(t, kind), n)
    BY <1>1, <2>1 DEF IsSequence, LevelCounts
  <2>3. kind # "values"
    BY DEF LevelKinds
  <2>4. r[1] + r[2] <= n
    BY <1>5, <2>3 DEF Accepted, Limit
  <2> QED
    BY <1>1, <2>2, <2>4
<1> QED
  BY <1>4, <1>5

LEMMA ReadLevelsSound ==
    ASSUME DfsInv, NEW d \in Datasets, NEW r \in Requests, NEW levelsOk,
           NEW kind \in LevelKinds,
           ReadLevels(d, kind, r, levelsOk)
    PROVE  DfsInv'
<1> DEFINE t == StepOf(d)
<1>1. /\ status = "open" /\ status' = "open" /\ file.volumes /\ Accepted(d, kind, r)
      /\ BuildLevels(t, levelsOk)
      /\ answer' = Answer(kind, d, r, IF t \in built' THEN LevelArray(t, kind) ELSE <<>>)
      /\ file' = file /\ data' = data /\ infos' = infos
  BY DEF ReadLevels
<1>2. /\ StatusInv /\ file \in Files /\ LevelsInv /\ RecordsInv /\ InfosInv
      /\ t \in Steps /\ InfoSound(d)
  BY <1>1, OpenInv
<1>3. /\ LevelsInv'
      /\ \A u \in Steps : topLevel[u] # -1 => topLevel'[u] # -1
  BY <1>1, <1>2, BuildLevelsSound
<1>4. AnswerInv'
  <2>0. kind # "values"
    BY DEF LevelKinds
  <2>1. CASE t \in built'
    <3>1. answer' = Answer(kind, d, r, LevelArray(t, kind))
      BY <1>1, <2>1
    <3>2. PICK n \in Nat : IsSequence(LevelArray(t, kind), n) /\ r[1] + r[2] <= n
      BY <1>1, <1>2, LevelArrayIs
    <3>3. AllOrNothing(r, n)
      BY <3>2 DEF AllOrNothing
    <3> QED
      BY <2>0, <3>1, <3>2, <3>3, OthersAnswered
  <2>2. CASE t \notin built'
    <3>1. answer' = Answer(kind, d, r, <<>>)
      BY <1>1, <2>2
    <3>2. AllOrNothing(r, 0)
      BY DEF AllOrNothing
    <3> QED
      BY <2>0, <3>1, <3>2, NothingIsSequence, OthersAnswered
  <2> QED
    BY <2>1, <2>2
<1>5. RecordsInv'
  BY <1>1, <1>2, ContentStays, FileStays DEF RecordsInv
<1>6. InfosInv'
  BY <1>1, <1>2, <1>3, InfosStay
<1>7. StatusInv'
  BY <1>1, <1>2, FileStays DEF StatusInv
<1> QED
  BY <1>3, <1>4, <1>5, <1>6, <1>7 DEF DfsInv

LEMMA StutterSound ==
    ASSUME DfsInv, UNCHANGED vars
    PROVE  DfsInv'
<1>1. /\ file' = file /\ status' = status /\ UNCHANGED levelData
      /\ data' = data /\ infos' = infos /\ answer' = answer
  BY DEF vars, levelData
<1>2. AnswerInv'
  BY <1>1, AnswerStays DEF DfsInv
<1>3. StatusInv'
  BY <1>1, FileStays DEF DfsInv, StatusInv
<1>4. ASSUME status # "closed" PROVE LevelsInv' /\ RecordsInv' /\ InfosInv'
  <2>1. LevelsInv /\ RecordsInv /\ InfosInv
    BY <1>4 DEF DfsInv
  <2>2. LevelsInv'
    BY <1>1, <2>1, LevelsStay
  <2>3. RecordsInv'
    BY <1>1, <2>1, ContentStays, FileStays DEF RecordsInv
  <2>4. InfosInv'
    BY <1>1, <2>1, InfosStay DEF levelData
  <2> QED
    BY <2>2, <2>3, <2>4
<1> QED
  BY <1>1, <1>2, <1>3, <1>4 DEF DfsInv

LEMMA DfsInvNext == DfsInv /\ [DfsNext]_vars => DfsInv'
<1> SUFFICES ASSUME DfsInv, [DfsNext]_vars PROVE DfsInv'
  OBVIOUS
<1>1. ASSUME NEW failed, OpenMesh(failed) PROVE DfsInv'
  BY <1>1, OpenMeshSound
<1>2. ASSUME NEW d \in Datasets, PopulateDataset(d) PROVE DfsInv'
  BY <1>2, PopulateDatasetSound
<1>3. CASE Populated
  BY <1>3, PopulatedSound
<1>4. ASSUME NEW d \in Datasets, NEW r \in Requests, NEW levelsOk \in Outcomes("levels"),
             NEW valuesOk, ReadValues(d, r, levelsOk, valuesOk)
      PROVE  DfsInv'
  BY <1>4, ReadValuesSound
<1>5. ASSUME NEW d \in Datasets, NEW r \in Requests, NEW valuesOk, ReadFlags(d, r, valuesOk)
      PROVE  DfsInv'
  BY <1>5, ReadFlagsSound
<1>6. ASSUME NEW d \in Datasets, NEW r \in Requests, NEW levelsOk,
             NEW kind \in LevelKinds,
             ReadLevels(d, kind, r, levelsOk)
      PROVE  DfsInv'
  BY <1>6, ReadLevelsSound
<1>7. CASE UNCHANGED vars
  BY <1>7, StutterSound
<1> QED
  BY <1>1, <1>2, <1>3, <1>4, <1>5, <1>6, <1>7 DEF DfsNext

(* Every state satisfies the invariant: what the plugin notes of a step is *)
(* right or missing, MDAL accepts values on volumes only of steps whose    *)
(* volumes are known, and what is in memory has the size noted.            *)
THEOREM DfsInvHolds == DfsSpec => []DfsInv
BY DfsInvInit, DfsInvNext, PTL DEF DfsSpec

(* Type correctness of the plugin's data, the counts of levels in memory   *)
(* included (LevelValuesGenerator).                                        *)
THEOREM DfsTypes == DfsSpec => []DfsTypeOK
<1>1. DfsInv => DfsTypeOK
  BY DEF DfsInv, StatusInv, LevelsInv, StepSound, RecordsInv, InfosInv, ContentSound,
         NothingRead, DfsTypeOK
<1> QED
  BY <1>1, DfsInvHolds, PTL

(* For every file, any pattern of failing reads, of values and levels, and *)
(* any order of requests: what MDAL_D_data accepts by the counts it noted  *)
(* comes in full, or not at all.                                           *)
THEOREM AcceptedComesFull == DfsSpec => []AcceptedIsFilled
<1>1. DfsInv => AcceptedIsFilled
  BY DEF DfsInv, AnswerInv
<1> QED
  BY <1>1, DfsInvHolds, PTL

(* For every file, any pattern of failing reads of values and any order of *)
(* requests: the values on volumes come from the top down, as long as the  *)
(* levels can be read (without them reverseAndActiveData does nothing).    *)
THEOREM ValuesComeTopDown ==
    ASSUME "levels" \notin Faults
    PROVE  DfsSpec => []DataTopDown
<1>1. DfsInv => DataTopDown
  BY DEF DfsInv, AnswerInv
<1> QED
  BY <1>1, DfsInvHolds, PTL

-----------------------------------------------------------------------------
(* A read, whatever becomes of it, leaves what is loaded.                  *)
LEMMA LoadedIsKept ==
    ASSUME NEW d, NEW known, NEW ok, data[d].loaded
    PROVE  DataAfterRead(d, known, ok) = data[d]
BY DEF DataAfterRead

(* While the mesh is open only reads change the records, one at a time.    *)
LEMMA OpenStepKeepsLoaded ==
    ASSUME DfsInv, [DfsNext]_vars, status = "open",
           NEW e \in Datasets, data[e].loaded
    PROVE  data'[e] = data[e]
<1>1. DOMAIN data = Datasets
  BY DEF DfsInv, RecordsInv
<1>2. ASSUME NEW d \in Datasets, NEW r, NEW levelsOk, NEW valuesOk,
             ReadValues(d, r, levelsOk, valuesOk)
      PROVE  data'[e] = data[e]
  BY <1>1, <1>2, LoadedIsKept DEF ReadValues
<1>3. ASSUME NEW d \in Datasets, NEW r, NEW valuesOk, ReadFlags(d, r, valuesOk)
      PROVE  data'[e] = data[e]
  BY <1>1, <1>3, LoadedIsKept DEF ReadFlags
<1>4. ASSUME NEW d, NEW kind, NEW r, NEW levelsOk, ReadLevels(d, kind, r, levelsOk)
      PROVE  data' = data
  BY <1>4 DEF ReadLevels
<1>5. CASE UNCHANGED vars
  BY <1>5 DEF vars
<1>6. /\ \A failed : ~OpenMesh(failed)
      /\ \A d : ~PopulateDataset(d)
      /\ ~Populated
  BY DEF OpenMesh, PopulateDataset, Populated
<1> QED
  BY <1>2, <1>3, <1>4, <1>5, <1>6 DEF DfsNext

(* Values in memory stay what they are while the mesh is open (getData of  *)
(* dhi_dfs with mLoaded): for any number of groups and steps, any pattern  *)
(* of failing reads and any order of requests.                             *)
THEOREM LoadedValuesStay == DfsSpec => ValuesStay
<1>1. DfsInv /\ [DfsNext]_vars =>
          [status = "open" => \A d \in Datasets : data[d].loaded => data'[d] = data[d]]_vars
  BY OpenStepKeepsLoaded
<1> QED
  BY <1>1, DfsInvHolds, PTL DEF DfsSpec, ValuesStay
=============================================================================
