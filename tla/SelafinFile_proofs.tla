------------------------ MODULE SelafinFile_proofs ------------------------
(***************************************************************************)
(* What is proved of SELAFIN files, for every number of files, groups,     *)
(* variables, vertices and time steps, all names and all faults: a loaded  *)
(* mesh goes on reading its data, and what was persisted stays.            *)
(***************************************************************************)
EXTENDS SelafinFile, FiniteSetTheorems, SequenceTheorems, WellFoundedInduction, TLAPS

(* Induction over the natural numbers, on sets of them.                    *)
LEMMA Least ==
    ASSUME NEW T \in SUBSET Nat, T # {}
    PROVE  \E n \in T : \A m \in T : n <= m
<1> DEFINE R == OpToRel(<, Nat)
<1>1. IsWellFoundedOn(R, Nat)
  BY NatLessThanWellFounded
<1> HIDE DEF R
<1>2. \E x \in T : \A y \in T : <<y, x>> \notin R
  BY <1>1, WFMin
<1>3. \A x, y \in Nat : <<y, x>> \notin R => x <= y
  BY DEF R, OpToRel
<1> QED
  BY <1>2, <1>3

LEMMA UpTo ==
    ASSUME NEW n \in Nat, NEW S, 0 \in S,
           \A k \in 1..n : k - 1 \in S => k \in S
    PROVE  0..n \subseteq S
<1> DEFINE T == {k \in 0..n : k \notin S}
<1> SUFFICES ASSUME T # {} PROVE FALSE
  OBVIOUS
<1>1. T \in SUBSET Nat
  OBVIOUS
<1>2. PICK k \in T : \A m \in T : k <= m
  <2> HIDE DEF T
  <2> QED
    BY <1>1, Least
<1>3. k \in 1..n /\ k - 1 \in 0..n
  BY <1>2
<1>4. k - 1 \notin T
  BY <1>2, <1>3
<1> QED
  BY <1>2, <1>3, <1>4

(* The functions that a definition by recursion over 0..n stands for.      *)
Runs(n, S, x, step) ==
    {g \in [0..n -> S] : g[0] = x /\ \A k \in 1..n : g[k] = step[<<g[k - 1], k>>]}

LEMMA StepsFrom ==
    ASSUME NEW n \in Nat, NEW S, NEW x \in S, NEW step \in [S \X (1..n) -> S]
    PROVE  Runs(n, S, x, step) # {}
<1> DEFINE G(m) == {g \in [0..m -> S] :
                       g[0] = x /\ \A k \in 1..m : g[k] = step[<<g[k - 1], k>>]}
           T == {m \in 0..n : G(m) # {}}
<1>1. 0 \in T
  <2>1. [k \in 0..0 |-> x] \in G(0)
    OBVIOUS
  <2> QED
    BY <2>1
<1>2. ASSUME NEW m \in 1..n, m - 1 \in T PROVE m \in T
  <2>1. PICK g \in G(m - 1) : TRUE
    BY <1>2
  <2>2. /\ g \in [0..(m - 1) -> S] /\ g[0] = x
        /\ \A k \in 1..(m - 1) : g[k] = step[<<g[k - 1], k>>]
    BY <2>1
  <2> DEFINE h == [k \in 0..m |-> IF k = m THEN step[<<g[m - 1], m>>] ELSE g[k]]
  <2>3. g[m - 1] \in S /\ step[<<g[m - 1], m>>] \in S
    <3>1. m - 1 \in 0..(m - 1)
      OBVIOUS
    <3> QED
      BY <2>2, <3>1
  <2>4. h \in [0..m -> S]
    <3>1. ASSUME NEW k \in 0..m, k # m PROVE g[k] \in S
      <4>1. k \in 0..(m - 1)
        BY <3>1
      <4> QED
        BY <2>2, <4>1
    <3> QED
      BY <2>3, <3>1
  <2>5. h[0] = x
    BY <2>2
  <2>6. ASSUME NEW k \in 1..m PROVE h[k] = step[<<h[k - 1], k>>]
    <3>1. k - 1 \in 0..m /\ k - 1 # m /\ k \in 0..m
      OBVIOUS
    <3>2. h[k - 1] = g[k - 1]
      BY <3>1
    <3>3. CASE k = m
      <4>1. h[k] = step[<<g[m - 1], m>>]
        BY <3>1, <3>3
      <4> QED
        BY <3>2, <3>3, <4>1
    <3>4. CASE k # m
      <4>1. k \in 1..(m - 1)
        BY <3>4
      <4> QED
        BY <2>2, <3>2, <3>4, <4>1
    <3> QED
      BY <3>3, <3>4
  <2>7. h \in G(m)
    <3> HIDE DEF h
    <3> QED
      BY <2>4, <2>5, <2>6
  <2>8. m \in 0..n
    OBVIOUS
  <2> HIDE DEF G, h
  <2> QED
    BY <2>7, <2>8
<1>3. n \in T
  <2> HIDE DEF T
  <2>1. 0..n \subseteq T
    BY <1>1, <1>2, UpTo
  <2> QED
    BY <2>1
<1> QED
  BY <1>3 DEF Runs

(* The lengths of what a time step holds, from the front.                  *)
LEMMA LengthsStep ==
    ASSUME NEW a \in Seq(Nat)
    PROVE  /\ LengthsUpTo(a) \in [0..Len(a) -> Nat]
          /\ LengthsUpTo(a)[0] = 2
          /\ \A k \in 1..Len(a) : LengthsUpTo(a)[k] = LengthsUpTo(a)[k - 1] + a[k] + 1
<1> DEFINE F == LengthsUpTo(a)
           step == [y \in Nat \X (1..Len(a)) |-> y[1] + a[y[2]] + 1]
<1>1. Len(a) \in Nat /\ \A k \in 1..Len(a) : a[k] \in Nat
  OBVIOUS
<1>2. step \in [Nat \X (1..Len(a)) -> Nat]
  BY <1>1
<1>3. \A m \in Nat, k \in 1..Len(a) : step[<<m, k>>] = m + a[k] + 1
  OBVIOUS
<1>4. PICK g \in [0..Len(a) -> Nat] :
         g[0] = 2 /\ \A k \in 1..Len(a) : g[k] = step[<<g[k - 1], k>>]
  <2> HIDE DEF step
  <2>1. Runs(Len(a), Nat, 2, step) # {}
    BY <1>1, <1>2, StepsFrom
  <2> QED
    BY <2>1 DEF Runs
<1>5. \A k \in 1..Len(a) : k - 1 \in 0..Len(a) /\ g[k] = g[k - 1] + a[k] + 1
  <2> HIDE DEF step
  <2>1. ASSUME NEW k \in 1..Len(a) PROVE k - 1 \in 0..Len(a) /\ g[k - 1] \in Nat
    <3>1. k - 1 \in 0..Len(a)
      BY <1>1
    <3> QED
      BY <3>1
  <2> QED
    BY <1>3, <1>4, <2>1
<1>6. g = [k \in 0..Len(a) |-> IF k = 0 THEN 2 ELSE g[k - 1] + a[k] + 1]
  <2>1. ASSUME NEW k \in 0..Len(a), k # 0 PROVE g[k] = g[k - 1] + a[k] + 1
    <3>1. k \in 1..Len(a)
      BY <1>1, <2>1
    <3> QED
      BY <1>5, <3>1
  <2> QED
    BY <1>4, <2>1
<1>7. F = [k \in 0..Len(a) |-> IF k = 0 THEN 2 ELSE F[k - 1] + a[k] + 1]
  BY <1>6 DEF LengthsUpTo
<1> HIDE DEF F
<1>8. F[0] = 2 /\ \A k \in 1..Len(a) : F[k] = F[k - 1] + a[k] + 1
  <2>1. \A k \in 0..Len(a) : F[k] = IF k = 0 THEN 2 ELSE F[k - 1] + a[k] + 1
    BY <1>7
  <2> QED
    BY <1>1, <2>1
<1> DEFINE S == {k \in 0..Len(a) : F[k] \in Nat}
<1>9. 0..Len(a) \subseteq S
  <2>1. 0 \in S
    BY <1>1, <1>8
  <2>2. ASSUME NEW k \in 1..Len(a), k - 1 \in S PROVE k \in S
    <3>1. F[k - 1] \in Nat /\ a[k] \in Nat /\ k \in 0..Len(a)
      BY <1>1, <2>2
    <3>2. F[k] = F[k - 1] + a[k] + 1
      BY <1>8
    <3> QED
      BY <3>1, <3>2
  <2> HIDE DEF S
  <2> QED
    BY <1>1, <2>1, <2>2, UpTo
<1>10. F \in [0..Len(a) -> Nat]
  BY <1>7, <1>9
<1> QED
  BY <1>8, <1>10 DEF F


LEMMA StepLengthNat ==
    ASSUME NEW a \in Seq(Nat)
    PROVE  StepLength(a) \in Nat /\ StepLength(a) >= 2
<1> DEFINE F == LengthsUpTo(a)
           S == {k \in 0..Len(a) : F[k] >= 2}
<1>1. Len(a) \in Nat /\ F \in [0..Len(a) -> Nat] /\ F[0] = 2
  BY LengthsStep
<1>2. \A k \in 1..Len(a) : F[k] = F[k - 1] + a[k] + 1 /\ a[k] \in Nat
  BY LengthsStep
<1> HIDE DEF F
<1>3. 0..Len(a) \subseteq S
  <2>1. 0 \in S
    BY <1>1
  <2>2. ASSUME NEW k \in 1..Len(a), k - 1 \in S PROVE k \in S
    <3>1. F[k - 1] \in Nat /\ F[k - 1] >= 2 /\ k \in 0..Len(a)
      BY <1>1, <2>2
    <3>2. F[k] = F[k - 1] + a[k] + 1 /\ a[k] \in Nat
      BY <1>2
    <3> QED
      BY <3>1, <3>2
  <2> HIDE DEF S
  <2> QED
    BY <1>1, <2>1, <2>2, UpTo
<1>4. F[Len(a)] \in Nat /\ F[Len(a)] >= 2
  BY <1>1, <1>3
<1> QED
  BY <1>4 DEF StepLength, F

LEMMA StepLengthEven ==
    ASSUME NEW a \in Seq(Nat), NEW v \in Nat, \A k \in DOMAIN a : a[k] = v
    PROVE  StepLength(a) = 2 + Len(a) * (v + 1)
<1> DEFINE F == LengthsUpTo(a)
           S == {k \in 0..Len(a) : F[k] = 2 + k * (v + 1)}
<1>1. Len(a) \in Nat /\ F \in [0..Len(a) -> Nat] /\ F[0] = 2
  BY LengthsStep
<1>2. \A k \in 1..Len(a) : F[k] = F[k - 1] + v + 1
  BY LengthsStep
<1> HIDE DEF F
<1>3. \A k \in Nat : k > 0 => k - 1 \in Nat /\ (k - 1) * (v + 1) + (v + 1) = k * (v + 1)
  OBVIOUS
<1>4. 0..Len(a) \subseteq S
  <2>1. 0 \in S
    BY <1>1
  <2>2. ASSUME NEW k \in 1..Len(a), k - 1 \in S PROVE k \in S
    <3>1. F[k - 1] = 2 + (k - 1) * (v + 1) /\ k \in 0..Len(a)
      BY <1>1, <2>2
    <3>2. F[k] = F[k - 1] + v + 1
      BY <1>2
    <3>3. k * (v + 1) \in Nat /\ (k - 1) * (v + 1) \in Nat
      <4>1. \A i, j \in Nat : i * j \in Nat
        OBVIOUS
      <4>2. k \in Nat /\ k - 1 \in Nat /\ v + 1 \in Nat
        BY <1>1
      <4> QED
        BY <4>1, <4>2
    <3>4. (k - 1) * (v + 1) + (v + 1) = k * (v + 1)
      BY <1>1, <1>3
    <3>5. F[k] = 2 + k * (v + 1)
      <4> HIDE DEF S
      <4> QED
        BY <3>1, <3>2, <3>3, <3>4
    <3> QED
      BY <3>1, <3>5
  <2> HIDE DEF S
  <2> QED
    BY <1>1, <2>1, <2>2, UpTo
<1>5. F[Len(a)] = 2 + Len(a) * (v + 1)
  BY <1>1, <1>4
<1> QED
  BY <1>5 DEF StepLength, F

-----------------------------------------------------------------------------
(* The fields of what is in a file.                                        *)
LEMMA ContentFields ==
    ASSUME NEW c \in Content
    PROVE  /\ c.vertices \in Nat /\ c.variables \in Seq(Variable) /\ c.steps \in Nat
           /\ c.frame \in {"none", "cut", "short", "whole"} /\ c.lost \in BOOLEAN
           /\ Len(c.variables) \in Nat /\ DOMAIN c.variables = 1..Len(c.variables)
           /\ \A i \in DOMAIN c.variables : c.variables[i] \in Variable
BY DEF Content

LEMMA SizesTyped ==
    ASSUME NEW c \in Content
    PROVE  /\ SizesOf(c) \in Seq(Nat) /\ Len(SizesOf(c)) = Len(c.variables)
           /\ \A i \in DOMAIN SizesOf(c) : i \in DOMAIN c.variables
                                           /\ SizesOf(c)[i] = c.variables[i].size
<1>1. \A i \in 1..Len(c.variables) : c.variables[i].size \in Nat
  BY ContentFields DEF Variable
<1>2. SizesOf(c) = [i \in 1..Len(c.variables) |-> c.variables[i].size]
  BY ContentFields DEF SizesOf
<1> QED
  BY <1>1, <1>2, ContentFields

LEMMA QuotientNat ==
    ASSUME NEW a \in Nat, NEW b \in Nat, b > 0
    PROVE  a \div b \in Nat /\ (a * b) \div b = a
OBVIOUS

(* The number of time steps a file seems to have is one (a short file of   *)
(* no time steps lacks nothing of them).                                   *)
LEMMA StepsFoundNat ==
    ASSUME NEW c \in Content
    PROVE  StepsFound(c) \in Nat
<1> DEFINE L == StepLength(SizesOf(c))
           missing == IF c.frame = "short" /\ c.steps > 0 THEN 1 ELSE 0
           D == 2 + Len(c.variables) * (c.vertices + 1)
<1>1. L \in Nat /\ L >= 2
  BY SizesTyped, StepLengthNat
<1>2. c.steps \in Nat /\ c.vertices \in Nat /\ Len(c.variables) \in Nat
  BY ContentFields
<1>3. D \in Nat /\ D > 0
  <2>1. \A m, n \in Nat : 2 + m * (n + 1) \in Nat /\ 2 + m * (n + 1) > 0
    OBVIOUS
  <2> QED
    BY <1>2, <2>1
<1>4. c.steps * L - missing \in Nat
  <2>1. \A m, n \in Nat : m > 0 /\ n >= 2 => m * n \in Nat /\ m * n >= 2
    OBVIOUS
  <2>2. CASE c.steps > 0
    <3>1. c.steps * L \in Nat /\ c.steps * L >= 2
      <4> HIDE DEF L
      <4> QED
        BY <1>1, <1>2, <2>1, <2>2
    <3>2. missing \in {0, 1}
      OBVIOUS
    <3> HIDE DEF L, missing
    <3> QED
      BY <3>1, <3>2
  <2>3. CASE c.steps = 0
    <3>1. missing = 0
      BY <2>3
    <3>2. c.steps * L = 0
      <4> HIDE DEF L
      <4> QED
        BY <1>1, <2>3
    <3> HIDE DEF L, missing
    <3> QED
      BY <3>1, <3>2
  <2> QED
    BY <1>2, <2>2, <2>3
<1>5. StepsFound(c) = (c.steps * L - missing) \div D
  BY DEF StepsFound
<1> HIDE DEF L, missing, D
<1> QED
  BY <1>3, <1>4, <1>5, QuotientNat

(* A whole file with values for its vertices has the time steps it says.   *)
LEMMA StepsFoundExact ==
    ASSUME NEW c \in Content, SizesAgree(c), c.frame = "whole"
    PROVE  StepsFound(c) = c.steps
<1> DEFINE D == 2 + Len(c.variables) * (c.vertices + 1)
<1>1. \A i \in DOMAIN SizesOf(c) : SizesOf(c)[i] = c.vertices
  BY SizesTyped DEF SizesAgree
<1>2. StepLength(SizesOf(c)) = D
  <2>1. StepLength(SizesOf(c)) = 2 + Len(SizesOf(c)) * (c.vertices + 1)
    BY <1>1, SizesTyped, StepLengthEven, ContentFields
  <2> QED
    BY <2>1, SizesTyped
<1>3. c.steps \in Nat /\ D \in Nat /\ D > 0
  <2>1. \A m, n \in Nat : 2 + m * (n + 1) \in Nat /\ 2 + m * (n + 1) > 0
    OBVIOUS
  <2> QED
    BY <2>1, ContentFields
<1>4. StepsFound(c) = (c.steps * D - 0) \div D
  BY <1>2 DEF StepsFound
<1> HIDE DEF D
<1>5. c.steps * D - 0 = c.steps * D
  BY <1>3
<1> QED
  BY <1>3, <1>4, <1>5, QuotientNat

LEMMA ParsedTyped ==
    ASSUME NEW c \in Content
    PROVE  /\ Parsed(c) \in Content
           /\ Parsed(c).vertices = c.vertices /\ Parsed(c).variables = c.variables
           /\ Parsed(c).steps = StepsFound(c)
           /\ Parsed(c).frame = c.frame /\ Parsed(c).lost = c.lost
BY StepsFoundNat DEF Parsed, Content

-----------------------------------------------------------------------------
(* The first variables of their names.                                     *)
LEMMA FirstsStep ==
    ASSUME NEW vs, Len(vs) \in Nat
    PROVE  /\ FirstsUpTo(vs) \in [0..Len(vs) -> Seq(Nat)]
           /\ FirstsUpTo(vs)[0] = <<>>
           /\ \A k \in 1..Len(vs) :
                 FirstsUpTo(vs)[k] = IF IsFirst(vs, k) THEN Append(FirstsUpTo(vs)[k - 1], k)
                                     ELSE FirstsUpTo(vs)[k - 1]
<1> DEFINE F == FirstsUpTo(vs)
           S == Seq(Nat)
           step == [y \in S \X (1..Len(vs)) |->
                       IF IsFirst(vs, y[2]) THEN Append(y[1], y[2]) ELSE y[1]]
<1>1. \A s \in S, k \in 1..Len(vs) : Append(s, k) \in S
  OBVIOUS
<1>2. step \in [S \X (1..Len(vs)) -> S]
  <2> HIDE DEF S
  <2> QED
    BY <1>1
<1>3. \A s \in S, k \in 1..Len(vs) :
         step[<<s, k>>] = IF IsFirst(vs, k) THEN Append(s, k) ELSE s
  <2> HIDE DEF S
  <2> QED
    OBVIOUS
<1>4. PICK g \in [0..Len(vs) -> S] :
         g[0] = <<>> /\ \A k \in 1..Len(vs) : g[k] = step[<<g[k - 1], k>>]
  <2>1. <<>> \in S
    OBVIOUS
  <2> HIDE DEF step, S
  <2>2. Runs(Len(vs), S, <<>>, step) # {}
    BY <1>2, <2>1, StepsFrom
  <2> QED
    BY <2>2 DEF Runs
<1> HIDE DEF S, step
<1>5. \A k \in 1..Len(vs) :
         g[k] = IF IsFirst(vs, k) THEN Append(g[k - 1], k) ELSE g[k - 1]
  <2>1. ASSUME NEW k \in 1..Len(vs) PROVE g[k - 1] \in S
    <3>1. k - 1 \in 0..Len(vs)
      OBVIOUS
    <3> QED
      BY <3>1
  <2> QED
    BY <1>3, <1>4, <2>1
<1>6. g = [k \in 0..Len(vs) |-> IF k = 0 THEN <<>>
                                ELSE IF IsFirst(vs, k) THEN Append(g[k - 1], k) ELSE g[k - 1]]
  <2>1. ASSUME NEW k \in 0..Len(vs), k # 0
        PROVE  g[k] = IF IsFirst(vs, k) THEN Append(g[k - 1], k) ELSE g[k - 1]
    <3>1. k \in 1..Len(vs)
      BY <2>1
    <3> QED
      BY <1>5, <3>1
  <2> QED
    BY <1>4, <2>1
<1>7. F = [k \in 0..Len(vs) |-> IF k = 0 THEN <<>>
                                ELSE IF IsFirst(vs, k) THEN Append(F[k - 1], k) ELSE F[k - 1]]
  BY <1>6 DEF FirstsUpTo
<1> HIDE DEF F
<1>8. F[0] = <<>>
  BY <1>7
<1>9. \A k \in 1..Len(vs) : F[k] = IF IsFirst(vs, k) THEN Append(F[k - 1], k) ELSE F[k - 1]
  <2>1. \A k \in 0..Len(vs) :
           F[k] = IF k = 0 THEN <<>>
                  ELSE IF IsFirst(vs, k) THEN Append(F[k - 1], k) ELSE F[k - 1]
    BY <1>7
  <2> QED
    BY <2>1
<1> DEFINE T == {k \in 0..Len(vs) : F[k] \in S}
<1>10. 0..Len(vs) \subseteq T
  <2>1. 0 \in T
    <3>1. <<>> \in S
      BY DEF S
    <3> QED
      BY <1>8, <3>1
  <2>2. ASSUME NEW k \in 1..Len(vs), k - 1 \in T PROVE k \in T
    <3>1. F[k - 1] \in S /\ k \in 0..Len(vs)
      BY <2>2
    <3> QED
      BY <1>1, <1>9, <3>1
  <2> HIDE DEF T
  <2> QED
    BY <2>1, <2>2, UpTo
<1>11. F \in [0..Len(vs) -> Seq(Nat)]
  BY <1>7, <1>10 DEF S
<1> QED
  BY <1>8, <1>9, <1>11 DEF F

Firsts(vs) == FirstsUpTo(vs)[Len(vs)]

(* They are the variables with no earlier one of their name, all of them.  *)
LEMMA FirstsFound ==
    ASSUME NEW vs, Len(vs) \in Nat
    PROVE  /\ Firsts(vs) \in Seq(Nat)
           /\ \A k \in DOMAIN Firsts(vs) :
                 Firsts(vs)[k] \in 1..Len(vs) /\ IsFirst(vs, Firsts(vs)[k])
           /\ \A i \in 1..Len(vs) :
                 IsFirst(vs, i) => \E k \in DOMAIN Firsts(vs) : Firsts(vs)[k] = i
<1> DEFINE F == FirstsUpTo(vs)
           Lists(s, n) ==
               /\ s \in Seq(Nat)
               /\ \A k \in DOMAIN s : s[k] \in 1..n /\ IsFirst(vs, s[k])
               /\ \A i \in 1..n : IsFirst(vs, i) => \E k \in DOMAIN s : s[k] = i
           T == {n \in 0..Len(vs) : Lists(F[n], n)}
<1>1. F \in [0..Len(vs) -> Seq(Nat)] /\ F[0] = <<>>
  BY FirstsStep
<1>2. \A k \in 1..Len(vs) : F[k] = IF IsFirst(vs, k) THEN Append(F[k - 1], k) ELSE F[k - 1]
  BY FirstsStep
<1> HIDE DEF F
<1>3. Lists(<<>>, 0)
  OBVIOUS
<1>4. ASSUME NEW s, NEW n \in 1..Len(vs), Lists(s, n - 1)
      PROVE  Lists(IF IsFirst(vs, n) THEN Append(s, n) ELSE s, n)
  <2>1. \A i : i \in 1..n <=> i \in 1..(n - 1) \/ i = n
    OBVIOUS
  <2>2. CASE ~IsFirst(vs, n)
    BY <1>4, <2>1, <2>2
  <2>3. CASE IsFirst(vs, n)
    <3> DEFINE t == Append(s, n)
    <3>1. /\ s \in Seq(Nat) /\ n \in Nat /\ t \in Seq(Nat)
          /\ Len(s) \in Nat /\ DOMAIN s = 1..Len(s)
          /\ DOMAIN t = 1..(Len(s) + 1) /\ t[Len(s) + 1] = n
          /\ \A k \in DOMAIN s : t[k] = s[k]
      BY <1>4
    <3> HIDE DEF t
    <3>2. \A k \in DOMAIN t : k \in DOMAIN s \/ k = Len(s) + 1
      BY <3>1
    <3>3. \A k \in DOMAIN t : t[k] \in 1..n /\ IsFirst(vs, t[k])
      BY <1>4, <2>1, <2>3, <3>1, <3>2
    <3>4. DOMAIN s \subseteq DOMAIN t /\ Len(s) + 1 \in DOMAIN t
      BY <3>1
    <3>5. ASSUME NEW i \in 1..n, IsFirst(vs, i) PROVE \E k \in DOMAIN t : t[k] = i
      <4>1. CASE i = n
        BY <3>1, <3>4, <4>1
      <4>2. CASE i \in 1..(n - 1)
        <5>1. PICK k \in DOMAIN s : s[k] = i
          BY <1>4, <3>5, <4>2
        <5> QED
          BY <3>1, <3>4, <5>1
      <4> QED
        BY <2>1, <4>1, <4>2
    <3> QED
      BY <2>3, <3>1, <3>3, <3>5 DEF t
  <2> QED
    BY <2>2, <2>3
<1> HIDE DEF Lists
<1>5. 0..Len(vs) \subseteq T
  <2>1. 0 \in T
    BY <1>1, <1>3
  <2>2. ASSUME NEW k \in 1..Len(vs), k - 1 \in T PROVE k \in T
    <3>1. Lists(F[k - 1], k - 1) /\ k \in 0..Len(vs)
      BY <2>2
    <3> QED
      BY <1>2, <1>4, <3>1
  <2> HIDE DEF T
  <2> QED
    BY <2>1, <2>2, UpTo
<1>6. Lists(F[Len(vs)], Len(vs))
  BY <1>5
<1> QED
  BY <1>6 DEF Firsts, F, Lists

LEMMA Greatest ==
    ASSUME NEW n \in Nat, NEW T \in SUBSET (1..n), T # {}
    PROVE  \E i \in T : \A j \in T : j <= i
<1> DEFINE R == {n - i : i \in T}
<1>1. R \in SUBSET Nat /\ R # {}
  <2>1. \A i \in T : n - i \in Nat
    OBVIOUS
  <2> QED
    BY <2>1
<1>2. PICK r \in R : \A s \in R : r <= s
  <2> HIDE DEF R
  <2> QED
    BY <1>1, Least
<1>3. PICK i \in T : r = n - i
  BY <1>2
<1>4. ASSUME NEW j \in T PROVE j <= i
  <2>1. n - j \in R /\ i \in 1..n /\ j \in 1..n
    OBVIOUS
  <2>2. n - i <= n - j
    BY <1>2, <1>3, <2>1
  <2> QED
    BY <2>1, <2>2
<1> QED
  BY <1>4

LEMMA ReadTyped ==
    ASSUME NEW v \in Variable
    PROVE  /\ v.name \in Names /\ v.part \in Parts /\ Value(v) \in Names \X Parts
           /\ NameRead(v) \in Names /\ PartRead(v) \in Parts
           /\ ReadAs[Value(v)] = <<NameRead(v), PartRead(v)>>
<1>1. v.name \in Names /\ v.part \in Parts
  BY DEF Variable
<1>2. Value(v) = <<v.name, v.part>> /\ Value(v) \in Names \X Parts
  BY <1>1 DEF Value
<1>3. ReadAs[Value(v)] \in Names \X Parts
  BY <1>2, SelafinAssumption
<1>4. ReadAs[Value(v)] = <<ReadAs[Value(v)][1], ReadAs[Value(v)][2]>>
  BY <1>3
<1> QED
  BY <1>1, <1>2, <1>3, <1>4 DEF NameRead, PartRead

(* The variables read as one of the parts of a name.                       *)
Components(variables, n, parts) ==
    {i \in DOMAIN variables :
        NameRead(variables[i]) = n /\ PartRead(variables[i]) \in parts}

LEMMA LastFound ==
    ASSUME NEW vs \in Seq(Variable), NEW n, NEW parts
    PROVE  LET C == Components(vs, n, parts)
               last == LastComponent(vs, n, parts)
           IN  /\ C = {} => last = 1
               /\ C # {} => last \in C /\ \A j \in C : j <= last
<1> DEFINE C == Components(vs, n, parts)
<1>1. LastComponent(vs, n, parts) =
         IF C = {} THEN 1 ELSE CHOOSE i \in C : \A j \in C : j <= i
  BY DEF LastComponent, Components
<1>2. C \subseteq 1..Len(vs) /\ Len(vs) \in Nat
  BY DEF Components
<1> HIDE DEF C
<1>3. CASE C = {}
  BY <1>1, <1>3 DEF C
<1>4. CASE C # {}
  <2>1. \E i \in C : \A j \in C : j <= i
    BY <1>2, <1>4, Greatest
  <2>2. (CHOOSE i \in C : \A j \in C : j <= i) \in C
    BY <2>1
  <2>3. \A j \in C : j <= (CHOOSE i \in C : \A j_1 \in C : j_1 <= i)
    BY <2>1
  <2> QED
    BY <1>1, <1>4, <2>2, <2>3 DEF C
<1> QED
  BY <1>3, <1>4

LEMMA LastIs ==
    ASSUME NEW vs \in Seq(Variable), NEW n, NEW parts,
           NEW i \in Components(vs, n, parts),
           \A j \in Components(vs, n, parts) : j <= i
    PROVE  LastComponent(vs, n, parts) = i
<1>1. /\ LastComponent(vs, n, parts) \in Components(vs, n, parts)
      /\ \A j \in Components(vs, n, parts) : j <= LastComponent(vs, n, parts)
  BY LastFound
<1>2. Components(vs, n, parts) \subseteq Nat
  BY DEF Components
<1> QED
  BY <1>1, <1>2

LEMMA LastInDomain ==
    ASSUME NEW vs \in Seq(Variable), Len(vs) > 0, NEW n, NEW parts
    PROVE  LastComponent(vs, n, parts) \in DOMAIN vs
<1>1. 1 \in DOMAIN vs /\ Components(vs, n, parts) \subseteq DOMAIN vs
  BY DEF Components
<1> QED
  BY <1>1, LastFound

-----------------------------------------------------------------------------
(* The groups a load makes.                                                *)
LEMMA ValuesTyped ==
    ASSUME NEW vs \in Seq(Variable), NEW x \in DOMAIN vs, NEW y \in DOMAIN vs,
           NEW scalar \in BOOLEAN
    PROVE  ValuesAt(vs, scalar, x, y) \in Seq(Names \X Parts)
<1>1. vs[x] \in Variable /\ vs[y] \in Variable
  OBVIOUS
<1>2. Value(vs[x]) \in Names \X Parts /\ Value(vs[y]) \in Names \X Parts
  BY <1>1, ReadTyped
<1>3. \A a, b \in Names \X Parts :
         <<a>> \in Seq(Names \X Parts) /\ <<a, b>> \in Seq(Names \X Parts)
  OBVIOUS
<1> QED
  BY <1>2, <1>3 DEF ValuesAt

LEMMA LoadedGroupTyped ==
    ASSUME NEW view \in Content, Len(view.variables) > 0, NEW f \in Files,
           NEW n \in Names, NEW scalar \in BOOLEAN
    PROVE  LET g == LoadedGroup(view, f, n, scalar) IN
           /\ g \in Group /\ ~g.edit /\ g.lazy /\ g.steps = view.steps
           /\ g.name = n /\ g.scalar = scalar
           /\ g.x \in DOMAIN view.variables /\ g.y \in DOMAIN view.variables
           /\ g.x = LastComponent(view.variables, n, {"s", "x"})
           /\ g.y = LastComponent(view.variables, n, {"y"})
           /\ g.holds = ValuesAt(view.variables, scalar, g.x, g.y)
<1> DEFINE x == LastComponent(view.variables, n, {"s", "x"})
           y == LastComponent(view.variables, n, {"y"})
           g == LoadedGroup(view, f, n, scalar)
<1>1. view.variables \in Seq(Variable) /\ view.steps \in Nat
  BY ContentFields
<1>2. x \in DOMAIN view.variables /\ y \in DOMAIN view.variables
  BY <1>1, LastInDomain
<1>3. x \in Nat /\ y \in Nat
  BY <1>1, <1>2
<1>4. ValuesAt(view.variables, scalar, x, y) \in Seq(Names \X Parts)
  BY <1>1, <1>2, ValuesTyped
<1>5. g = [name |-> n, scalar |-> scalar, file |-> f, edit |-> FALSE,
           steps |-> view.steps, lazy |-> TRUE, x |-> x, y |-> y,
           holds |-> ValuesAt(view.variables, scalar, x, y)]
  BY DEF LoadedGroup
<1> HIDE DEF x, y, g
<1>6. g \in Group
  BY <1>1, <1>3, <1>4, <1>5 DEF Group
<1>7. /\ ~g.edit /\ g.lazy /\ g.steps = view.steps /\ g.name = n /\ g.scalar = scalar
      /\ g.x = x /\ g.y = y /\ g.holds = ValuesAt(view.variables, scalar, x, y)
  BY <1>5
<1> QED
  BY <1>2, <1>6, <1>7 DEF x, y, g

(* The group of the first variable of a name.                              *)
GroupAt(view, f, i) ==
    LoadedGroup(view, f, NameRead(view.variables[i]), PartRead(view.variables[i]) = "s")

LEMMA LoadedAll ==
    ASSUME NEW view \in Content, NEW f \in Files
    PROVE  LET vs == view.variables
               loaded == LoadedGroups(view, f)
           IN  /\ \A k \in DOMAIN loaded :
                     \E i \in DOMAIN vs : IsFirst(vs, i) /\ loaded[k] = GroupAt(view, f, i)
               /\ \A i \in DOMAIN vs : IsFirst(vs, i) =>
                     \E k \in DOMAIN loaded : loaded[k] = GroupAt(view, f, i)
               /\ loaded \in Seq(Group)
<1> DEFINE vs == view.variables
           loaded == LoadedGroups(view, f)
           firsts == Firsts(vs)
<1>1. Len(vs) \in Nat /\ DOMAIN vs = 1..Len(vs) /\ vs \in Seq(Variable)
  BY ContentFields
<1>2. /\ firsts \in Seq(Nat)
      /\ \A k \in DOMAIN firsts : firsts[k] \in 1..Len(vs) /\ IsFirst(vs, firsts[k])
      /\ \A i \in 1..Len(vs) : IsFirst(vs, i) => \E k \in DOMAIN firsts : firsts[k] = i
  BY <1>1, FirstsFound
<1>3. loaded = [k \in DOMAIN firsts |-> GroupAt(view, f, firsts[k])]
  BY DEF LoadedGroups, Firsts, GroupAt
<1> HIDE DEF firsts, loaded
<1>4. \A k \in DOMAIN loaded :
         \E i \in DOMAIN vs : IsFirst(vs, i) /\ loaded[k] = GroupAt(view, f, i)
  BY <1>1, <1>2, <1>3
<1>5. \A i \in DOMAIN vs : IsFirst(vs, i) =>
         \E k \in DOMAIN loaded : loaded[k] = GroupAt(view, f, i)
  BY <1>1, <1>2, <1>3
<1>6. ASSUME NEW i \in DOMAIN vs PROVE GroupAt(view, f, i) \in Group
  <2>1. Len(vs) > 0 /\ vs[i] \in Variable
    BY <1>1
  <2>2. NameRead(vs[i]) \in Names
    BY <2>1, ReadTyped
  <2>3. LoadedGroup(view, f, NameRead(vs[i]), PartRead(vs[i]) = "s") \in Group
    BY <2>1, <2>2, LoadedGroupTyped
  <2> QED
    BY <2>3 DEF GroupAt
<1>7. loaded \in Seq(Group)
  <2>1. DOMAIN firsts = 1..Len(firsts) /\ Len(firsts) \in Nat
    BY <1>2
  <2>2. \A k \in 1..Len(firsts) : GroupAt(view, f, firsts[k]) \in Group
    BY <1>1, <1>2, <1>6, <2>1
  <2> QED
    BY <1>3, <2>1, <2>2
<1> QED
  BY <1>4, <1>5, <1>7 DEF loaded

-----------------------------------------------------------------------------
(* Few variables are read under a name.                                    *)
LEMMA AtMostOne ==
    ASSUME NEW S, IsFiniteSet(S), Cardinality(S) <= 1, NEW x \in S, NEW y \in S
    PROVE  x = y
<1> SUFFICES ASSUME x # y PROVE FALSE
  OBVIOUS
<1>1. IsFiniteSet({x}) /\ Cardinality({x}) = 1
  BY FS_Singleton
<1>2. IsFiniteSet({x} \cup {y}) /\ Cardinality({x} \cup {y}) = 2
  <2>1. y \notin {x}
    OBVIOUS
  <2>2. Cardinality({x} \cup {y}) = Cardinality({x}) + 1
    BY <1>1, <2>1, FS_AddElement
  <2>3. IsFiniteSet({x} \cup {y})
    BY <1>1, FS_AddElement
  <2> QED
    BY <1>1, <2>2, <2>3
<1>3. Cardinality({x} \cup {y}) <= Cardinality(S)
  BY FS_Subset
<1>4. Cardinality(S) \in Nat
  BY FS_CardinalityType
<1> QED
  BY <1>2, <1>3, <1>4

LEMMA AtMostTwo ==
    ASSUME NEW S, IsFiniteSet(S), Cardinality(S) <= 2,
           NEW x \in S, NEW y \in S, x # y, NEW z \in S
    PROVE  z \in {x, y}
<1> SUFFICES ASSUME z \notin {x, y} PROVE FALSE
  OBVIOUS
<1>1. IsFiniteSet({x}) /\ Cardinality({x}) = 1
  BY FS_Singleton
<1>2. IsFiniteSet({x} \cup {y}) /\ Cardinality({x} \cup {y}) = 2
  <2>1. y \notin {x}
    OBVIOUS
  <2>2. Cardinality({x} \cup {y}) = Cardinality({x}) + 1
    BY <1>1, <2>1, FS_AddElement
  <2>3. IsFiniteSet({x} \cup {y})
    BY <1>1, FS_AddElement
  <2> QED
    BY <1>1, <2>2, <2>3
<1>3. Cardinality(({x} \cup {y}) \cup {z}) = 3
  <2>1. z \notin {x} \cup {y}
    OBVIOUS
  <2>2. Cardinality(({x} \cup {y}) \cup {z}) = Cardinality({x} \cup {y}) + 1
    BY <1>2, <2>1, FS_AddElement
  <2> QED
    BY <1>2, <2>2
<1>4. Cardinality(({x} \cup {y}) \cup {z}) <= Cardinality(S)
  BY FS_Subset
<1>5. Cardinality(S) \in Nat
  BY FS_CardinalityType
<1> QED
  BY <1>3, <1>4, <1>5

LEMMA ValuesFew ==
    ASSUME NEW a, NEW b
    PROVE  /\ Cardinality(Range(<<a>>)) = 1
           /\ Cardinality(Range(<<a, b>>)) \in 1..2
           /\ a = b => Cardinality(Range(<<a, b>>)) = 1
<1>1. Range(<<a>>) = {a} /\ Range(<<a, b>>) = {a} \cup {b}
  BY DEF Range
<1>2. IsFiniteSet({a}) /\ Cardinality({a}) = 1
  BY FS_Singleton
<1>3. Cardinality({a} \cup {b}) = 1 \/ Cardinality({a} \cup {b}) = 2
  <2>1. CASE b \in {a}
    <3>1. {a} \cup {b} = {a}
      BY <2>1
    <3> QED
      BY <1>2, <3>1
  <2>2. CASE b \notin {a}
    BY <1>2, <2>2, FS_AddElement
  <2> QED
    BY <2>1, <2>2
<1>4. a = b => {a} \cup {b} = {a}
  OBVIOUS
<1> QED
  BY <1>1, <1>2, <1>3, <1>4

LEMMA ReadUnderFinite ==
    ASSUME NEW c \in Content, NEW n
    PROVE  IsFiniteSet(ReadUnder(c, n)) /\ ReadUnder(c, n) \subseteq DOMAIN c.variables
<1>1. IsFiniteSet(1..Len(c.variables))
  BY ContentFields, FS_Interval
<1>2. ReadUnder(c, n) \subseteq 1..Len(c.variables)
  BY ContentFields DEF ReadUnder
<1> QED
  BY <1>1, <1>2, FS_Subset, ContentFields

(* Variables that are as many as the values of a group, under its name,    *)
(* are the only ones.                                                      *)
LEMMA OneUnderName ==
    ASSUME NEW c \in Content, NEW p, NamedApart(c, p),
           Cardinality(Range(p.holds)) = 1,
           NEW x \in ReadUnder(c, NameOf(p))
    PROVE  ReadUnder(c, NameOf(p)) = {x}
<1> DEFINE S == ReadUnder(c, NameOf(p))
<1>1. IsFiniteSet(S) /\ Cardinality(S) \in Nat
  BY ReadUnderFinite, FS_CardinalityType
<1>2. Cardinality(S) <= Cardinality(Range(p.holds))
  BY DEF NamedApart
<1>3. Cardinality(S) <= 1
  BY <1>1, <1>2
<1> HIDE DEF S
<1>4. \A y \in S : y = x
  <2>1. x \in S
    BY DEF S
  <2> QED
    BY <1>1, <1>3, <2>1, AtMostOne
<1> QED
  BY <1>4 DEF S

LEMMA TwoUnderName ==
    ASSUME NEW c \in Content, NEW p, NamedApart(c, p),
           Cardinality(Range(p.holds)) \in 1..2,
           NEW x \in ReadUnder(c, NameOf(p)), NEW y \in ReadUnder(c, NameOf(p)), x # y
    PROVE  ReadUnder(c, NameOf(p)) = {x, y}
<1> DEFINE S == ReadUnder(c, NameOf(p))
<1>1. IsFiniteSet(S) /\ Cardinality(S) \in Nat
  BY ReadUnderFinite, FS_CardinalityType
<1>2. Cardinality(S) <= Cardinality(Range(p.holds))
  BY DEF NamedApart
<1>3. Cardinality(S) <= 2
  <2> HIDE DEF S
  <2> QED
    BY <1>1, <1>2
<1>4. x \in S /\ y \in S
  OBVIOUS
<1> HIDE DEF S
<1>5. \A z \in S : z \in {x, y}
  BY <1>1, <1>3, <1>4, AtMostTwo
<1> QED
  BY <1>4, <1>5 DEF S

-----------------------------------------------------------------------------
(* A file that has grown gives back what a load of it gave before, if the  *)
(* new variables have other names.                                         *)
LEMMA LastStays ==
    ASSUME NEW vs \in Seq(Variable), NEW ws \in Seq(Variable), NEW n,
           DOMAIN vs \subseteq DOMAIN ws, \A j \in DOMAIN vs : ws[j] = vs[j],
           \A j \in DOMAIN ws : NameRead(ws[j]) = n => j \in DOMAIN vs,
           NEW parts
    PROVE  LastComponent(ws, n, parts) = LastComponent(vs, n, parts)
<1>1. Components(ws, n, parts) = Components(vs, n, parts)
  BY DEF Components
<1>2. /\ LastComponent(vs, n, parts) =
            IF Components(vs, n, parts) = {} THEN 1
            ELSE CHOOSE i \in Components(vs, n, parts) :
                    \A j \in Components(vs, n, parts) : j <= i
      /\ LastComponent(ws, n, parts) =
            IF Components(ws, n, parts) = {} THEN 1
            ELSE CHOOSE i \in Components(ws, n, parts) :
                    \A j \in Components(ws, n, parts) : j <= i
  BY DEF LastComponent, Components
<1> QED
  BY <1>1, <1>2

LEMMA GroupStays ==
    ASSUME NEW c \in Content, NEW t \in Content, NEW f \in Files,
           DOMAIN c.variables \subseteq DOMAIN t.variables,
           \A j \in DOMAIN c.variables : t.variables[j] = c.variables[j],
           NEW i \in DOMAIN c.variables, IsFirst(c.variables, i),
           ReadUnder(t, NameRead(c.variables[i])) \subseteq DOMAIN c.variables
    PROVE  /\ IsFirst(t.variables, i)
           /\ GroupAt(t, f, i).name = GroupAt(c, f, i).name
           /\ GroupAt(t, f, i).scalar = GroupAt(c, f, i).scalar
           /\ GroupAt(t, f, i).holds = GroupAt(c, f, i).holds
<1> DEFINE vs == c.variables
           ws == t.variables
           n == NameRead(vs[i])
           scalar == PartRead(vs[i]) = "s"
           x == LastComponent(vs, n, {"s", "x"})
           y == LastComponent(vs, n, {"y"})
<1>1. /\ vs \in Seq(Variable) /\ ws \in Seq(Variable)
      /\ DOMAIN vs = 1..Len(vs) /\ Len(vs) \in Nat /\ Len(vs) > 0
      /\ DOMAIN ws = 1..Len(ws) /\ Len(ws) \in Nat /\ Len(ws) > 0
  BY ContentFields
<1>2. n \in Names
  <2>1. vs[i] \in Variable
    BY <1>1
  <2> QED
    BY <2>1, ReadTyped
<1>3. IsFirst(ws, i)
  <2>1. \A j \in 1..(i - 1) : j \in DOMAIN vs
    BY <1>1
  <2> QED
    BY <2>1 DEF IsFirst
<1>4. \A j \in DOMAIN ws : NameRead(ws[j]) = n => j \in DOMAIN vs
  BY DEF ReadUnder
<1>5. ws[i] = vs[i]
  OBVIOUS
<1>6. LastComponent(ws, n, {"s", "x"}) = x /\ LastComponent(ws, n, {"y"}) = y
  <2> HIDE DEF n, vs, ws
  <2>1. DOMAIN vs \subseteq DOMAIN ws /\ \A j \in DOMAIN vs : ws[j] = vs[j]
    BY DEF vs, ws
  <2> QED
    BY <1>1, <1>4, <2>1, LastStays
<1>7. x \in DOMAIN vs /\ y \in DOMAIN vs
  <2> HIDE DEF n, vs, ws
  <2> QED
    BY <1>1, LastInDomain
<1>8. ValuesAt(ws, scalar, x, y) = ValuesAt(vs, scalar, x, y)
  BY <1>7 DEF ValuesAt
<1>9. /\ GroupAt(c, f, i) = LoadedGroup(c, f, n, scalar)
      /\ GroupAt(t, f, i) = LoadedGroup(t, f, n, scalar)
  BY <1>5 DEF GroupAt
<1>10. \A view \in Content :
          /\ LoadedGroup(view, f, n, scalar).name = n
          /\ LoadedGroup(view, f, n, scalar).scalar = scalar
          /\ LoadedGroup(view, f, n, scalar).holds =
                ValuesAt(view.variables, scalar,
                         LastComponent(view.variables, n, {"s", "x"}),
                         LastComponent(view.variables, n, {"y"}))
  BY DEF LoadedGroup
<1> QED
  <2> HIDE DEF x, y, n, scalar
  <2> QED
    BY <1>3, <1>6, <1>8, <1>9, <1>10 DEF x, y

LEMMA GivenBack ==
    ASSUME NEW t \in Content, NEW f \in Files, NEW p, Readable(t),
           NEW i \in DOMAIN t.variables, IsFirst(t.variables, i),
           GroupAt(Parsed(t), f, i).name = NameOf(p),
           GroupAt(Parsed(t), f, i).scalar = p.scalar,
           GroupAt(Parsed(t), f, i).steps = p.steps,
           GroupAt(Parsed(t), f, i).holds = p.holds
    PROVE  GivesBack(t, f, p)
<1> DEFINE loaded == LoadedGroups(Parsed(t), f)
<1>1. \E k \in DOMAIN loaded : loaded[k] = GroupAt(Parsed(t), f, i)
  <2>1. Parsed(t) \in Content /\ Parsed(t).variables = t.variables
    BY ParsedTyped
  <2> QED
    BY <2>1, LoadedAll
<1> HIDE DEF loaded
<1>2. \E k \in DOMAIN loaded :
         /\ loaded[k].name = NameOf(p) /\ loaded[k].scalar = p.scalar
         /\ loaded[k].steps = p.steps /\ loaded[k].holds = p.holds
  BY <1>1
<1> QED
  BY <1>2 DEF GivesBack, loaded

LEMMA LoadedGivenBack ==
    ASSUME NEW c \in Content, NEW t \in Content, NEW f \in Files,
           DOMAIN c.variables \subseteq DOMAIN t.variables,
           \A j \in DOMAIN c.variables : t.variables[j] = c.variables[j],
           t.frame = "whole", SizesAgree(t),
           c.variables # <<>> => t.steps = StepsFound(c),
           NEW k \in DOMAIN LoadedGroups(Parsed(c), f),
           NamedApart(t, LoadedGroups(Parsed(c), f)[k])
    PROVE  GivesBack(t, f, LoadedGroups(Parsed(c), f)[k])
<1> DEFINE p == LoadedGroups(Parsed(c), f)[k]
           vs == c.variables
           ws == t.variables
<1>1. /\ Parsed(c) \in Content /\ Parsed(c).variables = vs
      /\ Parsed(c).steps = StepsFound(c)
      /\ Parsed(t) \in Content /\ Parsed(t).variables = ws
      /\ Parsed(t).steps = StepsFound(t)
  BY ParsedTyped
<1>2. PICK i \in DOMAIN vs : IsFirst(vs, i) /\ p = GroupAt(Parsed(c), f, i)
  <2>1. \E i \in DOMAIN Parsed(c).variables :
           IsFirst(Parsed(c).variables, i) /\ p = GroupAt(Parsed(c), f, i)
    BY <1>1, LoadedAll
  <2> QED
    BY <1>1, <2>1
<1> DEFINE n == NameRead(vs[i])
           scalar == PartRead(vs[i]) = "s"
           m == NameOf(p)
<1>3. /\ vs \in Seq(Variable) /\ ws \in Seq(Variable)
      /\ Len(vs) > 0 /\ vs # <<>>
  BY <1>2, ContentFields
<1>4. /\ vs[i] \in Variable /\ n \in Names /\ PartRead(vs[i]) \in Parts
  <2>1. vs[i] \in Variable
    BY <1>3
  <2> QED
    BY <2>1, ReadTyped
<1>5. /\ p.name = n /\ p.scalar = scalar /\ p.steps = StepsFound(c)
      /\ p.x \in DOMAIN vs /\ p.y \in DOMAIN vs
      /\ p.x = LastComponent(vs, n, {"s", "x"})
      /\ p.y = LastComponent(vs, n, {"y"})
      /\ p.holds = ValuesAt(vs, scalar, p.x, p.y)
  <2>1. p = LoadedGroup(Parsed(c), f, n, scalar)
    BY <1>1, <1>2 DEF GroupAt
  <2> HIDE DEF p, n, scalar, vs
  <2>2. scalar \in BOOLEAN
    BY DEF scalar
  <2> QED
    BY <1>1, <1>3, <1>4, <2>1, <2>2, LoadedGroupTyped
<1>6. /\ NamedApart(t, p)
      /\ DOMAIN vs \subseteq DOMAIN ws /\ \A j \in DOMAIN vs : ws[j] = vs[j]
  OBVIOUS
<1> HIDE DEF p, vs, ws
<1>7. /\ vs[p.x] \in Variable /\ vs[p.y] \in Variable
      /\ ReadAs[Value(vs[p.x])] = <<NameRead(vs[p.x]), PartRead(vs[p.x])>>
      /\ ReadAs[Value(vs[p.y])] = <<NameRead(vs[p.y]), PartRead(vs[p.y])>>
  <2>1. vs[p.x] \in Variable /\ vs[p.y] \in Variable
    BY <1>3, <1>5
  <2> QED
    BY <2>1, ReadTyped
<1>8. \A j \in DOMAIN vs : NameRead(vs[j]) = m => j \in ReadUnder(t, m)
  BY <1>6 DEF ReadUnder, ws
<1>9. p.x \in ReadUnder(t, m)
  <2>1. p.holds[1] = Value(vs[p.x])
    BY <1>5 DEF ValuesAt
  <2>2. NameRead(vs[p.x]) = m
    BY <1>7, <2>1 DEF NameOf
  <2> QED
    BY <1>5, <1>8, <2>2
<1>10. ASSUME scalar PROVE m = n /\ ReadUnder(t, m) \subseteq DOMAIN vs
  <2>1. p.holds = <<Value(vs[p.x])>>
    BY <1>5, <1>10 DEF ValuesAt
  <2>2. i \in Components(vs, n, {"s", "x"})
    BY <1>2, <1>10 DEF Components
  <2>3. p.x \in Components(vs, n, {"s", "x"})
    <3> HIDE DEF n
    <3> QED
      BY <1>3, <1>5, <2>2, LastFound
  <2>4. m = n
    <3>1. NameRead(vs[p.x]) = n
      BY <2>3 DEF Components
    <3>2. NameRead(vs[p.x]) = m
      BY <1>7, <2>1 DEF NameOf
    <3> QED
      BY <3>1, <3>2
  <2>5. Cardinality(Range(p.holds)) = 1
    BY <2>1, ValuesFew
  <2>6. ReadUnder(t, m) = {p.x}
    <3> HIDE DEF n
    <3> QED
      BY <1>6, <1>9, <2>5, OneUnderName
  <2> QED
    BY <1>5, <2>4, <2>6
<1>11. ASSUME ~scalar PROVE m = n /\ ReadUnder(t, m) \subseteq DOMAIN vs
  <2>1. p.holds = <<Value(vs[p.x]), Value(vs[p.y])>>
    BY <1>5, <1>11 DEF ValuesAt
  <2>2. p.y \in ReadUnder(t, m) /\ NameRead(vs[p.y]) = m
    <3>1. 2 \in DOMAIN p.holds /\ p.holds[2] = Value(vs[p.y])
      BY <2>1
    <3>2. ReadAs[p.holds[2]] = <<m, p.holds[2][2]>>
      BY <1>6, <3>1 DEF NamedApart
    <3>3. NameRead(vs[p.y]) = m
      BY <1>7, <3>1, <3>2
    <3> QED
      BY <1>5, <1>8, <3>3
  <2>3. NameRead(vs[p.x]) = m
    BY <1>7, <2>1 DEF NameOf
  <2>4. m = n
    <3>1. CASE PartRead(vs[i]) = "x"
      <4>1. i \in Components(vs, n, {"s", "x"})
        BY <1>2, <3>1 DEF Components
      <4>2. p.x \in Components(vs, n, {"s", "x"})
        <5> HIDE DEF n
        <5> QED
          BY <1>3, <1>5, <4>1, LastFound
      <4>3. NameRead(vs[p.x]) = n
        BY <4>2 DEF Components
      <4> QED
        BY <2>3, <4>3
    <3>2. CASE PartRead(vs[i]) = "y"
      <4>1. i \in Components(vs, n, {"y"})
        BY <1>2, <3>2 DEF Components
      <4>2. p.y \in Components(vs, n, {"y"})
        <5> HIDE DEF n
        <5> QED
          BY <1>3, <1>5, <4>1, LastFound
      <4>3. NameRead(vs[p.y]) = n
        BY <4>2 DEF Components
      <4> QED
        BY <2>2, <4>3
    <3> QED
      BY <1>4, <1>11, <3>1, <3>2 DEF Parts
  <2>5. CASE p.x = p.y
    <3>1. Cardinality(Range(p.holds)) = 1
      <4> DEFINE a == Value(vs[p.x])
      <4>1. p.holds = <<a, a>>
        BY <2>1, <2>5
      <4> HIDE DEF a
      <4> QED
        BY <4>1, ValuesFew
    <3>2. ReadUnder(t, m) = {p.x}
      <4> HIDE DEF n
      <4> QED
        BY <1>6, <1>9, <3>1, OneUnderName
    <3> QED
      BY <1>5, <2>4, <3>2
  <2>6. CASE p.x # p.y
    <3>1. Cardinality(Range(p.holds)) \in 1..2
      BY <2>1, ValuesFew
    <3>2. ReadUnder(t, m) = {p.x, p.y}
      <4> HIDE DEF n
      <4> QED
        BY <1>6, <1>9, <2>2, <2>6, <3>1, TwoUnderName
    <3> QED
      BY <1>5, <2>4, <3>2
  <2> QED
    BY <2>5, <2>6
<1>12. m = n /\ ReadUnder(t, n) \subseteq DOMAIN vs
  BY <1>10, <1>11
<1>13. /\ IsFirst(ws, i)
       /\ GroupAt(Parsed(t), f, i).name = p.name
       /\ GroupAt(Parsed(t), f, i).scalar = p.scalar
       /\ GroupAt(Parsed(t), f, i).holds = p.holds
  <2>1. ReadUnder(Parsed(t), n) = ReadUnder(t, n)
    BY <1>1 DEF ReadUnder, ws
  <2>2. /\ DOMAIN Parsed(c).variables \subseteq DOMAIN Parsed(t).variables
        /\ \A j \in DOMAIN Parsed(c).variables :
              Parsed(t).variables[j] = Parsed(c).variables[j]
    BY <1>1, <1>6
  <2>3. /\ i \in DOMAIN Parsed(c).variables /\ IsFirst(Parsed(c).variables, i)
        /\ ReadUnder(Parsed(t), NameRead(Parsed(c).variables[i])) \subseteq
              DOMAIN Parsed(c).variables
    BY <1>1, <1>2, <1>12, <2>1
  <2>4. /\ IsFirst(Parsed(t).variables, i)
        /\ GroupAt(Parsed(t), f, i).name = GroupAt(Parsed(c), f, i).name
        /\ GroupAt(Parsed(t), f, i).scalar = GroupAt(Parsed(c), f, i).scalar
        /\ GroupAt(Parsed(t), f, i).holds = GroupAt(Parsed(c), f, i).holds
    BY <1>1, <2>2, <2>3, GroupStays
  <2> QED
    BY <1>1, <1>2, <2>4
<1>14. Readable(t) /\ StepsFound(t) = StepsFound(c)
  <2>1. StepsFound(t) = t.steps
    BY StepsFoundExact
  <2> QED
    BY <1>3, <2>1 DEF Readable, vs
<1>15. GroupAt(Parsed(t), f, i).steps = p.steps
  <2>1. GroupAt(Parsed(t), f, i).steps = Parsed(t).steps
    BY DEF GroupAt, LoadedGroup
  <2> QED
    BY <1>1, <1>5, <1>14, <2>1
<1>16. GivesBack(t, f, p)
  <2>1. i \in DOMAIN t.variables /\ IsFirst(t.variables, i)
    BY <1>2, <1>6, <1>13 DEF ws
  <2>2. GroupAt(Parsed(t), f, i).name = NameOf(p)
    BY <1>5, <1>12, <1>13
  <2> HIDE DEF n, scalar, m
  <2> QED
    BY <1>13, <1>14, <1>15, <2>1, <2>2, GivenBack
<1> QED
  BY <1>16 DEF p

-----------------------------------------------------------------------------
(* What the driver is given and what it promises has the values of one     *)
(* scalar or of one vector.                                                *)
ClientShaped(g) ==
    g.holds = IF g.scalar THEN <<<<g.name, "s">>>> ELSE <<<<g.name, "x">>, <<g.name, "y">>>>

(* A file that has the variables and the time steps of a group.            *)
Has(c, g) ==
    /\ c.steps = g.steps
    /\ \A k \in DOMAIN g.holds :
          \E i \in DOMAIN c.variables : Value(c.variables[i]) = g.holds[k]

(* It gives the group back, if its name is read as that of no other.       *)
LEMMA PlaceOf ==
    ASSUME NEW t \in Content, NEW p, NamedApart(t, p), Has(t, p), NEW k \in DOMAIN p.holds
    PROVE  \E i \in ReadUnder(t, NameOf(p)) :
              /\ Value(t.variables[i]) = p.holds[k]
              /\ PartRead(t.variables[i]) = p.holds[k][2]
<1>1. PICK i \in DOMAIN t.variables : Value(t.variables[i]) = p.holds[k]
  BY DEF Has
<1>2. ReadAs[p.holds[k]] = <<NameOf(p), p.holds[k][2]>>
  BY DEF NamedApart
<1>3. t.variables[i] \in Variable
  BY ContentFields
<1>4. ReadAs[Value(t.variables[i])] =
         <<NameRead(t.variables[i]), PartRead(t.variables[i])>>
  BY <1>3, ReadTyped
<1>5. NameRead(t.variables[i]) = NameOf(p) /\ PartRead(t.variables[i]) = p.holds[k][2]
  BY <1>1, <1>2, <1>4
<1> QED
  BY <1>1, <1>5 DEF ReadUnder

LEMMA LastAmong ==
    ASSUME NEW t \in Content, NEW n, NEW parts, NEW i \in ReadUnder(t, n),
           PartRead(t.variables[i]) \in parts,
           \A j \in ReadUnder(t, n) : PartRead(t.variables[j]) \in parts => j = i
    PROVE  LastComponent(t.variables, n, parts) = i
<1> DEFINE C == Components(t.variables, n, parts)
<1>1. C = {i}
  BY DEF Components, ReadUnder
<1>2. t.variables \in Seq(Variable) /\ i \in Nat
  BY ContentFields DEF ReadUnder
<1>3. i \in C /\ \A j \in C : j <= i
  BY <1>1, <1>2
<1> QED
  BY <1>2, <1>3, LastIs

LEMMA PromiseGivenBack ==
    ASSUME NEW t \in Content, NEW f \in Files, NEW p, p.scalar \in BOOLEAN,
           ClientShaped(p), Has(t, p), NamedApart(t, p),
           t.frame = "whole", SizesAgree(t)
    PROVE  GivesBack(t, f, p)
<1> DEFINE ws == t.variables
           n == NameOf(p)
           N == ReadUnder(t, n)
<1>1. /\ Parsed(t) \in Content /\ Parsed(t).variables = ws
      /\ Parsed(t).steps = StepsFound(t)
  BY ParsedTyped
<1>2. /\ ws \in Seq(Variable) /\ DOMAIN ws = 1..Len(ws) /\ Len(ws) \in Nat
      /\ N \subseteq DOMAIN ws
      /\ \A j \in DOMAIN ws : j \in N <=> NameRead(ws[j]) = n
  BY ContentFields DEF ReadUnder
<1>3. Readable(t) /\ StepsFound(t) = p.steps
  BY StepsFoundExact DEF Readable, Has
<1>4. ASSUME NEW i \in N, IsFirst(ws, i), (PartRead(ws[i]) = "s") = p.scalar,
             ValuesAt(ws, p.scalar, LastComponent(ws, n, {"s", "x"}),
                      LastComponent(ws, n, {"y"})) = p.holds
      PROVE  GivesBack(t, f, p)
  <2> DEFINE g == GroupAt(Parsed(t), f, i)
  <2>1. NameRead(ws[i]) = n /\ i \in DOMAIN ws
    BY <1>2
  <2>2. g = LoadedGroup(Parsed(t), f, n, p.scalar)
    BY <1>1, <1>4, <2>1 DEF GroupAt
  <2>3. /\ g.name = n /\ g.scalar = p.scalar /\ g.steps = StepsFound(t)
        /\ g.holds = p.holds
    BY <1>1, <1>4, <2>2 DEF LoadedGroup
  <2> HIDE DEF g, n, N
  <2> QED
    BY <1>3, <1>4, <2>1, <2>3, GivenBack DEF g, n
<1>5. CASE p.scalar
  <2>1. p.holds = <<<<p.name, "s">>>>
    BY <1>5 DEF ClientShaped
  <2>2. PICK i \in N : Value(ws[i]) = p.holds[1] /\ PartRead(ws[i]) = p.holds[1][2]
    <3>1. 1 \in DOMAIN p.holds
      BY <2>1
    <3> QED
      BY <3>1, PlaceOf
  <2>3. PartRead(ws[i]) = "s"
    BY <2>1, <2>2
  <2>4. N = {i}
    <3>1. Cardinality(Range(p.holds)) = 1
      BY <2>1, ValuesFew
    <3> QED
      BY <2>2, <3>1, OneUnderName
  <2>5. IsFirst(ws, i)
    <3>1. \A j \in 1..(i - 1) : j \in DOMAIN ws /\ j # i
      BY <1>2
    <3>2. NameRead(ws[i]) = n
      BY <1>2
    <3> HIDE DEF N, n, ws
    <3> QED
      BY <1>2, <2>4, <3>1, <3>2 DEF IsFirst
  <2>6. LastComponent(ws, n, {"s", "x"}) = i
    <3> HIDE DEF n
    <3> QED
      BY <2>3, <2>4, LastAmong
  <2>7. ValuesAt(ws, p.scalar, i, LastComponent(ws, n, {"y"})) = p.holds
    BY <1>5, <2>1, <2>2 DEF ValuesAt
  <2> HIDE DEF N, n, ws
  <2> QED
    BY <1>4, <1>5, <2>3, <2>5, <2>6, <2>7
<1>6. CASE ~p.scalar
  <2>1. p.holds = <<<<p.name, "x">>, <<p.name, "y">>>>
    BY <1>6 DEF ClientShaped
  <2>2. 1 \in DOMAIN p.holds /\ 2 \in DOMAIN p.holds
    BY <2>1
  <2>3. PICK x \in N : Value(ws[x]) = p.holds[1] /\ PartRead(ws[x]) = p.holds[1][2]
    BY <2>2, PlaceOf
  <2>4. PICK y \in N : Value(ws[y]) = p.holds[2] /\ PartRead(ws[y]) = p.holds[2][2]
    BY <2>2, PlaceOf
  <2>5. PartRead(ws[x]) = "x" /\ PartRead(ws[y]) = "y"
    BY <2>1, <2>3, <2>4
  <2>6. x # y
    BY <2>5
  <2>7. N = {x, y}
    <3>1. Cardinality(Range(p.holds)) \in 1..2
      BY <2>1, ValuesFew
    <3> HIDE DEF n
    <3> QED
      BY <2>3, <2>4, <2>6, <3>1, TwoUnderName DEF n
  <2>8. LastComponent(ws, n, {"s", "x"}) = x
    <3> HIDE DEF n
    <3> QED
      BY <2>5, <2>7, LastAmong
  <2>9. LastComponent(ws, n, {"y"}) = y
    <3> HIDE DEF n
    <3> QED
      BY <2>5, <2>7, LastAmong
  <2>10. ValuesAt(ws, p.scalar, x, y) = p.holds
    BY <1>6, <2>1, <2>3, <2>4 DEF ValuesAt
  <2>11. PICK i \in N : \A j \in N : i <= j
    <3>1. x \in Nat /\ y \in Nat
      BY <1>2
    <3>2. CASE x <= y
      BY <2>7, <3>1, <3>2
    <3>3. CASE y <= x
      BY <2>7, <3>1, <3>3
    <3> QED
      BY <3>1, <3>2, <3>3
  <2>12. IsFirst(ws, i)
    <3>1. \A j \in 1..(i - 1) : j \in DOMAIN ws /\ ~(i <= j)
      BY <1>2
    <3>2. NameRead(ws[i]) = n
      BY <1>2
    <3> HIDE DEF N, n, ws
    <3> QED
      BY <1>2, <2>11, <3>1, <3>2 DEF IsFirst
  <2>13. (PartRead(ws[i]) = "s") = p.scalar
    BY <1>6, <2>5, <2>7
  <2> HIDE DEF N, n, ws
  <2> QED
    BY <1>4, <2>8, <2>9, <2>10, <2>12, <2>13
<1> QED
  BY <1>5, <1>6

-----------------------------------------------------------------------------
(* The types of the values the steps make.                                 *)
PromiseType ==
    [name : Names, scalar : BOOLEAN, steps : Nat, holds : Seq(Names \X Parts)]

MeshType == [kind : {"none", "memory", "lazy"}, vertices : Nat, file : Files]
SourceType == [parsed : BOOLEAN, view : Content]
JobType == [stage : Stages, file : Files, group : Group]
StatusType == {"None", "Err_FileNotFound", "Err_UnknownFormat", "Err_InvalidData"}

LEMMA FilesTyped ==
    /\ NoFile \in Content /\ NoFile.frame = "none" /\ ~NoFile.lost
    /\ NoFile.variables = <<>> /\ NoFile.steps = 0
    /\ \A frame \in {"none", "cut", "short", "whole"}, v \in Nat, lost \in BOOLEAN :
          /\ Stub(frame, v, lost) \in Content
          /\ Stub(frame, v, lost).frame = frame /\ Stub(frame, v, lost).lost = lost
          /\ Stub(frame, v, lost).variables = <<>> /\ Stub(frame, v, lost).steps = 0
          /\ Stub(frame, v, lost).vertices = v
<1>1. <<>> \in Seq(Variable)
  OBVIOUS
<1>2. NoFile \in Content
  BY <1>1 DEF NoFile, Content
<1>3. /\ NoFile.frame = "none" /\ ~NoFile.lost
      /\ NoFile.variables = <<>> /\ NoFile.steps = 0
  BY DEF NoFile
<1>4. ASSUME NEW frame \in {"none", "cut", "short", "whole"}, NEW v \in Nat,
             NEW lost \in BOOLEAN
      PROVE  /\ Stub(frame, v, lost) \in Content
             /\ Stub(frame, v, lost).frame = frame /\ Stub(frame, v, lost).lost = lost
             /\ Stub(frame, v, lost).variables = <<>> /\ Stub(frame, v, lost).steps = 0
             /\ Stub(frame, v, lost).vertices = v
  BY <1>1, <1>4 DEF Stub, NoFile, Content
<1> QED
  BY <1>2, <1>3, <1>4

LEMMA CutTyped ==
    LET c == Stub("cut", 0, FALSE) IN
    c \in Content /\ c.frame = "cut" /\ c.variables = <<>> /\ c # NoFile
<1> DEFINE no == FALSE
<1>1. no \in BOOLEAN
  OBVIOUS
<1>2. NoFile.frame = "none"
  BY FilesTyped
<1> HIDE DEF no
<1>3. /\ Stub("cut", 0, no) \in Content /\ Stub("cut", 0, no).frame = "cut"
      /\ Stub("cut", 0, no).variables = <<>>
  <2>1. 0 \in Nat /\ "cut" \in {"none", "cut", "short", "whole"}
    OBVIOUS
  <2> QED
    BY <1>1, <2>1, FilesTyped
<1>4. Stub("cut", 0, no) # NoFile
  BY <1>2, <1>3
<1> QED
  BY <1>3, <1>4 DEF no

LEMMA ClientGroupTyped ==
    ASSUME NEW n \in Names, NEW scalar \in BOOLEAN, NEW f \in Files
    PROVE  LET g == ClientGroup(n, scalar, f) IN
           /\ g \in Group /\ g.edit /\ ~g.lazy /\ ClientShaped(g)
           /\ [g EXCEPT !.edit = FALSE] \in Group
<1> DEFINE h == IF scalar THEN <<<<n, "s">>>> ELSE <<<<n, "x">>, <<n, "y">>>>
<1>1. h \in Seq(Names \X Parts)
  <2>1. <<n, "s">> \in Names \X Parts /\ <<n, "x">> \in Names \X Parts
        /\ <<n, "y">> \in Names \X Parts
    BY DEF Parts
  <2>2. \A a, b \in Names \X Parts :
           <<a>> \in Seq(Names \X Parts) /\ <<a, b>> \in Seq(Names \X Parts)
    OBVIOUS
  <2> QED
    BY <2>1, <2>2
<1>2. ClientGroup(n, scalar, f) =
         [name |-> n, scalar |-> scalar, file |-> f, edit |-> TRUE, steps |-> 0,
          lazy |-> FALSE, x |-> 0, y |-> 0, holds |-> h]
  BY DEF ClientGroup
<1>3. ClientShaped(ClientGroup(n, scalar, f))
  BY <1>2 DEF ClientShaped
<1> HIDE DEF h
<1>4. /\ ClientGroup(n, scalar, f) \in Group /\ ClientGroup(n, scalar, f).edit
      /\ ~ClientGroup(n, scalar, f).lazy
  BY <1>1, <1>2 DEF Group
<1>5. \A g \in Group : [g EXCEPT !.edit = FALSE] \in Group
  BY DEF Group
<1> QED
  BY <1>3, <1>4, <1>5

LEMMA NothingTyped ==
    /\ NoMesh \in MeshType /\ NoMesh.kind = "none"
    /\ NoSource \in SourceType /\ ~NoSource.parsed
    /\ NoGroup \in Group
    /\ Idle \in JobType /\ Idle.stage = "idle"
    /\ <<>> \in Seq(Group)
<1>1. (CHOOSE f \in Files : TRUE) \in Files /\ (CHOOSE n \in Names : TRUE) \in Names
  BY SelafinAssumption
<1>2. NoMesh \in MeshType /\ NoMesh.kind = "none" /\ NoMesh.file \in Files
  BY <1>1 DEF NoMesh, MeshType
<1>3. NoSource \in SourceType /\ ~NoSource.parsed
  BY FilesTyped DEF NoSource, SourceType
<1>4. NoGroup \in Group
  <2>1. [ClientGroup(CHOOSE n \in Names : TRUE, TRUE, NoMesh.file) EXCEPT !.edit = FALSE]
           \in Group
    BY <1>1, <1>2, ClientGroupTyped
  <2> QED
    BY <2>1 DEF NoGroup
<1>5. Idle \in JobType /\ Idle.stage = "idle"
  BY <1>2, <1>4 DEF Idle, Job, JobType, Stages
<1> QED
  BY <1>2, <1>3, <1>4, <1>5

LEMMA NewVariablesTyped ==
    ASSUME NEW g \in Group, NEW v \in Nat
    PROVE  /\ NewVariables(g, v) \in Seq(Variable)
           /\ DOMAIN NewVariables(g, v) = DOMAIN g.holds
           /\ \A k \in DOMAIN g.holds :
                 /\ Value(NewVariables(g, v)[k]) = g.holds[k]
                 /\ NewVariables(g, v)[k].size = v
<1>1. g.holds \in Seq(Names \X Parts)
  BY DEF Group
<1>2. ASSUME NEW k \in DOMAIN g.holds
      PROVE  /\ g.holds[k][1] \in Names /\ g.holds[k][2] \in Parts
             /\ g.holds[k] = <<g.holds[k][1], g.holds[k][2]>>
  <2>1. g.holds[k] \in Names \X Parts
    BY <1>1
  <2> QED
    BY <2>1
<1>3. NewVariables(g, v) =
         [i \in DOMAIN g.holds |-> [name |-> g.holds[i][1], part |-> g.holds[i][2],
                                     size |-> v]]
  BY DEF NewVariables
<1>4. ASSUME NEW k \in DOMAIN g.holds
      PROVE  /\ NewVariables(g, v)[k] \in Variable
             /\ NewVariables(g, v)[k].size = v
             /\ Value(NewVariables(g, v)[k]) = g.holds[k]
  <2>1. NewVariables(g, v)[k] = [name |-> g.holds[k][1], part |-> g.holds[k][2], size |-> v]
    BY <1>3
  <2>2. Value(NewVariables(g, v)[k]) = <<g.holds[k][1], g.holds[k][2]>>
    BY <2>1 DEF Value
  <2> QED
    BY <1>2, <2>1, <2>2 DEF Variable
<1>5. DOMAIN g.holds = 1..Len(g.holds) /\ Len(g.holds) \in Nat
  BY <1>1
<1>6. NewVariables(g, v) \in Seq(Variable)
  <2> DEFINE s == NewVariables(g, v)
  <2>1. s = [i \in 1..Len(g.holds) |-> s[i]]
    BY <1>3, <1>5
  <2>2. \A i \in 1..Len(g.holds) : s[i] \in Variable
    BY <1>4, <1>5
  <2> HIDE DEF s
  <2>3. s \in [1..Len(g.holds) -> Variable]
    BY <2>1, <2>2
  <2> QED
    BY <1>5, <2>3 DEF s
<1> QED
  BY <1>3, <1>4, <1>6

(* A file with the variables of a group added: those before stay where     *)
(* they are.                                                               *)
LEMMA ExtendedFields ==
    ASSUME NEW c \in Content, NEW g \in Group, NEW v \in Nat
    PROVE  LET t == Extended(c, g, v)
               u == IF g.steps = 0 THEN c.vertices ELSE v
           IN  /\ t \in Content /\ t.steps = g.steps /\ t.vertices = c.vertices
               /\ t.frame = c.frame /\ t.lost = c.lost
               /\ t.variables = c.variables \o NewVariables(g, u)
               /\ u \in Nat
<1> DEFINE u == IF g.steps = 0 THEN c.vertices ELSE v
           t == Extended(c, g, v)
<1>1. u \in Nat /\ g.steps \in Nat /\ c.variables \in Seq(Variable)
  BY ContentFields DEF Group
<1>2. t = [c EXCEPT !.variables = c.variables \o NewVariables(g, u), !.steps = g.steps]
  BY DEF Extended
<1>3. NewVariables(g, u) \in Seq(Variable)
  <2> HIDE DEF u
  <2> QED
    BY <1>1, NewVariablesTyped
<1> HIDE DEF u, t
<1>4. c.variables \o NewVariables(g, u) \in Seq(Variable)
  BY <1>1, <1>3
<1> QED
  BY <1>1, <1>2, <1>4 DEF Content, u, t

LEMMA ExtendedPlaces ==
    ASSUME NEW c \in Content, NEW g \in Group, NEW v \in Nat
    PROVE  LET t == Extended(c, g, v)
               u == IF g.steps = 0 THEN c.vertices ELSE v
           IN  /\ DOMAIN c.variables \subseteq DOMAIN t.variables
               /\ \A j \in DOMAIN c.variables : t.variables[j] = c.variables[j]
               /\ \A k \in DOMAIN g.holds :
                     \E j \in DOMAIN t.variables : Value(t.variables[j]) = g.holds[k]
               /\ \A j \in DOMAIN t.variables :
                     j \in DOMAIN c.variables \/ t.variables[j].size = u
<1> DEFINE t == Extended(c, g, v)
           u == IF g.steps = 0 THEN c.vertices ELSE v
           old == c.variables
           new == NewVariables(g, u)
<1>1. u \in Nat /\ t.variables = old \o new /\ old \in Seq(Variable)
  BY ExtendedFields, ContentFields
<1> HIDE DEF u, t, old
<1>2. /\ new \in Seq(Variable) /\ DOMAIN new = DOMAIN g.holds
      /\ \A k \in DOMAIN g.holds : Value(new[k]) = g.holds[k] /\ new[k].size = u
  BY <1>1, NewVariablesTyped
<1> HIDE DEF new
<1>3. /\ Len(old) \in Nat /\ Len(new) \in Nat
      /\ DOMAIN old = 1..Len(old) /\ DOMAIN new = 1..Len(new)
      /\ DOMAIN t.variables = 1..(Len(old) + Len(new))
      /\ \A j \in 1..Len(old) : t.variables[j] = old[j]
      /\ \A k \in 1..Len(new) : t.variables[Len(old) + k] = new[k]
  BY <1>1, <1>2
<1>4. DOMAIN old \subseteq DOMAIN t.variables /\ \A j \in DOMAIN old : t.variables[j] = old[j]
  BY <1>3
<1>5. ASSUME NEW k \in DOMAIN g.holds
      PROVE  \E j \in DOMAIN t.variables : Value(t.variables[j]) = g.holds[k]
  <2>1. k \in 1..Len(new) /\ Len(old) + k \in DOMAIN t.variables
    BY <1>2, <1>3
  <2>2. Value(t.variables[Len(old) + k]) = g.holds[k]
    BY <1>2, <1>3, <2>1
  <2> QED
    BY <2>1, <2>2
<1>6. ASSUME NEW j \in DOMAIN t.variables, j \notin DOMAIN old
      PROVE  t.variables[j].size = u
  <2>1. j - Len(old) \in 1..Len(new) /\ j = Len(old) + (j - Len(old))
    BY <1>3, <1>6
  <2>2. t.variables[j] = new[j - Len(old)]
    BY <1>3, <2>1
  <2> QED
    BY <1>2, <1>3, <2>1, <2>2
<1> QED
  BY <1>4, <1>5, <1>6 DEF old, t, u

LEMMA WrittenTyped ==
    ASSUME NEW c \in Content, NEW w \in WrittenOf(c)
    PROVE  /\ w \in Content
           /\ w = c \/ w.lost
<1>1. CASE w = c
  BY <1>1
<1>2. CASE w \in DiskFull(c)
  <2>1. CASE \E n \in 0..(c.steps - 1) : w = [c EXCEPT !.steps = n, !.lost = TRUE]
    <3>1. PICK n \in 0..(c.steps - 1) : w = [c EXCEPT !.steps = n, !.lost = TRUE]
      BY <2>1
    <3>2. n \in Nat
      BY ContentFields
    <3> QED
      BY <3>1, <3>2 DEF Content
  <2>2. CASE \E frame \in {"cut", "short"} :
                w = [c EXCEPT !.steps = 0, !.lost = TRUE, !.frame = frame]
    <3>1. PICK frame \in {"cut", "short"} :
             w = [c EXCEPT !.steps = 0, !.lost = TRUE, !.frame = frame]
      BY <2>2
    <3>2. frame \in {"none", "cut", "short", "whole"}
      OBVIOUS
    <3> QED
      BY <3>1, <3>2 DEF Content
  <2> QED
    BY <1>2, <2>1, <2>2 DEF DiskFull
<1> QED
  BY <1>1, <1>2 DEF WrittenOf

Empty == groups = <<>> /\ source = NoSource /\ job = Idle

(* The type invariant in named parts.                                      *)
LEMMA TypeParts ==
    SelafinTypeOK <=>
        /\ alive \in BOOLEAN /\ mesh \in MeshType /\ source \in SourceType
        /\ groups \in Seq(Group)
        /\ disk \in [Files -> Content] /\ temp \in [Files -> Content]
        /\ job \in JobType /\ (job.stage = "idle" => job = Idle) /\ status \in StatusType
        /\ promised \in [Files -> SUBSET PromiseType]
        /\ (~alive \/ mesh.kind = "none") => Empty
BY DEF SelafinTypeOK, MeshType, SourceType, JobType, StatusType, PromiseType, Empty

LEMMA TypePartsNext ==
    SelafinTypeOK' <=>
        /\ alive' \in BOOLEAN /\ mesh' \in MeshType /\ source' \in SourceType
        /\ groups' \in Seq(Group)
        /\ disk' \in [Files -> Content] /\ temp' \in [Files -> Content]
        /\ job' \in JobType /\ (job'.stage = "idle" => job' = Idle) /\ status' \in StatusType
        /\ promised' \in [Files -> SUBSET PromiseType]
        /\ (~alive' \/ mesh'.kind = "none") => Empty'
BY DEF SelafinTypeOK, MeshType, SourceType, JobType, StatusType, PromiseType, Empty

LEMMA PutTyped ==
    ASSUME NEW files \in [Files -> Content], NEW f \in Files, NEW c \in Content
    PROVE  /\ Put(files, f, c) \in [Files -> Content]
           /\ Put(files, f, c)[f] = c
           /\ \A g \in Files : g # f => Put(files, f, c)[g] = files[g]
BY DEF Put

LEMMA ViewTyped ==
    ASSUME SelafinTypeOK
    PROVE  /\ View \in Content /\ MeshVertices \in Nat
           /\ Access => source' \in SourceType
<1>1. mesh \in MeshType /\ source \in SourceType /\ disk \in [Files -> Content]
  BY TypeParts
<1>2. mesh.file \in Files /\ mesh.vertices \in Nat /\ source.view \in Content
  BY <1>1 DEF MeshType, SourceType
<1>3. Parsed(disk[mesh.file]) \in Content
  BY <1>1, <1>2, ParsedTyped
<1>4. View \in Content
  BY <1>2, <1>3 DEF View
<1>5. MeshVertices \in Nat
  BY <1>2, <1>4, ContentFields DEF MeshVertices
<1>6. Access => source' \in SourceType
  <2>1. Reading(View) \in SourceType
    BY <1>4 DEF Reading, SourceType
  <2> QED
    BY <1>1, <2>1 DEF Access
<1> QED
  BY <1>4, <1>5, <1>6

LEMMA JobTyped ==
    ASSUME NEW f \in Files, NEW g \in Group
    PROVE  \A stage \in Stages :
              /\ Job(stage, f, g) \in JobType
              /\ Job(stage, f, g).stage = stage /\ Job(stage, f, g).file = f
              /\ Job(stage, f, g).group = g
BY DEF Job, JobType

LEMMA StageTyped ==
    ASSUME NEW j \in JobType, NEW stage \in Stages
    PROVE  /\ [j EXCEPT !.stage = stage] \in JobType
           /\ [j EXCEPT !.stage = stage].stage = stage
           /\ [j EXCEPT !.stage = stage].file = j.file
           /\ [j EXCEPT !.stage = stage].group = j.group
           /\ j.file \in Files /\ j.group \in Group /\ j.stage \in Stages
BY DEF JobType

LEMMA RemovedTyped ==
    ASSUME NEW s \in Seq(Group), NEW i \in DOMAIN s
    PROVE  /\ RemoveAt(s, i) \in Seq(Group)
           /\ \A k \in DOMAIN RemoveAt(s, i) : \E j \in DOMAIN s : RemoveAt(s, i)[k] = s[j]
<1> DEFINE a == SubSeq(s, 1, i - 1)
           b == SubSeq(s, i + 1, Len(s))
<1>1. i \in 1..Len(s) /\ Len(s) \in Nat
  OBVIOUS
<1>2. /\ a \in Seq(Group) /\ Len(a) = i - 1
      /\ \A k \in 1..(i - 1) : a[k] = s[k]
  BY <1>1, SubSeqProperties
<1>3. /\ b \in Seq(Group) /\ Len(b) = Len(s) - i
      /\ \A k \in 1..(Len(s) - i) : b[k] = s[i + k]
  <2>1. b \in Seq(Group)
    BY <1>1
  <2>2. Len(b) = Len(s) - i
    BY <1>1
  <2>3. \A k \in 1..(Len(s) - i) : b[k] = s[i + k]
    BY <1>1
  <2> QED
    BY <2>1, <2>2, <2>3
<1>4. RemoveAt(s, i) = a \o b
  BY DEF RemoveAt
<1> HIDE DEF a, b
<1>5. /\ a \o b \in Seq(Group) /\ DOMAIN (a \o b) = 1..(Len(s) - 1)
      /\ \A k \in 1..(Len(s) - 1) :
            (a \o b)[k] = IF k <= i - 1 THEN a[k] ELSE b[k - (i - 1)]
  BY <1>1, <1>2, <1>3
<1>6. ASSUME NEW k \in 1..(Len(s) - 1)
      PROVE  \E j \in DOMAIN s : (a \o b)[k] = s[j]
  <2>1. CASE k <= i - 1
    <3>1. k \in 1..(i - 1) /\ k \in DOMAIN s
      BY <1>1, <2>1
    <3> QED
      BY <1>2, <1>5, <2>1, <3>1
  <2>2. CASE ~(k <= i - 1)
    <3>1. /\ k - (i - 1) \in 1..(Len(s) - i)
          /\ i + (k - (i - 1)) = k + 1 /\ k + 1 \in DOMAIN s
      BY <1>1, <2>2
    <3>2. (a \o b)[k] = b[k - (i - 1)]
      BY <1>5, <2>2
    <3>3. b[k - (i - 1)] = s[k + 1]
      BY <1>3, <3>1
    <3> QED
      BY <3>1, <3>2, <3>3
  <2> QED
    BY <2>1, <2>2
<1> QED
  BY <1>4, <1>5, <1>6

-----------------------------------------------------------------------------
(* Every step keeps the types.                                             *)
LEMMA TypesInit == SelafinInit => SelafinTypeOK
<1> SUFFICES ASSUME SelafinInit PROVE SelafinTypeOK
  OBVIOUS
<1>1. /\ [f \in Files |-> NoFile] \in [Files -> Content]
      /\ [f \in Files |-> {}] \in [Files -> SUBSET PromiseType]
  BY CutTyped, FilesTyped
<1>2. alive \in BOOLEAN /\ Empty /\ "None" \in StatusType
  BY DEF SelafinInit, Empty, StatusType
<1> QED
  BY <1>1, <1>2, NothingTyped, TypeParts DEF SelafinInit

LEMMA EndTyped ==
    ASSUME SelafinTypeOK, alive' = FALSE, mesh' = NoMesh, source' = NoSource,
           groups' = <<>>, job' = Idle, status' = "None",
           promised' \in [Files -> SUBSET PromiseType],
           disk' \in [Files -> Content], temp' \in [Files -> Content]
    PROVE  SelafinTypeOK'
<1>1. Empty' /\ status' \in StatusType
  BY DEF Empty, StatusType
<1> QED
  BY <1>1, NothingTyped, TypePartsNext

LEMMA MeshCallTypes ==
    ASSUME SelafinTypeOK, MeshCalls
    PROVE  SelafinTypeOK'
<1> USE DEF Ready
<1>1. /\ alive \in BOOLEAN /\ mesh \in MeshType /\ source \in SourceType
      /\ groups \in Seq(Group)
      /\ disk \in [Files -> Content] /\ temp \in [Files -> Content]
      /\ job \in JobType /\ (job.stage = "idle" => job = Idle) /\ status \in StatusType
      /\ promised \in [Files -> SUBSET PromiseType]
      /\ (~alive \/ mesh.kind = "none") => Empty
  BY TypeParts
<1>2. ASSUME NEW v \in VertexChoices, CreateMesh(v) PROVE SelafinTypeOK'
  <2>1. v \in Nat
    BY SelafinAssumption
  <2>2. MemoryMesh(v) \in MeshType /\ MemoryMesh(v).kind = "memory"
    BY <2>1, NothingTyped DEF MemoryMesh, MeshType
  <2>3. "None" \in StatusType
    BY DEF StatusType
  <2> QED
    BY <1>1, <1>2, <2>2, <2>3, NothingTyped, TypePartsNext DEF CreateMesh
<1>3. CASE CloseMesh
  <2>1. Empty'
    BY <1>1, <1>3, NothingTyped DEF CloseMesh, Empty
  <2> QED
    BY <1>1, <1>3, <2>1, NothingTyped, TypePartsNext DEF CloseMesh
<1>4. ASSUME NEW f \in Files, LoadMesh(f) PROVE SelafinTypeOK'
  <2>1. LazyMesh(f) \in MeshType /\ LazyMesh(f).kind = "lazy"
    BY NothingTyped DEF LazyMesh, MeshType
  <2>2. Parsed(disk[f]) \in Content
    BY <1>1, ParsedTyped
  <2>3. Reading(Parsed(disk[f])) \in SourceType
    BY <2>2 DEF Reading, SourceType
  <2>4. LoadedGroups(Parsed(disk[f]), f) \in Seq(Group)
    BY <2>2, LoadedAll
  <2>5. "None" \in StatusType
    BY DEF StatusType
  <2> QED
    BY <1>1, <1>4, <2>1, <2>3, <2>4, <2>5, TypePartsNext DEF LoadMesh
<1>5. ASSUME NEW f \in Files, LoadMeshFails(f) PROVE SelafinTypeOK'
  <2>1. status' \in StatusType
    BY <1>5 DEF LoadMeshFails, StatusType
  <2>2. Empty => Empty'
    BY <1>5 DEF LoadMeshFails, Empty
  <2> QED
    BY <1>1, <1>5, <2>1, <2>2, TypePartsNext DEF LoadMeshFails
<1>6. ASSUME NEW f \in Files, LoadMeshDies(f) PROVE SelafinTypeOK'
  BY <1>1, <1>6, EndTyped DEF LoadMeshDies, ProcessEnds
<1>7. ASSUME NEW f \in Files, SaveMesh(f) PROVE SelafinTypeOK'
  <2>1. /\ Stub("cut", 0, FALSE) \in Content /\ NoFile \in Content
    BY CutTyped, FilesTyped
  <2>2. /\ Put(disk, f, Stub("cut", 0, FALSE)) \in [Files -> Content]
        /\ Put(temp, f, NoFile) \in [Files -> Content]
    BY <1>1, <2>1, PutTyped
  <2>3. [promised EXCEPT ![f] = {}] \in [Files -> SUBSET PromiseType]
    BY <1>1
  <2>4. Job("saving", f, NoGroup) \in JobType /\ Job("saving", f, NoGroup).stage = "saving"
    BY NothingTyped, JobTyped DEF Stages
  <2>5. "None" \in StatusType
    BY DEF StatusType
  <2>6. source' \in SourceType
    BY <1>7, ViewTyped DEF SaveMesh
  <2> QED
    BY <1>1, <1>7, <2>2, <2>3, <2>4, <2>5, <2>6, TypePartsNext DEF SaveMesh
<1>8. ASSUME NEW f \in Files, SaveMeshDies(f) PROVE SelafinTypeOK'
  <2>1. /\ Stub("cut", 0, FALSE) \in Content /\ NoFile \in Content
    BY CutTyped, FilesTyped
  <2>2. /\ Put(disk, f, Stub("cut", 0, FALSE)) \in [Files -> Content]
        /\ Put(temp, f, NoFile) \in [Files -> Content]
    BY <1>1, <2>1, PutTyped
  <2>3. [promised EXCEPT ![f] = {}] \in [Files -> SUBSET PromiseType]
    BY <1>1
  <2> QED
    BY <1>8, <2>2, <2>3, EndTyped DEF SaveMeshDies
<1>9. CASE SaveMeshUnopened
  <2>1. "None" \in StatusType /\ source' \in SourceType
    BY <1>9, ViewTyped DEF SaveMeshUnopened, StatusType
  <2> QED
    BY <1>1, <1>9, <2>1, TypePartsNext DEF SaveMeshUnopened
<1>10. CASE MeshSaved
  <2>1. MeshOnly(MeshVertices) \in Content
    BY ViewTyped, FilesTyped DEF MeshOnly
  <2>2. PICK c \in WrittenOf(MeshOnly(MeshVertices)) : disk' = Put(disk, job.file, c)
    BY <1>10 DEF MeshSaved
  <2>3. c \in Content
    BY <2>1, WrittenTyped
  <2>4. job.file \in Files
    BY <1>1 DEF JobType
  <2>5. disk' \in [Files -> Content]
    BY <1>1, <2>2, <2>3, <2>4, PutTyped
  <2>6. Empty => Empty'
    BY <1>10 DEF MeshSaved, Empty
  <2> QED
    BY <1>1, <1>10, <2>5, <2>6, NothingTyped, TypePartsNext DEF MeshSaved
<1> QED
  BY <1>2, <1>3, <1>4, <1>5, <1>6, <1>7, <1>8, <1>9, <1>10 DEF MeshCalls

LEMMA GroupCallTypes ==
    ASSUME SelafinTypeOK, GroupCalls
    PROVE  SelafinTypeOK'
<1> USE DEF Ready
<1>1. /\ alive \in BOOLEAN /\ mesh \in MeshType /\ source \in SourceType
      /\ groups \in Seq(Group)
      /\ disk \in [Files -> Content] /\ temp \in [Files -> Content]
      /\ job \in JobType /\ (job.stage = "idle" => job = Idle) /\ status \in StatusType
      /\ promised \in [Files -> SUBSET PromiseType]
      /\ (~alive \/ mesh.kind = "none") => Empty
  BY TypeParts
<1>2. ASSUME NEW n \in ClientNames, NEW scalar \in BOOLEAN, NEW f \in Files,
             AddDatasetGroup(n, scalar, f)
      PROVE  SelafinTypeOK'
  <2>1. n \in Names
    BY SelafinAssumption
  <2>2. ClientGroup(n, scalar, f) \in Group
    BY <2>1, ClientGroupTyped
  <2>3. Append(groups, ClientGroup(n, scalar, f)) \in Seq(Group)
    BY <1>1, <2>2
  <2> QED
    BY <1>1, <1>2, <2>3, TypePartsNext DEF AddDatasetGroup
<1>4. ASSUME NEW i \in DOMAIN groups PROVE alive /\ mesh.kind # "none"
  <2>1. ~Empty
    BY DEF Empty
  <2> QED
    BY <1>1, <2>1
<1>5. ASSUME NEW i \in DOMAIN groups, AddDataset(i) PROVE SelafinTypeOK'
  <2>1. [groups EXCEPT ![i].steps = @ + 1] \in Seq(Group)
    <3>1. groups[i] \in Group
      BY <1>1
    <3>2. [groups[i] EXCEPT !.steps = @ + 1] \in Group
      BY <3>1 DEF Group
    <3> QED
      BY <1>1, <3>2
  <2>2. source' \in SourceType
    BY <1>5, ViewTyped DEF AddDataset
  <2> QED
    BY <1>1, <1>4, <1>5, <2>1, <2>2, TypePartsNext DEF AddDataset
<1>6. ASSUME NEW i \in DOMAIN groups, ReadDataset(i) PROVE SelafinTypeOK'
  <2>1. source' \in SourceType
    BY <1>6, ViewTyped DEF ReadDataset
  <2> QED
    BY <1>1, <1>4, <1>6, <2>1, TypePartsNext DEF ReadDataset
<1>7. ASSUME NEW i \in DOMAIN groups, CloseEditMode(i)
      PROVE  /\ alive' = alive /\ mesh' = mesh /\ source' = source
             /\ groups' \in Seq(Group) /\ groups[i] \in Group /\ groups[i].file \in Files
             /\ alive /\ mesh.kind # "none"
  <2>1. groups[i] \in Group
    BY <1>1
  <2> QED
    BY <1>1, <1>4, <1>7, <2>1, RemovedTyped DEF CloseEditMode, Group
<1>8. ASSUME NEW i \in DOMAIN groups, PersistStarts(i) PROVE SelafinTypeOK'
  <2> DEFINE f == groups[i].file
  <2>1. /\ alive' = alive /\ mesh' = mesh /\ source' = source
        /\ groups' \in Seq(Group) /\ groups[i] \in Group /\ f \in Files
        /\ alive /\ mesh.kind # "none"
    BY <1>7, <1>8 DEF PersistStarts
  <2>2. /\ Put(disk, f, Stub("cut", 0, FALSE)) \in [Files -> Content]
        /\ Put(temp, f, NoFile) \in [Files -> Content]
    <3>1. /\ Stub("cut", 0, FALSE) \in Content /\ NoFile \in Content
      BY CutTyped, FilesTyped
    <3> HIDE DEF f
    <3> QED
      BY <1>1, <2>1, <3>1, PutTyped
  <2>3. [promised EXCEPT ![f] = {}] \in [Files -> SUBSET PromiseType]
    BY <1>1
  <2>4. /\ Job("creating", f, groups[i]) \in JobType
        /\ Job("creating", f, groups[i]).stage = "creating"
        /\ Job("adding", f, groups[i]) \in JobType
        /\ Job("adding", f, groups[i]).stage = "adding"
    <3> HIDE DEF f
    <3> QED
      BY <2>1, JobTyped DEF Stages
  <2>5. status' \in StatusType
    BY <1>8 DEF PersistStarts, StatusType
  <2>6. CASE disk[f] = NoFile
    <3>1. /\ disk' = Put(disk, f, Stub("cut", 0, FALSE)) /\ temp' = Put(temp, f, NoFile)
          /\ promised' = [promised EXCEPT ![f] = {}]
          /\ job' = Job("creating", f, groups[i])
      BY <1>8, <2>6 DEF PersistStarts
    <3> HIDE DEF f
    <3> QED
      BY <1>1, <2>1, <2>2, <2>3, <2>4, <2>5, <3>1, TypePartsNext
  <2>7. CASE disk[f] # NoFile
    <3>1. /\ disk' = disk /\ temp' = temp /\ promised' = promised
          /\ job' = Job("adding", f, groups[i])
      BY <1>8, <2>7 DEF PersistStarts
    <3> HIDE DEF f
    <3> QED
      BY <1>1, <2>1, <2>4, <2>5, <3>1, TypePartsNext
  <2> QED
    BY <2>6, <2>7
<1>9. ASSUME NEW i \in DOMAIN groups, PersistUnopened(i) PROVE SelafinTypeOK'
  <2>1. /\ alive' = alive /\ mesh' = mesh /\ source' = source
        /\ groups' \in Seq(Group) /\ alive /\ mesh.kind # "none"
    BY <1>7, <1>9 DEF PersistUnopened
  <2>2. status' \in StatusType
    BY <1>9 DEF PersistUnopened, StatusType
  <2> QED
    BY <1>1, <1>9, <2>1, <2>2, TypePartsNext DEF PersistUnopened
<1>10. CASE AccessDies
  BY <1>1, <1>10, EndTyped DEF AccessDies, ProcessEnds
<1> QED
  BY <1>2, <1>5, <1>6, <1>8, <1>9, <1>10 DEF GroupCalls

LEMMA PersistStepTypes ==
    ASSUME SelafinTypeOK, PersistSteps
    PROVE  SelafinTypeOK'
<1>1. /\ alive \in BOOLEAN /\ mesh \in MeshType /\ source \in SourceType
      /\ groups \in Seq(Group)
      /\ disk \in [Files -> Content] /\ temp \in [Files -> Content]
      /\ job \in JobType /\ (job.stage = "idle" => job = Idle) /\ status \in StatusType
      /\ promised \in [Files -> SUBSET PromiseType]
      /\ (~alive \/ mesh.kind = "none") => Empty
  BY TypeParts
<1>2. /\ job.file \in Files /\ job.group \in Group
      /\ \A stage \in Stages : /\ [job EXCEPT !.stage = stage] \in JobType
                               /\ [job EXCEPT !.stage = stage].stage = stage
  <2>1. job.file \in Files /\ job.group \in Group
    BY <1>1 DEF JobType
  <2>2. job \in JobType
    BY <1>1
  <2>3. ASSUME NEW stage \in Stages
        PROVE  [job EXCEPT !.stage = stage] \in JobType /\ [job EXCEPT !.stage = stage].stage = stage
    BY <2>2, StageTyped
  <2> QED
    BY <2>1, <2>3
<1>3. alive /\ job.stage # "idle" => mesh.kind # "none"
  BY <1>1, NothingTyped DEF Empty
<1>4. ASSUME alive, PersistFails, job.stage # "idle", source' \in SourceType,
             disk' \in [Files -> Content], temp' \in [Files -> Content],
             promised' \in [Files -> SUBSET PromiseType]
      PROVE  SelafinTypeOK'
  <2>1. status' \in StatusType
    BY <1>4 DEF PersistFails, StatusType
  <2> QED
    BY <1>1, <1>3, <1>4, <2>1, NothingTyped, TypePartsNext DEF PersistFails
<1>5. NoFile \in Content
  BY FilesTyped
<1>6. Put(temp, job.file, NoFile) \in [Files -> Content]
      /\ Put(disk, job.file, NoFile) \in [Files -> Content]
  BY <1>1, <1>2, <1>5, PutTyped
<1>7. CASE MeshFileCreated
  <2>1. MeshOnly(MeshVertices) \in Content
    BY ViewTyped, FilesTyped DEF MeshOnly
  <2>2. PICK c \in WrittenOf(MeshOnly(MeshVertices)) : disk' = Put(disk, job.file, c)
    BY <1>7 DEF MeshFileCreated
  <2>3. c \in Content
    BY <2>1, WrittenTyped
  <2>4. disk' \in [Files -> Content]
    BY <1>1, <1>2, <2>2, <2>3, PutTyped
  <2>5. source' \in SourceType
    BY <1>7, ViewTyped DEF MeshFileCreated
  <2>6. alive /\ mesh.kind # "none"
    BY <1>3, <1>7 DEF MeshFileCreated
  <2>7. job' \in JobType /\ job'.stage = "adding"
    BY <1>2, <1>7 DEF MeshFileCreated, Stages
  <2> QED
    BY <1>1, <1>7, <2>4, <2>5, <2>6, <2>7, TypePartsNext DEF MeshFileCreated
<1>8. CASE MeshFileNotCreated
  BY <1>1, <1>4, <1>8 DEF MeshFileNotCreated
<1>9. CASE GroupAdded
  <2>1. Extended(Parsed(disk[job.file]), job.group, MeshVertices) \in Content
    <3>1. Parsed(disk[job.file]) \in Content
      BY <1>1, <1>2, ParsedTyped
    <3> QED
      BY <1>2, <3>1, ViewTyped, ExtendedFields
  <2>2. PICK w \in WrittenOf(Extended(Parsed(disk[job.file]), job.group, MeshVertices)) :
           temp' = Put(temp, job.file, w)
    BY <1>9 DEF GroupAdded
  <2>3. w \in Content
    BY <2>1, WrittenTyped
  <2>4. temp' \in [Files -> Content]
    BY <1>1, <1>2, <2>2, <2>3, PutTyped
  <2>5. alive /\ mesh.kind # "none"
    BY <1>3, <1>9 DEF GroupAdded
  <2>6. job' \in JobType /\ job'.stage = "written"
    BY <1>2, <1>9 DEF GroupAdded, Stages
  <2> QED
    BY <1>1, <1>9, <2>4, <2>5, <2>6, NothingTyped, TypePartsNext DEF GroupAdded
<1>10. CASE GroupRefused
  BY <1>1, <1>4, <1>10 DEF GroupRefused
<1>11. CASE StepsRefused
  BY <1>1, <1>4, <1>11 DEF StepsRefused
<1>12. CASE AddDies
  BY <1>1, <1>12, EndTyped DEF AddDies, ProcessEnds
<1>13. CASE FileDeleted
  <2>1. alive /\ mesh.kind # "none"
    BY <1>3, <1>13 DEF FileDeleted
  <2>2. job' \in JobType /\ job'.stage = "deleted"
    BY <1>2, <1>13 DEF FileDeleted, Stages
  <2>3. disk' \in [Files -> Content]
    BY <1>6, <1>13 DEF FileDeleted
  <2> QED
    BY <1>1, <1>13, <2>1, <2>2, <2>3, TypePartsNext DEF FileDeleted
<1>14. CASE DeleteFails
  BY <1>1, <1>4, <1>6, <1>14 DEF DeleteFails
<1>15. CASE TempRenamed
  <2>1. alive /\ job.stage = "deleted" /\ mesh.kind # "none"
    BY <1>3, <1>15 DEF TempRenamed
  <2>2. /\ disk' = Put(disk, job.file, temp[job.file])
        /\ temp' = Put(temp, job.file, NoFile)
        /\ source' = source
    BY <1>15 DEF TempRenamed
  <2>3. temp[job.file] \in Content
    BY <1>1, <1>2
  <2>4. disk' \in [Files -> Content] /\ temp' \in [Files -> Content]
    BY <1>1, <1>2, <1>5, <2>2, <2>3, PutTyped
  <2>5. CASE PersistFails /\ UNCHANGED promised
    BY <1>1, <1>4, <2>1, <2>2, <2>4, <2>5
  <2>6. CASE /\ promised' = [promised EXCEPT ![job.file] = @ \cup {Promise(job.group)}]
             /\ job' = Idle /\ status' = "None"
             /\ UNCHANGED <<alive, mesh, groups>>
    <3>1. Promise(job.group) \in PromiseType
      BY <1>2 DEF Promise, PromiseType, Group
    <3>2. promised' \in [Files -> SUBSET PromiseType]
      BY <1>1, <2>6, <3>1
    <3>3. status' \in StatusType
      BY <2>6 DEF StatusType
    <3> QED
      BY <1>1, <2>1, <2>2, <2>4, <2>6, <3>2, <3>3, NothingTyped, TypePartsNext
  <2> QED
    BY <1>15, <2>5, <2>6 DEF TempRenamed
<1>16. CASE RenameFails
  <2>1. [promised EXCEPT ![job.file] = {}] \in [Files -> SUBSET PromiseType]
    BY <1>1
  <2> QED
    BY <1>1, <1>4, <1>6, <1>16, <2>1 DEF RenameFails
<1> QED
  BY <1>7, <1>8, <1>9, <1>10, <1>11, <1>12, <1>13, <1>14, <1>15, <1>16 DEF PersistSteps

LEMMA LeftTyped ==
    ASSUME SelafinTypeOK, NEW c \in Content, NEW w \in LeftOf(c)
    PROVE  w \in Content
<1>1. MeshVertices \in Nat
  BY ViewTyped
<1>2. [c EXCEPT !.frame = "short", !.vertices = MeshVertices] \in Content
  BY <1>1 DEF Content
<1> QED
  BY <1>2 DEF LeftOf

LEMMA KilledTypes ==
    ASSUME SelafinTypeOK, Killed
    PROVE  SelafinTypeOK'
<1>1. /\ disk \in [Files -> Content] /\ temp \in [Files -> Content]
      /\ promised \in [Files -> SUBSET PromiseType] /\ job.file \in Files
  BY TypeParts DEF JobType
<1>2. disk' \in [Files -> Content]
  <2>1. CASE job.stage \in {"saving", "creating"}
    <3>1. PICK c \in LeftOf(disk[job.file]) : disk' = Put(disk, job.file, c)
      BY <2>1 DEF Killed
    <3>2. c \in Content
      BY <1>1, LeftTyped
    <3> QED
      BY <1>1, <3>1, <3>2, PutTyped
  <2>2. CASE job.stage \notin {"saving", "creating"}
    BY <1>1, <2>2 DEF Killed
  <2> QED
    BY <2>1, <2>2
<1>3. temp' \in [Files -> Content]
  BY <1>1, FilesTyped, PutTyped DEF Killed
<1> QED
  BY <1>1, <1>2, <1>3, EndTyped DEF Killed, ProcessEnds

LEMMA RestartTypes ==
    ASSUME SelafinTypeOK, Restart
    PROVE  SelafinTypeOK'
<1>2. Empty
  BY TypeParts DEF Restart
<1>3. Empty'
  BY <1>2 DEF Restart, Empty
<1> QED
  BY <1>3, TypeParts, TypePartsNext DEF Restart

LEMMA SameTypes ==
    ASSUME SelafinTypeOK, UNCHANGED vars
    PROVE  SelafinTypeOK'
BY TypeParts, TypePartsNext DEF vars, Empty

LEMMA TypesNext ==
    ASSUME SelafinTypeOK, [SelafinNext]_vars
    PROVE  SelafinTypeOK'
BY MeshCallTypes, GroupCallTypes, PersistStepTypes, KilledTypes, RestartTypes, SameTypes
   DEF SelafinNext

(* Every variable keeps its type, for all files, names, ways of reading    *)
(* them and faults; a process that ended left nothing in memory            *)
(* (mdal_selafin.cpp).                                                     *)
THEOREM SelafinTypes == SelafinSpec => []SelafinTypeOK
<1>1. SelafinTypeOK /\ [SelafinNext]_vars => SelafinTypeOK'
  BY TypesNext
<1> QED
  BY TypesInit, <1>1, PTL DEF SelafinSpec

-----------------------------------------------------------------------------
(* The stages of a call that has a group, and those with a file.tmp.      *)
Persisting == {"creating", "adding", "written", "deleted"}
Replacing == {"written", "deleted"}

ShapesOK ==
    /\ \A i \in DOMAIN groups : groups[i].edit => ClientShaped(groups[i]) /\ ~groups[i].lazy
    /\ job.stage \in Persisting => ClientShaped(job.group)
    /\ \A f \in Files : \A p \in promised[f] : ClientShaped(p)

(* What a mesh has read is what its file holds, whatever is written there. *)
ReaderCurrent ==
    mesh.kind = "lazy" /\ source.parsed =>
        Readable(disk[mesh.file]) /\ source.view = Parsed(disk[mesh.file])

(* It is closed while the file is being replaced.                          *)
ReaderClosed == job.stage \in Replacing => ~source.parsed

(* The file a call is making is empty yet, and not that of the open mesh   *)
(* if the mesh is saved to it.                                             *)
JobFile ==
    /\ job.stage \in {"saving", "creating"} =>
          disk[job.file].frame = "cut" /\ promised[job.file] = {}
    /\ job.stage = "saving" /\ mesh.kind = "lazy" => mesh.file # job.file

Intact(c) == c.frame = "whole" /\ ~c.lost

(* A file from which a loaded group reads what it did when it was loaded.  *)
Serves(c, g) ==
    /\ StepsFound(c) = g.steps /\ SizesAgree(c) /\ c.frame = "whole"
    /\ g.x \in DOMAIN c.variables /\ g.y \in DOMAIN c.variables
    /\ ValuesAt(c.variables, g.scalar, g.x, g.y) = g.holds

LazyServed ==
    mesh.kind = "lazy" =>
        \A i \in DOMAIN groups : groups[i].lazy /\ groups[i].steps > 0 =>
            /\ Intact(disk[mesh.file]) => Serves(disk[mesh.file], groups[i])
            /\ job.stage \in Replacing /\ job.file = mesh.file /\ Intact(temp[mesh.file]) =>
                  Serves(temp[mesh.file], groups[i])

(* What is left of a group that was reported as persisted.                 *)
Keeps(c, p) == Undisturbed(c) => c.frame = "whole" /\ Has(c, p)

PromisesKept ==
    \A f \in Files : \A p \in promised[f] :
        /\ Keeps(Kept(f), p)
        /\ job.stage \in Replacing /\ job.file = f => Keeps(temp[f], p)

(* What is in file.tmp when it is about to take the place of the file.     *)
TempWritten ==
    /\ job.stage \in Replacing /\ ~temp[job.file].lost => Has(temp[job.file], job.group)
    /\ job.stage = "written" =>
          LET c == disk[job.file] IN
          /\ Readable(c) /\ StepsFit(c, job.group)
          /\ ~temp[job.file].lost =>
                \E v \in Nat : temp[job.file] = Extended(Parsed(c), job.group, v)

(* What relates the files, the reader and the groups to each other.        *)
FilesOK ==
    /\ ReaderCurrent /\ ReaderClosed /\ JobFile
    /\ LazyServed /\ PromisesKept /\ TempWritten

SelafinInv == SelafinTypeOK /\ ShapesOK /\ FilesOK

-----------------------------------------------------------------------------
(* A call or a process that leaves no loaded mesh behind.                  *)
LEMMA EndedSound ==
    ASSUME SelafinInv, mesh'.kind # "lazy", job'.stage = "idle",
           \A f \in Files : promised'[f] \subseteq promised[f],
           \A f \in Files : \A p \in promised'[f] : Kept(f)' = Kept(f)
    PROVE  FilesOK'
<1>1. ReaderCurrent' /\ ReaderClosed' /\ JobFile' /\ LazyServed' /\ TempWritten'
  BY DEF ReaderCurrent, ReaderClosed, JobFile, LazyServed, TempWritten, Replacing
<1>2. PromisesKept'
  BY DEF SelafinInv, FilesOK, PromisesKept, Replacing, Keeps, Undisturbed, SizesAgree, Has
<1> QED
  BY <1>1, <1>2 DEF FilesOK

(* What a loaded mesh reads is what is in its file.                        *)
LEMMA ViewCurrent ==
    ASSUME SelafinInv, mesh.kind = "lazy", SourceOK
    PROVE  Readable(disk[mesh.file]) /\ View = Parsed(disk[mesh.file])
BY DEF SelafinInv, FilesOK, ReaderCurrent, SourceOK, View

LEMMA AccessCurrent ==
    ASSUME SelafinInv, Access, mesh' = mesh,
           mesh.kind = "lazy" => disk'[mesh.file] = disk[mesh.file]
    PROVE  ReaderCurrent'
<1> SUFFICES ASSUME mesh.kind = "lazy" PROVE ReaderCurrent'
  BY DEF ReaderCurrent
<1>1. Readable(disk[mesh.file]) /\ View = Parsed(disk[mesh.file])
  BY ViewCurrent DEF Access
<1>2. source'.view = Parsed(disk[mesh.file])
  BY <1>1 DEF Access, Reading
<1>3. disk'[mesh'.file] = disk[mesh.file]
  OBVIOUS
<1> QED
  BY <1>1, <1>2, <1>3 DEF ReaderCurrent

LEMMA SameReader ==
    ASSUME SelafinInv, mesh' = mesh, source' = source,
           mesh.kind = "lazy" => disk'[mesh.file] = disk[mesh.file]
    PROVE  ReaderCurrent'
<1> SUFFICES ASSUME mesh.kind = "lazy", source.parsed PROVE ReaderCurrent'
  BY DEF ReaderCurrent
<1>1. disk'[mesh'.file] = disk[mesh.file]
  OBVIOUS
<1> QED
  BY <1>1 DEF SelafinInv, FilesOK, ReaderCurrent

(* Groups keep the values they were given.                                 *)
GroupsLeft ==
    groups' = groups \/ groups' = <<>> \/ \E i \in DOMAIN groups : groups' = RemoveAt(groups, i)

JobGroupGiven ==
    job'.stage \in Persisting =>
        \/ job'.group = job.group /\ job.stage \in Persisting
        \/ \E i \in DOMAIN groups : groups[i].edit /\ job'.group = groups[i]

PromisesGiven ==
    \A f \in Files : \A p \in promised'[f] :
        p \in promised[f] \/ (job.stage \in Persisting /\ p = Promise(job.group))

LEMMA ShapesFrom ==
    ASSUME SelafinInv, GroupsLeft, JobGroupGiven, PromisesGiven
    PROVE  ShapesOK'
<1>1. /\ groups \in Seq(Group)
      /\ \A i \in DOMAIN groups : groups[i].edit => ClientShaped(groups[i]) /\ ~groups[i].lazy
      /\ job.stage \in Persisting => ClientShaped(job.group)
      /\ \A f \in Files : \A p \in promised[f] : ClientShaped(p)
  BY TypeParts DEF SelafinInv, ShapesOK
<1>2. \A i \in DOMAIN groups' :
         groups'[i].edit => ClientShaped(groups'[i]) /\ ~groups'[i].lazy
  <2>1. CASE groups' = groups
    BY <1>1, <2>1
  <2>2. CASE groups' = <<>>
    BY <2>2
  <2>3. CASE \E i \in DOMAIN groups : groups' = RemoveAt(groups, i)
    <3>1. \A k \in DOMAIN groups' : \E j \in DOMAIN groups : groups'[k] = groups[j]
      BY <1>1, <2>3, RemovedTyped
    <3> QED
      BY <1>1, <3>1
  <2> QED
    BY <2>1, <2>2, <2>3 DEF GroupsLeft
<1>3. job'.stage \in Persisting => ClientShaped(job'.group)
  BY <1>1 DEF JobGroupGiven
<1>4. job.stage \in Persisting => ClientShaped(Promise(job.group))
  BY <1>1 DEF ClientShaped, Promise
<1>5. \A f \in Files : \A p \in promised'[f] : ClientShaped(p)
  BY <1>1, <1>4 DEF PromisesGiven
<1> QED
  BY <1>2, <1>3, <1>5 DEF ShapesOK

LEMMA AppendedPlaces ==
    ASSUME NEW s \in Seq(Group), NEW g \in Group
    PROVE  \A k \in DOMAIN Append(s, g) :
              Append(s, g)[k] = g \/ (k \in DOMAIN s /\ Append(s, g)[k] = s[k])
<1>1. /\ Len(s) \in Nat /\ DOMAIN s = 1..Len(s)
      /\ DOMAIN Append(s, g) = 1..(Len(s) + 1) /\ Append(s, g)[Len(s) + 1] = g
      /\ \A k \in 1..Len(s) : Append(s, g)[k] = s[k]
  OBVIOUS
<1>2. \A k \in 1..(Len(s) + 1) : k \in 1..Len(s) \/ k = Len(s) + 1
  BY <1>1
<1> QED
  BY <1>1, <1>2

LEMMA SamePromises ==
    ASSUME SelafinInv,
           promised' = promised \/ \E f \in Files : promised' = [promised EXCEPT ![f] = {}]
    PROVE  \A f \in Files : promised'[f] \subseteq promised[f]
<1>1. promised \in [Files -> SUBSET PromiseType]
  BY TypeParts DEF SelafinInv
<1> QED
  BY <1>1

LEMMA ShapesNext ==
    ASSUME SelafinInv, SelafinNext
    PROVE  ShapesOK'
<1>1. /\ groups \in Seq(Group) /\ promised \in [Files -> SUBSET PromiseType]
      /\ job \in JobType /\ job.file \in Files /\ Idle.stage = "idle"
      /\ \A i \in DOMAIN groups : groups[i] \in Group /\ groups[i].file \in Files
  <2>1. groups \in Seq(Group) /\ promised \in [Files -> SUBSET PromiseType] /\ job \in JobType
    BY TypeParts DEF SelafinInv
  <2>2. \A i \in DOMAIN groups : groups[i] \in Group
    BY <2>1
  <2> QED
    BY <2>1, <2>2, NothingTyped DEF JobType, Group
<1>2. ASSUME groups' = groups \/ groups' = <<>>
               \/ \E i \in DOMAIN groups : groups' = RemoveAt(groups, i),
             job' = job \/ job'.stage \in {"idle", "saving"}
               \/ \E stage \in Persisting :
                     job.stage \in Persisting /\ job' = [job EXCEPT !.stage = stage],
             promised' = promised \/ \E f \in Files : promised' = [promised EXCEPT ![f] = {}]
      PROVE  ShapesOK'
  <2>1. \A f \in Files : promised'[f] \subseteq promised[f]
    BY <1>2, SamePromises
  <2>2. job'.stage \in Persisting => job'.group = job.group /\ job.stage \in Persisting
    <3>1. CASE job' = job
      BY <3>1
    <3>2. CASE job'.stage \in {"idle", "saving"}
      BY <3>2 DEF Persisting
    <3>3. CASE \E stage \in Persisting :
                  job.stage \in Persisting /\ job' = [job EXCEPT !.stage = stage]
      BY <1>1, <3>3 DEF JobType
    <3> QED
      BY <1>2, <3>1, <3>2, <3>3
  <2>3. PromisesGiven
    BY <2>1 DEF PromisesGiven
  <2>4. GroupsLeft
    BY <1>2 DEF GroupsLeft
  <2>5. JobGroupGiven
    BY <2>2 DEF JobGroupGiven
  <2> QED
    BY <2>3, <2>4, <2>5, ShapesFrom
<1>3. CASE MeshCalls
  <2>1. ASSUME NEW v \in VertexChoices, CreateMesh(v) PROVE ShapesOK'
    BY <1>2, <2>1 DEF CreateMesh
  <2>2. CASE CloseMesh
    BY <1>2, <2>2 DEF CloseMesh
  <2>3. ASSUME NEW f \in Files, LoadMesh(f) PROVE ShapesOK'
    <3>1. Parsed(disk[f]) \in Content
      BY TypeParts, ParsedTyped DEF SelafinInv
    <3>2. \A k \in DOMAIN groups' : ~groups'[k].edit
      <4>1. \A k \in DOMAIN groups' : \E i \in DOMAIN Parsed(disk[f]).variables :
                groups'[k] = GroupAt(Parsed(disk[f]), f, i)
        BY <2>3, <3>1, LoadedAll DEF LoadMesh
      <4>2. \A i : ~GroupAt(Parsed(disk[f]), f, i).edit
        BY DEF GroupAt, LoadedGroup
      <4> QED
        BY <4>1, <4>2
    <3>3. job' = job /\ promised' = promised
      BY <2>3 DEF LoadMesh
    <3> QED
      BY <3>2, <3>3 DEF SelafinInv, ShapesOK
  <2>4. ASSUME NEW f \in Files, LoadMeshFails(f) PROVE ShapesOK'
    BY <1>2, <2>4 DEF LoadMeshFails
  <2>5. ASSUME NEW f \in Files, LoadMeshDies(f) PROVE ShapesOK'
    BY <1>1, <1>2, <2>5 DEF LoadMeshDies, ProcessEnds
  <2>6. ASSUME NEW f \in Files, SaveMesh(f) PROVE ShapesOK'
    <3>1. job'.stage = "saving"
      BY <2>6 DEF SaveMesh, Job
    <3> QED
      BY <1>2, <2>6, <3>1 DEF SaveMesh
  <2>7. ASSUME NEW f \in Files, SaveMeshDies(f) PROVE ShapesOK'
    BY <1>1, <1>2, <2>7 DEF SaveMeshDies
  <2>8. CASE SaveMeshUnopened
    BY <1>2, <2>8 DEF SaveMeshUnopened
  <2>9. CASE MeshSaved
    BY <1>1, <1>2, <2>9 DEF MeshSaved
  <2> QED
    BY <1>3, <2>1, <2>2, <2>3, <2>4, <2>5, <2>6, <2>7, <2>8, <2>9 DEF MeshCalls
<1>4. CASE GroupCalls
  <2>1. ASSUME NEW n \in ClientNames, NEW scalar \in BOOLEAN, NEW f \in Files,
               AddDatasetGroup(n, scalar, f)
        PROVE  ShapesOK'
    <3> DEFINE g == ClientGroup(n, scalar, f)
    <3>1. g \in Group /\ ClientShaped(g) /\ ~g.lazy
      <4>1. n \in Names
        BY SelafinAssumption
      <4> QED
        BY <4>1, ClientGroupTyped
    <3>2. groups' = Append(groups, g) /\ job' = job /\ promised' = promised
      BY <2>1 DEF AddDatasetGroup
    <3> HIDE DEF g
    <3>3. \A k \in DOMAIN groups' :
             groups'[k] = g \/ (k \in DOMAIN groups /\ groups'[k] = groups[k])
      BY <1>1, <3>1, <3>2, AppendedPlaces
    <3> QED
      BY <3>1, <3>2, <3>3 DEF SelafinInv, ShapesOK
  <2>2. ASSUME NEW i \in DOMAIN groups, AddDataset(i) PROVE ShapesOK'
    <3>1. groups' = [groups EXCEPT ![i] = [groups[i] EXCEPT !.steps = @ + 1]]
      BY <2>2 DEF AddDataset
    <3>2. job' = job /\ promised' = promised
      BY <2>2 DEF AddDataset
    <3>3. ASSUME NEW g \in Group
          PROVE  LET h == [g EXCEPT !.steps = @ + 1] IN
                 (ClientShaped(h) <=> ClientShaped(g)) /\ h.edit = g.edit /\ h.lazy = g.lazy
      BY DEF ClientShaped, Group
    <3>4. /\ groups[i] \in Group
          /\ groups[i].edit => ClientShaped(groups[i]) /\ ~groups[i].lazy
      BY <1>1 DEF SelafinInv, ShapesOK
    <3>5. ASSUME NEW k \in DOMAIN groups'
          PROVE  groups'[k].edit => ClientShaped(groups'[k]) /\ ~groups'[k].lazy
      <4>1. CASE k = i
        <5>1. groups'[k] = [groups[i] EXCEPT !.steps = @ + 1]
          BY <3>1, <4>1
        <5> QED
          BY <3>3, <3>4, <5>1
      <4>2. CASE k # i
        <5>1. k \in DOMAIN groups /\ groups'[k] = groups[k]
          BY <3>1, <4>2
        <5> QED
          BY <5>1 DEF SelafinInv, ShapesOK
      <4> QED
        BY <4>1, <4>2
    <3> QED
      BY <3>2, <3>5 DEF SelafinInv, ShapesOK
  <2>3. ASSUME NEW i \in DOMAIN groups, ReadDataset(i) PROVE ShapesOK'
    BY <1>2, <2>3 DEF ReadDataset
  <2>4. ASSUME NEW i \in DOMAIN groups, PersistStarts(i) PROVE ShapesOK'
    <3>1. groups[i].edit /\ groups' = RemoveAt(groups, i)
      BY <2>4 DEF PersistStarts, CloseEditMode
    <3>2. job'.group = groups[i]
      <4>1. \A stage, f, g : Job(stage, f, g).group = g
        BY DEF Job
      <4>2. \E stage : job' = Job(stage, groups[i].file, groups[i])
        BY <2>4 DEF PersistStarts
      <4> QED
        BY <4>1, <4>2
    <3>3. promised' = promised \/ \E f \in Files : promised' = [promised EXCEPT ![f] = {}]
      BY <1>1, <2>4 DEF PersistStarts
    <3>4. \A f \in Files : promised'[f] \subseteq promised[f]
      BY <3>3, SamePromises
    <3>5. PromisesGiven
      BY <3>4 DEF PromisesGiven
    <3>6. GroupsLeft
      BY <3>1 DEF GroupsLeft
    <3>7. JobGroupGiven
      BY <3>1, <3>2 DEF JobGroupGiven
    <3> QED
      BY <3>5, <3>6, <3>7, ShapesFrom
  <2>5. ASSUME NEW i \in DOMAIN groups, PersistUnopened(i) PROVE ShapesOK'
    BY <1>2, <2>5 DEF PersistUnopened, CloseEditMode
  <2>6. CASE AccessDies
    BY <1>1, <1>2, <2>6 DEF AccessDies, ProcessEnds
  <2> QED
    BY <1>4, <2>1, <2>2, <2>3, <2>4, <2>5, <2>6 DEF GroupCalls
<1>5. CASE PersistSteps
  <2>1. "adding" \in Persisting /\ "written" \in Persisting /\ "deleted" \in Persisting
        /\ "creating" \in Persisting
    BY DEF Persisting
  <2>2. CASE MeshFileCreated
    BY <1>2, <2>1, <2>2 DEF MeshFileCreated
  <2>3. CASE MeshFileNotCreated
    BY <1>1, <1>2, <2>3 DEF MeshFileNotCreated, PersistFails
  <2>4. CASE GroupAdded
    BY <1>2, <2>1, <2>4 DEF GroupAdded
  <2>5. CASE GroupRefused
    BY <1>1, <1>2, <2>5 DEF GroupRefused, PersistFails
  <2>6. CASE StepsRefused
    BY <1>1, <1>2, <2>6 DEF StepsRefused, PersistFails
  <2>7. CASE AddDies
    BY <1>1, <1>2, <2>7 DEF AddDies, ProcessEnds
  <2>8. CASE FileDeleted
    BY <1>2, <2>1, <2>8 DEF FileDeleted
  <2>9. CASE DeleteFails
    BY <1>1, <1>2, <2>9 DEF DeleteFails, PersistFails
  <2>10. CASE TempRenamed
    <3>1. groups' = groups /\ job' = Idle /\ job.stage \in Persisting
      BY <2>1, <2>10 DEF TempRenamed, PersistFails
    <3>2. \/ promised' = promised
          \/ promised' = [promised EXCEPT ![job.file] = @ \cup {Promise(job.group)}]
      BY <2>10 DEF TempRenamed
    <3>3. \A f \in Files : \A p \in promised'[f] : p \in promised[f] \/ p = Promise(job.group)
      <4> DEFINE new == Promise(job.group)
      <4>1. promised' = promised \/ promised' = [promised EXCEPT ![job.file] = @ \cup {new}]
        BY <3>2
      <4> HIDE DEF new
      <4>2. \A f \in Files : promised'[f] \subseteq promised[f] \cup {new}
        BY <1>1, <4>1
      <4> QED
        BY <4>2 DEF new
    <3>4. PromisesGiven
      BY <3>1, <3>3 DEF PromisesGiven
    <3>5. GroupsLeft
      BY <3>1 DEF GroupsLeft
    <3>6. JobGroupGiven
      BY <1>1, <3>1 DEF Persisting, JobGroupGiven
    <3> QED
      BY <3>4, <3>5, <3>6, ShapesFrom
  <2>11. CASE RenameFails
    BY <1>1, <1>2, <2>11 DEF RenameFails, PersistFails
  <2> QED
    BY <1>5, <2>2, <2>3, <2>4, <2>5, <2>6, <2>7, <2>8, <2>9, <2>10, <2>11 DEF PersistSteps
<1>6. CASE Killed
  BY <1>1, <1>2, <1>6 DEF Killed, ProcessEnds
<1>7. CASE Restart
  BY <1>2, <1>7 DEF Restart
<1> QED
  BY <1>3, <1>4, <1>5, <1>6, <1>7 DEF SelafinNext

(* The groups of a loaded mesh that read its file are among those it had.  *)
LazyLeft ==
    \A k \in DOMAIN groups' : groups'[k].lazy =>
        \E i \in DOMAIN groups : groups'[k] = groups[i]

LEMMA LazyLeftBy ==
    ASSUME SelafinInv, GroupsLeft
    PROVE  LazyLeft
<1>1. groups \in Seq(Group)
  BY TypeParts DEF SelafinInv
<1> QED
  BY <1>1, RemovedTyped DEF GroupsLeft, LazyLeft

(* A step of a call that leaves the files alone, or writes one that holds  *)
(* no data of the mesh and none that were promised.                        *)
PromisesLeft ==
    \A f \in Files : promised'[f] \subseteq promised[f]
                     /\ \A p \in promised'[f] : Kept(f)' = Kept(f)

MeshFileLeft ==
    mesh.kind = "lazy" =>
        disk'[mesh.file] = disk[mesh.file] \/ disk'[mesh.file].frame # "whole"

LEMMA LazyFrom ==
    ASSUME SelafinInv, mesh' = mesh, LazyLeft, MeshFileLeft, job'.stage \notin Replacing
    PROVE  LazyServed'
<1> SUFFICES ASSUME mesh.kind = "lazy", NEW k \in DOMAIN groups',
                    groups'[k].lazy, groups'[k].steps > 0,
                    Intact(disk'[mesh.file])
             PROVE  Serves(disk'[mesh.file], groups'[k])
  BY DEF LazyServed
<1>1. disk'[mesh.file] = disk[mesh.file]
  BY DEF MeshFileLeft, Intact
<1>2. PICK i \in DOMAIN groups : groups'[k] = groups[i]
  BY DEF LazyLeft
<1> QED
  BY <1>1, <1>2 DEF SelafinInv, FilesOK, LazyServed

LEMMA PromisesFrom ==
    ASSUME SelafinInv, PromisesLeft, job'.stage \notin Replacing
    PROVE  PromisesKept'
BY DEF SelafinInv, FilesOK, PromisesKept, PromisesLeft, Keeps, Undisturbed, SizesAgree, Has

LEMMA QuietSound ==
    ASSUME SelafinInv, mesh' = mesh, LazyLeft, MeshFileLeft, PromisesLeft, ReaderCurrent',
           job'.stage \in {"idle", "adding"}
    PROVE  FilesOK'
<1>1. job'.stage \notin Replacing
  BY DEF Replacing
<1>2. LazyServed' /\ PromisesKept'
  BY <1>1, LazyFrom, PromisesFrom
<1>3. ReaderClosed' /\ JobFile' /\ TempWritten'
  BY <1>1 DEF ReaderClosed, JobFile, TempWritten, Replacing
<1> QED
  BY <1>2, <1>3 DEF FilesOK

(* Nothing in the files changes.                                           *)
LEMMA FilesSame ==
    ASSUME disk' = disk, temp' = temp, promised' = promised
    PROVE  PromisesLeft /\ MeshFileLeft
BY DEF PromisesLeft, MeshFileLeft, Kept

(* A call that makes a file from nothing, or over what another left there. *)
LEMMA StartedSound ==
    ASSUME SelafinInv, mesh' = mesh, groups' = groups \/ GroupsLeft, ReaderCurrent',
           NEW f \in Files,
           disk' = Put(disk, f, Stub("cut", 0, FALSE)), temp' = Put(temp, f, NoFile),
           promised' = [promised EXCEPT ![f] = {}],
           job'.stage \in {"saving", "creating"}, job'.file = f,
           job'.stage = "saving" /\ mesh.kind = "lazy" => mesh.file # f
    PROVE  FilesOK'
<1> DEFINE cut == Stub("cut", 0, FALSE)
<1>1. cut \in Content /\ cut.frame = "cut" /\ NoFile \in Content
  BY CutTyped, FilesTyped
<1> HIDE DEF cut
<1>2. /\ disk \in [Files -> Content] /\ temp \in [Files -> Content]
      /\ promised \in [Files -> SUBSET PromiseType] /\ mesh \in MeshType
  BY TypeParts DEF SelafinInv
<1>3. disk'[f] = cut /\ \A g \in Files : g # f => disk'[g] = disk[g] /\ temp'[g] = temp[g]
  <2>1. disk' = Put(disk, f, cut) /\ temp' = Put(temp, f, NoFile)
    BY DEF cut
  <2>2. disk'[f] = cut /\ \A g \in Files : g # f => disk'[g] = disk[g]
    BY <1>1, <1>2, <2>1 DEF Put
  <2>3. \A g \in Files : g # f => temp'[g] = temp[g]
    BY <1>1, <1>2, <2>1 DEF Put
  <2> QED
    BY <2>2, <2>3
<1>4. promised'[f] = {} /\ \A g \in Files : g # f => promised'[g] = promised[g]
  BY <1>2
<1>5. PromisesLeft
  BY <1>3, <1>4 DEF PromisesLeft, Kept
<1>6. MeshFileLeft
  <2>1. mesh.file \in Files
    BY <1>2 DEF MeshType
  <2> QED
    BY <1>1, <1>3, <2>1 DEF MeshFileLeft
<1>7. LazyLeft
  BY LazyLeftBy DEF GroupsLeft
<1>8. job'.stage \notin Replacing
  BY DEF Replacing
<1>9. LazyServed' /\ PromisesKept'
  BY <1>5, <1>6, <1>7, <1>8, LazyFrom, PromisesFrom
<1>10. ReaderClosed' /\ TempWritten'
  BY <1>8 DEF ReaderClosed, TempWritten, Replacing
<1>11. JobFile'
  BY <1>1, <1>3, <1>4 DEF JobFile
<1> QED
  BY <1>9, <1>10, <1>11 DEF FilesOK

(* It is written, or left as it is when the process dies.                  *)
LEMMA JobFileWritten ==
    ASSUME SelafinInv, job.stage \in {"saving", "creating"}, NEW c \in Content,
           disk' = Put(disk, job.file, c), temp' = temp, promised' = promised
    PROVE  PromisesLeft
<1>1. /\ disk \in [Files -> Content] /\ job.file \in Files /\ promised[job.file] = {}
  BY TypeParts DEF SelafinInv, FilesOK, JobFile, JobType
<1>2. \A g \in Files : g # job.file => disk'[g] = disk[g]
  BY <1>1, PutTyped
<1> QED
  BY <1>1, <1>2 DEF PromisesLeft, Kept

LEMMA WroteSound ==
    ASSUME SelafinInv, mesh' = mesh, groups' = groups,
           job.stage \in {"saving", "creating"}, NEW c \in Content,
           disk' = Put(disk, job.file, c), temp' = temp, promised' = promised,
           mesh.kind = "lazy" => mesh.file # job.file,
           Access \/ source' = source,
           job'.stage \in {"idle", "adding"}
    PROVE  FilesOK'
<1>1. /\ disk \in [Files -> Content] /\ job.file \in Files /\ mesh.file \in Files
  BY TypeParts DEF SelafinInv, JobType, MeshType
<1>2. mesh.kind = "lazy" => disk'[mesh.file] = disk[mesh.file]
  BY <1>1, PutTyped
<1>3. ReaderCurrent'
  BY <1>2, AccessCurrent, SameReader
<1>4. PromisesLeft /\ MeshFileLeft
  BY <1>2, JobFileWritten DEF MeshFileLeft
<1>5. LazyLeft
  BY LazyLeftBy DEF GroupsLeft
<1> QED
  BY <1>3, <1>4, <1>5, QuietSound

(* A mesh that was loaded: every group reads what its file holds.          *)
LEMMA LoadedServed ==
    ASSUME NEW c \in Content, Readable(c), NEW f \in Files,
           NEW k \in DOMAIN LoadedGroups(Parsed(c), f),
           LoadedGroups(Parsed(c), f)[k].steps > 0
    PROVE  Serves(c, LoadedGroups(Parsed(c), f)[k])
<1> DEFINE view == Parsed(c)
           g == LoadedGroups(view, f)[k]
<1>1. /\ view \in Content /\ view.variables = c.variables /\ view.steps = StepsFound(c)
      /\ c.variables \in Seq(Variable) /\ Len(c.variables) \in Nat
      /\ DOMAIN c.variables = 1..Len(c.variables)
  BY ParsedTyped, ContentFields
<1>2. PICK i \in DOMAIN c.variables : g = GroupAt(view, f, i)
  <2>1. k \in DOMAIN LoadedGroups(view, f)
    OBVIOUS
  <2> HIDE DEF view
  <2> QED
    BY <1>1, <2>1, LoadedAll
<1> DEFINE n == NameRead(c.variables[i])
           scalar == PartRead(c.variables[i]) = "s"
<1>3. n \in Names /\ Len(c.variables) > 0
  BY <1>1, ReadTyped
<1>4. g = LoadedGroup(view, f, n, scalar)
  BY <1>1, <1>2 DEF GroupAt
<1>5. g.steps > 0
  OBVIOUS
<1>6. scalar \in BOOLEAN
  OBVIOUS
<1> HIDE DEF view, g, n, scalar
<1>7. /\ g.steps = view.steps /\ g.scalar = scalar
      /\ g.x \in DOMAIN c.variables /\ g.y \in DOMAIN c.variables
      /\ g.holds = ValuesAt(c.variables, scalar, g.x, g.y)
  BY <1>1, <1>3, <1>4, <1>6, LoadedGroupTyped
<1>8. SizesAgree(c) /\ c.frame = "whole"
  BY <1>1, <1>5, <1>7 DEF Readable
<1> QED
  BY <1>1, <1>7, <1>8 DEF Serves, g, view

LEMMA LoadSound ==
    ASSUME SelafinInv, NEW f \in Files, LoadMesh(f)
    PROVE  FilesOK'
<1>1. /\ disk \in [Files -> Content] /\ disk[f] \in Content /\ mesh \in MeshType
      /\ NoMesh \in MeshType /\ job.stage = "idle"
  BY TypeParts, NothingTyped DEF SelafinInv, LoadMesh, Ready
<1>2. mesh'.file = f /\ disk' = disk /\ temp' = temp /\ promised' = promised /\ job' = job
  BY <1>1 DEF LoadMesh, LazyMesh, MeshType
<1>3. ReaderCurrent'
  BY <1>2 DEF LoadMesh, Reading, ReaderCurrent
<1>4. job'.stage \notin Replacing
  BY <1>1, <1>2 DEF Replacing
<1>5. ReaderClosed' /\ JobFile' /\ TempWritten'
  BY <1>1, <1>2, <1>4 DEF ReaderClosed, JobFile, TempWritten, Replacing
<1>6. PromisesKept'
  BY <1>2, <1>4, FilesSame, PromisesFrom
<1>7. LazyServed'
  <2>1. ASSUME NEW k \in DOMAIN groups', groups'[k].steps > 0
        PROVE  Serves(disk[f], groups'[k])
    <3>1. groups' = LoadedGroups(Parsed(disk[f]), f) /\ Readable(disk[f])
      BY DEF LoadMesh
    <3> QED
      BY <1>1, <2>1, <3>1, LoadedServed
  <2> QED
    BY <1>2, <1>4, <2>1 DEF LazyServed
<1> QED
  BY <1>3, <1>5, <1>6, <1>7 DEF FilesOK

-----------------------------------------------------------------------------
(* What a group is added to.                                               *)
LEMMA ExtendedSizes ==
    ASSUME NEW c \in Content, NEW g \in Group, NEW v \in Nat,
           SizesAgree(Extended(Parsed(c), g, v))
    PROVE  SizesAgree(c)
<1>1. /\ Parsed(c) \in Content /\ Parsed(c).variables = c.variables
      /\ Parsed(c).vertices = c.vertices
  BY ParsedTyped
<1> DEFINE b == Parsed(c)
           t == Extended(b, g, v)
<1> HIDE DEF b
<1>2. /\ DOMAIN b.variables \subseteq DOMAIN t.variables
      /\ \A j \in DOMAIN b.variables : t.variables[j] = b.variables[j]
      /\ t.vertices = b.vertices
  BY <1>1, ExtendedPlaces, ExtendedFields DEF b
<1> QED
  BY <1>1, <1>2 DEF SizesAgree, b

LEMMA ExtendedServes ==
    ASSUME NEW c \in Content, NEW g \in Group, NEW v \in Nat, NEW r \in Group,
           Serves(c, r), r.steps > 0, StepsFit(c, g), v = c.vertices
    PROVE  Serves(Extended(Parsed(c), g, v), r)
<1> DEFINE b == Parsed(c)
           t == Extended(b, g, v)
<1>1. /\ b \in Content /\ b.variables = c.variables /\ b.vertices = c.vertices
      /\ b.frame = c.frame /\ b.steps = StepsFound(c)
  BY ParsedTyped
<1>2. c.variables # <<>>
  BY DEF Serves
<1>3. g.steps = r.steps /\ r.steps = StepsFound(c) /\ g.steps # 0
  BY <1>2 DEF StepsFit, Serves, Group
<1> HIDE DEF b
<1>4. /\ t \in Content /\ t.steps = g.steps /\ t.vertices = c.vertices /\ t.frame = c.frame
  BY <1>1, ExtendedFields
<1>5. /\ DOMAIN c.variables \subseteq DOMAIN t.variables
      /\ \A j \in DOMAIN c.variables : t.variables[j] = c.variables[j]
      /\ \A j \in DOMAIN t.variables :
            j \in DOMAIN c.variables \/ t.variables[j].size = v
  BY <1>1, <1>3, ExtendedPlaces
<1> HIDE DEF t
<1>6. SizesAgree(t) /\ t.frame = "whole"
  BY <1>4, <1>5 DEF SizesAgree, Serves
<1>7. StepsFound(t) = r.steps
  BY <1>3, <1>4, <1>6, StepsFoundExact
<1>8. /\ r.x \in DOMAIN t.variables /\ r.y \in DOMAIN t.variables
      /\ ValuesAt(t.variables, r.scalar, r.x, r.y) = r.holds
  BY <1>5 DEF Serves, ValuesAt
<1> QED
  BY <1>6, <1>7, <1>8 DEF Serves, t, b

LEMMA ExtendedKeeps ==
    ASSUME NEW c \in Content, NEW g \in Group, NEW v \in Nat, NEW p,
           Readable(c), StepsFit(c, g), DOMAIN p.holds # {},
           Keeps(c, p)
    PROVE  Keeps(Extended(Parsed(c), g, v), p)
<1> DEFINE b == Parsed(c)
           t == Extended(b, g, v)
<1> SUFFICES ASSUME Undisturbed(t) PROVE t.frame = "whole" /\ Has(t, p)
  BY DEF Keeps
<1>1. /\ b \in Content /\ b.variables = c.variables /\ b.vertices = c.vertices
      /\ b.frame = c.frame /\ b.lost = c.lost /\ b.steps = StepsFound(c)
  BY ParsedTyped
<1>2. SizesAgree(c)
  BY ExtendedSizes DEF Undisturbed
<1> HIDE DEF b
<1>3. /\ t \in Content /\ t.steps = g.steps /\ t.frame = c.frame /\ t.lost = c.lost
  BY <1>1, ExtendedFields
<1>4. /\ DOMAIN c.variables \subseteq DOMAIN t.variables
      /\ \A j \in DOMAIN c.variables : t.variables[j] = c.variables[j]
  BY <1>1, ExtendedPlaces
<1>5. Undisturbed(t)
  OBVIOUS
<1> HIDE DEF t
<1>6. c.frame = "whole" /\ Has(c, p)
  BY <1>2, <1>3, <1>5 DEF Undisturbed, Keeps
<1>7. StepsFound(c) = c.steps
  BY <1>2, <1>6, StepsFoundExact
<1>8. c.variables # <<>>
  BY <1>6 DEF Has
<1>9. t.steps = p.steps
  BY <1>3, <1>6, <1>7, <1>8 DEF StepsFit, Has
<1> QED
  BY <1>3, <1>4, <1>6, <1>9 DEF Has

LEMMA ExtendedHas ==
    ASSUME NEW c \in Content, NEW g \in Group, NEW v \in Nat
    PROVE  Has(Extended(Parsed(c), g, v), g)
<1>1. Parsed(c) \in Content
  BY ParsedTyped
<1>2. Extended(Parsed(c), g, v).steps = g.steps
  BY <1>1, ExtendedFields
<1>3. \A k \in DOMAIN g.holds :
         \E j \in DOMAIN Extended(Parsed(c), g, v).variables :
            Value(Extended(Parsed(c), g, v).variables[j]) = g.holds[k]
  BY <1>1, ExtendedPlaces
<1> QED
  BY <1>2, <1>3 DEF Has

LEMMA ShapedHolds ==
    ASSUME NEW p, ClientShaped(p)
    PROVE  DOMAIN p.holds # {}
BY DEF ClientShaped

(* file.tmp is written.                                                    *)
LEMMA AddedSound ==
    ASSUME SelafinInv, GroupAdded
    PROVE  FilesOK'
<1> DEFINE f == job.file
           g == job.group
           c == disk[f]
           v == MeshVertices
           t == Extended(Parsed(c), g, v)
<1>1. /\ disk \in [Files -> Content] /\ temp \in [Files -> Content]
      /\ f \in Files /\ g \in Group /\ c \in Content /\ v \in Nat
      /\ mesh \in MeshType /\ groups \in Seq(Group) /\ job \in JobType
      /\ job.stage = "adding"
  BY TypeParts, ViewTyped DEF SelafinInv, JobType, GroupAdded
<1>2. Readable(c) /\ StepsFit(c, g) /\ SizesKnown(g)
  BY DEF GroupAdded
<1>3. PICK w \in WrittenOf(t) : temp' = Put(temp, f, w)
  BY DEF GroupAdded
<1>4. /\ mesh' = mesh /\ groups' = groups /\ disk' = disk /\ promised' = promised
      /\ source' = NoSource /\ ~source'.parsed
  BY NothingTyped DEF GroupAdded
<1>5. job'.stage = "written" /\ job'.file = f /\ job'.group = g
  BY <1>1, StageTyped DEF GroupAdded, Stages
<1>6. w \in Content /\ (w = t \/ w.lost)
  <2>1. Parsed(c) \in Content
    BY <1>1, ParsedTyped
  <2>2. t \in Content
    BY <1>1, <2>1, ExtendedFields
  <2> QED
    BY <1>3, <2>2, WrittenTyped
<1>7. temp'[f] = w /\ \A h \in Files : h # f => temp'[h] = temp[h]
  BY <1>1, <1>3, <1>6, PutTyped
<1> HIDE DEF t, v, c, g, f
<1>8. ReaderCurrent' /\ ReaderClosed' /\ JobFile'
  BY <1>4, <1>5 DEF ReaderCurrent, ReaderClosed, JobFile
<1>9. LazyServed'
  <2>1. ASSUME mesh.kind = "lazy", NEW i \in DOMAIN groups,
               groups[i].lazy, groups[i].steps > 0
        PROVE  /\ Intact(disk[mesh.file]) => Serves(disk[mesh.file], groups[i])
               /\ f = mesh.file /\ Intact(w) => Serves(w, groups[i])
    <3>1. Intact(disk[mesh.file]) => Serves(disk[mesh.file], groups[i])
      BY <2>1 DEF SelafinInv, FilesOK, LazyServed
    <3>2. ASSUME f = mesh.file, Intact(w) PROVE Serves(w, groups[i])
      <4>1. w = t
        BY <1>6, <3>2 DEF Intact
      <4>2. Intact(c)
        <5>1. /\ Parsed(c) \in Content /\ Parsed(c).frame = c.frame
              /\ Parsed(c).lost = c.lost
          BY <1>1, ParsedTyped
        <5>2. t.frame = Parsed(c).frame /\ t.lost = Parsed(c).lost
          BY <1>1, <5>1, ExtendedFields DEF t
        <5> QED
          BY <3>2, <4>1, <5>1, <5>2 DEF Intact
      <4>3. Serves(c, groups[i])
        BY <3>1, <3>2, <4>2 DEF c
      <4>4. groups[i] \in Group
        BY <1>1
      <4>5. v = c.vertices
        <5>1. c.variables # <<>>
          BY <4>3 DEF Serves
        <5>2. g.steps = groups[i].steps
          BY <1>2, <4>3, <5>1 DEF StepsFit, Serves
        <5>3. SourceOK
          BY <1>2, <2>1, <5>2 DEF SizesKnown
        <5>4. View = Parsed(disk[mesh.file])
          BY <2>1, <5>3, ViewCurrent
        <5> QED
          BY <1>1, <2>1, <3>2, <5>4, ParsedTyped DEF v, c, MeshVertices
      <4> QED
        BY <1>1, <1>2, <2>1, <4>1, <4>3, <4>4, <4>5, ExtendedServes DEF t
    <3> QED
      BY <3>1, <3>2
  <2> QED
    BY <1>4, <1>5, <1>7, <2>1 DEF LazyServed
<1>10. PromisesKept'
  <2>1. c # NoFile
    BY <1>2, FilesTyped DEF Readable
  <2>2. ASSUME NEW h \in Files, NEW p \in promised[h]
        PROVE  Keeps(Kept(h)', p) /\ (f = h => Keeps(temp'[h], p))
    <3>1. Keeps(Kept(h), p)
      BY <2>2 DEF SelafinInv, FilesOK, PromisesKept
    <3>2. Kept(h)' = Kept(h)
      BY <1>4, <1>7, <2>1 DEF Kept, c
    <3>3. ASSUME f = h PROVE Keeps(w, p)
      <4>1. Kept(h) = c
        BY <2>1, <3>3 DEF Kept, c
      <4>2. DOMAIN p.holds # {}
        BY <2>2, ShapedHolds DEF SelafinInv, ShapesOK
      <4>3. Keeps(t, p)
        BY <1>1, <1>2, <3>1, <4>1, <4>2, ExtendedKeeps DEF t
      <4> QED
        BY <1>6, <4>3 DEF Keeps, Undisturbed
    <3> QED
      BY <1>7, <3>1, <3>2, <3>3
  <2> QED
    BY <1>4, <1>5, <2>2 DEF PromisesKept
<1>11. TempWritten'
  <2>1. ~w.lost => Has(w, g)
    BY <1>1, <1>6, ExtendedHas DEF t
  <2>2. ~w.lost => \E u \in Nat : w = Extended(Parsed(c), g, u)
    BY <1>1, <1>6 DEF t
  <2>3. temp'[job'.file] = w /\ disk'[job'.file] = c /\ job'.group = g
    BY <1>4, <1>5, <1>7 DEF c
  <2> QED
    BY <1>2, <1>5, <2>1, <2>2, <2>3 DEF TempWritten
<1> QED
  BY <1>8, <1>9, <1>10, <1>11 DEF FilesOK

-----------------------------------------------------------------------------
(* It takes the place of the file.                                         *)
LEMMA DeletedSound ==
    ASSUME SelafinInv, FileDeleted
    PROVE  FilesOK'
<1> DEFINE f == job.file
<1>1. /\ disk \in [Files -> Content] /\ f \in Files /\ job \in JobType
      /\ job.stage = "written" /\ NoFile \in Content /\ NoFile.frame = "none"
      /\ mesh \in MeshType /\ mesh.file \in Files
  BY TypeParts, FilesTyped DEF SelafinInv, JobType, FileDeleted, MeshType
<1>2. /\ mesh' = mesh /\ groups' = groups /\ temp' = temp /\ promised' = promised
      /\ source' = source /\ disk' = Put(disk, f, NoFile)
  BY DEF FileDeleted
<1>3. disk'[f] = NoFile /\ \A h \in Files : h # f => disk'[h] = disk[h]
  BY <1>1, <1>2, PutTyped
<1>4. job'.stage = "deleted" /\ job'.file = f /\ job'.group = job.group
  BY <1>1, StageTyped DEF FileDeleted, Stages
<1>5. "written" \in Replacing /\ "deleted" \in Replacing
  BY DEF Replacing
<1>6. ~source.parsed
  BY <1>1, <1>5 DEF SelafinInv, FilesOK, ReaderClosed
<1> HIDE DEF f
<1>7. ReaderCurrent' /\ ReaderClosed' /\ JobFile'
  BY <1>2, <1>4, <1>6 DEF ReaderCurrent, ReaderClosed, JobFile
<1>8. LazyServed'
  <2>1. ASSUME mesh.kind = "lazy", NEW i \in DOMAIN groups,
               groups[i].lazy, groups[i].steps > 0
        PROVE  /\ Intact(disk'[mesh.file]) => Serves(disk'[mesh.file], groups[i])
               /\ f = mesh.file /\ Intact(temp[mesh.file]) => Serves(temp[mesh.file], groups[i])
    <3>1. /\ Intact(disk[mesh.file]) => Serves(disk[mesh.file], groups[i])
          /\ f = mesh.file /\ Intact(temp[mesh.file]) => Serves(temp[mesh.file], groups[i])
      BY <1>1, <1>5, <2>1 DEF SelafinInv, FilesOK, LazyServed, f
    <3>2. disk'[mesh.file] = disk[mesh.file] \/ ~Intact(disk'[mesh.file])
      BY <1>1, <1>3 DEF Intact
    <3> QED
      BY <3>1, <3>2
  <2> QED
    BY <1>2, <1>4, <2>1 DEF LazyServed
<1>9. PromisesKept'
  <2>1. ASSUME NEW h \in Files, NEW p \in promised[h]
        PROVE  Keeps(Kept(h)', p) /\ (f = h => Keeps(temp[h], p))
    <3>1. Keeps(Kept(h), p) /\ (f = h => Keeps(temp[h], p))
      BY <1>1, <1>5, <2>1 DEF SelafinInv, FilesOK, PromisesKept, f
    <3>2. Kept(h)' = IF h = f THEN temp[h] ELSE Kept(h)
      BY <1>2, <1>3 DEF Kept
    <3> QED
      BY <3>1, <3>2
  <2> QED
    BY <1>2, <1>4, <2>1 DEF PromisesKept
<1>10. TempWritten'
  <2>1. ~temp[f].lost => Has(temp[f], job.group)
    BY <1>1, <1>5 DEF SelafinInv, FilesOK, TempWritten, f
  <2> QED
    BY <1>2, <1>4, <2>1 DEF TempWritten
<1> QED
  BY <1>7, <1>8, <1>9, <1>10 DEF FilesOK

LEMMA RenamedSound ==
    ASSUME SelafinInv, TempRenamed
    PROVE  FilesOK'
<1> DEFINE f == job.file
           g == job.group
           t == temp[f]
<1>1. /\ disk \in [Files -> Content] /\ temp \in [Files -> Content]
      /\ f \in Files /\ t \in Content /\ NoFile \in Content
      /\ job.stage = "deleted" /\ promised \in [Files -> SUBSET PromiseType]
      /\ mesh \in MeshType /\ mesh.file \in Files
  BY TypeParts, FilesTyped DEF SelafinInv, JobType, TempRenamed, MeshType
<1>2. /\ mesh' = mesh /\ groups' = groups /\ source' = source /\ job' = Idle
      /\ disk' = Put(disk, f, t) /\ temp' = Put(temp, f, NoFile)
  BY DEF TempRenamed, PersistFails
<1>3. disk'[f] = t /\ \A h \in Files : h # f => disk'[h] = disk[h]
  BY <1>1, <1>2, PutTyped
<1>4. temp'[f] = NoFile /\ \A h \in Files : h # f => temp'[h] = temp[h]
  BY <1>1, <1>2 DEF Put
<1>5. job'.stage = "idle"
  BY <1>2, NothingTyped
<1>6. "deleted" \in Replacing /\ "idle" \notin Replacing
  BY DEF Replacing
<1>7. ~source.parsed
  BY <1>1, <1>6 DEF SelafinInv, FilesOK, ReaderClosed
<1>8. \A h \in Files : \A p \in promised'[h] :
         p \in promised[h] \/ (h = f /\ p = Promise(g) /\ Readable(t))
  <2> DEFINE new == Promise(g)
  <2>1. \/ promised' = promised
        \/ Readable(t) /\ promised' = [promised EXCEPT ![f] = @ \cup {new}]
    BY DEF TempRenamed
  <2> HIDE DEF new, t
  <2>2. \A h \in Files : \A p \in promised'[h] :
           p \in promised[h] \/ (h = f /\ p = new /\ Readable(t))
    BY <1>1, <2>1
  <2> QED
    BY <2>2 DEF new
<1> HIDE DEF t, g, f
<1>9. /\ ReaderCurrent' /\ ReaderClosed' /\ JobFile' /\ TempWritten'
  BY <1>2, <1>5, <1>6, <1>7 DEF ReaderCurrent, ReaderClosed, JobFile, TempWritten
<1>10. LazyServed'
  <2>1. ASSUME mesh.kind = "lazy", NEW i \in DOMAIN groups,
               groups[i].lazy, groups[i].steps > 0, Intact(disk'[mesh.file])
        PROVE  Serves(disk'[mesh.file], groups[i])
    <3>1. /\ Intact(disk[mesh.file]) => Serves(disk[mesh.file], groups[i])
          /\ f = mesh.file /\ Intact(temp[mesh.file]) => Serves(temp[mesh.file], groups[i])
      BY <1>1, <1>6, <2>1 DEF SelafinInv, FilesOK, LazyServed, f
    <3>2. disk'[mesh.file] = IF mesh.file = f THEN temp[mesh.file] ELSE disk[mesh.file]
      BY <1>1, <1>3 DEF t
    <3> QED
      BY <2>1, <3>1, <3>2
  <2> QED
    BY <1>2, <1>5, <1>6, <2>1 DEF LazyServed
<1>11. PromisesKept'
  <2>1. ASSUME NEW h \in Files, NEW p \in promised'[h]
        PROVE  Keeps(Kept(h)', p)
    <3>1. CASE h # f
      <4>1. p \in promised[h]
        BY <1>8, <2>1, <3>1
      <4>2. Keeps(Kept(h), p)
        BY <4>1 DEF SelafinInv, FilesOK, PromisesKept
      <4>3. Kept(h)' = Kept(h)
        BY <1>3, <1>4, <3>1 DEF Kept
      <4> QED
        BY <4>2, <4>3
    <3>2. CASE h = f
      <4>1. Kept(h)' = t
        BY <1>3, <1>4, <3>2 DEF Kept
      <4>2. CASE p \in promised[h]
        <5>1. Keeps(temp[f], p)
          BY <1>1, <1>6, <3>2, <4>2 DEF SelafinInv, FilesOK, PromisesKept, f
        <5> QED
          BY <4>1, <5>1 DEF t
      <4>3. CASE p = Promise(g) /\ Readable(t)
        <5>1. ~t.lost => Has(t, g)
          BY <1>1, <1>6 DEF SelafinInv, FilesOK, TempWritten, t, f, g
        <5>2. p.holds = g.holds /\ p.steps = g.steps
          BY <4>3 DEF Promise
        <5>3. Undisturbed(t) => t.frame = "whole" /\ ~t.lost
          BY <4>3 DEF Undisturbed, Readable
        <5>4. Has(t, g) => Has(t, p)
          BY <5>2 DEF Has
        <5> QED
          BY <4>1, <5>1, <5>3, <5>4 DEF Keeps
      <4> QED
        BY <1>8, <2>1, <4>2, <4>3
    <3> QED
      BY <3>1, <3>2
  <2> QED
    BY <1>5, <1>6, <2>1 DEF PromisesKept
<1> QED
  BY <1>9, <1>10, <1>11 DEF FilesOK

LEMMA MeshCallFiles ==
    ASSUME SelafinInv, MeshCalls
    PROVE  FilesOK'
<1>1. /\ groups \in Seq(Group) /\ disk \in [Files -> Content] /\ temp \in [Files -> Content]
      /\ promised \in [Files -> SUBSET PromiseType] /\ mesh \in MeshType /\ job \in JobType
      /\ (~alive \/ mesh.kind = "none") => Empty
  BY TypeParts DEF SelafinInv
<1>2. /\ NoMesh.kind = "none" /\ Idle.stage = "idle" /\ Idle \in JobType
  BY NothingTyped
<1>3. ASSUME groups' = groups, mesh' = mesh, disk' = disk, temp' = temp,
             promised' = promised, job'.stage = "idle", ReaderCurrent'
      PROVE  FilesOK'
  <2>1. LazyLeft
    BY <1>3, LazyLeftBy DEF GroupsLeft
  <2> QED
    BY <1>3, <2>1, FilesSame, QuietSound
<1>4. ASSUME NEW v \in VertexChoices, CreateMesh(v) PROVE FilesOK'
  <2>1. mesh'.kind = "memory"
    <3>1. NoMesh \in MeshType
      BY NothingTyped
    <3> QED
      BY <1>4, <3>1 DEF CreateMesh, MemoryMesh, MeshType
  <2>2. job'.stage = "idle" /\ promised' = promised /\ disk' = disk /\ temp' = temp
    BY <1>4 DEF CreateMesh, Ready
  <2> QED
    BY <2>1, <2>2, EndedSound DEF Kept
<1>5. CASE CloseMesh
  BY <1>2, <1>5, EndedSound DEF CloseMesh, Ready, Kept
<1>6. ASSUME NEW f \in Files, LoadMesh(f) PROVE FilesOK'
  BY <1>6, LoadSound
<1>7. ASSUME NEW f \in Files, LoadMeshFails(f) PROVE FilesOK'
  <2>1. ReaderCurrent'
    BY <1>7, SameReader DEF LoadMeshFails
  <2> QED
    BY <1>3, <1>7, <2>1 DEF LoadMeshFails, Ready
<1>8. ASSUME NEW f \in Files, LoadMeshDies(f) PROVE FilesOK'
  BY <1>2, <1>8, EndedSound DEF LoadMeshDies, ProcessEnds, Kept
<1>9. ASSUME NEW f \in Files, SaveMesh(f) PROVE FilesOK'
  <2>1. mesh' = mesh /\ groups' = groups /\ (mesh.kind = "lazy" => mesh.file # f)
    BY <1>9 DEF SaveMesh
  <2>2. /\ disk' = Put(disk, f, Stub("cut", 0, FALSE)) /\ temp' = Put(temp, f, NoFile)
        /\ promised' = [promised EXCEPT ![f] = {}] /\ Access
    BY <1>9 DEF SaveMesh
  <2>3. job'.stage = "saving" /\ job'.file = f
    BY <1>9 DEF SaveMesh, Job
  <2>4. mesh.kind = "lazy" => disk'[mesh.file] = disk[mesh.file]
    <3>1. mesh.file \in Files
      BY <1>1 DEF MeshType
    <3> QED
      BY <1>1, <2>1, <2>2, <3>1 DEF Put
  <2>5. ReaderCurrent'
    BY <2>1, <2>2, <2>4, AccessCurrent
  <2> QED
    BY <2>1, <2>2, <2>3, <2>5, StartedSound
<1>10. ASSUME NEW f \in Files, SaveMeshDies(f) PROVE FilesOK'
  <2>1. mesh'.kind # "lazy" /\ job'.stage = "idle"
    BY <1>2, <1>10 DEF SaveMeshDies
  <2>2. /\ disk' = Put(disk, f, Stub("cut", 0, FALSE)) /\ temp' = Put(temp, f, NoFile)
        /\ promised' = [promised EXCEPT ![f] = {}]
    BY <1>10 DEF SaveMeshDies
  <2>3. /\ promised'[f] = {} /\ \A g \in Files : g # f => promised'[g] = promised[g]
        /\ \A g \in Files : g # f => disk'[g] = disk[g]
        /\ \A g \in Files : g # f => temp'[g] = temp[g]
    <3>1. promised'[f] = {} /\ \A g \in Files : g # f => promised'[g] = promised[g]
      BY <1>1, <2>2
    <3>2. \A g \in Files : g # f => disk'[g] = disk[g]
      BY <1>1, <2>2 DEF Put
    <3>3. \A g \in Files : g # f => temp'[g] = temp[g]
      BY <1>1, <2>2 DEF Put
    <3> QED
      BY <3>1, <3>2, <3>3
  <2>4. \A g \in Files : promised'[g] \subseteq promised[g]
    BY <2>3
  <2>5. \A g \in Files : \A p \in promised'[g] : Kept(g)' = Kept(g)
    BY <2>3 DEF Kept
  <2> QED
    BY <2>1, <2>4, <2>5, EndedSound
<1>11. CASE SaveMeshUnopened
  <2>1. ReaderCurrent'
    BY <1>11, AccessCurrent DEF SaveMeshUnopened
  <2> QED
    BY <1>3, <1>11, <2>1 DEF SaveMeshUnopened, Ready
<1>12. CASE MeshSaved
  <2>1. job.stage = "saving" /\ job'.stage = "idle"
    BY <1>2, <1>12 DEF MeshSaved
  <2>2. PICK c \in WrittenOf(MeshOnly(MeshVertices)) : disk' = Put(disk, job.file, c)
    BY <1>12 DEF MeshSaved
  <2>3. c \in Content
    <3>1. MeshVertices \in Nat
      BY ViewTyped DEF SelafinInv
    <3>2. MeshOnly(MeshVertices) \in Content
      BY <3>1, FilesTyped DEF MeshOnly
    <3> QED
      BY <2>2, <3>2, WrittenTyped
  <2>4. mesh.kind = "lazy" => mesh.file # job.file
    BY <2>1 DEF SelafinInv, FilesOK, JobFile
  <2> QED
    BY <1>12, <2>1, <2>2, <2>3, <2>4, WroteSound DEF MeshSaved
<1> QED
  BY <1>4, <1>5, <1>6, <1>7, <1>8, <1>9, <1>10, <1>11, <1>12 DEF MeshCalls

LEMMA GroupCallFiles ==
    ASSUME SelafinInv, GroupCalls
    PROVE  FilesOK'
<1>1. /\ groups \in Seq(Group) /\ disk \in [Files -> Content] /\ temp \in [Files -> Content]
      /\ promised \in [Files -> SUBSET PromiseType] /\ mesh \in MeshType /\ job \in JobType
      /\ \A i \in DOMAIN groups : groups[i] \in Group /\ groups[i].file \in Files
  <2>1. groups \in Seq(Group) /\ \A i \in DOMAIN groups : groups[i] \in Group
    BY TypeParts DEF SelafinInv
  <2> QED
    BY <2>1, TypeParts DEF SelafinInv, Group
<1>2. /\ NoMesh.kind = "none" /\ Idle.stage = "idle"
  BY NothingTyped
<1>3. ASSUME LazyLeft, mesh' = mesh, disk' = disk, temp' = temp,
             promised' = promised, job'.stage \in {"idle", "adding"},
             Access \/ source' = source
      PROVE  FilesOK'
  <2>1. ReaderCurrent'
    BY <1>3, AccessCurrent, SameReader
  <2> QED
    BY <1>3, <2>1, FilesSame, QuietSound
<1>4. ASSUME NEW n \in ClientNames, NEW scalar \in BOOLEAN, NEW f \in Files,
             AddDatasetGroup(n, scalar, f)
      PROVE  FilesOK'
  <2> DEFINE g == ClientGroup(n, scalar, f)
  <2>1. g \in Group /\ ~g.lazy
    <3>1. n \in Names
      BY SelafinAssumption
    <3> QED
      BY <3>1, ClientGroupTyped
  <2>2. groups' = Append(groups, g)
    BY <1>4 DEF AddDatasetGroup
  <2> HIDE DEF g
  <2>3. \A k \in DOMAIN groups' :
           groups'[k] = g \/ (k \in DOMAIN groups /\ groups'[k] = groups[k])
    BY <1>1, <2>1, <2>2, AppendedPlaces
  <2>4. LazyLeft
    BY <2>1, <2>3 DEF LazyLeft
  <2> QED
    BY <1>3, <1>4, <2>4 DEF AddDatasetGroup, Ready
<1>5. ASSUME NEW i \in DOMAIN groups, AddDataset(i) PROVE FilesOK'
  <2>1. groups' = [groups EXCEPT ![i] = [groups[i] EXCEPT !.steps = @ + 1]]
    BY <1>5 DEF AddDataset
  <2>2. ~groups[i].lazy
    BY <1>5 DEF AddDataset, SelafinInv, ShapesOK
  <2>3. ASSUME NEW g \in Group PROVE [g EXCEPT !.steps = @ + 1].lazy = g.lazy
    BY DEF Group
  <2>4. ASSUME NEW k \in DOMAIN groups', groups'[k].lazy
        PROVE  k \in DOMAIN groups /\ groups'[k] = groups[k]
    <3>1. k \in DOMAIN groups
      BY <1>1, <2>1
    <3>2. CASE k = i
      <4>1. groups'[k] = [groups[i] EXCEPT !.steps = @ + 1]
        BY <1>1, <2>1, <3>2
      <4> QED
        BY <1>1, <2>2, <2>3, <2>4, <4>1
    <3>3. CASE k # i
      BY <1>1, <2>1, <3>1, <3>3
    <3> QED
      BY <3>1, <3>2, <3>3
  <2>5. LazyLeft
    BY <2>4 DEF LazyLeft
  <2> QED
    BY <1>3, <1>5, <2>5 DEF AddDataset, Ready
<1>6. ASSUME NEW i \in DOMAIN groups, ReadDataset(i) PROVE FilesOK'
  <2>1. LazyLeft
    BY <1>6, LazyLeftBy DEF ReadDataset, GroupsLeft
  <2> QED
    BY <1>3, <1>6, <2>1 DEF ReadDataset, Ready
<1>7. ASSUME NEW i \in DOMAIN groups, PersistStarts(i) PROVE FilesOK'
  <2> DEFINE f == groups[i].file
  <2>1. /\ GroupsLeft /\ mesh' = mesh /\ source' = source /\ f \in Files
    BY <1>1, <1>7 DEF PersistStarts, CloseEditMode, GroupsLeft
  <2>2. CASE disk[f] = NoFile
    <3>1. /\ disk' = Put(disk, f, Stub("cut", 0, FALSE)) /\ temp' = Put(temp, f, NoFile)
          /\ promised' = [promised EXCEPT ![f] = {}]
      BY <1>7, <2>2 DEF PersistStarts
    <3>2. job'.stage = "creating" /\ job'.file = f
      BY <1>7, <2>2 DEF PersistStarts, Job
    <3>3. ReaderCurrent'
      <4>1. CASE mesh.kind = "lazy" /\ mesh.file = f
        <5>1. ~source.parsed
          BY <2>2, <4>1, FilesTyped DEF SelafinInv, FilesOK, ReaderCurrent, Readable
        <5> QED
          BY <2>1, <5>1 DEF ReaderCurrent
      <4>2. CASE ~(mesh.kind = "lazy" /\ mesh.file = f)
        <5>1. mesh.file \in Files
          BY <1>1 DEF MeshType
        <5>2. mesh.kind = "lazy" => disk'[mesh.file] = disk[mesh.file]
          BY <1>1, <3>1, <4>2, <5>1 DEF Put
        <5> QED
          BY <2>1, <5>2, SameReader
      <4> QED
        BY <4>1, <4>2
    <3> HIDE DEF f
    <3> QED
      BY <2>1, <3>1, <3>2, <3>3, StartedSound
  <2>3. CASE disk[f] # NoFile
    <3>1. disk' = disk /\ temp' = temp /\ promised' = promised /\ job'.stage = "adding"
      BY <1>7, <2>3 DEF PersistStarts, Job
    <3> QED
      BY <1>3, <2>1, <3>1, LazyLeftBy
  <2> QED
    BY <2>2, <2>3
<1>8. ASSUME NEW i \in DOMAIN groups, PersistUnopened(i) PROVE FilesOK'
  <2>1. LazyLeft
    BY <1>8, LazyLeftBy DEF PersistUnopened, CloseEditMode, GroupsLeft
  <2> QED
    BY <1>3, <1>8, <2>1 DEF PersistUnopened, CloseEditMode, Ready
<1>9. CASE AccessDies
  BY <1>2, <1>9, EndedSound DEF AccessDies, ProcessEnds, Kept
<1> QED
  BY <1>4, <1>5, <1>6, <1>7, <1>8, <1>9 DEF GroupCalls

LEMMA PersistStepFiles ==
    ASSUME SelafinInv, PersistSteps
    PROVE  FilesOK'
<1>1. /\ groups \in Seq(Group) /\ disk \in [Files -> Content] /\ temp \in [Files -> Content]
      /\ promised \in [Files -> SUBSET PromiseType] /\ mesh \in MeshType /\ job \in JobType
      /\ job.file \in Files
  BY TypeParts DEF SelafinInv, JobType
<1>2. /\ NoMesh.kind = "none" /\ Idle.stage = "idle"
  BY NothingTyped
<1>3. ASSUME groups' = groups, mesh' = mesh, source' = source, disk' = disk,
             PromisesLeft, job' = Idle
      PROVE  FilesOK'
  <2>1. LazyLeft
    BY <1>3, LazyLeftBy DEF GroupsLeft
  <2>2. ReaderCurrent' /\ MeshFileLeft
    BY <1>3, SameReader DEF MeshFileLeft
  <2> QED
    BY <1>2, <1>3, <2>1, <2>2, QuietSound
<1>4. job.stage = "written" => disk[job.file] # NoFile
  BY FilesTyped DEF SelafinInv, FilesOK, TempWritten, Readable
<1>5. CASE MeshFileCreated
  <2>1. job.stage = "creating" /\ job'.stage = "adding"
    BY <1>1, <1>5, StageTyped DEF MeshFileCreated, Stages
  <2>2. PICK c \in WrittenOf(MeshOnly(MeshVertices)) : disk' = Put(disk, job.file, c)
    BY <1>5 DEF MeshFileCreated
  <2>3. c \in Content
    <3>1. MeshVertices \in Nat
      BY ViewTyped DEF SelafinInv
    <3>2. MeshOnly(MeshVertices) \in Content
      BY <3>1, FilesTyped DEF MeshOnly
    <3> QED
      BY <2>2, <3>2, WrittenTyped
  <2>4. mesh.kind = "lazy" => mesh.file # job.file
    <3>1. disk[job.file].frame = "cut"
      BY <2>1 DEF SelafinInv, FilesOK, JobFile
    <3>2. mesh.kind = "lazy" => Readable(disk[mesh.file])
      BY <1>5, ViewCurrent DEF MeshFileCreated, Access
    <3> QED
      BY <3>1, <3>2 DEF Readable
  <2> QED
    BY <1>5, <2>1, <2>2, <2>3, <2>4, WroteSound DEF MeshFileCreated
<1>6. CASE MeshFileNotCreated
  BY <1>3, <1>6, FilesSame DEF MeshFileNotCreated, PersistFails
<1>7. CASE GroupAdded
  BY <1>7, AddedSound
<1>8. CASE GroupRefused
  BY <1>3, <1>8, FilesSame DEF GroupRefused, PersistFails
<1>9. CASE StepsRefused
  BY <1>3, <1>9, FilesSame DEF StepsRefused, PersistFails
<1>10. CASE AddDies
  BY <1>2, <1>10, EndedSound DEF AddDies, ProcessEnds, Kept
<1>11. CASE FileDeleted
  BY <1>11, DeletedSound
<1>12. CASE DeleteFails
  <2>1. /\ temp' = Put(temp, job.file, NoFile) /\ disk' = disk /\ promised' = promised
        /\ disk[job.file] # NoFile
    BY <1>4, <1>12 DEF DeleteFails
  <2>2. \A f \in Files : f # job.file => temp'[f] = temp[f]
    BY <1>1, <2>1 DEF Put
  <2>3. PromisesLeft
    BY <2>1, <2>2 DEF PromisesLeft, Kept
  <2> QED
    BY <1>3, <1>12, <2>3 DEF DeleteFails, PersistFails
<1>13. CASE TempRenamed
  BY <1>13, RenamedSound
<1>14. CASE RenameFails
  <2>1. /\ temp' = Put(temp, job.file, NoFile) /\ disk' = disk
        /\ promised' = [promised EXCEPT ![job.file] = {}]
    BY <1>14 DEF RenameFails
  <2>2. \A f \in Files : f # job.file => temp'[f] = temp[f]
    BY <1>1, <2>1 DEF Put
  <2>3. promised'[job.file] = {} /\ \A f \in Files : f # job.file => promised'[f] = promised[f]
    BY <1>1, <2>1
  <2>4. PromisesLeft
    BY <2>1, <2>2, <2>3 DEF PromisesLeft, Kept
  <2> QED
    BY <1>3, <1>14, <2>4 DEF RenameFails, PersistFails
<1> QED
  BY <1>5, <1>6, <1>7, <1>8, <1>9, <1>10, <1>11, <1>12, <1>13, <1>14 DEF PersistSteps

LEMMA KilledFiles ==
    ASSUME SelafinInv, Killed
    PROVE  FilesOK'
<1>1. /\ disk \in [Files -> Content] /\ temp \in [Files -> Content] /\ job.file \in Files
  BY TypeParts DEF SelafinInv, JobType
<1>2. /\ mesh'.kind # "lazy" /\ job'.stage = "idle" /\ promised' = promised
  BY NothingTyped DEF Killed, ProcessEnds
<1>3. PromisesLeft
  <2>1. CASE job.stage \in {"saving", "creating"}
    <3>1. PICK c \in LeftOf(disk[job.file]) : disk' = Put(disk, job.file, c)
      BY <2>1 DEF Killed
    <3>2. c \in Content
      BY <1>1, <3>1, LeftTyped DEF SelafinInv
    <3>3. temp' = temp
      BY <2>1 DEF Killed
    <3> QED
      BY <1>2, <2>1, <3>1, <3>2, <3>3, JobFileWritten
  <2>2. CASE job.stage = "written"
    <3>1. disk' = disk /\ temp' = Put(temp, job.file, NoFile)
      BY <2>2 DEF Killed
    <3>2. disk[job.file] # NoFile
      BY <2>2, FilesTyped DEF SelafinInv, FilesOK, TempWritten, Readable
    <3>3. \A f \in Files : f # job.file => temp'[f] = temp[f]
      BY <1>1, <3>1 DEF Put
    <3> QED
      BY <1>2, <3>1, <3>2, <3>3 DEF PromisesLeft, Kept
  <2>3. CASE job.stage \notin {"saving", "creating", "written"}
    BY <1>2, <2>3 DEF Killed, PromisesLeft, Kept
  <2> QED
    BY <2>1, <2>2, <2>3
<1> QED
  BY <1>2, <1>3, EndedSound DEF PromisesLeft

LEMMA RestartFiles ==
    ASSUME SelafinInv, Restart
    PROVE  FilesOK'
<1>1. job'.stage = "idle"
  BY TypeParts, NothingTyped DEF SelafinInv, Restart, Empty
<1>2. LazyLeft
  BY LazyLeftBy DEF Restart, GroupsLeft
<1>3. ReaderCurrent'
  BY SameReader DEF Restart
<1> QED
  BY <1>1, <1>2, <1>3, FilesSame, QuietSound DEF Restart

LEMMA SameInv ==
    ASSUME SelafinInv, UNCHANGED vars
    PROVE  SelafinInv'
<1>1. SelafinTypeOK'
  BY SameTypes DEF SelafinInv
<1>2. ShapesOK'
  BY DEF SelafinInv, ShapesOK, vars
<1>3. ReaderCurrent' /\ ReaderClosed' /\ JobFile'
  BY DEF SelafinInv, FilesOK, ReaderCurrent, ReaderClosed, JobFile, vars
<1>4. LazyServed' /\ TempWritten'
  BY DEF SelafinInv, FilesOK, LazyServed, TempWritten, vars
<1>5. PromisesKept'
  <2>1. \A f \in Files : Kept(f)' = Kept(f)
    BY DEF Kept, vars
  <2> QED
    BY <2>1 DEF SelafinInv, FilesOK, PromisesKept, vars
<1> QED
  BY <1>1, <1>2, <1>3, <1>4, <1>5 DEF SelafinInv, FilesOK

LEMMA InvInit == SelafinInit => SelafinInv
<1> SUFFICES ASSUME SelafinInit PROVE SelafinInv
  OBVIOUS
<1>1. /\ mesh.kind = "none" /\ job.stage = "idle" /\ DOMAIN groups = {}
      /\ \A f \in Files : promised[f] = {}
  BY NothingTyped DEF SelafinInit
<1>2. SelafinTypeOK
  BY TypesInit
<1>3. ShapesOK
  BY <1>1 DEF ShapesOK, Persisting
<1>4. FilesOK
  BY <1>1 DEF FilesOK, ReaderCurrent, ReaderClosed, JobFile, LazyServed, PromisesKept,
              TempWritten, Replacing
<1> QED
  BY <1>2, <1>3, <1>4 DEF SelafinInv

LEMMA InvNext ==
    ASSUME SelafinInv, [SelafinNext]_vars
    PROVE  SelafinInv'
<1>1. SelafinTypeOK'
  BY TypesNext DEF SelafinInv
<1>2. CASE SelafinNext
  <2>1. ShapesOK'
    BY <1>2, ShapesNext
  <2>2. FilesOK'
    BY <1>2, MeshCallFiles, GroupCallFiles, PersistStepFiles, KilledFiles, RestartFiles
       DEF SelafinNext
  <2> QED
    BY <1>1, <2>1, <2>2 DEF SelafinInv
<1>3. CASE UNCHANGED vars
  BY <1>3, SameInv
<1> QED
  BY <1>2, <1>3

(* The inductive invariant: what a mesh has read is what its file holds;   *)
(* a file being made holds nothing that was promised; a file, and file.tmp *)
(* while it is about to replace it, serve the loaded groups and keep the   *)
(* promised ones (mdal_selafin.cpp:1135-1297).                             *)
THEOREM SelafinInvHolds == SelafinSpec => []SelafinInv
<1> QED
  BY InvInit, InvNext, PTL DEF SelafinSpec

-----------------------------------------------------------------------------
LEMMA InvLazy ==
    ASSUME SelafinInv
    PROVE  LazyReadsItsData
<1> SUFFICES ASSUME Ready, mesh.kind = "lazy", Intact(disk[mesh.file]),
                    NEW i \in DOMAIN groups, groups[i].lazy, groups[i].steps > 0
             PROVE  ReadsTheSame(groups[i])
  BY DEF LazyReadsItsData, Intact
<1> DEFINE c == disk[mesh.file]
           g == groups[i]
<1>1. Serves(c, g)
  BY DEF SelafinInv, FilesOK, LazyServed
<1>2. c \in Content /\ g \in Group
  BY TypeParts DEF SelafinInv, MeshType
<1>3. SourceOK
  BY <1>1 DEF SourceOK, Readable, Serves
<1>4. View = Parsed(c)
  BY <1>3, ViewCurrent
<1>5. View.steps = g.steps /\ View.variables = c.variables
  BY <1>1, <1>2, <1>4, ParsedTyped DEF Serves
<1> QED
  BY <1>1, <1>2, <1>3, <1>5 DEF ReadsTheSame, Serves, Group

(* The groups of a loaded mesh go on reading the values they had when the  *)
(* mesh was loaded, whatever is added to its file, in a file that is whole *)
(* and lost nothing (mdal_selafin.cpp:389-398, 1254-1290).                 *)
THEOREM LazyGroupsRead == SelafinSpec => []LazyReadsItsData
<1> QED
  BY SelafinInvHolds, InvLazy, PTL

LEMMA InvPersisted ==
    ASSUME SelafinInv
    PROVE  PersistedStays
<1> SUFFICES ASSUME NEW f \in Files, NEW p \in promised[f],
                    Undisturbed(Kept(f)), NamedApart(Kept(f), p)
             PROVE  GivesBack(Kept(f), f, p)
  BY DEF PersistedStays
<1>1. Kept(f) \in Content /\ p.scalar \in BOOLEAN
  <2>1. /\ disk \in [Files -> Content] /\ temp \in [Files -> Content]
        /\ promised \in [Files -> SUBSET PromiseType]
    BY TypeParts DEF SelafinInv
  <2>2. p \in PromiseType
    BY <2>1
  <2> QED
    BY <2>1, <2>2 DEF Kept, PromiseType
<1>2. ClientShaped(p)
  BY DEF SelafinInv, ShapesOK
<1>3. Kept(f).frame = "whole" /\ Has(Kept(f), p) /\ SizesAgree(Kept(f))
  BY DEF SelafinInv, FilesOK, PromisesKept, Keeps, Undisturbed
<1> QED
  BY <1>1, <1>2, <1>3, PromiseGivenBack

(* A group that a close reported as persisted can be loaded from then on,  *)
(* from the file or from the file.tmp that is to replace it, until         *)
(* something else is written there (mdal_selafin.cpp:1286-1297).           *)
THEOREM PersistedGroupsStay == SelafinSpec => []PersistedStays
<1> QED
  BY SelafinInvHolds, InvPersisted, PTL

LEMMA InvSupersedes ==
    ASSUME SelafinInv
    PROVE  TempSupersedes
<1> DEFINE f == job.file
           c == disk[f]
           t == temp[f]
<1> SUFFICES ASSUME job.stage = "written", Undisturbed(t) PROVE TempGivesBack(f)
  BY DEF TempSupersedes
<1>1. f \in Files /\ c \in Content /\ t \in Content /\ job.group \in Group
  BY TypeParts DEF SelafinInv, JobType
<1>2. Readable(c) /\ StepsFit(c, job.group)
  BY DEF SelafinInv, FilesOK, TempWritten
<1>3. PICK v \in Nat : t = Extended(Parsed(c), job.group, v)
  BY DEF SelafinInv, FilesOK, TempWritten, Undisturbed
<1>4. /\ Parsed(c) \in Content /\ Parsed(c).variables = c.variables
      /\ Parsed(c).frame = c.frame
  BY <1>1, ParsedTyped
<1>5. /\ t.frame = c.frame /\ t.steps = job.group.steps
      /\ DOMAIN c.variables \subseteq DOMAIN t.variables
      /\ \A j \in DOMAIN c.variables : t.variables[j] = c.variables[j]
  <2> DEFINE e == Extended(Parsed(c), job.group, v)
  <2>1. e.frame = Parsed(c).frame /\ e.steps = job.group.steps
    BY <1>1, <1>4, ExtendedFields
  <2>2. /\ DOMAIN Parsed(c).variables \subseteq DOMAIN e.variables
        /\ \A j \in DOMAIN Parsed(c).variables : e.variables[j] = Parsed(c).variables[j]
    BY <1>1, <1>4, ExtendedPlaces
  <2>3. t = e
    BY <1>3
  <2> HIDE DEF e
  <2> QED
    BY <1>4, <2>1, <2>2, <2>3
<1> HIDE DEF t, c, f
<1>6. t.frame = "whole" /\ SizesAgree(t)
  BY <1>2, <1>5 DEF Undisturbed, Readable
<1>7. c.variables # <<>> => t.steps = StepsFound(c)
  BY <1>2, <1>5 DEF StepsFit
<1>8. ASSUME NEW k \in DOMAIN LoadedGroups(Parsed(c), f),
             NamedApart(t, LoadedGroups(Parsed(c), f)[k])
      PROVE  GivesBack(t, f, LoadedGroups(Parsed(c), f)[k])
  BY <1>1, <1>5, <1>6, <1>7, <1>8, LoadedGivenBack
<1> QED
  BY <1>8 DEF TempGivesBack, t, c, f

(* When the file is about to be deleted, file.tmp gives back every group   *)
(* the file does (mdal_selafin.cpp:1135-1284).                             *)
THEOREM TempGivesAllBack == SelafinSpec => []TempSupersedes
<1> QED
  BY SelafinInvHolds, InvSupersedes, PTL
=============================================================================
