--------------------------- MODULE GroupLifecycle ---------------------------
(***************************************************************************)
(* What the C API promises of the dataset groups of a mesh.  A group is    *)
(* opened empty, takes datasets one after the other, and is sealed once:   *)
(* from then on its data never changes and its statistics are those of all *)
(* its data.  Loaded groups are born sealed.  Groups leave the list by     *)
(* removal or all together.                                                *)
(***************************************************************************)
EXTENDS Integers, Sequences, SequencesExt

VARIABLE lives   \* Seq([kind, sealed, data, stats])

AllValues(data) == UNION {data[j].vals : j \in DOMAIN data}

(* The least and the greatest value there is, if there is any.             *)
Summary(data) ==
    {x \in AllValues(data) :
        \/ \A y \in AllValues(data) : x <= y
        \/ \A y \in AllValues(data) : y <= x}

Sealed(g) == g.sealed /\ g.stats = Summary(g.data)

Opened(g) == ~g.sealed /\ g.data = <<>> /\ g.stats = {}

-----------------------------------------------------------------------------
OpenOrImport ==
    /\ Len(lives') = Len(lives) + 1
    /\ IsPrefix(lives, lives')
    /\ Opened(lives'[Len(lives')]) \/ Sealed(lives'[Len(lives')])

(* Only group i changes, and only its fields sealed, data and stats.       *)
Changes(i) ==
    /\ ~lives[i].sealed
    /\ Len(lives') = Len(lives)
    /\ \A j \in DOMAIN lives \ {i} : lives'[j] = lives[j]
    /\ lives'[i].kind = lives[i].kind

Extend(i) ==
    /\ Changes(i)
    /\ ~lives'[i].sealed
    /\ Len(lives'[i].data) = Len(lives[i].data) + 1
    /\ IsPrefix(lives[i].data, lives'[i].data)

Seal(i) ==
    /\ Changes(i)
    /\ Sealed(lives'[i])
    /\ lives'[i].data = lives[i].data

Drop(i) == lives' = RemoveAt(lives, i)

(* The mesh changes; a mesh is loaded, with groups of its own.             *)
Clear == lives' = <<>>

Companions == lives = <<>> /\ \A i \in DOMAIN lives' : Sealed(lives'[i])

-----------------------------------------------------------------------------
LifeInit == lives = <<>>

LifeNext ==
    \/ OpenOrImport
    \/ \E i \in DOMAIN lives : Extend(i) \/ Seal(i) \/ Drop(i)
    \/ Clear
    \/ Companions

LifeSpec == LifeInit /\ [][LifeNext]_lives
=============================================================================
