---------------------------- MODULE BlockReader ----------------------------
(***************************************************************************)
(* What the iterators of meshes promise their readers (mdal.h: "Returns    *)
(* vertices from iterator for the mesh"): one block after the other each   *)
(* delivers all the items of its mesh in their order, and it answers 0     *)
(* only when there are no more, or no mesh.                                *)
(***************************************************************************)
EXTENDS Integers, Sequences, SequencesExt

CONSTANTS Readers, Items

(* items: those of the mesh; read: those delivered; reading: "no" reader,  *)
(* "yes", or "over" once it has answered 0; gone: the mesh is closed.      *)
VARIABLE readers

NoReader == [items |-> <<>>, read |-> <<>>, reading |-> "no", gone |-> FALSE]

-----------------------------------------------------------------------------
(* What one reader may do, from r to s.                                    *)
Starts(r, s) ==
    /\ r = NoReader /\ s.items \in Seq(Items) /\ s.gone \in BOOLEAN
    /\ s = [items |-> s.items, read |-> <<>>, reading |-> "yes", gone |-> s.gone]

Delivers(r, s) ==
    /\ r.reading # "no" /\ ~r.gone
    /\ s.read \in Seq(Items) /\ Len(s.read) > Len(r.read)
    /\ IsPrefix(r.read, s.read) /\ IsPrefix(s.read, r.items)
    /\ s = [r EXCEPT !.read = s.read]

IsOver(r, s) ==
    /\ r.reading # "no" /\ (r.read = r.items \/ r.gone)
    /\ s = [r EXCEPT !.reading = "over"]

LosesMesh(r, s) == r.reading # "no" /\ s = [r EXCEPT !.gone = TRUE]

Stops(r, s) == r.reading # "no" /\ s = NoReader

-----------------------------------------------------------------------------
ReaderInit == readers = [i \in Readers |-> NoReader]

ReaderNext ==
    \A i \in Readers :
        LET r == readers[i]
            s == readers'[i]
        IN  \/ s = r \/ Starts(r, s) \/ Delivers(r, s) \/ IsOver(r, s)
            \/ LosesMesh(r, s) \/ Stops(r, s)

ReaderSpec == ReaderInit /\ [][ReaderNext]_readers
=============================================================================
