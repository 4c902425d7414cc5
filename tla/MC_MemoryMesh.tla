--------------------------- MODULE MC_MemoryMesh ---------------------------
(* Small instances of MemoryMesh.  The faces are a triangle, a quad that   *)
(* needs the second batch of vertices, one above the .2dm limit and one    *)
(* with a negative index, and for the writer of .2dm files a hexagon.  The *)
(* edges are one that needs the second batch and one with a negative start.*)
EXTENDS MemoryMesh

Triangle == [size |-> 3, low |-> 0, high |-> 2]
Quad     == [size |-> 4, low |-> 0, high |-> 3]
Hexagon  == [size |-> 6, low |-> 0, high |-> 5]
Heptagon == [size |-> 7, low |-> 0, high |-> 5]
Negative == [size |-> 3, low |-> -1, high |-> 1]

MCFaceInputs == {Triangle, Quad, Heptagon, Negative}
MCLargeFaceInputs == {Triangle, Quad, Hexagon}

MCEdgeInputs ==
    {[start |-> 0, end |-> 3], [start |-> -1, end |-> 0]}
=============================================================================
