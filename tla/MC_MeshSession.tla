--------------------------- MODULE MC_MeshSession ---------------------------
(* Small instances of MeshSession: a triangle and an edge on it; for the   *)
(* element numbers of .2dm files also a face the writer cannot write.      *)
EXTENDS MeshSession

MCElsName == [f \in {"dat", "dat_els"} |-> "dat_els"]
MCFaceInputs == {[size |-> 3, low |-> 0, high |-> 2]}

MCLargeFaceInputs ==
    MCFaceInputs \cup {[size |-> 5, low |-> 0, high |-> 4]}

MCEdgeInputs == {[start |-> 0, end |-> 1]}
MCValueSets == {{1, 3}}
=============================================================================
