-------------------------- MODULE MC_DatasetGroups --------------------------
(* Small instances of DatasetGroups.  For the binary files: a mesh with a  *)
(* face, and one with another number of vertices and none.  For the ASCII  *)
(* files, which count elements: meshes with faces, with edges and more of  *)
(* them than vertices, and with both.                                      *)
EXTENDS DatasetGroups

MeshOf(v, f, e) == [vertices |-> v, faces |-> f, edges |-> e]

MCCountChoices == {MeshOf(2, 1, 0), MeshOf(1, 0, 0)}
MCAsciiCounts  == {MeshOf(2, 2, 0), MeshOf(2, 1, 1), MeshOf(1, 0, 2)}

MCTwoValueSets == {{1, 3}, {2}}
MCOneValueSet == {{1, 3}}

(* "els/dat" stands for a name whose "_els" is not in its base name.       *)
MCElsName == [f \in {"dat", "dat_els"} |-> "dat_els"]
MCAsciiElsName == [f \in {"dat", "dat_els", "els/dat"} |-> "dat_els"]
=============================================================================
