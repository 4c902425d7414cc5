---------------------------- MODULE MC_UgridFile ----------------------------
(* Small instances of UgridFile.  "h_y_" is read as the y component of "h",*)
(* and has its netCDF name; the faces of a mesh are in "face_nodes".  The  *)
(* foreign files have a network and a 2D mesh, and on that a group with the*)
(* time last, whose variable is named otherwise, and one on edges, or a    *)
(* vector without time.                                                    *)
EXTENDS UgridFile

MCUnspaced == [n \in MeshNames |-> IF n = "my mesh" THEN "my_mesh" ELSE n]

MCReadAs ==
    [v \in Names \X Parts |->
        IF v = <<"h_y_", "s">> THEN <<"h", "y">> ELSE v]

MCVarName == [v \in MeshNames \X Names \X Parts |-> <<v[1], MCReadAs[<<v[2], v[3]>>]>>]

Discharge == <<"my_mesh", <<"discharge", "s">>>>

MCVarNames == {MCVarName[v] : v \in DOMAIN MCVarName} \cup {Discharge}

MCOwnVars == [n \in MeshNames |-> {<<n, <<"face_nodes", "s">>>>}]

MCMeshChoices ==
    {[vertices |-> 0, faces |-> 0, atFill |-> FALSE],
     [vertices |-> 1, faces |-> 0, atFill |-> TRUE],
     [vertices |-> 3, faces |-> 1, atFill |-> FALSE]}

MCGroup(name, vector, place, times) ==
    [name |-> name, vector |-> vector, place |-> place, times |-> times]

MCGroups ==
    {MCGroup("h", FALSE, "node", times) : times \in {<<>>, <<1, 2>>, <<2, 3>>}}
    \cup {MCGroup("h", TRUE, "node", <<1, 2>>), MCGroup("h", TRUE, "face", <<1>>),
          MCGroup("flow", FALSE, "face", <<1, 2>>), MCGroup("h_y_", FALSE, "node", <<1>>),
          MCGroup("face_nodes", FALSE, "face", <<1>>)}

ForeignTopology(name, dim, nodes, elements) ==
    [name |-> name, dim |-> dim, nodes |-> nodes, elements |-> elements,
     nodesFill |-> FALSE, elementsFill |-> FALSE,
     coordinates |-> TRUE, own |-> MCOwnVars[name]]

ForeignVariable(name, part, place, order, n) ==
    [id |-> IF name = "flow" THEN Discharge ELSE MCVarName[<<"my_mesh", name, part>>],
     name |-> name, part |-> part, mesh |-> "my_mesh", place |-> place,
     order |-> order, written |-> n]

ForeignMeshes == <<ForeignTopology("network", 1, 2, 1), ForeignTopology("my_mesh", 2, 4, 2)>>

MCForeign ==
    {[meshes |-> ForeignMeshes, timed |-> TRUE, times |-> <<1, 2>>,
      variables |-> <<ForeignVariable("flow", "s", "face", "last", 2),
                      ForeignVariable("edges", "s", "edge", "static", 1)>>],
     [meshes |-> ForeignMeshes, timed |-> FALSE, times |-> <<>>,
      variables |-> <<ForeignVariable("wind", "x", "node", "static", 1),
                      ForeignVariable("wind", "y", "node", "static", 1)>>]}
=============================================================================
