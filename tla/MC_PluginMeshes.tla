-------------------------- MODULE MC_PluginMeshes --------------------------
(* Small instances of PluginMeshes: dfsu has mixed faces, the example and  *)
(* the memory mesh a few of everything.                                    *)
EXTENDS PluginMeshes, TLC

MCShape ==
    [s \in Sources |->
        IF s = "memory" THEN [vertices |-> 2, edges |-> 1, faces |-> <<4, 3>>]
        ELSE IF Style[s] = "dfs" THEN [vertices |-> 2, edges |-> 0, faces |-> <<3, 4, 3>>]
        ELSE [vertices |-> 3, edges |-> 1, faces |-> <<3, 3>>]]

MCExports ==
    [p \in Plugins |->
        CASE p = "stub" -> "no mesh functions"
          [] p = "half" -> "no open"
          [] p = "other" -> "no driver"
          [] OTHER -> "all"]

MCStyle == [p \in Plugins |-> IF p = "example" THEN "example" ELSE "dfs"]

MCDatasetCount == [p \in Plugins |-> IF p = "dfsu" THEN 1 ELSE 0]

MCBlocks == {<<1, 4>>, <<2, 8>>}

MCSymmetry == Permutations(Handles) \cup Permutations(Iterators)
=============================================================================
