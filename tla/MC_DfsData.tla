---------------------------- MODULE MC_DfsData ----------------------------
(* Small instances of DfsData: two files on two columns of two and three   *)
(* elements, one where the top one of the second column is without height  *)
(* at the second step, one where that of the first is, and a file on two   *)
(* faces, the second dry at the first step.                                *)
EXTENDS DfsData

MCOnVolumes(groups, second) ==
    [volumes |-> TRUE, layers |-> <<2, 3>>, groups |-> groups,
     levels |-> <<<<3, 4>>, second>>, dry |-> <<{}, {}>>]

MCOnFaces ==
    [volumes |-> FALSE, layers |-> <<1, 1>>, groups |-> <<FALSE, TRUE>>,
     levels |-> <<<<2, 2>>, <<2, 2>>>>, dry |-> <<{2}, {}>>]

MCFiles ==
    {MCOnVolumes(<<FALSE, TRUE>>, <<3, 3>>), MCOnVolumes(<<FALSE>>, <<2, 4>>), MCOnFaces}

MCRequests == {<<1, 1>>, <<0, 2>>, <<2, 3>>}
=============================================================================
