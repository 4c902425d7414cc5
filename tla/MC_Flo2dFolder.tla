--------------------------- MODULE MC_Flo2dFolder ---------------------------
(* Small instances of Flo2dFolder: every arrangement of up to three cells  *)
(* in two rows, read with results of every kind, and channels over four    *)
(* cells with every way in which nodes can share banks.                    *)
EXTENDS Flo2dFolder

CellAt(cells, centre) ==
    IF centre \in ToSet(cells) THEN CHOOSE c \in DOMAIN cells : cells[c] = centre ELSE 0

NeighboursOf(cells) ==
    [c \in DOMAIN cells |->
        [k \in 1..4 |-> CellAt(cells, <<cells[c][1] + <<0, 2, 0, -2>>[k],
                                        cells[c][2] + <<2, 0, -2, 0>>[k]>>)]]

Results == {[files |-> {}, broken |-> {}], [files |-> OutFiles, broken |-> {"VELOC.OUT"}]}

Results2d ==
    Results \cup {[files |-> OutFiles, broken |-> b] : b \in {{}, {"TIMDEP.OUT"}, {"DEPTH.OUT"}}}
            \cup {[files |-> {"VELFP.OUT"}, broken |-> {}]}

FolderOf(cells, results) ==
    [files |-> {"FPLAIN.DAT"} \cup results.files, cells |-> cells, fplain |-> NeighboursOf(cells),
     banks |-> <<>>, chan |-> <<>>, blocks |-> <<>>, endsWithLine |-> TRUE,
     broken |-> results.broken, hdf5 |-> NoFile, writable |-> FALSE]

Centres == {0, 2, 4} \X {0, 2}

Arrangements == {<<a>> : a \in {<<0, 0>>}} \cup {s \in Centres \X Centres : s[1] # s[2]}
                \cup {s \in Centres \X Centres \X {<<2, 0>>, <<2, 2>>} :
                        Cardinality({s[1], s[2], s[3]}) = 3}

MCFolders2d == {FolderOf(cells, [files |-> {}, broken |-> {}]) : cells \in Arrangements}
               \cup {FolderOf(<<<<0, 0>>, <<2, 0>>>>, results) : results \in Results2d}

FourCells == <<<<0, 0>>, <<4, 0>>, <<0, 4>>, <<4, 4>>>>

Line(kind, a, b) == [kind |-> kind, a |-> a, b |-> b]
Reach(banks) == [i \in DOMAIN banks |-> Line("node", banks[i][1], 0)]

ChannelFolder(banks, chan, blocks, ends) ==
    [files |-> {"CHAN.DAT", "CHANBANK.DAT"} \cup (IF blocks = <<>> THEN {} ELSE {"HYCHAN.OUT"}),
     cells |-> FourCells, fplain |-> <<>>, banks |-> banks, chan |-> chan, blocks |-> blocks,
     endsWithLine |-> ends, broken |-> {}, hdf5 |-> NoFile, writable |-> FALSE]

TwoNodes == {<<a, b>> : a \in {1, 2} \X {3, 4}, b \in {1, 2, 3} \X {2, 3, 4}}

BlockSets == {<<>>, <<[cell |-> 1, rows |-> <<1, 2>>], [cell |-> 2, rows |-> <<3, 4>>]>>,
              <<[cell |-> 1, rows |-> <<1, 2>>], [cell |-> 2, rows |-> <<3>>]>>,
              <<[cell |-> 1, rows |-> <<1>>], [cell |-> 2, rows |-> <<3, 4>>]>>}

MCFolders1d ==
    {ChannelFolder(banks, Reach(banks), blocks, TRUE) : banks \in TwoNodes, blocks \in BlockSets}
    \cup {ChannelFolder(<<<<1, 3>>, <<2, 3>>>>, chan, <<[cell |-> 1, rows |-> <<1>>]>>, FALSE) :
             chan \in {<<Line("node", 1, 0), Line("other", 0, 0), Line("node", 2, 0)>>,
                       <<Line("confluence", 1, 2)>>, <<Line("confluence", 0, 2)>>}}
    \cup {[ChannelFolder(<<<<1, 0>>>>, <<>>, <<>>, TRUE) EXCEPT !.files = files] :
             files \in {{"CHAN.DAT", "CHANBANK.DAT"}, {"CHAN.DAT"}}}

Pair == FolderOf(<<<<0, 0>>, <<2, 0>>>>, [files |-> OutFiles, broken |-> {}])

(* TIMDEP.HDF5 as another program leaves it.                               *)
ForeignFile ==
    [there |-> TRUE, rooted |-> TRUE,
     groups |-> ("h" :> [vector |-> FALSE, faces |-> 2, holds |-> <<"1", "0">>, stage |-> "whole"])]

MCSavingFolders == {[Pair EXCEPT !.writable = TRUE],
                    [Pair EXCEPT !.writable = TRUE, !.hdf5 = ForeignFile],
                    [ChannelFolder(<<<<1, 3>>>>, <<>>, <<>>, TRUE) EXCEPT !.writable = TRUE]}

MCFolders == MCFolders1d \cup MCFolders2d \cup MCSavingFolders

MCNumbered ==
    [n \in Names |-> CASE n = "h" -> "h_0" [] n = "h_0" -> "h_0_0"
                       [] n = "h/max" -> "h/max_0" [] OTHER -> n]

MCAbove == [n \in Names |-> IF n \in {"h/max", "h/max_0"} THEN "h" ELSE "/"]

MCNamesInOrder == <<"h", "h_0", "h_0_0">>

MCGroups ==
    {[name |-> "h", vector |-> FALSE, holds |-> <<"0", "1">>],
     [name |-> "h", vector |-> TRUE, holds |-> <<"nan">>],
     [name |-> "h_0", vector |-> FALSE, holds |-> <<"1">>],
     [name |-> "h/max", vector |-> FALSE, holds |-> <<"1">>]}
=============================================================================
