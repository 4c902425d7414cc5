----------------------------- MODULE Flo2dMesh -----------------------------
(***************************************************************************)
(* What the FLO2D driver makes of the text files of a folder: a 2D mesh of *)
(* square cells, of which the files give the centres and the neighbours,   *)
(* with the results of a simulation, and a 1D mesh of channel nodes, which *)
(* lie between the cells of their two banks, with its hydrographs.  Cells  *)
(* are numbered from 1, in their order in CADPTS.DAT.                      *)
(***************************************************************************)
EXTENDS Integers, Sequences, FiniteSets, TLC, SequencesExt

(* The contents of a folder.  files: the files that are there.             *)
(*   cells   CADPTS.DAT, the centres, in a unit that makes all middles and *)
(*           corners whole                                                 *)
(*   fplain  FPLAIN.DAT, the north, east, south and west neighbour of each *)
(*           cell, 0: none                                                 *)
(*   banks   CHANBANK.DAT, the left and the right bank of each node,       *)
(*           0: none                                                       *)
(*   chan    CHAN.DAT, lines of nodes and confluences, and lines that are  *)
(*           neither                                                       *)
(*   hychan  HYCHAN.OUT, blocks of rows for a cell each; whether a line    *)
(*           follows the last                                              *)
(*   broken  the OUT files in which a line has a wrong shape               *)
(*   hdf5    TIMDEP.HDF5 as it is at first                                 *)
(*   writable  whether the file system lets it be made or changed          *)
ChanLine == [kind : {"node", "confluence", "other"}, a : Nat, b : Nat]
Block == [cell : Nat, rows : Seq(Nat)]
OutFiles == {"TIMDEP.OUT", "DEPTH.OUT", "VELFP.OUT", "VELOC.OUT"}
MeshFiles == {"FPLAIN.DAT", "CHAN.DAT", "CHANBANK.DAT", "HYCHAN.OUT"}

IsFolder(f) ==
    /\ f.files \subseteq MeshFiles \cup OutFiles /\ f.broken \subseteq OutFiles
    /\ f.cells \in Seq(Int \X Int)
    /\ \A c \in DOMAIN f.cells, axis \in 1..2 : f.cells[c][axis] % 2 = 0
    /\ f.fplain \in Seq([1..4 -> DOMAIN f.cells \cup {0}])
    /\ DOMAIN f.fplain \subseteq DOMAIN f.cells
    /\ f.banks \in Seq(Nat \X Nat)
    /\ f.chan \in Seq(ChanLine) /\ f.blocks \in Seq(Block)
    /\ f.endsWithLine \in BOOLEAN /\ f.writable \in BOOLEAN

Cells(f) == DOMAIN f.cells
Least(S) == CHOOSE m \in S : \A n \in S : m <= n

-----------------------------------------------------------------------------
(* parseFPLAINFile: the size of a cell is its distance from a neighbour,   *)
(* the first there is in the file.                                         *)
HasNeighbour(f, c) == \E k \in 1..4 : f.fplain[c][k] # 0

Isolated(f) == \A c \in DOMAIN f.fplain : ~HasNeighbour(f, c)

Distance(a, b) == IF a < b THEN b - a ELSE a - b

CellSize(f) ==
    LET c == Least({d \in DOMAIN f.fplain : HasNeighbour(f, d)})
        k == Least({j \in 1..4 : f.fplain[c][j] # 0})
        axis == IF k % 2 = 1 THEN 2 ELSE 1
    IN  Distance(f.cells[f.fplain[c][k]][axis], f.cells[c][axis])

(* createVertex and createMesh2d: where the corners of a cell are, and     *)
(* where they are in the grid that finds a corner that another cell has.   *)
CornerSide == <<<<1, -1>>, <<1, 1>>, <<-1, 1>>, <<-1, -1>>>>
(* Mutant: the two orders of corners differ.                              *)
CornerInGridUpsideDown == <<<<1, 1>>, <<1, 0>>, <<0, 0>>, <<0, 1>>>>

CornerInGrid == <<<<1, 0>>, <<1, 1>>, <<0, 1>>, <<0, 0>>>>

Corner(f, c, p) ==
    [axis \in 1..2 |-> f.cells[c][axis] + CornerSide[p][axis] * (CellSize(f) \div 2)]

GridPlace(f, c, p) ==
    LET least(axis) == Least({f.cells[d][axis] : d \in Cells(f)}) - CellSize(f) \div 2
    IN  [axis \in 1..2 |->
            CornerInGrid[p][axis] + (f.cells[c][axis] - least(axis)) \div CellSize(f)]

(* The corners of all cells in the order in which they are visited; each   *)
(* that finds its place in the grid empty becomes a vertex.                *)
Corners(f) == [n \in 1..4 * Len(f.cells) |-> <<((n - 1) \div 4) + 1, ((n - 1) % 4) + 1>>]

SamePlace(f, a, b) == GridPlace(f, a[1], a[2]) = GridPlace(f, b[1], b[2])

Visited(f, new, corner) ==
    IF \E i \in DOMAIN new : SamePlace(f, new[i], corner) THEN new ELSE Append(new, corner)

NewCorners(f) ==
    LET new[n \in 0..4 * Len(f.cells)] ==
            IF n = 0 THEN <<>> ELSE Visited(f, new[n - 1], Corners(f)[n])
    IN  new

Vertices2d(f) ==
    LET new == NewCorners(f)[4 * Len(f.cells)]
    IN  [i \in DOMAIN new |-> Corner(f, new[i][1], new[i][2])]

Faces2d(f) ==
    LET new == NewCorners(f)[4 * Len(f.cells)]
    IN  [c \in Cells(f) |->
            [p \in 1..4 |-> CHOOSE i \in DOMAIN new : SamePlace(f, new[i], <<c, p>>)]]

-----------------------------------------------------------------------------
(* parseOUTDatasets: the groups the OUT files give, in their order; a file *)
(* with a broken line ends it.  The velocities are those of both VELFP.OUT *)
(* and VELOC.OUT, and are not there when one of the files is not.          *)
OutGroups == << <<{"TIMDEP.OUT"}, <<"Depth", "Velocity", "Water Level">>>>,
                <<{"DEPTH.OUT"}, <<"Depth/Maximums", "Water Level/Maximums">>>>,
                <<{"VELFP.OUT", "VELOC.OUT"}, <<"Velocity/Maximums">>>> >>

(* VELOC.OUT is not looked at without VELFP.OUT.                           *)
Breaks(f, needed) ==
    \E file \in needed \cap f.files \cap f.broken :
        file = "VELOC.OUT" => "VELFP.OUT" \in f.files

OutRead(f) ==
    LET failing == {i \in DOMAIN OutGroups : Breaks(f, OutGroups[i][1])}
        last == IF failing = {} THEN Len(OutGroups) ELSE Least(failing) - 1
        names == [i \in 1..last |->
                     IF OutGroups[i][1] \subseteq f.files THEN OutGroups[i][2] ELSE <<>>]
    IN  [groups |-> FlattenSeq(names), failed |-> failing # {}]

-----------------------------------------------------------------------------
(* parseCHANBANKFile: which vertex a cell belongs to.  A right bank that   *)
(* is known already belongs to this vertex, too; a left bank belongs to    *)
(* this vertex alone from now on.                                          *)
OwnersAfter(to, i, left, right) ==
    [c \in DOMAIN to \cup {left, right} |-> IF c = left \/ c \notin DOMAIN to THEN i ELSE to[c]]

(* Mutant: a cell belongs to the first vertex only.                        *)
LinkedOnce(links, i, left, right) ==
    [to |-> OwnersAfter(links.to, i, left, right), also |-> links.also]

Linked(links, i, left, right) ==
    [to |-> OwnersAfter(links.to, i, left, right),
     also |-> links.also \cup (IF right \in DOMAIN links.to THEN {<<right, i>>} ELSE {})]

LinksUpTo(f) ==
    LET links[i \in 0..Len(f.banks)] ==
            IF i = 0 THEN [to |-> <<>>, also |-> {}]
            ELSE Linked(links[i - 1], i, f.banks[i][1], f.banks[i][2])
    IN  links

Links(f) == LinksUpTo(f)[Len(f.banks)]

BanksRefused(f) == \E i \in DOMAIN f.banks : f.banks[i][1] = 0 \/ f.banks[i][2] = 0

(* createMesh1d: a vertex is at its first bank, and goes to the middle of  *)
(* that and the second when that comes.  <<>>: nowhere, NaN.               *)
IsAt(links, v, c) == (c \in DOMAIN links.to /\ links.to[c] = v) \/ <<c, v>> \in links.also

Toward(at, centre) ==
    IF at = <<>> THEN centre ELSE [axis \in 1..2 |-> (at[axis] + centre[axis]) \div 2]

Moved(f, links, v, at, c) == IF IsAt(links, v, c) THEN Toward(at, f.cells[c]) ELSE at

Placed(f, links, v) ==
    LET at[c \in 0..Len(f.cells)] ==
            IF c = 0 THEN <<>> ELSE Moved(f, links, v, at[c - 1], c)
    IN  at

Vertices1d(f) ==
    LET links == Links(f)
    IN  [v \in DOMAIN f.banks |-> Placed(f, links, v)[Len(f.cells)]]

(* parseCHANFile: an edge between a node and the one on the line before,   *)
(* or between the ends of a confluence, when both belong to a vertex.      *)
Ends(f, i) ==
    IF f.chan[i].kind = "confluence" THEN {<<f.chan[i].a, f.chan[i].b>>}
    ELSE IF i > 1 /\ f.chan[i].kind = "node" /\ f.chan[i - 1].kind = "node"
         THEN {<<f.chan[i - 1].a, f.chan[i].a>>} ELSE {}

EdgeAt(f, to, i) ==
    {<<to[e[1]], to[e[2]]>> : e \in {e \in Ends(f, i) : e[1] \in DOMAIN to /\ e[2] \in DOMAIN to}}

WithEdge(f, to, edges, i) ==
    IF EdgeAt(f, to, i) = {} THEN edges ELSE Append(edges, CHOOSE e \in EdgeAt(f, to, i) : TRUE)

EdgesUpTo(f, to) ==
    LET edges[i \in 0..Len(f.chan)] ==
            IF i = 0 THEN <<>> ELSE WithEdge(f, to, edges[i - 1], i)
    IN  edges

Edges1d(f) == EdgesUpTo(f, Links(f).to)[Len(f.chan)]

ChanRefused(f) ==
    \E i \in DOMAIN f.chan :
        f.chan[i].kind = "confluence" /\ (f.chan[i].a = 0 \/ f.chan[i].b = 0)

-----------------------------------------------------------------------------
(* parseHYCHANFile: the first block says how many rows a block has.  What  *)
(* one block leaves in `data` stays there for rows the next does not have. *)
Rows(f) == Len(f.blocks[1].rows)

(* The second reading begins where the first ended when that was the end   *)
(* of the file, and finds nothing.                                         *)
HychanSeen(f) == Len(f.blocks) > 1 \/ f.endsWithLine

HychanRefused(f) ==
    \/ f.blocks = <<>>
    \/ HychanSeen(f) /\ \E k \in DOMAIN f.blocks : Len(f.blocks[k].rows) > Rows(f)

DataAfter(f, k) ==
    [i \in 1..Rows(f) |->
        LET having == {l \in 1..k : i \in DOMAIN f.blocks[l].rows}
        IN  IF having = {} THEN 0 ELSE f.blocks[Max(having)].rows[i]]

(* The value at each vertex in each row, that of the last block of a cell  *)
(* that belongs to it; <<>>: NaN.                                          *)
Hydrographs(f) ==
    LET to == Links(f).to
        blocksOf(v) == {k \in DOMAIN f.blocks :
                           f.blocks[k].cell \in DOMAIN to /\ to[f.blocks[k].cell] = v}
    IN  [v \in DOMAIN f.banks |->
            IF HychanSeen(f) /\ blocksOf(v) # {} THEN DataAfter(f, Max(blocksOf(v))) ELSE <<>>]
=============================================================================
