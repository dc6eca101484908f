--------------------------- MODULE MCGemdosVolume ---------------------------
(***************************************************************************)
(* Small instances of GemdosVolume: a new volume, and one with a file A in *)
(* two pieces around a file B, and one with two folders, of which A is     *)
(* full, and two free clusters.                                            *)
(***************************************************************************)
EXTENDS GemdosVolume

UsedFat == [c \in Clusters |-> CASE c = 1 -> 3 [] c \in {2, 3} -> Eoc [] OTHER -> Free]
Used ==
    [Blank EXCEPT
        !.fat = [i \in 1 .. 2 |-> UsedFat],
        !.root[1] = Live("A", FALSE, 1, 2),
        !.root[2] = Live("B", FALSE, 2, 1),
        !.data[1] = FileBlock(0, 1, 2),
        !.data[3] = FileBlock(0, 2, 2),
        !.data[2] = FileBlock(0, 1, 1)]

NestedFat == [c \in Clusters |-> IF c <= 3 THEN Eoc ELSE Free]
Nested ==
    [Blank EXCEPT
        !.fat = [i \in 1 .. 2 |-> NestedFat],
        !.root[1] = Live("A", TRUE, 1, 0),
        !.root[2] = Live("B", TRUE, 3, 0),
        !.data[1] = [DirBlock(1, Root, ClusterEntries - 2) EXCEPT
                        !.records[1] = Live("A", FALSE, 2, 1)],
        !.data[2] = FileBlock(0, 1, 1),
        !.data[3] = DirBlock(3, Root, ClusterEntries - 2)]

MCVolumes == {Blank, Used, Nested}
=============================================================================
