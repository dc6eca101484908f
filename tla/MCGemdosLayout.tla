--------------------------- MODULE MCGemdosLayout ---------------------------
(***************************************************************************)
(* Small sectors and a small threshold: images of 12 to 70 sectors reach   *)
(* both widths of FAT, larger clusters and the counts of 32 bits, and      *)
(* other programs left boot sectors with either count.                     *)
(***************************************************************************)
EXTENDS GemdosLayout

MCLogicalSizes == <<1, 2>>
MCFloppyFat == [n \in {13} |-> 2]
Boot(count, wide) ==
    [size |-> 1, perCluster |-> 2, reserved |-> 1, fats |-> 2, roots |-> 2, count |-> count,
     wide |-> wide, spf |-> 1, media |-> 248, sum |-> 0, word |-> 0]
MCOtherBoots == {Boot(0, 16), Boot(24, 0)}
=============================================================================
