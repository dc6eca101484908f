--------------------------- MODULE PartitionTable ---------------------------
(***************************************************************************)
(* The partition table of a hard drive image                               *)
(* (src/atarinut/filesystem/ahdi.py): laying partitions out, writing the   *)
(* root sector with its XGM chain, ICD extension or master boot record,    *)
(* formatting the partitions and reading the table back, also when a       *)
(* sector of the chain was damaged.                                        *)
(*                                                                         *)
(* A drive maps sectors to what they hold.  Entries keep their start and   *)
(* size; flags, labels, ids other than XGM and byte order are left out.    *)
(***************************************************************************)
EXTENDS Naturals, Sequences, FiniteSets
LOCAL INSTANCE SequencesExt

CONSTANTS
    DriveSizes,     \* sizes of images, in sectors
    Primary,        \* entries of the root sector: PRIMARY_ENTRIES, 4
    IcdExtra,       \* entries of the ICD extension: ICD_EXTRA_ENTRIES, 8
    MaxPartitions,  \* bounds the partitions asked for
    AskedSizes,     \* sizes a request may ask for
    Share           \* a request without a size

VARIABLES
    asked,          \* what was asked for: drive size, scheme and sizes
    layout,         \* plan_layout(): start and size of each partition
    drive,          \* what each sector of the image holds
    damaged,        \* a sector of the chain was damaged
    tableStep       \* what create_partitioned_image() has done so far

tableVars == <<asked, layout, drive, damaged, tableStep>>
-----------------------------------------------------------------------------
Schemes == {"ahdi", "icd", "mbr"}
Requests == UNION {[1 .. n -> AskedSizes \cup {Share}] : n \in 1 .. MaxPartitions}
Asked == [total : DriveSizes, scheme : Schemes, sizes : Requests]

TableEntry(id, start, size) == [id |-> id, start |-> start, size |-> size]
NoEntry == TableEntry("none", 0, 0)
ZeroSector == [holds |-> "zeros"]
TableSector(slots, icd) == [holds |-> "table", slots |-> slots, icd |-> icd]
Sectors == 0 .. asked.total - 1
Total(sizes) == FoldLeft(LAMBDA sum, size : sum + size, 0, sizes)
-----------------------------------------------------------------------------
(***************************************************************************)
(* plan_layout()                                                           *)
(***************************************************************************)

\* The sector of its XGM table in front of every partition of the chain.
Overhead(k) ==
    IF asked.scheme = "ahdi" /\ Len(asked.sizes) > Primary /\ k >= Primary THEN 1 ELSE 0

Available == asked.total - 1
Flexible == {k \in DOMAIN asked.sizes : asked.sizes[k] = Share}

\* Mistake: the table sector of a partition without a size is not taken from
\* its share.
PlannedWithoutOverhead(fixed) ==
    [k \in DOMAIN asked.sizes |->
        IF k \in Flexible THEN (Available - fixed) \div Cardinality(Flexible) ELSE asked.sizes[k]]

\* What each partition gets: its own size, or an equal share of the rest.
Planned(fixed) ==
    [k \in DOMAIN asked.sizes |->
        IF k \in Flexible THEN (Available - fixed) \div Cardinality(Flexible) - Overhead(k)
                          ELSE asked.sizes[k]]

Fixed == Total([k \in DOMAIN asked.sizes |->
                    IF k \in Flexible THEN 0 ELSE asked.sizes[k] + Overhead(k)])

\* Partitions follow one another, each behind its table sector.
PlacedParts(sizes) ==
    [k \in DOMAIN sizes |->
        [start |-> 1 + Total([j \in 1 .. k |-> Overhead(j)]) + Total(SubSeq(sizes, 1, k - 1)),
         size |-> sizes[k]]]

TooManyEntries ==
    \/ asked.scheme = "mbr" /\ Len(asked.sizes) > Primary
    \/ asked.scheme = "icd" /\ Len(asked.sizes) > Primary + IcdExtra

Plan ==
    /\ tableStep = "asked"
    /\ Fixed <= Available
    /\ \A k \in Flexible : (Available - Fixed) \div Cardinality(Flexible) > Overhead(k)
    /\ ~TooManyEntries
    /\ layout' = PlacedParts(Planned(Fixed))
    /\ tableStep' = "planned"
    /\ UNCHANGED <<asked, drive, damaged>>
-----------------------------------------------------------------------------
(***************************************************************************)
(* write_partition_table()                                                 *)
(***************************************************************************)
Ends(k) == layout[k].start + layout[k].size
PlainEntries(first, last) ==
    [slot \in 1 .. (last - first + 1) |->
        TableEntry("GEM", layout[first + slot - 1].start, layout[first + slot - 1].size)]

\* The first partition of the chain; the table of each lies right before it.
Chained == Primary .. Len(layout)
FirstTable == layout[Primary].start - 1
TableOf(k) == layout[k].start - 1

\* Mistake: a link of the chain counts from the table it is in.
LinkFromOwnTable(k) ==
    IF k = Len(layout) THEN NoEntry
    ELSE TableEntry("XGM", TableOf(k + 1) - TableOf(k), asked.total - TableOf(k + 1))

\* A link of the chain counts from the first table, the partition of a table
\* from that table.
Link(k) ==
    IF k = Len(layout) THEN NoEntry
    ELSE TableEntry("XGM", TableOf(k + 1) - FirstTable, asked.total - TableOf(k + 1))
ChainTable(k) ==
    TableSector(<<TableEntry("GEM", layout[k].start - TableOf(k), layout[k].size), Link(k)>>, <<>>)

Root ==
    IF Len(layout) <= Primary THEN TableSector(PlainEntries(1, Len(layout)), <<>>)
    ELSE IF asked.scheme = "icd" THEN TableSector(PlainEntries(1, Primary), PlainEntries(Primary + 1, Len(layout)))
    ELSE TableSector(Append(PlainEntries(1, Primary - 1),
                            TableEntry("XGM", FirstTable, asked.total - FirstTable)), <<>>)

HasChain == Len(layout) > Primary /\ asked.scheme = "ahdi"

WriteTable ==
    /\ tableStep = "planned"
    /\ drive' = [s \in Sectors |->
           IF s = 0 THEN Root
           ELSE IF HasChain /\ \E k \in Chained : TableOf(k) = s
                THEN ChainTable(CHOOSE k \in Chained : TableOf(k) = s)
           ELSE drive[s]]
    /\ tableStep' = "tabled"
    /\ UNCHANGED <<asked, layout, damaged>>
-----------------------------------------------------------------------------
(***************************************************************************)
(* read_partition_table()                                                  *)
(***************************************************************************)
ValidEntry(entry) == entry.id # "none" /\ entry.start + entry.size <= asked.total

\* The partitions of the chain from one table on; a table that was seen, lies
\* beyond the image or holds no valid partition ends it with a note.
RECURSIVE FollowChain(_, _, _)
FollowChain(first, at, seen) ==
    IF at \in seen \/ at \notin Sectors THEN <<>>
    ELSE IF drive[at].holds # "table" \/ ~ValidEntry(drive[at].slots[1]) THEN <<>>
    ELSE LET head == drive[at].slots[1]
             link == drive[at].slots[2]
         IN  <<[start |-> at + head.start, size |-> head.size]>>
                 \o (IF link.id # "XGM" THEN <<>>
                     ELSE FollowChain(first, first + link.start, seen \cup {at}))

ListedEntry(entry) ==
    IF entry.id = "XGM" THEN FollowChain(entry.start, entry.start, {})
    ELSE <<[start |-> entry.start, size |-> entry.size]>>

Listed == FlattenSeq([slot \in DOMAIN drive[0].slots |-> ListedEntry(drive[0].slots[slot])])
              \o [slot \in DOMAIN drive[0].icd |->
                     [start |-> drive[0].icd[slot].start, size |-> drive[0].icd[slot].size]]
-----------------------------------------------------------------------------
\* create_partitioned_image() formats the partitions the table lists.
FormatPartitions ==
    /\ tableStep = "tabled"
    /\ drive' = [s \in Sectors |->
           IF \E k \in DOMAIN Listed : s \in Listed[k].start .. Listed[k].start + Listed[k].size - 1
           THEN [holds |-> "volume"] ELSE drive[s]]
    /\ tableStep' = "created"
    /\ UNCHANGED <<asked, layout, damaged>>

\* Between two openings a sector of the chain is wiped, or its link points at
\* another table, at itself or past the end of the image.
DamageChain ==
    /\ tableStep = "created" /\ ~damaged /\ HasChain
    /\ \E k \in Chained :
           \/ drive' = [drive EXCEPT ![TableOf(k)] = ZeroSector]
           \/ \E to \in {TableOf(j) : j \in Chained} \cup {asked.total} :
                  drive' = [drive EXCEPT ![TableOf(k)].slots[2] =
                                TableEntry("XGM", to - FirstTable, 0)]
    /\ damaged' = TRUE
    /\ UNCHANGED <<asked, layout, tableStep>>

TableInit ==
    /\ asked \in Asked
    /\ layout = <<>>
    /\ drive = [s \in Sectors |-> ZeroSector]
    /\ damaged = FALSE
    /\ tableStep = "asked"

TableNext == Plan \/ WriteTable \/ FormatPartitions \/ DamageChain
TableSpec == TableInit /\ [][TableNext]_tableVars
-----------------------------------------------------------------------------
TableTypeOK ==
    /\ asked \in Asked
    /\ \A k \in DOMAIN layout : layout[k] \in [start : Nat \ {0}, size : Nat \ {0}]
    /\ DOMAIN drive = Sectors
    /\ damaged \in BOOLEAN
    /\ tableStep \in {"asked", "planned", "tabled", "created"}

\* create_partitioned_image(): a created drive holds the partitions that were
\* asked for, in order, disjoint, within the image and clear of the tables, and
\* reading the table lists exactly them; a damaged chain lists each partition
\* at most once and invents none.
TableTellsTheDrive ==
    tableStep = "created" =>
        /\ \A k \in DOMAIN layout : k \notin Flexible => layout[k].size = asked.sizes[k]
        /\ \A k \in DOMAIN layout : Ends(k) <= asked.total
        /\ \A j, k \in DOMAIN layout : j < k => Ends(j) + Overhead(k) <= layout[k].start
        /\ drive[0].holds = "table"
        /\ ~damaged => Listed = layout
        /\ damaged => /\ \A k \in DOMAIN Listed : \E j \in DOMAIN layout : Listed[k] = layout[j]
                      /\ \A j, k \in DOMAIN Listed : Listed[j] = Listed[k] => j = k
=============================================================================
